----------------------------- MODULE MCJournal -----------------------------
(* Small instances of Journal for TLC. *)
EXTENDS Journal, TLC

CONSTANTS o1, o2, o3

Term(client, side, qty, charged, today) ==
    [client |-> client, side |-> side, qty |-> qty, charged |-> charged, today |-> today]

\* A sell order that two buy orders fill: one of the day, and one of the seller itself
\* from the day before, which is in the book
TwoDays == [o \in Orders |->
    CASE o = o1 -> Term("CLIENT001", "BUY", 1, TRUE, FALSE)
      [] o = o2 -> Term("CLIENT001", "SELL", 2, TRUE, TRUE)
      [] o = o3 -> Term("CLIENT002", "BUY", 1, TRUE, TRUE)]

\* A buy order of the day, in the book, that a sell order fills
OneFill == [o \in Orders |->
    CASE o = o1 -> Term("CLIENT001", "BUY", 1, TRUE, TRUE)
      [] o = o2 -> Term("CLIENT002", "SELL", 1, TRUE, TRUE)]
=============================================================================
