------------------------------- MODULE MCOms -------------------------------
(* Small instances of Oms for TLC. *)
EXTENDS Oms, TLC

Term(client, side, type, product, price, qty) ==
    [client |-> client, side |-> side, type |-> type, product |-> product,
     price |-> price, qty |-> qty, complete |-> TRUE, listed |-> TRUE]

\* CLIENT001 can pay for one of its orders, CLIENT002 for all of them.
SmallBalance == [c \in {"CLIENT001", "CLIENT002"} |-> IF c = "CLIENT001" THEN 240 ELSE 400]

\* Two buys that compete for one client's balance, a sell for them to trade with.
LimitTerms ==
    {Term("CLIENT001", "BUY", "LIMIT", "CNC", 6, 2),
     Term("CLIENT002", "SELL", "LIMIT", "MIS", 5, 1)}

\* All ways through PlaceOrder: also a symbol without a book, an unknown client, a
\* price outside the band, a quantity above the freeze limit, a stop-loss order
\* without its trigger, a product without a margin rate and a negative price.
MixedTerms ==
    LimitTerms \union
    {Term("CLIENT001", "BUY", "MARKET", "CNC", 0, 2),
     [Term("CLIENT001", "BUY", "LIMIT", "NRML", 6, 1) EXCEPT !.listed = FALSE],
     Term("CLIENT009", "SELL", "LIMIT", "MIS", 5, 1),
     Term("CLIENT002", "SELL", "LIMIT", "MIS", 7, 1),
     Term("CLIENT002", "SELL", "LIMIT", "MIS", 5, 5),
     Term("CLIENT002", "SELL", "SL-M", "BO", 4, 2),
     Term("CLIENT001", "SELL", "SL-M", "CNC", -4, 1),
     [Term("CLIENT002", "SELL", "SL", "MIS", 5, 1) EXCEPT !.complete = FALSE]}

OrderSymmetry == Permutations(Orders)
=============================================================================
