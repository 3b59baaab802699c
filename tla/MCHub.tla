------------------------------- MODULE MCHub -------------------------------
(* A small instance of Hub for TLC. *)
EXTENDS Hub

\* Every connection belongs to a client of its own.
CONSTANT c1
OwnOrders == [c \in Conns |-> "orders"]

\* What each peer sends: one message more than its channel has room for replies.
TwoReads == [c \in Conns |-> 2]
=============================================================================
