------------------------------- MODULE MCGtt -------------------------------
(* A small instance of Gtt for TLC. *)
EXTENDS Gtt

\* A take-profit that goes to the market and a stop-loss with a limit that may
\* expire; registered first and second they name each other, otherwise one names
\* the other, itself or a GTT that does not exist.  A request that Add refuses.
PairTerms ==
    {[condition |-> "LTP_ABOVE", trigger |-> 2, qty |-> 1, limit |-> 0, pair |-> 2,
      expires |-> FALSE],
     [condition |-> "LTP_BELOW", trigger |-> 2, qty |-> 1, limit |-> 1, pair |-> 1,
      expires |-> TRUE],
     [condition |-> "LTP_BELOW", trigger |-> 0, qty |-> 1, limit |-> 1, pair |-> 0,
      expires |-> FALSE]}
=============================================================================
