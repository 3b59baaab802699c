----------------------------- MODULE MCMatching -----------------------------
(* Small instances of Matching for TLC. *)
EXTENDS Matching, TLC

CONSTANTS o1, o2, o3

Limit(side, price, qty) == [side |-> side, type |-> "LIMIT", price |-> price, qty |-> qty]

\* Two prices and two sizes on each side; a market order sent without a price; a
\* stop-loss-market order, which the engine treats as a limit order, with a price that
\* validateBasics does not look at.
MixedList ==
    <<Limit("BUY", 2, 2), Limit("BUY", 1, 1),
      [side |-> "BUY", type |-> "MARKET", price |-> 0, qty |-> 2], Limit("SELL", 2, 2),
      [side |-> "SELL", type |-> "SL-M", price |-> -1, qty |-> 1]>>
MixedTerms == Range(MixedList)

\* The orders are interchangeable until they are added: of the assignments that differ
\* only in which order has which terms one is enough.  At least one order buys and one
\* sells, and only the large limit sell comes twice.
Assignment(i, j, k) == (o1 :> MixedList[i]) @@ (o2 :> MixedList[j]) @@ (o3 :> MixedList[k])
Follows(i, j) == i < j \/ (i = j /\ i = 4)
Assignments ==
    {Assignment(t[1], t[2], t[3]) : t \in
        {t \in (1 .. 3) \X (1 .. 5) \X (4 .. 5) : Follows(t[1], t[2]) /\ Follows(t[2], t[3])}}

MixedInit == Init /\ order \in Assignments
MixedSpec == MixedInit /\ [][Next]_vars /\ Fairness

\* One level, one size, and an order that wants all of it.
QueueTerms == {Limit("SELL", 1, 1), Limit("BUY", 1, 3)}

\* Two ask levels and a buy that takes both.
CrossTerms == {Limit("SELL", 1, 1), Limit("SELL", 2, 1), Limit("BUY", 2, 2)}

OrderSymmetry == Permutations(Orders)
=============================================================================
