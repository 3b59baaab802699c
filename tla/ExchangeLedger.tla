--------------------------- MODULE ExchangeLedger ---------------------------
(***************************************************************************)
(* What the order book and the matching engine of one symbol promise,      *)
(* whatever their data structures and threads do: orders with fixed terms  *)
(* are executed against each other, a buy with a sell, one trade at a      *)
(* time.  Each trade takes all that the smaller of the two orders still    *)
(* wants, at the price one of them asked for and both of them accept.      *)
(***************************************************************************)
EXTENDS Integers, Sequences

CONSTANTS
    Orders,       \* the orders that may ever be placed
    OrderTerms    \* the terms an order can have: [side, type, price, qty]

VARIABLES
    order,        \* order[o]: the terms of o, fixed when it is made
    filled,       \* filled[o]: the quantity of o executed so far
    executed      \* the trades, in the order they happened

ledgerVars == <<order, filled, executed>>

Smaller(a, b) == IF a < b THEN a ELSE b

\* A market order takes any price; every other type keeps to its own.
Accepts(t, p) ==
    \/ t.type = "MARKET"
    \/ t.side = "BUY" /\ p <= t.price
    \/ t.side = "SELL" /\ p >= t.price

Init ==
    /\ order \in [Orders -> OrderTerms]
    /\ filled = [o \in Orders |-> 0]
    /\ executed = <<>>

Execute(b, s, p) ==
    LET q == Smaller(order[b].qty - filled[b], order[s].qty - filled[s])
    IN /\ order[b].side = "BUY"
       /\ order[s].side = "SELL"
       /\ q > 0
       /\ Accepts(order[b], p)
       /\ Accepts(order[s], p)
       /\ filled' = [filled EXCEPT ![b] = @ + q, ![s] = @ + q]
       /\ executed' = Append(executed, [buy |-> b, sell |-> s, qty |-> q, price |-> p])
       /\ UNCHANGED order

Next ==
    \E b, s \in Orders :
        \E p \in {order[b].price, order[s].price} : Execute(b, s, p)

Spec == Init /\ [][Next]_ledgerVars
=============================================================================
