----------------------------- MODULE Positions -----------------------------
(***************************************************************************)
(* Positions and profit of one symbol (internal/position): the trades that *)
(* consumeTrades applies, the price ticks that the feed applies, and the   *)
(* bounded event channel through which consumePositionEvents saves them    *)
(* (internal/api).  ApplyTrade and UpdateLTP each run under the manager's  *)
(* lock from start to end.                                                 *)
(*                                                                         *)
(* Prices and profits are whole paise; averages are rounded to paise, as   *)
(* math.Round(x * 100) / 100 does.                                         *)
(***************************************************************************)
EXTENDS Integers, Sequences, FiniteSets, Functions

CONSTANTS
    Keys,        \* client and product: one position each
    Prices,      \* of trades and ticks
    Quantities,  \* of trades
    MaxTrades,   \* bound: how many trades are applied
    EventCap     \* capacity of eventCh   (10000 in the code)

ASSUME PositionsAssumption ==
    /\ IsFiniteSet(Keys)
    /\ Prices \subseteq Nat \ {0}
    /\ Quantities \subseteq Nat \ {0}
    /\ MaxTrades \in Nat
    /\ EventCap \in Nat \ {0}

VARIABLES
    pos,       \* pos[k]: the position, flat and zero until it is created
    eventCh,   \* copies of positions on their way to consumePositionEvents
    saved,     \* saved[k]: the quantity last handed to Postgres' writer
    trades,    \* history: the trades applied
    dropped,   \* history: an event, or a job for the writer, found its channel full
    marked     \* history: the last change was a tick

vars == <<pos, eventCh, saved, trades, dropped, marked>>

NewPosition ==
    [qty |-> 0, buyQty |-> 0, sellQty |-> 0, buyAvg |-> 0, sellAvg |-> 0,
     realized |-> 0, unrealized |-> 0, last |-> 0]

Init ==
    /\ pos = [k \in Keys |-> NewPosition]
    /\ eventCh = <<>>
    /\ saved = [k \in Keys |-> 0]
    /\ trades = <<>>
    /\ dropped = FALSE
    /\ marked = FALSE

-----------------------------------------------------------------------------
\* math.Round of a / b for natural a and positive b
RoundDiv(a, b) == (2 * a + b) \div (2 * b)

Smaller(a, b) == IF a < b THEN a ELSE b

\* Mutant: what covers a short is also added to the long side.
ApplyBuyTwice(p, qty, price) ==
    LET cover == IF p.qty < 0 THEN Smaller(qty, -p.qty) ELSE 0
    IN [p EXCEPT !.realized = @ + (p.sellAvg - price) * cover,
                 !.qty = @ + cover + qty,
                 !.buyQty = @ + qty,
                 !.buyAvg = RoundDiv(@ * p.buyQty + price * qty, p.buyQty + qty)]

\* Cover a short first, at a profit of its average; the rest opens or adds to a
\* long position and moves the average cost.
ApplyBuy(p, qty, price) ==
    LET cover == IF p.qty < 0 THEN Smaller(qty, -p.qty) ELSE 0
        rest == qty - cover
    IN [p EXCEPT !.realized = @ + (p.sellAvg - price) * cover,
                 !.qty = @ + qty,
                 !.buyQty = @ + rest,
                 !.buyAvg = IF rest = 0 THEN @
                            ELSE RoundDiv(@ * p.buyQty + price * rest, p.buyQty + rest)]

\* Sell from a long position first; the rest opens or adds to a short one.  Here
\* the quantity sold from the long side counts in SellQty too.
ApplyShortSell(p, qty, price) ==
    LET fromLong == IF p.qty > 0 THEN Smaller(qty, p.qty) ELSE 0
        rest == qty - fromLong
    IN [p EXCEPT !.realized = @ + (price - p.buyAvg) * fromLong,
                 !.qty = @ - qty,
                 !.sellQty = @ + qty,
                 !.sellAvg = IF rest = 0 THEN @
                             ELSE RoundDiv(@ * (p.sellQty + fromLong) + price * rest,
                                           p.sellQty + qty)]

\* Mutant: a short position is valued at its average cost of buying.
MarkAtBuyAvg(p, ltp) ==
    IF p.qty = 0 THEN p
    ELSE [p EXCEPT !.last = ltp, !.unrealized = (ltp - p.buyAvg) * p.qty]

\* UpdateLTP's loop body: flat positions are skipped.
Mark(p, ltp) ==
    IF p.qty = 0 THEN p
    ELSE [p EXCEPT !.last = ltp,
                   !.unrealized = IF p.qty > 0 THEN (ltp - p.buyAvg) * p.qty
                                  ELSE (p.sellAvg - ltp) * (-p.qty)]

\* Mutant: the channel takes any number of events.
EmitUnbounded(events) ==
    /\ eventCh' = eventCh \o events
    /\ UNCHANGED dropped

\* emit, once per event: what finds the channel full is dropped.
Emit(events) ==
    LET room == Smaller(Len(events), EventCap - Len(eventCh))
    IN /\ eventCh' = eventCh \o SubSeq(events, 1, room)
       /\ dropped' = (dropped \/ room < Len(events))

Copy(k, p, trigger) == [key |-> k, qty |-> p.qty, trigger |-> trigger]

-----------------------------------------------------------------------------
\* consumeTrades with both orders found: first the buyer's position, then the
\* seller's, which is the same one when a client trades with itself.
ApplyTrade(b, s, qty, price) ==
    LET bought == [pos EXCEPT ![b] = ApplyBuy(@, qty, price)]
        sold == [bought EXCEPT ![s] = ApplyShortSell(@, qty, price)]
    IN /\ Len(trades) < MaxTrades
       /\ pos' = sold
       /\ Emit(<<Copy(b, bought[b], "trade"), Copy(s, sold[s], "trade")>>)
       /\ trades' = Append(trades, [buyer |-> b, seller |-> s, qty |-> qty, price |-> price])
       /\ marked' = FALSE
       /\ UNCHANGED saved

\* consumeTrades when Redis no longer has one of the orders
TradeWithoutOrder == UNCHANGED vars

\* UpdateLTP: every open position, in some order of the map
UpdateLTP(ltp) ==
    LET open == {k \in Keys : pos[k].qty # 0}
    IN \E ks \in [1 .. Cardinality(open) -> open] :
         /\ \A k \in open : \E n \in DOMAIN ks : ks[n] = k
         /\ pos' = [k \in Keys |-> Mark(pos[k], ltp)]
         /\ Emit([n \in DOMAIN ks |-> Copy(ks[n], pos[ks[n]], "price_tick")])
         /\ marked' = TRUE
         /\ UNCHANGED <<saved, trades>>

\* Mutant: the consumer saves what a tick, not a trade, has changed.
ConsumeSavesTicks ==
    /\ eventCh # <<>>
    /\ eventCh' = Tail(eventCh)
    /\ saved' = IF Head(eventCh).trigger # "trade" THEN
                [saved EXCEPT ![Head(eventCh).key] = Head(eventCh).qty] ELSE saved
    /\ UNCHANGED <<pos, trades, dropped, marked>>

\* consumePositionEvents: push to the client, and SavePositionAsync of what a trade
\* changed, which drops it when the writer's queue is full
Consume ==
    /\ eventCh # <<>>
    /\ eventCh' = Tail(eventCh)
    /\ IF Head(eventCh).trigger = "trade"
       THEN \/ /\ saved' = [saved EXCEPT ![Head(eventCh).key] = Head(eventCh).qty]
               /\ UNCHANGED dropped
            \/ dropped' = TRUE /\ UNCHANGED saved
       ELSE UNCHANGED <<saved, dropped>>
    /\ UNCHANGED <<pos, trades, marked>>

Next ==
    \/ \E b, s \in Keys : \E q \in Quantities : \E p \in Prices : ApplyTrade(b, s, q, p)
    \/ TradeWithoutOrder
    \/ \E p \in Prices : UpdateLTP(p)
    \/ Consume

Spec == Init /\ [][Next]_vars
-----------------------------------------------------------------------------
(* Properties *)

\* Every variable keeps its type, the channel its capacity.
TypeOK ==
    /\ pos \in [Keys -> [qty : Int, buyQty : Nat, sellQty : Nat, buyAvg : Nat,
                         sellAvg : Nat, realized : Int, unrealized : Int, last : Nat]]
    /\ eventCh \in Seq([key : Keys, qty : Int, trigger : {"trade", "price_tick"}])
    /\ Len(eventCh) <= EventCap
    /\ saved \in [Keys -> Int]
    /\ trades \in Seq([buyer : Keys, seller : Keys, qty : Quantities, price : Prices])
    /\ dropped \in BOOLEAN /\ marked \in BOOLEAN

Bought(k) == {n \in DOMAIN trades : trades[n].buyer = k}
Sold(k) == {n \in DOMAIN trades : trades[n].seller = k}
Quantity == [n \in DOMAIN trades |-> trades[n].qty]
Value == [n \in DOMAIN trades |-> trades[n].qty * trades[n].price]
Net == [k \in Keys |-> pos[k].qty]

\* What the client has received for its sells and paid for its buys.
Cash(k) == SumFunctionOnSet(Value, Sold(k)) - SumFunctionOnSet(Value, Bought(k))

\* No share is made or lost: a position is what its trades add up to, through all
\* the covering, reducing, opening and turning round of applyBuy and
\* applyShortSell, and all positions together are zero.
SharesConserved ==
    /\ \A k \in Keys : pos[k].qty = SumFunctionOnSet(Quantity, Bought(k))
                                     - SumFunctionOnSet(Quantity, Sold(k))
    /\ SumFunctionOnSet(Net, Keys) = 0

\* Rounding an average moves a profit by at most half a paisa for each share and
\* each trade that changed the average.
Tolerance(k) == Len(trades) * (SumFunctionOnSet(Quantity, Bought(k) \union Sold(k)))

\* Profit shown at the last price against the money really made.
Exact(k) ==
    LET error == pos[k].realized + pos[k].unrealized - (Cash(k) + pos[k].qty * pos[k].last)
    IN 2 * error <= Tolerance(k) /\ -2 * error <= Tolerance(k)

\* k was built up and then only reduced, and is still open.
OneWay(k) ==
    /\ Bought(k) \intersect Sold(k) = {}
    /\ \/ pos[k].qty > 0 /\ \A m \in Sold(k) : \A n \in Bought(k) : n < m
       \/ pos[k].qty < 0 /\ \A m \in Bought(k) : \A n \in Sold(k) : n < m

\* After a tick, an open position that was built up and then only reduced shows the
\* profit its client really has, up to rounding: realized and unrealized profit are
\* the cash of its trades and the value of what is left (applyBuy, applyShortSell,
\* UpdateLTP).
OneWayProfitExact == marked => \A k \in Keys : OneWay(k) => Exact(k)

\* Once the consumer has caught up, Postgres' writer was given the current quantity of
\* every position, although ticks and trades share the channel, unless an event or a
\* job was dropped (emit, consumePositionEvents, SavePositionAsync).
SavedCatchesUp == eventCh = <<>> /\ ~dropped => \A k \in Keys : saved[k] = pos[k].qty
=============================================================================
