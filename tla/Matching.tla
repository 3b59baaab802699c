------------------------------ MODULE Matching ------------------------------
(***************************************************************************)
(* One symbol of the exchange: its order book (internal/orderbook), the    *)
(* goroutines that call Add and Cancel, the matching engine's goroutine    *)
(* (internal/matching), the order objects all of them share by pointer     *)
(* (internal/models), and the goroutine that forwards trades to the OMS    *)
(* (internal/api, AddSymbol).                                              *)
(*                                                                         *)
(* Add and Cancel run under the book's write lock, which they keep while   *)
(* they wait for room in EventCh.  The engine takes the read lock only to  *)
(* fetch a side's slice of levels, and then walks that slice, the levels'  *)
(* slices of orders and the orders themselves with no lock at all.  Each   *)
(* read of a slice header, of one cell or of an order's status, and each   *)
(* update of one order, is a step of its own here, so that Add and Cancel  *)
(* come in between.  What the engine is the only one to write (the filled  *)
(* quantities) and what nobody writes (the terms) is read with the step    *)
(* that uses it.                                                           *)
(*                                                                         *)
(* A price level is named by the order that opened it: its price is that   *)
(* order's price, and an order opens at most one level in its life.        *)
(***************************************************************************)
EXTENDS Integers, Sequences, FiniteSetsExt, GoSlice

CONSTANTS
    Orders,        \* the orders clients may place
    NoOrder,       \* a nil order pointer
    OrderTerms,    \* [side, type, price, qty] that pass the risk checks
    EventCap,      \* capacity of EventCh   (1000 in the code)
    TradeCap,      \* capacity of TradeCh   (10000 in the code)
    LevelCap       \* first capacity of bids and asks (10 in the code)

Sides == {"BUY", "SELL"}
Types == {"MARKET", "LIMIT", "SL", "SL-M"}
Statuses == {"PENDING", "OPEN", "PARTIALLY_FILLED", "FILLED", "CANCELLED", "REJECTED"}

ASSUME OrdersAssumption == NoOrder \notin Orders
\* validateBasics: the quantity is positive, and so is a limit order's price;
\* the price of the other types is not looked at, and may be 0 or negative.
ASSUME TermsAssumption ==
    /\ OrderTerms \subseteq [side : Sides, type : Types, price : Int, qty : Nat]
    /\ \A t \in OrderTerms : t.qty > 0 /\ (t.type = "LIMIT" => t.price > 0)
ASSUME CapAssumption ==
    EventCap \in Nat \ {0} /\ TradeCap \in Nat \ {0} /\ LevelCap \in Nat \ {0}

VARIABLES
    order,      \* order[o]: the terms of o, never changed after NewOrder
    status,     \* status[o]: o.Status
    filled,     \* filled[o]: o.FilledQty
    caller,     \* caller[o]: where the goroutine placing or cancelling o is
    levels,     \* levels["BUY"], levels["SELL"]: the slices bids and asks
    queue,      \* queue[l]: level l's slice Orders
    total,      \* total[l]: level l's Total
    eventCh,    \* the channel from the book to the engine
    eng,        \* the engine's goroutine: its pc and local variables
    executed,   \* every trade the engine made; tradeCounter is its length
    tradeCh,    \* the engine's TradeCh: trade numbers not yet forwarded
    tape        \* trade numbers forwarded to the OMS

bookVars == <<levels, queue, total>>
orderVars == <<status, filled>>
tradeVars == <<executed, tradeCh, tape>>
vars == <<order, status, filled, caller, levels, queue, total, eventCh, eng,
          executed, tradeCh, tape>>

-----------------------------------------------------------------------------
(* Orders *)

Remaining(o) == order[o].qty - filled[o]
IsActive(o) == status[o] \in {"OPEN", "PARTIALLY_FILLED"}
StatusAfterFill(o, q) == IF Remaining(o) = q THEN "FILLED" ELSE "PARTIALLY_FILLED"

\* Mutant: the incoming order's remainder alone decides the trade's size.
SmallerIgnoresResting(a, b) == a
Smaller(a, b) == IF a < b THEN a ELSE b
Opposite(side) == IF side = "BUY" THEN "SELL" ELSE "BUY"

\* price p is strictly ahead of price q on this side of the book
Ahead(side, p, q) == IF side = "BUY" THEN p > q ELSE p < q

\* Mutant: only a buy compares the level with its own price.
BeyondForBuysOnly(o, p) ==
    /\ order[o].type # "MARKET"
    /\ order[o].side = "BUY" /\ p > order[o].price

\* matchLimitOrder goes past price p: worse than incoming's own price
Beyond(o, p) ==
    /\ order[o].type # "MARKET"
    /\ IF order[o].side = "BUY" THEN p > order[o].price ELSE p < order[o].price

-----------------------------------------------------------------------------
(* The book's lock and map *)

Critical == {"adding", "unlinked", "cancelling"}

\* Some goroutine is inside Add or Cancel and holds ob.mu.
Locked == \E o \in Orders : caller[o] \in Critical

\* The keys of the map ob.orders.
Registered == {o \in Orders : caller[o] \in {"adding", "placed"}}

Levels(side) == Elems(levels[side])
Queue(l) == Elems(queue[l])
LevelPrice(l) == order[l].price

IdleEngine ==
    [pc |-> "idle", incoming |-> NoOrder, view |-> [array |-> 0, len |-> 0], i |-> 0,
     level |-> NoOrder, orders |-> [array |-> 0, len |-> 0], k |-> 0,
     resting |-> NoOrder, qty |-> 0]

Init ==
    /\ order \in [Orders -> OrderTerms]
    /\ status = [o \in Orders |-> "PENDING"]
    /\ filled = [o \in Orders |-> 0]
    /\ caller = [o \in Orders |-> "new"]
    /\ levels = [side \in Sides |-> Make(LevelCap)]
    /\ queue = [o \in Orders |-> Make(1)]
    /\ total = [o \in Orders |-> 0]
    /\ eventCh = <<>>
    /\ eng = IdleEngine
    /\ executed = <<>>
    /\ tradeCh = <<>>
    /\ tape = <<>>

-----------------------------------------------------------------------------
(* Add: everything up to the send, then the send that may have to wait *)

\* Mutant: asks are searched with the comparison of the bids.
LevelPositionLikeBids(o, pos) ==
    LET lv == Levels(order[o].side)
        Passes(i) == LevelPrice(lv[i]) > order[o].price
    IN /\ \A i \in 1 .. pos - 1 : Passes(i)
       /\ pos <= Len(lv) => ~Passes(pos)

\* pos is the first level that does not come before o's price, or the end.
LevelPosition(o, pos) ==
    LET lv == Levels(order[o].side)
        Passes(i) == Ahead(order[o].side, LevelPrice(lv[i]), order[o].price)
    IN /\ \A i \in 1 .. pos - 1 : Passes(i)
       /\ pos <= Len(lv) => ~Passes(pos)

\* Mutant: an order joins the level it stopped at, whatever that level's price.
AddToLevelsAnyPrice(o) ==
    LET side == order[o].side
    IN \E pos \in 1 .. levels[side].len + 1 :
         LET l == Levels(side)[pos]
         IN /\ LevelPosition(o, pos)
            /\ IF pos <= levels[side].len
               THEN /\ queue' = [queue EXCEPT ![l] = AppendTo(@, o)]
                    /\ total' = [total EXCEPT ![l] = @ + Remaining(o)]
                    /\ UNCHANGED levels
               ELSE /\ levels' = [levels EXCEPT ![side] = Insert(@, pos, o)]
                    /\ queue' = [queue EXCEPT ![o] = Literal(o)]
                    /\ total' = [total EXCEPT ![o] = Remaining(o)]

\* Mutant: joining a level does not add to its total.
AddToLevelsWithoutTotal(o) ==
    LET side == order[o].side
    IN \E pos \in 1 .. levels[side].len + 1 :
         LET l == Levels(side)[pos]
         IN /\ LevelPosition(o, pos)
            /\ IF pos <= levels[side].len /\ LevelPrice(l) = order[o].price
               THEN /\ queue' = [queue EXCEPT ![l] = AppendTo(@, o)]
                    /\ UNCHANGED <<levels, total>>
               ELSE /\ levels' = [levels EXCEPT ![side] = Insert(@, pos, o)]
                    /\ queue' = [queue EXCEPT ![o] = Literal(o)]
                    /\ total' = [total EXCEPT ![o] = Remaining(o)]

\* addToBids and addToAsks: join the level at o's price, or open one there.
AddToLevels(o) ==
    LET side == order[o].side
    IN \E pos \in 1 .. levels[side].len + 1 :
         LET l == Levels(side)[pos]
         IN /\ LevelPosition(o, pos)
            /\ IF pos <= levels[side].len /\ LevelPrice(l) = order[o].price
               THEN /\ queue' = [queue EXCEPT ![l] = AppendTo(@, o)]
                    /\ total' = [total EXCEPT ![l] = @ + Remaining(o)]
                    /\ UNCHANGED levels
               ELSE /\ levels' = [levels EXCEPT ![side] = Insert(@, pos, o)]
                    /\ queue' = [queue EXCEPT ![o] = Literal(o)]
                    /\ total' = [total EXCEPT ![o] = Remaining(o)]

Add(o) ==
    /\ caller[o] = "new"
    /\ ~Locked
    /\ caller' = [caller EXCEPT ![o] = "adding"]
    /\ status' = [status EXCEPT ![o] = "OPEN"]
    /\ AddToLevels(o)
    /\ UNCHANGED <<order, filled, eventCh, eng, tradeVars>>

\* EventCh <- NEW_ORDER, and the deferred Unlock
AddSend(o) ==
    /\ caller[o] = "adding"
    /\ Len(eventCh) < EventCap
    /\ eventCh' = Append(eventCh, [type |-> "NEW_ORDER", order |-> o])
    /\ caller' = [caller EXCEPT ![o] = "placed"]
    /\ UNCHANGED <<order, orderVars, bookVars, eng, tradeVars>>

\* Add of an id the map already holds: an error, and nothing changes.
AddDuplicate(o) ==
    /\ ~Locked
    /\ o \in Registered
    /\ UNCHANGED vars

-----------------------------------------------------------------------------
(* Cancel: check and unlink, mark, send *)

\* removeFromLevels: drop o from its level, and the level when that empties it.
RemoveFromLevels(o) ==
    LET side == order[o].side
    IN \E i \in DOMAIN Levels(side) :
         LET l == Levels(side)[i]
         IN /\ LevelPrice(l) = order[o].price
            /\ \E j \in DOMAIN Queue(l) :
                 /\ Queue(l)[j] = o
                 /\ queue' = [queue EXCEPT ![l] = Delete(@, j)]
            /\ total' = [total EXCEPT ![l] = @ - Remaining(o)]
            /\ levels' = IF queue[l].len = 1
                         THEN [levels EXCEPT ![side] = Delete(@, i)]
                         ELSE levels

Cancel(o) ==
    /\ ~Locked
    /\ o \in Registered
    /\ IsActive(o)
    /\ RemoveFromLevels(o)
    /\ caller' = [caller EXCEPT ![o] = "unlinked"]
    /\ UNCHANGED <<order, orderVars, eventCh, eng, tradeVars>>

\* UpdateStatus(StatusCancelled): the engine may have filled o since the check.
CancelMark(o) ==
    /\ caller[o] = "unlinked"
    /\ status' = [status EXCEPT ![o] = "CANCELLED"]
    /\ caller' = [caller EXCEPT ![o] = "cancelling"]
    /\ UNCHANGED <<order, filled, bookVars, eventCh, eng, tradeVars>>

CancelSend(o) ==
    /\ caller[o] = "cancelling"
    /\ Len(eventCh) < EventCap
    /\ eventCh' = Append(eventCh, [type |-> "CANCEL_ORDER", order |-> o])
    /\ caller' = [caller EXCEPT ![o] = "cancelled"]
    /\ UNCHANGED <<order, orderVars, bookVars, eng, tradeVars>>

\* Cancel of an unknown id or of an order that is not active: an error.
CancelRefused(o) ==
    /\ ~Locked
    /\ o \notin Registered \/ ~IsActive(o)
    /\ UNCHANGED vars

-----------------------------------------------------------------------------
(* The engine's goroutine *)

\* matchLoop: take an event; a cancellation needs no matching.
EngReceive ==
    /\ eng.pc = "idle"
    /\ eventCh # <<>>
    /\ eventCh' = Tail(eventCh)
    /\ eng' = IF Head(eventCh).type = "NEW_ORDER"
              THEN [eng EXCEPT !.pc = "fetch", !.incoming = Head(eventCh).order]
              ELSE eng
    /\ UNCHANGED <<order, orderVars, caller, bookVars, tradeVars>>

\* AskLevels() or BidLevels() under the read lock: the slice itself, not a copy.
EngFetch ==
    /\ eng.pc = "fetch"
    /\ ~Locked
    /\ eng' = [eng EXCEPT !.pc = "level", !.i = 1,
                          !.view = Header(levels[Opposite(order[eng.incoming].side)])]
    /\ UNCHANGED <<order, orderVars, caller, bookVars, eventCh, tradeVars>>

\* The level that iteration i of the loop over the fetched slice reads.
ViewLevel == At(levels[Opposite(order[eng.incoming].side)], eng.view, eng.i)

\* The loop of matchLimitOrder and matchMarketOrder ends or breaks.
LevelsDone ==
    eng.i <= eng.view.len => \/ Beyond(eng.incoming, LevelPrice(ViewLevel))
                             \/ Remaining(eng.incoming) = 0

\* The next iteration: the range loop copies the cell, a level, into its variable.
EngTakeLevel ==
    /\ eng.pc = "level"
    /\ ~LevelsDone
    /\ eng' = [eng EXCEPT !.pc = "enter", !.level = ViewLevel]
    /\ UNCHANGED <<order, orderVars, caller, bookVars, eventCh, tradeVars>>

\* fillAgainstLevel evaluates level.Orders once: its header at this moment.
EngEnterLevel ==
    /\ eng.pc = "enter"
    /\ eng' = [eng EXCEPT !.pc = "order", !.k = 1, !.orders = Header(queue[eng.level])]
    /\ UNCHANGED <<order, orderVars, caller, bookVars, eventCh, tradeVars>>

\* Mutant: what a market order could not get stays in the book.
EngFinishWithoutReject ==
    /\ eng.pc = "level"
    /\ LevelsDone
    /\ eng' = IdleEngine
    /\ UNCHANGED <<order, orderVars, caller, bookVars, eventCh, tradeVars>>

\* The end of the pass: what a market order could not get is rejected.
EngFinish ==
    /\ eng.pc = "level"
    /\ LevelsDone
    /\ status' = IF /\ order[eng.incoming].type = "MARKET"
                    /\ Remaining(eng.incoming) > 0
                    /\ status[eng.incoming] # "FILLED"
                 THEN [status EXCEPT ![eng.incoming] = "REJECTED"]
                 ELSE status
    /\ eng' = IdleEngine
    /\ UNCHANGED <<order, filled, caller, bookVars, eventCh, tradeVars>>

ViewOrder == At(queue[eng.level], eng.orders, eng.k)

NextLevel ==
    [eng EXCEPT !.pc = "level", !.i = @ + 1, !.level = NoOrder, !.k = 0,
                !.orders = [array |-> 0, len |-> 0], !.resting = NoOrder]

NextOrder == [eng EXCEPT !.pc = "order", !.k = @ + 1, !.resting = NoOrder, !.qty = 0]

\* The loop of fillAgainstLevel: its end, or the next cell into its variable.
EngTakeOrder ==
    /\ eng.pc = "order"
    /\ \/ eng.k > eng.orders.len /\ eng' = NextLevel
       \/ /\ eng.k <= eng.orders.len
          /\ eng' = [eng EXCEPT !.pc = "check", !.resting = ViewOrder]
    /\ UNCHANGED <<order, orderVars, caller, bookVars, eventCh, tradeVars>>

\* Mutant: the loop does not move past an order that is no longer active.
EngCheckStuck ==
    /\ eng.pc = "check"
    /\ \/ ~IsActive(eng.resting) /\ eng' = [eng EXCEPT !.pc = "order"]
       \/ /\ IsActive(eng.resting)
          /\ eng' = IF Remaining(eng.incoming) = 0
                    THEN NextLevel ELSE [eng EXCEPT !.pc = "trade"]
    /\ UNCHANGED <<order, orderVars, caller, bookVars, eventCh, tradeVars>>

\* Mutant: the status of the resting order is not looked at.
EngCheckAny ==
    /\ eng.pc = "check"
    /\ eng' = IF Remaining(eng.incoming) = 0 \/ Remaining(eng.resting) = 0
              THEN NextLevel ELSE [eng EXCEPT !.pc = "trade"]
    /\ UNCHANGED <<order, orderVars, caller, bookVars, eventCh, tradeVars>>

\* resting.IsActive() under the order's own lock, then the loop's continue, its
\* break, or the decision to trade, which nothing takes back.
EngCheck ==
    /\ eng.pc = "check"
    /\ \/ ~IsActive(eng.resting) /\ eng' = NextOrder
       \/ /\ IsActive(eng.resting)
          /\ eng' = IF Remaining(eng.incoming) = 0
                    THEN NextLevel ELSE [eng EXCEPT !.pc = "trade"]
    /\ UNCHANGED <<order, orderVars, caller, bookVars, eventCh, tradeVars>>

TradePrice(resting, level) ==
    IF order[resting].type = "MARKET" THEN LevelPrice(level) ELSE order[resting].price

\* createTrade
Trade(incoming, resting, qty, price) ==
    [buy |-> IF order[incoming].side = "SELL" THEN resting ELSE incoming,
     sell |-> IF order[incoming].side = "SELL" THEN incoming ELSE resting,
     qty |-> qty, price |-> price]

\* o.Fill(qty, price), but for the average price
Fill(o, qty) ==
    /\ filled' = [filled EXCEPT ![o] = @ + qty]
    /\ status' = [status EXCEPT ![o] = StatusAfterFill(o, qty)]

\* createTrade and incoming.Fill; Cancel may have come since the check.
EngTrade ==
    /\ eng.pc = "trade"
    /\ LET qty == Smaller(Remaining(eng.incoming), Remaining(eng.resting))
       IN /\ executed' = Append(executed, Trade(eng.incoming, eng.resting, qty,
                                                TradePrice(eng.resting, eng.level)))
          /\ Fill(eng.incoming, qty)
          /\ eng' = [eng EXCEPT !.pc = "fill", !.qty = qty]
    /\ UNCHANGED <<order, caller, bookVars, eventCh, tradeCh, tape>>

\* Mutant: the resting order is filled only if nobody cancelled it meanwhile.
EngFillRestingIfActive ==
    /\ eng.pc = "fill"
    /\ IF IsActive(eng.resting) THEN Fill(eng.resting, eng.qty) ELSE UNCHANGED orderVars
    /\ tradeCh' = IF Len(tradeCh) < TradeCap THEN Append(tradeCh, Len(executed))
                  ELSE tradeCh
    /\ eng' = NextOrder
    /\ UNCHANGED <<order, caller, bookVars, eventCh, executed, tape>>

\* resting.Fill and the send on TradeCh that drops the trade when it is full
EngFillResting ==
    /\ eng.pc = "fill"
    /\ Fill(eng.resting, eng.qty)
    /\ tradeCh' = IF Len(tradeCh) < TradeCap THEN Append(tradeCh, Len(executed))
                  ELSE tradeCh
    /\ eng' = NextOrder
    /\ UNCHANGED <<order, caller, bookVars, eventCh, executed, tape>>

\* Mutant: the forwarder delivers a trade without taking it off the channel.
ForwardTwice ==
    /\ tradeCh # <<>>
    /\ tape' = Append(tape, Head(tradeCh))
    /\ UNCHANGED <<order, orderVars, caller, bookVars, eventCh, eng, executed, tradeCh>>

\* The forwarder's loop body: o.tradeCh <- trade
Forward ==
    /\ tradeCh # <<>>
    /\ tape' = Append(tape, Head(tradeCh))
    /\ tradeCh' = Tail(tradeCh)
    /\ UNCHANGED <<order, orderVars, caller, bookVars, eventCh, eng, executed>>

-----------------------------------------------------------------------------
Engine == \/ EngReceive \/ EngFetch \/ EngTakeLevel \/ EngEnterLevel \/ EngFinish
          \/ EngTakeOrder \/ EngCheck \/ EngTrade \/ EngFillResting

\* What a goroutine inside Add or Cancel does next.
Return(o) == AddSend(o) \/ CancelMark(o) \/ CancelSend(o)

Next ==
    \/ \E o \in Orders : \/ Add(o) \/ AddDuplicate(o)
                         \/ Cancel(o) \/ CancelRefused(o)
                         \/ Return(o)
    \/ Engine
    \/ Forward

Spec == Init /\ [][Next]_vars

\* Go schedules every goroutine that can run; nobody has to place an order.
Fairness ==
    /\ WF_vars(Engine)
    /\ WF_vars(Forward)
    /\ \A o \in Orders : WF_vars(Return(o))

FairSpec == Spec /\ Fairness
-----------------------------------------------------------------------------
(* Properties *)

Pointers == Orders \union {NoOrder}
Headers == [array : Nat, len : Nat]

\* Levels of one side, and orders that belong into level l.
Placed == {o \in Orders : caller[o] # "new"}
LevelsOf(side) == {o \in Placed : order[o].side = side}
MatesOf(l) == {o \in Orders : order[o].side = order[l].side
                              /\ order[o].price = order[l].price}

OrdersTypeOK ==
    /\ order \in [Orders -> OrderTerms]
    /\ status \in [Orders -> Statuses]
    /\ filled \in [Orders -> Nat]
    /\ caller \in [Orders -> {"new", "adding", "placed", "unlinked", "cancelling",
                              "cancelled"}]

BookTypeOK ==
    /\ DOMAIN levels = Sides
    /\ \A side \in Sides : levels[side] \in Slice(LevelsOf(side))
    /\ DOMAIN queue = Orders
    /\ \A l \in Orders : queue[l] \in Slice(MatesOf(l))
    /\ total \in [Orders -> Int]

ChannelsTypeOK ==
    /\ eventCh \in Seq([type : {"NEW_ORDER", "CANCEL_ORDER"}, order : Orders])
    /\ executed \in Seq([buy : Orders, sell : Orders, qty : Nat, price : Int])
    /\ tradeCh \in Seq(Nat)
    /\ tape \in Seq(Nat)

\* The engine's pcs from where it holds a level, a header of orders, an order.
WithLevel == {"enter", "order", "check", "trade", "fill"}
WithOrders == {"order", "check", "trade", "fill"}
WithResting == {"check", "trade", "fill"}

EngineRecords ==
    [pc : {"idle", "fetch", "level"} \union WithLevel, incoming : Pointers,
     view : Headers, i : Nat, level : Pointers, orders : Headers, k : Nat,
     resting : Pointers, qty : Nat]

EngineTypeOK ==
    /\ eng \in EngineRecords
    /\ eng.pc # "idle" => eng.incoming \in Orders
    /\ eng.pc \in {"level"} \union WithLevel
          => /\ eng.i > 0
             /\ ValidHeader(levels[Opposite(order[eng.incoming].side)], eng.view)
    /\ eng.pc \in WithLevel => eng.level \in Orders
    /\ eng.pc \in WithOrders => eng.k > 0 /\ ValidHeader(queue[eng.level], eng.orders)
    /\ eng.pc \in WithResting => eng.resting \in Orders

\* Every variable keeps its type.  Each side's slice only ever holds levels of
\* that side and each level's slice orders of its side and price, in the cells
\* behind the length too; and the headers that the engine walks without a lock
\* never reach past the backing arrays they were taken from, whatever Add and
\* Cancel do to the slices meanwhile (matchLimitOrder, fillAgainstLevel).
TypeOK == OrdersTypeOK /\ BookTypeOK /\ ChannelsTypeOK /\ EngineTypeOK

\* The sides hold exactly the orders of the map ob.orders, each once, at its own
\* price; prices run strictly from the best outwards; no level is empty.
\* (addToBids, addToAsks, removeFromLevels; the comments on bids and asks.)
BookWellFormed ==
    \A side \in Sides :
        LET lv == Levels(side)
        IN /\ \A i, j \in DOMAIN lv :
                i < j => Ahead(side, LevelPrice(lv[i]), LevelPrice(lv[j]))
           /\ \A i \in DOMAIN lv : Queue(lv[i]) # <<>>
           /\ \A o \in Orders :
                (o \in Registered /\ order[o].side = side)
                <=> \E i \in DOMAIN lv :
                      /\ LevelPrice(lv[i]) = order[o].price
                      /\ \E j \in DOMAIN Queue(lv[i]) :
                           /\ Queue(lv[i])[j] = o
                           /\ \A n \in DOMAIN Queue(lv[i]) : Queue(lv[i])[n] = o => n = j
           /\ \A i \in DOMAIN lv : \A j \in DOMAIN Queue(lv[i]) :
                Queue(lv[i])[j] \in Registered

\* The quantity a level shows (Total, served by MarketDepth and Stats) is never
\* less than what its orders still want: no resting quantity is hidden, although
\* Cancel subtracts what is left of an order while the engine is filling it.
DepthCoversOrders ==
    \A side \in Sides : \A i \in 1 .. levels[side].len :
        LET l == Levels(side)[i]
        IN total[l] >= SumFunctionOnSet([o \in Orders |-> Remaining(o)], Range(Queue(l)))

\* What the engine has written to both orders of a trade or is about to write to
\* the resting one: between the two Fill calls the trade is already made.
Settled == [o \in Orders |-> IF eng.pc = "fill" /\ o = eng.resting
                             THEN filled[o] + eng.qty ELSE filled[o]]

Ledger == INSTANCE ExchangeLedger WITH filled <- Settled

\* Book and engine implement the ledger: every trade pairs a buy with a sell, for
\* all that the smaller of them still wants (never more than either), at the price
\* of one that both accept; nothing else changes a filled quantity.  createTrade
\* and the two Fill calls are separate steps, with Add and Cancel in between.
ImplementsLedger == Ledger!Spec

\* Every trade is at a price that both of its orders accept (matchLimitOrder's
\* breaks), even when the slices the engine walks change under it.
TradesWithinLimits ==
    \A n \in DOMAIN executed :
        /\ Ledger!Accepts(order[executed[n].buy], executed[n].price)
        /\ Ledger!Accepts(order[executed[n].sell], executed[n].price)

\* No order is executed beyond its quantity, and the status shows what happened:
\* FILLED only when all of it was executed, PARTIALLY_FILLED only when a part was
\* (Fill), although Cancel and the engine write the status without a common lock.
FillsMatchStatus ==
    \A o \in Orders :
        /\ Settled[o] <= order[o].qty
        /\ status[o] = "FILLED" => filled[o] = order[o].qty
        /\ status[o] = "PARTIALLY_FILLED" => 0 < filled[o] /\ filled[o] < order[o].qty
        /\ status[o] \in {"PENDING", "OPEN"} => filled[o] = 0

Event(type, o) == [type |-> type, order |-> o]

\* o's own matching pass is still to come or is running.
Unmatched(o) ==
    \/ caller[o] \in {"new", "adding"}
    \/ Event("NEW_ORDER", o) \in Range(eventCh)
    \/ eng.incoming = o

\* A market order never rests: once its pass is over it is not active, so no
\* later order can trade with it, also when it was cancelled or was itself
\* filled as a resting order before its pass (matchMarketOrder).
MarketNeverRests ==
    \A o \in Orders :
        order[o].type = "MARKET" /\ ~Unmatched(o) /\ o \in Registered => ~IsActive(o)

\* The resting order that the engine has found active and not yet traded with.
Chosen == IF eng.pc = "trade" THEN {eng.resting} ELSE {}

\* What Cancel guarantees: once it has returned, no other order's pass chooses the
\* order any more, so at most one more trade is made with it, the one the engine had
\* chosen it for before (no lock is held from IsActive to createTrade), beside those
\* of its own pass if that is still to come.  Settled counts a trade from createTrade
\* on.  Neither the stale cells the engine walks nor a status that Fill writes back
\* to PARTIALLY_FILLED bring the order into another trade (Cancel, fillAgainstLevel).
CancelSticks ==
    [][\A o \in Orders : caller[o] = "cancelled" /\ ~Unmatched(o)
         => /\ o \in Chosen' => o \in Chosen
            /\ Settled'[o] # Settled[o] => o \in Chosen]_vars

\* Trades reach the OMS in the order they were made and none twice, also when a
\* full TradeCh drops some of them (fillAgainstLevel, AddSymbol's forwarder).
TapeInOrder ==
    LET sent == tape \o tradeCh
    IN /\ \A m, n \in DOMAIN sent : m < n => sent[m] < sent[n]
       /\ \A n \in DOMAIN sent : sent[n] \in DOMAIN executed

\* Nothing is under way: no goroutine in the book, no event, no pass.
AtRest == ~Locked /\ eventCh = <<>> /\ eng.pc = "idle"

\* Every Add and Cancel returns, every order handed to Add gets its matching pass
\* and every trade is forwarded, as long as EventCh has room for the events under
\* way (matchLoop, AddSymbol's forwarder): the symbol always comes to rest again.
ComesToRest == []<>(AtRest /\ tradeCh = <<>>)

\* "buffered so adding doesn't block" (NewOrderBook): an Add that has the lock
\* returns.
AddReturns == \A o \in Orders : caller[o] = "adding" ~> caller[o] # "adding"

\* "AskLevels returns a copy of ask price levels": the engine matches against the
\* levels as they were, so the orders it left are matched by later passes, and at
\* rest no two orders of the book are left that should have traded.
UncrossedAtRest ==
    AtRest => \A b, s \in Registered :
        order[b].side = "BUY" /\ order[s].side = "SELL" /\ IsActive(b) /\ IsActive(s)
            => order[b].price < order[s].price
=============================================================================
