-------------------------------- MODULE Oms --------------------------------
(***************************************************************************)
(* Order entry of the OMS (internal/api) over Redis (internal/store), the  *)
(* risk checks (internal/risk), the price feed (internal/marketdata) and   *)
(* the start of the server (cmd/server), for one listed symbol.  Every     *)
(* call to Redis is a step of its own and may fail; a crash between any    *)
(* two steps loses the memory of the process and keeps Redis.              *)
(*                                                                         *)
(* Book and engine appear as what module Matching proves of them: they     *)
(* execute trades that ExchangeLedger allows.                              *)
(*                                                                         *)
(* Money is counted in twentieths of a price unit, which makes the margin  *)
(* rates 100%, 20% and 15% integers.                                       *)
(***************************************************************************)
EXTENDS Integers, Sequences, FiniteSetsExt, Functions

CONSTANTS
    Orders,       \* the orders clients may send
    OrderTerms,   \* [client, side, type, product, price, qty, complete, listed]
    Balance,      \* Balance[c]: what RegisterClient gives client c
    Prices,       \* the prices the feed may deliver
    FreezeQty,    \* freezeQuantity     (500000 in the code)
    MaxBoots,     \* bound: how often the server is started
    MaxFaults     \* bound: how many calls to Redis return an error

Clients == DOMAIN Balance
Statuses == {"OPEN", "PARTIALLY_FILLED", "FILLED", "CANCELLED", "REJECTED"}

ASSUME OrdersAssumption == IsFiniteSet(Orders)
ASSUME TermsAssumption ==
    OrderTerms \subseteq
        [client : STRING, side : {"BUY", "SELL"}, type : {"MARKET", "LIMIT", "SL", "SL-M"},
         product : STRING, price : Int, qty : Nat, complete : BOOLEAN, listed : BOOLEAN]
ASSUME NumbersAssumption ==
    /\ Balance \in [Clients -> Nat]
    /\ Prices \subseteq Nat \ {0}
    /\ FreezeQty \in Nat
    /\ MaxBoots \in Nat
    /\ MaxFaults \in Nat

VARIABLES
    order,      \* order[o]: the terms of o
    \* Redis
    stored,     \* stored[o]: the status in the JSON under order:<o>, or "none"
    index,      \* index[s]: the set orders:status:<s>
    used,       \* used[c]: account:<c>:used
    ltp,        \* ltp:<symbol>, 0 once it has expired
    \* the memory of the process
    phase,      \* "down", "recovering" or "serving"
    toRecover,  \* RecoverFromRedis: orders read and not yet added
    quote,      \* the feed's own quote, 0 before the first
    book,       \* the orders in the book's map
    mem,        \* mem[o]: the status of the order object
    pending,    \* orders whose matching pass is to come or running
    filled,     \* filled[o]: FilledQty of the order object
    place,      \* place[o]: where PlaceOrder is for o
    margin,     \* margin[o]: PlaceOrder's marginRequired
    cancel,     \* cancel[o]: where CancelOrder is for o
    \* history
    executed,   \* every trade since the first start
    unsure,     \* orders for which BlockMargin or ReleaseMargin returned an error
    kept,       \* orders for which the SRem of UpdateOrderStatus failed
    missed,     \* orders the last start could not read
    boots,      \* how often the server was started
    faults      \* calls to Redis that returned an error

redisVars == <<stored, index, used, ltp>>
bookVars == <<book, mem, pending, filled>>
vars == <<order, redisVars, phase, toRecover, quote, bookVars, place, margin, cancel,
          executed, unsure, kept, missed, boots, faults>>

Ledger == INSTANCE ExchangeLedger

-----------------------------------------------------------------------------
(* Risk checks and margin *)

\* marginRates; a product type that the map does not hold has rate 0
Rate(product) == CASE product = "CNC" -> 20
                   [] product = "MIS" -> 4
                   [] product = "NRML" -> 3
                   [] OTHER -> 0

Margin(o, price) == price * order[o].qty * Rate(order[o].product)

\* ValidateBasics; complete: symbol, client and an SL order's trigger are given
ValidateBasics(t) ==
    t.complete /\ t.qty > 0 /\ (t.type = "LIMIT" => t.price > 0)

\* CheckPriceBand: within 20% of the last price, if there is one
CheckPriceBand(t, p) == p > 0 => 5 * t.price <= 6 * p /\ 5 * t.price >= 4 * p

CheckFreezeQty(t) == t.qty <= FreezeQty

RiskChecks(t, p) ==
    /\ ValidateBasics(t)
    /\ t.type = "LIMIT" => CheckPriceBand(t, p)
    /\ CheckFreezeQty(t)

-----------------------------------------------------------------------------
(* Redis *)

Fault == faults < MaxFaults /\ faults' = faults + 1

\* SaveOrder's pipeline: the order itself, then its place in the status index
SaveOrder(o, status) ==
    /\ stored' = [stored EXCEPT ![o] = status]
    /\ index' = [index EXCEPT ![status] = @ \union {o}]

\* SaveOrder returns an error: Redis may have run none, some or all of it.
SaveOrderFails(o, status) ==
    /\ Fault
    /\ \/ UNCHANGED <<stored, index>>
       \/ stored' = [stored EXCEPT ![o] = status] /\ UNCHANGED index
       \/ SaveOrder(o, status)

\* BlockMargin's script finds the account and enough free margin
CanBlock(c, amount) == c \in Clients /\ Balance[c] - used[c] >= amount

\* Mutant: the used margin may fall below zero.
ReleaseMarginNoFloor(c, amount) == used' = [used EXCEPT ![c] = @ - amount]

\* math.max(0, used - amount)
ReleaseMargin(c, amount) ==
    used' = [used EXCEPT ![c] = IF @ > amount THEN @ - amount ELSE 0]

\* ReleaseMargin for order o.  Its error is ignored; the script may have run then.
Release(o, amount) ==
    \/ ReleaseMargin(order[o].client, amount) /\ UNCHANGED <<unsure, faults>>
    \/ /\ Fault
       /\ ReleaseMargin(order[o].client, amount) \/ UNCHANGED used
       /\ unsure' = unsure \union {o}

-----------------------------------------------------------------------------
Init ==
    /\ order \in [Orders -> OrderTerms]
    /\ stored = [o \in Orders |-> "none"]
    /\ index = [s \in Statuses |-> {}]
    /\ used = [c \in Clients |-> 0]
    /\ ltp = 0
    /\ phase = "down"
    /\ toRecover = {}
    /\ quote = 0
    /\ book = {}
    /\ mem = [o \in Orders |-> "none"]
    /\ pending = {}
    /\ filled = [o \in Orders |-> 0]
    /\ place = [o \in Orders |-> "new"]
    /\ margin = [o \in Orders |-> 0]
    /\ cancel = [o \in Orders |-> "none"]
    /\ executed = <<>>
    /\ unsure = {}
    /\ kept = {}
    /\ missed = {}
    /\ boots = 0
    /\ faults = 0

-----------------------------------------------------------------------------
(* The feed *)

\* Refresh: the new quote, and the subscriber's SetLTP
Refresh(p) ==
    /\ phase # "down"
    /\ quote' = p
    /\ ltp' = p
    /\ UNCHANGED <<order, stored, index, used, phase, toRecover, bookVars, place, margin,
                   cancel, executed, unsure, kept, missed, boots, faults>>

\* Redis drops the price quoteTTL after the last SetLTP.
ExpireLTP ==
    /\ ltp # 0
    /\ ltp' = 0
    /\ UNCHANGED <<order, stored, index, used, phase, toRecover, quote, bookVars, place,
                   margin, cancel, executed, unsure, kept, missed, boots, faults>>

\* Redis drops the order orderTTL after its last SaveOrder, wherever the order is by
\* then; its place in the status index has no expiry.
ExpireOrder(o) ==
    /\ stored[o] # "none"
    /\ stored' = [stored EXCEPT ![o] = "none"]
    /\ UNCHANGED <<order, index, used, ltp, phase, toRecover, quote, bookVars, place, margin,
                   cancel, executed, unsure, kept, missed, boots, faults>>

-----------------------------------------------------------------------------
(* PlaceOrder *)

\* The price PlaceOrder works with; the feed polls listed symbols only.
KnownPrice(o) == IF ~order[o].listed THEN 0 ELSE IF ltp # 0 THEN ltp ELSE quote

\* The price, the risk checks and marginRequired
PlaceCheck(o) ==
    /\ phase = "serving"
    /\ place[o] = "new"
    /\ LET t == order[o]
           p == KnownPrice(o)
           unpriced == p = 0 /\ t.type = "MARKET"
           checked == RiskChecks(t, p)
       IN /\ place' = [place EXCEPT ![o] = IF unpriced THEN "refused"
                                           ELSE IF checked THEN "block" ELSE "reject"]
          /\ margin' = [margin EXCEPT ![o] =
                IF unpriced \/ ~checked THEN 0
                ELSE Margin(o, IF t.type = "MARKET" THEN p ELSE t.price)]
    /\ UNCHANGED <<order, redisVars, phase, toRecover, quote, bookVars, cancel, executed,
                   unsure, kept, missed, boots, faults>>

\* Mutant: the rejected order is saved with the status of an accepted one.
PlaceRejectAsOpen(o) ==
    /\ place[o] = "reject"
    /\ SaveOrder(o, "OPEN")
    /\ place' = [place EXCEPT ![o] = "rejected"]
    /\ UNCHANGED <<order, used, ltp, phase, toRecover, quote, bookVars, margin, cancel,
                   executed, unsure, kept, missed, boots, faults>>

\* StatusRejected is saved, if Redis takes it, and the client gets the error.
PlaceReject(o) ==
    /\ place[o] = "reject"
    /\ \/ SaveOrder(o, "REJECTED") /\ UNCHANGED faults
       \/ SaveOrderFails(o, "REJECTED")
    /\ place' = [place EXCEPT ![o] = "rejected"]
    /\ UNCHANGED <<order, used, ltp, phase, toRecover, quote, bookVars, margin, cancel,
                   executed, unsure, kept, missed, boots>>

PlaceBlock(o) ==
    LET c == order[o].client
    IN /\ place[o] = "block"
       /\ \/ /\ CanBlock(c, margin[o])
             /\ used' = [used EXCEPT ![c] = @ + margin[o]]
             /\ place' = [place EXCEPT ![o] = "save"]
             /\ UNCHANGED <<unsure, faults>>
          \/ /\ ~CanBlock(c, margin[o])
             /\ place' = [place EXCEPT ![o] = "reject"]
             /\ UNCHANGED <<used, unsure, faults>>
          \/ \* an error of the connection, before or after the script has run
             /\ Fault
             /\ \/ UNCHANGED used
                \/ CanBlock(c, margin[o]) /\ used' = [used EXCEPT ![c] = @ + margin[o]]
             /\ unsure' = unsure \union {o}
             /\ place' = [place EXCEPT ![o] = "reject"]
       /\ UNCHANGED <<order, stored, index, ltp, phase, toRecover, quote, bookVars, margin,
                      cancel, executed, kept, missed, boots>>

\* Mutant: the error of SaveOrder is ignored.
PlaceSaveUnchecked(o) ==
    /\ place[o] = "save"
    /\ \/ SaveOrder(o, "OPEN") /\ UNCHANGED faults
       \/ SaveOrderFails(o, "OPEN")
    /\ place' = [place EXCEPT ![o] = IF order[o].listed THEN "add" ELSE "undo"]
    /\ UNCHANGED <<order, used, ltp, phase, toRecover, quote, bookVars, margin, cancel,
                   executed, unsure, kept, missed, boots>>

\* SaveOrder, then the look-up of the symbol's book
PlaceSave(o) ==
    /\ place[o] = "save"
    /\ \/ /\ SaveOrder(o, "OPEN") /\ UNCHANGED faults
          /\ place' = [place EXCEPT ![o] = IF order[o].listed THEN "add" ELSE "undo"]
       \/ /\ SaveOrderFails(o, "OPEN")
          /\ place' = [place EXCEPT ![o] = "undo"]
    /\ UNCHANGED <<order, used, ltp, phase, toRecover, quote, bookVars, margin, cancel,
                   executed, unsure, kept, missed, boots>>

PlaceUndo(o) ==
    /\ place[o] = "undo"
    /\ Release(o, margin[o])
    /\ place' = [place EXCEPT ![o] = "refused"]
    /\ UNCHANGED <<order, stored, index, ltp, phase, toRecover, quote, bookVars, margin,
                   cancel, executed, kept, missed, boots>>

\* book.Add of an order object nothing of which is filled
AddToBook(o) ==
    /\ book' = book \union {o}
    /\ mem' = [mem EXCEPT ![o] = "OPEN"]
    /\ pending' = pending \union {o}
    /\ UNCHANGED filled

PlaceAdd(o) ==
    /\ place[o] = "add"
    /\ AddToBook(o)
    /\ place' = [place EXCEPT ![o] = "accepted"]
    /\ UNCHANGED <<order, redisVars, phase, toRecover, quote, margin, cancel, executed,
                   unsure, kept, missed, boots, faults>>

-----------------------------------------------------------------------------
(* CancelOrder *)

IsActive(o) == mem[o] \in {"OPEN", "PARTIALLY_FILLED"}

\* GetOrder finds the order, and book.Cancel takes it out of the book.
CancelBook(o) ==
    /\ phase = "serving"
    /\ stored[o] # "none"
    /\ o \in book
    /\ IsActive(o)
    /\ book' = book \ {o}
    /\ mem' = [mem EXCEPT ![o] = "CANCELLED"]
    /\ cancel' = [cancel EXCEPT ![o] = "release"]
    /\ UNCHANGED <<order, redisVars, phase, toRecover, quote, pending, filled, place, margin,
                   executed, unsure, kept, missed, boots, faults>>

\* GetOrder, the book or book.Cancel says no: an error, and nothing changes.
CancelRefused(o) ==
    /\ phase = "serving"
    /\ stored[o] = "none" \/ o \notin book \/ ~IsActive(o)
    /\ UNCHANGED vars

\* Mutant: the margin of a limit order is released at the market's price.
CancelReleaseAtLTP(o) ==
    /\ cancel[o] = "release"
    /\ Release(o, Margin(o, ltp))
    /\ cancel' = [cancel EXCEPT ![o] = "unindex"]
    /\ UNCHANGED <<order, stored, index, ltp, phase, toRecover, quote, bookVars, place,
                   margin, executed, kept, missed, boots>>

\* The margin of the copy in Redis, whose RemainingQty is the whole quantity;
\* that of a market order at the price of now, 0 when that has expired.
CancelRelease(o) ==
    /\ cancel[o] = "release"
    /\ Release(o, Margin(o, IF order[o].type = "MARKET" THEN ltp ELSE order[o].price))
    /\ cancel' = [cancel EXCEPT ![o] = "unindex"]
    /\ UNCHANGED <<order, stored, index, ltp, phase, toRecover, quote, bookVars, place,
                   margin, executed, kept, missed, boots>>

\* Mutant: the order stays in the index of its old status.
CancelUnindexSkipped(o) ==
    /\ cancel[o] = "unindex"
    /\ cancel' = [cancel EXCEPT ![o] = "save"]
    /\ UNCHANGED <<order, redisVars, phase, toRecover, quote, bookVars, place, margin,
                   executed, unsure, kept, missed, boots, faults>>

\* UpdateOrderStatus: GetOrder, which ends the call when the order is not there or
\* cannot be read, and SRem from the index of the status found, whose error is ignored
CancelUnindex(o) ==
    /\ cancel[o] = "unindex"
    /\ \/ /\ stored[o] # "none"
          /\ index' = [index EXCEPT ![stored[o]] = @ \ {o}]
          /\ cancel' = [cancel EXCEPT ![o] = "save"]
          /\ UNCHANGED <<kept, faults>>
       \/ /\ stored[o] # "none"
          /\ Fault
          /\ kept' = kept \union {o}
          /\ cancel' = [cancel EXCEPT ![o] = "save"]
          /\ UNCHANGED index
       \/ /\ Fault \/ (stored[o] = "none" /\ UNCHANGED faults)
          /\ cancel' = [cancel EXCEPT ![o] = "failed"]
          /\ UNCHANGED <<index, kept>>
    /\ UNCHANGED <<order, stored, used, ltp, phase, toRecover, quote, bookVars, place,
                   margin, executed, unsure, missed, boots>>

\* UpdateOrderStatus: SaveOrder, whose result is the client's answer
CancelSave(o) ==
    /\ cancel[o] = "save"
    /\ \/ /\ SaveOrder(o, "CANCELLED") /\ UNCHANGED faults
          /\ cancel' = [cancel EXCEPT ![o] = "done"]
       \/ /\ SaveOrderFails(o, "CANCELLED")
          /\ cancel' = [cancel EXCEPT ![o] = "failed"]
    /\ UNCHANGED <<order, used, ltp, phase, toRecover, quote, bookVars, place, margin,
                   executed, unsure, kept, missed, boots>>

-----------------------------------------------------------------------------
(* Book and engine *)

StatusAfterFill(o) == IF filled'[o] = order[o].qty THEN "FILLED" ELSE "PARTIALLY_FILLED"

\* In the pass of incoming, a trade with an active order of the book at that
\* order's price, as the ledger allows it; both order objects show it.
Execute(incoming, resting) ==
    LET buy == IF order[incoming].side = "SELL" THEN resting ELSE incoming
        sell == IF order[incoming].side = "SELL" THEN incoming ELSE resting
    IN /\ incoming \in pending
       /\ resting \in book
       /\ IsActive(resting)
       /\ Ledger!Execute(buy, sell, order[resting].price)
       /\ mem' = [mem EXCEPT ![buy] = StatusAfterFill(buy), ![sell] = StatusAfterFill(sell)]
       /\ UNCHANGED <<redisVars, phase, toRecover, quote, book, pending, place, margin,
                      cancel, unsure, kept, missed, boots, faults>>

\* The pass ends; what a market order could not get is rejected, in memory.
PassEnds(o) ==
    /\ o \in pending
    /\ pending' = pending \ {o}
    /\ mem' = IF /\ order[o].type = "MARKET"
                 /\ filled[o] < order[o].qty
                 /\ mem[o] # "FILLED"
              THEN [mem EXCEPT ![o] = "REJECTED"]
              ELSE mem
    /\ UNCHANGED <<order, redisVars, phase, toRecover, quote, book, filled, place, margin,
                   cancel, executed, unsure, kept, missed, boots, faults>>

-----------------------------------------------------------------------------
(* Crash and start *)

Answered == {"new", "accepted", "rejected", "refused", "lost"}
CancelAnswered == {"none", "done", "failed", "lost"}

\* The process dies: its memory and every call under way are lost.
Crash ==
    /\ phase # "down"
    /\ phase' = "down"
    /\ toRecover' = {}
    /\ quote' = 0
    /\ book' = {}
    /\ mem' = [o \in Orders |-> "none"]
    /\ pending' = {}
    /\ filled' = [o \in Orders |-> 0]
    /\ place' = [o \in Orders |-> IF place[o] \in Answered THEN place[o] ELSE "lost"]
    /\ cancel' = [o \in Orders |->
                    IF cancel[o] \in CancelAnswered THEN cancel[o] ELSE "lost"]
    /\ UNCHANGED <<order, redisVars, margin, executed, unsure, kept, missed, boots, faults>>

\* Mutant: only orders that were partly filled are read back.
GetOpenOrdersPartialOnly == {o \in index["PARTIALLY_FILLED"] : stored[o] # "none"}

\* What the two indexes name and still exists
GetOpenOrders ==
    {o \in index["OPEN"] \union index["PARTIALLY_FILLED"] : stored[o] # "none"}

\* main: a first quote, InitAccount of every client, and the read of the indexes and
\* of what they name; orders that cannot be read are skipped, or all of them with a
\* warning, and the server starts without them.
Boot(p) ==
    /\ phase = "down"
    /\ boots < MaxBoots
    /\ boots' = boots + 1
    /\ quote' = p
    /\ ltp' = p
    /\ used' = [c \in Clients |-> 0]
    /\ missed' \in SUBSET GetOpenOrders
    /\ IF missed' = {} THEN UNCHANGED faults ELSE Fault
    /\ toRecover' = GetOpenOrders \ missed'
    /\ phase' = "recovering"
    /\ UNCHANGED <<order, stored, index, bookVars, place, margin, cancel, executed, unsure,
                   kept>>

\* RecoverFromRedis: book.Add of the copy in Redis, if its symbol has a book
RecoverOne(o) ==
    /\ o \in toRecover
    /\ toRecover' = toRecover \ {o}
    /\ IF order[o].listed THEN AddToBook(o) ELSE UNCHANGED bookVars
    /\ UNCHANGED <<order, redisVars, phase, quote, place, margin, cancel, executed, unsure,
                   kept, missed, boots, faults>>

ListenAndServe ==
    /\ phase = "recovering"
    /\ toRecover = {}
    /\ phase' = "serving"
    /\ UNCHANGED <<order, redisVars, toRecover, quote, bookVars, place, margin, cancel,
                   executed, unsure, kept, missed, boots, faults>>

-----------------------------------------------------------------------------
PlaceOrder(o) ==
    \/ PlaceCheck(o) \/ PlaceReject(o) \/ PlaceBlock(o) \/ PlaceSave(o)
    \/ PlaceUndo(o) \/ PlaceAdd(o)

CancelOrder(o) ==
    \/ CancelBook(o) \/ CancelRefused(o) \/ CancelRelease(o) \/ CancelUnindex(o)
    \/ CancelSave(o)

Next ==
    \/ \E o \in Orders : PlaceOrder(o) \/ CancelOrder(o)
    \/ \E o, r \in Orders : Execute(o, r)
    \/ \E o \in Orders : PassEnds(o)
    \/ \E p \in Prices : Refresh(p) \/ Boot(p)
    \/ ExpireLTP
    \/ \E o \in Orders : ExpireOrder(o)
    \/ Crash
    \/ \E o \in Orders : RecoverOne(o)
    \/ ListenAndServe

Spec == Init /\ [][Next]_vars
-----------------------------------------------------------------------------
(* Properties *)

OrdersOf(c) == {o \in Orders : order[o].client = c}
NoNegativeMargin(c) == \A o \in OrdersOf(c) : margin[o] >= 0
NoMarketCancel(c) == \A o \in OrdersOf(c) : order[o].type = "MARKET" => cancel[o] = "none"

StateTypeOK ==
    /\ order \in [Orders -> OrderTerms]
    /\ stored \in [Orders -> Statuses \union {"none"}]
    /\ index \in [Statuses -> SUBSET Orders]
    /\ used \in [Clients -> Int]
    /\ ltp \in Nat
    /\ phase \in {"down", "recovering", "serving"}
    /\ toRecover \subseteq Orders
    /\ quote \in Nat
    /\ book \subseteq Orders
    /\ mem \in [Orders -> Statuses \union {"none"}]
    /\ pending \subseteq Orders
    /\ filled \in [Orders -> Nat]
    /\ place \in [Orders -> Answered \union {"reject", "block", "save", "undo", "add"}]
    /\ margin \in [Orders -> Int]
    /\ cancel \in [Orders -> CancelAnswered \union {"release", "unindex", "save"}]
    /\ unsure \subseteq Orders
    /\ kept \subseteq Orders
    /\ missed \subseteq Orders
    /\ boots \in 0 .. MaxBoots
    /\ faults \in 0 .. MaxFaults
    /\ phase = "down" => book = {} /\ pending = {} /\ toRecover = {}

\* Every variable keeps its type; orders are in memory only while there is a
\* process to hold them; and only an order with a negative margin, which the risk
\* checks let pass, can make a client's used margin negative (ReleaseMargin).
TypeOK ==
    /\ StateTypeOK
    /\ \A c \in Clients : NoNegativeMargin(c) => used[c] >= 0

\* Stages at which an order's margin is blocked and not yet given back: from
\* BlockMargin until PlaceOrder's undo or CancelOrder's release.
Bound(o) ==
    /\ place[o] \in {"save", "undo", "add", "accepted"}
    /\ cancel[o] \in {"none", "release"}

Owed(lost) == [o \in Orders |-> IF Bound(o) \/ o \in lost THEN margin[o] ELSE 0]

\* In its first life the server's accounts follow from what its requests have done:
\* the used margin in Redis is what PlaceOrder asked for every order that is past
\* BlockMargin and neither undone nor cancelled, executed or not, and for some of
\* the orders whose margin call returned an error; and it stays within the balance.
\* This holds however concurrent PlaceOrder and CancelOrder calls interleave and
\* whichever of them fail.  Two things break it for a client: a cancelled market
\* order, released at another price, and an order with a negative margin (only the
\* price of LIMIT orders is checked), after which ReleaseMargin's floor can leave
\* more used than is owed, though never less (BlockMargin, ReleaseMargin).
MarginAddsUp ==
    boots = 1 /\ phase # "down" =>
        \E lost \in SUBSET unsure : \A c \in Clients :
            LET owed == SumFunctionOnSet(Owed(lost), OrdersOf(c))
            IN NoMarketCancel(c) =>
                 /\ used[c] >= owed
                 /\ NoNegativeMargin(c) => used[c] = owed /\ used[c] <= Balance[c]

\* Redis comes before the book: every order in the book is in the OPEN index, with a
\* copy that a restart will find unless it has expired, at every step of PlaceOrder,
\* CancelOrder and RecoverFromRedis and whichever of their writes fail.  The one
\* exception are cancelled orders that could not be taken out of the index.
BookIsBacked ==
    \A o \in book : o \in index["OPEN"] /\ (stored[o] \in {"OPEN", "none"} \/ o \in kept)

\* An order the client was told is accepted, and nobody asked to cancel, is in the
\* book whenever the server takes requests, also after it crashed at any point and
\* was started again, unless its copy in Redis has expired or the last start could
\* not read it (RecoverFromRedis).
AcceptedSurvives ==
    \A o \in Orders :
        /\ phase = "serving" /\ place[o] = "accepted" /\ cancel[o] = "none"
        /\ stored[o] # "none" /\ o \notin missed
        => o \in book

\* An order whose cancellation the client was told of never comes back into the
\* book, also when a restart rebuilds the book from the indexes: the ignored error of
\* SRem is the only thing that can bring it back.
CancelledStaysOut ==
    \A o \in Orders : cancel[o] = "done" /\ o \notin kept => o \notin book

\* An order the risk checks or the margin check rejected never enters the book,
\* also not through the copy that PlaceOrder saves of it (PlaceOrder).
RejectedStaysOut == \A o \in Orders : place[o] = "rejected" => o \notin book

\* "Total accepted order value must never exceed account balance" (stress_test.py):
\* the margin of a client's accepted orders that are still open fits its balance.
OpenWithinBalance ==
    \A c \in Clients :
        LET open == {o \in OrdersOf(c) \intersect book : place[o] = "accepted" /\ IsActive(o)}
        IN SumFunctionOnSet(margin, open) <= Balance[c]

\* No request and no matching pass is under way.
Quiet ==
    /\ phase = "serving"
    /\ pending = {}
    /\ \A o \in Orders : place[o] \in Answered /\ cancel[o] \in CancelAnswered


Executed(o) ==
    LET of == {n \in DOMAIN executed : o \in {executed[n].buy, executed[n].sell}}
        Qty(n) == executed[n].qty
    IN MapThenSumSet(Qty, of)

\* "returns all orders that should be in the order book" (GetOpenOrders): what a
\* restart puts back has not been executed before, so no order is ever executed
\* beyond its quantity.
NeverOverExecuted == \A o \in Orders : Executed(o) <= order[o].qty
=============================================================================
