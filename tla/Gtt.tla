-------------------------------- MODULE Gtt --------------------------------
(***************************************************************************)
(* Good-till-triggered orders (internal/gtt): the manager's map of GTTs,   *)
(* the callers of Add and Cancel, the watcher that scans the map once a    *)
(* second, and the consumer of its events (internal/api).                  *)
(*                                                                         *)
(* The manager's lock is held through a whole scan, through the PlaceOrder *)
(* calls it makes and through every send on the bounded event channel.     *)
(* PlaceOrder appears as what the watcher sees of it: success or an error. *)
(***************************************************************************)
EXTENDS Integers, Sequences, FiniteSetsExt, Functions

CONSTANTS
    GttTerms,   \* [condition, trigger, qty, limit, pair, expires] of a request
    MaxGtts,    \* bound: how many GTTs are registered
    Prices,     \* the last prices Redis may hold; 0 is none
    EventCap    \* capacity of eventCh   (1000 in the code)

Ids == 1 .. MaxGtts
NoPair == 0

ASSUME GttAssumption ==
    /\ GttTerms \subseteq
         [condition : {"LTP_ABOVE", "LTP_BELOW"}, trigger : Nat, qty : Nat, limit : Nat,
          pair : Nat, expires : BOOLEAN]
    /\ MaxGtts \in Nat
    /\ Prices \subseteq Nat
    /\ EventCap \in Nat \ {0}

VARIABLES
    gtts,        \* gtts[id]: the terms of the GTT; the counter is the length
    status,      \* status[id]: its Status, "none" before Add
    late,        \* the GTTs whose ExpiresAt has passed
    ltp,         \* the last price in Redis
    scan,        \* the watcher: pc, GTTs still to visit, the current one, its order
    canceller,   \* the GTT whose Cancel waits for room in eventCh, or NoPair
    eventCh,     \* the channel to consumeGTTEvents
    notified,    \* the events consumeGTTEvents has pushed to clients
    placed       \* the orders PlaceOrder has accepted, each with its GTT

vars == <<gtts, status, late, ltp, scan, canceller, eventCh, notified, placed>>

Known == DOMAIN gtts
NoOrder == [gtt |-> NoPair, type |-> "MARKET", price |-> 0, counter |-> 0]
Idle == [pc |-> "idle", todo |-> {}, id |-> NoPair, order |-> NoOrder]
Event(id, event) == [gtt |-> id, event |-> event]

Init ==
    /\ gtts = <<>>
    /\ status = [id \in Ids |-> "none"]
    /\ late = {}
    /\ ltp \in Prices
    /\ scan = Idle
    /\ canceller = NoPair
    /\ eventCh = <<>>
    /\ notified = <<>>
    /\ placed = <<>>

\* Somebody holds m.mu.
Locked == scan.pc # "idle" \/ canceller # NoPair

-----------------------------------------------------------------------------
(* The API *)

\* Mutant: only the quantity is checked.
ValidQtyOnly(t) == t.qty > 0

Valid(t) == t.trigger > 0 /\ t.qty > 0

Add(t) ==
    /\ ~Locked
    /\ Len(gtts) < MaxGtts
    /\ Valid(t)
    /\ gtts' = Append(gtts, t)
    /\ status' = [status EXCEPT ![Len(gtts) + 1] = "ACTIVE"]
    /\ UNCHANGED <<late, ltp, scan, canceller, eventCh, notified, placed>>

\* A trigger price or quantity that is not positive: an error.
AddRefused(t) == ~Valid(t) /\ UNCHANGED vars

\* Mutant: Cancel tells nobody.
CancelSilently(id) ==
    /\ ~Locked
    /\ status[id] = "ACTIVE"
    /\ status' = [status EXCEPT ![id] = "CANCELLED"]
    /\ UNCHANGED <<gtts, late, ltp, scan, canceller, eventCh, notified, placed>>

Cancel(id) ==
    /\ ~Locked
    /\ status[id] = "ACTIVE"
    /\ status' = [status EXCEPT ![id] = "CANCELLED"]
    /\ canceller' = id
    /\ UNCHANGED <<gtts, late, ltp, scan, eventCh, notified, placed>>

\* eventCh <- "cancelled", and the deferred Unlock
CancelSend ==
    /\ canceller # NoPair
    /\ Len(eventCh) < EventCap
    /\ eventCh' = Append(eventCh, Event(canceller, "cancelled"))
    /\ canceller' = NoPair
    /\ UNCHANGED <<gtts, status, late, ltp, scan, notified, placed>>

\* An unknown GTT, or one that is not active: an error.
CancelRefused(id) ==
    /\ ~Locked
    /\ status[id] # "ACTIVE"
    /\ UNCHANGED vars

-----------------------------------------------------------------------------
(* The watcher *)

\* Mutant: the price has to go past the trigger.
CheckConditionStrict(t, p) ==
    IF t.condition = "LTP_ABOVE" THEN p > t.trigger ELSE p < t.trigger

CheckCondition(t, p) ==
    IF t.condition = "LTP_ABOVE" THEN p >= t.trigger ELSE p <= t.trigger

\* A limit order at the limit price, or a market order with the price seen; the
\* counter at that moment is kept as history.
BuildOrder(id, p) ==
    LET limit == gtts[id].limit
    IN [gtt |-> id, type |-> IF limit > 0 THEN "LIMIT" ELSE "MARKET",
        price |-> IF limit > 0 THEN limit ELSE p, counter |-> Len(gtts)]

\* The ticker fires: lock, and range over the map.
ScanStart ==
    /\ ~Locked
    /\ scan' = [Idle EXCEPT !.pc = "loop", !.todo = Known]
    /\ UNCHANGED <<gtts, status, late, ltp, canceller, eventCh, notified, placed>>

Visit(id) == scan.pc = "loop" /\ id \in scan.todo

\* Not active, no price, or the condition does not hold: continue.
ScanSkip(id) ==
    /\ Visit(id)
    /\ \/ status[id] # "ACTIVE"
       \/ id \notin late /\ (ltp = 0 \/ ~CheckCondition(gtts[id], ltp))
    /\ scan' = [scan EXCEPT !.todo = @ \ {id}]
    /\ UNCHANGED <<gtts, status, late, ltp, canceller, eventCh, notified, placed>>

ScanExpire(id) ==
    /\ Visit(id)
    /\ status[id] = "ACTIVE"
    /\ id \in late
    /\ status' = [status EXCEPT ![id] = "EXPIRED"]
    /\ scan' = [scan EXCEPT !.pc = "expired", !.id = id, !.todo = @ \ {id}]
    /\ UNCHANGED <<gtts, late, ltp, canceller, eventCh, notified, placed>>

\* TRIGGERED, and the order that PlaceOrder gets
ScanTrigger(id) ==
    /\ Visit(id)
    /\ status[id] = "ACTIVE"
    /\ id \notin late
    /\ ltp > 0
    /\ CheckCondition(gtts[id], ltp)
    /\ status' = [status EXCEPT ![id] = "TRIGGERED"]
    /\ scan' = [scan EXCEPT !.pc = "place", !.id = id, !.todo = @ \ {id},
                            !.order = BuildOrder(id, ltp)]
    /\ UNCHANGED <<gtts, late, ltp, canceller, eventCh, notified, placed>>

\* Mutant: a GTT that fired goes back to ACTIVE like one whose order was refused.
ScanPlacedRearms ==
    /\ scan.pc = "place"
    /\ placed' = Append(placed, scan.order)
    /\ status' = [status EXCEPT ![scan.id] = "ACTIVE"]
    /\ scan' = [scan EXCEPT !.pc = "triggered", !.order = NoOrder]
    /\ UNCHANGED <<gtts, late, ltp, canceller, eventCh, notified>>

\* PlaceOrder succeeds.
ScanPlaced ==
    /\ scan.pc = "place"
    /\ placed' = Append(placed, scan.order)
    /\ scan' = [scan EXCEPT !.pc = "triggered", !.order = NoOrder]
    /\ UNCHANGED <<gtts, status, late, ltp, canceller, eventCh, notified>>

\* PlaceOrder returns an error: active again, to be tried at the next scan.
ScanRefused ==
    /\ scan.pc = "place"
    /\ status' = [status EXCEPT ![scan.id] = "ACTIVE"]
    /\ scan' = [scan EXCEPT !.pc = "loop", !.id = NoPair, !.order = NoOrder]
    /\ UNCHANGED <<gtts, late, ltp, canceller, eventCh, notified, placed>>

Pair == gtts[scan.id].pair
PairIsActive == Pair \in Known /\ status[Pair] = "ACTIVE"

\* Mutant: the paired GTT is told it is cancelled and stays active.
ScanSendTriggeredOnly ==
    /\ scan.pc = "triggered"
    /\ Len(eventCh) < EventCap
    /\ eventCh' = Append(eventCh, Event(scan.id, "triggered"))
    /\ scan' = IF PairIsActive THEN [scan EXCEPT !.pc = "cancelled", !.id = Pair]
               ELSE [scan EXCEPT !.pc = "loop", !.id = NoPair]
    /\ UNCHANGED <<gtts, status, late, ltp, canceller, notified, placed>>

\* eventCh <- "triggered"; then an active paired GTT is cancelled.
ScanSendTriggered ==
    /\ scan.pc = "triggered"
    /\ Len(eventCh) < EventCap
    /\ eventCh' = Append(eventCh, Event(scan.id, "triggered"))
    /\ IF PairIsActive
       THEN /\ status' = [status EXCEPT ![Pair] = "CANCELLED"]
            /\ scan' = [scan EXCEPT !.pc = "cancelled", !.id = Pair]
       ELSE /\ scan' = [scan EXCEPT !.pc = "loop", !.id = NoPair]
            /\ UNCHANGED status
    /\ UNCHANGED <<gtts, late, ltp, canceller, notified, placed>>

\* eventCh <- "expired", or "cancelled" for a paired GTT
ScanSend ==
    /\ scan.pc \in {"expired", "cancelled"}
    /\ Len(eventCh) < EventCap
    /\ eventCh' = Append(eventCh, Event(scan.id, scan.pc))
    /\ scan' = [scan EXCEPT !.pc = "loop", !.id = NoPair]
    /\ UNCHANGED <<gtts, status, late, ltp, canceller, notified, placed>>

ScanEnd ==
    /\ scan.pc = "loop"
    /\ scan.todo = {}
    /\ scan' = Idle
    /\ UNCHANGED <<gtts, status, late, ltp, canceller, eventCh, notified, placed>>

-----------------------------------------------------------------------------
(* The consumer and the world *)

\* consumeGTTEvents: BroadcastOrderUpdate never waits
Consume ==
    /\ eventCh # <<>>
    /\ eventCh' = Tail(eventCh)
    /\ notified' = Append(notified, Head(eventCh))
    /\ UNCHANGED <<gtts, status, late, ltp, scan, canceller, placed>>

\* SetLTP, or the end of the price's time to live
PriceMoves(p) ==
    /\ ltp' = p
    /\ UNCHANGED <<gtts, status, late, scan, canceller, eventCh, notified, placed>>

\* IsExpired becomes true.
TimePasses(id) ==
    /\ id \in Known
    /\ gtts[id].expires
    /\ late' = late \union {id}
    /\ UNCHANGED <<gtts, status, ltp, scan, canceller, eventCh, notified, placed>>

-----------------------------------------------------------------------------
\* What the watcher does by itself, and the return of its call of PlaceOrder.
WatchSteps ==
    \/ ScanStart
    \/ \E id \in Ids : ScanSkip(id) \/ ScanExpire(id) \/ ScanTrigger(id)
    \/ ScanSendTriggered \/ ScanSend
    \/ ScanEnd

Watch == WatchSteps \/ ScanPlaced \/ ScanRefused

Next ==
    \/ \E t \in GttTerms : Add(t) \/ AddRefused(t)
    \/ \E id \in Ids : Cancel(id) \/ CancelRefused(id) \/ TimePasses(id)
    \/ CancelSend
    \/ Watch
    \/ Consume
    \/ \E p \in Prices : PriceMoves(p)

Spec == Init /\ [][Next]_vars

\* The ticker keeps firing and Go runs every goroutine that can run.  That PlaceOrder
\* returns is not assumed: book.Add in it may wait for ever (Matching!AddReturns), and
\* the watcher then waits with it and keeps the manager's lock.
Fairness == WF_vars(WatchSteps) /\ WF_vars(Consume) /\ WF_vars(CancelSend)

FairSpec == Spec /\ Fairness
-----------------------------------------------------------------------------
(* Properties *)

\* Every variable keeps its type, and every registered GTT has a trigger price
\* and a quantity (Add).
TypeOK ==
    /\ gtts \in Seq(GttTerms) /\ Len(gtts) <= MaxGtts
    /\ \A id \in Known : gtts[id].trigger > 0 /\ gtts[id].qty > 0
    /\ status \in [Ids -> {"none", "ACTIVE", "TRIGGERED", "CANCELLED", "EXPIRED"}]
    /\ late \subseteq Known
    /\ ltp \in Prices
    /\ scan.pc \in {"idle", "loop", "place", "triggered", "expired", "cancelled"}
    /\ scan.todo \subseteq Known
    /\ scan.id \in Ids \union {NoPair}
    /\ canceller \in Ids \union {NoPair}
    /\ Len(eventCh) <= EventCap

Fired(id) == {n \in DOMAIN placed : placed[n].gtt = id}

\* A GTT fires at most once, however often a refused order is tried again, never
\* after its Cancel returned or it expired, and only when the price it was placed
\* with, if it goes to the market, has reached its trigger (scan, buildOrder).
FiresOnce ==
    \A id \in Ids :
        /\ Cardinality(Fired(id)) <= 1
        /\ Fired(id) # {} => status[id] = "TRIGGERED"
        /\ \A n \in Fired(id) :
             placed[n].type = "MARKET"
                => IF gtts[id].condition = "LTP_ABOVE"
                   THEN placed[n].price >= gtts[id].trigger
                   ELSE placed[n].price <= gtts[id].trigger

\* One cancels the other: once a GTT has fired, the GTT it names as its pair, if
\* that was registered by then, does not fire any more; of two that name each other
\* only one ever does, although both may be due in the same scan and the order of
\* the one visited first may be refused (scan).
PairFiresOnce ==
    \A m, n \in DOMAIN placed :
        m < n /\ placed[n].gtt <= placed[m].counter
            => gtts[placed[m].gtt].pair # placed[n].gtt

Announced == notified \o eventCh
Sent(id) == {n \in DOMAIN Announced : Announced[n].gtt = id}
EventFor(st) == CASE st = "TRIGGERED" -> "triggered"
                  [] st = "CANCELLED" -> "cancelled"
                  [] st = "EXPIRED" -> "expired"

\* Whenever the manager's lock is free, every GTT that is done has been announced
\* exactly once and with what became of it, and one that is not done not at all:
\* the blocking sends of Cancel and scan lose no event when the channel is full.
OutcomeAnnounced ==
    ~Locked => \A id \in Ids :
        IF status[id] \in {"none", "ACTIVE"} THEN Sent(id) = {}
        ELSE \E n \in Sent(id) :
                Sent(id) = {n} /\ Announced[n].event = EventFor(status[id])

\* The price Redis holds meets the trigger of a registered GTT.
Reached(id) ==
    /\ id \in Known
    /\ ltp > 0
    /\ \/ gtts[id].condition = "LTP_ABOVE" /\ ltp >= gtts[id].trigger
       \/ gtts[id].condition = "LTP_BELOW" /\ ltp <= gtts[id].trigger

\* A GTT whose trigger stays reached does not wait for ever: it fires, is cancelled
\* or expires, unless PlaceOrder refuses its order again and again, or some call of
\* PlaceOrder never returns, with which the whole manager comes to a stop (scan).
ReachedIsServed ==
    \A id \in Ids :
        <>[]Reached(id) =>
            \/ <>(Fired(id) # {} \/ status[id] \in {"CANCELLED", "EXPIRED"})
            \/ []<><<ScanRefused /\ scan.id = id>>_vars
            \/ <>[](scan.pc = "place")
=============================================================================
