----------------------------- MODULE GttProofs -----------------------------
(***************************************************************************)
(* Proofs about Gtt, for any number of GTTs, terms, prices and places in   *)
(* the event channel: types, a GTT fires at most once, of two that name    *)
(* each other only one does, and every outcome is announced exactly once.  *)
(***************************************************************************)
EXTENDS Gtt, DataLemmas, FiniteSetTheorems

USE GttAssumption

Order == [gtt : Ids, type : {"LIMIT", "MARKET"}, price : Nat, counter : Nat]
Scan ==
    [pc : {"idle", "loop", "place", "triggered", "expired", "cancelled"},
     todo : SUBSET Nat, id : Ids \union {NoPair}, order : Order \union {NoOrder}]
Events == [gtt : Ids, event : {"triggered", "cancelled", "expired"}]

\* The types, and a GTT has a status when it is registered.
Types ==
    /\ TypeOK
    /\ scan \in Scan
    /\ eventCh \in Seq(Events)
    /\ notified \in Seq(Events)
    /\ placed \in Seq(Order)
    /\ \A id \in Ids : status[id] = "none" <=> id > Len(gtts)

\* The scan is at a GTT and has yet to announce what it did to it.
AtGtt == scan.pc \in {"place", "triggered", "expired", "cancelled"}

\* The status of a GTT whose event is still to be sent
Holding ==
    /\ scan.pc = "idle" \/ canceller = NoPair
    /\ AtGtt => scan.id \in Ids
    /\ scan.pc \in {"place", "triggered"} => status[scan.id] = "TRIGGERED"
    /\ scan.pc = "expired" => status[scan.id] = "EXPIRED"
    /\ scan.pc = "cancelled" => status[scan.id] = "CANCELLED"
    /\ canceller # NoPair => status[canceller] = "CANCELLED"

\* An order of a GTT is priced as its terms say.
Due(o) ==
    o.type = "MARKET" => IF gtts[o.gtt].condition = "LTP_ABOVE"
                         THEN o.price >= gtts[o.gtt].trigger
                         ELSE o.price <= gtts[o.gtt].trigger

\* The orders that were accepted are of GTTs that stay TRIGGERED, one of each; the
\* one that PlaceOrder has is of another.
Firing ==
    /\ \A n \in DOMAIN placed :
         /\ status[placed[n].gtt] = "TRIGGERED"
         /\ placed[n].counter <= Len(gtts)
         /\ Due(placed[n])
    /\ \A m, n \in DOMAIN placed : placed[m].gtt = placed[n].gtt => m = n
    /\ scan.pc = "place" =>
         /\ scan.order \in Order /\ scan.order.gtt = scan.id /\ Due(scan.order)
         /\ scan.order.counter = Len(gtts)
         /\ \A n \in DOMAIN placed : placed[n].gtt # scan.id
    /\ scan.pc = "triggered" =>
         /\ placed # <<>>
         /\ placed[Len(placed)].gtt = scan.id /\ placed[Len(placed)].counter = Len(gtts)

\* The pair of an order's GTT, if it was registered by then, will not fire.
PairOf(o) == gtts[o.gtt].pair
PairDone(o) ==
    PairOf(o) \in 1 .. o.counter =>
        /\ status[PairOf(o)] # "ACTIVE"
        /\ ~(scan.pc = "place" /\ scan.id = PairOf(o))

Pairing ==
    /\ PairFiresOnce
    /\ \A n \in DOMAIN placed :
         PairDone(placed[n]) \/ (scan.pc = "triggered" /\ n = Len(placed))

\* What happened to a GTT is announced once, or is about to be.
Awaited(id) == canceller = id \/ (AtGtt /\ scan.id = id)
Telling ==
    \A id \in Ids :
        IF status[id] \in {"none", "ACTIVE"} \/ Awaited(id) THEN Sent(id) = {}
        ELSE \E n \in Sent(id) :
                Sent(id) = {n} /\ Announced[n].event = EventFor(status[id])

GttInv == Types /\ Holding /\ Firing /\ Pairing /\ Telling

-----------------------------------------------------------------------------
\* The registered GTTs are the first ones, and each has terms.
LEMMA KnownIds ==
    ASSUME Types
    PROVE  /\ Len(gtts) \in Nat /\ Known = 1 .. Len(gtts) /\ Known \subseteq Ids
           /\ \A id \in Known :
                /\ gtts[id] \in GttTerms /\ gtts[id].limit \in Nat /\ gtts[id].pair \in Nat
                /\ gtts[id].trigger \in Nat
           /\ Ids \subseteq Nat /\ NoPair \notin Ids
  <1>1. gtts \in Seq(GttTerms) /\ Len(gtts) <= MaxGtts
    BY DEF Types, TypeOK
  <1>2. Len(gtts) \in Nat /\ Known = 1 .. Len(gtts) /\ \A id \in Known : gtts[id] \in GttTerms
    BY <1>1, LenProperties, ElementOfSeq DEF Known
  <1>3. \A t \in GttTerms : t.limit \in Nat /\ t.pair \in Nat /\ t.trigger \in Nat
    OBVIOUS
  <1>4. Known \subseteq Ids /\ Ids \subseteq Nat /\ NoPair \notin Ids
    BY <1>1, <1>2 DEF Ids, NoPair
  <1>5. QED BY <1>2, <1>3, <1>4

LEMMA TypesInit == Init => Types
  <1> SUFFICES ASSUME Init PROVE Types
    OBVIOUS
  <1>1. gtts = <<>> /\ eventCh = <<>> /\ notified = <<>> /\ placed = <<>> /\ late = {}
    BY DEF Init
  <1>2. scan = Idle /\ scan \in Scan /\ scan.todo = {}
    BY DEF Init, Idle, Scan
  <1>3. /\ status \in [Ids -> {"none", "ACTIVE", "TRIGGERED", "CANCELLED", "EXPIRED"}]
        /\ \A id \in Ids : status[id] = "none"
    BY DEF Init
  <1>4. Known = {} /\ Len(gtts) = 0
    BY <1>1 DEF Known
  <1>5. TypeOK
    BY <1>1, <1>2, <1>3, <1>4 DEF Init, TypeOK, Idle
  <1>6. \A id \in Ids : id > 0
    BY DEF Ids
  <1>7. QED BY <1>1, <1>2, <1>3, <1>4, <1>5, <1>6 DEF Types

\* Adding to the event channel, and taking from it, keeps its type.
LEMMA EventSent ==
    ASSUME Types, NEW e \in Events, Len(eventCh) < EventCap, eventCh' = Append(eventCh, e)
    PROVE  eventCh' \in Seq(Events) /\ Len(eventCh') <= EventCap
  <1>1. eventCh \in Seq(Events) /\ Len(eventCh) \in Nat
    BY DEF Types
  <1>2. Append(eventCh, e) \in Seq(Events) /\ Len(Append(eventCh, e)) = Len(eventCh) + 1
    BY <1>1, AppendProperties
  <1>3. QED BY <1>1, <1>2

\* The steps of the callers of Add and Cancel, of the consumer and of the world.
LEMMA TypesCallers ==
    ASSUME Types, Holding,
           \/ \E t \in GttTerms : Add(t) \/ AddRefused(t)
           \/ \E id \in Ids : Cancel(id) \/ CancelRefused(id) \/ TimePasses(id)
           \/ CancelSend \/ Consume \/ UNCHANGED vars
           \/ \E p \in Prices : PriceMoves(p)
    PROVE  Types'
  <1>0. /\ Len(gtts) \in Nat /\ Known = 1 .. Len(gtts) /\ Known \subseteq Ids
        /\ Ids \subseteq Nat /\ NoPair \notin Ids
    BY KnownIds
  <1>1. ASSUME NEW t \in GttTerms, Add(t) PROVE Types'
    <2>1. /\ gtts' = Append(gtts, t) /\ gtts \in Seq(GttTerms) /\ Valid(t)
          /\ Len(gtts) < MaxGtts
      BY <1>1 DEF Add, Types, TypeOK
    <2>2. /\ gtts' \in Seq(GttTerms) /\ Len(gtts') = Len(gtts) + 1
          /\ \A i \in 1 .. Len(gtts) : gtts'[i] = gtts[i]
          /\ gtts'[Len(gtts) + 1] = t
      BY <2>1, AppendProperties
    <2>3. Known' = 1 .. Len(gtts) + 1 /\ Len(gtts) + 1 \in Ids
      BY <1>0, <2>1, <2>2, LenProperties DEF Known, Ids
    <2>4. \A id \in Known' : gtts'[id].trigger > 0 /\ gtts'[id].qty > 0
      <3>1. \A id \in 1 .. Len(gtts) : gtts[id].trigger > 0 /\ gtts[id].qty > 0
        BY <1>0 DEF Types, TypeOK
      <3>2. QED BY <1>0, <2>1, <2>2, <2>3, <3>1 DEF Valid
    <2>5. /\ status' \in [Ids -> {"none", "ACTIVE", "TRIGGERED", "CANCELLED", "EXPIRED"}]
          /\ \A id \in Ids : status'[id] = "none" <=> id > Len(gtts')
      <3>1. status' = [status EXCEPT ![Len(gtts) + 1] = "ACTIVE"]
        BY <1>1 DEF Add
      <3>2. /\ status \in [Ids -> {"none", "ACTIVE", "TRIGGERED", "CANCELLED", "EXPIRED"}]
            /\ \A id \in Ids : status[id] = "none" <=> id > Len(gtts)
        BY DEF Types, TypeOK
      <3>3. \A id \in Ids : status'[id] = IF id = Len(gtts) + 1 THEN "ACTIVE" ELSE status[id]
        BY <2>3, <3>1, <3>2
      <3>4. \A id \in Ids : id # Len(gtts) + 1 => (id > Len(gtts') <=> id > Len(gtts))
        BY <1>0, <2>2
      <3>5. ASSUME NEW id \in Ids PROVE status'[id] = "none" <=> id > Len(gtts')
        <4>1. CASE id = Len(gtts) + 1
          BY <1>0, <2>2, <3>3, <4>1
        <4>2. CASE id # Len(gtts) + 1
          BY <3>2, <3>3, <3>4, <4>2
        <4>3. QED BY <4>1, <4>2
      <3>6. QED BY <2>3, <3>1, <3>2, <3>5
    <2>6. Known \subseteq Known'
      BY <1>0, <2>3
    <2>7. TypeOK'
      <3>1. /\ late \subseteq Known' /\ scan.todo \subseteq Known'
            /\ Len(gtts') <= MaxGtts
        <4>1. late \subseteq Known /\ scan.todo \subseteq Known
          BY DEF Types, TypeOK
        <4>2. Len(gtts') <= MaxGtts
          BY <1>0, <2>1, <2>2
        <4>3. QED BY <2>6, <4>1, <4>2
      <3>2. UNCHANGED <<late, ltp, scan, canceller, eventCh>>
        BY <1>1 DEF Add
      <3>3. QED BY <2>2, <2>4, <2>5, <3>1, <3>2 DEF Types, TypeOK
    <2>8. QED BY <1>1, <2>5, <2>7 DEF Add, Types
  <1>2. ASSUME NEW id \in Ids, Cancel(id) PROVE Types'
    <2>1. /\ status' = [status EXCEPT ![id] = "CANCELLED"] /\ canceller' = id
          /\ UNCHANGED <<gtts, late, ltp, scan, eventCh, notified, placed>>
          /\ status[id] = "ACTIVE"
      BY <1>2 DEF Cancel
    <2>2. QED BY <2>1 DEF Types, TypeOK, Known
  <1>3. CASE CancelSend
    <2>1. canceller \in Ids
      BY <1>3 DEF CancelSend, Types, TypeOK
    <2>2. Event(canceller, "cancelled") \in Events
      BY <2>1 DEF Event, Events
    <2>3. eventCh' \in Seq(Events) /\ Len(eventCh') <= EventCap
      BY <1>3, <2>2, EventSent DEF CancelSend
    <2>4. QED BY <1>3, <2>3 DEF CancelSend, Types, TypeOK, Known
  <1>4. ASSUME NEW id \in Ids, TimePasses(id) PROVE Types'
    BY <1>4 DEF TimePasses, Types, TypeOK, Known
  <1>5. CASE Consume
    <2>1. eventCh \in Seq(Events) /\ Len(eventCh) <= EventCap /\ eventCh # <<>>
          /\ notified \in Seq(Events)
      BY <1>5 DEF Consume, Types, TypeOK
    <2>2. Head(eventCh) \in Events /\ Tail(eventCh) \in Seq(Events)
          /\ Len(Tail(eventCh)) = Len(eventCh) - 1 /\ Len(eventCh) \in Nat
      BY <2>1, HeadTailProperties, LenProperties
    <2>3. Append(notified, Head(eventCh)) \in Seq(Events)
      BY <2>1, <2>2, AppendProperties
    <2>4. Len(Tail(eventCh)) <= EventCap
      BY <2>1, <2>2
    <2>5. QED BY <1>5, <2>2, <2>3, <2>4 DEF Consume, Types, TypeOK, Known
  <1>6. ASSUME NEW p \in Prices, PriceMoves(p) PROVE Types'
    BY <1>6 DEF PriceMoves, Types, TypeOK, Known
  <1>7. CASE UNCHANGED vars
    BY <1>7 DEF vars, Types, TypeOK, Known
  <1>8. QED
    BY <1>1, <1>2, <1>3, <1>4, <1>5, <1>6, <1>7 DEF AddRefused, CancelRefused

\* What the watcher does to the scan, step by step.
ScanTo(pc, id, todo, order) ==
    /\ scan' \in Scan
    /\ scan'.pc = pc /\ scan'.id = id /\ scan'.todo = todo /\ scan'.order = order

LEMMA ScanFields ==
    ASSUME Types
    PROVE  /\ \A id \in Ids : BuildOrder(id, ltp).gtt = id
           /\ ScanStart => ScanTo("loop", NoPair, Known, NoOrder)
           /\ \A id \in Ids :
                /\ ScanSkip(id) => ScanTo("loop", scan.id, scan.todo \ {id}, scan.order)
                /\ ScanExpire(id) => ScanTo("expired", id, scan.todo \ {id}, scan.order)
                /\ ScanTrigger(id) =>
                     /\ BuildOrder(id, ltp) \in Order
                     /\ ScanTo("place", id, scan.todo \ {id}, BuildOrder(id, ltp))
           /\ ScanPlaced => ScanTo("triggered", scan.id, scan.todo, NoOrder)
           /\ ScanRefused => ScanTo("loop", NoPair, scan.todo, NoOrder)
           /\ ScanSendTriggered =>
                \/ PairIsActive /\ ScanTo("cancelled", Pair, scan.todo, scan.order)
                \/ ~PairIsActive /\ ScanTo("loop", NoPair, scan.todo, scan.order)
           /\ ScanSend => ScanTo("loop", NoPair, scan.todo, scan.order)
           /\ ScanEnd => ScanTo("idle", NoPair, {}, NoOrder)
  <1>0. /\ scan \in Scan /\ Known \subseteq Nat /\ Known \subseteq Ids
        /\ scan.todo \subseteq Known
    BY KnownIds DEF Types, TypeOK
  <1>1. ScanStart => ScanTo("loop", NoPair, Known, NoOrder)
    BY <1>0 DEF ScanStart, ScanTo, Scan, Idle
  <1>2. ASSUME NEW id \in Ids, ScanSkip(id)
        PROVE  ScanTo("loop", scan.id, scan.todo \ {id}, scan.order)
    BY <1>0, <1>2 DEF ScanSkip, Visit, ScanTo, Scan
  <1>3. ASSUME NEW id \in Ids, ScanExpire(id)
        PROVE  ScanTo("expired", id, scan.todo \ {id}, scan.order)
    BY <1>0, <1>3 DEF ScanExpire, Visit, ScanTo, Scan
  <1>4. \A id \in Ids : BuildOrder(id, ltp).gtt = id
    BY DEF BuildOrder
  <1>5. ASSUME NEW id \in Ids, ScanTrigger(id)
        PROVE  /\ BuildOrder(id, ltp) \in Order
               /\ ScanTo("place", id, scan.todo \ {id}, BuildOrder(id, ltp))
    <2>1. gtts[id].limit \in Nat /\ ltp \in Nat /\ Len(gtts) \in Nat
      BY <1>0, <1>5, KnownIds DEF ScanTrigger, Visit, Types, TypeOK
    <2>2. BuildOrder(id, ltp) \in Order
      BY <2>1 DEF BuildOrder, Order
    <2>3. QED BY <1>0, <1>5, <2>2 DEF ScanTrigger, Visit, ScanTo, Scan
  <1>6. ScanPlaced => ScanTo("triggered", scan.id, scan.todo, NoOrder)
    BY <1>0 DEF ScanPlaced, ScanTo, Scan
  <1>7. ScanRefused => ScanTo("loop", NoPair, scan.todo, NoOrder)
    BY <1>0 DEF ScanRefused, ScanTo, Scan
  <1>8. ASSUME ScanSendTriggered
        PROVE  \/ PairIsActive /\ ScanTo("cancelled", Pair, scan.todo, scan.order)
               \/ ~PairIsActive /\ ScanTo("loop", NoPair, scan.todo, scan.order)
    <2>1. CASE PairIsActive
      <3>1. Pair \in Ids
        BY <1>0, <2>1 DEF PairIsActive
      <3>2. scan' = [scan EXCEPT !.pc = "cancelled", !.id = Pair]
        BY <1>8, <2>1 DEF ScanSendTriggered
      <3>3. QED BY <1>0, <2>1, <3>1, <3>2 DEF ScanTo, Scan
    <2>2. CASE ~PairIsActive
      <3>1. scan' = [scan EXCEPT !.pc = "loop", !.id = NoPair]
        BY <1>8, <2>2 DEF ScanSendTriggered
      <3>2. QED BY <1>0, <2>2, <3>1 DEF ScanTo, Scan
    <2>3. QED BY <2>1, <2>2
  <1>9. ScanSend => ScanTo("loop", NoPair, scan.todo, scan.order)
    BY <1>0 DEF ScanSend, ScanTo, Scan
  <1>10. ScanEnd => ScanTo("idle", NoPair, {}, NoOrder)
    BY <1>0 DEF ScanEnd, ScanTo, Scan, Idle
  <1>11. QED
    BY <1>1, <1>2, <1>3, <1>4, <1>5, <1>6, <1>7, <1>8, <1>9, <1>10

\* The steps of the watcher keep the types.
LEMMA TypesWatch ==
    ASSUME Types, Holding, Watch, Firing
    PROVE  Types'
  <1>0. /\ Len(gtts) \in Nat /\ Known = 1 .. Len(gtts) /\ Known \subseteq Ids
        /\ scan.todo \subseteq Known /\ scan \in Scan /\ NoPair \notin Ids
        /\ gtts' = gtts /\ Known' = Known /\ late' = late /\ ltp' = ltp
        /\ canceller' = canceller /\ notified' = notified
    BY KnownIds DEF Types, TypeOK, Watch, WatchSteps, ScanStart, ScanSkip, ScanExpire, ScanTrigger,
       ScanPlaced, ScanRefused, ScanSendTriggered, ScanSend, ScanEnd, Known
  <1>2. scan' \in Scan /\ scan'.todo \subseteq Known
    <2>1. CASE ScanStart
      BY <1>0, <2>1, ScanFields DEF ScanTo
    <2>2. ASSUME NEW id \in Ids, ScanSkip(id) \/ ScanExpire(id) \/ ScanTrigger(id)
          PROVE  scan' \in Scan /\ scan'.todo \subseteq Known
      BY <1>0, <2>2, ScanFields DEF ScanTo
    <2>3. CASE ScanPlaced \/ ScanRefused \/ ScanSendTriggered \/ ScanSend \/ ScanEnd
      BY <1>0, <2>3, ScanFields DEF ScanTo
    <2>4. QED BY <2>1, <2>2, <2>3 DEF Watch, WatchSteps
  <1>3. placed' \in Seq(Order)
    <2>1. CASE placed' = placed
      BY <2>1 DEF Types
    <2>2. CASE ScanPlaced
      <3>1. scan.order \in Order /\ placed \in Seq(Order) /\ placed' = Append(placed, scan.order)
        BY <2>2 DEF ScanPlaced, Firing, Types
      <3>2. QED BY <3>1, AppendProperties
    <2>3. QED BY <2>1, <2>2 DEF Watch, WatchSteps, ScanStart, ScanSkip, ScanExpire, ScanTrigger,
                              ScanRefused, ScanSendTriggered, ScanSend, ScanEnd
  <1>4. eventCh' \in Seq(Events) /\ Len(eventCh') <= EventCap
    <2>1. CASE eventCh' = eventCh
      BY <2>1 DEF Types, TypeOK
    <2>2. CASE ScanSendTriggered
      <3>1. Event(scan.id, "triggered") \in Events
        BY <2>2 DEF ScanSendTriggered, Holding, AtGtt, Event, Events
      <3>2. QED BY <2>2, <3>1, EventSent DEF ScanSendTriggered
    <2>3. CASE ScanSend
      <3>1. Event(scan.id, scan.pc) \in Events
        BY <2>3 DEF ScanSend, Holding, AtGtt, Event, Events
      <3>2. QED BY <2>3, <3>1, EventSent DEF ScanSend
    <2>4. QED BY <2>1, <2>2, <2>3 DEF Watch, WatchSteps, ScanStart, ScanSkip, ScanExpire, ScanTrigger,
                                     ScanPlaced, ScanRefused, ScanEnd
  <1>5. /\ status' \in [Ids -> {"none", "ACTIVE", "TRIGGERED", "CANCELLED", "EXPIRED"}]
        /\ \A i \in Ids : status'[i] = "none" <=> status[i] = "none"
    <2>0. /\ status \in [Ids -> {"none", "ACTIVE", "TRIGGERED", "CANCELLED", "EXPIRED"}]
          /\ AtGtt => scan.id \in Ids
          /\ scan.pc = "place" => status[scan.id] = "TRIGGERED"
      BY DEF Types, TypeOK, Holding
    <2>1. CASE status' = status
      BY <2>0, <2>1
    <2>2. ASSUME NEW i \in Ids, ScanExpire(i) \/ ScanTrigger(i)
          PROVE  /\ status' \in [Ids -> {"none", "ACTIVE", "TRIGGERED", "CANCELLED", "EXPIRED"}]
                 /\ \A j \in Ids : status'[j] = "none" <=> status[j] = "none"
      <3>1. /\ status[i] = "ACTIVE"
            /\ \/ status' = [status EXCEPT ![i] = "EXPIRED"]
               \/ status' = [status EXCEPT ![i] = "TRIGGERED"]
        BY <2>2 DEF ScanExpire, ScanTrigger
      <3>2. QED BY <2>0, <3>1
    <2>3. CASE ScanRefused
      BY <2>0, <2>3 DEF ScanRefused, AtGtt
    <2>4. CASE ScanSendTriggered
      BY <1>0, <2>0, <2>4 DEF ScanSendTriggered, PairIsActive
    <2>5. QED BY <2>1, <2>2, <2>3, <2>4 DEF Watch, WatchSteps, ScanStart, ScanSkip, ScanPlaced, ScanSend,
                                          ScanEnd
  <1>6. TypeOK'
    <2>1. scan'.pc \in {"idle", "loop", "place", "triggered", "expired", "cancelled"}
          /\ scan'.id \in Ids \union {NoPair}
      BY <1>2 DEF Scan
    <2>2. QED BY <1>0, <1>2, <1>4, <1>5, <2>1 DEF Types, TypeOK
  <1>7. QED BY <1>0, <1>2, <1>3, <1>4, <1>5, <1>6 DEF Types

\* Nobody else touches the GTT whose event the lock's holder is to send.
LEMMA HoldingStep ==
    ASSUME Types, Holding, [Next]_vars
    PROVE  Holding'
  <1> USE DEF AtGtt
  <1>0. /\ status \in [Ids -> {"none", "ACTIVE", "TRIGGERED", "CANCELLED", "EXPIRED"}]
        /\ canceller \in Ids \union {NoPair} /\ NoPair \notin Ids /\ Known \subseteq Ids
        /\ scan.todo \subseteq Known /\ Len(gtts) \in Nat
        /\ \A id \in Ids : status[id] = "none" <=> id > Len(gtts)
    BY KnownIds DEF Types, TypeOK
  <1>1. CASE UNCHANGED <<status, scan, canceller>>
    BY <1>1 DEF Holding
  <1>2. ASSUME NEW t \in GttTerms, Add(t) PROVE Holding'
    <2>1. scan' = scan /\ canceller' = canceller /\ scan.pc = "idle" /\ canceller = NoPair
      BY <1>2 DEF Add, Locked
    <2>2. QED BY <2>1 DEF Holding
  <1>3. ASSUME NEW id \in Ids, Cancel(id) PROVE Holding'
    <2>1. /\ scan' = scan /\ scan.pc = "idle" /\ canceller' = id
          /\ status' = [status EXCEPT ![id] = "CANCELLED"]
      BY <1>3 DEF Cancel, Locked
    <2>2. QED BY <1>0, <2>1 DEF Holding
  <1>4. CASE CancelSend
    <2>1. scan' = scan /\ status' = status /\ canceller' = NoPair
      BY <1>4 DEF CancelSend
    <2>2. QED BY <2>1 DEF Holding
  <1>5. CASE ScanStart
    <2>1. scan'.pc = "loop" /\ canceller' = NoPair
      BY <1>5, ScanFields DEF ScanTo, ScanStart, Locked
    <2>2. QED BY <2>1 DEF Holding
  <1>6. ASSUME NEW id \in Ids, ScanSkip(id) PROVE Holding'
    <2>1. scan'.pc = "loop" /\ canceller' = NoPair
      BY <1>6, ScanFields DEF ScanTo, ScanSkip, Visit, Holding
    <2>2. QED BY <2>1 DEF Holding
  <1>7. ASSUME NEW id \in Ids, ScanExpire(id) PROVE Holding'
    <2>1. /\ scan'.pc = "expired" /\ scan'.id = id /\ canceller' = NoPair
          /\ status' = [status EXCEPT ![id] = "EXPIRED"]
      BY <1>7, ScanFields DEF ScanTo, ScanExpire, Visit, Holding
    <2>2. QED BY <1>0, <2>1 DEF Holding
  <1>8. ASSUME NEW id \in Ids, ScanTrigger(id) PROVE Holding'
    <2>1. /\ scan'.pc = "place" /\ scan'.id = id /\ canceller' = NoPair
          /\ status' = [status EXCEPT ![id] = "TRIGGERED"]
      BY <1>8, ScanFields DEF ScanTo, ScanTrigger, Visit, Holding
    <2>2. QED BY <1>0, <2>1 DEF Holding
  <1>9. CASE ScanPlaced
    <2>1. /\ scan'.pc = "triggered" /\ scan'.id = scan.id /\ canceller' = NoPair
          /\ status' = status /\ status[scan.id] = "TRIGGERED" /\ scan.id \in Ids
      BY <1>9, ScanFields DEF ScanTo, ScanPlaced, Holding
    <2>2. QED BY <2>1 DEF Holding
  <1>10. CASE ScanRefused \/ ScanSend
    <2>1. scan'.pc = "loop" /\ canceller' = NoPair
      BY <1>10, ScanFields DEF ScanTo, ScanRefused, ScanSend, Holding
    <2>2. QED BY <2>1 DEF Holding
  <1>11. CASE ScanSendTriggered
    <2>1. canceller' = NoPair
      BY <1>11 DEF ScanSendTriggered, Holding
    <2>2. \/ scan'.pc = "loop"
          \/ /\ scan'.pc = "cancelled" /\ scan'.id = Pair /\ Pair \in Ids
             /\ status' = [status EXCEPT ![Pair] = "CANCELLED"]
      BY <1>0, <1>11, ScanFields DEF ScanTo, ScanSendTriggered, PairIsActive
    <2>3. QED BY <1>0, <2>1, <2>2 DEF Holding
  <1>12. CASE ScanEnd
    <2>1. scan'.pc = "idle" /\ canceller' = NoPair
      BY <1>12, ScanFields DEF ScanTo, ScanEnd, Holding
    <2>2. QED BY <2>1 DEF Holding
  <1>13. QED
    BY <1>1, <1>2, <1>3, <1>4, <1>5, <1>6, <1>7, <1>8, <1>9, <1>10, <1>11, <1>12
       DEF Next, Watch, WatchSteps, AddRefused, CancelRefused, TimePasses, Consume, PriceMoves, vars

\* Steps that neither register a GTT nor place an order, and that change no GTT that
\* has fired, keep what has fired.
LEMMA FiringKept ==
    ASSUME Types, Firing, UNCHANGED <<gtts, placed>>,
           \A n \in DOMAIN placed : status'[placed[n].gtt] = status[placed[n].gtt],
           scan'.pc \notin {"place", "triggered"}
    PROVE  Firing'
  BY DEF Firing, Due

\* Only a registered GTT has fired, and its terms stay.
LEMMA PlacedKnown ==
    ASSUME Types, Firing
    PROVE  \A n \in DOMAIN placed :
              placed[n] \in Order /\ placed[n].gtt \in Known /\ status[placed[n].gtt] # "ACTIVE"
  <1>1. \A n \in DOMAIN placed : placed[n] \in Order
    BY LenProperties, ElementOfSeq DEF Types
  <1>2. \A o \in Order : o.gtt \in Ids
    BY DEF Order
  <1>3. \A n \in DOMAIN placed : status[placed[n].gtt] = "TRIGGERED"
    BY DEF Firing
  <1>4. \A id \in Ids : status[id] = "TRIGGERED" => id \in Known
    <2>1. \A id \in Ids : id > Len(gtts) \/ id \in Known
      BY KnownIds DEF Ids
    <2>2. QED BY <2>1 DEF Types
  <1>5. QED BY <1>1, <1>2, <1>3, <1>4

LEMMA FiringStep ==
    ASSUME Types, Holding, Firing, [Next]_vars
    PROVE  Firing'
  <1>0. /\ status \in [Ids -> {"none", "ACTIVE", "TRIGGERED", "CANCELLED", "EXPIRED"}]
        /\ Known \subseteq Ids /\ Len(gtts) \in Nat /\ Known = 1 .. Len(gtts)
        /\ gtts \in Seq(GttTerms) /\ placed \in Seq(Order) /\ ltp \in Nat
    BY KnownIds DEF Types, TypeOK
  <1>1. \A n \in DOMAIN placed :
          placed[n] \in Order /\ placed[n].gtt \in Known /\ status[placed[n].gtt] # "ACTIVE"
    BY PlacedKnown
  <1>2. CASE UNCHANGED <<gtts, status, scan, placed>>
    BY <1>2 DEF Firing, Due
  <1>3. ASSUME NEW t \in GttTerms, Add(t) PROVE Firing'
    <2>1. /\ gtts' = Append(gtts, t) /\ status' = [status EXCEPT ![Len(gtts) + 1] = "ACTIVE"]
          /\ placed' = placed /\ scan' = scan /\ scan.pc = "idle"
      BY <1>3 DEF Add, Locked
    <2>2. /\ Len(gtts') = Len(gtts) + 1 /\ \A i \in 1 .. Len(gtts) : gtts'[i] = gtts[i]
      BY <1>0, <2>1, AppendProperties
    <2>3. \A i \in Known : status'[i] = status[i] /\ gtts'[i] = gtts[i]
      BY <1>0, <2>1, <2>2
    <2>4. \A n \in DOMAIN placed : placed[n].counter \in Nat /\ placed[n].counter <= Len(gtts)
      BY <1>1 DEF Firing, Order
    <2>5. \A n \in DOMAIN placed : placed[n].counter <= Len(gtts')
      BY <1>0, <2>2, <2>4
    <2>6. ASSUME NEW n \in DOMAIN placed PROVE Due(placed[n])'
      <3>1. Due(placed[n]) /\ gtts'[placed[n].gtt] = gtts[placed[n].gtt] /\ placed' = placed
        BY <1>1, <2>1, <2>3 DEF Firing
      <3>2. QED BY <3>1 DEF Due
    <2>7. \A n \in DOMAIN placed : status'[placed[n].gtt] = "TRIGGERED"
      BY <1>1, <2>3 DEF Firing
    <2>8. QED BY <2>1, <2>5, <2>6, <2>7 DEF Firing
  <1>4. ASSUME NEW id \in Ids, Cancel(id) PROVE Firing'
    <2>1. /\ status[id] = "ACTIVE" /\ status' = [status EXCEPT ![id] = "CANCELLED"]
          /\ UNCHANGED <<gtts, placed, scan>> /\ scan.pc = "idle"
      BY <1>4 DEF Cancel, Locked
    <2>2. \A n \in DOMAIN placed : status'[placed[n].gtt] = status[placed[n].gtt]
      BY <1>0, <1>1, <2>1
    <2>3. QED BY <2>1, <2>2, FiringKept
  <1>5. CASE ScanStart \/ ScanEnd \/ ScanSend
    <2>1. UNCHANGED <<gtts, placed, status>> /\ scan'.pc \in {"loop", "idle"}
      BY <1>5, ScanFields DEF ScanTo, ScanStart, ScanEnd, ScanSend
    <2>2. QED BY <2>1, FiringKept
  <1>6. ASSUME NEW id \in Ids, ScanSkip(id) PROVE Firing'
    <2>1. UNCHANGED <<gtts, placed, status>> /\ scan'.pc = "loop"
      BY <1>6, ScanFields DEF ScanTo, ScanSkip
    <2>2. QED BY <2>1, FiringKept
  <1>7. ASSUME NEW id \in Ids, ScanExpire(id) PROVE Firing'
    <2>1. /\ status[id] = "ACTIVE" /\ status' = [status EXCEPT ![id] = "EXPIRED"]
          /\ UNCHANGED <<gtts, placed>> /\ scan'.pc = "expired"
      BY <1>7, ScanFields DEF ScanTo, ScanExpire
    <2>2. \A n \in DOMAIN placed : status'[placed[n].gtt] = status[placed[n].gtt]
      BY <1>0, <1>1, <2>1
    <2>3. QED BY <2>1, <2>2, FiringKept
  <1>8. ASSUME NEW id \in Ids, ScanTrigger(id) PROVE Firing'
    <2> DEFINE o == BuildOrder(id, ltp)
    <2>1. /\ status[id] = "ACTIVE" /\ status' = [status EXCEPT ![id] = "TRIGGERED"]
          /\ UNCHANGED <<gtts, placed>> /\ id \in Known
          /\ scan'.pc = "place" /\ scan'.id = id /\ scan'.order = o
          /\ o \in Order /\ o.gtt = id /\ o.counter = Len(gtts)
      BY <1>8, ScanFields DEF ScanTo, ScanTrigger, Visit, BuildOrder, Types, TypeOK
    <2>2. \A n \in DOMAIN placed :
             /\ status'[placed[n].gtt] = status[placed[n].gtt] /\ placed[n].gtt # id
      BY <1>0, <1>1, <2>1
    <2>3. Due(o)
      <3>1. CheckCondition(gtts[id], ltp) /\ (o.type = "MARKET" => o.price = ltp)
        BY <1>8 DEF ScanTrigger, BuildOrder
      <3>2. QED BY <2>1, <3>1 DEF CheckCondition, Due
    <2> HIDE DEF o
    <2>4. QED BY <2>1, <2>2, <2>3 DEF Firing, Due
  <1>9. CASE ScanPlaced
    <2> DEFINE o == scan.order
    <2>1. /\ placed' = Append(placed, o) /\ UNCHANGED <<gtts, status>>
          /\ scan'.pc = "triggered" /\ scan'.id = scan.id
          /\ o \in Order /\ o.gtt = scan.id /\ Due(o) /\ o.counter = Len(gtts)
          /\ \A n \in DOMAIN placed : placed[n].gtt # o.gtt
          /\ status[o.gtt] = "TRIGGERED"
      BY <1>9, ScanFields DEF ScanTo, ScanPlaced, Firing, Holding
    <2>2. /\ Len(placed) \in Nat /\ DOMAIN placed = 1 .. Len(placed)
          /\ Len(placed') = Len(placed) + 1 /\ DOMAIN placed' = 1 .. Len(placed) + 1
          /\ placed'[Len(placed) + 1] = o /\ placed' # <<>>
          /\ \A n \in 1 .. Len(placed) : placed'[n] = placed[n]
      BY <1>0, <2>1, AppendProperties, LenProperties
    <2> HIDE DEF o
    <2>3. \A n \in DOMAIN placed' : n \in DOMAIN placed \/ n = Len(placed) + 1
      BY <2>2
    <2>4. \A n \in DOMAIN placed' : /\ status'[placed'[n].gtt] = "TRIGGERED"
                                    /\ placed'[n].counter <= Len(gtts') /\ Due(placed[n])'
      <3>1. \A n \in DOMAIN placed : /\ status[placed[n].gtt] = "TRIGGERED"
                                     /\ placed[n].counter <= Len(gtts) /\ Due(placed[n])
        BY DEF Firing
      <3>2. o.counter <= Len(gtts)
        BY <1>0, <2>1
      <3>4. ASSUME NEW n \in DOMAIN placed'
            PROVE  /\ status'[placed'[n].gtt] = "TRIGGERED"
                   /\ placed'[n].counter <= Len(gtts') /\ Due(placed[n])'
        <4>1. CASE n \in DOMAIN placed
          BY <2>1, <2>2, <3>1, <4>1 DEF Due
        <4>2. CASE n = Len(placed) + 1
          BY <2>1, <2>2, <3>2, <4>2 DEF Due
        <4>3. QED BY <2>3, <4>1, <4>2
      <3>5. QED BY <3>4
    <2>5. \A m, n \in DOMAIN placed' : placed'[m].gtt = placed'[n].gtt => m = n
      <3>1. \A m, n \in DOMAIN placed : placed[m].gtt = placed[n].gtt => m = n
        BY DEF Firing
      <3>2. QED BY <2>1, <2>2, <2>3, <3>1
    <2>6. QED BY <2>1, <2>2, <2>4, <2>5 DEF Firing
  <1>10. CASE ScanRefused
    <2>1. /\ status' = [status EXCEPT ![scan.id] = "ACTIVE"] /\ UNCHANGED <<gtts, placed>>
          /\ scan'.pc = "loop" /\ \A n \in DOMAIN placed : placed[n].gtt # scan.id
      BY <1>10, ScanFields DEF ScanTo, ScanRefused, Firing
    <2>2. \A n \in DOMAIN placed : status'[placed[n].gtt] = status[placed[n].gtt]
      BY <1>0, <1>1, <2>1
    <2>3. QED BY <2>1, <2>2, FiringKept
  <1>11. CASE ScanSendTriggered
    <2>1. /\ UNCHANGED <<gtts, placed>> /\ scan'.pc \in {"loop", "cancelled"}
          /\ \/ status' = status
             \/ status[Pair] = "ACTIVE" /\ status' = [status EXCEPT ![Pair] = "CANCELLED"]
      BY <1>11, ScanFields DEF ScanTo, ScanSendTriggered, PairIsActive
    <2>2. \A n \in DOMAIN placed : status'[placed[n].gtt] = status[placed[n].gtt]
      BY <1>0, <1>1, <2>1
    <2>3. QED BY <2>1, <2>2, FiringKept
  <1>12. QED
    BY <1>2, <1>3, <1>4, <1>5, <1>6, <1>7, <1>8, <1>9, <1>10, <1>11
       DEF Next, Watch, WatchSteps, AddRefused, CancelRefused, TimePasses, Consume, PriceMoves, CancelSend,
           vars

\* Steps that register no GTT and place no order, and that make no pair of a GTT that
\* has fired active, keep the pairs from firing.
LEMMA PairingKept ==
    ASSUME Types, Pairing, UNCHANGED <<gtts, placed>>, scan.pc # "triggered",
           \A id \in Ids : status[id] # "ACTIVE" /\ ~(scan.pc = "place" /\ scan.id = id)
               => status'[id] # "ACTIVE" /\ ~(scan'.pc = "place" /\ scan'.id = id),
           \A n \in DOMAIN placed : placed[n].counter <= Len(gtts)
    PROVE  Pairing'
  <1>1. PairFiresOnce'
    BY DEF Pairing, PairFiresOnce
  <1>2. ASSUME NEW n \in DOMAIN placed PROVE PairDone(placed[n])'
    <2>1. PairDone(placed[n]) /\ placed[n].counter <= Len(gtts) /\ placed[n].counter \in Nat
      <3>1. placed[n] \in Order
        BY LenProperties, ElementOfSeq DEF Types
      <3>2. QED BY <3>1 DEF Pairing, Order
    <2>2. PairOf(placed[n]) \in 1 .. placed[n].counter => PairOf(placed[n]) \in Ids
      BY <2>1, KnownIds DEF Ids, Types, TypeOK
    <2>3. PairOf(placed[n])' = PairOf(placed[n]) /\ placed' = placed
      BY DEF PairOf
    <2>4. QED BY <2>1, <2>2, <2>3 DEF PairDone
  <1>3. QED BY <1>1, <1>2 DEF Pairing

LEMMA PairingStep ==
    ASSUME Types, Holding, Firing, Pairing, [Next]_vars
    PROVE  Pairing'
  <1>0. /\ status \in [Ids -> {"none", "ACTIVE", "TRIGGERED", "CANCELLED", "EXPIRED"}]
        /\ Known \subseteq Ids /\ Len(gtts) \in Nat /\ Known = 1 .. Len(gtts)
        /\ gtts \in Seq(GttTerms) /\ placed \in Seq(Order) /\ NoPair \notin Ids
        /\ Ids \subseteq Nat
    BY KnownIds DEF Types, TypeOK
  <1>1. \A n \in DOMAIN placed :
          /\ placed[n] \in Order /\ placed[n].gtt \in Known /\ placed[n].counter \in Nat
          /\ placed[n].counter <= Len(gtts)
    BY PlacedKnown DEF Firing, Order
  <1>2. CASE UNCHANGED <<gtts, status, scan, placed>>
    BY <1>2 DEF Pairing, PairFiresOnce, PairDone, PairOf
  <1>3. ASSUME NEW t \in GttTerms, Add(t) PROVE Pairing'
    <2>1. /\ gtts' = Append(gtts, t) /\ status' = [status EXCEPT ![Len(gtts) + 1] = "ACTIVE"]
          /\ placed' = placed /\ scan' = scan /\ scan.pc = "idle"
      BY <1>3 DEF Add, Locked
    <2>2. \A i \in 1 .. Len(gtts) : gtts'[i] = gtts[i]
      BY <1>0, <2>1, AppendProperties
    <2>3. \A i \in Known : status'[i] = status[i] /\ gtts'[i] = gtts[i]
      BY <1>0, <2>1, <2>2
    <2>4. PairFiresOnce'
      <3>1. \A n \in DOMAIN placed : gtts'[placed[n].gtt] = gtts[placed[n].gtt]
        BY <1>1, <2>3
      <3>2. SUFFICES ASSUME NEW m \in DOMAIN placed, NEW n \in DOMAIN placed, m < n,
                            placed[n].gtt <= placed[m].counter
                     PROVE  gtts'[placed[m].gtt].pair # placed[n].gtt
        BY <2>1 DEF PairFiresOnce
      <3>3. gtts[placed[m].gtt].pair # placed[n].gtt
        BY <3>2 DEF Pairing, PairFiresOnce
      <3>4. QED BY <3>1, <3>3
    <2>5. ASSUME NEW n \in DOMAIN placed PROVE PairDone(placed[n])'
      <3>1. PairDone(placed[n])
        BY <2>1 DEF Pairing
      <3>2. gtts'[placed[n].gtt] = gtts[placed[n].gtt]
        BY <1>1, <2>3
      <3>3. PairOf(placed[n])' = PairOf(placed[n]) /\ placed' = placed
        BY <2>1, <3>2 DEF PairOf
      <3>4. PairOf(placed[n]) \in 1 .. placed[n].counter => PairOf(placed[n]) \in Known
        BY <1>0, <1>1
      <3>5. QED BY <2>1, <2>3, <3>1, <3>3, <3>4 DEF PairDone
    <2>6. QED BY <2>1, <2>4, <2>5 DEF Pairing
  <1>4. ASSUME NEW id \in Ids, Cancel(id) PROVE Pairing'
    <2>1. /\ status' = [status EXCEPT ![id] = "CANCELLED"]
          /\ UNCHANGED <<gtts, placed, scan>> /\ scan.pc = "idle"
      BY <1>4 DEF Cancel, Locked
    <2>2. QED BY <1>0, <1>1, <2>1, PairingKept
  <1>5. CASE ScanStart \/ ScanEnd \/ ScanSend
    <2>1. /\ UNCHANGED <<gtts, placed, status>> /\ scan'.pc \in {"loop", "idle"}
          /\ scan.pc # "triggered"
      BY <1>5, ScanFields DEF ScanTo, ScanStart, ScanEnd, ScanSend, Locked
    <2>2. QED BY <1>1, <2>1, PairingKept
  <1>6. ASSUME NEW id \in Ids, ScanSkip(id) PROVE Pairing'
    <2>1. UNCHANGED <<gtts, placed, status>> /\ scan'.pc = "loop" /\ scan.pc = "loop"
      BY <1>6, ScanFields DEF ScanTo, ScanSkip, Visit
    <2>2. QED BY <1>1, <2>1, PairingKept
  <1>7. ASSUME NEW id \in Ids, ScanExpire(id) PROVE Pairing'
    <2>1. /\ status' = [status EXCEPT ![id] = "EXPIRED"]
          /\ UNCHANGED <<gtts, placed>> /\ scan'.pc = "expired" /\ scan.pc = "loop"
      BY <1>7, ScanFields DEF ScanTo, ScanExpire, Visit
    <2>2. QED BY <1>0, <1>1, <2>1, PairingKept
  <1>8. ASSUME NEW id \in Ids, ScanTrigger(id) PROVE Pairing'
    <2>1. /\ status[id] = "ACTIVE" /\ status' = [status EXCEPT ![id] = "TRIGGERED"]
          /\ UNCHANGED <<gtts, placed>> /\ scan.pc = "loop" /\ scan'.id = id
      BY <1>8, ScanFields DEF ScanTo, ScanTrigger, Visit
    <2>2. QED BY <1>0, <1>1, <2>1, PairingKept
  <1>9. CASE ScanPlaced
    <2> DEFINE o == scan.order
    <2>1. /\ placed' = Append(placed, o) /\ UNCHANGED <<gtts, status>>
          /\ scan.pc = "place" /\ scan'.pc = "triggered"
          /\ o \in Order /\ o.gtt = scan.id /\ scan.id \in Ids
      BY <1>9, ScanFields DEF ScanTo, ScanPlaced, Firing, Holding, AtGtt
    <2>2. /\ Len(placed) \in Nat /\ DOMAIN placed = 1 .. Len(placed)
          /\ Len(placed') = Len(placed) + 1 /\ DOMAIN placed' = 1 .. Len(placed) + 1
          /\ placed'[Len(placed) + 1] = o
          /\ \A n \in 1 .. Len(placed) : placed'[n] = placed[n]
      BY <1>0, <2>1, AppendProperties, LenProperties
    <2> HIDE DEF o
    <2>3. \A n \in DOMAIN placed : PairDone(placed[n])
      BY <2>1 DEF Pairing
    <2>4. \A n \in DOMAIN placed : o.gtt <= placed[n].counter => PairOf(placed[n]) # o.gtt
      <3>1. o.gtt \in 1 .. MaxGtts
        BY <2>1 DEF Ids
      <3>2. QED BY <1>1, <2>1, <2>3, <3>1 DEF PairDone
    <2>5. PairFiresOnce'
      <3>1. SUFFICES ASSUME NEW m \in DOMAIN placed', NEW n \in DOMAIN placed', m < n,
                            placed'[n].gtt <= placed'[m].counter
                     PROVE  gtts'[placed'[m].gtt].pair # placed'[n].gtt
        BY DEF PairFiresOnce
      <3>2. m \in DOMAIN placed /\ placed'[m] = placed[m]
        BY <2>2, <3>1
      <3>3. CASE n \in DOMAIN placed
        BY <2>1, <2>2, <3>1, <3>2, <3>3 DEF Pairing, PairFiresOnce
      <3>4. CASE n = Len(placed) + 1
        BY <2>1, <2>2, <2>4, <3>1, <3>2, <3>4 DEF PairOf
      <3>5. QED BY <2>2, <3>3, <3>4
    <2>6. ASSUME NEW n \in DOMAIN placed', n # Len(placed') PROVE PairDone(placed[n])'
      <3>1. n \in DOMAIN placed /\ placed'[n] = placed[n]
        BY <2>2, <2>6
      <3>2. PairDone(placed[n])
        BY <2>3, <3>1
      <3>3. QED BY <2>1, <3>1, <3>2 DEF PairDone, PairOf
    <2>7. QED BY <2>1, <2>5, <2>6 DEF Pairing
  <1>10. CASE ScanRefused
    <2>1. /\ status' = [status EXCEPT ![scan.id] = "ACTIVE"] /\ UNCHANGED <<gtts, placed>>
          /\ scan'.pc = "loop" /\ scan.pc = "place"
      BY <1>10, ScanFields DEF ScanTo, ScanRefused
    <2>2. QED BY <1>0, <1>1, <2>1, PairingKept
  <1>11. CASE ScanSendTriggered
    <2>1. /\ UNCHANGED <<gtts, placed>> /\ scan'.pc \in {"loop", "cancelled"}
          /\ scan.pc = "triggered"
      BY <1>11, ScanFields DEF ScanTo, ScanSendTriggered
    <2>2. PairFiresOnce'
      BY <2>1 DEF Pairing, PairFiresOnce
    <2>3. /\ \A id \in Ids : status[id] # "ACTIVE" => status'[id] # "ACTIVE"
          /\ Pair \in Known => status'[Pair] # "ACTIVE"
      BY <1>0, <1>11 DEF ScanSendTriggered, PairIsActive
    <2>4. ASSUME NEW n \in DOMAIN placed PROVE PairDone(placed[n])'
      <3>1. PairOf(placed[n])' = PairOf(placed[n]) /\ placed' = placed
        BY <2>1 DEF PairOf
      <3>2. PairOf(placed[n]) \in 1 .. placed[n].counter => PairOf(placed[n]) \in Known
        BY <1>0, <1>1
      <3>3. CASE PairDone(placed[n])
        BY <1>0, <2>1, <2>3, <3>1, <3>2, <3>3 DEF PairDone
      <3>4. CASE n = Len(placed)
        <4>1. PairOf(placed[n]) = Pair
          BY <2>1, <3>4 DEF Firing, PairOf, Pair
        <4>2. QED BY <2>1, <2>3, <3>1, <3>2, <4>1 DEF PairDone
      <3>5. QED BY <3>3, <3>4 DEF Pairing
    <2>5. QED BY <2>1, <2>2, <2>4 DEF Pairing
  <1>12. QED
    BY <1>2, <1>3, <1>4, <1>5, <1>6, <1>7, <1>8, <1>9, <1>10, <1>11
       DEF Next, Watch, WatchSteps, AddRefused, CancelRefused, TimePasses, Consume, PriceMoves, CancelSend,
           vars

\* What an event that is sent, and one that is consumed, does to what was announced.
LEMMA Announcing ==
    ASSUME Types
    PROVE  /\ Announced \in Seq(Events)
           /\ UNCHANGED <<notified, eventCh>> => Announced' = Announced
           /\ \A e \in Events : UNCHANGED notified /\ eventCh' = Append(eventCh, e)
                => Announced' = Append(Announced, e)
           /\ Consume => Announced' = Announced
  <1>1. notified \in Seq(Events) /\ eventCh \in Seq(Events)
    BY DEF Types
  <1>2. Announced \in Seq(Events)
    BY <1>1, ConcatProperties DEF Announced
  <1>3. UNCHANGED <<notified, eventCh>> => Announced' = Announced
    BY DEF Announced
  <1>4. ASSUME NEW e \in Events, UNCHANGED notified, eventCh' = Append(eventCh, e)
        PROVE  Announced' = Append(Announced, e)
    <2>1. notified \o Append(eventCh, e) = Append(notified \o eventCh, e)
      BY <1>1, StreamSend
    <2>2. QED BY <1>4, <2>1 DEF Announced
  <1>5. ASSUME Consume PROVE Announced' = Announced
    <2>1. Append(notified, Head(eventCh)) \o Tail(eventCh) = notified \o eventCh
      BY <1>1, <1>5, StreamTake DEF Consume
    <2>2. QED BY <1>5, <2>1 DEF Announced, Consume
  <1>6. QED BY <1>2, <1>3, <1>4, <1>5

\* What is told of a GTT, as a predicate of what was announced
ToldAs(all, id, event) ==
    \E n \in DOMAIN all :
        /\ all[n].gtt = id /\ all[n].event = event
        /\ \A m \in DOMAIN all : all[m].gtt = id => m = n
Untold(all, id) == \A n \in DOMAIN all : all[n].gtt # id
TellingOf(id) ==
    IF status[id] \in {"none", "ACTIVE"} \/ Awaited(id) THEN Untold(Announced, id)
    ELSE ToldAs(Announced, id, EventFor(status[id]))

LEMMA TellingIff == Telling <=> \A id \in Ids : TellingOf(id)
  <1>1. \A id : Sent(id) = {} <=> Untold(Announced, id)
    BY DEF Sent, Untold
  <1>2. \A id, v : (\E n \in Sent(id) : Sent(id) = {n} /\ Announced[n].event = v)
                     <=> ToldAs(Announced, id, v)
    BY DEF Sent, ToldAs
  <1>3. QED BY <1>1, <1>2 DEF Telling, TellingOf

LEMMA Tell ==
    ASSUME NEW all \in Seq(Events), NEW e \in Events
    PROVE  /\ \A id : id # e.gtt /\ Untold(all, id) => Untold(Append(all, e), id)
           /\ \A id, v : id # e.gtt /\ ToldAs(all, id, v) => ToldAs(Append(all, e), id, v)
           /\ Untold(all, e.gtt) => ToldAs(Append(all, e), e.gtt, e.event)
  <1>1. /\ Len(all) \in Nat /\ DOMAIN all = 1 .. Len(all)
        /\ DOMAIN Append(all, e) = 1 .. Len(all) + 1
        /\ Append(all, e)[Len(all) + 1] = e
        /\ \A n \in 1 .. Len(all) : Append(all, e)[n] = all[n]
    BY AppendProperties, LenProperties
  <1> DEFINE new == Append(all, e)
  <1> HIDE DEF new
  <1>2. /\ DOMAIN all \subseteq DOMAIN new /\ Len(all) + 1 \in DOMAIN new
        /\ \A n \in DOMAIN new : n \in DOMAIN all \/ n = Len(all) + 1
        /\ new[Len(all) + 1] = e /\ \A n \in DOMAIN all : new[n] = all[n]
    BY <1>1 DEF new
  <1>3. ASSUME NEW id, id # e.gtt, Untold(all, id) PROVE Untold(new, id)
    BY <1>2, <1>3 DEF Untold
  <1>4. ASSUME NEW id, NEW v, id # e.gtt, ToldAs(all, id, v) PROVE ToldAs(new, id, v)
    BY <1>2, <1>4 DEF ToldAs
  <1>5. ASSUME Untold(all, e.gtt) PROVE ToldAs(new, e.gtt, e.event)
    BY <1>2, <1>5 DEF Untold, ToldAs
  <1>6. QED BY <1>3, <1>4, <1>5 DEF new

\* Every step announces what it must, and only that.
LEMMA TellingStep ==
    ASSUME Types, Holding, \A id \in Ids : TellingOf(id), [Next]_vars
    PROVE  \A id \in Ids : TellingOf(id)'
  <1>0. /\ status \in [Ids -> {"none", "ACTIVE", "TRIGGERED", "CANCELLED", "EXPIRED"}]
        /\ Known \subseteq Ids /\ Len(gtts) \in Nat /\ canceller \in Ids \union {NoPair}
        /\ \A id \in Ids : status[id] = "none" <=> id > Len(gtts)
        /\ NoPair \notin Ids /\ Ids \subseteq Nat
    BY KnownIds DEF Types, TypeOK
  <1>1. ASSUME NEW id \in Ids, Announced' = Announced, Awaited(id)' <=> Awaited(id),
               \/ status'[id] = status[id]
               \/ {status[id], status'[id]} \subseteq {"none", "ACTIVE"}
        PROVE  TellingOf(id)'
    <2>1. TellingOf(id)
      OBVIOUS
    <2>2. status'[id] \in {"none", "ACTIVE"} <=> status[id] \in {"none", "ACTIVE"}
      BY <1>1
    <2>3. QED BY <1>1, <2>1, <2>2 DEF TellingOf
  <1>2. ASSUME NEW id \in Ids, Announced' = Announced, Awaited(id)',
               status[id] \in {"none", "ACTIVE"} \/ Awaited(id)
        PROVE  TellingOf(id)'
    <2>1. TellingOf(id)
      OBVIOUS
    <2>2. QED BY <1>2, <2>1 DEF TellingOf
  <1>3. ASSUME NEW id \in Ids, NEW e \in Events, Announced' = Append(Announced, e),
               id # e.gtt, Awaited(id)' <=> Awaited(id), status'[id] = status[id]
        PROVE  TellingOf(id)'
    <2>1. TellingOf(id) /\ Announced \in Seq(Events)
      BY Announcing
    <2>2. CASE status[id] \in {"none", "ACTIVE"} \/ Awaited(id)
      <3>1. Untold(Announced, id)
        BY <2>1, <2>2 DEF TellingOf
      <3>2. Untold(Announced', id)
        BY <1>3, <2>1, <3>1, Tell
      <3>3. QED BY <1>3, <2>2, <3>2 DEF TellingOf
    <2>3. CASE ~(status[id] \in {"none", "ACTIVE"} \/ Awaited(id))
      <3>1. ToldAs(Announced, id, EventFor(status[id]))
        BY <2>1, <2>3 DEF TellingOf
      <3>2. ToldAs(Announced', id, EventFor(status[id]))
        BY <1>3, <2>1, <3>1, Tell
      <3>3. QED BY <1>3, <2>3, <3>2 DEF TellingOf
    <2>4. QED BY <2>2, <2>3
  <1>4. ASSUME NEW id \in Ids, NEW e \in Events, Announced' = Append(Announced, e),
               id = e.gtt, Awaited(id), ~Awaited(id)', e.event = EventFor(status'[id]),
               status'[id] \notin {"none", "ACTIVE"}
        PROVE  TellingOf(id)'
    <2>1. TellingOf(id) /\ Announced \in Seq(Events)
      BY Announcing
    <2>2. Untold(Announced, id)
      BY <1>4, <2>1 DEF TellingOf
    <2>3. ToldAs(Announced', id, e.event)
      BY <1>4, <2>1, <2>2, Tell
    <2>4. QED BY <1>4, <2>3 DEF TellingOf
  <1> USE DEF Awaited, AtGtt
  <1>5. CASE UNCHANGED <<status, scan, canceller, notified, eventCh>>
    BY <1>1, <1>5, Announcing
  <1>6. CASE Consume
    BY <1>1, <1>6, Announcing DEF Consume
  <1>7. ASSUME NEW t \in GttTerms, Add(t), NEW id \in Ids PROVE TellingOf(id)'
    <2>1. /\ status' = [status EXCEPT ![Len(gtts) + 1] = "ACTIVE"]
          /\ UNCHANGED <<scan, canceller>> /\ Announced' = Announced
      BY <1>7, Announcing DEF Add
    <2>2. \/ status'[id] = status[id]
          \/ {status[id], status'[id]} \subseteq {"none", "ACTIVE"}
      BY <1>0, <2>1
    <2>3. QED BY <1>1, <2>1, <2>2
  <1>8. ASSUME NEW c \in Ids, Cancel(c), NEW id \in Ids PROVE TellingOf(id)'
    <2>1. /\ status' = [status EXCEPT ![c] = "CANCELLED"] /\ scan' = scan /\ canceller' = c
          /\ status[c] = "ACTIVE" /\ canceller = NoPair /\ Announced' = Announced
      BY <1>8, Announcing DEF Cancel, Locked
    <2>2. CASE id = c
      BY <1>2, <2>1, <2>2
    <2>3. CASE id # c
      BY <1>0, <1>1, <2>1, <2>3
    <2>4. QED BY <2>2, <2>3
  <1>9. ASSUME CancelSend, NEW id \in Ids PROVE TellingOf(id)'
    <2> DEFINE e == Event(canceller, "cancelled")
    <2>1. /\ canceller \in Ids /\ e \in Events /\ e.gtt = canceller /\ e.event = "cancelled"
          /\ status[canceller] = "CANCELLED" /\ scan.pc = "idle"
      BY <1>0, <1>9 DEF CancelSend, Event, Events, Holding
    <2>2. Announced' = Append(Announced, e)
      BY <1>9, <2>1, Announcing DEF CancelSend
    <2>3. UNCHANGED <<status, scan>> /\ canceller' = NoPair
      BY <1>9 DEF CancelSend
    <2> HIDE DEF e
    <2>4. CASE id = canceller
      <3>1. e.event = EventFor(status'[id]) /\ status'[id] \notin {"none", "ACTIVE"}
        BY <2>1, <2>3, <2>4 DEF EventFor
      <3>2. QED BY <1>0, <1>4, <2>1, <2>2, <2>3, <2>4, <3>1
    <2>5. CASE id # canceller
      BY <1>0, <1>3, <2>1, <2>2, <2>3, <2>5
    <2>6. QED BY <2>4, <2>5
  <1>10. ASSUME ScanStart \/ ScanEnd, NEW id \in Ids PROVE TellingOf(id)'
    <2>1. /\ UNCHANGED <<status, canceller>> /\ Announced' = Announced
          /\ scan.pc \in {"idle", "loop"} /\ scan'.pc \in {"idle", "loop"}
      BY <1>10, ScanFields, Announcing DEF ScanTo, ScanStart, ScanEnd, Locked
    <2>2. QED BY <1>1, <2>1
  <1>11. ASSUME NEW c \in Ids, ScanSkip(c), NEW id \in Ids PROVE TellingOf(id)'
    <2>1. /\ UNCHANGED <<status, canceller>> /\ Announced' = Announced
          /\ scan.pc = "loop" /\ scan'.pc = "loop"
      BY <1>11, ScanFields, Announcing DEF ScanTo, ScanSkip, Visit
    <2>2. QED BY <1>1, <2>1
  <1>12. ASSUME NEW c \in Ids, ScanExpire(c) \/ ScanTrigger(c), NEW id \in Ids
         PROVE  TellingOf(id)'
    <2>1. /\ \/ status' = [status EXCEPT ![c] = "EXPIRED"]
             \/ status' = [status EXCEPT ![c] = "TRIGGERED"]
          /\ status[c] = "ACTIVE" /\ canceller' = canceller /\ Announced' = Announced
          /\ scan.pc = "loop" /\ scan'.pc \in {"expired", "place"} /\ scan'.id = c
      BY <1>12, ScanFields, Announcing DEF ScanTo, ScanExpire, ScanTrigger, Visit
    <2>2. CASE id = c
      BY <1>2, <2>1, <2>2
    <2>3. CASE id # c
      <3>1. status'[id] = status[id]
        BY <1>0, <2>1, <2>3
      <3>2. QED BY <1>1, <2>1, <2>3, <3>1
    <2>4. QED BY <2>2, <2>3
  <1>13. ASSUME ScanPlaced, NEW id \in Ids PROVE TellingOf(id)'
    <2>1. /\ UNCHANGED <<status, canceller>> /\ Announced' = Announced
          /\ scan.pc = "place" /\ scan'.pc = "triggered" /\ scan'.id = scan.id
      BY <1>13, ScanFields, Announcing DEF ScanTo, ScanPlaced
    <2>2. QED BY <1>1, <2>1
  <1>14. ASSUME ScanRefused, NEW id \in Ids PROVE TellingOf(id)'
    <2>1. /\ status' = [status EXCEPT ![scan.id] = "ACTIVE"] /\ canceller' = canceller
          /\ Announced' = Announced /\ scan.pc = "place" /\ scan'.pc = "loop"
          /\ canceller = NoPair /\ scan.id \in Ids
      BY <1>14, ScanFields, Announcing DEF ScanTo, ScanRefused, Holding
    <2>2. CASE id = scan.id
      <3>1. TellingOf(id) /\ Awaited(id) /\ status'[id] = "ACTIVE"
        BY <1>0, <2>1, <2>2
      <3>2. QED BY <2>1, <3>1 DEF TellingOf
    <2>3. CASE id # scan.id
      BY <1>0, <1>1, <2>1, <2>3
    <2>4. QED BY <2>2, <2>3
  <1>15. ASSUME ScanSend, NEW id \in Ids PROVE TellingOf(id)'
    <2> DEFINE e == Event(scan.id, scan.pc)
    <2>1. /\ scan.id \in Ids /\ e \in Events /\ e.gtt = scan.id /\ e.event = scan.pc
          /\ scan.pc \in {"expired", "cancelled"} /\ canceller = NoPair
      BY <1>15 DEF ScanSend, Event, Events, Holding
    <2>2. Announced' = Append(Announced, e)
      BY <1>15, <2>1, Announcing DEF ScanSend
    <2>3. UNCHANGED <<status, canceller>> /\ scan'.pc = "loop"
      BY <1>15, ScanFields DEF ScanSend, ScanTo
    <2> HIDE DEF e
    <2>4. CASE id = scan.id
      <3>1. e.event = EventFor(status'[id]) /\ status'[id] \notin {"none", "ACTIVE"}
        BY <2>1, <2>3, <2>4 DEF EventFor, Holding
      <3>2. QED BY <1>0, <1>4, <2>1, <2>2, <2>3, <2>4, <3>1
    <2>5. CASE id # scan.id
      BY <1>0, <1>3, <2>1, <2>2, <2>3, <2>5
    <2>6. QED BY <2>4, <2>5
  <1>16. ASSUME ScanSendTriggered, NEW id \in Ids PROVE TellingOf(id)'
    <2> DEFINE e == Event(scan.id, "triggered")
    <2>1. /\ scan.id \in Ids /\ e \in Events /\ e.gtt = scan.id /\ e.event = "triggered"
          /\ scan.pc = "triggered" /\ canceller = NoPair /\ status[scan.id] = "TRIGGERED"
      BY <1>16 DEF ScanSendTriggered, Event, Events, Holding
    <2>2. Announced' = Append(Announced, e)
      BY <1>16, <2>1, Announcing DEF ScanSendTriggered
    <2>3. /\ canceller' = canceller
          /\ \/ status' = status /\ scan'.pc = "loop"
             \/ /\ status' = [status EXCEPT ![Pair] = "CANCELLED"] /\ scan'.pc = "cancelled"
                /\ scan'.id = Pair /\ Pair \in Ids /\ status[Pair] = "ACTIVE"
      BY <1>0, <1>16, ScanFields DEF ScanSendTriggered, ScanTo, PairIsActive
    <2> HIDE DEF e
    <2>4. CASE id = scan.id
      <3>1. status'[id] = "TRIGGERED" /\ ~Awaited(id)' /\ Awaited(id)
        BY <1>0, <2>1, <2>3, <2>4
      <3>2. e.event = EventFor(status'[id])
        BY <2>1, <3>1 DEF EventFor
      <3>3. QED BY <1>4, <2>1, <2>2, <2>4, <3>1, <3>2
    <2>5. CASE id # scan.id /\ status' = status /\ scan'.pc = "loop"
      BY <1>0, <1>3, <2>1, <2>2, <2>3, <2>5
    <2>6. CASE id # scan.id /\ id = Pair /\ scan'.pc = "cancelled" /\ scan'.id = Pair
               /\ status[Pair] = "ACTIVE"
      <3>1. Untold(Announced, id) /\ Announced \in Seq(Events)
        BY <2>6, Announcing DEF TellingOf
      <3>2. Untold(Announced', id)
        BY <2>1, <2>2, <2>6, <3>1, Tell
      <3>3. Awaited(id)'
        BY <2>6
      <3>4. QED BY <3>2, <3>3 DEF TellingOf
    <2>7. CASE id # scan.id /\ id # Pair /\ scan'.pc = "cancelled" /\ scan'.id = Pair
               /\ status' = [status EXCEPT ![Pair] = "CANCELLED"]
      BY <1>0, <1>3, <2>1, <2>2, <2>3, <2>7
    <2>8. QED BY <2>3, <2>4, <2>5, <2>6, <2>7
  <1>17. QED
    BY <1>5, <1>6, <1>7, <1>8, <1>9, <1>10, <1>11, <1>12, <1>13, <1>14, <1>15, <1>16
       DEF Next, Watch, WatchSteps, AddRefused, CancelRefused, TimePasses, PriceMoves, vars

-----------------------------------------------------------------------------
LEMMA GttInit == Init => GttInv
  <1> SUFFICES ASSUME Init PROVE GttInv
    OBVIOUS
  <1>1. Types
    BY TypesInit
  <1>2. /\ scan.pc = "idle" /\ canceller = NoPair /\ placed = <<>> /\ notified = <<>>
        /\ eventCh = <<>> /\ \A id \in Ids : status[id] = "none"
    BY DEF Init, Idle
  <1>3. Holding /\ Firing /\ Pairing
    BY <1>2 DEF Holding, AtGtt, Firing, Pairing, PairFiresOnce
  <1>4. Announced = <<>>
    BY <1>2 DEF Announced
  <1>5. Telling
    BY <1>2, <1>4 DEF Telling, Sent
  <1>6. QED BY <1>1, <1>3, <1>5 DEF GttInv

LEMMA GttStep ==
    ASSUME GttInv, [Next]_vars
    PROVE  GttInv'
  <1>1. Types'
    BY TypesCallers, TypesWatch DEF GttInv, Next
  <1>2. Holding' /\ Firing' /\ Pairing'
    BY HoldingStep, FiringStep, PairingStep DEF GttInv
  <1>3. Telling'
    <2>1. \A id \in Ids : TellingOf(id)'
      BY TellingStep, TellingIff DEF GttInv
    <2>2. (\A id \in Ids : TellingOf(id))' => Telling'
      BY TellingIff, PTL
    <2>3. QED BY <2>1, <2>2
  <1>4. QED BY <1>1, <1>2, <1>3 DEF GttInv

\* Every variable keeps its type and every registered GTT has a trigger price and a
\* quantity (Add, Cancel, scan).
THEOREM GttTypes == Spec => []TypeOK
  <1>1. GttInv => TypeOK
    BY DEF GttInv, Types
  <1>2. QED BY <1>1, GttInit, GttStep, PTL DEF Spec

\* A GTT fires at most once, stays TRIGGERED, and at a price that reached its trigger
\* (scan).
THEOREM FiresAtMostOnce == Spec => []FiresOnce
  <1>1. GttInv => FiresOnce
    <2>1. SUFFICES ASSUME GttInv, NEW id \in Ids
                   PROVE  /\ Cardinality(Fired(id)) <= 1
                          /\ Fired(id) # {} => status[id] = "TRIGGERED"
                          /\ \A n \in Fired(id) : Due(placed[n]) /\ placed[n].gtt = id
      BY DEF FiresOnce, Due
    <2>2. /\ \A n \in Fired(id) : n \in DOMAIN placed /\ placed[n].gtt = id
          /\ \A m, n \in Fired(id) : m = n
          /\ \A n \in Fired(id) : status[id] = "TRIGGERED" /\ Due(placed[n])
      BY <2>1 DEF GttInv, Firing, Fired
    <2>3. Cardinality(Fired(id)) <= 1
      <3>1. CASE Fired(id) = {}
        BY <3>1, FS_EmptySet
      <3>2. CASE Fired(id) # {}
        <4>1. PICK n \in Fired(id) : Fired(id) = {n}
          BY <2>2, <3>2
        <4>2. Cardinality({n}) = 1
          BY FS_Singleton
        <4>3. QED BY <4>1, <4>2
      <3>3. QED BY <3>1, <3>2
    <2>4. QED BY <2>2, <2>3
  <1>2. QED BY <1>1, GttInit, GttStep, PTL DEF Spec

\* Once a GTT has fired, the one it names as its pair does not fire any more (scan).
THEOREM OneCancelsOther == Spec => []PairFiresOnce
  <1>1. GttInv => PairFiresOnce
    BY DEF GttInv, Pairing
  <1>2. QED BY <1>1, GttInit, GttStep, PTL DEF Spec

\* Whenever the lock is free, every outcome has been announced exactly once (Cancel,
\* scan, consumeGTTEvents).
THEOREM EveryOutcomeAnnounced == Spec => []OutcomeAnnounced
  <1>1. GttInv => OutcomeAnnounced
    <2>1. SUFFICES ASSUME GttInv, ~Locked PROVE OutcomeAnnounced
      BY DEF OutcomeAnnounced
    <2>2. \A id \in Ids : ~Awaited(id)
      BY <2>1, KnownIds DEF GttInv, Locked, Awaited, AtGtt
    <2>3. QED BY <2>1, <2>2 DEF GttInv, Telling, OutcomeAnnounced
  <1>2. QED BY <1>1, GttInit, GttStep, PTL DEF Spec
=============================================================================
