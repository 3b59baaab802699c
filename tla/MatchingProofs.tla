--------------------------- MODULE MatchingProofs ---------------------------
(***************************************************************************)
(* Proofs about Matching, for every set of orders and of terms and every   *)
(* capacity: type correctness, no trade outside an order's limits, no      *)
(* order executed beyond its quantity, and that Matching implements        *)
(* ExchangeLedger; trades are forwarded in order, market orders never      *)
(* rest, the book is well formed, its levels hide no quantity, and a       *)
(* cancelled order stays out of other orders' passes.                      *)
(***************************************************************************)
EXTENDS Matching, GoSliceProofs, DataLemmas

USE OrdersAssumption, TermsAssumption, CapAssumption

\* Every order that an event or the engine refers to has been placed.
PlacedFacts ==
    /\ \A o \in Orders : caller[o] = "new" => status[o] = "PENDING"
    /\ eventCh \in Seq([type : {"NEW_ORDER", "CANCEL_ORDER"}, order : Placed])
    /\ eng.pc # "idle" => eng.incoming \in Placed

\* What the engine knows while it works on a level: the level is on the other
\* side, within incoming's limit, and the order it looks at belongs to that level;
\* once it has found it active, both orders want something until they are filled.
EngineFacts ==
    /\ eng.pc \in WithLevel
          => /\ eng.level \in LevelsOf(Opposite(order[eng.incoming].side))
             /\ ~Beyond(eng.incoming, LevelPrice(eng.level))
    /\ eng.pc \in WithResting => eng.resting \in MatesOf(eng.level)
    /\ eng.pc \in {"trade", "fill"} => eng.resting \in Placed
    /\ eng.pc = "trade" => Remaining(eng.incoming) > 0 /\ Remaining(eng.resting) > 0
    /\ eng.pc = "fill" => eng.qty > 0

Inv == TypeOK /\ FillsMatchStatus /\ TradesWithinLimits /\ PlacedFacts /\ EngineFacts

-----------------------------------------------------------------------------
\* No step changes the terms of an order, and a placed order stays placed.
LEMMA PlacedGrows ==
    ASSUME OrdersTypeOK, [Next]_vars
    PROVE  order' = order /\ Placed \subseteq Placed'
  <1>1. CASE UNCHANGED vars
    BY <1>1 DEF vars, Placed
  <1>2. ASSUME NEW o \in Orders,
               Add(o) \/ AddSend(o) \/ Cancel(o) \/ CancelMark(o) \/ CancelSend(o)
        PROVE  order' = order /\ Placed \subseteq Placed'
    BY <1>2 DEF Add, AddSend, Cancel, CancelMark, CancelSend, Placed, OrdersTypeOK
  <1>3. ASSUME NEW o \in Orders, AddDuplicate(o) \/ CancelRefused(o)
        PROVE  order' = order /\ Placed \subseteq Placed'
    BY <1>3 DEF AddDuplicate, CancelRefused, vars, Placed
  <1>4. ASSUME Engine \/ Forward
        PROVE  order' = order /\ Placed \subseteq Placed'
    BY <1>4 DEF Engine, Forward, EngReceive, EngFetch, EngTakeLevel, EngEnterLevel, EngFinish,
                EngTakeOrder, EngCheck, EngTrade, EngFillResting, Placed
  <1>5. QED
    BY <1>1, <1>2, <1>3, <1>4 DEF Next, Return

\* The levels a side's slice shows are placed orders of that side, and their
\* queues show orders of the level's side and price.
LEMMA SeenLevels ==
    ASSUME TypeOK
    PROVE  /\ \A side \in Sides :
                /\ levels[side].len \in Nat
                /\ DOMAIN Levels(side) = 1 .. levels[side].len
                /\ \A i \in 1 .. levels[side].len : Levels(side)[i] \in LevelsOf(side)
           /\ \A l \in Orders :
                /\ queue[l].len \in Nat
                /\ DOMAIN Queue(l) = 1 .. queue[l].len
  <1>1. ASSUME NEW side \in Sides
        PROVE  /\ levels[side].len \in Nat
               /\ DOMAIN Levels(side) = 1 .. levels[side].len
               /\ \A i \in 1 .. levels[side].len : Levels(side)[i] \in LevelsOf(side)
    <2>1. levels[side] \in Slice(LevelsOf(side))
      BY DEF TypeOK, BookTypeOK
    <2>2. QED
      BY <2>1, ElemsType, LenProperties DEF Levels
  <1>2. ASSUME NEW l \in Orders
        PROVE  queue[l].len \in Nat /\ DOMAIN Queue(l) = 1 .. queue[l].len
    <2>1. queue[l] \in Slice(MatesOf(l))
      BY DEF TypeOK, BookTypeOK
    <2>2. QED
      BY <2>1, ElemsType, LenProperties DEF Queue
  <1>3. QED BY <1>1, <1>2

\* A change to the book keeps the types of all cells and every header that the
\* engine may hold.
BookKept ==
    /\ BookTypeOK'
    /\ \A side \in Sides : \A h : ValidHeader(levels[side], h) => ValidHeader(levels'[side], h)
    /\ \A l \in Placed : \A h : ValidHeader(queue[l], h) => ValidHeader(queue'[l], h)

\* Add, whether it joins a level or opens one, keeps the book in this sense.
LEMMA AddKeepsBook ==
    ASSUME TypeOK, PlacedFacts, FillsMatchStatus, NEW o \in Orders, Add(o)
    PROVE  BookKept
  <1>0. PICK side \in Sides : side = order[o].side
    BY DEF TypeOK, OrdersTypeOK
  <1>1. /\ order' = order /\ Placed \subseteq Placed' /\ o \in Placed' /\ o \notin Placed
        /\ caller[o] = "new"
    BY DEF Add, Placed, TypeOK, OrdersTypeOK
  <1>2. Remaining(o) \in Int
    BY DEF TypeOK, OrdersTypeOK, Remaining
  <1>3. PICK pos \in 1 .. levels[side].len + 1 :
          IF pos <= levels[side].len /\ LevelPrice(Levels(side)[pos]) = order[o].price
          THEN /\ queue' = [queue EXCEPT ![Levels(side)[pos]] = AppendTo(@, o)]
               /\ total' = [total EXCEPT ![Levels(side)[pos]] = @ + Remaining(o)]
               /\ UNCHANGED levels
          ELSE /\ levels' = [levels EXCEPT ![side] = Insert(@, pos, o)]
               /\ queue' = [queue EXCEPT ![o] = Literal(o)]
               /\ total' = [total EXCEPT ![o] = Remaining(o)]
    BY <1>0 DEF Add, AddToLevels
  <1>4. /\ DOMAIN levels = Sides /\ DOMAIN queue = Orders
        /\ \A x \in Sides : levels[x] \in Slice(LevelsOf(x)')
        /\ \A x \in Sides : LevelsOf(x) \subseteq LevelsOf(x)'
        /\ \A l \in Orders : queue[l] \in Slice(MatesOf(l)) /\ MatesOf(l)' = MatesOf(l)
        /\ total \in [Orders -> Int]
    <2>1. \A x \in Sides : LevelsOf(x) \subseteq LevelsOf(x)'
      BY <1>1 DEF LevelsOf
    <2>2. \A l \in Orders : MatesOf(l)' = MatesOf(l)
      BY <1>1 DEF MatesOf
    <2>3. \A x \in Sides : levels[x] \in Slice(LevelsOf(x)')
      BY <2>1, SliceMonotone DEF TypeOK, BookTypeOK
    <2>4. QED BY <2>1, <2>2, <2>3 DEF TypeOK, BookTypeOK
  <1>5. CASE pos <= levels[side].len /\ LevelPrice(Levels(side)[pos]) = order[o].price
    <2> DEFINE l == Levels(side)[pos]
    <2>1. l \in LevelsOf(side) /\ l \in Orders
      BY <1>2, <1>5, SeenLevels DEF LevelsOf, Placed
    <2>2. o \in MatesOf(l)
      BY <1>0, <1>5, <2>1 DEF MatesOf, LevelsOf, LevelPrice
    <2> HIDE DEF l
    <2>3. /\ AppendTo(queue[l], o) \in Slice(MatesOf(l))
          /\ \A h : ValidHeader(queue[l], h) => ValidHeader(AppendTo(queue[l], o), h)
      BY <1>4, <2>1, <2>2, AppendKeeps
    <2>4. /\ queue' = [queue EXCEPT ![l] = AppendTo(queue[l], o)]
          /\ total' = [total EXCEPT ![l] = total[l] + Remaining(o)]
          /\ levels' = levels
      BY <1>3, <1>5 DEF l
    <2>5. total' \in [Orders -> Int]
      BY <1>2, <1>4, <2>1, <2>4
    <2>6. \A m \in Orders : queue'[m] \in Slice(MatesOf(m)')
      BY <1>4, <2>1, <2>3, <2>4
    <2>7. \A m \in Orders : \A h : ValidHeader(queue[m], h) => ValidHeader(queue'[m], h)
      BY <1>4, <2>1, <2>3, <2>4
    <2>8. BookTypeOK'
      BY <1>4, <2>4, <2>5, <2>6 DEF BookTypeOK
    <2>9. QED
      BY <2>4, <2>7, <2>8 DEF BookKept, Placed
  <1>6. CASE ~(pos <= levels[side].len /\ LevelPrice(Levels(side)[pos]) = order[o].price)
    <2>1. o \in LevelsOf(side)'
      BY <1>0, <1>1 DEF LevelsOf
    <2>2. o \in MatesOf(o)
      BY DEF MatesOf
    <2>3. /\ Insert(levels[side], pos, o) \in Slice(LevelsOf(side)')
          /\ \A h : ValidHeader(levels[side], h) => ValidHeader(Insert(levels[side], pos, o), h)
      BY <1>2, <1>4, <2>1, InsertKeeps
    <2>4. Literal(o) \in Slice(MatesOf(o))
      BY <2>2, FreshSlices
    <2>5. /\ levels' = [levels EXCEPT ![side] = Insert(levels[side], pos, o)]
          /\ queue' = [queue EXCEPT ![o] = Literal(o)]
          /\ total' = [total EXCEPT ![o] = Remaining(o)]
      BY <1>3, <1>6
    <2>6. \A x \in Sides : levels'[x] \in Slice(LevelsOf(x)')
      BY <1>2, <1>4, <2>3, <2>5
    <2>7. \A m \in Orders : queue'[m] \in Slice(MatesOf(m)')
      BY <1>4, <2>4, <2>5
    <2>8. total' \in [Orders -> Int]
      BY <1>2, <1>4, <2>5
    <2>9. BookTypeOK'
      BY <1>4, <2>5, <2>6, <2>7, <2>8 DEF BookTypeOK
    <2>10. \A m \in Placed : queue'[m] = queue[m]
      BY <1>1, <1>4, <2>5 DEF Placed
    <2>11. \A x \in Sides : \A h : ValidHeader(levels[x], h) => ValidHeader(levels'[x], h)
      BY <1>2, <1>4, <2>3, <2>5
    <2>12. QED
      BY <2>9, <2>10, <2>11 DEF BookKept
  <1>7. QED BY <1>5, <1>6

\* Cancel, whether or not it empties the level, keeps the book in this sense.
LEMMA CancelKeepsBook ==
    ASSUME TypeOK, NEW o \in Orders, Cancel(o)
    PROVE  BookKept
  <1>0. PICK side \in Sides : side = order[o].side
    BY DEF TypeOK, OrdersTypeOK
  <1>1. /\ order' = order /\ Placed' = Placed
    BY DEF Cancel, Placed, TypeOK, OrdersTypeOK, Registered
  <1>2. Remaining(o) \in Int
    BY DEF TypeOK, OrdersTypeOK, Remaining
  <1>3. PICK i \in DOMAIN Levels(side) :
          /\ \E j \in DOMAIN Queue(Levels(side)[i]) :
               queue' = [queue EXCEPT ![Levels(side)[i]] = Delete(@, j)]
          /\ total' = [total EXCEPT ![Levels(side)[i]] = @ - Remaining(o)]
          /\ levels' = IF queue[Levels(side)[i]].len = 1
                       THEN [levels EXCEPT ![side] = Delete(@, i)]
                       ELSE levels
    BY <1>0 DEF Cancel, RemoveFromLevels
  <1> DEFINE l == Levels(side)[i]
  <1>4. /\ DOMAIN levels = Sides /\ DOMAIN queue = Orders
        /\ \A x \in Sides : levels[x] \in Slice(LevelsOf(x)) /\ LevelsOf(x)' = LevelsOf(x)
        /\ \A m \in Orders : queue[m] \in Slice(MatesOf(m)) /\ MatesOf(m)' = MatesOf(m)
        /\ total \in [Orders -> Int]
    BY <1>1 DEF TypeOK, BookTypeOK, LevelsOf, MatesOf
  <1>5. i \in 1 .. levels[side].len /\ l \in Orders
    BY <1>2, <1>3, SeenLevels DEF LevelsOf, Placed
  <1>6. PICK j \in 1 .. queue[l].len : queue' = [queue EXCEPT ![l] = Delete(queue[l], j)]
    BY <1>3, <1>5, SeenLevels
  <1>7. total' = [total EXCEPT ![l] = total[l] - Remaining(o)]
        /\ \/ levels' = [levels EXCEPT ![side] = Delete(levels[side], i)]
           \/ levels' = levels
    BY <1>3
  <1> HIDE DEF l
  <1>8. /\ Delete(levels[side], i) \in Slice(LevelsOf(side))
        /\ \A h : ValidHeader(levels[side], h) => ValidHeader(Delete(levels[side], i), h)
    BY <1>2, <1>4, <1>5, DeleteKeeps
  <1>9. /\ Delete(queue[l], j) \in Slice(MatesOf(l))
        /\ \A h : ValidHeader(queue[l], h) => ValidHeader(Delete(queue[l], j), h)
    BY <1>4, <1>5, <1>6, DeleteKeeps
  <1>10. /\ DOMAIN levels' = Sides
         /\ \A x \in Sides : levels'[x] \in Slice(LevelsOf(x)')
         /\ \A x \in Sides : \A h : ValidHeader(levels[x], h) => ValidHeader(levels'[x], h)
    BY <1>2, <1>4, <1>7, <1>8
  <1>11. /\ DOMAIN queue' = Orders
         /\ \A m \in Orders : queue'[m] \in Slice(MatesOf(m)')
         /\ \A m \in Orders : \A h : ValidHeader(queue[m], h) => ValidHeader(queue'[m], h)
    BY <1>4, <1>5, <1>6, <1>9
  <1>12. total' \in [Orders -> Int]
    BY <1>2, <1>4, <1>5, <1>7
  <1>13. QED
    BY <1>10, <1>11, <1>12 DEF BookKept, BookTypeOK, Placed

\* Hence every step of the system keeps it: the others do not write the book.
LEMMA BookStep ==
    ASSUME Inv, [Next]_vars
    PROVE  BookKept
  <1>1. ASSUME UNCHANGED <<levels, queue, total>> PROVE BookKept
    <2>1. order' = order /\ Placed \subseteq Placed'
      BY PlacedGrows DEF Inv, TypeOK
    <2>2. \A x \in Sides : LevelsOf(x) \subseteq LevelsOf(x)'
      BY <2>1 DEF LevelsOf
    <2>3. \A x \in Sides : levels[x] \in Slice(LevelsOf(x)')
      BY <2>2, SliceMonotone DEF Inv, TypeOK, BookTypeOK
    <2>4. \A l \in Orders : queue[l] \in Slice(MatesOf(l)')
      BY <2>1 DEF Inv, TypeOK, BookTypeOK, MatesOf
    <2>5. QED
      BY <1>1, <2>3, <2>4 DEF BookKept, BookTypeOK, Inv, TypeOK
  <1>2. ASSUME NEW o \in Orders, Add(o) PROVE BookKept
    BY <1>2, AddKeepsBook DEF Inv
  <1>3. ASSUME NEW o \in Orders, Cancel(o) PROVE BookKept
    BY <1>3, CancelKeepsBook DEF Inv
  <1>4. ASSUME NEW o \in Orders,
               AddDuplicate(o) \/ CancelRefused(o) \/ Return(o)
        PROVE  BookKept
    BY <1>1, <1>4 DEF AddDuplicate, CancelRefused, Return, AddSend, CancelMark, CancelSend,
                      vars, bookVars
  <1>5. ASSUME Engine \/ Forward \/ UNCHANGED vars PROVE BookKept
    BY <1>1, <1>5 DEF Engine, Forward, EngReceive, EngFetch, EngTakeLevel, EngEnterLevel, EngFinish,
                      EngTakeOrder, EngCheck, EngTrade, EngFillResting, vars, bookVars
  <1>6. QED BY <1>2, <1>3, <1>4, <1>5 DEF Next

\* What the engine reads through its headers, while it is on a level.
LEMMA EngineReads ==
    ASSUME Inv
    PROVE  /\ eng.pc = "level" /\ eng.i <= eng.view.len
                => ViewLevel \in LevelsOf(Opposite(order[eng.incoming].side))
           /\ eng.pc = "order" /\ eng.k <= eng.orders.len
                => ViewOrder \in MatesOf(eng.level)
  <1>1. ASSUME eng.pc = "level", eng.i <= eng.view.len
        PROVE  ViewLevel \in LevelsOf(Opposite(order[eng.incoming].side))
    <2>1. PICK side \in Sides : side = Opposite(order[eng.incoming].side)
      BY DEF Opposite, Sides
    <2>2. levels[side] \in Slice(LevelsOf(side)) /\ ValidHeader(levels[side], eng.view)
      BY <1>1, <2>1 DEF Inv, TypeOK, BookTypeOK, EngineTypeOK, EngineRecords
    <2>3. eng.i \in 1 .. eng.view.len
      BY <1>1 DEF Inv, TypeOK, EngineTypeOK, EngineRecords, Headers
    <2>4. QED BY <2>1, <2>2, <2>3, HeaderReads DEF ViewLevel
  <1>2. ASSUME eng.pc = "order", eng.k <= eng.orders.len
        PROVE  ViewOrder \in MatesOf(eng.level)
    <2>1. /\ queue[eng.level] \in Slice(MatesOf(eng.level))
          /\ ValidHeader(queue[eng.level], eng.orders)
      BY <1>2 DEF Inv, TypeOK, BookTypeOK, EngineTypeOK, WithLevel, WithOrders
    <2>2. eng.k \in 1 .. eng.orders.len
      BY <1>2 DEF Inv, TypeOK, EngineTypeOK, EngineRecords, Headers, WithOrders
    <2>3. QED BY <2>1, <2>2, HeaderReads DEF ViewOrder
  <1>3. QED BY <1>1, <1>2

\* The parts of the invariant about the engine only depend on the engine's own
\* variables, on the fills and on what the book keeps.
LEMMA EngineUntouched ==
    ASSUME Inv, BookKept, order' = order, Placed \subseteq Placed', UNCHANGED <<eng, filled>>
    PROVE  EngineTypeOK' /\ EngineFacts'
  <1>0. eng' = eng /\ filled' = filled /\ eng \in EngineRecords
    BY DEF Inv, TypeOK, EngineTypeOK
  <1>1. CASE eng.pc \in {"idle", "fetch"}
    BY <1>0, <1>1 DEF Inv, TypeOK, EngineTypeOK, EngineRecords, EngineFacts, WithLevel,
                      WithOrders, WithResting
  <1>2. CASE eng.pc \in {"level"} \union WithLevel
    <2>1. PICK side \in Sides : side = Opposite(order[eng.incoming].side)
      BY DEF Opposite, Sides
    <2>2. ValidHeader(levels'[side], eng.view)
      BY <1>2, <2>1 DEF Inv, TypeOK, EngineTypeOK, BookKept
    <2>3. eng.pc \in WithLevel => eng.level \in Placed /\ eng.level \in LevelsOf(side)
      BY <2>1 DEF Inv, EngineFacts, LevelsOf
    <2>4. eng.pc \in WithOrders => ValidHeader(queue'[eng.level], eng.orders)
      BY <2>3 DEF Inv, TypeOK, EngineTypeOK, BookKept, WithOrders, WithLevel
    <2>5. EngineTypeOK'
      BY <1>0, <1>2, <2>1, <2>2, <2>4 DEF Inv, TypeOK, EngineTypeOK, Opposite
    <2>6. \A x \in Orders : Remaining(x)' = Remaining(x) /\ MatesOf(x)' = MatesOf(x)
      BY <1>0 DEF Remaining, MatesOf
    <2>7. eng.pc # "idle" => eng.incoming \in Orders
      BY DEF Inv, TypeOK, EngineTypeOK
    <2>8. EngineFacts'
      BY <1>0, <1>2, <2>1, <2>3, <2>6, <2>7
         DEF Inv, TypeOK, EngineTypeOK, EngineFacts, LevelsOf, Beyond, LevelPrice, Opposite,
             WithLevel, WithResting
    <2>9. QED BY <2>5, <2>8
  <1>3. QED BY <1>0, <1>1, <1>2 DEF EngineRecords

\* Add and Cancel: the engine's state and all fills stay as they are.
LEMMA CallerStep ==
    ASSUME Inv, NEW o \in Orders,
           Add(o) \/ AddSend(o) \/ Cancel(o) \/ CancelMark(o) \/ CancelSend(o)
    PROVE  Inv'
  <1> [Next]_vars
    BY DEF Next, Return
  <1>1. order' = order /\ Placed \subseteq Placed' /\ BookKept
    BY PlacedGrows, BookStep DEF Inv, TypeOK
  <1>2. UNCHANGED <<order, filled, eng, executed, tradeCh, tape>>
    BY DEF Add, AddSend, Cancel, CancelMark, CancelSend, orderVars, tradeVars
  <1>3. EngineTypeOK' /\ EngineFacts'
    BY <1>1, <1>2, EngineUntouched
  <1>4. OrdersTypeOK'
    BY <1>2 DEF Inv, TypeOK, OrdersTypeOK, Statuses, Add, AddSend, Cancel, CancelMark,
                CancelSend, orderVars
  <1>5. FillsMatchStatus'
    <2>1. Settled' = Settled
      BY <1>2 DEF Settled
    <2>2. \A x \in Orders : \/ status'[x] = status[x]
                            \/ status'[x] = "OPEN" /\ caller[x] = "new"
                            \/ status'[x] = "CANCELLED"
      BY DEF Inv, TypeOK, OrdersTypeOK, Add, AddSend, Cancel, CancelMark, CancelSend, orderVars
    <2>3. \A x \in Orders : caller[x] = "new" => filled[x] = 0
      BY DEF Inv, PlacedFacts, FillsMatchStatus
    <2>4. QED
      BY <1>2, <2>1, <2>2, <2>3 DEF Inv, FillsMatchStatus
  <1>6. TradesWithinLimits'
    BY <1>2 DEF Inv, TradesWithinLimits, Ledger!Accepts
  <1> DEFINE Ev(S) == [type : {"NEW_ORDER", "CANCEL_ORDER"}, order : S]
  <1>7. eventCh' \in Seq(Ev(Placed'))
    <2>1. Ev(Placed) \subseteq Ev(Placed')
      BY <1>1
    <2>2. eventCh \in Seq(Ev(Placed'))
      <3>1. eventCh \in Seq(Ev(Placed))
        BY DEF Inv, PlacedFacts
      <3> HIDE DEF Ev
      <3>2. QED BY <2>1, <3>1, SeqMonotonic
    <2>3. CASE UNCHANGED eventCh
      BY <2>2, <2>3
    <2>4. ASSUME NEW t \in {"NEW_ORDER", "CANCEL_ORDER"},
                 eventCh' = Append(eventCh, [type |-> t, order |-> o]), o \in Placed'
          PROVE  eventCh' \in Seq(Ev(Placed'))
      <3>1. [type |-> t, order |-> o] \in Ev(Placed')
        BY <2>4
      <3> HIDE DEF Ev
      <3>2. QED BY <2>2, <2>4, <3>1, AppendProperties
    <2>5. CASE AddSend(o)
      BY <2>4, <2>5 DEF AddSend, Placed, Inv, TypeOK, OrdersTypeOK
    <2>6. CASE CancelSend(o)
      BY <2>4, <2>6 DEF CancelSend, Placed, Inv, TypeOK, OrdersTypeOK
    <2>7. QED BY <2>3, <2>5, <2>6 DEF Add, Cancel, CancelMark
  <1>8. PlacedFacts'
    <2>1. \A x \in Orders : caller'[x] = "new" => status'[x] = "PENDING"
      BY DEF Inv, TypeOK, OrdersTypeOK, PlacedFacts, Add, AddSend, Cancel, CancelMark,
             CancelSend, orderVars
    <2>2. eng'.pc # "idle" => eng'.incoming \in Placed'
      BY <1>1, <1>2 DEF Inv, PlacedFacts
    <2>3. QED BY <1>7, <2>1, <2>2 DEF PlacedFacts
  <1>9. ChannelsTypeOK'
    <2>1. Ev(Placed') \subseteq Ev(Orders)
      BY DEF Placed
    <2>2. eventCh' \in Seq(Ev(Orders))
      <3> HIDE DEF Ev
      <3>1. QED BY <1>7, <2>1, SeqMonotonic
    <2>3. QED BY <1>2, <2>2 DEF ChannelsTypeOK, Inv, TypeOK
  <1>10. QED
    BY <1>1, <1>3, <1>4, <1>5, <1>6, <1>8, <1>9 DEF Inv, TypeOK, BookKept

\* An active order still wants something, and what is left of an order is never
\* negative.
LEMMA LeftToFill ==
    ASSUME Inv, NEW o \in Orders
    PROVE  /\ order[o].qty \in Nat /\ order[o].qty > 0 /\ filled[o] \in Nat
           /\ Remaining(o) \in Nat
           /\ IsActive(o) => Remaining(o) > 0 /\ o \in Placed
  <1>1. order[o] \in OrderTerms /\ filled[o] \in Nat
    BY DEF Inv, TypeOK, OrdersTypeOK
  <1>2. order[o].qty \in Nat /\ order[o].qty > 0
    BY <1>1
  <1>3. filled[o] <= Settled[o] /\ Settled[o] <= order[o].qty
    <2>1. Settled[o] = IF eng.pc = "fill" /\ o = eng.resting
                       THEN filled[o] + eng.qty ELSE filled[o]
      BY DEF Settled
    <2>2. eng.qty \in Nat
      BY DEF Inv, TypeOK, EngineTypeOK, EngineRecords
    <2>3. QED BY <1>1, <2>1, <2>2 DEF Inv, FillsMatchStatus
  <1>4. Settled[o] \in Nat
    BY <1>1 DEF Settled, Inv, TypeOK, EngineTypeOK, EngineRecords
  <1>5. Remaining(o) \in Nat
    BY <1>1, <1>2, <1>3, <1>4 DEF Remaining
  <1>6. ASSUME IsActive(o) PROVE Remaining(o) > 0 /\ o \in Placed
    BY <1>1, <1>2, <1>6 DEF IsActive, Remaining, Inv, FillsMatchStatus, PlacedFacts, Placed
  <1>7. QED BY <1>1, <1>2, <1>5, <1>6

\* These steps neither start nor end between the two Fill calls of a trade.
LEMMA WalkKeepsOut ==
    ASSUME Inv, EngReceive \/ EngFetch \/ EngTakeLevel \/ EngEnterLevel \/ EngFinish
          \/ EngTakeOrder \/ EngCheck
    PROVE  eng.pc # "fill" /\ eng'.pc # "fill"
  <1>1. eng \in EngineRecords
    BY DEF Inv, TypeOK, EngineTypeOK
  <1>2. CASE EngReceive
    BY <1>1, <1>2 DEF EngReceive, EngineRecords
  <1>3. CASE EngFetch \/ EngTakeLevel \/ EngEnterLevel
    BY <1>1, <1>3 DEF EngFetch, EngTakeLevel, EngEnterLevel, EngineRecords
  <1>4. CASE EngFinish
    BY <1>4 DEF EngFinish, IdleEngine
  <1>5. CASE EngTakeOrder \/ EngCheck
    BY <1>1, <1>5 DEF EngTakeOrder, EngCheck, NextLevel, NextOrder, EngineRecords
  <1>6. QED BY <1>2, <1>3, <1>4, <1>5

\* The steps of the engine that read, and those that end a level or a pass.
LEMMA WalkStep ==
    ASSUME Inv, EngReceive \/ EngFetch \/ EngTakeLevel \/ EngEnterLevel \/ EngFinish
          \/ EngTakeOrder \/ EngCheck
    PROVE  Inv'
  <1> [Next]_vars
    BY DEF Next, Engine
  <1>1. order' = order /\ Placed \subseteq Placed' /\ BookKept
    BY PlacedGrows, BookStep DEF Inv, TypeOK
  <1>2. UNCHANGED <<order, filled, caller, levels, queue, total, executed, tradeCh, tape>>
        /\ Placed' = Placed
    BY DEF EngReceive, EngFetch, EngTakeLevel, EngEnterLevel, EngFinish, EngTakeOrder, EngCheck, orderVars,
           bookVars, tradeVars, Placed
  <1>3. eng.pc # "fill" /\ eng'.pc # "fill"
    BY WalkKeepsOut
  <1>4. Settled' = filled /\ Settled = filled
    BY <1>2, <1>3 DEF Settled, Inv, TypeOK, OrdersTypeOK
  <1>5. TradesWithinLimits'
    BY <1>2 DEF Inv, TradesWithinLimits, Ledger!Accepts
  <1>6. CASE EngFinish
    <2>1. eng.incoming \in Orders /\ eng.incoming \in Placed /\ eng' = IdleEngine
      BY <1>6 DEF EngFinish, Inv, TypeOK, EngineTypeOK, EngineRecords, PlacedFacts
    <2>2. \A x \in Orders : \/ status'[x] = status[x]
                            \/ status'[x] = "REJECTED" /\ x \in Placed
      BY <1>6, <2>1 DEF EngFinish, Inv, TypeOK, OrdersTypeOK
    <2>3. OrdersTypeOK'
      BY <1>2, <1>6, <2>1 DEF EngFinish, Inv, TypeOK, OrdersTypeOK, Statuses
    <2>4. FillsMatchStatus'
      BY <1>2, <1>4, <2>2 DEF Inv, FillsMatchStatus
    <2>5. PlacedFacts' /\ ChannelsTypeOK'
      BY <1>2, <1>6, <2>1, <2>2 DEF EngFinish, Inv, TypeOK, ChannelsTypeOK, PlacedFacts,
                                    IdleEngine, Placed
    <2>6. EngineTypeOK' /\ EngineFacts'
      BY <2>1 DEF EngineTypeOK, EngineRecords, EngineFacts, IdleEngine, Pointers, Headers,
                  WithLevel, WithOrders, WithResting
    <2>7. QED
      BY <1>1, <1>5, <2>3, <2>4, <2>5, <2>6 DEF Inv, TypeOK, BookKept
  <1>7. CASE EngReceive
    <2> DEFINE Ev(S) == [type : {"NEW_ORDER", "CANCEL_ORDER"}, order : S]
    <2>1. Head(eventCh) \in Ev(Placed) /\ Tail(eventCh) \in Seq(Ev(Placed))
      <3>1. eventCh \in Seq(Ev(Placed)) /\ eventCh # <<>>
        BY <1>7 DEF EngReceive, Inv, PlacedFacts
      <3> HIDE DEF Ev
      <3>2. QED BY <3>1, HeadTailProperties
    <2>2. Tail(eventCh) \in Seq(Ev(Orders))
      <3>1. Ev(Placed) \subseteq Ev(Orders)
        BY DEF Placed
      <3> HIDE DEF Ev
      <3>2. QED BY <2>1, <3>1, SeqMonotonic
    <2>3. /\ eventCh' = Tail(eventCh) /\ status' = status /\ eng.pc = "idle"
          /\ \/ eng' = eng
             \/ eng' = [eng EXCEPT !.pc = "fetch", !.incoming = Head(eventCh).order]
      BY <1>7 DEF EngReceive, orderVars
    <2>4. Head(eventCh).order \in Placed /\ Placed \subseteq Orders
      BY <2>1 DEF Placed
    <2>5. OrdersTypeOK' /\ ChannelsTypeOK' /\ FillsMatchStatus'
      BY <1>2, <1>4, <2>2, <2>3 DEF Inv, TypeOK, OrdersTypeOK, ChannelsTypeOK, FillsMatchStatus
    <2>6. PlacedFacts'
      BY <1>2, <2>1, <2>3, <2>4 DEF Inv, TypeOK, PlacedFacts, EngineTypeOK, EngineRecords
    <2>7. EngineTypeOK' /\ EngineFacts'
      BY <1>2, <2>3, <2>4 DEF Inv, TypeOK, EngineTypeOK, EngineRecords, EngineFacts, Pointers,
                              WithLevel, WithOrders, WithResting
    <2>8. QED
      BY <1>1, <1>5, <2>5, <2>6, <2>7 DEF Inv, TypeOK, BookKept
  <1>8. CASE EngFetch \/ EngTakeLevel \/ EngEnterLevel \/ EngTakeOrder \/ EngCheck
    <2>1. /\ UNCHANGED <<status, eventCh>> /\ eng'.incoming = eng.incoming
          /\ eng.pc # "idle" /\ eng.incoming \in Orders /\ eng \in EngineRecords
      BY <1>8 DEF EngFetch, EngTakeLevel, EngEnterLevel, EngTakeOrder, EngCheck, NextLevel,
                  NextOrder, orderVars, Inv, TypeOK, EngineTypeOK, EngineRecords
    <2>2. OrdersTypeOK' /\ ChannelsTypeOK' /\ FillsMatchStatus'
      BY <1>2, <1>4, <2>1 DEF Inv, TypeOK, OrdersTypeOK, ChannelsTypeOK, FillsMatchStatus
    <2>3. PlacedFacts'
      BY <1>2, <2>1 DEF Inv, PlacedFacts
    <2>4. PICK side \in Sides : side = Opposite(order[eng.incoming].side)
      BY DEF Opposite, Sides
    <2>5. levels[side] \in Slice(LevelsOf(side))
      BY DEF Inv, TypeOK, BookTypeOK
    <2>6. ASSUME eng' \in EngineRecords, eng'.pc \in {"level"} \union WithLevel, eng'.i > 0,
                 ValidHeader(levels[side], eng'.view),
                 eng'.pc \in WithLevel => /\ eng'.level \in LevelsOf(side)
                                          /\ ~Beyond(eng.incoming, LevelPrice(eng'.level)),
                 eng'.pc \in WithOrders => /\ eng'.k > 0
                                           /\ ValidHeader(queue[eng'.level], eng'.orders),
                 eng'.pc \in WithResting => eng'.resting \in MatesOf(eng'.level),
                 eng'.pc = "trade" => /\ eng'.resting \in Placed
                                      /\ Remaining(eng.incoming) > 0
                                      /\ Remaining(eng'.resting) > 0
          PROVE  Inv'
      <3>1. EngineTypeOK'
        BY <1>2, <2>1, <2>4, <2>6 DEF EngineTypeOK, LevelsOf, MatesOf, Placed
      <3>2. EngineFacts'
        <4>0. PICK e \in EngineRecords : e = eng'
          BY <2>6
        <4>1. /\ \A x \in Sides : LevelsOf(x)' = LevelsOf(x)
              /\ \A x \in Orders : /\ MatesOf(x)' = MatesOf(x) /\ Remaining(x)' = Remaining(x)
                                   /\ LevelPrice(x)' = LevelPrice(x)
          BY <1>2 DEF LevelsOf, MatesOf, Remaining, LevelPrice
        <4>2. e.incoming = eng.incoming /\ Opposite(order'[e.incoming].side) = side
          BY <1>2, <2>1, <2>4, <4>0
        <4>3. ASSUME e.pc \in WithLevel
              PROVE  e.level \in LevelsOf(side)' /\ ~Beyond(e.incoming, LevelPrice(e.level))'
          BY <1>2, <2>6, <4>0, <4>1, <4>2, <4>3 DEF Beyond, LevelPrice
        <4>4. ASSUME e.pc \in WithResting PROVE e.resting \in MatesOf(e.level)'
          BY <2>6, <4>0, <4>1, <4>4 DEF LevelsOf, Placed, WithResting, WithLevel
        <4>5. ASSUME e.pc = "trade"
              PROVE  /\ e.resting \in Placed'
                     /\ Remaining(e.incoming)' > 0 /\ Remaining(e.resting)' > 0
          BY <1>2, <2>1, <2>6, <4>0, <4>1, <4>2, <4>5 DEF Placed
        <4>6. e.pc # "fill"
          BY <1>3, <4>0
        <4>7. QED BY <4>0, <4>2, <4>3, <4>4, <4>5, <4>6 DEF EngineFacts
      <3>3. QED BY <3>1, <3>2, <1>1, <1>5, <2>2, <2>3 DEF Inv, TypeOK, BookKept
    <2>7. eng.pc \in {"level"} \union WithLevel
            => eng.i > 0 /\ ValidHeader(levels[side], eng.view)
      BY <2>4 DEF Inv, TypeOK, EngineTypeOK
    <2>8. /\ eng.pc \in WithLevel => /\ eng.level \in LevelsOf(side)
                                     /\ ~Beyond(eng.incoming, LevelPrice(eng.level))
          /\ eng.pc \in WithOrders => eng.k > 0 /\ ValidHeader(queue[eng.level], eng.orders)
          /\ eng.pc \in WithResting => eng.resting \in MatesOf(eng.level)
      BY <2>4 DEF Inv, TypeOK, EngineTypeOK, EngineFacts
    <2>9. CASE EngFetch
      <3>1. /\ eng' = [eng EXCEPT !.pc = "level", !.i = 1, !.view = Header(levels[side])]
            /\ eng.pc = "fetch"
        BY <2>4, <2>9 DEF EngFetch
      <3>2. Header(levels[side]) \in Headers /\ ValidHeader(levels[side], Header(levels[side]))
        BY <2>5, HeaderReads DEF Headers
      <3>3. /\ eng' \in EngineRecords /\ eng'.pc = "level" /\ eng'.i = 1
            /\ eng'.view = Header(levels[side])
        BY <2>1, <3>1, <3>2 DEF EngineRecords
      <3>4. QED BY <2>6, <3>2, <3>3 DEF WithLevel, WithOrders, WithResting
    <2>10. CASE EngTakeLevel
      <3>1. eng.pc = "level" /\ eng.i <= eng.view.len /\ ~LevelsDone
        BY <2>1, <2>10 DEF EngTakeLevel, LevelsDone, EngineRecords, Headers
      <3>2. PICK l \in LevelsOf(side) : l = ViewLevel
        BY <2>4, <3>1, EngineReads
      <3>3. l \in Orders /\ ~Beyond(eng.incoming, LevelPrice(l))
        BY <3>1, <3>2 DEF LevelsDone, LevelsOf, Placed
      <3>4. /\ eng' \in EngineRecords /\ eng'.pc = "enter" /\ eng'.level = l
            /\ eng'.i = eng.i /\ eng'.view = eng.view
        BY <2>1, <2>10, <3>2, <3>3 DEF EngTakeLevel, EngineRecords, Pointers, WithLevel
      <3>5. QED
        BY <2>6, <2>7, <3>1, <3>2, <3>3, <3>4 DEF WithLevel, WithOrders, WithResting
    <2>11. CASE EngEnterLevel
      <3>1. eng.pc = "enter" /\ eng.level \in LevelsOf(side) /\ eng.level \in Orders
        BY <2>8, <2>11 DEF EngEnterLevel, WithLevel, LevelsOf, Placed
      <3>2. /\ Header(queue[eng.level]) \in Headers
            /\ ValidHeader(queue[eng.level], Header(queue[eng.level]))
        BY <3>1, HeaderReads DEF Inv, TypeOK, BookTypeOK, Headers
      <3>3. /\ eng' \in EngineRecords /\ eng'.pc = "order" /\ eng'.level = eng.level
            /\ eng'.i = eng.i /\ eng'.view = eng.view /\ eng'.k = 1
            /\ eng'.orders = Header(queue[eng.level])
        BY <2>1, <2>11, <3>2 DEF EngEnterLevel, EngineRecords, WithLevel
      <3>4. QED
        BY <2>6, <2>7, <2>8, <3>1, <3>2, <3>3 DEF WithLevel, WithOrders, WithResting
    <2>12. ASSUME eng.pc \in WithLevel, eng' = NextLevel PROVE Inv'
      <3>1. [array |-> 0, len |-> 0] \in Headers /\ NoOrder \in Pointers
            /\ eng.i + 1 \in Nat /\ eng.i + 1 > 0
        BY <2>1 DEF Headers, Pointers, EngineRecords
      <3>2. /\ eng' \in EngineRecords /\ eng'.pc = "level" /\ eng'.i = eng.i + 1
            /\ eng'.view = eng.view
        BY <2>1, <2>12, <3>1 DEF EngineRecords, NextLevel
      <3>3. QED
        BY <2>6, <2>7, <2>12, <3>1, <3>2 DEF WithLevel, WithOrders, WithResting
    <2>13. CASE EngTakeOrder
      <3>1. CASE eng' = NextLevel
        BY <2>12, <2>13, <3>1 DEF EngTakeOrder, WithLevel
      <3>2. CASE /\ eng.k <= eng.orders.len
                 /\ eng' = [eng EXCEPT !.pc = "check", !.resting = ViewOrder]
        <4>1. eng.pc = "order" /\ ViewOrder \in MatesOf(eng.level)
          BY <2>13, <3>2, EngineReads DEF EngTakeOrder
        <4>2. /\ eng' \in EngineRecords /\ eng'.pc = "check" /\ eng'.level = eng.level
              /\ eng'.i = eng.i /\ eng'.view = eng.view /\ eng'.k = eng.k
              /\ eng'.orders = eng.orders /\ eng'.resting = ViewOrder
          BY <2>1, <3>2, <4>1 DEF EngineRecords, WithLevel, MatesOf, Pointers
        <4>3. QED
          BY <2>6, <2>7, <2>8, <4>1, <4>2 DEF WithLevel, WithOrders, WithResting
      <3>3. QED BY <2>13, <3>1, <3>2 DEF EngTakeOrder
    <2>14. CASE EngCheck
      <3>0. eng.pc = "check" /\ eng.resting \in MatesOf(eng.level) /\ eng.resting \in Orders
        BY <2>8, <2>14 DEF EngCheck, WithResting, MatesOf
      <3>1. CASE eng' = NextLevel
        BY <2>12, <3>0, <3>1 DEF WithLevel
      <3>2. CASE eng' = NextOrder
        <4>0. eng.k + 1 \in Nat /\ NoOrder \in Pointers
          BY <2>1 DEF EngineRecords, Pointers
        <4>1. /\ eng' \in EngineRecords /\ eng'.pc = "order" /\ eng'.level = eng.level
              /\ eng'.i = eng.i /\ eng'.view = eng.view /\ eng'.k = eng.k + 1
              /\ eng'.orders = eng.orders
          BY <2>1, <3>2, <4>0 DEF EngineRecords, NextOrder, WithLevel
        <4>2. eng.k > 0 /\ eng.k \in Nat
          <5>1. eng.k \in Nat
            BY <2>1 DEF EngineRecords
          <5>2. eng.pc \in WithOrders
            BY <3>0 DEF WithOrders
          <5>3. QED BY <2>8, <5>1, <5>2
        <4>3. QED
          BY <2>6, <2>7, <2>8, <3>0, <4>1, <4>2 DEF WithLevel, WithOrders, WithResting
      <3>3. CASE /\ IsActive(eng.resting) /\ Remaining(eng.incoming) # 0
                 /\ eng' = [eng EXCEPT !.pc = "trade"]
        <4>1. /\ eng' \in EngineRecords /\ eng'.pc = "trade" /\ eng'.level = eng.level
              /\ eng'.i = eng.i /\ eng'.view = eng.view /\ eng'.k = eng.k
              /\ eng'.orders = eng.orders /\ eng'.resting = eng.resting
          BY <2>1, <3>3 DEF EngineRecords, WithLevel
        <4>2. /\ Remaining(eng.resting) > 0 /\ eng.resting \in Placed
              /\ Remaining(eng.incoming) > 0
          BY <2>1, <3>0, <3>3, LeftToFill
        <4>3. QED
          BY <2>6, <2>7, <2>8, <3>0, <4>1, <4>2 DEF WithLevel, WithOrders, WithResting
      <3>4. QED BY <2>14, <3>1, <3>2, <3>3 DEF EngCheck
    <2>15. QED BY <1>8, <2>9, <2>10, <2>11, <2>13, <2>14
  <1>9. QED BY <1>6, <1>7, <1>8
\* What a trade step does, with the two orders, quantity and price named.
LEMMA TradeFacts ==
    ASSUME Inv, EngTrade
    PROVE  \E a, r \in Placed : \E q \in Nat :
             /\ a = eng.incoming /\ r = eng.resting /\ a # r
             /\ order[r].side = Opposite(order[a].side)
             /\ r \in MatesOf(eng.level)
             /\ q = Smaller(Remaining(a), Remaining(r)) /\ q > 0
             /\ filled' = [filled EXCEPT ![a] = filled[a] + q]
             /\ status' = [status EXCEPT ![a] = StatusAfterFill(a, q)]
             /\ executed' = Append(executed, Trade(a, r, q, order[r].price))
             /\ eng' = [eng EXCEPT !.pc = "fill", !.qty = q]
             /\ ~Beyond(a, order[r].price)
  <1>1. eng.pc = "trade"
    BY DEF EngTrade
  <1>2. eng.resting \in MatesOf(eng.level) /\ eng.resting \in Orders /\ eng.resting \in Placed
    BY <1>1 DEF Inv, EngineFacts, MatesOf, WithResting
  <1>3. /\ eng.incoming \in Orders /\ eng.incoming \in Placed
        /\ eng.level \in LevelsOf(Opposite(order[eng.incoming].side))
        /\ ~Beyond(eng.incoming, LevelPrice(eng.level))
    BY <1>1 DEF Inv, TypeOK, EngineTypeOK, PlacedFacts, EngineFacts, WithLevel
  <1>4. order[eng.resting].side = Opposite(order[eng.incoming].side)
        /\ order[eng.resting].price = LevelPrice(eng.level)
    BY <1>2, <1>3 DEF MatesOf, LevelsOf, LevelPrice
  <1>5. eng.incoming # eng.resting
    BY <1>4 DEF Opposite
  <1>6. /\ Remaining(eng.resting) \in Nat /\ Remaining(eng.resting) > 0
        /\ Remaining(eng.incoming) \in Nat /\ Remaining(eng.incoming) > 0
    BY <1>1, <1>2, <1>3, LeftToFill DEF Inv, EngineFacts
  <1> DEFINE q == Smaller(Remaining(eng.incoming), Remaining(eng.resting))
  <1>7. q \in Nat /\ q > 0
    BY <1>6 DEF Smaller
  <1>8. TradePrice(eng.resting, eng.level) = order[eng.resting].price
    BY <1>4 DEF TradePrice
  <1>9. /\ filled' = [filled EXCEPT ![eng.incoming] = filled[eng.incoming] + q]
        /\ status' = [status EXCEPT ![eng.incoming] = StatusAfterFill(eng.incoming, q)]
        /\ executed' = Append(executed, Trade(eng.incoming, eng.resting, q,
                                              order[eng.resting].price))
        /\ eng' = [eng EXCEPT !.pc = "fill", !.qty = q]
    BY <1>8 DEF EngTrade, Fill
  <1> HIDE DEF q
  <1>10. QED
    BY <1>2, <1>3, <1>4, <1>5, <1>6, <1>7, <1>9 DEF q

\* createTrade and incoming.Fill preserve the invariant.
LEMMA TradeStep ==
    ASSUME Inv, EngTrade
    PROVE  Inv'
  <1> [Next]_vars
    BY DEF Next, Engine
  <1>1. order' = order /\ BookKept
    BY PlacedGrows, BookStep DEF Inv, TypeOK
  <1>2. UNCHANGED <<order, caller, levels, queue, total, eventCh, tradeCh, tape>>
        /\ Placed' = Placed /\ eng.pc = "trade"
    BY DEF EngTrade, bookVars, Placed
  <1>3. PICK a \in Placed, r \in Placed, q \in Nat :
             /\ a = eng.incoming /\ r = eng.resting /\ a # r
             /\ order[r].side = Opposite(order[a].side)
             /\ r \in MatesOf(eng.level)
             /\ q = Smaller(Remaining(a), Remaining(r)) /\ q > 0
             /\ filled' = [filled EXCEPT ![a] = filled[a] + q]
             /\ status' = [status EXCEPT ![a] = StatusAfterFill(a, q)]
             /\ executed' = Append(executed, Trade(a, r, q, order[r].price))
             /\ eng' = [eng EXCEPT !.pc = "fill", !.qty = q]
             /\ ~Beyond(a, order[r].price)
    BY TradeFacts
  <1>4. a \in Orders /\ r \in Orders
    BY DEF Placed
  <1>5. /\ Remaining(a) \in Nat /\ Remaining(r) \in Nat /\ q <= Remaining(a) /\ q <= Remaining(r)
        /\ filled[a] \in Nat /\ filled[r] \in Nat /\ order[a].qty \in Nat /\ order[r].qty \in Nat
    BY <1>3, <1>4, LeftToFill DEF Smaller
  <1>6. OrdersTypeOK'
    BY <1>2, <1>3, <1>4, <1>5, SMTT(30) DEF Inv, TypeOK, OrdersTypeOK, Statuses, StatusAfterFill
  <1>7. eng \in EngineRecords /\ eng' \in EngineRecords
        /\ eng'.pc = "fill" /\ eng'.resting = r /\ eng'.qty = q
        /\ eng'.incoming = eng.incoming /\ eng'.level = eng.level /\ eng'.view = eng.view
        /\ eng'.orders = eng.orders /\ eng'.i = eng.i /\ eng'.k = eng.k
    <2>1. eng \in EngineRecords
      BY DEF Inv, TypeOK, EngineTypeOK
    <2>2. QED BY <1>3, <2>1 DEF EngineRecords, WithLevel
  <1>8. EngineTypeOK'
    BY <1>2, <1>4, <1>7 DEF Inv, TypeOK, EngineTypeOK, WithLevel, WithOrders, WithResting
  <1>9. EngineFacts'
    BY <1>2, <1>3, <1>7 DEF Inv, EngineFacts, LevelsOf, MatesOf, Beyond, LevelPrice,
                            WithLevel, WithResting
  <1>10. PlacedFacts'
    BY <1>2, <1>3, <1>4, <1>7 DEF Inv, TypeOK, OrdersTypeOK, PlacedFacts, Placed
  <1>11. FillsMatchStatus'
    <2>1. \A x \in Orders : Settled'[x] = IF x = r THEN filled'[x] + q ELSE filled'[x]
      BY <1>7 DEF Settled
    <2>2. \A x \in Orders : Settled[x] = filled[x]
      BY <1>2 DEF Settled
    <2>3. filled'[a] = filled[a] + q /\ \A x \in Orders : x # a => filled'[x] = filled[x]
      BY <1>3, <1>4 DEF Inv, TypeOK, OrdersTypeOK
    <2>4. status'[a] = StatusAfterFill(a, q) /\ \A x \in Orders : x # a => status'[x] = status[x]
      BY <1>3, <1>4 DEF Inv, TypeOK, OrdersTypeOK
    <2>5. \A x \in Orders : Settled'[x] <= order[x].qty
      <3>1. Settled'[a] <= order[a].qty
        BY <1>3, <1>4, <1>5, <2>1, <2>3, SMTT(30) DEF Remaining
      <3>2. Settled'[r] <= order[r].qty
        BY <1>3, <1>4, <1>5, <2>1, <2>3, SMTT(30) DEF Remaining
      <3>3. \A x \in Orders : x # a /\ x # r => Settled'[x] <= order[x].qty
        BY <2>1, <2>2, <2>3 DEF Inv, FillsMatchStatus
      <3>4. QED BY <3>1, <3>2, <3>3
    <2>6. /\ status'[a] = "FILLED" => filled'[a] = order[a].qty
          /\ status'[a] = "PARTIALLY_FILLED" => 0 < filled'[a] /\ filled'[a] < order[a].qty
          /\ status'[a] \notin {"PENDING", "OPEN"}
      <3>1. filled'[a] > 0 /\ (filled'[a] < order[a].qty <=> Remaining(a) # q)
            /\ (filled'[a] = order[a].qty <=> Remaining(a) = q)
        <4>1. q > 0
          BY <1>3
        <4>2. QED BY <1>5, <2>3, <4>1 DEF Remaining
      <3>2. status'[a] = IF Remaining(a) = q THEN "FILLED" ELSE "PARTIALLY_FILLED"
        BY <2>4 DEF StatusAfterFill
      <3>3. QED BY <3>1, <3>2
    <2>7. QED
      BY <1>2, <2>3, <2>4, <2>5, <2>6 DEF Inv, FillsMatchStatus
  <1>12. Trade(a, r, q, order[r].price)
           \in [buy : Orders, sell : Orders, qty : Nat, price : Int]
    <2>1. order[r].price \in Int
      BY <1>4 DEF Inv, TypeOK, OrdersTypeOK
    <2>2. QED BY <1>4, <2>1 DEF Trade
  <1>13. /\ executed' \in Seq([buy : Orders, sell : Orders, qty : Nat, price : Int])
         /\ DOMAIN executed' = 1 .. Len(executed) + 1 /\ DOMAIN executed = 1 .. Len(executed)
         /\ Len(executed) \in Nat
         /\ \A n \in 1 .. Len(executed) : executed'[n] = executed[n]
         /\ executed'[Len(executed) + 1] = Trade(a, r, q, order[r].price)
    <2> DEFINE TT == [buy : Orders, sell : Orders, qty : Nat, price : Int]
    <2>1. executed \in Seq(TT)
      BY DEF Inv, TypeOK, ChannelsTypeOK
    <2> HIDE DEF TT
    <2>2. QED BY <1>3, <1>12, <2>1, AppendProperties, LenProperties DEF TT
  <1>14. ChannelsTypeOK'
    BY <1>2, <1>13 DEF Inv, TypeOK, ChannelsTypeOK
  <1>15. TradesWithinLimits'
    <2>1. order[a] \in OrderTerms /\ order[r] \in OrderTerms
      BY <1>4 DEF Inv, TypeOK, OrdersTypeOK
    <2>2. Ledger!Accepts(order[r], order[r].price)
      BY <2>1 DEF Ledger!Accepts, Sides
    <2>3. Ledger!Accepts(order[a], order[r].price)
      BY <1>3, <2>1, SMTT(30) DEF Ledger!Accepts, Beyond, Sides
    <2> DEFINE t == Trade(a, r, q, order[r].price)
    <2>4. /\ Ledger!Accepts(order[t.buy], t.price)
          /\ Ledger!Accepts(order[t.sell], t.price)
      <3>1. t.price = order[r].price /\ {t.buy, t.sell} = {a, r}
        BY DEF Trade
      <3>2. QED BY <2>2, <2>3, <3>1
    <2>5. \A n \in DOMAIN executed' : n \in DOMAIN executed \/ n = Len(executed) + 1
      BY <1>13
    <2> HIDE DEF t
    <2>6. executed'[Len(executed) + 1] = t
      BY <1>13 DEF t
    <2>7. QED
      BY <1>2, <1>13, <2>4, <2>5, <2>6, SMTT(30) DEF Inv, TradesWithinLimits, Ledger!Accepts
  <1>16. QED
    BY <1>1, <1>6, <1>8, <1>9, <1>10, <1>11, <1>14, <1>15 DEF Inv, TypeOK, BookKept
\* The resting order's Fill: what the trade promised is now written down.
LEMMA FillRestingFacts ==
    ASSUME Inv, EngFillResting
    PROVE  \E r \in Placed : \E q \in Nat :
             /\ eng.pc = "fill" /\ r = eng.resting /\ q = eng.qty /\ q > 0
             /\ filled[r] \in Nat /\ order[r].qty \in Nat /\ filled[r] + q <= order[r].qty
             /\ filled' = [filled EXCEPT ![r] = filled[r] + q]
             /\ status' = [status EXCEPT ![r] = StatusAfterFill(r, q)]
             /\ eng' = NextOrder
             /\ Settled' = Settled
  <1>1. eng.pc = "fill" /\ eng.resting \in Placed /\ eng.qty \in Nat /\ eng.qty > 0
    BY DEF EngFillResting, Inv, TypeOK, EngineTypeOK, EngineRecords, EngineFacts
  <1>2. eng.resting \in Orders
    BY <1>1 DEF Placed
  <1>3. /\ filled' = [filled EXCEPT ![eng.resting] = filled[eng.resting] + eng.qty]
        /\ status' = [status EXCEPT ![eng.resting] = StatusAfterFill(eng.resting, eng.qty)]
        /\ eng' = NextOrder
    BY DEF EngFillResting, Fill
  <1>4. filled[eng.resting] \in Nat /\ order[eng.resting].qty \in Nat
    BY <1>2, LeftToFill
  <1>5. filled[eng.resting] + eng.qty <= order[eng.resting].qty
    BY <1>1, <1>2 DEF Inv, FillsMatchStatus, Settled
  <1>6. eng'.pc = "order"
    BY <1>3 DEF Inv, TypeOK, EngineTypeOK, EngineRecords, NextOrder
  <1>7. Settled' = Settled
    BY <1>1, <1>2, <1>3, <1>6 DEF Settled, Inv, TypeOK, OrdersTypeOK
  <1>8. QED BY <1>1, <1>3, <1>4, <1>5, <1>7

\* resting.Fill and the send on TradeCh preserve the invariant.
LEMMA FillRestingStep ==
    ASSUME Inv, EngFillResting
    PROVE  Inv'
  <1> [Next]_vars
    BY DEF Next, Engine
  <1>1. order' = order /\ BookKept
    BY PlacedGrows, BookStep DEF Inv, TypeOK
  <1>2. UNCHANGED <<order, caller, levels, queue, total, eventCh, executed, tape>>
        /\ Placed' = Placed
    BY DEF EngFillResting, bookVars, Placed
  <1>3. PICK r \in Placed, q \in Nat :
             /\ eng.pc = "fill" /\ r = eng.resting /\ q = eng.qty /\ q > 0
             /\ filled[r] \in Nat /\ order[r].qty \in Nat /\ filled[r] + q <= order[r].qty
             /\ filled' = [filled EXCEPT ![r] = filled[r] + q]
             /\ status' = [status EXCEPT ![r] = StatusAfterFill(r, q)]
             /\ eng' = NextOrder
             /\ Settled' = Settled
    BY FillRestingFacts
  <1>4. r \in Orders
    BY DEF Placed
  <1>5. OrdersTypeOK'
    BY <1>2, <1>3, <1>4 DEF Inv, TypeOK, OrdersTypeOK, Statuses, StatusAfterFill
  <1>6. /\ eng' \in EngineRecords /\ eng'.pc = "order" /\ eng'.k = eng.k + 1
        /\ eng'.incoming = eng.incoming /\ eng'.level = eng.level /\ eng'.view = eng.view
        /\ eng'.orders = eng.orders /\ eng'.i = eng.i
    <2>1. eng \in EngineRecords /\ NoOrder \in Pointers
      BY DEF Inv, TypeOK, EngineTypeOK, Pointers
    <2>2. eng.k + 1 \in Nat
      BY <2>1 DEF EngineRecords
    <2>3. /\ eng'.pc = "order" /\ eng'.k = eng.k + 1
          /\ eng'.incoming = eng.incoming /\ eng'.level = eng.level /\ eng'.view = eng.view
          /\ eng'.orders = eng.orders /\ eng'.i = eng.i
      BY <1>3, <2>1 DEF EngineRecords, NextOrder
    <2>4. eng' \in EngineRecords
      BY <1>3, <2>1, <2>2 DEF EngineRecords, NextOrder, WithLevel
    <2>5. QED BY <2>3, <2>4
  <1>7. EngineTypeOK'
    BY <1>2, <1>3, <1>6 DEF Inv, TypeOK, EngineTypeOK, EngineRecords, WithLevel, WithOrders,
                            WithResting
  <1>8. EngineFacts'
    BY <1>2, <1>3, <1>6 DEF Inv, EngineFacts, LevelsOf, Beyond, LevelPrice, WithLevel,
                            WithResting
  <1>9. PlacedFacts'
    BY <1>2, <1>3, <1>4, <1>6 DEF Inv, TypeOK, OrdersTypeOK, PlacedFacts, Placed
  <1>10. FillsMatchStatus'
    <2>1. filled'[r] = filled[r] + q /\ \A x \in Orders : x # r => filled'[x] = filled[x]
      BY <1>3, <1>4 DEF Inv, TypeOK, OrdersTypeOK
    <2>2. status'[r] = StatusAfterFill(r, q) /\ \A x \in Orders : x # r => status'[x] = status[x]
      BY <1>3, <1>4 DEF Inv, TypeOK, OrdersTypeOK
    <2>3. /\ status'[r] = "FILLED" => filled'[r] = order[r].qty
          /\ status'[r] = "PARTIALLY_FILLED" => 0 < filled'[r] /\ filled'[r] < order[r].qty
          /\ status'[r] \notin {"PENDING", "OPEN"}
      BY <1>3, <2>1, <2>2 DEF StatusAfterFill, Remaining
    <2>4. QED
      BY <1>2, <1>3, <2>1, <2>2, <2>3 DEF Inv, FillsMatchStatus
  <1>11. ChannelsTypeOK'
    <2>1. tradeCh \in Seq(Nat) /\ Len(executed) \in Nat
      BY LenProperties DEF Inv, TypeOK, ChannelsTypeOK
    <2>2. tradeCh' \in Seq(Nat)
      BY <2>1, AppendProperties DEF EngFillResting
    <2>3. QED BY <1>2, <2>2 DEF Inv, TypeOK, ChannelsTypeOK
  <1>12. TradesWithinLimits'
    BY <1>2 DEF Inv, TradesWithinLimits, Ledger!Accepts
  <1>13. QED
    BY <1>1, <1>5, <1>7, <1>8, <1>9, <1>10, <1>11, <1>12 DEF Inv, TypeOK, BookKept

\* The forwarder, which only moves trade numbers, preserves the invariant.
LEMMA ForwardStep ==
    ASSUME Inv, Forward \/ UNCHANGED vars
    PROVE  Inv'
  <1> [Next]_vars
    BY DEF Next
  <1>1. order' = order /\ BookKept /\ Placed \subseteq Placed'
    BY PlacedGrows, BookStep DEF Inv, TypeOK
  <1>2. UNCHANGED <<order, status, filled, caller, eventCh, eng, executed>>
        /\ Placed' = Placed /\ Settled' = Settled
    BY DEF Forward, orderVars, vars, Placed, Settled
  <1>3. EngineTypeOK' /\ EngineFacts'
    BY <1>1, <1>2, EngineUntouched
  <1>4. tradeCh' \in Seq(Nat) /\ tape' \in Seq(Nat)
    <2>1. tradeCh \in Seq(Nat) /\ tape \in Seq(Nat)
      BY DEF Inv, TypeOK, ChannelsTypeOK
    <2>2. CASE Forward
      BY <2>1, <2>2, HeadTailProperties, AppendProperties DEF Forward
    <2>3. QED BY <2>1, <2>2 DEF vars
  <1>5. OrdersTypeOK' /\ ChannelsTypeOK' /\ FillsMatchStatus' /\ PlacedFacts'
    BY <1>2, <1>4 DEF Inv, TypeOK, OrdersTypeOK, ChannelsTypeOK, FillsMatchStatus, PlacedFacts
  <1>6. TradesWithinLimits'
    BY <1>2 DEF Inv, TradesWithinLimits, Ledger!Accepts
  <1>7. QED BY <1>1, <1>3, <1>5, <1>6 DEF Inv, TypeOK, BookKept

\* The invariant holds in a newly made book with an idle engine.
LEMMA InitInv == Init => Inv
  <1> SUFFICES ASSUME Init PROVE Inv
    OBVIOUS
  <1>1. OrdersTypeOK
    BY DEF Init, OrdersTypeOK, Statuses
  <1>2. BookTypeOK
    <2>1. \A T : Make(LevelCap) \in Slice(T) /\ Make(1) \in Slice(T)
      BY FreshSlices
    <2>2. QED BY <2>1 DEF Init, BookTypeOK
  <1>3. ChannelsTypeOK
    BY EmptySeq DEF Init, ChannelsTypeOK
  <1>4. EngineTypeOK /\ EngineFacts
    BY DEF Init, EngineTypeOK, EngineRecords, EngineFacts, IdleEngine, Pointers, Headers,
           WithLevel, WithOrders, WithResting
  <1>5. PlacedFacts
    BY EmptySeq DEF Init, PlacedFacts, IdleEngine
  <1>6. FillsMatchStatus
    <2>1. \A o \in Orders : Settled[o] = 0 /\ order[o].qty \in Nat
      BY DEF Init, Settled, IdleEngine
    <2>2. QED BY <2>1 DEF Init, FillsMatchStatus
  <1>7. TradesWithinLimits
    BY DEF Init, TradesWithinLimits
  <1>8. QED BY <1>1, <1>2, <1>3, <1>4, <1>5, <1>6, <1>7 DEF Inv, TypeOK

\* The inductive invariant: no step of a caller, of the engine or of the forwarder
\* breaks it, wherever the others are.
LEMMA NextInv == Inv /\ [Next]_vars => Inv'
  <1> SUFFICES ASSUME Inv, [Next]_vars PROVE Inv'
    OBVIOUS
  <1>1. ASSUME NEW o \in Orders,
               Add(o) \/ AddSend(o) \/ Cancel(o) \/ CancelMark(o) \/ CancelSend(o)
        PROVE  Inv'
    BY <1>1, CallerStep
  <1>2. ASSUME NEW o \in Orders, AddDuplicate(o) \/ CancelRefused(o) PROVE Inv'
    BY <1>2, ForwardStep DEF AddDuplicate, CancelRefused
  <1>3. CASE Engine
    BY <1>3, WalkStep, TradeStep, FillRestingStep DEF Engine
  <1>4. CASE Forward \/ UNCHANGED vars
    BY <1>4, ForwardStep
  <1>5. QED BY <1>1, <1>2, <1>3, <1>4 DEF Next, Return

\* The inductive invariant holds in every reachable state.
THEOREM Invariance == Spec => []Inv
  BY InitInv, NextInv, PTL DEF Spec

\* Every variable keeps its type, and the headers the engine walks without a lock
\* stay inside their backing arrays, for any orders, terms and capacities.
THEOREM TypeCorrectness == Spec => []TypeOK
  <1>1. Inv => TypeOK
    BY DEF Inv
  <1>2. QED BY <1>1, Invariance, PTL

\* No trade is outside the limits of the orders it pairs, although the engine
\* reads the book without a lock.
THEOREM LimitsRespected == Spec => []TradesWithinLimits
  <1>1. Inv => TradesWithinLimits
    BY DEF Inv
  <1>2. QED BY <1>1, Invariance, PTL

\* No order is executed beyond its quantity, and FILLED and PARTIALLY_FILLED say
\* what was executed, although Cancel and the engine race for the status.
THEOREM NoOverfill == Spec => []FillsMatchStatus
  <1>1. Inv => FillsMatchStatus
    BY DEF Inv
  <1>2. QED BY <1>1, Invariance, PTL

-----------------------------------------------------------------------------
(* Refinement: every step is one ledger trade or leaves the ledger alone *)

\* A new book maps to an empty ledger.
LEMMA LedgerInit == Init => Ledger!Init
  <1> SUFFICES ASSUME Init PROVE Ledger!Init
    OBVIOUS
  <1>1. Settled = [o \in Orders |-> 0]
    BY DEF Init, Settled, IdleEngine
  <1>2. QED BY <1>1 DEF Init, Ledger!Init

\* createTrade maps to the ledger's Execute at the price of the resting order.
LEMMA LedgerTrade ==
    ASSUME Inv, EngTrade
    PROVE  Ledger!Next
  <1>1. PICK a \in Placed, r \in Placed, q \in Nat :
             /\ a = eng.incoming /\ r = eng.resting /\ a # r
             /\ order[r].side = Opposite(order[a].side)
             /\ r \in MatesOf(eng.level)
             /\ q = Smaller(Remaining(a), Remaining(r)) /\ q > 0
             /\ filled' = [filled EXCEPT ![a] = filled[a] + q]
             /\ status' = [status EXCEPT ![a] = StatusAfterFill(a, q)]
             /\ executed' = Append(executed, Trade(a, r, q, order[r].price))
             /\ eng' = [eng EXCEPT !.pc = "fill", !.qty = q]
             /\ ~Beyond(a, order[r].price)
    BY TradeFacts
  <1>2. a \in Orders /\ r \in Orders /\ order' = order /\ eng.pc = "trade"
    BY DEF Placed, EngTrade
  <1>3. order[a] \in OrderTerms /\ order[r] \in OrderTerms
    BY <1>2 DEF Inv, TypeOK, OrdersTypeOK
  <1>4. eng'.pc = "fill" /\ eng'.resting = r /\ eng'.qty = q
    BY <1>1 DEF Inv, TypeOK, EngineTypeOK, EngineRecords
  <1>5. Settled = filled /\ filled \in [Orders -> Nat]
    BY <1>2 DEF Settled, Inv, TypeOK, OrdersTypeOK
  <1>6. Settled' = [Settled EXCEPT ![a] = Settled[a] + q, ![r] = Settled[r] + q]
    <2>1. a # r /\ filled' = [filled EXCEPT ![a] = filled[a] + q]
      BY <1>1
    <2>2. Settled' = [o \in Orders |-> IF o = r THEN filled'[o] + q ELSE filled'[o]]
      BY <1>4 DEF Settled
    <2>3. QED BY <1>2, <1>5, <2>1, <2>2
  <1>7. /\ Ledger!Accepts(order[r], order[r].price)
        /\ Ledger!Accepts(order[a], order[r].price)
    BY <1>1, <1>3 DEF Ledger!Accepts, Beyond, Sides
  <1>8. CASE order[a].side = "BUY"
    <2>1. q = Ledger!Smaller(order[a].qty - Settled[a], order[r].qty - Settled[r])
      BY <1>1, <1>5 DEF Ledger!Smaller, Smaller, Remaining
    <2>2. Trade(a, r, q, order[r].price)
            = [buy |-> a, sell |-> r, qty |-> q, price |-> order[r].price]
      BY <1>8 DEF Trade
    <2>3. order[r].side = "SELL"
      BY <1>1, <1>8 DEF Opposite
    <2>4. Ledger!Execute(a, r, order[r].price)
      BY <1>1, <1>2, <1>6, <1>7, <1>8, <2>1, <2>2, <2>3 DEF Ledger!Execute
    <2>5. QED BY <1>2, <2>4 DEF Ledger!Next
  <1>9. CASE order[a].side = "SELL"
    <2>1. q = Ledger!Smaller(order[r].qty - Settled[r], order[a].qty - Settled[a])
      <3>1. Remaining(a) \in Nat /\ Remaining(r) \in Nat
        BY <1>2, LeftToFill
      <3>2. QED BY <1>1, <1>5, <3>1 DEF Ledger!Smaller, Smaller, Remaining
    <2>2. Trade(a, r, q, order[r].price)
            = [buy |-> r, sell |-> a, qty |-> q, price |-> order[r].price]
      BY <1>9 DEF Trade
    <2>3. order[r].side = "BUY"
      BY <1>1, <1>9 DEF Opposite
    <2>4. Settled' = [Settled EXCEPT ![r] = Settled[r] + q, ![a] = Settled[a] + q]
      BY <1>1, <1>2, <1>5, <1>6
    <2>5. Ledger!Execute(r, a, order[r].price)
      BY <1>1, <1>2, <1>7, <1>9, <2>1, <2>2, <2>3, <2>4 DEF Ledger!Execute
    <2>6. QED BY <1>2, <2>5 DEF Ledger!Next
  <1>10. QED BY <1>3, <1>8, <1>9 DEF Sides

\* No step but createTrade changes a settled quantity: the later Fill of the resting
\* order is the part that Settled has already counted.
LEMMA OnlyTradesSettle ==
    ASSUME Inv, [Next]_vars, ~EngTrade
    PROVE  UNCHANGED <<order, Settled, executed>>
  <1>1. ASSUME NEW o \in Orders,
               Add(o) \/ AddSend(o) \/ Cancel(o) \/ CancelMark(o) \/ CancelSend(o)
        PROVE  UNCHANGED <<order, Settled, executed>>
    BY <1>1 DEF Add, AddSend, Cancel, CancelMark, CancelSend, orderVars, tradeVars, Settled
  <1>2. ASSUME NEW o \in Orders, AddDuplicate(o) \/ CancelRefused(o)
        PROVE  UNCHANGED <<order, Settled, executed>>
    BY <1>2 DEF AddDuplicate, CancelRefused, vars, Settled
  <1>3. CASE EngReceive \/ EngFetch \/ EngTakeLevel \/ EngEnterLevel \/ EngFinish
          \/ EngTakeOrder \/ EngCheck
    <2>1. UNCHANGED <<order, filled, executed>>
      BY <1>3 DEF EngReceive, EngFetch, EngTakeLevel, EngEnterLevel, EngFinish, EngTakeOrder, EngCheck, orderVars,
                  tradeVars
    <2>2. eng.pc # "fill" /\ eng'.pc # "fill"
      BY <1>3, WalkKeepsOut
    <2>3. QED BY <2>1, <2>2 DEF Settled
  <1>4. CASE EngFillResting
    BY <1>4, FillRestingFacts DEF EngFillResting
  <1>5. CASE Forward \/ UNCHANGED vars
    BY <1>5 DEF Forward, vars, orderVars, Settled
  <1>6. QED BY <1>1, <1>2, <1>3, <1>4, <1>5 DEF Next, Return, Engine

\* Every step maps to a step of the ledger or leaves it alone.
LEMMA LedgerStep == Inv /\ [Next]_vars => [Ledger!Next]_(Ledger!ledgerVars)
  <1> SUFFICES ASSUME Inv, [Next]_vars
               PROVE  Ledger!Next \/ UNCHANGED <<order, Settled, executed>>
    BY DEF Ledger!ledgerVars
  <1>1. QED BY LedgerTrade, OnlyTradesSettle

\* The book and the engine implement the ledger: with any number of orders, levels
\* and pending events, each trade is one whole step of the ledger at the moment it
\* is made, and nothing else a goroutine does changes a settled quantity.
THEOREM Refinement == Spec => ImplementsLedger
  <1>1. Spec => [](Inv)
    BY Invariance
  <1>2. QED
    BY LedgerInit, LedgerStep, <1>1, PTL DEF Spec, Ledger!Spec, ImplementsLedger

-----------------------------------------------------------------------------
(* The tape *)

Sent == tape \o tradeCh

\* While the engine is between its two Fill calls, the trade it has made is newer
\* than everything on its way to the OMS.
TapeInv ==
    /\ TapeInOrder
    /\ eng.pc = "fill" => /\ executed # <<>>
                          /\ \A n \in DOMAIN Sent : Sent[n] < Len(executed)

LEMMA SentType ==
    ASSUME Inv
    PROVE  /\ Sent \in Seq(Nat) /\ Len(Sent) \in Nat /\ DOMAIN Sent = 1 .. Len(Sent)
           /\ Len(executed) \in Nat /\ DOMAIN executed = 1 .. Len(executed)
           /\ tradeCh \in Seq(Nat) /\ tape \in Seq(Nat)
           /\ \A n \in DOMAIN Sent : Sent[n] \in Nat
  <1>1. tradeCh \in Seq(Nat) /\ tape \in Seq(Nat)
    BY DEF Inv, TypeOK, ChannelsTypeOK
  <1>2. PICK T : executed \in Seq(T)
    BY DEF Inv, TypeOK, ChannelsTypeOK
  <1>3. Len(executed) \in Nat /\ DOMAIN executed = 1 .. Len(executed)
    BY <1>2, LenProperties
  <1>4. Sent \in Seq(Nat)
    BY <1>1, ConcatProperties DEF Sent
  <1> HIDE DEF Sent
  <1>5. Len(Sent) \in Nat /\ DOMAIN Sent = 1 .. Len(Sent) /\ \A n \in DOMAIN Sent : Sent[n] \in Nat
    BY <1>4, LenProperties, ElementOfSeq
  <1>6. QED BY <1>1, <1>3, <1>4, <1>5

\* A step that sends nothing, or hands the first number on, leaves the stream alone.
LEMMA StreamKept ==
    ASSUME Inv, TapeInv, Sent' = Sent,
           \/ executed' = executed /\ eng.pc = "fill"
           \/ executed' = executed /\ eng'.pc # "fill"
           \/ eng.pc # "fill" /\ Len(executed') = Len(executed) + 1
              /\ DOMAIN executed' = 1 .. Len(executed) + 1
    PROVE  TapeInv'
  <1>1. PICK s : s = Sent
    OBVIOUS
  <1>2. /\ DOMAIN executed = 1 .. Len(executed) /\ Len(executed) \in Nat
        /\ \A n \in DOMAIN s : s[n] \in Nat
    BY <1>1, SentType
  <1>3. /\ \A m, n \in DOMAIN s : m < n => s[m] < s[n]
        /\ \A n \in DOMAIN s : s[n] \in DOMAIN executed
        /\ eng.pc = "fill" => executed # <<>> /\ \A n \in DOMAIN s : s[n] < Len(executed)
    BY <1>1 DEF TapeInv, TapeInOrder, Sent
  <1>4. /\ \A n \in DOMAIN s : s[n] \in DOMAIN executed'
        /\ eng'.pc = "fill" => executed' # <<>> /\ \A n \in DOMAIN s : s[n] < Len(executed')
    BY <1>2, <1>3
  <1>5. tape' \o tradeCh' = s
    BY <1>1 DEF Sent
  <1>6. QED BY <1>3, <1>4, <1>5, Zenon DEF TapeInv, TapeInOrder, Sent

LEMMA TapeStep ==
    ASSUME Inv, TapeInv, [Next]_vars
    PROVE  TapeInv'
  <1>1. ASSUME UNCHANGED <<eng, executed, tradeCh, tape>> PROVE TapeInv'
    BY <1>1 DEF TapeInv, TapeInOrder, Sent
  <1>2. ASSUME NEW o \in Orders,
               \/ Add(o) \/ AddSend(o) \/ Cancel(o) \/ CancelMark(o) \/ CancelSend(o)
               \/ AddDuplicate(o) \/ CancelRefused(o)
        PROVE  TapeInv'
    BY <1>1, <1>2 DEF Add, AddSend, Cancel, CancelMark, CancelSend, AddDuplicate,
                      CancelRefused, vars, tradeVars
  <1>3. CASE UNCHANGED vars
    BY <1>1, <1>3 DEF vars
  <1>4. CASE EngReceive \/ EngFetch \/ EngTakeLevel \/ EngEnterLevel \/ EngFinish
          \/ EngTakeOrder \/ EngCheck
    <2>1. UNCHANGED <<executed, tradeCh, tape>>
      BY <1>4 DEF EngReceive, EngFetch, EngTakeLevel, EngEnterLevel, EngFinish, EngTakeOrder, EngCheck, tradeVars
    <2>2. eng'.pc # "fill"
      BY <1>4, WalkKeepsOut
    <2>3. Sent' = Sent
      BY <2>1 DEF Sent
    <2>4. QED BY <2>1, <2>2, <2>3, StreamKept
  <1>5. CASE EngTrade
    <2>1. eng.pc = "trade" /\ UNCHANGED <<tradeCh, tape>>
      BY <1>5 DEF EngTrade
    <2>2. PICK e : executed' = Append(executed, e)
      BY <1>5 DEF EngTrade
    <2>3. PICK T : executed \in Seq(T)
      BY DEF Inv, TypeOK, ChannelsTypeOK
    <2>4. executed \in Seq(T \union {e}) /\ e \in T \union {e}
      BY <2>3, SeqMonotonic
    <2>5. Len(executed') = Len(executed) + 1 /\ DOMAIN executed' = 1 .. Len(executed) + 1
      BY <2>2, <2>4, AppendProperties, LenProperties
    <2>6. Sent' = Sent
      BY <2>1 DEF Sent
    <2>7. QED BY <2>1, <2>5, <2>6, StreamKept
  <1>6. CASE EngFillResting
    <2>1. /\ eng.pc = "fill" /\ tape' = tape /\ executed' = executed
          /\ tradeCh' = tradeCh \/ tradeCh' = Append(tradeCh, Len(executed))
      BY <1>6 DEF EngFillResting
    <2>2. CASE tradeCh' = tradeCh
      <3>1. Sent' = Sent
        BY <2>1, <2>2 DEF Sent
      <3>2. QED BY <2>1, <3>1, StreamKept
    <2>3. CASE tradeCh' = Append(tradeCh, Len(executed))
      <3>1. eng'.pc # "fill"
        BY <1>6 DEF EngFillResting, NextOrder, Inv, TypeOK, EngineTypeOK, EngineRecords
      <3>2. PICK s, n : s = Sent /\ n = Len(executed)
        OBVIOUS
      <3>3. s \in Seq(Nat) /\ n \in Nat /\ DOMAIN executed = 1 .. n
            /\ DOMAIN s = 1 .. Len(s) /\ Len(s) \in Nat
            /\ \A m \in DOMAIN s : s[m] \in Nat
        BY <3>2, SentType
      <3>4. tape' \o tradeCh' = Append(s, n)
        BY <2>1, <2>3, <3>2, <3>3, SentType, StreamSend, SMTT(30) DEF Sent
      <3>5. /\ \A i, j \in DOMAIN s : i < j => s[i] < s[j]
            /\ \A i \in DOMAIN s : s[i] \in 1 .. n /\ s[i] < n
        BY <2>1, <3>2, <3>3 DEF TapeInv, TapeInOrder, Sent
      <3>6. PICK t : t = Append(s, n)
        OBVIOUS
      <3>7. /\ DOMAIN t = 1 .. Len(s) + 1 /\ t[Len(s) + 1] = n
            /\ \A i \in 1 .. Len(s) : t[i] = s[i]
        BY <3>3, <3>6, AppendProperties, LenProperties
      <3>8. \A i, j \in DOMAIN t : i < j => t[i] < t[j]
        BY <3>3, <3>5, <3>7, SMTT(30)
      <3>9. \A i \in DOMAIN t : t[i] \in 1 .. n
        <4>1. n \in 1 .. n
          <5>1. n # 0
            <6>1. executed # <<>>
              BY <2>1 DEF TapeInv
            <6>2. PICK T : executed \in Seq(T)
              BY DEF Inv, TypeOK, ChannelsTypeOK
            <6>3. QED BY <3>2, <6>1, <6>2, EmptySeq
          <5>2. QED BY <3>3, <5>1
        <4>2. QED BY <3>3, <3>5, <3>7, <4>1
      <3>10. TapeInOrder'
        BY <2>1, <3>3, <3>4, <3>6, <3>8, <3>9, Zenon DEF TapeInOrder
      <3>11. QED BY <3>1, <3>10 DEF TapeInv
    <2>4. QED BY <2>1, <2>2, <2>3
  <1>7. CASE Forward
    <2>1. Sent' = Sent
      BY <1>7, SentType, StreamTake DEF Forward, Sent
    <2>2. executed' = executed /\ eng' = eng
      BY <1>7 DEF Forward
    <2>3. QED BY <2>1, <2>2, StreamKept
  <1>8. QED
    BY <1>2, <1>3, <1>4, <1>5, <1>6, <1>7 DEF Next, Return, Engine

\* Trades reach the OMS in the order they were made and none twice, for every
\* capacity of TradeCh, also when it is full and drops some of them
\* (fillAgainstLevel, AddSymbol's forwarder).
THEOREM TradesInOrder == Spec => []TapeInOrder
  <1>1. Init => TapeInv
    <2>1. SUFFICES ASSUME Init PROVE TapeInv
      OBVIOUS
    <2>2. Sent = <<>> /\ eng.pc = "idle"
      BY <2>1 DEF Init, Sent, IdleEngine
    <2>3. QED BY <2>2 DEF TapeInv, TapeInOrder, Sent
  <1>2. TapeInv => TapeInOrder
    BY DEF TapeInv
  <1>3. QED BY <1>1, <1>2, TapeStep, Invariance, PTL DEF Spec

-----------------------------------------------------------------------------
(* Market orders *)

\* A market order that the engine is about to fill as a resting one, and that is
\* still in the map, has its own pass to come: that pass will end it.
RestInv ==
    /\ MarketNeverRests
    /\ eng.pc = "idle" => eng.incoming = NoOrder
    /\ \A o \in Registered :
          eng.pc \in {"trade", "fill"} /\ o = eng.resting /\ order[o].type = "MARKET"
             => Unmatched(o)

\* Who is in the channel, in terms of the range that Unmatched speaks of.
LEMMA InRange == \A s, x : x \in Range(s) <=> In(s, x)
  BY DEF Range, In

EventType == [type : {"NEW_ORDER", "CANCEL_ORDER"}, order : Orders]

\* An order waits for its pass until the pass ends: no step but EngFinish takes it
\* from "to come or running" to over.
LEMMA StaysUnmatched ==
    ASSUME Inv, RestInv, [Next]_vars, ~EngFinish, NEW o \in Orders, Unmatched(o)
    PROVE  Unmatched(o)'
  <1>0. eventCh \in Seq(EventType) /\ eng \in EngineRecords
        /\ caller \in [Orders -> {"new", "adding", "placed", "unlinked", "cancelling", "cancelled"}]
    BY DEF Inv, TypeOK, ChannelsTypeOK, EventType, EngineTypeOK, OrdersTypeOK
  <1>1. ASSUME NEW x \in Orders, Add(x) PROVE Unmatched(o)'
    BY <1>0, <1>1 DEF Add, Unmatched, Event
  <1>2. ASSUME NEW x \in Orders, Cancel(x) \/ CancelMark(x) PROVE Unmatched(o)'
    BY <1>0, <1>2 DEF Cancel, CancelMark, Locked, Critical, Registered, Unmatched, Event
  <1>3. ASSUME NEW x \in Orders, NEW k \in {"NEW_ORDER", "CANCEL_ORDER"},
               eventCh' = Append(eventCh, Event(k, x))
        PROVE  /\ Event("NEW_ORDER", o) \in Range(eventCh)
                    => Event("NEW_ORDER", o) \in Range(eventCh')
               /\ Event(k, x) \in Range(eventCh')
    <2>1. Event(k, x) \in EventType
      BY DEF Event, EventType
    <2>2. PICK s, e : s = eventCh /\ e = Event(k, x)
      OBVIOUS
    <2>3. \A y : In(Append(s, e), y) <=> In(s, y) \/ y = e
      BY <1>0, <2>1, <2>2, Added
    <2>4. QED BY <1>3, <2>2, <2>3, InRange
  <1>4. ASSUME NEW x \in Orders, AddSend(x) PROVE Unmatched(o)'
    <2>1. eventCh' = Append(eventCh, Event("NEW_ORDER", x)) /\ eng' = eng
          /\ \A y \in Orders : y # x => caller'[y] = caller[y]
      BY <1>0, <1>4 DEF AddSend, Event
    <2>2. Event("NEW_ORDER", o) \in Range(eventCh) => Event("NEW_ORDER", o) \in Range(eventCh')
          /\ Event("NEW_ORDER", x) \in Range(eventCh')
      BY <1>3, <2>1
    <2>3. Event("NEW_ORDER", x) \in Range(eventCh')
      BY <1>3, <2>1
    <2>4. QED BY <2>1, <2>2, <2>3 DEF Unmatched, Event
  <1>5. ASSUME NEW x \in Orders, CancelSend(x) PROVE Unmatched(o)'
    <2>1. eventCh' = Append(eventCh, Event("CANCEL_ORDER", x)) /\ eng' = eng
          /\ caller[x] = "cancelling" /\ \A y \in Orders : y # x => caller'[y] = caller[y]
      BY <1>0, <1>5 DEF CancelSend, Event
    <2>2. Event("NEW_ORDER", o) \in Range(eventCh) => Event("NEW_ORDER", o) \in Range(eventCh')
      BY <1>3, <2>1
    <2>3. QED BY <2>1, <2>2 DEF Unmatched, Event
  <1>6. ASSUME UNCHANGED <<caller, eventCh>>, eng'.incoming = eng.incoming PROVE Unmatched(o)'
    BY <1>6 DEF Unmatched, Event
  <1>7. ASSUME NEW x \in Orders, AddDuplicate(x) \/ CancelRefused(x) PROVE Unmatched(o)'
    BY <1>6, <1>7 DEF AddDuplicate, CancelRefused, vars
  <1>8. CASE Forward \/ UNCHANGED vars
    BY <1>6, <1>8 DEF Forward, vars
  <1>9. CASE EngReceive
    <2>1. eng.pc = "idle" /\ eventCh # <<>> /\ eventCh' = Tail(eventCh) /\ caller' = caller
      BY <1>9 DEF EngReceive
    <2>2. eng.incoming # o
      BY <2>1, OrdersAssumption DEF RestInv
    <2>3. Head(eventCh) = Event("NEW_ORDER", o) => eng'.incoming = o
      BY <1>0, <1>9 DEF EngReceive, Event, EngineRecords
    <2>4. PICK s : s = eventCh
      OBVIOUS
    <2>5. \A y : In(s, y) => y = Head(s) \/ In(Tail(s), y)
      BY <1>0, <2>1, <2>4, Received
    <2>6. Event("NEW_ORDER", o) \in Range(eventCh)
            => \/ Head(eventCh) = Event("NEW_ORDER", o)
               \/ Event("NEW_ORDER", o) \in Range(eventCh')
      BY <2>1, <2>4, <2>5, InRange
    <2>7. QED BY <2>1, <2>2, <2>3, <2>6 DEF Unmatched, Event
  <1>10. CASE EngFetch \/ EngTakeLevel \/ EngEnterLevel \/ EngTakeOrder \/ EngCheck \/ EngTrade \/ EngFillResting
    <2>1. UNCHANGED <<caller, eventCh>>
      BY <1>10 DEF EngFetch, EngTakeLevel, EngEnterLevel, EngTakeOrder, EngCheck, EngTrade, EngFillResting
    <2>2. CASE EngFetch \/ EngTakeLevel \/ EngEnterLevel \/ EngTakeOrder \/ EngCheck
      BY <1>0, <1>6, <2>1, <2>2 DEF EngFetch, EngTakeLevel, EngEnterLevel, EngTakeOrder, EngCheck, NextLevel, NextOrder, EngineRecords
    <2>3. CASE EngTrade \/ EngFillResting
      BY <1>0, <1>6, <2>1, <2>3 DEF EngTrade, EngFillResting, NextOrder, EngineRecords
    <2>4. QED BY <1>10, <2>2, <2>3
  <1>11. QED
    BY <1>1, <1>2, <1>4, <1>5, <1>7, <1>8, <1>9, <1>10 DEF Next, Return, Engine

\* Only Add registers an order, and only Add and the two Fill calls make one active.
LEMMA BecomesActive ==
    ASSUME Inv, [Next]_vars, NEW o \in Orders
    PROVE  /\ o \in Registered' => o \in Registered \/ caller'[o] = "adding"
           /\ o \in Placed /\ o \in Registered' => o \in Registered
           /\ IsActive(o)' => \/ IsActive(o) \/ caller'[o] = "adding"
                              \/ eng.incoming = o /\ EngTrade
                              \/ EngFillResting /\ eng.resting = o
  <1>0. caller \in [Orders -> {"new", "adding", "placed", "unlinked", "cancelling", "cancelled"}]
        /\ status \in [Orders -> Statuses]
    BY DEF Inv, TypeOK, OrdersTypeOK
  <1> DEFINE Goal == /\ o \in Registered' => o \in Registered \/ caller'[o] = "adding"
                     /\ o \in Placed /\ o \in Registered' => o \in Registered
                     /\ IsActive(o)' => \/ IsActive(o) \/ caller'[o] = "adding"
                                        \/ eng.incoming = o /\ EngTrade
                                        \/ EngFillResting /\ eng.resting = o
  <1>1. ASSUME NEW x \in Orders,
               Add(x) \/ AddSend(x) \/ Cancel(x) \/ CancelMark(x) \/ CancelSend(x)
        PROVE  Goal
    BY <1>0, <1>1 DEF Add, AddSend, Cancel, CancelMark, CancelSend, Registered, Placed, IsActive,
                      orderVars
  <1>2. ASSUME UNCHANGED <<caller, status>> PROVE Goal
    BY <1>2 DEF Registered, IsActive
  <1>3. ASSUME NEW x \in Orders, AddDuplicate(x) \/ CancelRefused(x) PROVE Goal
    BY <1>2, <1>3 DEF AddDuplicate, CancelRefused, vars
  <1>4. CASE \/ Forward \/ UNCHANGED vars \/ EngReceive \/ EngFetch \/ EngTakeLevel
             \/ EngEnterLevel \/ EngTakeOrder \/ EngCheck
    BY <1>2, <1>4 DEF Forward, vars, EngReceive, EngFetch, EngTakeLevel, EngEnterLevel, EngTakeOrder, EngCheck, orderVars
  <1>5. CASE EngFinish
    BY <1>0, <1>5 DEF EngFinish, Registered, IsActive
  <1>6. CASE EngTrade
    <2>1. caller' = caller /\ \A y \in Orders : y # eng.incoming => status'[y] = status[y]
      BY <1>0, <1>6 DEF EngTrade, Fill
    <2>2. QED BY <1>6, <2>1 DEF Registered, IsActive
  <1>7. CASE EngFillResting
    <2>1. caller' = caller /\ \A y \in Orders : y # eng.resting => status'[y] = status[y]
      BY <1>0, <1>7 DEF EngFillResting, Fill
    <2>2. QED BY <1>7, <2>1 DEF Registered, IsActive
  <1>8. QED
    BY <1>1, <1>3, <1>4, <1>5, <1>6, <1>7 DEF Next, Return, Engine

LEMMA RestStep ==
    ASSUME Inv, RestInv, [Next]_vars
    PROVE  RestInv'
  <1>0. order' = order /\ Placed \subseteq Placed' /\ eng \in EngineRecords
    BY PlacedGrows DEF Inv, TypeOK, EngineTypeOK
  <1>1. ASSUME NEW o \in Orders, order[o].type = "MARKET", ~Unmatched(o)', o \in Registered',
               IsActive(o)'
        PROVE  FALSE
    <2>1. caller'[o] # "adding"
      BY <1>1 DEF Unmatched
    <2>2. CASE EngFinish
      <3>1. caller' = caller /\ eventCh' = eventCh
            /\ status' = IF /\ order[eng.incoming].type = "MARKET"
                            /\ Remaining(eng.incoming) > 0
                            /\ status[eng.incoming] # "FILLED"
                         THEN [status EXCEPT ![eng.incoming] = "REJECTED"]
                         ELSE status
        BY <2>2 DEF EngFinish
      <3>2. IsActive(o) /\ o \in Registered
        BY <1>1, <2>1, <2>2, BecomesActive DEF EngFinish, EngTrade, EngFillResting
      <3>3. CASE eng.incoming = o
        <4>1. Remaining(o) > 0 /\ status[o] # "FILLED"
          BY <3>2, LeftToFill DEF IsActive
        <4>2. status'[o] = "REJECTED"
          BY <1>1, <3>1, <3>3, <4>1 DEF Inv, TypeOK, OrdersTypeOK
        <4>3. QED BY <1>1, <4>2 DEF IsActive
      <3>4. CASE eng.incoming # o
        <4>1. ~Unmatched(o)
          BY <1>1, <3>1, <3>4 DEF Unmatched, Event
        <4>2. QED BY <1>1, <3>2, <4>1 DEF RestInv, MarketNeverRests
      <3>5. QED BY <3>3, <3>4
    <2>3. CASE ~EngFinish
      <3>1. ~Unmatched(o)
        BY <1>1, <2>3, StaysUnmatched
      <3>2. o \in Registered /\ eng.incoming # o
        BY <1>1, <2>1, <3>1, BecomesActive DEF Unmatched
      <3>3. ~IsActive(o)
        BY <1>1, <3>1, <3>2 DEF RestInv, MarketNeverRests
      <3>4. EngFillResting /\ eng.resting = o
        BY <1>1, <2>1, <3>2, <3>3, BecomesActive
      <3>5. QED BY <1>1, <3>1, <3>2, <3>4 DEF RestInv, EngFillResting
    <2>4. QED BY <2>2, <2>3
  <1>2. MarketNeverRests'
    BY <1>0, <1>1 DEF MarketNeverRests
  <1>3. eng'.pc = "idle" => eng'.incoming = NoOrder
    <2>1. ASSUME UNCHANGED eng PROVE eng'.pc = "idle" => eng'.incoming = NoOrder
      BY <2>1 DEF RestInv
    <2>2. CASE EngFinish
      BY <2>2 DEF EngFinish, IdleEngine
    <2>3. CASE EngReceive
      BY <1>0, <2>3 DEF EngReceive, EngineRecords, RestInv
    <2>4. CASE EngFetch \/ EngTakeLevel \/ EngEnterLevel \/ EngTrade \/ EngFillResting
      BY <1>0, <2>4 DEF EngFetch, EngTakeLevel, EngEnterLevel, EngTrade, EngFillResting,
                        NextOrder, EngineRecords
    <2>5. CASE EngTakeOrder \/ EngCheck
      BY <1>0, <2>5 DEF EngTakeOrder, EngCheck, NextLevel, NextOrder, EngineRecords
    <2>6. ASSUME NEW x \in Orders,
                 \/ Add(x) \/ AddSend(x) \/ Cancel(x) \/ CancelMark(x) \/ CancelSend(x)
                 \/ AddDuplicate(x) \/ CancelRefused(x)
          PROVE  UNCHANGED eng
      BY <2>6 DEF Add, AddSend, Cancel, CancelMark, CancelSend, AddDuplicate, CancelRefused, vars
    <2>7. CASE Forward \/ UNCHANGED vars
      BY <2>1, <2>7 DEF Forward, vars
    <2>8. QED
      BY <2>1, <2>2, <2>3, <2>4, <2>5, <2>6, <2>7 DEF Next, Return, Engine
  <1>4. ASSUME NEW r \in Orders, r \in Registered', eng'.pc \in {"trade", "fill"},
               r = eng'.resting, order[r].type = "MARKET"
        PROVE  Unmatched(r)'
    <2>1. ~EngFinish
      BY <1>4 DEF EngFinish, IdleEngine
    <2>2. CASE EngCheck
      <3>1. eng.resting = r /\ IsActive(r)
        BY <1>0, <1>4, <2>2 DEF EngCheck, NextLevel, NextOrder, EngineRecords
      <3>2. r \in Registered
        BY <1>4, <3>1, LeftToFill, BecomesActive
      <3>3. Unmatched(r)
        BY <1>4, <3>1, <3>2 DEF RestInv, MarketNeverRests
      <3>4. QED BY <1>4, <2>1, <3>3, StaysUnmatched
    <2>3. CASE ~EngCheck
      <3>1. eng.pc \in {"trade", "fill"} /\ eng.resting = r
        <4>1. CASE EngReceive \/ EngFetch \/ EngTakeLevel \/ EngEnterLevel \/ EngTakeOrder
          BY <1>0, <1>4, <4>1 DEF EngReceive, EngFetch, EngTakeLevel, EngEnterLevel,
                                  EngTakeOrder, NextLevel, EngineRecords
        <4>2. CASE EngTrade
          BY <1>0, <1>4, <4>2 DEF EngTrade, EngineRecords
        <4>3. CASE EngFillResting
          BY <1>0, <1>4, <4>3 DEF EngFillResting, NextOrder, EngineRecords
        <4>4. ASSUME NEW x \in Orders,
                     \/ Add(x) \/ AddSend(x) \/ Cancel(x) \/ CancelMark(x) \/ CancelSend(x)
                     \/ AddDuplicate(x) \/ CancelRefused(x)
              PROVE  UNCHANGED eng
          BY <4>4 DEF Add, AddSend, Cancel, CancelMark, CancelSend, AddDuplicate, CancelRefused,
                      vars
        <4>5. CASE Forward \/ UNCHANGED vars
          BY <1>4, <4>5 DEF Forward, vars
        <4>6. QED
          BY <1>4, <2>1, <2>3, <4>1, <4>2, <4>3, <4>4, <4>5 DEF Next, Return, Engine
      <3>2. r \in Placed
        BY <3>1 DEF Inv, EngineFacts
      <3>3. r \in Registered
        BY <1>4, <3>2, BecomesActive
      <3>4. Unmatched(r)
        BY <1>4, <3>1, <3>3 DEF RestInv
      <3>5. QED BY <2>1, <1>4, <3>4, StaysUnmatched
    <2>4. QED BY <2>2, <2>3
  <1>5. \A o \in Registered' :
          eng'.pc \in {"trade", "fill"} /\ o = eng'.resting /\ order'[o].type = "MARKET"
             => Unmatched(o)'
    <2>1. \A o \in Registered' : o \in Orders
      BY DEF Registered
    <2>2. QED BY <1>0, <1>4, <2>1
  <1>6. QED BY <1>2, <1>3, <1>5, Zenon DEF RestInv

\* A market order never rests: once its pass is over it is not active, although other
\* passes may fill it, and Cancel may take it, while its own pass is still to come
\* (matchMarketOrder).
THEOREM MarketOrdersNeverRest == Spec => []MarketNeverRests
  <1>1. Init => RestInv
    BY DEF Init, RestInv, MarketNeverRests, Registered, IdleEngine
  <1>2. RestInv => MarketNeverRests
    BY DEF RestInv
  <1>3. QED BY <1>1, <1>2, RestStep, Invariance, PTL DEF Spec

-----------------------------------------------------------------------------
(* The shape of the book *)

Listed(l) == In(Levels(order[l].side), l)

Sorted ==
    \A side \in Sides : \A i, j \in 1 .. levels[side].len :
        i < j => Ahead(side, LevelPrice(Levels(side)[i]), LevelPrice(Levels(side)[j]))

\* What BookWellFormed says, from the levels' point of view: the levels that have
\* orders are those the side shows, and a registered order is in one queue, once.
BookInv ==
    /\ Sorted
    /\ \A l \in Orders : queue[l].len > 0 <=> Listed(l)
    /\ \A l \in Orders : Once(Queue(l))
    /\ \A l, o \in Orders : In(Queue(l), o) => o \in Registered
    /\ \A o \in Registered : \E l \in Orders : In(Queue(l), o)

LEMMA QueueType ==
    ASSUME TypeOK, NEW l \in Orders
    PROVE  /\ queue[l] \in Slice(MatesOf(l)) /\ Queue(l) \in Seq(MatesOf(l))
           /\ queue[l].len \in Nat /\ Len(Queue(l)) = queue[l].len
           /\ DOMAIN Queue(l) = 1 .. queue[l].len
           /\ \A j \in 1 .. queue[l].len : Queue(l)[j] \in MatesOf(l)
  <1>1. queue[l] \in Slice(MatesOf(l))
    BY DEF TypeOK, BookTypeOK
  <1>2. /\ Queue(l) \in Seq(MatesOf(l)) /\ Len(Queue(l)) = queue[l].len
        /\ \A j \in 1 .. queue[l].len : Queue(l)[j] \in MatesOf(l)
    BY <1>1, ElemsType DEF Queue
  <1>3. queue[l].len \in Nat /\ DOMAIN Queue(l) = 1 .. queue[l].len
    BY SeenLevels
  <1>4. QED BY <1>1, <1>2, <1>3

\* What is in a queue has its level's side and price.
LEMMA InQueue ==
    ASSUME TypeOK, NEW l \in Orders, NEW o, In(Queue(l), o)
    PROVE  /\ o \in Orders /\ order[o].side = order[l].side /\ order[o].price = order[l].price
           /\ queue[l].len > 0
  <1>1. PICK j \in 1 .. queue[l].len : Queue(l)[j] = o
    BY QueueType DEF In
  <1>2. o \in MatesOf(l) /\ queue[l].len \in Nat
    BY <1>1, QueueType
  <1>3. QED BY <1>1, <1>2 DEF MatesOf

LEMMA LevelFacts ==
    ASSUME TypeOK, NEW side \in Sides
    PROVE  /\ levels[side] \in Slice(LevelsOf(side)) /\ levels[side].len \in Nat
           /\ DOMAIN Levels(side) = 1 .. levels[side].len
           /\ \A i \in 1 .. levels[side].len :
                /\ Levels(side)[i] \in Orders /\ Levels(side)[i] \in Placed
                /\ order[Levels(side)[i]].side = side
                /\ LevelPrice(Levels(side)[i]) \in Int
                /\ Listed(Levels(side)[i])
  <1>1. /\ levels[side] \in Slice(LevelsOf(side)) /\ levels[side].len \in Nat
        /\ DOMAIN Levels(side) = 1 .. levels[side].len
        /\ \A i \in 1 .. levels[side].len : Levels(side)[i] \in LevelsOf(side)
    BY SeenLevels DEF TypeOK, BookTypeOK
  <1>2. ASSUME NEW i \in 1 .. levels[side].len
        PROVE  /\ Levels(side)[i] \in Orders /\ Levels(side)[i] \in Placed
               /\ order[Levels(side)[i]].side = side
               /\ LevelPrice(Levels(side)[i]) \in Int
               /\ Listed(Levels(side)[i])
    <2>1. PICK l : l = Levels(side)[i]
      OBVIOUS
    <2>2. l \in Placed /\ l \in Orders /\ order[l].side = side
      BY <1>1, <1>2, <2>1 DEF LevelsOf, Placed
    <2>3. order[l].price \in Int
      BY <2>2 DEF TypeOK, OrdersTypeOK
    <2>4. Listed(l)
      BY <1>1, <2>1, <2>2 DEF Listed, In
    <2>5. QED BY <2>1, <2>2, <2>3, <2>4 DEF LevelPrice
  <1>3. QED BY <1>1, <1>2

\* A side shows one level per price, and each once.
LEMMA OneLevelPerPrice ==
    ASSUME TypeOK, Sorted, NEW side \in Sides, NEW i \in 1 .. levels[side].len,
           NEW j \in 1 .. levels[side].len,
           LevelPrice(Levels(side)[i]) = LevelPrice(Levels(side)[j])
    PROVE  i = j
  <1>1. levels[side].len \in Nat /\ LevelPrice(Levels(side)[i]) \in Int
        /\ LevelPrice(Levels(side)[j]) \in Int
    BY LevelFacts
  <1>2. \A p \in Int : ~Ahead(side, p, p)
    BY DEF Ahead
  <1>3. ~(i < j) /\ ~(j < i)
    BY <1>1, <1>2 DEF Sorted
  <1>4. QED BY <1>1, <1>3

\* BookInv says what BookWellFormed says.
LEMMA BookInvShows ==
    ASSUME TypeOK, BookInv
    PROVE  BookWellFormed
  <1>1. ASSUME NEW side \in Sides
        PROVE  LET lv == Levels(side)
               IN /\ \A i, j \in DOMAIN lv :
                       i < j => Ahead(side, LevelPrice(lv[i]), LevelPrice(lv[j]))
                  /\ \A i \in DOMAIN lv : Queue(lv[i]) # <<>>
                  /\ \A o \in Orders :
                       (o \in Registered /\ order[o].side = side)
                       <=> \E i \in DOMAIN lv :
                             /\ LevelPrice(lv[i]) = order[o].price
                             /\ \E j \in DOMAIN Queue(lv[i]) :
                                  /\ Queue(lv[i])[j] = o
                                  /\ \A n \in DOMAIN Queue(lv[i]) :
                                       Queue(lv[i])[n] = o => n = j
                  /\ \A i \in DOMAIN lv : \A j \in DOMAIN Queue(lv[i]) :
                       Queue(lv[i])[j] \in Registered
    <2>1. PICK lv : lv = Levels(side)
      OBVIOUS
    <2>2. /\ DOMAIN lv = 1 .. levels[side].len /\ levels[side].len \in Nat
          /\ \A i \in DOMAIN lv : /\ lv[i] \in Orders /\ Listed(lv[i])
                                  /\ order[lv[i]].side = side
      BY <2>1, LevelFacts
    <2>3. \A i, j \in DOMAIN lv : i < j => Ahead(side, LevelPrice(lv[i]), LevelPrice(lv[j]))
      BY <2>1, <2>2 DEF BookInv, Sorted
    <2>4. ASSUME NEW i \in DOMAIN lv PROVE Queue(lv[i]) # <<>>
      <3>1. queue[lv[i]].len > 0
        BY <2>2 DEF BookInv
      <3>2. QED BY <2>2, <3>1, QueueType
    <2>5. ASSUME NEW i \in DOMAIN lv, NEW j \in DOMAIN Queue(lv[i])
          PROVE  Queue(lv[i])[j] \in Registered /\ In(Queue(lv[i]), Queue(lv[i])[j])
      <3>1. In(Queue(lv[i]), Queue(lv[i])[j])
        BY DEF In
      <3>2. Queue(lv[i])[j] \in Orders
        BY <2>2, <3>1, InQueue
      <3>3. QED BY <2>2, <3>1, <3>2 DEF BookInv
    <2>6. ASSUME NEW o \in Registered, order[o].side = side
          PROVE  \E i \in DOMAIN lv :
                    /\ LevelPrice(lv[i]) = order[o].price
                    /\ \E j \in DOMAIN Queue(lv[i]) :
                         /\ Queue(lv[i])[j] = o
                         /\ \A n \in DOMAIN Queue(lv[i]) : Queue(lv[i])[n] = o => n = j
      <3>1. PICK l \in Orders : In(Queue(l), o)
        BY DEF BookInv
      <3>2. order[l].side = side /\ order[l].price = order[o].price /\ queue[l].len > 0
        BY <2>6, <3>1, InQueue
      <3>3. PICK i \in DOMAIN lv : lv[i] = l
        BY <2>1, <2>2, <3>2 DEF BookInv, Listed, In
      <3>4. PICK j \in DOMAIN Queue(l) : Queue(l)[j] = o
        BY <3>1 DEF In
      <3>5. \A n \in DOMAIN Queue(l) : Queue(l)[n] = o => n = j
        BY <3>4 DEF BookInv, Once
      <3>6. QED BY <3>2, <3>3, <3>4, <3>5 DEF LevelPrice
    <2>7. ASSUME NEW i \in DOMAIN lv, NEW j \in DOMAIN Queue(lv[i])
          PROVE  order[Queue(lv[i])[j]].side = side
      BY <2>2, <2>5, InQueue
    <2>8. \A o \in Orders :
             (o \in Registered /\ order[o].side = side)
             <=> \E i \in DOMAIN lv :
                   /\ LevelPrice(lv[i]) = order[o].price
                   /\ \E j \in DOMAIN Queue(lv[i]) :
                        /\ Queue(lv[i])[j] = o
                        /\ \A n \in DOMAIN Queue(lv[i]) : Queue(lv[i])[n] = o => n = j
      <3>1. SUFFICES ASSUME NEW o \in Orders, NEW i \in DOMAIN lv,
                            NEW j \in DOMAIN Queue(lv[i]), Queue(lv[i])[j] = o
                     PROVE  o \in Registered /\ order[o].side = side
        BY <2>6
      <3>2. QED BY <2>5, <2>7, <3>1
    <2>9. QED BY <2>1, <2>3, <2>4, <2>5, <2>8
  <1>2. QED BY <1>1 DEF BookWellFormed

\* Sequence t is s, of length n, without its element j; or with x put in at j.
TakenOut(s, n, j, t) ==
    /\ n \in Nat /\ j \in 1 .. n /\ DOMAIN s = 1 .. n /\ DOMAIN t = 1 .. n - 1
    /\ \A k \in 1 .. n - 1 : t[k] = IF k < j THEN s[k] ELSE s[k + 1]

PutIn(s, n, j, x, t) ==
    /\ n \in Nat /\ j \in 1 .. n + 1 /\ DOMAIN s = 1 .. n /\ DOMAIN t = 1 .. n + 1
    /\ \A k \in 1 .. n + 1 : t[k] = IF k < j THEN s[k] ELSE IF k = j THEN x ELSE s[k - 1]

LEMMA SeqRemoved ==
    ASSUME NEW n, NEW s, NEW t, NEW j, TakenOut(s, n, j, t), Once(s)
    PROVE  /\ Once(t)
           /\ \A x : In(t, x) <=> In(s, x) /\ x # s[j]
  <1>0. /\ n \in Nat /\ j \in 1 .. n /\ DOMAIN s = 1 .. n /\ DOMAIN t = 1 .. n - 1
        /\ \A k \in 1 .. n - 1 : t[k] = IF k < j THEN s[k] ELSE s[k + 1]
    BY DEF TakenOut
  <1>1. ASSUME NEW k \in 1 .. n - 1
        PROVE  \E m \in 1 .. n : m # j /\ t[k] = s[m] /\ m = IF k < j THEN k ELSE k + 1
    BY <1>0
  <1>2. ASSUME NEW m \in 1 .. n, m # j PROVE \E k \in 1 .. n - 1 : t[k] = s[m]
    <2>1. CASE m < j
      BY <1>0, <2>1
    <2>2. CASE m > j
      <3>1. PICK k : k = m - 1
        OBVIOUS
      <3>2. k \in 1 .. n - 1 /\ ~(k < j) /\ k + 1 = m
        BY <1>0, <2>2, <3>1
      <3>3. QED BY <1>0, <3>2
    <2>3. QED BY <1>0, <1>2, <2>1, <2>2
  <1>3. ASSUME NEW a \in 1 .. n - 1, NEW b \in 1 .. n - 1, t[a] = t[b] PROVE a = b
    <2>1. PICK m \in 1 .. n : m # j /\ t[a] = s[m] /\ m = IF a < j THEN a ELSE a + 1
      BY <1>1
    <2>2. PICK p \in 1 .. n : p # j /\ t[b] = s[p] /\ p = IF b < j THEN b ELSE b + 1
      BY <1>1
    <2>3. m = p
      BY <1>0, <1>3, <2>1, <2>2 DEF Once
    <2>4. QED BY <1>0, <2>1, <2>2, <2>3
  <1>4. Once(t)
    BY <1>0, <1>3 DEF Once
  <1>5. ASSUME NEW x, In(t, x) PROVE In(s, x) /\ x # s[j]
    <2>1. PICK k \in 1 .. n - 1 : t[k] = x
      BY <1>0, <1>5 DEF In
    <2>2. PICK m \in 1 .. n : m # j /\ x = s[m]
      BY <1>1, <2>1
    <2>3. QED BY <1>0, <2>2 DEF In, Once
  <1>6. ASSUME NEW x, In(s, x), x # s[j] PROVE In(t, x)
    BY <1>0, <1>2, <1>6 DEF In
  <1>7. QED BY <1>4, <1>5, <1>6

LEMMA SeqInserted ==
    ASSUME NEW n, NEW s, NEW t, NEW e, NEW j, PutIn(s, n, j, e, t)
    PROVE  \A x : In(t, x) <=> In(s, x) \/ x = e
  <1>0. /\ n \in Nat /\ j \in 1 .. n + 1 /\ DOMAIN s = 1 .. n /\ DOMAIN t = 1 .. n + 1
        /\ \A k \in 1 .. n + 1 :
             t[k] = IF k < j THEN s[k] ELSE IF k = j THEN e ELSE s[k - 1]
    BY DEF PutIn
  <1>1. ASSUME NEW m \in 1 .. n PROVE \E k \in 1 .. n + 1 : t[k] = s[m]
    <2>1. CASE m < j
      BY <1>0, <2>1
    <2>2. CASE ~(m < j)
      <3>1. m + 1 \in 1 .. n + 1 /\ ~(m + 1 < j) /\ m + 1 # j /\ (m + 1) - 1 = m
        BY <1>0, <2>2
      <3>2. t[m + 1] = s[(m + 1) - 1]
        BY <1>0, <3>1
      <3>3. QED BY <3>1, <3>2
    <2>3. QED BY <1>0, <2>1, <2>2
  <1>2. ASSUME NEW k \in 1 .. n + 1 PROVE t[k] = e \/ \E m \in 1 .. n : t[k] = s[m]
    BY <1>0
  <1>3. t[j] = e
    BY <1>0
  <1>4. ASSUME NEW x, In(t, x) PROVE In(s, x) \/ x = e
    BY <1>0, <1>2, <1>4 DEF In
  <1>5. ASSUME NEW x, In(s, x) \/ x = e PROVE In(t, x)
    BY <1>0, <1>1, <1>3, <1>5 DEF In
  <1>6. QED BY <1>4, <1>5

\* Only Add and Cancel change who is registered.
LEMMA AddFacts ==
    ASSUME Inv, BookInv, NEW o \in Orders, Add(o)
    PROVE  /\ order' = order /\ o \notin Placed /\ Registered' = Registered \union {o}
           /\ o \notin Registered /\ order[o].side \in Sides /\ order[o].price \in Int
           /\ \A l \in Orders : ~In(Queue(l), o)
           /\ ~Listed(o) /\ queue[o].len = 0
  <1>1. caller[o] = "new" /\ caller' = [caller EXCEPT ![o] = "adding"] /\ order' = order
    BY DEF Add
  <1>2. o \notin Placed /\ o \notin Registered
    BY <1>1 DEF Placed, Registered
  <1>3. Registered' = Registered \union {o}
    BY <1>1 DEF Registered, Inv, TypeOK, OrdersTypeOK
  <1>4. order[o].side \in Sides /\ order[o].price \in Int
    BY DEF Inv, TypeOK, OrdersTypeOK
  <1>5. \A l \in Orders : ~In(Queue(l), o)
    BY <1>2 DEF BookInv
  <1>6. ~Listed(o)
    <2>1. SUFFICES ASSUME Listed(o) PROVE FALSE
      OBVIOUS
    <2>2. PICK i \in DOMAIN Levels(order[o].side) : Levels(order[o].side)[i] = o
      BY <2>1 DEF Listed, In
    <2>3. o \in Placed
      BY <1>4, <2>2, LevelFacts DEF Inv
    <2>4. QED BY <1>2, <2>3
  <1>7. queue[o].len = 0
    <2>1. queue[o].len \in Nat
      BY QueueType DEF Inv
    <2>2. ~(queue[o].len > 0)
      BY <1>6 DEF BookInv
    <2>3. QED BY <2>1, <2>2
  <1>8. QED BY <1>1, <1>2, <1>3, <1>4, <1>5, <1>6, <1>7

\* Add joins the level at the order's price.
LEMMA JoinLevel ==
    ASSUME Inv, BookInv, NEW o \in Orders, Add(o), NEW l \in Orders,
           queue[l].len > 0, o \in MatesOf(l),
           queue' = [queue EXCEPT ![l] = AppendTo(queue[l], o)], levels' = levels
    PROVE  BookInv'
  <1>1. /\ order' = order /\ Registered' = Registered \union {o} /\ o \notin Registered
        /\ ~In(Queue(l), o)
    BY AddFacts
  <1>2. /\ queue[l] \in Slice(MatesOf(l)) /\ Queue(l) \in Seq(MatesOf(l))
        /\ queue[l].len \in Nat /\ DOMAIN queue = Orders
    BY QueueType DEF Inv, TypeOK, BookTypeOK
  <1>3. /\ queue'[l].len = queue[l].len + 1
        /\ Queue(l)' = Append(Queue(l), o)
    <2>1. queue'[l] = AppendTo(queue[l], o)
      BY <1>2
    <2>2. AppendTo(queue[l], o).len = queue[l].len + 1
          /\ Elems(AppendTo(queue[l], o)) = Append(Elems(queue[l]), o)
      BY <1>2, AppendContent
    <2>3. QED BY <2>1, <2>2 DEF Queue
  <1>4. \A m \in Orders : m # l => queue'[m] = queue[m] /\ Queue(m)' = Queue(m)
    BY <1>2 DEF Queue
  <1>5. /\ Once(Queue(l)) => Once(Append(Queue(l), o))
        /\ \A x : In(Append(Queue(l), o), x) <=> In(Queue(l), x) \/ x = o
    BY <1>1, <1>2, Added
  <1>6. Sorted'
    BY <1>1 DEF BookInv, Sorted, Levels, LevelPrice
  <1>7. \A m \in Orders : Listed(m)' <=> Listed(m)
    BY <1>1 DEF Listed, Levels
  <1>8. \A m \in Orders : queue'[m].len > 0 <=> Listed(m)'
    BY <1>2, <1>3, <1>4, <1>7 DEF BookInv
  <1>9. \A m \in Orders : Once(Queue(m)')
    BY <1>3, <1>4, <1>5 DEF BookInv
  <1>10. \A m, x \in Orders : In(Queue(m)', x) => x \in Registered'
    BY <1>1, <1>3, <1>4, <1>5 DEF BookInv
  <1>11. \A x \in Registered' : \E m \in Orders : In(Queue(m)', x)
    <2>1. SUFFICES ASSUME NEW x \in Registered' PROVE \E m \in Orders : In(Queue(m)', x)
      OBVIOUS
    <2>2. CASE x = o
      BY <1>3, <1>5, <2>2
    <2>3. CASE x # o
      <3>1. PICK m \in Orders : In(Queue(m), x)
        BY <1>1, <2>3 DEF BookInv
      <3>2. QED BY <1>3, <1>4, <1>5, <3>1
    <2>4. QED BY <2>2, <2>3
  <1>12. QED BY <1>6, <1>8, <1>9, <1>10, <1>11 DEF BookInv, Once, In

\* Prices in order stay so when a price is put in where the search stopped, and when
\* one is taken out.
InOrder(side, p, n) == \A i, j \in 1 .. n : i < j => Ahead(side, p[i], p[j])

LEMMA SortedInsert ==
    ASSUME NEW side \in Sides, NEW n \in Nat, NEW pos \in 1 .. n + 1, NEW x \in Int,
           NEW p, NEW q, \A i \in 1 .. n : p[i] \in Int, InOrder(side, p, n),
           \A i \in 1 .. pos - 1 : Ahead(side, p[i], x),
           pos <= n => ~Ahead(side, p[pos], x) /\ p[pos] # x,
           PutIn(p, n, pos, x, q)
    PROVE  InOrder(side, q, n + 1)
  <1>0. /\ \A i, j \in 1 .. n : i < j => Ahead(side, p[i], p[j])
        /\ \A k \in 1 .. n + 1 :
             q[k] = IF k < pos THEN p[k] ELSE IF k = pos THEN x ELSE p[k - 1]
    BY DEF PutIn, InOrder
  <1>1. ASSUME NEW a \in Int, NEW b \in Int, ~Ahead(side, a, b), a # b
        PROVE  Ahead(side, b, a)
    BY <1>1 DEF Ahead
  <1>2. ASSUME NEW a \in Int, NEW b \in Int, NEW c \in Int, Ahead(side, a, b), Ahead(side, b, c)
        PROVE  Ahead(side, a, c)
    BY <1>2 DEF Ahead
  <1>3. ASSUME NEW j \in pos .. n PROVE Ahead(side, x, p[j])
    <2>1. pos \in 1 .. n /\ j \in 1 .. n /\ p[pos] \in Int /\ p[j] \in Int
      OBVIOUS
    <2>2. Ahead(side, x, p[pos])
      BY <1>1, <2>1
    <2>3. j # pos => Ahead(side, p[pos], p[j])
      BY <1>0, <2>1
    <2>4. QED BY <1>2, <2>1, <2>2, <2>3
  <1>4. SUFFICES ASSUME NEW i \in 1 .. n + 1, NEW j \in 1 .. n + 1, i < j
                 PROVE  Ahead(side, q[i], q[j])
    BY DEF InOrder
  <1>5. CASE j < pos
    BY <1>0, <1>4, <1>5
  <1>6. CASE j = pos
    BY <1>0, <1>4, <1>6
  <1>7. CASE j > pos
    <2>1. q[j] = p[j - 1] /\ j - 1 \in pos .. n /\ j - 1 \in 1 .. n
      BY <1>0, <1>7
    <2>2. CASE i < pos
      <3>1. q[i] = p[i] /\ i \in 1 .. n /\ i < j - 1
        BY <1>0, <2>1, <2>2
      <3>2. QED BY <1>0, <2>1, <3>1
    <2>3. CASE i = pos
      BY <1>0, <1>3, <2>1, <2>3
    <2>4. CASE i > pos
      <3>1. q[i] = p[i - 1] /\ i - 1 \in 1 .. n /\ i - 1 < j - 1
        BY <1>0, <1>4, <2>4
      <3>2. QED BY <1>0, <2>1, <3>1
    <2>5. QED BY <2>2, <2>3, <2>4
  <1>8. QED BY <1>5, <1>6, <1>7

LEMMA SortedRemove ==
    ASSUME NEW side \in Sides, NEW n, NEW pos, NEW p, NEW q, InOrder(side, p, n),
           TakenOut(p, n, pos, q)
    PROVE  InOrder(side, q, n - 1)
  <1>0. /\ n \in Nat /\ pos \in 1 .. n
        /\ \A i, j \in 1 .. n : i < j => Ahead(side, p[i], p[j])
        /\ \A k \in 1 .. n - 1 : q[k] = IF k < pos THEN p[k] ELSE p[k + 1]
    BY DEF TakenOut, InOrder
  <1>1. SUFFICES ASSUME NEW i \in 1 .. n - 1, NEW j \in 1 .. n - 1, i < j
                 PROVE  Ahead(side, q[i], q[j])
    BY DEF InOrder
  <1>2. PICK a \in 1 .. n : q[i] = p[a] /\ a = IF i < pos THEN i ELSE i + 1
    BY <1>0
  <1>3. PICK b \in 1 .. n : q[j] = p[b] /\ b = IF j < pos THEN j ELSE j + 1
    BY <1>0
  <1>4. a < b
    BY <1>0, <1>1, <1>2, <1>3
  <1>5. QED BY <1>0, <1>2, <1>3, <1>4

\* Add opens a level at the order's price.
LEMMA OpenLevel ==
    ASSUME Inv, BookInv, NEW o \in Orders, Add(o), NEW side \in Sides, side = order[o].side,
           NEW pos \in 1 .. levels[side].len + 1, LevelPosition(o, pos),
           pos <= levels[side].len => LevelPrice(Levels(side)[pos]) # order[o].price,
           levels' = [levels EXCEPT ![side] = Insert(levels[side], pos, o)],
           queue' = [queue EXCEPT ![o] = Literal(o)]
    PROVE  BookInv'
  <1>1. /\ order' = order /\ Registered' = Registered \union {o} /\ o \notin Registered
        /\ ~Listed(o) /\ queue[o].len = 0 /\ order[o].price \in Int
        /\ \A l \in Orders : ~In(Queue(l), o)
    BY AddFacts
  <1>2. /\ DOMAIN queue = Orders /\ DOMAIN levels = Sides
        /\ \A s \in Sides : levels[s].len \in Nat /\ DOMAIN Levels(s) = 1 .. levels[s].len
        /\ \A i \in 1 .. levels[side].len : LevelPrice(Levels(side)[i]) \in Int
    BY LevelFacts DEF Inv, TypeOK, BookTypeOK
  <1>3. PICK n \in Nat : n = levels[side].len
    BY <1>2
  <1>4. levels[side] \in Slice(Orders)
    <2>1. levels[side] \in Slice(LevelsOf(side)) /\ LevelsOf(side) \subseteq Orders
      BY LevelFacts DEF Inv, LevelsOf, Placed
    <2>2. QED BY <2>1, SliceMonotone
  <1>5. /\ levels'[side].len = n + 1
        /\ DOMAIN Levels(side)' = 1 .. n + 1
        /\ \A k \in 1 .. n + 1 : Levels(side)'[k] =
             IF k < pos THEN Levels(side)[k] ELSE IF k = pos THEN o ELSE Levels(side)[k - 1]
    <2>1. PICK t : t = Insert(levels[side], pos, o)
      OBVIOUS
    <2>2. /\ t \in Slice(Orders) /\ t.len = n + 1
          /\ \A k \in 1 .. n + 1 : Elems(t)[k] =
               IF k < pos THEN Elems(levels[side])[k]
               ELSE IF k = pos THEN o ELSE Elems(levels[side])[k - 1]
      BY <1>3, <1>4, <2>1, InsertKeeps, InsertContent
    <2>3. Elems(t) \in Seq(Orders) /\ Len(Elems(t)) = n + 1
      BY <2>2, ElemsType
    <2>4. DOMAIN Elems(t) = 1 .. n + 1
      BY <2>3, LenProperties
    <2>5. levels'[side] = t
      BY <1>2, <2>1
    <2>6. QED BY <2>2, <2>4, <2>5 DEF Levels
  <1>6. \A s \in Sides : s # side => levels'[s] = levels[s] /\ Levels(s)' = Levels(s)
    BY <1>2 DEF Levels
  <1>7. queue'[o].len = 1 /\ Queue(o)' = <<o>>
    <2>1. queue'[o] = Literal(o)
      BY <1>2
    <2>2. QED BY <2>1, LiteralContent DEF Queue
  <1>8. \A m \in Orders : m # o => queue'[m] = queue[m] /\ Queue(m)' = Queue(m)
    BY <1>2 DEF Queue
  <1>9. Once(<<o>>) /\ \A x : In(<<o>>, x) <=> x = o
    BY DEF Once, In
  <1>10. Sorted'
    <2>0. PICK x \in Int : x = order[o].price
      BY <1>1
    <2>1. PICK p : p = [i \in 1 .. n |-> LevelPrice(Levels(side)[i])]
      OBVIOUS
    <2>2. PICK q : q = [i \in 1 .. n + 1 |-> LevelPrice(Levels(side)'[i])]
      OBVIOUS
    <2>3. \A i \in 1 .. n : p[i] \in Int
      BY <1>2, <1>3, <2>1
    <2>4. InOrder(side, p, n)
      BY <1>3, <2>1 DEF BookInv, Sorted, InOrder
    <2>5. \A i \in 1 .. pos - 1 : Ahead(side, p[i], x)
      <3>1. \A i \in 1 .. pos - 1 : i \in 1 .. n
        BY <1>3
      <3>2. QED BY <2>0, <2>1, <3>1 DEF LevelPosition
    <2>6. pos <= n => ~Ahead(side, p[pos], x) /\ p[pos] # x
      <3>1. pos <= n => pos \in 1 .. n
        BY <1>3
      <3>2. pos <= n => pos <= Len(Levels(side))
        BY <1>3, <1>4, ElemsType DEF Levels
      <3>3. QED BY <1>3, <2>0, <2>1, <3>1, <3>2 DEF LevelPosition
    <2>7. PutIn(p, n, pos, x, q)
      <3>1. SUFFICES ASSUME NEW k \in 1 .. n + 1
                     PROVE  q[k] = IF k < pos THEN p[k] ELSE IF k = pos THEN x ELSE p[k - 1]
        BY <1>3, <2>1, <2>2 DEF PutIn
      <3>2. /\ k < pos => k \in 1 .. n
            /\ ~(k < pos) /\ k # pos => k - 1 \in 1 .. n
        BY <1>3
      <3>3. QED BY <1>5, <2>0, <2>1, <2>2, <3>2 DEF LevelPrice
    <2>8. InOrder(side, q, n + 1)
      <3>1. pos \in 1 .. n + 1
        BY <1>3
      <3>2. QED BY <2>3, <2>4, <2>5, <2>6, <2>7, <3>1, SortedInsert
    <2>9. \A i, j \in 1 .. levels'[side].len :
             i < j => Ahead(side, LevelPrice(Levels(side)'[i]), LevelPrice(Levels(side)'[j]))
      BY <1>5, <2>2, <2>8 DEF InOrder
    <2>10. QED BY <1>1, <1>6, <2>9 DEF BookInv, Sorted, LevelPrice
  <1>11. \A m \in Orders : Listed(m)' <=> Listed(m) \/ m = o
    <2>1. PICK s, t : s = Levels(side) /\ t = Levels(side)'
      OBVIOUS
    <2>2. PutIn(s, n, pos, o, t)
      BY <1>2, <1>3, <1>5, <2>1 DEF PutIn
    <2>3. \A x : In(t, x) <=> In(s, x) \/ x = o
      BY <2>2, SeqInserted
    <2>4. SUFFICES ASSUME NEW m \in Orders PROVE Listed(m)' <=> Listed(m) \/ m = o
      OBVIOUS
    <2>5. PICK d \in Sides : d = order[m].side
      BY DEF Inv, TypeOK, OrdersTypeOK
    <2>6. (Listed(m)' <=> In(Levels(d)', m)) /\ (Listed(m) <=> In(Levels(d), m))
      BY <1>1, <2>5 DEF Listed, In, Levels
    <2>7. CASE d = side
      <3>1. In(Levels(side)', m) <=> In(t, m)
        BY <2>1
      <3>2. QED BY <2>1, <2>3, <2>6, <2>7, <3>1
    <2>8. CASE d # side
      <3>1. In(Levels(d)', m) <=> In(Levels(d), m)
        BY <1>6, <2>8
      <3>2. m # o
        BY <2>5, <2>8
      <3>3. QED BY <2>6, <3>1, <3>2
    <2>9. QED BY <2>7, <2>8
  <1>12. \A m \in Orders : queue'[m].len > 0 <=> Listed(m)'
    BY <1>7, <1>8, <1>11 DEF BookInv
  <1>13. \A m \in Orders : Once(Queue(m)')
    BY <1>7, <1>8, <1>9 DEF BookInv
  <1>14. \A m, x \in Orders : In(Queue(m)', x) => x \in Registered'
    BY <1>1, <1>7, <1>8, <1>9 DEF BookInv
  <1>15. \A x \in Registered' : \E m \in Orders : In(Queue(m)', x)
    <2>1. SUFFICES ASSUME NEW x \in Registered' PROVE \E m \in Orders : In(Queue(m)', x)
      OBVIOUS
    <2>2. CASE x = o
      BY <1>7, <1>9, <2>2
    <2>3. CASE x # o
      <3>1. PICK m \in Orders : In(Queue(m), x)
        BY <1>1, <2>3 DEF BookInv
      <3>2. m # o
        <4>1. ~(queue[o].len > 0)
          BY <1>1
        <4>2. QED BY <3>1, <4>1, InQueue DEF Inv
      <3>3. QED BY <1>8, <3>1, <3>2
    <2>4. QED BY <2>2, <2>3
  <1>16. QED BY <1>10, <1>12, <1>13, <1>14, <1>15 DEF BookInv, Once, In

\* A slice without its element j shows the others.
LEMMA DeleteTakesOut ==
    ASSUME NEW T, NEW s \in Slice(T), NEW j \in 1 .. s.len
    PROVE  Delete(s, j).len = s.len - 1 /\ TakenOut(Elems(s), s.len, j, Elems(Delete(s, j)))
  <1>1. PICK t : t = Delete(s, j)
    OBVIOUS
  <1>2. /\ s.len \in Nat /\ t \in Slice(T) /\ t.len = s.len - 1
        /\ \A k \in 1 .. s.len - 1 :
             Elems(t)[k] = IF k < j THEN Elems(s)[k] ELSE Elems(s)[k + 1]
    BY <1>1, DeleteKeeps, DeleteContent DEF Slice
  <1>3. /\ Elems(t) \in Seq(T) /\ Len(Elems(t)) = t.len
        /\ Elems(s) \in Seq(T) /\ Len(Elems(s)) = s.len
    BY <1>2, ElemsType
  <1>4. DOMAIN Elems(t) = 1 .. s.len - 1 /\ DOMAIN Elems(s) = 1 .. s.len
    BY <1>2, <1>3, LenProperties
  <1>5. QED BY <1>1, <1>2, <1>4 DEF TakenOut

\* The one level and the one place that removeFromLevels finds.
LEMMA CancelFacts ==
    ASSUME Inv, BookInv, NEW o \in Orders, Cancel(o)
    PROVE  /\ order' = order /\ Registered' = Registered \ {o} /\ o \in Registered
           /\ \E side, i, l, j :
                /\ side \in Sides /\ i \in 1 .. levels[side].len
                /\ l \in Orders /\ j \in 1 .. queue[l].len
                /\ side = order[o].side /\ l = Levels(side)[i] /\ Queue(l)[j] = o
                /\ queue' = [queue EXCEPT ![l] = Delete(queue[l], j)]
                /\ total' = [total EXCEPT ![l] = total[l] - Remaining(o)]
                /\ levels' = IF queue[l].len = 1
                             THEN [levels EXCEPT ![side] = Delete(levels[side], i)]
                             ELSE levels
                /\ \A m \in Orders : In(Queue(m), o) => m = l
  <1>1. order' = order /\ caller' = [caller EXCEPT ![o] = "unlinked"] /\ o \in Registered
    BY DEF Cancel
  <1>2. Registered' = Registered \ {o}
    BY <1>1 DEF Registered, Inv, TypeOK, OrdersTypeOK
  <1>3. PICK side \in Sides : side = order[o].side
    BY DEF Inv, TypeOK, OrdersTypeOK
  <1>4. /\ levels[side].len \in Nat /\ DOMAIN Levels(side) = 1 .. levels[side].len
        /\ \A i \in 1 .. levels[side].len : Levels(side)[i] \in Orders
    BY LevelFacts DEF Inv
  <1>5. PICK i \in 1 .. levels[side].len :
          /\ \E j \in DOMAIN Queue(Levels(side)[i]) :
               /\ Queue(Levels(side)[i])[j] = o
               /\ queue' = [queue EXCEPT ![Levels(side)[i]] = Delete(@, j)]
          /\ total' = [total EXCEPT ![Levels(side)[i]] = @ - Remaining(o)]
          /\ levels' = IF queue[Levels(side)[i]].len = 1
                       THEN [levels EXCEPT ![side] = Delete(@, i)] ELSE levels
    BY <1>3, <1>4 DEF Cancel, RemoveFromLevels
  <1>6. PICK l \in Orders : l = Levels(side)[i]
    BY <1>4
  <1>7. DOMAIN Queue(l) = 1 .. queue[l].len /\ DOMAIN queue = Orders /\ DOMAIN levels = Sides
        /\ DOMAIN total = Orders
    BY QueueType DEF Inv, TypeOK, BookTypeOK
  <1>8. PICK j \in 1 .. queue[l].len :
          Queue(l)[j] = o /\ queue' = [queue EXCEPT ![l] = Delete(@, j)]
    BY <1>5, <1>6, <1>7
  <1>9. /\ queue' = [queue EXCEPT ![l] = Delete(queue[l], j)]
        /\ total' = [total EXCEPT ![l] = total[l] - Remaining(o)]
        /\ levels' = IF queue[l].len = 1
                     THEN [levels EXCEPT ![side] = Delete(levels[side], i)] ELSE levels
    BY <1>5, <1>6, <1>7, <1>8
  <1>10. ASSUME NEW m \in Orders, In(Queue(m), o) PROVE m = l
    <2>1. order[m].side = side /\ order[m].price = order[o].price /\ queue[m].len > 0
      BY <1>3, <1>10, InQueue DEF Inv
    <2>2. In(Queue(l), o)
      BY <1>7, <1>8 DEF In
    <2>3. order[l].price = order[o].price
      BY <2>2, InQueue DEF Inv
    <2>4. PICK n \in 1 .. levels[side].len : Levels(side)[n] = m
      BY <1>4, <2>1 DEF BookInv, Listed, In
    <2>5. LevelPrice(Levels(side)[i]) = LevelPrice(Levels(side)[n])
      BY <1>6, <2>1, <2>3, <2>4 DEF LevelPrice
    <2>6. i = n
      BY <2>5, OneLevelPerPrice DEF Inv, BookInv
    <2>7. QED BY <1>6, <2>4, <2>6
  <1>11. /\ side \in Sides /\ i \in 1 .. levels[side].len
         /\ l \in Orders /\ j \in 1 .. queue[l].len
         /\ side = order[o].side /\ l = Levels(side)[i] /\ Queue(l)[j] = o
         /\ queue' = [queue EXCEPT ![l] = Delete(queue[l], j)]
         /\ total' = [total EXCEPT ![l] = total[l] - Remaining(o)]
         /\ levels' = IF queue[l].len = 1
                      THEN [levels EXCEPT ![side] = Delete(levels[side], i)]
                      ELSE levels
         /\ \A m \in Orders : In(Queue(m), o) => m = l
    BY <1>3, <1>6, <1>8, <1>9, <1>10
  <1>12. QED BY <1>1, <1>2, <1>11, Zenon

\* Cancel takes the order out of its level, and the level out of its side when that
\* was its only order.
LEMMA UnlinkOrder ==
    ASSUME Inv, BookInv, NEW o \in Orders, Cancel(o)
    PROVE  BookInv'
  <1>1. order' = order /\ Registered' = Registered \ {o} /\ o \in Registered
    BY CancelFacts
  <1>2. PICK side, i, l, j :
          /\ side \in Sides /\ i \in 1 .. levels[side].len
          /\ l \in Orders /\ j \in 1 .. queue[l].len
          /\ side = order[o].side /\ l = Levels(side)[i] /\ Queue(l)[j] = o
          /\ queue' = [queue EXCEPT ![l] = Delete(queue[l], j)]
          /\ levels' = IF queue[l].len = 1
                       THEN [levels EXCEPT ![side] = Delete(levels[side], i)] ELSE levels
          /\ \A m \in Orders : In(Queue(m), o) => m = l
    BY CancelFacts
  <1>3. /\ DOMAIN queue = Orders /\ DOMAIN levels = Sides /\ queue[l].len \in Nat
        /\ levels[side].len \in Nat /\ DOMAIN Levels(side) = 1 .. levels[side].len
        /\ queue[l] \in Slice(MatesOf(l)) /\ levels[side] \in Slice(LevelsOf(side))
        /\ order[l].side = side
    BY <1>2, QueueType, LevelFacts DEF Inv, TypeOK, BookTypeOK
  <1>4. queue'[l].len = queue[l].len - 1
        /\ Once(Queue(l)') /\ \A x : In(Queue(l)', x) <=> In(Queue(l), x) /\ x # o
    <2>1. PICK t : t = Delete(queue[l], j)
      OBVIOUS
    <2>2. t.len = queue[l].len - 1 /\ TakenOut(Elems(queue[l]), queue[l].len, j, Elems(t))
      BY <1>2, <1>3, <2>1, DeleteTakesOut
    <2>3. Once(Elems(queue[l])) /\ Elems(queue[l])[j] = o
      BY <1>2 DEF BookInv, Queue
    <2>4. Once(Elems(t)) /\ \A x : In(Elems(t), x) <=> In(Elems(queue[l]), x) /\ x # o
      BY <2>2, <2>3, SeqRemoved
    <2>5. queue'[l] = t
      BY <1>2, <1>3, <2>1
    <2>6. Queue(l)' = Elems(t) /\ Queue(l) = Elems(queue[l])
      BY <2>5 DEF Queue
    <2>7. QED BY <2>2, <2>4, <2>5, <2>6
  <1>5. \A m \in Orders : m # l => queue'[m] = queue[m] /\ Queue(m)' = Queue(m)
    BY <1>2, <1>3 DEF Queue
  <1>6. Sorted' /\ \A m \in Orders : Listed(m)' <=> Listed(m) /\ ~(m = l /\ queue[l].len = 1)
    <2>1. CASE queue[l].len # 1
      BY <1>1, <1>2, <2>1 DEF BookInv, Sorted, Levels, LevelPrice, Listed
    <2>2. CASE queue[l].len = 1
      <3>1. PICK n \in Nat : n = levels[side].len
        BY <1>3
      <3>2. PICK s, t : s = Levels(side) /\ t = Levels(side)'
        OBVIOUS
      <3>3. levels'[side].len = n - 1 /\ TakenOut(s, n, i, t)
        <4>1. levels'[side] = Delete(levels[side], i)
          BY <1>2, <1>3, <2>2
        <4>2. /\ Delete(levels[side], i).len = levels[side].len - 1
              /\ TakenOut(Elems(levels[side]), levels[side].len, i,
                          Elems(Delete(levels[side], i)))
          BY <1>2, <1>3, DeleteTakesOut
        <4>3. s = Elems(levels[side]) /\ t = Elems(Delete(levels[side], i))
          BY <3>2, <4>1 DEF Levels
        <4>4. QED BY <3>1, <4>1, <4>2, <4>3
      <3>4. \A d \in Sides : d # side => levels'[d] = levels[d] /\ Levels(d)' = Levels(d)
        BY <1>2, <1>3, <2>2 DEF Levels
      <3>5. Sorted'
        <4>1. PICK p : p = [k \in 1 .. n |-> LevelPrice(s[k])]
          OBVIOUS
        <4>2. PICK q : q = [k \in 1 .. n - 1 |-> LevelPrice(t[k])]
          OBVIOUS
        <4>3. InOrder(side, p, n)
          BY <1>2, <3>1, <3>2, <4>1 DEF BookInv, Sorted, InOrder
        <4>4. TakenOut(p, n, i, q)
          <5>1. SUFFICES ASSUME NEW k \in 1 .. n - 1
                         PROVE  q[k] = IF k < i THEN p[k] ELSE p[k + 1]
            BY <1>2, <3>1, <4>1, <4>2 DEF TakenOut
          <5>2. t[k] = IF k < i THEN s[k] ELSE s[k + 1]
            BY <3>3 DEF TakenOut
          <5>3. (k < i => k \in 1 .. n) /\ k + 1 \in 1 .. n
            BY <1>2, <3>1
          <5>4. QED BY <4>1, <4>2, <5>2, <5>3
        <4>5. InOrder(side, q, n - 1)
          BY <1>2, <4>3, <4>4, SortedRemove
        <4>6. \A a, b \in 1 .. levels'[side].len :
                 a < b => Ahead(side, LevelPrice(Levels(side)'[a]), LevelPrice(Levels(side)'[b]))
          BY <3>2, <3>3, <4>2, <4>5 DEF InOrder
        <4>7. QED BY <1>1, <3>4, <4>6 DEF BookInv, Sorted, LevelPrice
      <3>6. Once(s)
        <4>1. ASSUME NEW a \in DOMAIN s, NEW b \in DOMAIN s, s[a] = s[b] PROVE a = b
          <5>1. a \in 1 .. levels[side].len /\ b \in 1 .. levels[side].len
            BY <1>3, <3>2
          <5>2. LevelPrice(Levels(side)[a]) = LevelPrice(Levels(side)[b])
            BY <3>2, <4>1
          <5>3. QED BY <1>2, <5>1, <5>2, OneLevelPerPrice DEF Inv, BookInv
        <4>2. QED BY <4>1 DEF Once
      <3>7. \A x : In(t, x) <=> In(s, x) /\ x # l
        <4>1. s[i] = l
          BY <1>2, <3>2
        <4>2. QED BY <3>3, <3>6, <4>1, SeqRemoved
      <3>8. ASSUME NEW m \in Orders PROVE Listed(m)' <=> Listed(m) /\ m # l
        <4>1. PICK d \in Sides : d = order[m].side
          BY DEF Inv, TypeOK, OrdersTypeOK
        <4>2. (Listed(m)' <=> In(Levels(d)', m)) /\ (Listed(m) <=> In(Levels(d), m))
          BY <1>1, <4>1 DEF Listed, In, Levels
        <4>3. CASE d = side
          <5>1. In(Levels(side)', m) <=> In(t, m)
            BY <3>2
          <5>2. QED BY <3>2, <3>7, <4>2, <4>3, <5>1
        <4>4. CASE d # side
          <5>1. In(Levels(d)', m) <=> In(Levels(d), m)
            BY <3>4, <4>4
          <5>2. m # l
            BY <1>3, <4>1, <4>4
          <5>3. QED BY <4>2, <5>1, <5>2
        <4>5. QED BY <4>3, <4>4
      <3>9. QED BY <2>2, <3>5, <3>8
    <2>3. QED BY <2>1, <2>2
  <1>7. \A m \in Orders : queue'[m].len > 0 <=> Listed(m)'
    <2>1. SUFFICES ASSUME NEW m \in Orders PROVE queue'[m].len > 0 <=> Listed(m)'
      OBVIOUS
    <2>2. CASE m = l
      <3>1. queue[l].len > 0 /\ Listed(l)
        BY <1>2, <1>3 DEF BookInv
      <3>2. QED BY <1>2, <1>3, <1>4, <1>6, <2>2, <3>1, SMTT(30)
    <2>3. CASE m # l
      BY <1>5, <1>6, <2>3 DEF BookInv
    <2>4. QED BY <2>2, <2>3
  <1>8. \A m \in Orders : Once(Queue(m)')
    BY <1>2, <1>4, <1>5 DEF BookInv
  <1>9. \A m, x \in Orders : In(Queue(m)', x) => x \in Registered'
    <2>1. SUFFICES ASSUME NEW m \in Orders, NEW x \in Orders, In(Queue(m)', x)
                   PROVE  x \in Registered /\ x # o
      BY <1>1
    <2>2. CASE m = l
      BY <1>4, <2>1, <2>2 DEF BookInv
    <2>3. CASE m # l
      <3>1. In(Queue(m), x)
        BY <1>5, <2>1, <2>3
      <3>2. QED BY <1>2, <2>3, <3>1 DEF BookInv
    <2>4. QED BY <2>2, <2>3
  <1>10. \A x \in Registered' : \E m \in Orders : In(Queue(m)', x)
    <2>1. SUFFICES ASSUME NEW x \in Registered, x # o PROVE \E m \in Orders : In(Queue(m)', x)
      BY <1>1
    <2>2. PICK m \in Orders : In(Queue(m), x)
      BY <2>1 DEF BookInv
    <2>3. QED BY <1>2, <1>4, <1>5, <2>1, <2>2
  <1>11. QED BY <1>6, <1>7, <1>8, <1>9, <1>10 DEF BookInv, Once, In

LEMMA BookInvStep ==
    ASSUME Inv, BookInv, [Next]_vars
    PROVE  BookInv'
  <1>1. ASSUME order' = order, levels' = levels, queue' = queue, Registered' = Registered
        PROVE  BookInv'
    BY <1>1 DEF BookInv, Sorted, Listed, Levels, Queue, LevelPrice, In, Once
  <1>2. CASE UNCHANGED vars
    BY <1>1, <1>2 DEF vars, Registered
  <1>3. ASSUME NEW o \in Orders, AddDuplicate(o) \/ CancelRefused(o) PROVE BookInv'
    BY <1>2, <1>3 DEF AddDuplicate, CancelRefused
  <1>4. ASSUME NEW o \in Orders, AddSend(o) \/ CancelMark(o) \/ CancelSend(o) PROVE BookInv'
    <2>1. order' = order /\ levels' = levels /\ queue' = queue
      BY <1>4 DEF AddSend, CancelMark, CancelSend, bookVars
    <2>2. Registered' = Registered
      BY <1>4 DEF AddSend, CancelMark, CancelSend, Registered, Inv, TypeOK, OrdersTypeOK
    <2>3. QED BY <1>1, <2>1, <2>2
  <1>5. ASSUME Engine \/ Forward PROVE BookInv'
    <2>1. order' = order /\ levels' = levels /\ queue' = queue /\ caller' = caller
      BY <1>5 DEF Engine, Forward, EngReceive, EngFetch, EngTakeLevel, EngEnterLevel, EngFinish,
                  EngTakeOrder, EngCheck, EngTrade, EngFillResting, bookVars
    <2>2. Registered' = Registered
      BY <2>1 DEF Registered
    <2>3. QED BY <1>1, <2>1, <2>2
  <1>6. ASSUME NEW o \in Orders, Add(o) PROVE BookInv'
    <2>1. PICK side \in Sides : side = order[o].side
      BY DEF Inv, TypeOK, OrdersTypeOK
    <2>2. /\ levels[side].len \in Nat /\ DOMAIN queue = Orders /\ DOMAIN levels = Sides
          /\ \A i \in 1 .. levels[side].len :
               /\ Levels(side)[i] \in Orders /\ order[Levels(side)[i]].side = side
               /\ Listed(Levels(side)[i])
      BY LevelFacts DEF Inv, TypeOK, BookTypeOK
    <2>3. PICK pos \in 1 .. levels[side].len + 1 :
            /\ LevelPosition(o, pos)
            /\ IF pos <= levels[side].len /\ LevelPrice(Levels(side)[pos]) = order[o].price
               THEN /\ queue' = [queue EXCEPT ![Levels(side)[pos]] = AppendTo(@, o)]
                    /\ UNCHANGED levels
               ELSE /\ levels' = [levels EXCEPT ![side] = Insert(@, pos, o)]
                    /\ queue' = [queue EXCEPT ![o] = Literal(o)]
      BY <1>6, <2>1 DEF Add, AddToLevels
    <2>4. CASE pos <= levels[side].len /\ LevelPrice(Levels(side)[pos]) = order[o].price
      <3>1. pos \in 1 .. levels[side].len
        BY <2>2, <2>4
      <3>2. PICK l \in Orders : l = Levels(side)[pos]
        BY <2>2, <3>1
      <3>3. queue[l].len > 0 /\ o \in MatesOf(l)
        BY <2>1, <2>2, <2>4, <3>1, <3>2 DEF BookInv, MatesOf, LevelPrice
      <3>4. queue' = [queue EXCEPT ![l] = AppendTo(queue[l], o)] /\ levels' = levels
        BY <2>2, <2>3, <2>4, <3>2
      <3>5. QED BY <1>6, <3>3, <3>4, JoinLevel
    <2>5. CASE ~(pos <= levels[side].len /\ LevelPrice(Levels(side)[pos]) = order[o].price)
      <3>1. /\ levels' = [levels EXCEPT ![side] = Insert(levels[side], pos, o)]
            /\ queue' = [queue EXCEPT ![o] = Literal(o)]
        BY <2>2, <2>3, <2>5
      <3>2. pos <= levels[side].len => LevelPrice(Levels(side)[pos]) # order[o].price
        BY <2>5
      <3>3. QED BY <1>6, <2>1, <2>3, <3>1, <3>2, OpenLevel
    <2>6. QED BY <2>4, <2>5
  <1>7. QED BY <1>2, <1>3, <1>4, <1>5, <1>6, UnlinkOrder DEF Next, Return

LEMMA BookInvInit == Init => BookInv
  <1>1. SUFFICES ASSUME Init PROVE BookInv
    OBVIOUS
  <1>2. Registered = {} /\ order \in [Orders -> OrderTerms]
    BY <1>1 DEF Init, Registered
  <1>3. \A s : s.len = 0 /\ s \in Slice(Orders) => DOMAIN Elems(s) = {}
    BY ElemsType, LenProperties
  <1>4. \A c \in Nat : Make(c).len = 0 /\ Make(c) \in Slice(Orders)
    BY FreshSlices DEF Make
  <1>5. \A side \in Sides : levels[side].len = 0 /\ DOMAIN Levels(side) = {}
    BY <1>1, <1>3, <1>4 DEF Init, Levels
  <1>6. \A l \in Orders : queue[l].len = 0 /\ DOMAIN Queue(l) = {}
    BY <1>1, <1>3, <1>4 DEF Init, Queue
  <1>7. \A l \in Orders : ~Listed(l)
    BY <1>2, <1>5 DEF Listed, In
  <1>8. Sorted
    BY <1>5 DEF Sorted
  <1>9. QED BY <1>2, <1>6, <1>7, <1>8 DEF BookInv, In, Once

\* The book stays well formed whatever Add and Cancel do, in any interleaving with the
\* engine: its sides hold exactly the registered orders, each once and at its price, in
\* levels that are not empty and run strictly from the best price outwards (addToBids,
\* addToAsks, removeFromLevels).
THEOREM BookStaysWellFormed == Spec => []BookWellFormed
  <1>1. Inv /\ BookInv /\ [Next]_vars => BookInv'
    BY BookInvStep
  <1>2. Inv /\ BookInv => BookWellFormed
    BY BookInvShows DEF Inv
  <1>3. QED BY <1>1, <1>2, BookInvInit, Invariance, PTL DEF Spec

-----------------------------------------------------------------------------
(* What a level shows *)

\* DepthCoversOrders, for every level that has orders.
Wanted == [o \in Orders |-> Remaining(o)]

DepthInv ==
    \A l \in Orders :
        queue[l].len > 0 => total[l] >= SumFunctionOnSet(Wanted, Range(Queue(l)))

\* The orders of a level: a finite set of orders, and so what they want is a number.
LEMMA RangeFacts ==
    ASSUME TypeOK, NEW l \in Orders
    PROVE  /\ IsFiniteSet(Range(Queue(l))) /\ Range(Queue(l)) \subseteq Orders
           /\ IsIntOn(Wanted, Orders) /\ IsIntOn(Wanted, Range(Queue(l)))
           /\ SumFunctionOnSet(Wanted, Range(Queue(l))) \in Int
           /\ total[l] \in Int
  <1>1. PICK s : s = Queue(l)
    OBVIOUS
  <1>2. PICK n \in Nat : n = queue[l].len
    BY QueueType
  <1>3. s \in Seq(MatesOf(l)) /\ Len(s) = n /\ MatesOf(l) \subseteq Orders
    BY <1>1, <1>2, QueueType DEF MatesOf
  <1>4. DOMAIN s = 1 .. n /\ s \in [1 .. n -> MatesOf(l)]
    BY <1>3, LenProperties
  <1>5. Range(s) \subseteq Orders
    BY <1>3, <1>4 DEF Range
  <1>6. IsFiniteSet(1 .. n)
    BY FS_Interval
  <1>7. s \in Surjection(1 .. n, Range(s))
    BY <1>4 DEF Surjection, Range
  <1>8. IsFiniteSet(Range(s))
    BY <1>6, <1>7, FS_Surjection
  <1>9. IsIntOn(Wanted, Orders) /\ IsIntOn(Wanted, Range(s))
    <2>1. \A o \in Orders : Wanted[o] \in Int
      BY DEF Wanted, Remaining, TypeOK, OrdersTypeOK
    <2>2. QED BY <1>5, <2>1 DEF IsIntOn
  <1>10. PICK w : w = Wanted
    OBVIOUS
  <1>11. SumFunctionOnSet(w, Range(s)) \in Int
    BY <1>8, <1>9, <1>10, SumIsInt
  <1>12. total[l] \in Int
    BY DEF TypeOK, BookTypeOK
  <1>13. QED BY <1>1, <1>5, <1>8, <1>9, <1>10, <1>11, <1>12

\* Fills only lower what the orders of a level still want.
LEMMA FillsKeepDepth ==
    ASSUME Inv, DepthInv, order' = order, queue' = queue, total' = total,
           filled' \in [Orders -> Nat], \A o \in Orders : filled'[o] >= filled[o]
    PROVE  DepthInv'
  <1>1. SUFFICES ASSUME NEW l \in Orders, queue[l].len > 0
                 PROVE  total[l] >= SumFunctionOnSet(Wanted', Range(Queue(l)))
    BY DEF DepthInv, Queue
  <1>2. PICK f, g, S : f = Wanted' /\ g = Wanted /\ S = Range(Queue(l))
    OBVIOUS
  <1>3. /\ IsFiniteSet(S) /\ S \subseteq Orders /\ IsIntOn(g, S) /\ total[l] \in Int
        /\ SumFunctionOnSet(g, S) \in Int
    BY <1>2, RangeFacts DEF Inv
  <1>4. \A o \in Orders : f[o] \in Int /\ f[o] <= g[o]
    <2>1. SUFFICES ASSUME NEW o \in Orders PROVE f[o] \in Int /\ f[o] <= g[o]
      OBVIOUS
    <2>2. order[o].qty \in Nat /\ filled[o] \in Nat /\ filled'[o] \in Nat
      BY DEF Inv, TypeOK, OrdersTypeOK
    <2>3. f[o] = order[o].qty - filled'[o] /\ g[o] = order[o].qty - filled[o]
      BY <1>2 DEF Wanted, Remaining
    <2>4. QED BY <2>2, <2>3
  <1>5. IsIntOn(f, S)
    BY <1>3, <1>4 DEF IsIntOn
  <1>6. SumFunctionOnSet(f, S) <= SumFunctionOnSet(g, S) /\ SumFunctionOnSet(f, S) \in Int
    BY <1>3, <1>4, <1>5, SumLeq, SumIsInt
  <1>7. total[l] >= SumFunctionOnSet(g, S)
    BY <1>1, <1>2 DEF DepthInv
  <1>8. QED BY <1>2, <1>3, <1>6, <1>7

\* Add adds to its level's total what the order wants.
LEMMA AddKeepsDepth ==
    ASSUME Inv, BookInv, DepthInv, NEW o \in Orders, Add(o)
    PROVE  DepthInv'
  <1>1. /\ order' = order /\ filled' = filled /\ queue[o].len = 0
        /\ \A m \in Orders : ~In(Queue(m), o)
    BY AddFacts DEF Add
  <1>2. PICK w : w = Wanted
    OBVIOUS
  <1>3. Wanted' = w /\ w[o] = Remaining(o) /\ w[o] \in Int
    <2>1. w[o] \in Int
      BY <1>2 DEF Wanted, Remaining, Inv, TypeOK, OrdersTypeOK
    <2>2. QED BY <1>1, <1>2, <2>1 DEF Wanted, Remaining
  <1>4. PICK side \in Sides : side = order[o].side
    BY DEF Inv, TypeOK, OrdersTypeOK
  <1>5. /\ levels[side].len \in Nat /\ DOMAIN queue = Orders /\ DOMAIN total = Orders
        /\ \A i \in 1 .. levels[side].len :
             /\ Levels(side)[i] \in Orders /\ order[Levels(side)[i]].side = side
             /\ Listed(Levels(side)[i])
    BY LevelFacts DEF Inv, TypeOK, BookTypeOK
  <1>6. PICK pos \in 1 .. levels[side].len + 1 :
          IF pos <= levels[side].len /\ LevelPrice(Levels(side)[pos]) = order[o].price
          THEN /\ queue' = [queue EXCEPT ![Levels(side)[pos]] = AppendTo(@, o)]
               /\ total' = [total EXCEPT ![Levels(side)[pos]] = @ + Remaining(o)]
          ELSE /\ queue' = [queue EXCEPT ![o] = Literal(o)]
               /\ total' = [total EXCEPT ![o] = Remaining(o)]
    BY <1>4 DEF Add, AddToLevels
  <1>7. ASSUME NEW m \in Orders, queue'[m] = queue[m], total'[m] = total[m]
        PROVE  queue'[m].len > 0 => total'[m] >= SumFunctionOnSet(w, Range(Queue(m)'))
    BY <1>2, <1>7 DEF DepthInv, Queue
  <1>8. ASSUME pos <= levels[side].len, LevelPrice(Levels(side)[pos]) = order[o].price,
               NEW m \in Orders
        PROVE  queue'[m].len > 0 => total'[m] >= SumFunctionOnSet(w, Range(Queue(m)'))
    <2>1. pos \in 1 .. levels[side].len
      BY <1>5, <1>8
    <2>2. PICK l \in Orders : l = Levels(side)[pos]
      BY <1>5, <2>1
    <2>3. queue[l].len > 0 /\ o \in MatesOf(l)
      BY <1>4, <1>5, <1>8, <2>1, <2>2 DEF BookInv, MatesOf, LevelPrice
    <2>4. /\ queue' = [queue EXCEPT ![l] = AppendTo(queue[l], o)]
          /\ total' = [total EXCEPT ![l] = total[l] + Remaining(o)]
      BY <1>5, <1>6, <1>8, <2>2
    <2>5. CASE m # l
      BY <1>5, <1>7, <2>4, <2>5
    <2>6. CASE m = l
      <3>1. PICK S : S = Range(Queue(l))
        OBVIOUS
      <3>2. Queue(l) \in Seq(MatesOf(l)) /\ queue[l] \in Slice(MatesOf(l))
        BY QueueType DEF Inv
      <3>3. Queue(l)' = Append(Queue(l), o)
        <4>1. queue'[l] = AppendTo(queue[l], o)
          BY <1>5, <2>4
        <4>2. Elems(AppendTo(queue[l], o)) = Append(Elems(queue[l]), o)
          BY <2>3, <3>2, AppendContent
        <4>3. QED BY <4>1, <4>2 DEF Queue
      <3>4. \A x : In(Append(Queue(l), o), x) <=> In(Queue(l), x) \/ x = o
        BY <1>1, <2>3, <3>2, Added
      <3>5. Range(Queue(l)') = S \union {o}
        BY <3>1, <3>3, <3>4, InRange
      <3>6. o \notin S
        BY <1>1, <3>1, InRange
      <3>7. /\ IsFiniteSet(S) /\ IsIntOn(w, Orders) /\ S \subseteq Orders
            /\ SumFunctionOnSet(w, S) \in Int /\ total[l] \in Int
        BY <1>2, <3>1, RangeFacts DEF Inv
      <3>8. IsIntOn(w, S \union {o})
        BY <3>7 DEF IsIntOn
      <3>9. SumFunctionOnSet(w, S \union {o}) = w[o] + SumFunctionOnSet(w, S)
        BY <3>6, <3>7, <3>8, SumAdd
      <3>10. total[l] >= SumFunctionOnSet(w, S) /\ total'[l] = total[l] + w[o]
        BY <1>2, <1>3, <1>5, <2>3, <2>4, <3>1 DEF DepthInv
      <3>11. total'[l] >= SumFunctionOnSet(w, S \union {o})
        BY <1>3, <3>7, <3>9, <3>10
      <3>12. QED BY <2>6, <3>5, <3>11
    <2>7. QED BY <2>5, <2>6
  <1>9. ASSUME ~(pos <= levels[side].len /\ LevelPrice(Levels(side)[pos]) = order[o].price),
               NEW m \in Orders
        PROVE  queue'[m].len > 0 => total'[m] >= SumFunctionOnSet(w, Range(Queue(m)'))
    <2>1. /\ queue' = [queue EXCEPT ![o] = Literal(o)]
          /\ total' = [total EXCEPT ![o] = Remaining(o)]
      BY <1>6, <1>9
    <2>2. CASE m # o
      BY <1>5, <1>7, <2>1, <2>2
    <2>3. CASE m = o
      <3>1. queue'[o] = Literal(o) /\ total'[o] = w[o]
        BY <1>3, <1>5, <2>1
      <3>2. Queue(o)' = <<o>>
        BY <3>1, LiteralContent DEF Queue
      <3>3. Range(<<o>>) = {} \union {o}
        BY DEF Range
      <3>4. IsFiniteSet({}) /\ IsIntOn(w, {} \union {o}) /\ o \notin {}
        BY <1>3, FS_EmptySet DEF IsIntOn
      <3>5. SumFunctionOnSet(w, {} \union {o}) = w[o] + SumFunctionOnSet(w, {})
        BY <3>4, SumAdd
      <3>6. SumFunctionOnSet(w, {} \union {o}) = w[o]
        BY <1>3, <3>5, SumEmpty
      <3>7. Range(Queue(o)') = {} \union {o}
        BY <3>2, <3>3
      <3>8. total'[o] >= SumFunctionOnSet(w, Range(Queue(o)'))
        BY <1>3, <3>1, <3>6, <3>7
      <3>9. QED BY <2>3, <3>8
    <2>4. QED BY <2>2, <2>3
  <1>10. \A m \in Orders :
            queue'[m].len > 0 => total'[m] >= SumFunctionOnSet(w, Range(Queue(m)'))
    BY <1>8, <1>9
  <1>11. QED BY <1>3, <1>10 DEF DepthInv

\* Cancel takes off what is left of the order at that moment.
LEMMA CancelKeepsDepth ==
    ASSUME Inv, BookInv, DepthInv, NEW o \in Orders, Cancel(o)
    PROVE  DepthInv'
  <1>1. order' = order /\ filled' = filled
    BY DEF Cancel, orderVars
  <1>2. PICK side, i, l, j :
          /\ side \in Sides /\ i \in 1 .. levels[side].len
          /\ l \in Orders /\ j \in 1 .. queue[l].len
          /\ side = order[o].side /\ l = Levels(side)[i] /\ Queue(l)[j] = o
          /\ queue' = [queue EXCEPT ![l] = Delete(queue[l], j)]
          /\ total' = [total EXCEPT ![l] = total[l] - Remaining(o)]
    BY CancelFacts
  <1>3. DOMAIN queue = Orders /\ DOMAIN total = Orders /\ queue[l].len \in Nat
        /\ queue[l] \in Slice(MatesOf(l)) /\ DOMAIN Queue(l) = 1 .. queue[l].len
    BY <1>2, QueueType DEF Inv, TypeOK, BookTypeOK
  <1>4. PICK w : w = Wanted
    OBVIOUS
  <1>5. Wanted' = w /\ w[o] = Remaining(o) /\ w[o] \in Int
    <2>1. w[o] \in Int
      BY <1>4 DEF Wanted, Remaining, Inv, TypeOK, OrdersTypeOK
    <2>2. QED BY <1>1, <1>4, <2>1 DEF Wanted, Remaining
  <1>6. ASSUME NEW m \in Orders, m # l
        PROVE  queue'[m].len > 0 => total'[m] >= SumFunctionOnSet(w, Range(Queue(m)'))
    <2>1. queue'[m] = queue[m] /\ total'[m] = total[m]
      BY <1>2, <1>3, <1>6
    <2>2. QED BY <1>4, <2>1 DEF DepthInv, Queue
  <1>7. total'[l] >= SumFunctionOnSet(w, Range(Queue(l)'))
    <2>1. PICK S : S = Range(Queue(l))
      OBVIOUS
    <2>2. \A x : In(Queue(l)', x) <=> In(Queue(l), x) /\ x # o
      <3>1. PICK t : t = Delete(queue[l], j)
        OBVIOUS
      <3>2. TakenOut(Elems(queue[l]), queue[l].len, j, Elems(t))
        BY <1>2, <1>3, <3>1, DeleteTakesOut
      <3>3. Once(Elems(queue[l])) /\ Elems(queue[l])[j] = o
        BY <1>2 DEF BookInv, Queue
      <3>4. \A x : In(Elems(t), x) <=> In(Elems(queue[l]), x) /\ x # o
        BY <3>2, <3>3, SeqRemoved
      <3>5. queue'[l] = t
        BY <1>2, <1>3, <3>1
      <3>6. QED BY <3>4, <3>5 DEF Queue
    <2>3. Range(Queue(l)') = S \ {o}
      BY <2>1, <2>2, InRange
    <2>4. o \in S
      BY <1>2, <1>3, <2>1 DEF Range
    <2>5. /\ IsFiniteSet(S) /\ IsIntOn(w, S) /\ S \subseteq Orders
          /\ SumFunctionOnSet(w, S) \in Int /\ total[l] \in Int
      BY <1>2, <1>4, <2>1, RangeFacts DEF Inv
    <2>6. SumFunctionOnSet(w, S) = w[o] + SumFunctionOnSet(w, S \ {o})
      BY <2>4, <2>5, SumRemove
    <2>7. SumFunctionOnSet(w, S \ {o}) \in Int
      <3>1. IsFiniteSet(S \ {o}) /\ IsIntOn(w, S \ {o})
        BY <2>5, FS_Subset DEF IsIntOn
      <3>2. QED BY <3>1, SumIsInt
    <2>8. total[l] >= SumFunctionOnSet(w, S)
      <3>1. queue[l].len > 0
        BY <1>2, <1>3
      <3>2. QED BY <1>2, <1>4, <2>1, <3>1 DEF DepthInv
    <2>9. total'[l] = total[l] - w[o]
      BY <1>2, <1>3, <1>5
    <2>10. total'[l] >= SumFunctionOnSet(w, S \ {o})
      BY <1>5, <2>5, <2>6, <2>7, <2>8, <2>9
    <2>11. QED BY <2>3, <2>10
  <1>8. \A m \in Orders :
           queue'[m].len > 0 => total'[m] >= SumFunctionOnSet(w, Range(Queue(m)'))
    BY <1>6, <1>7
  <1>9. QED BY <1>5, <1>8 DEF DepthInv

LEMMA DepthStep ==
    ASSUME Inv, Inv', BookInv, DepthInv, [Next]_vars
    PROVE  DepthInv'
  <1>1. ASSUME order' = order, filled' = filled, queue' = queue, total' = total
        PROVE  DepthInv'
    <2>1. Wanted' = Wanted /\ \A l \in Orders : Queue(l)' = Queue(l)
      BY <1>1 DEF Wanted, Remaining, Queue
    <2>2. QED BY <1>1, <2>1 DEF DepthInv
  <1>2. CASE UNCHANGED vars
    BY <1>1, <1>2 DEF vars
  <1>3. ASSUME NEW o \in Orders,
               AddDuplicate(o) \/ CancelRefused(o) \/ AddSend(o) \/ CancelMark(o)
               \/ CancelSend(o)
        PROVE  DepthInv'
    BY <1>1, <1>3 DEF AddDuplicate, CancelRefused, AddSend, CancelMark, CancelSend,
                      vars, bookVars, orderVars
  <1>4. ASSUME EngReceive \/ EngFetch \/ EngTakeLevel \/ EngEnterLevel \/ EngFinish
          \/ EngTakeOrder \/ EngCheck \/ Forward
        PROVE  DepthInv'
    BY <1>1, <1>4 DEF EngReceive, EngFetch, EngTakeLevel, EngEnterLevel, EngFinish, EngTakeOrder, EngCheck, Forward,
                      bookVars, orderVars
  <1>5. filled \in [Orders -> Nat] /\ filled' \in [Orders -> Nat] /\ eng.qty \in Nat
        /\ eng'.qty \in Nat
    BY DEF Inv, TypeOK, OrdersTypeOK, EngineTypeOK, EngineRecords
  <1>6. CASE EngTrade
    <2>1. /\ order' = order /\ queue' = queue /\ total' = total
          /\ \E q : filled' = [filled EXCEPT ![eng.incoming] = @ + q] /\ eng'.qty = q
      BY <1>5, <1>6 DEF EngTrade, Fill, bookVars, Inv, TypeOK, EngineTypeOK, EngineRecords
    <2>2. \A o \in Orders : filled'[o] >= filled[o]
      BY <1>5, <2>1
    <2>3. QED BY <1>5, <2>1, <2>2, FillsKeepDepth
  <1>7. CASE EngFillResting
    <2>1. /\ order' = order /\ queue' = queue /\ total' = total
          /\ filled' = [filled EXCEPT ![eng.resting] = @ + eng.qty]
      BY <1>7 DEF EngFillResting, Fill, bookVars
    <2>2. \A o \in Orders : filled'[o] >= filled[o]
      BY <1>5, <2>1
    <2>3. QED BY <1>5, <2>1, <2>2, FillsKeepDepth
  <1>8. QED BY <1>2, <1>3, <1>4, <1>6, <1>7, AddKeepsDepth, CancelKeepsDepth
            DEF Next, Return, Engine

\* No resting quantity is hidden: what a level shows is never less than what its orders
\* still want, although the engine fills them without touching the level's Total and
\* Cancel takes off what is left of an order at that moment (removeFromLevels).
THEOREM DepthHidesNothing == Spec => []DepthCoversOrders
  <1>1. Init => DepthInv
    <2>1. SUFFICES ASSUME Init, NEW l \in Orders PROVE ~(queue[l].len > 0)
      BY DEF DepthInv
    <2>2. queue[l].len = 0
      BY <2>1 DEF Init, Make
    <2>3. QED BY <2>2
  <1>2. Inv /\ Inv' /\ BookInv /\ DepthInv /\ [Next]_vars => DepthInv'
    BY DepthStep
  <1>3. Inv /\ BookInv /\ [Next]_vars => BookInv'
    BY BookInvStep
  <1>4. Inv /\ BookInv /\ DepthInv => DepthCoversOrders
    <2>1. SUFFICES ASSUME Inv, BookInv, DepthInv, NEW side \in Sides,
                          NEW i \in 1 .. levels[side].len, NEW l, l = Levels(side)[i]
                   PROVE  total[l] >= SumFunctionOnSet(Wanted, Range(Queue(l)))
      BY DEF DepthCoversOrders, Wanted
    <2>2. l \in Orders /\ Listed(l)
      BY <2>1, LevelFacts DEF Inv
    <2>3. QED BY <2>1, <2>2 DEF BookInv, DepthInv
  <1>5. QED BY <1>1, <1>2, <1>3, <1>4, BookInvInit, Invariance, PTL DEF Spec

-----------------------------------------------------------------------------
(* Cancel sticks *)

Marked(r) == caller[r] \in {"cancelling", "cancelled"}

\* The slice of orders that the engine walks shows r, now, in some iteration.
Sees(r) == \E k \in 1 .. eng.orders.len : At(queue[eng.level], eng.orders, k) = r

\* A cancelled order can be active again: a Fill that was under way writes
\* PARTIALLY_FILLED over CANCELLED, and so does the order's own pass.  In the first case
\* the incoming order has got all it wanted; in both, every slice that a pass fetches
\* later is without the order, and what Add and Cancel write to its cells is too.
StickInv ==
    /\ eng.pc = "fill"
          => \A r \in Orders : r = eng.resting
                => Remaining(eng.incoming) = 0 \/ Remaining(r) = eng.qty
    /\ \A r \in Orders :
          /\ Marked(r) /\ ~Unmatched(r) /\ IsActive(r)
          /\ eng.pc \in WithOrders /\ Remaining(eng.incoming) # 0
          => ~Sees(r) /\ (eng.pc = "check" => r # eng.resting)

\* What the engine reads after a step of Add or Cancel is what it would have read, or
\* an order that is in the map.
LEMMA BookReads ==
    ASSUME Inv, BookInv, BookInv', NEW o \in Orders, Add(o) \/ Cancel(o),
           eng.pc \in WithOrders, NEW r \in Orders, r \notin Registered', ~Sees(r)
    PROVE  ~Sees(r)'
  <1>1. eng' = eng /\ order' = order
    BY DEF Add, Cancel
  <1>2. PICK l \in Orders : l = eng.level
    BY DEF Inv, TypeOK, EngineTypeOK, WithOrders, WithLevel
  <1>3. PICK h : h = eng.orders
    OBVIOUS
  <1>4. /\ l \in Placed /\ ValidHeader(queue[l], h) /\ queue[l] \in Slice(MatesOf(l))
        /\ DOMAIN queue = Orders
    BY <1>2, <1>3 DEF Inv, TypeOK, EngineTypeOK, BookTypeOK, EngineFacts, LevelsOf,
                      WithOrders, WithLevel
  <1>5. Reads(queue[l], queue[l])
    BY DEF Reads
  <1>6. Reads(queue[l], queue'[l])
    <2>1. CASE Add(o)
      <3>1. o \notin Placed /\ order[o].side \in Sides
        BY <2>1, AddFacts
      <3>2. PICK side \in Sides : side = order[o].side
        BY <3>1
      <3>3. /\ levels[side].len \in Nat
            /\ \A i \in 1 .. levels[side].len :
                 Levels(side)[i] \in Orders /\ order[Levels(side)[i]].side = side
        BY LevelFacts DEF Inv
      <3>4. PICK pos \in 1 .. levels[side].len + 1 :
              IF pos <= levels[side].len /\ LevelPrice(Levels(side)[pos]) = order[o].price
              THEN queue' = [queue EXCEPT ![Levels(side)[pos]] = AppendTo(@, o)]
              ELSE queue' = [queue EXCEPT ![o] = Literal(o)]
        BY <2>1, <3>2 DEF Add, AddToLevels
      <3>5. CASE pos <= levels[side].len /\ LevelPrice(Levels(side)[pos]) = order[o].price
        <4>1. pos \in 1 .. levels[side].len
          BY <3>3, <3>5
        <4>2. PICK m \in Orders : m = Levels(side)[pos]
          BY <3>3, <4>1
        <4>3. o \in MatesOf(m)
          BY <3>2, <3>3, <3>5, <4>1, <4>2 DEF MatesOf, LevelPrice
        <4>4. queue' = [queue EXCEPT ![m] = AppendTo(queue[m], o)]
          BY <1>4, <3>4, <3>5, <4>2
        <4>5. l = m => Reads(queue[l], AppendTo(queue[l], o))
          BY <1>4, <4>3, AppendContent
        <4>6. QED BY <1>4, <1>5, <4>4, <4>5
      <3>6. CASE ~(pos <= levels[side].len /\ LevelPrice(Levels(side)[pos]) = order[o].price)
        <4>1. queue'[l] = queue[l]
          BY <1>4, <3>1, <3>4, <3>6
        <4>2. QED BY <1>5, <4>1
      <3>7. QED BY <3>5, <3>6
    <2>2. CASE Cancel(o)
      <3>1. PICK m, j : /\ m \in Orders /\ j \in 1 .. queue[m].len
                        /\ queue' = [queue EXCEPT ![m] = Delete(queue[m], j)]
        BY <2>2, CancelFacts
      <3>2. l = m => Reads(queue[l], Delete(queue[l], j))
        BY <1>4, <3>1, DeleteContent
      <3>3. QED BY <1>4, <1>5, <3>1, <3>2
    <2>3. QED BY <2>1, <2>2
  <1>7. SUFFICES ASSUME NEW k \in 1 .. h.len, At(queue'[l], h, k) = r PROVE FALSE
    BY <1>1, <1>2, <1>3 DEF Sees
  <1>8. At(queue[l], h, k) # r
    BY <1>2, <1>3 DEF Sees
  <1>9. PICK n \in 1 .. queue'[l].len : Elems(queue'[l])[n] = r
    BY <1>4, <1>6, <1>7, <1>8 DEF Reads
  <1>10. queue'[l] \in Slice(MatesOf(l))
    <2>1. BookKept
      BY AddKeepsBook, CancelKeepsBook DEF Inv
    <2>2. MatesOf(l)' = MatesOf(l)
      BY <1>1 DEF MatesOf
    <2>3. QED BY <2>1, <2>2 DEF BookKept, BookTypeOK
  <1>11. n \in DOMAIN Elems(queue'[l])
    BY <1>9, <1>10, ElemsType, LenProperties
  <1>12. In(Queue(l)', r)
    BY <1>9, <1>11 DEF In, Queue
  <1>13. r \in Registered'
    BY <1>12 DEF BookInv, In
  <1>14. QED BY <1>13

\* A fresh header shows what the slice shows.
LEMMA FreshHeader ==
    ASSUME NEW T, NEW s \in Slice(T), NEW k \in 1 .. s.len
    PROVE  At(s, Header(s), k) = Elems(s)[k] /\ k \in DOMAIN Elems(s)
  <1>1. Elems(s)[k] = Backing(s)[k] /\ Elems(s) \in Seq(T) /\ Len(Elems(s)) = s.len
    BY ElemsType
  <1>2. QED BY <1>1, LenProperties DEF At, Header, Backing

\* The trade that is under way has taken all that one of its two orders wanted.
LEMMA StickTrade ==
    ASSUME Inv, StickInv, EngTrade
    PROVE  StickInv'
  <1>1. PICK a \in Placed, r \in Placed, q \in Nat :
             /\ a = eng.incoming /\ r = eng.resting /\ a # r
             /\ q = Smaller(Remaining(a), Remaining(r)) /\ q > 0
             /\ filled' = [filled EXCEPT ![a] = filled[a] + q]
             /\ status' = [status EXCEPT ![a] = StatusAfterFill(a, q)]
             /\ eng' = [eng EXCEPT !.pc = "fill", !.qty = q]
    BY TradeFacts
  <1>2. /\ a \in Orders /\ r \in Orders /\ order' = order /\ eng.pc = "trade" /\ queue' = queue
        /\ caller' = caller /\ eventCh' = eventCh /\ Remaining(a) # 0
    BY <1>1 DEF Placed, EngTrade, bookVars, Inv, EngineFacts
  <1>3. /\ eng'.pc = "fill" /\ eng'.resting = r /\ eng'.qty = q /\ eng'.incoming = a
        /\ eng'.level = eng.level /\ eng'.orders = eng.orders
    BY <1>1 DEF Inv, TypeOK, EngineTypeOK, EngineRecords, WithLevel
  <1>4. /\ filled \in [Orders -> Nat] /\ status \in [Orders -> Statuses]
        /\ Remaining(a) \in Nat /\ Remaining(r) \in Nat
    BY <1>2, LeftToFill DEF Inv, TypeOK, OrdersTypeOK
  <1>5. Remaining(a)' = Remaining(a) - q /\ Remaining(r)' = Remaining(r)
    <2>1. order[a].qty \in Nat /\ filled[a] \in Nat /\ filled'[a] = filled[a] + q
          /\ filled'[r] = filled[r]
      BY <1>1, <1>2, <1>4, LeftToFill
    <2>2. QED BY <1>2, <2>1 DEF Remaining
  <1>6. Remaining(a)' = 0 \/ Remaining(r)' = q
    BY <1>1, <1>4, <1>5 DEF Smaller
  <1>7. ASSUME NEW x \in Orders, Marked(x)', ~Unmatched(x)', IsActive(x)' PROVE ~Sees(x)'
    <2>1. Unmatched(x)' <=> Unmatched(x)
      BY <1>1, <1>2, <1>3 DEF Unmatched, Event
    <2>2. x # a
      BY <1>3, <1>7 DEF Unmatched
    <2>3. Marked(x) /\ ~Unmatched(x) /\ IsActive(x)
      BY <1>1, <1>2, <1>4, <1>7, <2>1, <2>2 DEF Marked, IsActive
    <2>4. ~Sees(x)
      BY <1>1, <1>2, <2>3 DEF StickInv, WithOrders
    <2>5. QED BY <1>2, <1>3, <2>4 DEF Sees
  <1>8. Remaining(eng.incoming)' = Remaining(a)'
    BY <1>3 DEF Remaining
  <1>9. QED BY <1>3, <1>6, <1>7, <1>8 DEF StickInv, Remaining

\* The later Fill makes a cancelled order active only if the incoming one is done.
LEMMA StickFill ==
    ASSUME Inv, StickInv, EngFillResting
    PROVE  StickInv'
  <1>1. PICK r \in Placed, q \in Nat :
             /\ eng.pc = "fill" /\ r = eng.resting /\ q = eng.qty /\ q > 0
             /\ filled' = [filled EXCEPT ![r] = filled[r] + q]
             /\ status' = [status EXCEPT ![r] = StatusAfterFill(r, q)]
             /\ eng' = NextOrder
    BY FillRestingFacts
  <1>2. /\ r \in Orders /\ order' = order /\ queue' = queue /\ caller' = caller
        /\ eventCh' = eventCh
    BY <1>1 DEF Placed, EngFillResting, bookVars
  <1>3. PICK a \in Orders : a = eng.incoming
    BY <1>1 DEF Inv, TypeOK, EngineTypeOK
  <1>4. /\ eng'.pc = "order" /\ eng'.incoming = a
        /\ eng'.level = eng.level /\ eng'.orders = eng.orders
    BY <1>1, <1>3 DEF Inv, TypeOK, EngineTypeOK, EngineRecords, NextOrder, WithLevel
  <1>5. a # r
    BY <1>1, <1>3 DEF Inv, EngineFacts, LevelsOf, MatesOf, Opposite, WithLevel, WithResting
  <1>6. filled \in [Orders -> Nat] /\ status \in [Orders -> Statuses]
    BY DEF Inv, TypeOK, OrdersTypeOK
  <1>7. Remaining(a)' = Remaining(a)
    BY <1>1, <1>2, <1>3, <1>5, <1>6 DEF Remaining
  <1>8. ASSUME NEW x \in Orders, Marked(x)', ~Unmatched(x)', IsActive(x)', Remaining(a)' # 0
        PROVE  ~Sees(x)'
    <2>1. Unmatched(x)' <=> Unmatched(x)
      BY <1>2, <1>3, <1>4 DEF Unmatched, Event
    <2>2. x # r
      <3>1. SUFFICES ASSUME x = r PROVE FALSE
        OBVIOUS
      <3>2. Remaining(r) = q
        BY <1>1, <1>2, <1>3, <1>7, <1>8 DEF StickInv
      <3>3. status'[r] = "FILLED"
        BY <1>1, <1>2, <1>6, <3>2 DEF StatusAfterFill
      <3>4. QED BY <1>8, <3>1, <3>3 DEF IsActive
    <2>3. Marked(x) /\ ~Unmatched(x) /\ IsActive(x)
      BY <1>1, <1>2, <1>6, <1>8, <2>1, <2>2 DEF Marked, IsActive
    <2>4. ~Sees(x)
      BY <1>1, <1>3, <1>7, <1>8, <2>3 DEF StickInv, WithOrders
    <2>5. QED BY <1>2, <1>4, <2>4 DEF Sees
  <1>9. Remaining(eng.incoming)' = Remaining(a)'
    BY <1>4 DEF Remaining
  <1>10. QED BY <1>4, <1>8, <1>9 DEF StickInv, Remaining

\* A pass that enters a level reads its queue, which shows registered orders only.
LEMMA StickEnter ==
    ASSUME Inv, BookInv, EngEnterLevel
    PROVE  StickInv'
  <1>1. /\ eng.pc = "enter" /\ queue' = queue /\ caller' = caller
        /\ eng' = [eng EXCEPT !.pc = "order", !.k = 1, !.orders = Header(queue[eng.level])]
    BY DEF EngEnterLevel, bookVars
  <1>2. PICK l \in Orders : l = eng.level
    BY <1>1 DEF Inv, TypeOK, EngineTypeOK, WithLevel
  <1>3. eng'.pc = "order" /\ eng'.level = l /\ eng'.orders = Header(queue[l])
    BY <1>1, <1>2 DEF Inv, TypeOK, EngineTypeOK, EngineRecords
  <1>4. ASSUME NEW x \in Orders, Marked(x)', Sees(x)' PROVE FALSE
    <2>1. PICK k \in 1 .. Header(queue[l]).len : At(queue[l], Header(queue[l]), k) = x
      BY <1>1, <1>3, <1>4 DEF Sees
    <2>2. k \in 1 .. queue[l].len
      BY <2>1 DEF Header
    <2>3. queue[l] \in Slice(MatesOf(l))
      BY QueueType DEF Inv
    <2>4. Elems(queue[l])[k] = x /\ k \in DOMAIN Elems(queue[l])
      BY <2>1, <2>2, <2>3, FreshHeader
    <2>5. In(Queue(l), x)
      BY <2>4 DEF In, Queue
    <2>6. x \in Registered
      BY <2>5 DEF BookInv
    <2>7. QED BY <1>1, <1>4, <2>6 DEF Registered, Marked
  <1>5. QED BY <1>3, <1>4 DEF StickInv

LEMMA StickStep ==
    ASSUME Inv, RestInv, BookInv, BookInv', StickInv, [Next]_vars
    PROVE  StickInv'
  <1>0. /\ order' = order /\ eng \in EngineRecords /\ status \in [Orders -> Statuses]
        /\ caller \in [Orders -> {"new", "adding", "placed", "unlinked", "cancelling",
                                  "cancelled"}]
    BY PlacedGrows DEF Inv, TypeOK, EngineTypeOK, OrdersTypeOK
  <1>1. ASSUME eng'.pc \notin WithOrders PROVE StickInv'
    BY <1>1 DEF StickInv, WithOrders
  <1>2. ASSUME UNCHANGED <<status, filled, queue, caller>>, eng.pc \in WithOrders,
               eng'.pc \in {"order", "check", "trade"}, eng'.incoming = eng.incoming,
               eng'.level = eng.level, eng'.orders = eng.orders, ~EngFinish,
               eng'.pc = "check" => Sees(eng'.resting)
        PROVE  StickInv'
    <2>1. ASSUME NEW x \in Orders, Marked(x)', ~Unmatched(x)', IsActive(x)',
                 Remaining(eng.incoming)' # 0
          PROVE  ~Sees(x)' /\ (eng'.pc = "check" => x # eng'.resting)
      <3>1. ~Unmatched(x)
        BY <1>2, <2>1, StaysUnmatched
      <3>2. Marked(x) /\ IsActive(x) /\ Remaining(eng.incoming) # 0
        BY <1>0, <1>2, <2>1 DEF Marked, IsActive, Remaining
      <3>3. ~Sees(x)
        BY <1>2, <3>1, <3>2 DEF StickInv
      <3>4. QED BY <1>2, <3>3 DEF Sees
    <2>2. \A x \in Orders : Marked(x)' /\ ~Unmatched(x)' /\ IsActive(x)'
               /\ Remaining(eng.incoming)' # 0 => ~Sees(x)' /\ (eng'.pc = "check" => x # eng'.resting)
      BY <2>1
    <2>3. eng'.pc # "fill"
      BY <1>2
    <2>4. QED BY <2>2, <2>3, Zenon DEF StickInv
  <1>3. ASSUME UNCHANGED <<filled, eng>>, ~EngFinish,
               \A x \in Orders : Marked(x)' /\ IsActive(x)' => Marked(x) /\ IsActive(x),
               \A x \in Orders : eng.pc \in WithOrders /\ Marked(x)' /\ ~Sees(x)
                                   => ~Sees(x)'
        PROVE  StickInv'
    <2>1. ASSUME NEW x \in Orders, Marked(x)', ~Unmatched(x)', IsActive(x)',
                 Remaining(eng.incoming)' # 0, eng'.pc \in WithOrders
          PROVE  ~Sees(x)' /\ (eng'.pc = "check" => x # eng'.resting)
      <3>1. ~Unmatched(x)
        BY <1>3, <2>1, StaysUnmatched
      <3>2. Marked(x) /\ IsActive(x) /\ Remaining(eng.incoming) # 0
        BY <1>0, <1>3, <2>1 DEF Remaining
      <3>3. ~Sees(x) /\ (eng.pc = "check" => x # eng.resting)
        BY <1>3, <2>1, <3>1, <3>2 DEF StickInv
      <3>4. QED BY <1>3, <2>1, <3>3
    <2>2. Remaining(eng.incoming)' = Remaining(eng.incoming)
          /\ \A r \in Orders : Remaining(r)' = Remaining(r)
      BY <1>0, <1>3 DEF Remaining
    <2>3. eng'.pc = "fill"
             => \A r \in Orders : r = eng'.resting
                   => Remaining(eng.incoming)' = 0 \/ Remaining(r)' = eng'.qty
      BY <1>3, <2>2 DEF StickInv
    <2>4. QED BY <2>1, <2>3 DEF StickInv
  <1>4. ASSUME UNCHANGED <<filled, eng, queue, caller, status>>, ~EngFinish PROVE StickInv'
    BY <1>3, <1>4 DEF Marked, IsActive, Sees
  <1>5. CASE EngFinish
    BY <1>1, <1>5 DEF EngFinish, IdleEngine, WithOrders
  <1>6. ASSUME ~EngFinish, Forward \/ UNCHANGED vars PROVE StickInv'
    BY <1>4, <1>6 DEF Forward, vars, orderVars, bookVars
  <1>7. ASSUME ~EngFinish, NEW o \in Orders, AddDuplicate(o) \/ CancelRefused(o)
        PROVE  StickInv'
    BY <1>4, <1>7 DEF AddDuplicate, CancelRefused, vars
  <1>8. ASSUME ~EngFinish, NEW o \in Orders, AddSend(o) \/ CancelMark(o) \/ CancelSend(o)
        PROVE  StickInv'
    <2>1. UNCHANGED <<filled, eng, queue>>
      BY <1>8 DEF AddSend, CancelMark, CancelSend, orderVars, bookVars
    <2>2. \A x \in Orders : Marked(x)' /\ IsActive(x)' => Marked(x) /\ IsActive(x)
      BY <1>0, <1>8 DEF AddSend, CancelMark, CancelSend, orderVars, Marked, IsActive
    <2>3. \A x \in Orders : ~Sees(x) => ~Sees(x)'
      BY <2>1 DEF Sees
    <2>4. QED BY <1>3, <1>8, <2>1, <2>2, <2>3
  <1>9. ASSUME ~EngFinish, NEW o \in Orders, Add(o) \/ Cancel(o) PROVE StickInv'
    <2>1. UNCHANGED <<filled, eng>>
      BY <1>9 DEF Add, Cancel, orderVars
    <2>2. \A x \in Orders : Marked(x)' /\ IsActive(x)' => Marked(x) /\ IsActive(x)
      BY <1>0, <1>9 DEF Add, Cancel, orderVars, Marked, IsActive
    <2>3. ASSUME NEW x \in Orders, eng.pc \in WithOrders, Marked(x)', ~Sees(x)
          PROVE  ~Sees(x)'
      <3>1. x \notin Registered'
        BY <2>3 DEF Marked, Registered
      <3>2. QED BY <1>9, <2>3, <3>1, BookReads
    <2>4. QED BY <1>3, <1>9, <2>1, <2>2, <2>3
  <1>10. CASE EngReceive \/ EngFetch \/ EngTakeLevel
    <2>1. eng'.pc \notin WithOrders
      BY <1>0, <1>10 DEF EngReceive, EngFetch, EngTakeLevel, EngineRecords, WithOrders
    <2>2. QED BY <1>1, <2>1
  <1>11. ASSUME eng' = NextLevel PROVE StickInv'
    <2>1. eng'.pc \notin WithOrders
      BY <1>0, <1>11 DEF NextLevel, EngineRecords, WithOrders
    <2>2. QED BY <1>1, <2>1
  <1>12. ASSUME EngTakeOrder, ~EngFinish PROVE StickInv'
    <2>1. UNCHANGED <<status, filled, queue, caller>> /\ eng.pc = "order"
      BY <1>12 DEF EngTakeOrder, orderVars, bookVars
    <2>2. CASE /\ eng.k <= eng.orders.len
               /\ eng' = [eng EXCEPT !.pc = "check", !.resting = ViewOrder]
      <3>1. eng.k \in 1 .. eng.orders.len
        BY <2>1, <2>2 DEF Inv, TypeOK, EngineTypeOK, EngineRecords, Headers, WithOrders
      <3>2. Sees(ViewOrder)
        BY <3>1 DEF Sees, ViewOrder
      <3>3. /\ eng'.pc = "check" /\ eng'.incoming = eng.incoming /\ eng'.level = eng.level
            /\ eng'.orders = eng.orders /\ eng'.resting = ViewOrder
        BY <1>0, <2>2 DEF EngineRecords, WithLevel
      <3>4. QED BY <1>2, <1>12, <2>1, <3>2, <3>3 DEF WithOrders
    <2>3. QED BY <1>11, <1>12, <2>2 DEF EngTakeOrder
  <1>13. ASSUME EngCheck, ~EngFinish PROVE StickInv'
    <2>1. UNCHANGED <<status, filled, queue, caller>> /\ eng.pc = "check"
      BY <1>13 DEF EngCheck, orderVars, bookVars
    <2>2. CASE eng' = NextOrder \/ eng' = [eng EXCEPT !.pc = "trade"]
      <3>1. /\ eng'.pc \in {"order", "trade"} /\ eng'.incoming = eng.incoming
            /\ eng'.level = eng.level /\ eng'.orders = eng.orders
        BY <1>0, <2>2 DEF EngineRecords, NextOrder, WithLevel
      <3>2. QED BY <1>2, <1>13, <2>1, <3>1 DEF WithOrders
    <2>3. QED BY <1>11, <1>13, <2>2 DEF EngCheck
  <1>14. QED BY <1>5, <1>6, <1>7, <1>8, <1>9, <1>10, <1>12, <1>13, StickEnter, StickTrade,
                StickFill DEF Next, Return, Engine

\* Only the check that finds a resting order active, with something left to fill,
\* makes it the chosen one.
LEMMA ChosenByCheck ==
    ASSUME Inv, [Next]_vars, NEW o \in Orders, o \in Chosen', o \notin Chosen
    PROVE  /\ eng.pc = "check" /\ eng.resting = o
           /\ IsActive(o) /\ Remaining(eng.incoming) # 0
  <1>0. eng \in EngineRecords /\ eng'.pc = "trade" /\ eng'.resting = o
    BY DEF Chosen, Inv, TypeOK, EngineTypeOK
  <1>1. ASSUME UNCHANGED eng PROVE FALSE
    BY <1>1 DEF Chosen
  <1>2. ASSUME NEW x \in Orders,
               \/ Add(x) \/ AddSend(x) \/ Cancel(x) \/ CancelMark(x) \/ CancelSend(x)
               \/ AddDuplicate(x) \/ CancelRefused(x)
        PROVE  UNCHANGED eng
    BY <1>2 DEF Add, AddSend, Cancel, CancelMark, CancelSend, AddDuplicate, CancelRefused, vars
  <1>3. CASE Forward \/ UNCHANGED vars
    BY <1>1, <1>3 DEF Forward, vars
  <1>4. CASE EngReceive \/ EngFetch \/ EngTakeLevel \/ EngEnterLevel \/ EngTakeOrder
    <2>1. CASE EngReceive
      BY <1>0, <2>1 DEF EngReceive, EngineRecords
    <2>2. CASE EngFetch \/ EngTakeLevel \/ EngEnterLevel
      BY <1>0, <2>2 DEF EngFetch, EngTakeLevel, EngEnterLevel, EngineRecords
    <2>3. CASE EngTakeOrder
      BY <1>0, <2>3 DEF EngTakeOrder, NextLevel, EngineRecords
    <2>4. QED BY <1>4, <2>1, <2>2, <2>3
  <1>5. CASE EngFinish \/ EngTrade \/ EngFillResting
    <2>1. CASE EngFinish
      BY <1>0, <2>1 DEF EngFinish, IdleEngine
    <2>2. CASE EngTrade
      BY <1>0, <2>2 DEF EngTrade, EngineRecords
    <2>3. CASE EngFillResting
      BY <1>0, <2>3 DEF EngFillResting, NextOrder, EngineRecords
    <2>4. QED BY <1>5, <2>1, <2>2, <2>3
  <1>6. CASE EngCheck
    <2>1. eng.pc = "check" /\ (eng' = NextOrder => eng'.pc = "order")
          /\ (eng' = NextLevel => eng'.pc = "level")
      BY <1>0, <1>6 DEF EngCheck, NextLevel, NextOrder, EngineRecords
    <2>2. /\ IsActive(eng.resting) /\ Remaining(eng.incoming) # 0
          /\ eng' = [eng EXCEPT !.pc = "trade"]
      BY <1>0, <1>6, <2>1 DEF EngCheck
    <2>3. eng'.resting = eng.resting
      BY <1>0, <2>2 DEF EngineRecords
    <2>4. QED BY <1>0, <2>1, <2>2, <2>3
  <1>7. QED
    BY <1>1, <1>2, <1>3, <1>4, <1>5, <1>6 DEF Next, Return, Engine

\* Once Cancel has returned, no other order's pass chooses the order any more: not
\* through the slice the engine fetched before, not through the cells that Add and
\* Cancel moved under it, and not because a Fill that was under way made the order
\* active again.  What can still come is the one trade it was chosen for before Cancel
\* returned, and its own pass (Cancel, fillAgainstLevel).
THEOREM CancellationSticks == Spec => CancelSticks
  <1> DEFINE Kept == \A o \in Orders : caller[o] = "cancelled" /\ ~Unmatched(o)
                       => /\ o \in Chosen' => o \in Chosen
                          /\ Settled'[o] # Settled[o] => o \in Chosen
  <1>1. Init => RestInv /\ StickInv
    BY DEF Init, RestInv, MarketNeverRests, Registered, IdleEngine, StickInv, WithOrders
  <1>2. Inv /\ RestInv /\ [Next]_vars => RestInv'
    BY RestStep
  <1>3. Inv /\ BookInv /\ [Next]_vars => BookInv'
    BY BookInvStep
  <1>4. Inv /\ RestInv /\ BookInv /\ BookInv' /\ StickInv /\ [Next]_vars => StickInv'
    BY StickStep
  <1>5. Inv /\ StickInv /\ [Next]_vars => [Kept]_vars
    <2>1. SUFFICES ASSUME Inv, StickInv, [Next]_vars, NEW o \in Orders,
                          caller[o] = "cancelled", ~Unmatched(o)
                   PROVE  /\ o \in Chosen' => o \in Chosen
                          /\ Settled'[o] # Settled[o] => o \in Chosen
      OBVIOUS
    <2>2. o \in Chosen' => o \in Chosen
      <3>1. SUFFICES ASSUME o \in Chosen', o \notin Chosen PROVE FALSE
        OBVIOUS
      <3>2. /\ eng.pc = "check" /\ eng.resting = o
            /\ IsActive(o) /\ Remaining(eng.incoming) # 0
        BY <2>1, <3>1, ChosenByCheck
      <3>3. QED BY <2>1, <3>2 DEF StickInv, Marked, WithOrders
    <2>3. CASE ~EngTrade
      BY <2>1, <2>2, <2>3, OnlyTradesSettle
    <2>4. CASE EngTrade
      <3>1. PICK a \in Placed, r \in Placed, q \in Nat :
              /\ a = eng.incoming /\ r = eng.resting
              /\ filled' = [filled EXCEPT ![a] = filled[a] + q]
              /\ eng' = [eng EXCEPT !.pc = "fill", !.qty = q]
        BY <2>1, <2>4, TradeFacts
      <3>2. eng.pc = "trade" /\ eng \in EngineRecords
        BY <2>1, <2>4 DEF EngTrade, Inv, TypeOK, EngineTypeOK
      <3>3. o # a
        BY <2>1, <3>1 DEF Unmatched
      <3>4. eng'.pc = "fill" /\ eng'.resting = r
        BY <3>1, <3>2 DEF EngineRecords, WithLevel
      <3>5. filled'[o] = filled[o]
        BY <2>1, <3>1, <3>3 DEF Inv, TypeOK, OrdersTypeOK
      <3>6. o # r => Settled'[o] = Settled[o]
        BY <2>1, <3>2, <3>4, <3>5 DEF Settled
      <3>7. o = r => o \in Chosen
        BY <3>1, <3>2 DEF Chosen
      <3>8. QED BY <2>2, <3>6, <3>7
    <2>5. QED BY <2>3, <2>4
  <1>6. [][Kept]_vars <=> CancelSticks
    BY DEF CancelSticks
  <1> HIDE DEF Kept
  <1>7. QED BY <1>1, <1>2, <1>3, <1>4, <1>5, <1>6, BookInvInit, Invariance, PTL DEF Spec
=============================================================================
