----------------------------- MODULE OmsProofs -----------------------------
(***************************************************************************)
(* Proofs about Oms, for every set of orders, every terms and any number   *)
(* of crashes, restarts and failed calls to Redis: what is in the book is  *)
(* in Redis, accepted orders come back, cancelled and rejected ones stay   *)
(* out, and in its first life the margin accounts add up.                  *)
(***************************************************************************)
EXTENDS Oms, DataLemmas

PlaceStates == Answered \union {"reject", "block", "save", "undo", "add"}
CancelStates == CancelAnswered \union {"release", "unindex", "save"}

\* The part of TypeOK that the argument needs.
Types ==
    /\ stored \in [Orders -> Statuses \union {"none"}]
    /\ index \in [Statuses -> SUBSET Orders]
    /\ phase \in {"down", "recovering", "serving"}
    /\ toRecover \subseteq Orders
    /\ book \subseteq Orders
    /\ place \in [Orders -> PlaceStates]
    /\ cancel \in [Orders -> CancelStates]

\* The stages at which an order may have been given to the book in this or an
\* earlier life of the server.
Submitted == {"accepted", "lost", "refused"}

\* What Redis holds of o at every stage of PlaceOrder.
PlaceFacts(o) ==
    /\ place[o] \in {"new", "block", "save"} => stored[o] = "none"
    /\ place[o] \in {"new", "block", "save", "reject", "rejected"} => o \notin index["OPEN"]
    /\ place[o] = "add" => o \in index["OPEN"]
    /\ place[o] \in {"add", "accepted"} => order[o].listed
    /\ o \in index["OPEN"] => stored[o] \in {"OPEN", "none"} \/ o \in kept
    /\ o \notin index["PARTIALLY_FILLED"]

\* What Redis and the book hold of o at every stage of CancelOrder.
CancelFacts(o) ==
    /\ cancel[o] # "none" => place[o] \in Submitted
    /\ cancel[o] \in {"release", "unindex"} => o \notin book
    /\ cancel[o] \in {"save", "done"} => o \notin index["OPEN"] \/ o \in kept

\* Where o is in the life of the server.
BookFacts(o) ==
    /\ o \in book \union toRecover => o \in index["OPEN"] /\ place[o] \in Submitted
    /\ phase # "serving" => place[o] \in Answered /\ cancel[o] \in CancelAnswered
    /\ place[o] = "accepted" /\ cancel[o] = "none"
          => /\ o \in index["OPEN"]
             /\ stored[o] # "none" /\ o \notin missed
                  => /\ phase = "recovering" => o \in book \union toRecover
                     /\ phase = "serving" => o \in book

PhaseFacts ==
    /\ phase # "recovering" => toRecover = {}
    /\ phase = "down" => book = {}

Durable ==
    /\ Types
    /\ PhaseFacts
    /\ \A o \in Orders : PlaceFacts(o) /\ CancelFacts(o) /\ BookFacts(o)

USE DEF Durable, Types, PhaseFacts, PlaceFacts, CancelFacts, BookFacts, PlaceStates,
        CancelStates, Submitted, Answered, CancelAnswered, Statuses

-----------------------------------------------------------------------------
\* Before the first start nothing is stored and no order is known.
LEMMA InitDurable == Init => Durable
  BY DEF Init

\* Every step of PlaceOrder keeps Redis ahead of the book.
LEMMA PlaceStep ==
    ASSUME Durable, NEW o \in Orders, PlaceOrder(o)
    PROVE  Durable'
  <1>1. CASE PlaceCheck(o)
    BY <1>1 DEF PlaceCheck, redisVars, bookVars
  <1>2. CASE PlaceReject(o)
    BY <1>2 DEF PlaceReject, SaveOrderFails, SaveOrder, bookVars
  <1>3. CASE PlaceBlock(o)
    BY <1>3 DEF PlaceBlock, bookVars
  <1>4. CASE PlaceSave(o)
    BY <1>4 DEF PlaceSave, SaveOrderFails, SaveOrder, bookVars
  <1>5. CASE PlaceUndo(o)
    BY <1>5 DEF PlaceUndo, bookVars
  <1>6. CASE PlaceAdd(o)
    BY <1>6 DEF PlaceAdd, AddToBook, redisVars
  <1>7. QED
    BY <1>1, <1>2, <1>3, <1>4, <1>5, <1>6 DEF PlaceOrder

\* Every step of CancelOrder keeps a cancelled order out: it leaves the book
\* before it leaves the index, and the index before the client hears of it.
LEMMA CancelStep ==
    ASSUME Durable, NEW o \in Orders, CancelOrder(o)
    PROVE  Durable'
  <1>1. CASE CancelBook(o)
    BY <1>1 DEF CancelBook, redisVars
  <1>2. CASE CancelRefused(o)
    BY <1>2 DEF CancelRefused, vars, redisVars, bookVars
  <1>3. CASE CancelRelease(o)
    BY <1>3 DEF CancelRelease, bookVars
  <1>4. CASE CancelUnindex(o)
    BY <1>4 DEF CancelUnindex, Fault, bookVars
  <1>5. CASE CancelSave(o)
    BY <1>5 DEF CancelSave, SaveOrderFails, SaveOrder, bookVars
  <1>6. QED
    BY <1>1, <1>2, <1>3, <1>4, <1>5 DEF CancelOrder

\* Trades, ends of passes and prices change nothing the argument speaks of; an order
\* that expires may be lost to a restart, and is not promised any more.
LEMMA MarketStep ==
    ASSUME Durable,
           \/ \E o, r \in Orders : Execute(o, r)
           \/ \E o \in Orders : PassEnds(o)
           \/ \E p \in Prices : Refresh(p)
           \/ ExpireLTP
           \/ \E o \in Orders : ExpireOrder(o)
    PROVE  Durable'
  <1>1. ASSUME NEW o \in Orders, NEW r \in Orders, Execute(o, r) PROVE Durable'
    <2>1. order' = order
      BY <1>1 DEF Execute, Ledger!Execute
    <2>2. QED
      BY <1>1, <2>1 DEF Execute, redisVars
  <1>2. ASSUME NEW o \in Orders, PassEnds(o) PROVE Durable'
    BY <1>2 DEF PassEnds, redisVars
  <1>3. ASSUME NEW p \in Prices, Refresh(p) PROVE Durable'
    BY <1>3 DEF Refresh, bookVars
  <1>4. CASE ExpireLTP
    BY <1>4 DEF ExpireLTP, bookVars
  <1>5. ASSUME NEW o \in Orders, ExpireOrder(o) PROVE Durable'
    BY <1>5 DEF ExpireOrder, bookVars
  <1>6. QED
    BY <1>1, <1>2, <1>3, <1>4, <1>5

\* A crash loses the book and every call under way; a start finds in the index
\* every order it has to put back, and none it may not.
LEMMA RestartStep ==
    ASSUME Durable,
           \/ Crash
           \/ \E p \in Prices : Boot(p)
           \/ \E o \in Orders : RecoverOne(o)
           \/ ListenAndServe
    PROVE  Durable'
  <1>1. CASE Crash
    BY <1>1 DEF Crash, redisVars
  <1>2. ASSUME NEW p \in Prices, Boot(p) PROVE Durable'
    BY <1>2 DEF Boot, GetOpenOrders, bookVars
  <1>3. ASSUME NEW o \in Orders, RecoverOne(o) PROVE Durable'
    <2>1. CASE order[o].listed
      BY <1>3, <2>1 DEF RecoverOne, AddToBook, redisVars
    <2>2. CASE ~order[o].listed
      BY <1>3, <2>2 DEF RecoverOne, redisVars, bookVars
    <2>3. QED BY <2>1, <2>2
  <1>4. CASE ListenAndServe
    BY <1>4 DEF ListenAndServe, redisVars, bookVars
  <1>5. QED
    BY <1>1, <1>2, <1>3, <1>4

\* Durable is an invariant of the OMS.
THEOREM Durability == Spec => []Durable
  <1>1. Durable /\ [Next]_vars => Durable'
    <2>1. ASSUME Durable, UNCHANGED vars PROVE Durable'
      BY <2>1 DEF vars, redisVars, bookVars
    <2>2. QED
      BY <2>1, PlaceStep, CancelStep, MarketStep, RestartStep DEF Next
  <1>2. QED
    BY InitDurable, <1>1, PTL DEF Spec

\* Redis comes before the book: what is in the book, a restart will find
\* (PlaceOrder, CancelOrder, RecoverFromRedis).
THEOREM BookBacked == Spec => []BookIsBacked
  <1>1. Durable => BookIsBacked
    BY DEF BookIsBacked
  <1>2. QED
    BY <1>1, Durability, PTL

\* An accepted order that nobody asked to cancel is in the book whenever the
\* server takes requests, however often it crashed (RecoverFromRedis).
THEOREM AcceptedOrdersSurvive == Spec => []AcceptedSurvives
  <1>1. Durable => AcceptedSurvives
    BY DEF AcceptedSurvives
  <1>2. QED
    BY <1>1, Durability, PTL

\* An order whose cancellation was confirmed never comes back into the book
\* (CancelOrder, UpdateOrderStatus, RecoverFromRedis).
THEOREM CancelledOrdersStayOut == Spec => []CancelledStaysOut
  <1>1. Durable => CancelledStaysOut
    BY DEF CancelledStaysOut
  <1>2. QED
    BY <1>1, Durability, PTL

\* A rejected order never enters the book, also not through the copy of it that
\* PlaceOrder saves (PlaceOrder, RecoverFromRedis).
THEOREM RejectedOrdersStayOut == Spec => []RejectedStaysOut
  <1>1. Durable => RejectedStaysOut
    BY DEF RejectedStaysOut
  <1>2. QED
    BY <1>1, Durability, PTL

HIDE DEF Durable, PlaceFacts, CancelFacts, BookFacts

-----------------------------------------------------------------------------
(* Types *)

\* The required margin is a whole number of the units, whatever the product.
LEMMA MarginIsInt ==
    ASSUME StateTypeOK, NEW o \in Orders, NEW p \in Int
    PROVE  Margin(o, p) \in Int
  <1>1. order[o].qty \in Int
    BY TermsAssumption DEF StateTypeOK
  <1>2. Rate(order[o].product) \in Int
    BY DEF Rate
  <1>3. \A a, b, c \in Int : a * b * c \in Int
    OBVIOUS
  <1>4. QED BY <1>1, <1>2, <1>3 DEF Margin

LEMMA TermsOf ==
    ASSUME StateTypeOK, NEW o \in Orders
    PROVE  order[o].price \in Int /\ order[o].qty \in Nat
  BY TermsAssumption DEF StateTypeOK

LEMMA InitTypes == Init => StateTypeOK
  BY NumbersAssumption DEF Init, StateTypeOK

LEMMA PlaceTypes ==
    ASSUME Durable, StateTypeOK, NEW o \in Orders, PlaceOrder(o)
    PROVE  StateTypeOK'
  <1>0. phase = "down" => place[o] \in Answered
    BY DEF Durable, BookFacts
  <1>1. CASE PlaceCheck(o)
    <2>1. KnownPrice(o) \in Int /\ order[o].price \in Int
      BY TermsOf DEF KnownPrice, StateTypeOK
    <2>2. Margin(o, IF order[o].type = "MARKET" THEN KnownPrice(o) ELSE order[o].price) \in Int
      BY <2>1, MarginIsInt
    <2>3. PICK m \in Int, d \in {"refused", "block", "reject"} :
             margin' = [margin EXCEPT ![o] = m] /\ place' = [place EXCEPT ![o] = d]
      <3>1. PICK p : p = IF order[o].type = "MARKET" THEN KnownPrice(o) ELSE order[o].price
        OBVIOUS
      <3>2. PICK k \in Int : k = Margin(o, p)
        BY <2>2, <3>1
      <3>3. PICK m \in {0, k} : margin' = [margin EXCEPT ![o] = m]
        BY <1>1, <3>1, <3>2 DEF PlaceCheck
      <3>4. PICK d \in {"refused", "block", "reject"} : place' = [place EXCEPT ![o] = d]
        BY <1>1 DEF PlaceCheck
      <3>5. m \in Int
        BY <3>2, <3>3
      <3>6. QED BY <3>3, <3>4, <3>5
    <2>4. QED BY <1>1, <2>3 DEF PlaceCheck, StateTypeOK, redisVars, bookVars
  <1>2. CASE PlaceReject(o)
    BY <1>2, NumbersAssumption DEF PlaceReject, SaveOrderFails, SaveOrder, Fault, StateTypeOK, bookVars
  <1>3. CASE PlaceBlock(o)
    BY <1>3, NumbersAssumption DEF PlaceBlock, CanBlock, Fault, StateTypeOK, bookVars
  <1>4. CASE PlaceSave(o)
    BY <1>4, NumbersAssumption DEF PlaceSave, SaveOrderFails, SaveOrder, Fault, StateTypeOK, bookVars
  <1>5. CASE PlaceUndo(o)
    BY <1>5, NumbersAssumption DEF PlaceUndo, Release, ReleaseMargin, Fault, StateTypeOK, bookVars
  <1>6. CASE PlaceAdd(o)
    BY <1>0, <1>6 DEF PlaceAdd, AddToBook, StateTypeOK, redisVars
  <1>7. QED
    BY <1>1, <1>2, <1>3, <1>4, <1>5, <1>6 DEF PlaceOrder

LEMMA CancelTypes ==
    ASSUME Durable, StateTypeOK, NEW o \in Orders, CancelOrder(o)
    PROVE  StateTypeOK'
  <1>1. CASE CancelBook(o)
    BY <1>1 DEF CancelBook, StateTypeOK, redisVars
  <1>2. CASE CancelRefused(o)
    BY <1>2 DEF CancelRefused, StateTypeOK, vars, redisVars, bookVars
  <1>3. CASE CancelRelease(o)
    <2>1. Margin(o, ltp) \in Int /\ Margin(o, order[o].price) \in Int
      BY TermsOf, MarginIsInt DEF StateTypeOK
    <2>2. PICK m \in Int : Release(o, m)
      BY <1>3, <2>1 DEF CancelRelease
    <2>3. /\ used' \in [Clients -> Int] /\ unsure' \subseteq Orders
          /\ faults' \in 0 .. MaxFaults
      BY <2>2, NumbersAssumption DEF Release, ReleaseMargin, Fault, StateTypeOK
    <2>4. QED BY <1>3, <2>3 DEF CancelRelease, StateTypeOK, bookVars
  <1>4. CASE CancelUnindex(o)
    BY <1>4, NumbersAssumption DEF CancelUnindex, Fault, StateTypeOK, bookVars
  <1>5. CASE CancelSave(o)
    BY <1>5, NumbersAssumption DEF CancelSave, SaveOrderFails, SaveOrder, Fault, StateTypeOK, bookVars
  <1>6. QED
    BY <1>1, <1>2, <1>3, <1>4, <1>5 DEF CancelOrder

LEMMA OtherTypes ==
    ASSUME Durable, StateTypeOK,
           \/ \E o, r \in Orders : Execute(o, r)
           \/ \E o \in Orders : PassEnds(o)
           \/ \E p \in Prices : Refresh(p) \/ Boot(p)
           \/ ExpireLTP
           \/ \E o \in Orders : ExpireOrder(o)
           \/ Crash
           \/ \E o \in Orders : RecoverOne(o)
           \/ ListenAndServe
    PROVE  StateTypeOK'
  <1>1. ASSUME NEW o \in Orders, NEW r \in Orders, Execute(o, r) PROVE StateTypeOK'
    <2> DEFINE buy == IF order[o].side = "SELL" THEN r ELSE o
               sell == IF order[o].side = "SELL" THEN o ELSE r
               q == Ledger!Smaller(order[buy].qty - filled[buy],
                                   order[sell].qty - filled[sell])
    <2>1. /\ order' = order /\ q > 0 /\ q \in Int /\ buy \in Orders /\ sell \in Orders
          /\ filled' = [filled EXCEPT ![buy] = @ + q, ![sell] = @ + q]
      <3>1. /\ order' = order /\ q > 0 /\ buy \in Orders /\ sell \in Orders
            /\ filled' = [filled EXCEPT ![buy] = @ + q, ![sell] = @ + q]
        BY <1>1, Zenon DEF Execute, Ledger!Execute
      <3>2. q \in Int
        BY <3>1, TermsOf DEF Ledger!Smaller, StateTypeOK
      <3>3. QED BY <3>1, <3>2
    <2>2. PICK a \in Statuses, b \in Statuses :
             mem' = [mem EXCEPT ![buy] = a, ![sell] = b]
      BY <1>1 DEF Execute, StatusAfterFill
    <2> HIDE DEF buy, sell, q
    <2>3. filled' \in [Orders -> Nat]
      BY <2>1 DEF StateTypeOK
    <2>4. mem' \in [Orders -> Statuses \union {"none"}]
      BY <2>1, <2>2 DEF StateTypeOK
    <2>5. QED BY <1>1, <2>1, <2>3, <2>4 DEF Execute, StateTypeOK, redisVars
  <1>2. ASSUME NEW o \in Orders, PassEnds(o) PROVE StateTypeOK'
    BY <1>2 DEF PassEnds, StateTypeOK, redisVars
  <1>3. ASSUME NEW p \in Prices, Refresh(p) PROVE StateTypeOK'
    BY <1>3, NumbersAssumption DEF Refresh, StateTypeOK, bookVars
  <1>4. ASSUME NEW p \in Prices, Boot(p) PROVE StateTypeOK'
    <2>1. GetOpenOrders \subseteq Orders
      BY DEF GetOpenOrders, StateTypeOK
    <2>2. /\ toRecover' \subseteq Orders /\ missed' \subseteq Orders
          /\ faults' \in 0 .. MaxFaults /\ boots' \in 0 .. MaxBoots
      BY <1>4, <2>1, NumbersAssumption DEF Boot, Fault, StateTypeOK
    <2>3. QED BY <1>4, <2>2, NumbersAssumption DEF Boot, StateTypeOK, bookVars
  <1>5. CASE ExpireLTP
    BY <1>5 DEF ExpireLTP, StateTypeOK, bookVars
  <1>6. ASSUME NEW o \in Orders, ExpireOrder(o) PROVE StateTypeOK'
    BY <1>6 DEF ExpireOrder, StateTypeOK, bookVars
  <1>7. CASE Crash
    BY <1>7 DEF Crash, StateTypeOK, redisVars
  <1>8. ASSUME NEW o \in Orders, RecoverOne(o) PROVE StateTypeOK'
    <2>1. CASE order[o].listed
      BY <1>8, <2>1 DEF RecoverOne, AddToBook, StateTypeOK, redisVars
    <2>2. CASE ~order[o].listed
      BY <1>8, <2>2 DEF RecoverOne, StateTypeOK, redisVars, bookVars
    <2>3. QED BY <2>1, <2>2
  <1>9. CASE ListenAndServe
    BY <1>9 DEF ListenAndServe, StateTypeOK, redisVars, bookVars
  <1>10. QED
    BY <1>1, <1>2, <1>3, <1>4, <1>5, <1>6, <1>7, <1>8, <1>9

LEMMA StateTypes == Spec => []StateTypeOK
  <1>1. Durable /\ StateTypeOK /\ [Next]_vars => StateTypeOK'
    <2>1. ASSUME StateTypeOK, UNCHANGED vars PROVE StateTypeOK'
      BY <2>1 DEF StateTypeOK, vars, redisVars, bookVars
    <2>2. QED
      BY <2>1, PlaceTypes, CancelTypes, OtherTypes DEF Next
  <1>2. QED
    BY InitTypes, <1>1, Durability, PTL DEF Spec

\* Before PlaceCheck no margin has been computed, and no used margin is negative
\* unless the client has an order with a negative one.
AccountTypeOK ==
    /\ \A o \in Orders : place[o] = "new" => margin[o] = 0
    /\ \A c \in Clients : NoNegativeMargin(c) => used[c] >= 0

\* ReleaseMargin writes no negative amount.
LEMMA ReleaseIsFloored ==
    ASSUME StateTypeOK, NEW o \in Orders, NEW m \in Int, Release(o, m), NEW c \in Clients
    PROVE  used'[c] = used[c] \/ used'[c] >= 0
  BY DEF Release, ReleaseMargin, StateTypeOK

\* BlockMargin adds, ReleaseMargin is floored, InitAccount writes 0, and nothing else
\* writes an account.
LEMMA AccountStep ==
    ASSUME StateTypeOK, StateTypeOK', AccountTypeOK, Next
    PROVE  AccountTypeOK'
  <1>1. ASSUME UNCHANGED <<order, margin, used>>,
               \A o \in Orders : place'[o] = "new" => place[o] = "new"
        PROVE  AccountTypeOK'
    BY <1>1, Zenon DEF AccountTypeOK, NoNegativeMargin, OrdersOf, Clients
  <1>2. ASSUME NEW o \in Orders, PlaceCheck(o) PROVE AccountTypeOK'
    <2>1. /\ order' = order /\ used' = used /\ place[o] = "new" /\ place'[o] # "new"
          /\ \A x \in Orders : x # o => place'[x] = place[x] /\ margin'[x] = margin[x]
      BY <1>2 DEF PlaceCheck, StateTypeOK, redisVars
    <2>2. margin[o] = 0
      BY <2>1 DEF AccountTypeOK
    <2>3. \A x \in Orders : margin'[x] >= 0 => margin[x] >= 0
      BY <2>1, <2>2
    <2>4. \A c \in Clients : NoNegativeMargin(c)' => NoNegativeMargin(c)
      BY <2>1, <2>3 DEF NoNegativeMargin, OrdersOf
    <2>5. QED BY <2>1, <2>4, Zenon DEF AccountTypeOK, Clients
  <1>3. ASSUME NEW o \in Orders, PlaceBlock(o) PROVE AccountTypeOK'
    <2>1. /\ order' = order /\ margin' = margin
          /\ \A x \in Orders : place'[x] = "new" => place[x] = "new"
          /\ used' = used \/ used' = [used EXCEPT ![order[o].client] = @ + margin[o]]
      BY <1>3 DEF PlaceBlock, StateTypeOK
    <2>2. ASSUME NEW c \in Clients, NoNegativeMargin(c) PROVE used'[c] >= 0
      <3>1. used[c] >= 0 /\ used[c] \in Int /\ margin[o] \in Int
        BY <2>2 DEF AccountTypeOK, StateTypeOK
      <3>2. c = order[o].client => margin[o] >= 0
        BY <2>2 DEF NoNegativeMargin, OrdersOf
      <3>3. QED BY <2>1, <3>1, <3>2 DEF StateTypeOK
    <2>3. \A c \in Clients : NoNegativeMargin(c)' = NoNegativeMargin(c)
      BY <2>1 DEF NoNegativeMargin, OrdersOf
    <2>4. QED BY <2>1, <2>2, <2>3 DEF AccountTypeOK, Clients
  <1>4. ASSUME NEW o \in Orders, NEW m \in Int, Release(o, m),
               UNCHANGED <<order, margin>>,
               \A x \in Orders : place'[x] = "new" => place[x] = "new"
        PROVE  AccountTypeOK'
    <2>1. \A c \in Clients : NoNegativeMargin(c)' = NoNegativeMargin(c)
      BY <1>4 DEF NoNegativeMargin, OrdersOf
    <2>2. QED BY <1>4, <2>1, ReleaseIsFloored DEF AccountTypeOK, Clients
  <1>5. ASSUME NEW o \in Orders, PlaceUndo(o) PROVE AccountTypeOK'
    <2>1. /\ Release(o, margin[o]) /\ margin[o] \in Int /\ UNCHANGED <<order, margin>>
          /\ \A x \in Orders : place'[x] = "new" => place[x] = "new"
      BY <1>5 DEF PlaceUndo, StateTypeOK
    <2>2. QED BY <1>4, <2>1
  <1>6. ASSUME NEW o \in Orders, CancelRelease(o) PROVE AccountTypeOK'
    <2>1. Margin(o, ltp) \in Int /\ Margin(o, order[o].price) \in Int
      BY TermsOf, MarginIsInt DEF StateTypeOK
    <2>2. PICK m \in Int : Release(o, m)
      BY <1>6, <2>1 DEF CancelRelease
    <2>3. UNCHANGED <<order, margin, place>>
      BY <1>6 DEF CancelRelease
    <2>4. QED BY <1>4, <2>2, <2>3
  <1>7. ASSUME NEW p \in Prices, Boot(p) PROVE AccountTypeOK'
    <2>1. UNCHANGED <<order, margin, place>> /\ \A c \in Clients : used'[c] = 0
      BY <1>7 DEF Boot, Clients
    <2>2. QED BY <2>1 DEF AccountTypeOK, Clients
  <1>8. ASSUME NEW o \in Orders, PlaceReject(o) \/ PlaceSave(o) \/ PlaceAdd(o)
        PROVE  AccountTypeOK'
    <2>1. UNCHANGED <<order, margin, used>>
          /\ \A x \in Orders : place'[x] = "new" => place[x] = "new"
      BY <1>8 DEF PlaceReject, PlaceSave, PlaceAdd, redisVars, StateTypeOK
    <2>2. QED BY <1>1, <2>1
  <1>9. ASSUME NEW o \in Orders,
               CancelBook(o) \/ CancelRefused(o) \/ CancelUnindex(o) \/ CancelSave(o)
        PROVE  UNCHANGED <<order, margin, used, place>>
    BY <1>9 DEF CancelBook, CancelRefused, CancelUnindex, CancelSave, vars, redisVars
  <1>10. ASSUME NEW o \in Orders, NEW x \in Orders, Execute(o, x)
         PROVE  UNCHANGED <<order, margin, used, place>>
    <2>1. order' = order
      BY <1>10 DEF Execute, Ledger!Execute
    <2>2. QED BY <1>10, <2>1 DEF Execute, redisVars
  <1>11. ASSUME NEW o \in Orders, PassEnds(o) \/ ExpireOrder(o) \/ RecoverOne(o)
         PROVE  UNCHANGED <<order, margin, used, place>>
    BY <1>11 DEF PassEnds, ExpireOrder, RecoverOne, redisVars
  <1>12. ASSUME NEW p \in Prices, Refresh(p)
         PROVE  UNCHANGED <<order, margin, used, place>>
    BY <1>12 DEF Refresh
  <1>13. CASE ExpireLTP \/ ListenAndServe
    <2>1. UNCHANGED <<order, margin, used, place>>
      BY <1>13 DEF ExpireLTP, ListenAndServe, redisVars
    <2>2. QED BY <1>1, <2>1
  <1>14. CASE Crash
    <2>1. UNCHANGED <<order, margin, used>>
          /\ \A x \in Orders : place'[x] = "new" => place[x] = "new"
      BY <1>14 DEF Crash, redisVars
    <2>2. QED BY <1>1, <2>1
  <1>15. QED
    BY <1>1, <1>2, <1>3, <1>5, <1>6, <1>7, <1>8, <1>9, <1>10, <1>11, <1>12, <1>13, <1>14
       DEF Next, PlaceOrder, CancelOrder

\* Every variable keeps its type, no order is in memory while no process runs, and
\* the used margin in Redis is negative only for a client with an order of negative
\* margin, for any prices the risk checks let pass and any failures of Redis
\* (PlaceOrder, CancelOrder, RecoverFromRedis, ReleaseMargin).
THEOREM OmsTypes == Spec => []TypeOK
  <1>1. Init => AccountTypeOK
    BY DEF Init, AccountTypeOK, Clients
  <1>2. StateTypeOK /\ StateTypeOK' /\ AccountTypeOK /\ [Next]_vars => AccountTypeOK'
    <2>1. ASSUME AccountTypeOK, UNCHANGED vars PROVE AccountTypeOK'
      BY <2>1, Zenon DEF AccountTypeOK, NoNegativeMargin, OrdersOf, Clients, vars, redisVars
    <2>2. QED BY <2>1, AccountStep
  <1>3. StateTypeOK /\ AccountTypeOK => TypeOK
    BY DEF TypeOK, AccountTypeOK
  <1>4. QED
    BY <1>1, <1>2, <1>3, StateTypes, PTL DEF Spec

-----------------------------------------------------------------------------
(* Margin *)

\* What is owed for each order if the margin of the orders in lost was blocked, or
\* not released, by a call that returned an error.
AccountsWith(lost) ==
    \A c \in Clients :
        LET owed == SumFunctionOnSet(Owed(lost), OrdersOf(c))
        IN NoMarketCancel(c) =>
             /\ used[c] >= owed
             /\ NoNegativeMargin(c) => used[c] = owed /\ used[c] <= Balance[c]

\* Of an order that may still be blocked, undone or released no margin call failed;
\* its margin is what CancelOrder will compute anew, unless it is a market order; and
\* in the first life an order in the book was accepted and nobody cancelled it.
MarginFacts(o) ==
    /\ place[o] = "new" => margin[o] = 0
    /\ place[o] \in {"new", "block"} \/ Bound(o) => o \notin unsure
    /\ (place[o] = "block" \/ Bound(o)) /\ order[o].type # "MARKET"
          => margin[o] = Margin(o, order[o].price)
    /\ o \in book => place[o] = "accepted" /\ cancel[o] = "none"
    /\ cancel[o] # "none" => place[o] = "accepted"

\* Before the first start no order was placed; and in the first life there is
\* nothing to recover.
MarginInv ==
    /\ boots = 0 => /\ phase = "down"
                    /\ unsure = {}
                    /\ \A o \in Orders : /\ place[o] = "new" /\ cancel[o] = "none"
                                         /\ margin[o] = 0
    /\ boots = 1 /\ phase # "down" =>
          /\ toRecover = {}
          /\ \A o \in Orders : MarginFacts(o)
          /\ \E lost \in SUBSET unsure : AccountsWith(lost)

\* A client's sum moves by what the one order moves, and no other client's does.
LEMMA SumMoves ==
    ASSUME StateTypeOK, NEW o \in Orders, NEW f, NEW g,
           \A x \in Orders : f[x] \in Int /\ g[x] \in Int,
           \A x \in Orders : x # o => g[x] = f[x],
           NEW c \in Clients
    PROVE  /\ SumFunctionOnSet(f, OrdersOf(c)) \in Int
           /\ SumFunctionOnSet(g, OrdersOf(c)) =
                SumFunctionOnSet(f, OrdersOf(c))
                  + (IF c = order[o].client THEN g[o] - f[o] ELSE 0)
  <1>1. PICK S : S = OrdersOf(c)
    OBVIOUS
  <1>2. /\ IsFiniteSet(S) /\ S \subseteq Orders
        /\ o \in S <=> c = order[o].client
    BY <1>1, OrdersAssumption, FS_Subset DEF OrdersOf
  <1>3. IsIntOn(f, S)
    BY <1>2 DEF IsIntOn
  <1>4. SumFunctionOnSet(f, S) \in Int
    BY <1>2, <1>3, SumIsInt
  <1>5. CASE c = order[o].client
    <2>1. o \in S /\ g[o] \in Int /\ \A y \in S : y # o => g[y] = f[y]
      BY <1>2, <1>5
    <2>2. SumFunctionOnSet(g, S) = SumFunctionOnSet(f, S) + (g[o] - f[o])
      BY <1>2, <1>3, <2>1, SumChange
    <2>3. QED BY <1>1, <1>4, <1>5, <2>2
  <1>6. CASE c # order[o].client
    <2>1. \A y \in S : f[y] = g[y]
      BY <1>2, <1>6
    <2>2. SumFunctionOnSet(f, S) = SumFunctionOnSet(g, S)
      BY <1>2, <2>1, SumAgree
    <2>3. QED BY <1>1, <1>4, <1>6, <2>2
  <1>7. QED BY <1>5, <1>6

\* A client without negative margins owes at least the margin of each of its orders.
LEMMA OwedIsPart ==
    ASSUME StateTypeOK, NEW o \in Orders, NEW f, \A x \in Orders : f[x] \in Int,
           \A x \in OrdersOf(order[o].client) : f[x] >= 0
    PROVE  f[o] <= SumFunctionOnSet(f, OrdersOf(order[o].client))
  <1>1. PICK S : S = OrdersOf(order[o].client)
    OBVIOUS
  <1>2. IsFiniteSet(S) /\ S \subseteq Orders /\ o \in S
    BY <1>1, OrdersAssumption, FS_Subset DEF OrdersOf
  <1>3. IsFiniteSet(S \ {o}) /\ IsIntOn(f, S) /\ \A x \in S : f[x] \in Nat
    BY <1>1, <1>2, FS_RemoveElement DEF IsIntOn
  <1>4. SumFunctionOnSet(f, S) = f[o] + SumFunctionOnSet(f, S \ {o})
    BY <1>2, <1>3, SumRemove
  <1>5. SumFunctionOnSet(f, S \ {o}) \in Nat
    BY <1>3, SumIsNat
  <1>6. QED BY <1>1, <1>2, <1>3, <1>4, <1>5

LEMMA OwedIsInt ==
    ASSUME StateTypeOK, NEW lost
    PROVE  \A x \in Orders : Owed(lost)[x] \in Int
  BY DEF Owed, StateTypeOK

\* A step that touches no account, and at most moves an order from those that are
\* bound to those whose margin call returned an error.
LEMMA AccountsKept ==
    ASSUME StateTypeOK, NEW lost, NEW gone, AccountsWith(lost),
           order' = order, used' = used,
           \A x \in Orders : Owed(gone)'[x] = Owed(lost)[x],
           \A x \in Orders : /\ margin'[x] >= 0 => margin[x] >= 0
                             /\ cancel'[x] = "none" => cancel[x] = "none"
    PROVE  AccountsWith(gone)'
  <1>1. SUFFICES ASSUME NEW c \in Clients, NoMarketCancel(c)'
                 PROVE  LET owed == SumFunctionOnSet(Owed(gone)', OrdersOf(c)')
                        IN /\ used'[c] >= owed
                           /\ NoNegativeMargin(c)' => used'[c] = owed /\ used'[c] <= Balance[c]
    BY Zenon DEF AccountsWith, Clients
  <1>2. OrdersOf(c)' = OrdersOf(c) /\ OrdersOf(c) \subseteq Orders /\ IsFiniteSet(OrdersOf(c))
    BY OrdersAssumption, FS_Subset DEF OrdersOf
  <1>3. NoMarketCancel(c) /\ (NoNegativeMargin(c)' => NoNegativeMargin(c))
    BY <1>1, <1>2 DEF NoMarketCancel, NoNegativeMargin
  <1>4. \A x \in OrdersOf(c) : Owed(gone)'[x] = Owed(lost)[x]
    BY <1>2
  <1>5. SumFunctionOnSet(Owed(gone)', OrdersOf(c)) = SumFunctionOnSet(Owed(lost), OrdersOf(c))
    BY <1>2, <1>4, SumAgree
  <1>6. QED BY <1>2, <1>3, <1>5 DEF AccountsWith

\* BlockMargin's script adds the margin of one order, once the client can pay for it.
LEMMA BlockKeepsAccounts ==
    ASSUME StateTypeOK, StateTypeOK', NEW o \in Orders, NEW lost, NEW gone,
           AccountsWith(lost), Owed(lost)[o] = 0, Owed(gone)'[o] = margin[o],
           \A x \in Orders : x # o => Owed(gone)'[x] = Owed(lost)[x],
           CanBlock(order[o].client, margin[o]),
           used' = [used EXCEPT ![order[o].client] = @ + margin[o]],
           UNCHANGED <<order, margin, cancel>>
    PROVE  AccountsWith(gone)'
  <1>1. SUFFICES ASSUME NEW c \in Clients, NoMarketCancel(c)'
                 PROVE  LET owed == SumFunctionOnSet(Owed(gone)', OrdersOf(c)')
                        IN /\ used'[c] >= owed
                           /\ NoNegativeMargin(c)' => used'[c] = owed /\ used'[c] <= Balance[c]
    BY Zenon DEF AccountsWith, Clients
  <1>2. OrdersOf(c)' = OrdersOf(c)
    BY DEF OrdersOf
  <1>3. NoMarketCancel(c) /\ (NoNegativeMargin(c)' => NoNegativeMargin(c))
    BY <1>1, <1>2 DEF NoMarketCancel, NoNegativeMargin
  <1>4. PICK f, g : f = Owed(lost) /\ g = Owed(gone)'
    OBVIOUS
  <1>5. (\A x \in Orders : f[x] \in Int) /\ (\A x \in Orders : g[x] \in Int)
    <2>1. margin[o] \in Int /\ \A x \in Orders : f[x] \in Int
      BY <1>4, OwedIsInt DEF StateTypeOK
    <2>2. g[o] = margin[o] /\ \A x \in Orders : x # o => g[x] = f[x]
      BY <1>4
    <2>3. QED BY <2>1, <2>2
  <1>6. /\ SumFunctionOnSet(f, OrdersOf(c)) \in Int
        /\ SumFunctionOnSet(g, OrdersOf(c)) =
             SumFunctionOnSet(f, OrdersOf(c)) + (IF c = order[o].client THEN g[o] - f[o] ELSE 0)
    <2>1. \A x \in Orders : x # o => g[x] = f[x]
      BY <1>4
    <2>2. QED BY <1>5, <2>1, SumMoves
  <1>7. /\ used[c] >= SumFunctionOnSet(f, OrdersOf(c))
        /\ NoNegativeMargin(c) => used[c] = SumFunctionOnSet(f, OrdersOf(c))
                                  /\ used[c] <= Balance[c]
    BY <1>3, <1>4 DEF AccountsWith
  <1>8. used[c] \in Int /\ Balance[c] \in Nat /\ margin[o] \in Int
    BY NumbersAssumption DEF StateTypeOK
  <1>9. used'[c] = used[c] + (IF c = order[o].client THEN margin[o] ELSE 0)
    BY <1>8 DEF StateTypeOK
  <1>10. PICK s \in Int : s = SumFunctionOnSet(f, OrdersOf(c))
    BY <1>6
  <1>11. SumFunctionOnSet(g, OrdersOf(c)) = s + (IF c = order[o].client THEN margin[o] ELSE 0)
    BY <1>4, <1>6, <1>8, <1>10
  <1>12. c = order[o].client => Balance[c] - used[c] >= margin[o]
    BY DEF CanBlock
  <1>13. QED
    BY <1>2, <1>3, <1>4, <1>7, <1>8, <1>9, <1>10, <1>11, <1>12

\* ReleaseMargin's script takes away the margin of an order that is bound.  Where no
\* margin is negative the used margin is at least that much, and the floor at zero
\* cuts nothing off; where one is, the floor leaves more than is owed.
LEMMA ReleaseKeepsAccounts ==
    ASSUME StateTypeOK, StateTypeOK', NEW o \in Orders, NEW lost,
           AccountsWith(lost), Owed(lost)[o] = margin[o], Owed(lost)'[o] = 0,
           \A x \in Orders : x # o => Owed(lost)'[x] = Owed(lost)[x],
           ReleaseMargin(order[o].client, margin[o]),
           UNCHANGED <<order, margin>>,
           \A x \in Orders : cancel'[x] = "none" => cancel[x] = "none"
    PROVE  AccountsWith(lost)'
  <1>1. SUFFICES ASSUME NEW c \in Clients, NoMarketCancel(c)'
                 PROVE  LET owed == SumFunctionOnSet(Owed(lost)', OrdersOf(c)')
                        IN /\ used'[c] >= owed
                           /\ NoNegativeMargin(c)' => used'[c] = owed /\ used'[c] <= Balance[c]
    BY Zenon DEF AccountsWith, Clients
  <1>2. OrdersOf(c)' = OrdersOf(c)
    BY DEF OrdersOf
  <1>3. NoMarketCancel(c) /\ (NoNegativeMargin(c)' => NoNegativeMargin(c))
    BY <1>1, <1>2 DEF NoMarketCancel, NoNegativeMargin, OrdersOf
  <1>4. PICK f, g : f = Owed(lost) /\ g = Owed(lost)'
    OBVIOUS
  <1>5. (\A x \in Orders : f[x] \in Int) /\ (\A x \in Orders : g[x] \in Int)
    <2>1. \A x \in Orders : f[x] \in Int
      BY <1>4, OwedIsInt
    <2>2. g[o] = 0 /\ \A x \in Orders : x # o => g[x] = f[x]
      BY <1>4
    <2>3. QED BY <2>1, <2>2
  <1>6. /\ SumFunctionOnSet(f, OrdersOf(c)) \in Int
        /\ SumFunctionOnSet(g, OrdersOf(c)) =
             SumFunctionOnSet(f, OrdersOf(c)) + (IF c = order[o].client THEN g[o] - f[o] ELSE 0)
    <2>1. \A x \in Orders : x # o => g[x] = f[x]
      BY <1>4
    <2>2. QED BY <1>5, <2>1, SumMoves
  <1>7. /\ used[c] >= SumFunctionOnSet(f, OrdersOf(c))
        /\ NoNegativeMargin(c) => used[c] = SumFunctionOnSet(f, OrdersOf(c))
                                  /\ used[c] <= Balance[c]
    BY <1>3, <1>4 DEF AccountsWith
  <1>8. used[c] \in Int /\ Balance[c] \in Nat /\ margin[o] \in Int
    BY NumbersAssumption DEF StateTypeOK
  <1>9. used'[c] = IF c # order[o].client THEN used[c]
                   ELSE IF used[c] > margin[o] THEN used[c] - margin[o] ELSE 0
    BY <1>8 DEF ReleaseMargin, StateTypeOK
  <1>10. PICK s \in Int : s = SumFunctionOnSet(f, OrdersOf(c))
    BY <1>6
  <1>11. SumFunctionOnSet(g, OrdersOf(c)) = s - (IF c = order[o].client THEN margin[o] ELSE 0)
    BY <1>4, <1>6, <1>8, <1>10
  <1>12. ASSUME NoNegativeMargin(c), c = order[o].client
         PROVE  0 <= margin[o] /\ margin[o] <= s
    <2>1. \A x \in OrdersOf(c) : f[x] >= 0
      BY <1>4, <1>12 DEF Owed, OrdersOf, NoNegativeMargin
    <2>2. f[o] <= s
      BY <1>5, <1>10, <1>12, <2>1, OwedIsPart
    <2>3. margin[o] >= 0
      BY <1>12 DEF OrdersOf, NoNegativeMargin
    <2>4. QED BY <1>4, <1>8, <2>2, <2>3
  <1>13. CASE c # order[o].client
    BY <1>2, <1>3, <1>4, <1>7, <1>8, <1>9, <1>10, <1>11, <1>13
  <1>14. CASE c = order[o].client
    <2>1. used'[c] >= used[c] - margin[o]
      BY <1>8, <1>9, <1>14
    <2>2. used'[c] >= s - margin[o]
      BY <1>7, <1>8, <1>9, <1>10, <1>14, <2>1
    <2>3. ASSUME NoNegativeMargin(c) PROVE used'[c] = s - margin[o] /\ used'[c] <= Balance[c]
      BY <1>7, <1>8, <1>9, <1>10, <1>12, <1>14, <2>3
    <2>4. QED BY <1>2, <1>3, <1>4, <1>8, <1>11, <1>14, <2>2, <2>3
  <1>15. QED BY <1>13, <1>14

\* An order that a step leaves alone keeps its facts and what is owed for it.
LEMMA OthersKept ==
    ASSUME NEW x \in Orders, MarginFacts(x), NEW lost, order' = order,
           place'[x] = place[x], cancel'[x] = cancel[x], margin'[x] = margin[x],
           x \in unsure' => x \in unsure, x \in book' => x \in book
    PROVE  MarginFacts(x)' /\ Owed(lost)'[x] = Owed(lost)[x]
  BY DEF MarginFacts, Bound, Margin, Owed

\* PlaceOrder: nothing is owed before BlockMargin, the margin from then on, and the
\* undo gives back just that.
LEMMA PlaceMargin ==
    ASSUME Durable, StateTypeOK, StateTypeOK', MarginInv, NEW o \in Orders, PlaceOrder(o)
    PROVE  MarginInv'
  <1>1. /\ order' = order /\ cancel' = cancel /\ boots' = boots /\ toRecover' = toRecover
        /\ phase' = phase /\ \A x \in Orders : x # o => place'[x] = place[x]
    BY DEF PlaceOrder, PlaceCheck, PlaceReject, PlaceBlock, PlaceSave, PlaceUndo, PlaceAdd,
           StateTypeOK
  <1>2. boots # 0
    BY DEF MarginInv, PlaceOrder, PlaceCheck, PlaceReject, PlaceBlock, PlaceSave, PlaceUndo,
           PlaceAdd
  <1>3. SUFFICES ASSUME boots = 1, phase # "down"
                 PROVE  /\ \A x \in Orders : MarginFacts(x)'
                        /\ \E gone \in SUBSET unsure' : AccountsWith(gone)'
    BY <1>1, <1>2 DEF MarginInv
  <1>4. PICK lost \in SUBSET unsure : AccountsWith(lost)
    BY <1>3 DEF MarginInv
  <1>5. toRecover = {} /\ \A x \in Orders : MarginFacts(x)
    BY <1>3 DEF MarginInv
  <1>6. place[o] # "accepted" => cancel[o] = "none" /\ o \notin book
    BY <1>5 DEF MarginFacts
  <1>7. place'[o] # place[o] => place[o] # "accepted"
    BY DEF PlaceOrder, PlaceCheck, PlaceReject, PlaceBlock, PlaceSave, PlaceUndo, PlaceAdd
  <1>8. CASE PlaceCheck(o)
    <2>1. /\ book' = book /\ used' = used /\ unsure' = unsure /\ place[o] = "new"
          /\ \A x \in Orders : x # o => margin'[x] = margin[x]
          /\ place'[o] \in {"refused", "block", "reject"}
      BY <1>8 DEF PlaceCheck, bookVars, redisVars, StateTypeOK
    <2>2. place'[o] = "block" /\ order[o].type # "MARKET"
            => margin'[o] = Margin(o, order[o].price)
      BY <1>8 DEF PlaceCheck, StateTypeOK
    <2>3. margin[o] = 0 /\ o \notin unsure /\ ~Bound(o) /\ ~Bound(o)'
      BY <1>5, <2>1 DEF MarginFacts, Bound
    <2>4. MarginFacts(o)'
      BY <1>1, <1>6, <2>1, <2>2, <2>3 DEF MarginFacts, Margin
    <2>5. \A x \in Orders : x # o => MarginFacts(x)' /\ Owed(lost)'[x] = Owed(lost)[x]
      BY <1>1, <1>5, <2>1, OthersKept
    <2>6. Owed(lost)'[o] = Owed(lost)[o]
      BY <2>3 DEF Owed
    <2>7. \A x \in Orders : /\ margin'[x] >= 0 => margin[x] >= 0
                            /\ cancel'[x] = "none" => cancel[x] = "none"
      BY <1>1, <2>1, <2>3
    <2>8. AccountsWith(lost)'
      BY <1>1, <1>4, <2>1, <2>5, <2>6, <2>7, AccountsKept
    <2>9. QED BY <2>1, <2>4, <2>5, <2>8
  <1>9. CASE PlaceReject(o) \/ PlaceSave(o) \/ PlaceAdd(o)
    <2>1. /\ used' = used /\ unsure' = unsure /\ margin' = margin
          /\ \A x \in Orders : x # o /\ x \in book' => x \in book
          /\ \/ place[o] = "reject" /\ place'[o] = "rejected" /\ book' = book
             \/ place[o] = "save" /\ place'[o] \in {"add", "undo"} /\ book' = book
             \/ place[o] = "add" /\ place'[o] = "accepted"
      BY <1>9 DEF PlaceReject, PlaceSave, PlaceAdd, AddToBook, bookVars, redisVars, StateTypeOK
    <2>2. Bound(o)' = Bound(o) /\ MarginFacts(o)'
      BY <1>1, <1>5, <1>6, <2>1 DEF MarginFacts, Bound, Margin
    <2>3. \A x \in Orders : x # o => MarginFacts(x)' /\ Owed(lost)'[x] = Owed(lost)[x]
      BY <1>1, <1>5, <2>1, OthersKept
    <2>4. Owed(lost)'[o] = Owed(lost)[o]
      BY <2>1, <2>2 DEF Owed
    <2>5. AccountsWith(lost)'
      BY <1>1, <1>4, <2>1, <2>3, <2>4, AccountsKept
    <2>6. QED BY <2>1, <2>2, <2>3, <2>5
  <1>10. CASE PlaceBlock(o)
    <2>1. /\ book' = book /\ margin' = margin /\ place[o] = "block"
          /\ unsure' \in SUBSET (unsure \union {o}) /\ unsure \subseteq unsure'
      BY <1>10 DEF PlaceBlock, bookVars
    <2>2. o \notin unsure /\ ~Bound(o) /\ cancel[o] = "none" /\ o \notin lost
      BY <1>5, <1>6, <2>1 DEF MarginFacts, Bound
    <2>3. Owed(lost)[o] = 0 /\ \A gone : o \in gone => Owed(gone)'[o] = margin[o]
      BY <2>1, <2>2 DEF Owed
    <2>4. \A x \in Orders : x # o => MarginFacts(x)' /\ Owed(lost)'[x] = Owed(lost)[x]
      BY <1>1, <1>5, <2>1, OthersKept
    <2>5. \A x \in Orders : x # o => Owed(lost \union {o})'[x] = Owed(lost)[x]
      <3>1. \A x \in Orders : x # o => Owed(lost \union {o})'[x] = Owed(lost)'[x]
        BY DEF Owed
      <3>2. QED BY <2>4, <3>1
    <2>6. CASE /\ CanBlock(order[o].client, margin[o])
               /\ used' = [used EXCEPT ![order[o].client] = @ + margin[o]]
               /\ unsure' = unsure /\ place'[o] = "save"
      <3>1. Bound(o)' /\ Owed(lost)'[o] = margin[o]
        BY <1>1, <2>1, <2>2, <2>6 DEF Bound, Owed
      <3>2. AccountsWith(lost)'
        BY <1>1, <1>4, <2>1, <2>3, <2>4, <2>6, <3>1, BlockKeepsAccounts
      <3>3. MarginFacts(o)'
        BY <1>1, <1>5, <1>6, <2>1, <2>2, <2>6 DEF MarginFacts, Bound, Margin
      <3>4. QED BY <2>4, <2>6, <3>2, <3>3
    <2>7. CASE place'[o] = "reject"
      <3>1. ~Bound(o)' /\ Owed(lost)'[o] = Owed(lost)[o]
        BY <2>2, <2>7 DEF Bound, Owed
      <3>2. MarginFacts(o)'
        BY <1>1, <1>5, <1>6, <2>1, <2>2, <2>7 DEF MarginFacts, Bound, Margin
      <3>3. CASE used' = used
        <4>1. AccountsWith(lost)'
          BY <1>1, <1>4, <2>1, <2>4, <3>1, <3>3, AccountsKept
        <4>2. QED BY <2>1, <2>4, <3>2, <4>1
      <3>4. CASE /\ CanBlock(order[o].client, margin[o])
                 /\ used' = [used EXCEPT ![order[o].client] = @ + margin[o]]
                 /\ unsure' = unsure \union {o}
        <4>1. AccountsWith(lost \union {o})'
          BY <1>1, <1>4, <2>1, <2>3, <2>5, <3>4, BlockKeepsAccounts
        <4>2. lost \union {o} \in SUBSET unsure'
          BY <3>4
        <4>3. QED BY <2>4, <3>2, <4>1, <4>2
      <3>5. QED BY <1>10, <2>7, <3>3, <3>4 DEF PlaceBlock, StateTypeOK
    <2>8. QED BY <1>10, <2>6, <2>7 DEF PlaceBlock, StateTypeOK
  <1>11. CASE PlaceUndo(o)
    <2>1. /\ book' = book /\ margin' = margin /\ place[o] = "undo" /\ place'[o] = "refused"
          /\ Release(o, margin[o])
          /\ unsure' \in SUBSET (unsure \union {o}) /\ unsure \subseteq unsure'
      BY <1>11 DEF PlaceUndo, Release, bookVars, StateTypeOK
    <2>2. Bound(o) /\ o \notin lost /\ cancel[o] = "none" /\ ~Bound(o)'
      BY <1>5, <1>6, <2>1 DEF MarginFacts, Bound
    <2>3. MarginFacts(o)'
      BY <1>1, <1>5, <1>6, <2>1, <2>2 DEF MarginFacts
    <2>4. \A x \in Orders : x # o => MarginFacts(x)' /\ Owed(lost)'[x] = Owed(lost)[x]
      BY <1>1, <1>5, <2>1, OthersKept
    <2>5. CASE ReleaseMargin(order[o].client, margin[o])
      <3>1. Owed(lost)[o] = margin[o] /\ Owed(lost)'[o] = 0
        BY <2>1, <2>2 DEF Owed
      <3>2. AccountsWith(lost)'
        BY <1>1, <1>4, <2>1, <2>4, <2>5, <3>1, ReleaseKeepsAccounts
      <3>3. QED BY <2>1, <2>3, <2>4, <3>2
    <2>6. CASE used' = used /\ unsure' = unsure \union {o}
      <3>1. \A x \in Orders : Owed(lost \union {o})'[x] = Owed(lost)[x]
        <4>1. \A x \in Orders : x # o => Owed(lost \union {o})'[x] = Owed(lost)'[x]
          BY DEF Owed
        <4>2. Owed(lost \union {o})'[o] = Owed(lost)[o]
          BY <2>1, <2>2 DEF Owed
        <4>3. QED BY <2>4, <4>1, <4>2
      <3>2. AccountsWith(lost \union {o})'
        BY <1>1, <1>4, <2>1, <2>6, <3>1, AccountsKept
      <3>3. lost \union {o} \in SUBSET unsure'
        BY <2>6
      <3>4. QED BY <2>3, <2>4, <3>2, <3>3
    <2>7. QED BY <2>1, <2>5, <2>6 DEF Release
  <1>12. QED
    BY <1>8, <1>9, <1>10, <1>11 DEF PlaceOrder

\* CancelOrder: the margin it computes anew is the one that is owed.
LEMMA CancelMargin ==
    ASSUME Durable, StateTypeOK, StateTypeOK', MarginInv, NEW o \in Orders, CancelOrder(o),
           ~UNCHANGED vars
    PROVE  MarginInv'
  <1>1. /\ order' = order /\ place' = place /\ margin' = margin
        /\ boots' = boots /\ toRecover' = toRecover /\ phase' = phase
        /\ \A x \in Orders : x # o => cancel'[x] = cancel[x]
        /\ cancel'[o] # "none" /\ book' \subseteq book
    BY DEF CancelOrder, CancelBook, CancelRefused, CancelRelease, CancelUnindex, CancelSave,
           bookVars, StateTypeOK
  <1>2. boots # 0
    BY DEF MarginInv, CancelOrder, CancelBook, CancelRefused, CancelRelease, CancelUnindex,
           CancelSave
  <1>3. SUFFICES ASSUME boots = 1, phase # "down"
                 PROVE  /\ \A x \in Orders : MarginFacts(x)'
                        /\ \E gone \in SUBSET unsure' : AccountsWith(gone)'
    BY <1>1, <1>2 DEF MarginInv
  <1>4. PICK lost \in SUBSET unsure : AccountsWith(lost)
    BY <1>3 DEF MarginInv
  <1>5. toRecover = {} /\ \A x \in Orders : MarginFacts(x)
    BY <1>3 DEF MarginInv
  <1>6. CASE CancelBook(o)
    <2>1. /\ o \in book /\ o \notin book' /\ used' = used /\ unsure' = unsure
          /\ cancel'[o] = "release"
      BY <1>6 DEF CancelBook, redisVars, StateTypeOK
    <2>2. Bound(o)' = Bound(o) /\ MarginFacts(o)'
      BY <1>1, <1>5, <2>1 DEF MarginFacts, Bound, Margin
    <2>3. \A x \in Orders : x # o => MarginFacts(x)' /\ Owed(lost)'[x] = Owed(lost)[x]
      BY <1>1, <1>5, <2>1, OthersKept
    <2>4. Owed(lost)'[o] = Owed(lost)[o]
      BY <1>1, <2>2 DEF Owed
    <2>5. \A x \in Orders : cancel'[x] = "none" => cancel[x] = "none"
      BY <1>1
    <2>6. AccountsWith(lost)'
      BY <1>1, <1>4, <2>1, <2>3, <2>4, <2>5, AccountsKept
    <2>7. QED BY <2>1, <2>2, <2>3, <2>6
  <1>7. CASE CancelUnindex(o) \/ CancelSave(o)
    <2>1. /\ used' = used /\ unsure' = unsure /\ book' = book
          /\ cancel[o] \in {"unindex", "save"} /\ cancel'[o] \in {"save", "failed", "done"}
      BY <1>7 DEF CancelUnindex, CancelSave, bookVars, StateTypeOK
    <2>2. ~Bound(o) /\ ~Bound(o)' /\ MarginFacts(o)'
      BY <1>1, <1>5, <2>1 DEF MarginFacts, Bound
    <2>3. \A x \in Orders : x # o => MarginFacts(x)' /\ Owed(lost)'[x] = Owed(lost)[x]
      BY <1>1, <1>5, <2>1, OthersKept
    <2>4. Owed(lost)'[o] = Owed(lost)[o]
      BY <1>1, <2>2 DEF Owed
    <2>5. \A x \in Orders : cancel'[x] = "none" => cancel[x] = "none"
      BY <1>1
    <2>6. AccountsWith(lost)'
      BY <1>1, <1>4, <2>1, <2>3, <2>4, <2>5, AccountsKept
    <2>7. QED BY <2>1, <2>2, <2>3, <2>6
  <1>8. CASE CancelRelease(o)
    <2>1. PICK m : /\ m = Margin(o, IF order[o].type = "MARKET" THEN ltp ELSE order[o].price)
                   /\ Release(o, m)
      BY <1>8 DEF CancelRelease
    <2>2. /\ book' = book /\ cancel[o] = "release" /\ cancel'[o] = "unindex"
          /\ unsure' \in SUBSET (unsure \union {o}) /\ unsure \subseteq unsure'
      BY <1>8, <2>1 DEF CancelRelease, Release, bookVars, StateTypeOK
    <2>3. /\ place[o] = "accepted" /\ Bound(o) /\ ~Bound(o)' /\ o \notin lost
          /\ order[o].type # "MARKET" => m = margin[o]
      BY <1>5, <2>1, <2>2 DEF MarginFacts, Bound
    <2>4. MarginFacts(o)'
      BY <1>1, <1>5, <2>2, <2>3 DEF MarginFacts
    <2>5. \A x \in Orders : x # o => MarginFacts(x)' /\ Owed(lost)'[x] = Owed(lost)[x]
      BY <1>1, <1>5, <2>2, OthersKept
    <2>6. \A x \in Orders : cancel'[x] = "none" => cancel[x] = "none"
      BY <1>1
    <2>7. CASE order[o].type # "MARKET" /\ ReleaseMargin(order[o].client, m)
      <3>1. Owed(lost)[o] = margin[o] /\ Owed(lost)'[o] = 0
        BY <2>2, <2>3 DEF Owed
      <3>2. AccountsWith(lost)'
        BY <1>1, <1>4, <2>3, <2>5, <2>6, <2>7, <3>1, ReleaseKeepsAccounts
      <3>3. QED BY <2>2, <2>4, <2>5, <3>2
    <2>8. CASE used' = used /\ unsure' = unsure \union {o}
      <3>1. \A x \in Orders : Owed(lost \union {o})'[x] = Owed(lost)[x]
        <4>1. \A x \in Orders : x # o => Owed(lost \union {o})'[x] = Owed(lost)'[x]
          BY DEF Owed
        <4>2. Owed(lost \union {o})'[o] = Owed(lost)[o]
          BY <1>1, <2>2, <2>3 DEF Owed
        <4>3. QED BY <2>5, <4>1, <4>2
      <3>2. AccountsWith(lost \union {o})'
        BY <1>1, <1>4, <2>6, <2>8, <3>1, AccountsKept
      <3>3. lost \union {o} \in SUBSET unsure'
        BY <2>8
      <3>4. QED BY <2>4, <2>5, <3>2, <3>3
    <2>9. CASE order[o].type = "MARKET" /\ ReleaseMargin(order[o].client, m)
      <3>1. AccountsWith(lost)'
        <4>1. SUFFICES ASSUME NEW c \in Clients, NoMarketCancel(c)'
                       PROVE  LET owed == SumFunctionOnSet(Owed(lost)', OrdersOf(c)')
                              IN /\ used'[c] >= owed
                                 /\ NoNegativeMargin(c)' => used'[c] = owed
                                                            /\ used'[c] <= Balance[c]
          BY Zenon DEF AccountsWith, Clients
        <4>2. OrdersOf(c)' = OrdersOf(c) /\ OrdersOf(c) \subseteq Orders
              /\ IsFiniteSet(OrdersOf(c))
          BY <1>1, OrdersAssumption, FS_Subset DEF OrdersOf
        <4>3. o \notin OrdersOf(c) /\ c # order[o].client
          BY <1>1, <2>9, <4>1 DEF NoMarketCancel, OrdersOf
        <4>4. used'[c] = used[c]
          BY <2>9, <4>3 DEF ReleaseMargin, StateTypeOK
        <4>5. \A x \in OrdersOf(c) : Owed(lost)'[x] = Owed(lost)[x]
          BY <2>5, <4>2, <4>3
        <4>6. SumFunctionOnSet(Owed(lost)', OrdersOf(c)) = SumFunctionOnSet(Owed(lost), OrdersOf(c))
          BY <4>2, <4>5, SumAgree
        <4>7. NoMarketCancel(c) /\ (NoNegativeMargin(c)' => NoNegativeMargin(c))
          BY <1>1, <2>6, <4>1, <4>2 DEF NoMarketCancel, NoNegativeMargin
        <4>8. QED BY <1>4, <4>2, <4>4, <4>6, <4>7 DEF AccountsWith
      <3>2. QED BY <2>2, <2>4, <2>5, <3>1
    <2>10. QED BY <2>1, <2>7, <2>8, <2>9 DEF Release
  <1>9. QED
    BY <1>6, <1>7, <1>8 DEF CancelOrder, CancelRefused

\* Nothing else moves margin in the first life; a crash ends it.
LEMMA OtherMargin ==
    ASSUME Durable, StateTypeOK, StateTypeOK', MarginInv,
           \/ UNCHANGED vars
           \/ \E o, r \in Orders : Execute(o, r)
           \/ \E o \in Orders : PassEnds(o)
           \/ \E p \in Prices : Refresh(p) \/ Boot(p)
           \/ ExpireLTP
           \/ \E o \in Orders : ExpireOrder(o)
           \/ Crash
           \/ \E o \in Orders : RecoverOne(o)
           \/ ListenAndServe
    PROVE  MarginInv'
  <1> DEFINE Same == UNCHANGED <<order, used, unsure, place, margin, cancel, book, toRecover,
                                 boots>>
                     /\ (phase' = phase \/ phase # "down")
  <1>1. ASSUME Same PROVE MarginInv'
    <2>1. CASE boots = 1 /\ phase # "down"
      <3>1. PICK lost \in SUBSET unsure : AccountsWith(lost)
        BY <2>1 DEF MarginInv
      <3>2. \A x \in Orders : MarginFacts(x)' /\ Owed(lost)'[x] = Owed(lost)[x]
        BY <1>1, <2>1, OthersKept DEF MarginInv
      <3>3. AccountsWith(lost)'
        BY <1>1, <3>1, <3>2, AccountsKept
      <3>4. QED BY <1>1, <2>1, <3>2, <3>3 DEF MarginInv
    <2>2. CASE ~(boots = 1 /\ phase # "down")
      BY <1>1, <2>2 DEF MarginInv
    <2>3. QED BY <2>1, <2>2
  <1>2. CASE UNCHANGED vars
    BY <1>1, <1>2 DEF vars, redisVars, bookVars
  <1>3. ASSUME NEW o \in Orders, NEW r \in Orders, Execute(o, r) PROVE MarginInv'
    <2>1. order' = order
      BY <1>3 DEF Execute, Ledger!Execute
    <2>2. Same
      BY <1>3, <2>1 DEF Execute, redisVars
    <2>3. QED BY <1>1, <2>2
  <1>4. ASSUME NEW o \in Orders, PassEnds(o) \/ ExpireOrder(o) PROVE MarginInv'
    <2>1. Same
      BY <1>4 DEF PassEnds, ExpireOrder, redisVars, bookVars
    <2>2. QED BY <1>1, <2>1
  <1>5. ASSUME NEW p \in Prices, Refresh(p) PROVE MarginInv'
    BY <1>1, <1>5 DEF Refresh, bookVars
  <1>6. CASE ExpireLTP \/ ListenAndServe
    <2>1. Same
      BY <1>6 DEF ExpireLTP, ListenAndServe, redisVars, bookVars
    <2>2. QED BY <1>1, <2>1
  <1>7. CASE Crash
    BY <1>7 DEF Crash, MarginInv
  <1>8. ASSUME NEW o \in Orders, RecoverOne(o) PROVE MarginInv'
    <2>1. boots' = boots /\ phase' = phase /\ o \in toRecover
      BY <1>8 DEF RecoverOne
    <2>2. phase = "recovering"
      BY <2>1 DEF Durable, PhaseFacts
    <2>3. boots # 0 /\ boots # 1
      BY <2>1, <2>2 DEF MarginInv
    <2>4. QED BY <2>1, <2>3 DEF MarginInv
  <1>9. ASSUME NEW p \in Prices, Boot(p) PROVE MarginInv'
    <2>1. /\ boots \in Nat /\ boots' = boots + 1 /\ phase' # "down"
          /\ UNCHANGED <<order, unsure, place, margin, cancel, book>>
          /\ \A c \in Clients : used'[c] = 0
      BY <1>9, NumbersAssumption DEF Boot, StateTypeOK, bookVars, Clients
    <2>2. CASE boots = 0
      <3>1. /\ unsure = {} /\ book = {}
            /\ \A x \in Orders : place[x] = "new" /\ cancel[x] = "none" /\ margin[x] = 0
        BY <2>2 DEF MarginInv, StateTypeOK
      <3>2. \A x \in Orders : stored[x] = "none"
        BY <3>1 DEF Durable, PlaceFacts
      <3>3. toRecover' = {}
        BY <1>9, <3>2 DEF Boot, GetOpenOrders, StateTypeOK
      <3>4. \A x \in Orders : MarginFacts(x)' /\ Owed({})'[x] = 0
        BY <2>1, <3>1 DEF MarginFacts, Bound, Owed
      <3>5. ASSUME NEW c \in Clients
            PROVE  SumFunctionOnSet(Owed({})', OrdersOf(c)') = 0
        <4>1. IsFiniteSet(OrdersOf(c)') /\ \A x \in OrdersOf(c)' : Owed({})'[x] = 0
          BY <3>4, OrdersAssumption, FS_Subset DEF OrdersOf
        <4>2. QED BY <4>1, SumZero
      <3>6. \A c \in Clients : Balance[c] \in Nat
        BY NumbersAssumption
      <3>7. AccountsWith({})'
        BY <2>1, <3>5, <3>6 DEF AccountsWith, Clients
      <3>8. QED BY <2>1, <2>2, <3>1, <3>3, <3>4, <3>7 DEF MarginInv
    <2>3. CASE boots # 0
      BY <2>1, <2>3 DEF MarginInv
    <2>4. QED BY <2>2, <2>3
  <1>10. QED
    BY <1>2, <1>3, <1>4, <1>5, <1>6, <1>7, <1>8, <1>9

\* In the first life of the server the used margin of every client follows from the
\* stages of its orders, up to the orders whose margin call returned an error: it is
\* exact and within the balance unless one of the client's orders has a negative
\* margin, and is then never less than what is owed, for any number of orders and
\* clients and any failures of Redis (BlockMargin, ReleaseMargin, PlaceOrder,
\* CancelOrder).
THEOREM MarginAccountsAddUp == Spec => []MarginAddsUp
  <1>1. Init => MarginInv
    BY DEF Init, MarginInv
  <1>2. Durable /\ StateTypeOK /\ StateTypeOK' /\ MarginInv /\ [Next]_vars => MarginInv'
    <2>1. SUFFICES ASSUME Durable, StateTypeOK, StateTypeOK', MarginInv, [Next]_vars
                   PROVE  MarginInv'
      OBVIOUS
    <2>2. CASE UNCHANGED vars
      BY <2>1, <2>2, OtherMargin
    <2>3. CASE ~UNCHANGED vars
      BY <2>1, <2>3, PlaceMargin, CancelMargin, OtherMargin DEF Next
    <2>4. QED BY <2>2, <2>3
  <1>3. MarginInv => MarginAddsUp
    BY Zenon DEF MarginInv, MarginAddsUp, AccountsWith
  <1>4. QED
    BY <1>1, <1>2, <1>3, Durability, StateTypes, PTL DEF Spec
=============================================================================
