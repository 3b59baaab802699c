--------------------------- MODULE JournalProofs ---------------------------
(***************************************************************************)
(* Proofs about Journal, for any orders and any of the sizes and bounds:   *)
(* which trades and orders have their rows in Postgres, what the list of   *)
(* recent trades shows, and what the settlement of a day adds up to.       *)
(***************************************************************************)
EXTENDS Journal, DataLemmas

Trade == [id : 1 .. MaxTrades, buy : Orders, sell : Orders, qty : Nat \ {0}]
OrderJob(o) == <<"order", o>>
TradeJob(n) == <<"trade", n>>

\* The jobs on their way to Postgres, the next one first
Queue == pending \o writeCh

\* The trades made before the last start
Base == Len(executed) - counter

-----------------------------------------------------------------------------
(* The invariant *)

\* Only trades which were made are spoken of.
Spoken ==
    /\ counter <= Len(executed)
    /\ \A n : \/ In(tradeCh, n) \/ In(listed, n) \/ In(Queue, TradeJob(n))
              \/ TradeJob(n) \in gone \/ n \in overtaken
              => n \in DOMAIN executed
    /\ \A id \in 1 .. MaxTrades :
          tradeRow[id] # 0 => tradeRow[id] \in DOMAIN executed
                              /\ executed[tradeRow[id]].id = id

Types ==
    /\ TypeOK
    /\ ~flushing => Len(pending) < BatchSize
    /\ Spoken

\* A life of the server numbers its trades from 1, they pass through the channel in
\* order, and what it has listed came before what it has not.
Ordered ==
    /\ \A n \in DOMAIN executed : n > Base => executed[n].id = n - Base
    /\ \A i \in DOMAIN tradeCh : tradeCh[i] > Base
    /\ \A i, j \in DOMAIN tradeCh : i < j => tradeCh[i] < tradeCh[j]
    /\ \A i \in DOMAIN listed, j \in DOMAIN tradeCh : listed[i] < tradeCh[j]

\* The list begins with what was listed in this life, under keys that are its own.
Listed ==
    /\ \A i \in DOMAIN listed : listed[i] > Base
    /\ \A i, j \in DOMAIN listed : i < j => listed[j] < listed[i]
    /\ \A i \in DOMAIN listed : tradeKey[executed[listed[i]].id] = listed[i]
    /\ \A i \in 1 .. Len(listed) :
          i <= RecentCap => i <= Len(recent) /\ recent[i] = executed[listed[i]].id

\* An order is handed over once, and is then waiting, gone, or in its row.
OrderJobs ==
    /\ Once(Queue)
    /\ \A o \in Orders :
          /\ place[o] # "saved" => /\ ~In(Queue, OrderJob(o)) /\ OrderJob(o) \notin gone
                                   /\ orderRow[o] = "none"
          /\ In(Queue, OrderJob(o)) => OrderJob(o) \notin gone /\ orderRow[o] = "none"
          /\ OrderJob(o) \in gone => orderRow[o] = "none"
          /\ place[o] = "saved" => \/ In(Queue, OrderJob(o)) \/ OrderJob(o) \in gone
                                   \/ orderRow[o] # "none"

\* Whether the rows that the trade at place i of the queue refers to will be there: for
\* one that has overtaken an order, one of them will not; for another, all of them will,
\* unless a job is gone.
Before(job, i) == \E j \in 1 .. i - 1 : Queue[j] = job
Fated(n, i) ==
    IF n \in overtaken
    THEN \E o \in Sides(n) : orderRow[o] = "none" /\ ~Before(OrderJob(o), i)
    ELSE \A o \in Sides(n) : \/ orderRow[o] # "none" \/ OrderJob(o) \in gone
                             \/ Before(OrderJob(o), i)

\* A trade is in one place at a time, and its fate is known.
OnTheWay(n) == In(tradeCh, n) \/ In(Queue, TradeJob(n))
TradeJobs ==
    \A n \in DOMAIN executed :
        /\ In(tradeCh, n) => ~In(Queue, TradeJob(n)) /\ n \notin overtaken
        /\ OnTheWay(n) => TradeJob(n) \notin gone /\ ~Recorded(n) /\ n > Base
        /\ \A i \in DOMAIN Queue : Queue[i] = TradeJob(n) => Fated(n, i)
        /\ ~OnTheWay(n) => (Recorded(n) <=> ~Unrecordable(n))
        /\ Recorded(n) => \A o \in Sides(n) : orderRow[o] # "none"

\* A row says FILLED only of an order whose trades fill it.
Billable(c) == {o \in Orders : Terms[o].client = c /\ Terms[o].charged
                               /\ ExecutedQty(o) >= Terms[o].qty}
Billed ==
    /\ \A o \in Orders : filled[o] <= ExecutedQty(o)
    /\ \A o \in Orders : orderRow[o] = "FILLED" => ExecutedQty(o) >= Terms[o].qty
    /\ \A r \in 1 .. MaxRuns : \A c \in DOMAIN eod[r].figures :
          eod[r].figures[c].orders <= Cardinality(Billable(c))
    /\ BilledWereFilled

\* What the last settlement has read balances, if it is clean, and what it has not read
\* is not settled; no other is at work beside it.
BuysRead(x) == [c \in DOMAIN x.figures |-> x.figures[c].buy]
SellsRead(x) == [c \in DOMAIN x.figures |-> x.figures[c].sell]
SameDay == \A n \in TradesIn(tradeRow) : ~AcrossDays(n)
Balances(x) ==
    SameDay => SumFunctionOnSet(BuysRead(x), DOMAIN x.figures)
                 = SumFunctionOnSet(SellsRead(x), DOMAIN x.figures)
Settling(x) ==
    x.todo # {} =>
        /\ Balances(x)
        /\ \A c \in Clients : settled[c] # Unsettled => c \in DOMAIN x.figures
        /\ \A c \in DOMAIN x.figures \ x.todo : settled[c] = x.figures[c]
Balanced ==
    /\ \A c \in Clients : settled[c] # Unsettled => HasOrders(c)
    /\ \A r \in 1 .. MaxRuns : \A c \in DOMAIN eod[r].figures : HasOrders(c)
    /\ runs > 0 /\ eod[runs].clean =>
          (\A r \in 1 .. runs - 1 : eod[r].todo = {}) /\ Settling(eod[runs])
    /\ BuysEqualSells

JournalInv == Types /\ Ordered /\ Listed /\ OrderJobs /\ TradeJobs /\ Billed /\ Balanced

-----------------------------------------------------------------------------
(* The queue *)

LEMMA QueueType ==
    ASSUME TypeOK
    PROVE  /\ pending \in Seq(Jobs) /\ writeCh \in Seq(Jobs) /\ Queue \in Seq(Jobs)
           /\ \A job : In(Queue, job) <=> Waiting(job)
           /\ \A job : In(Queue, job) => job \in Jobs
  <1>1. pending \in Seq(Jobs) /\ writeCh \in Seq(Jobs)
    BY DEF TypeOK
  <1> DEFINE m == Len(pending)
             l == Len(writeCh)
  <1>2. /\ Queue \in Seq(Jobs) /\ m \in Nat /\ l \in Nat
        /\ DOMAIN pending = 1 .. m /\ DOMAIN writeCh = 1 .. l /\ DOMAIN Queue = 1 .. m + l
        /\ \A i \in 1 .. m + l : Queue[i] = IF i <= m THEN pending[i] ELSE writeCh[i - m]
    BY <1>1, ConcatProperties, LenProperties DEF Queue
  <1> HIDE DEF m, l
  <1>3. ASSUME NEW job, In(Queue, job) PROVE Waiting(job) /\ job \in Jobs
    <2>1. PICK i \in 1 .. m + l : Queue[i] = job
      BY <1>2, <1>3 DEF In
    <2>2. CASE i <= m
      BY <1>2, <2>1, <2>2, <1>1, ElementOfSeq DEF Waiting
    <2>3. CASE ~(i <= m)
      <3>1. i - m \in 1 .. l
        BY <1>2, <2>3
      <3>2. writeCh[i - m] = job
        BY <1>2, <2>1, <2>3
      <3>3. writeCh[i - m] \in Jobs
        BY <1>1, <3>1, ElementOfSeq DEF l
      <3>4. QED BY <1>2, <3>1, <3>2, <3>3 DEF Waiting
    <2>4. QED BY <2>2, <2>3
  <1>4. ASSUME NEW job, Waiting(job) PROVE In(Queue, job)
    <2>1. CASE \E i \in DOMAIN pending : pending[i] = job
      <3>1. PICK i \in 1 .. m : pending[i] = job
        BY <1>2, <2>1
      <3>2. i \in 1 .. m + l /\ i <= m
        BY <1>2
      <3>3. QED BY <1>2, <3>1, <3>2 DEF In
    <2>2. CASE \E i \in DOMAIN writeCh : writeCh[i] = job
      <3>1. PICK i \in 1 .. l : writeCh[i] = job
        BY <1>2, <2>2
      <3> DEFINE j == i + m
      <3>2. j \in 1 .. m + l /\ ~(j <= m) /\ j - m = i
        BY <1>2
      <3> HIDE DEF j
      <3>3. Queue[j] = writeCh[i]
        BY <1>2, <3>2
      <3>4. QED BY <1>2, <3>1, <3>2, <3>3 DEF In
    <2>3. QED BY <1>4, <2>1, <2>2 DEF Waiting
  <1>5. QED BY <1>1, <1>2, <1>3, <1>4

LEMMA QueueSave ==
    ASSUME TypeOK, NEW job \in Jobs, SaveAsync(job), pending' = pending
    PROVE  /\ writeCh' \in Seq(Jobs) /\ Len(writeCh') <= WriteCap
           /\ \/ Queue' = Append(Queue, job) /\ gone' = gone
              \/ Queue' = Queue /\ gone' = gone \union {job}
  <1>1. pending \in Seq(Jobs) /\ writeCh \in Seq(Jobs) /\ Len(writeCh) <= WriteCap
    BY DEF TypeOK
  <1>2. CASE Len(writeCh) < WriteCap
    <2>1. writeCh' = Append(writeCh, job) /\ gone' = gone
      BY <1>2 DEF SaveAsync
    <2>2. writeCh' \in Seq(Jobs) /\ Len(writeCh') = Len(writeCh) + 1 /\ Len(writeCh) \in Nat
      BY <1>1, <2>1, AppendProperties, LenProperties
    <2>3. Queue' = Append(Queue, job)
      BY <1>1, <2>1, StreamSend DEF Queue
    <2>4. QED BY <1>2, <2>1, <2>2, <2>3, BoundsAssumption
  <1>3. CASE ~(Len(writeCh) < WriteCap)
    BY <1>1, <1>3 DEF SaveAsync, Queue
  <1>4. QED BY <1>2, <1>3

LEMMA QueueTake ==
    ASSUME TypeOK, WriterTake
    PROVE  /\ writeCh' \in Seq(Jobs) /\ Len(writeCh') <= WriteCap
           /\ pending' \in Seq(Jobs) /\ Len(pending') = Len(pending) + 1 /\ pending' # <<>>
           /\ Queue' = Queue
  <1>1. /\ pending \in Seq(Jobs) /\ writeCh \in Seq(Jobs) /\ Len(writeCh) <= WriteCap
        /\ writeCh # <<>> /\ writeCh' = Tail(writeCh) /\ pending' = Append(pending, Head(writeCh))
    BY DEF TypeOK, WriterTake
  <1>2. /\ Head(writeCh) \in Jobs /\ writeCh' \in Seq(Jobs)
        /\ Len(writeCh') = Len(writeCh) - 1 /\ Len(writeCh) \in Nat
    BY <1>1, Received, LenProperties
  <1>3. /\ pending' \in Seq(Jobs) /\ Len(pending') = Len(pending) + 1 /\ Len(pending) \in Nat
    BY <1>1, <1>2, AppendProperties, LenProperties
  <1>4. pending' # <<>>
    BY <1>3, EmptySeq
  <1>5. Queue' = Queue
    BY <1>1, StreamTake DEF Queue
  <1>6. QED BY <1>1, <1>2, <1>3, <1>4, <1>5, BoundsAssumption

LEMMA QueueFlush ==
    ASSUME TypeOK, WriterFlush
    PROVE  /\ pending # <<>> /\ Queue # <<>> /\ Head(pending) = Head(Queue)
           /\ Head(Queue) \in Jobs /\ Queue' = Tail(Queue)
           /\ pending' \in Seq(Jobs) /\ Len(pending) \in Nat /\ Len(pending') = Len(pending) - 1
  <1>1. /\ pending \in Seq(Jobs) /\ writeCh \in Seq(Jobs) /\ pending # <<>>
        /\ writeCh' = writeCh /\ pending' = Tail(pending)
    BY DEF TypeOK, WriterFlush
  <1>2. /\ Head(pending) \in Jobs /\ pending' \in Seq(Jobs) /\ Len(pending) \in Nat
        /\ Len(pending') = Len(pending) - 1
    BY <1>1, Received, LenProperties
  <1>3. Queue # <<>> /\ Head(Queue) = Head(pending) /\ Tail(Queue) = Tail(pending) \o writeCh
    BY <1>1, StreamDrop DEF Queue
  <1>4. QED BY <1>1, <1>2, <1>3 DEF Queue

-----------------------------------------------------------------------------
(* Types *)

LEMMA TradeFacts ==
    ASSUME TypeOK
    PROVE  /\ executed \in Seq(Trade) /\ Len(executed) \in Nat /\ Len(executed) <= MaxTrades
           /\ DOMAIN executed = 1 .. Len(executed) /\ MaxTrades \in Nat
           /\ \A n \in DOMAIN executed :
                /\ n \in 1 .. MaxTrades /\ executed[n] \in Trade
                /\ executed[n].id \in 1 .. MaxTrades /\ executed[n].qty \in Nat \ {0}
                /\ executed[n].buy \in Orders /\ executed[n].sell \in Orders
                /\ Sides(n) \subseteq Orders
  <1>1. executed \in Seq(Trade) /\ Len(executed) <= MaxTrades /\ MaxTrades \in Nat
    BY BoundsAssumption DEF TypeOK, Trade
  <1>2. Len(executed) \in Nat /\ DOMAIN executed = 1 .. Len(executed)
    BY <1>1, LenProperties
  <1>3. ASSUME NEW n \in DOMAIN executed
        PROVE  /\ n \in 1 .. MaxTrades /\ executed[n] \in Trade
               /\ executed[n].id \in 1 .. MaxTrades /\ executed[n].qty \in Nat \ {0}
               /\ executed[n].buy \in Orders /\ executed[n].sell \in Orders
               /\ Sides(n) \subseteq Orders
    <2>1. n \in 1 .. MaxTrades
      BY <1>1, <1>2
    <2>2. executed[n] \in Trade
      BY <1>1, <1>2, ElementOfSeq
    <2>3. QED BY <2>1, <2>2 DEF Trade, Sides
  <1>4. QED BY <1>1, <1>2, <1>3

LEMMA ClientsFinite == IsFiniteSet(Clients) /\ \A o \in Orders : Terms[o].client \in Clients
  <1>1. [o \in Orders |-> Terms[o].client] \in Surjection(Orders, Clients)
    BY DEF Clients, Surjection
  <1>2. IsFiniteSet(Clients)
    BY <1>1, OrdersAssumption, FS_Surjection
  <1>3. QED BY <1>2 DEF Clients

\* The rows of trades, and what the query reads
LEMMA FiguresType ==
    ASSUME Types, NEW c \in Clients
    PROVE  /\ IsFiniteSet(TradesIn(tradeRow)) /\ TradesIn(tradeRow) \subseteq DOMAIN executed
           /\ FiguresOf(c) \in Figures
  <1>1. TradesIn(tradeRow) \subseteq DOMAIN executed
    <2>1. DOMAIN tradeRow = 1 .. MaxTrades
      BY DEF Types, TypeOK
    <2>2. \A id \in 1 .. MaxTrades : tradeRow[id] # 0 => tradeRow[id] \in DOMAIN executed
      BY DEF Types, Spoken
    <2>3. QED BY <2>1, <2>2 DEF TradesIn
  <1>2. IsFiniteSet(DOMAIN executed) /\ \A n \in DOMAIN executed : Qty[n] \in Nat
    <2>1. TypeOK
      BY DEF Types
    <2>2. IsFiniteSet(1 .. Len(executed))
      BY <2>1, TradeFacts, FS_Interval
    <2>3. \A n \in DOMAIN executed : executed[n].qty \in Nat
      BY <2>1, TradeFacts
    <2>4. QED BY <2>1, <2>2, <2>3, TradeFacts DEF Qty
  <1>3. \A S \in SUBSET TradesIn(tradeRow) : SumFunctionOnSet(Qty, S) \in Nat
    <2>1. ASSUME NEW S \in SUBSET TradesIn(tradeRow) PROVE SumFunctionOnSet(Qty, S) \in Nat
      <3>1. S \in SUBSET DOMAIN executed
        BY <1>1
      <3>2. IsFiniteSet(S) /\ \A n \in S : Qty[n] \in Nat
        BY <1>2, <3>1, FS_Subset
      <3>3. QED BY <3>2, SumIsNat
    <2>2. QED BY <2>1
  <1>4. \A S \in SUBSET Orders : Cardinality(S) \in Nat
    BY OrdersAssumption, FS_Subset, FS_CardinalityType
  <1>5. IsFiniteSet(TradesIn(tradeRow))
    BY <1>1, <1>2, FS_Subset
  <1> DEFINE b == {n \in TradesIn(tradeRow) : executed[n].buy \in PlacedToday(c)}
             s == {n \in TradesIn(tradeRow) : executed[n].sell \in PlacedToday(c)}
             a == {o \in PlacedToday(c) : Terms[o].charged /\ orderRow[o] = "FILLED"}
  <1>6. SumFunctionOnSet(Qty, b) \in Nat /\ SumFunctionOnSet(Qty, s) \in Nat
    BY <1>3
  <1>7. Cardinality(a) \in Nat
    <2>1. a \in SUBSET Orders
      BY DEF PlacedToday
    <2> HIDE DEF a
    <2>2. QED BY <1>4, <2>1
  <1>8. Chargeable(c) \in Nat /\ BuyValue(c) \in Nat /\ SellValue(c) \in Nat
    BY <1>6, <1>7 DEF Chargeable, BuyValue, SellValue
  <1>9. QED BY <1>1, <1>5, <1>8 DEF FiguresOf, Figures

\* What a settlement holds, now and after it is done with a client
LEMMA RunIs ==
    ASSUME NEW x, IsRun(x)
    PROVE  /\ x = [figures |-> x.figures, todo |-> x.todo, clean |-> x.clean]
           /\ x.figures \in [DOMAIN x.figures -> Figures] /\ DOMAIN x.figures \subseteq Clients
           /\ \A c \in DOMAIN x.figures : x.figures[c] \in Figures
           /\ x.todo \subseteq DOMAIN x.figures /\ x.clean \in BOOLEAN
  BY DEF IsRun

LEMMA IdleIs ==
    /\ IsRun(Idle) /\ DOMAIN Idle.figures = {} /\ Idle.todo = {} /\ Idle.clean = FALSE
  <1>1. <<>> \in [{} -> Figures]
    OBVIOUS
  <1>2. QED BY <1>1 DEF IsRun, Idle

LEMMA PassedIs ==
    ASSUME NEW x, IsRun(x), NEW c, NEW w \in BOOLEAN
    PROVE  /\ IsRun(Passed(x, c, w)) /\ Passed(x, c, w).todo = x.todo \ {c}
           /\ Passed(x, c, w).clean = w
           /\ \/ x.todo = {c} /\ DOMAIN Passed(x, c, w).figures = {}
              \/ x.todo # {c} /\ Passed(x, c, w).figures = x.figures
  <1>1. CASE x.todo = {c}
    <2>1. Passed(x, c, w) = [figures |-> <<>>, todo |-> {}, clean |-> w]
      BY <1>1 DEF Passed, Idle
    <2>2. <<>> \in [{} -> Figures] /\ x.todo \ {c} = {}
      BY <1>1
    <2>3. DOMAIN <<>> = {}
      OBVIOUS
    <2>4. /\ Passed(x, c, w).figures = <<>> /\ Passed(x, c, w).todo = {}
          /\ Passed(x, c, w).clean = w
      BY <2>1
    <2>5. IsRun(Passed(x, c, w))
      BY <2>1, <2>2 DEF IsRun
    <2>6. QED BY <1>1, <2>2, <2>3, <2>4, <2>5
  <1>2. CASE x.todo # {c}
    <2>1. PICK S \in SUBSET Clients :
             x \in [figures : [S -> Figures], todo : SUBSET S, clean : BOOLEAN]
      BY DEF IsRun
    <2>2. Passed(x, c, w) = [figures |-> x.figures, todo |-> x.todo \ {c}, clean |-> w]
      BY <1>2, <2>1 DEF Passed
    <2>3. x.figures \in [S -> Figures] /\ x.todo \ {c} \in SUBSET S
      BY <2>1
    <2>4. QED BY <1>2, <2>2, <2>3 DEF IsRun
  <1>3. QED BY <1>1, <1>2

LEMMA TypesPlace ==
    ASSUME Types, NEW o \in Orders, PlaceStore(o) \/ PlaceAdd(o) \/ PlaceSave(o)
    PROVE  Types'
  <1>1. TypeOK /\ Spoken
    BY DEF Types
  <1>2. /\ place' \in [Orders -> {"new", "stored", "added", "saved", "lost"}]
        /\ book' \subseteq Orders
    BY <1>1 DEF TypeOK, PlaceStore, PlaceAdd, PlaceSave
  <1>3. /\ UNCHANGED <<filled, counter, tradeCh, pending, flushing, tradeKey, recent, listed,
                       orderRow, tradeRow, settled, eod, executed, overtaken, boots, runs,
                       errors>>
        /\ \/ UNCHANGED <<writeCh, gone>>
           \/ SaveAsync(OrderJob(o))
    BY DEF PlaceStore, PlaceAdd, PlaceSave, redis, tables, OrderJob
  <1>4. /\ writeCh' \in Seq(Jobs) /\ Len(writeCh') <= WriteCap /\ gone' \subseteq Jobs
        /\ \A n : In(Queue', TradeJob(n)) \/ TradeJob(n) \in gone' => n \in DOMAIN executed
    <2>1. CASE UNCHANGED <<writeCh, gone>>
      BY <1>1, <1>3, <2>1 DEF TypeOK, Spoken, Queue
    <2>2. CASE SaveAsync(OrderJob(o))
      <3>1. OrderJob(o) \in Jobs /\ \A n : TradeJob(n) # OrderJob(o)
        BY DEF Jobs, OrderJob, TradeJob
      <3>2. /\ writeCh' \in Seq(Jobs) /\ Len(writeCh') <= WriteCap
            /\ \/ Queue' = Append(Queue, OrderJob(o)) /\ gone' = gone
               \/ Queue' = Queue /\ gone' = gone \union {OrderJob(o)}
        BY <1>1, <1>3, <2>2, <3>1, QueueSave
      <3>3. gone' \subseteq Jobs
        BY <1>1, <3>1, <3>2 DEF TypeOK
      <3>4. \A n : In(Queue', TradeJob(n)) => In(Queue, TradeJob(n))
        <4>1. Queue \in Seq(Jobs)
          BY <1>1, QueueType
        <4>2. \A x : In(Append(Queue, OrderJob(o)), x) <=> In(Queue, x) \/ x = OrderJob(o)
          BY <3>1, <4>1, Added
        <4>3. QED BY <3>1, <3>2, <4>2
      <3>5. \A n : TradeJob(n) \in gone' => TradeJob(n) \in gone
        BY <3>1, <3>2
      <3>6. QED BY <1>1, <3>2, <3>3, <3>4, <3>5 DEF Spoken
    <2>3. QED BY <1>3, <2>1, <2>2
  <1>5. TypeOK'
    BY <1>1, <1>2, <1>3, <1>4 DEF TypeOK
  <1>6. Spoken'
    BY <1>1, <1>3, <1>4 DEF Spoken
  <1>7. QED BY <1>3, <1>5, <1>6 DEF Types

LEMMA MinIs ==
    ASSUME NEW x \in Int, NEW y \in Int
    PROVE  Min({x, y}) \in {x, y} /\ Min({x, y}) <= x /\ Min({x, y}) <= y
  <1>1. \E z \in {x, y} : \A w \in {x, y} : z <= w
    OBVIOUS
  <1>2. QED BY <1>1 DEF Min

\* What a trade does: all that the smaller order still wants
LEMMA Executes ==
    ASSUME Types, NEW b \in Orders, NEW s \in Orders, Execute(b, s)
    PROVE  \E q \in Nat \ {0} :
             /\ b # s /\ counter' = counter + 1
             /\ q <= Terms[b].qty - filled[b] /\ q <= Terms[s].qty - filled[s]
             /\ filled' = [o \in Orders |-> IF o \in {b, s} THEN filled[o] + q ELSE filled[o]]
             /\ executed' = Append(executed, [id |-> counter + 1, buy |-> b, sell |-> s,
                                              qty |-> q])
             /\ [id |-> counter + 1, buy |-> b, sell |-> s, qty |-> q] \in Trade
             /\ Len(executed) + 1 <= MaxTrades
  <1>1. TypeOK /\ counter <= Len(executed) /\ counter \in Nat
    BY SMTT(30) DEF Types, TypeOK, Spoken
  <1> DEFINE x == Terms[b].qty - filled[b]
             y == Terms[s].qty - filled[s]
             q == Min({x, y})
             t == [id |-> counter + 1, buy |-> b, sell |-> s, qty |-> q]
  <1>2. x \in Int /\ y \in Int /\ filled \in [Orders -> Nat]
    BY <1>1, TermsAssumption DEF TypeOK
  <1>3. /\ Terms[b].side = "BUY" /\ Terms[s].side = "SELL" /\ q > 0
        /\ Len(executed) < MaxTrades /\ counter' = counter + 1
        /\ filled' = [filled EXCEPT ![b] = @ + q, ![s] = @ + q]
        /\ executed' = Append(executed, t)
    BY DEF Execute
  <1>4. b # s
    BY <1>3
  <1>5. q \in {x, y} /\ q <= x /\ q <= y
    <2> HIDE DEF x, y
    <2>1. QED BY <1>2, MinIs
  <1> HIDE DEF q, x, y
  <1>6. q \in Nat \ {0}
    BY <1>2, <1>3, <1>5
  <1>7. filled' = [o \in Orders |-> IF o \in {b, s} THEN filled[o] + q ELSE filled[o]]
    BY <1>2, <1>3, <1>4
  <1>8. Len(executed) + 1 <= MaxTrades /\ counter + 1 \in 1 .. MaxTrades
    BY <1>1, <1>3, TradeFacts
  <1>9. t \in Trade
    BY <1>6, <1>8 DEF Trade
  <1>10. QED BY <1>3, <1>4, <1>5, <1>6, <1>7, <1>8, <1>9 DEF x, y

\* ... and it is on its way, or dropped.
LEMMA Sends ==
    ASSUME NEW b \in Orders, NEW s \in Orders, Execute(b, s)
    PROVE  /\ \/ /\ tradeCh' = Append(tradeCh, Len(executed) + 1)
                 /\ Len(tradeCh) < TradeCap + PassCap /\ gone' = gone
              \/ tradeCh' = tradeCh /\ gone' = gone \union {TradeJob(Len(executed) + 1)}
           /\ UNCHANGED <<place, book, writeCh, pending, flushing, tradeKey, recent, listed,
                          orderRow, tradeRow, settled, eod, overtaken, boots, runs, errors>>
           /\ Queue' = Queue
  BY DEF Execute, redis, tables, TradeJob, Queue

\* The trades so far stay what they are, and there is one more.
LEMMA OneMore ==
    ASSUME TypeOK, NEW t \in Trade, executed' = Append(executed, t)
    PROVE  /\ executed' \in Seq(Trade) /\ Len(executed') = Len(executed) + 1
           /\ DOMAIN executed' = DOMAIN executed \union {Len(executed) + 1}
           /\ Len(executed) + 1 \notin DOMAIN executed
           /\ executed'[Len(executed) + 1] = t
           /\ \A n \in DOMAIN executed : executed'[n] = executed[n]
  <1>1. /\ executed' \in Seq(Trade) /\ Len(executed') = Len(executed) + 1
        /\ executed'[Len(executed) + 1] = t
        /\ \A n \in 1 .. Len(executed) : executed'[n] = executed[n]
    BY TradeFacts, AppendProperties
  <1>2. DOMAIN executed' = 1 .. Len(executed) + 1
    BY <1>1, LenProperties
  <1>3. QED BY <1>1, <1>2, TradeFacts

LEMMA TypesExecute ==
    ASSUME Types, NEW b \in Orders, NEW s \in Orders, Execute(b, s)
    PROVE  Types'
  <1>1. TypeOK /\ Spoken
    BY DEF Types
  <1>2. PICK q \in Nat \ {0} :
             /\ counter' = counter + 1
             /\ filled' = [o \in Orders |-> IF o \in {b, s} THEN filled[o] + q ELSE filled[o]]
             /\ executed' = Append(executed, [id |-> counter + 1, buy |-> b, sell |-> s,
                                              qty |-> q])
             /\ [id |-> counter + 1, buy |-> b, sell |-> s, qty |-> q] \in Trade
             /\ Len(executed) + 1 <= MaxTrades
    BY Executes
  <1> DEFINE n == Len(executed) + 1
  <1>3. /\ executed' \in Seq(Trade) /\ Len(executed') = n
        /\ DOMAIN executed' = DOMAIN executed \union {n} /\ n \notin DOMAIN executed
        /\ \A m \in DOMAIN executed : executed'[m] = executed[m]
    BY <1>1, <1>2, OneMore
  <1>4. n \in 1 .. MaxTrades /\ Len(executed) \in Nat
    BY <1>1, <1>2, TradeFacts
  <1>5. /\ UNCHANGED <<place, book, writeCh, pending, flushing, tradeKey, recent, listed,
                       orderRow, tradeRow, settled, eod, overtaken, boots, runs, errors>>
        /\ \/ tradeCh' = Append(tradeCh, n) /\ Len(tradeCh) < TradeCap + PassCap /\ gone' = gone
           \/ tradeCh' = tradeCh /\ gone' = gone \union {TradeJob(n)}
        /\ Queue' = Queue
    BY Sends
  <1> HIDE DEF n
  <1>6. /\ tradeCh' \in Seq(1 .. MaxTrades) /\ Len(tradeCh') <= TradeCap + PassCap
        /\ \A m : In(tradeCh', m) => In(tradeCh, m) \/ m = n
    <2>1. tradeCh \in Seq(1 .. MaxTrades) /\ Len(tradeCh) <= TradeCap + PassCap
      BY <1>1 DEF TypeOK
    <2>2. TradeCap + PassCap \in Nat
      BY BoundsAssumption
    <2> DEFINE S == 1 .. MaxTrades
    <2>3. tradeCh \in Seq(S) /\ n \in S
      BY <1>4, <2>1
    <2> HIDE DEF S
    <2>4. /\ Append(tradeCh, n) \in Seq(S) /\ Len(Append(tradeCh, n)) = Len(tradeCh) + 1
          /\ Len(tradeCh) \in Nat
          /\ \A m : In(Append(tradeCh, n), m) <=> In(tradeCh, m) \/ m = n
      BY <2>3, Added, AppendProperties, LenProperties
    <2>5. CASE tradeCh' = Append(tradeCh, n) /\ Len(tradeCh) < TradeCap + PassCap
      BY <2>2, <2>4, <2>5 DEF S
    <2>6. CASE tradeCh' = tradeCh
      BY <2>1, <2>6
    <2>7. QED BY <1>5, <2>5, <2>6
  <1>11. gone' \subseteq Jobs /\ \A m : TradeJob(m) \in gone' => TradeJob(m) \in gone \/ m = n
    <2>1. gone \subseteq Jobs
      BY <1>1 DEF TypeOK
    <2>2. TradeJob(n) \in Jobs /\ \A m : TradeJob(m) = TradeJob(n) => m = n
      BY <1>4 DEF TradeJob, Jobs
    <2>3. QED BY <1>5, <2>1, <2>2
  <1>7. filled' \in [Orders -> Nat] /\ counter' \in 0 .. MaxTrades /\ counter' <= n
    <2>1. \A o \in Orders : filled[o] \in Nat
      BY <1>1 DEF TypeOK
    <2>2. \A o \in Orders : filled[o] + q \in Nat
      BY <2>1
    <2>3. counter \in Nat /\ counter <= Len(executed)
      BY <1>1 DEF TypeOK, Spoken
    <2>4. filled' \in [Orders -> Nat]
      BY <1>2, <2>1, <2>2
    <2>5. counter' = counter + 1 /\ n = Len(executed) + 1 /\ n <= MaxTrades
      BY <1>2 DEF n
    <2>6. MaxTrades \in Nat
      BY BoundsAssumption
    <2>7. counter' \in 0 .. MaxTrades /\ counter' <= n
      BY <1>4, <2>3, <2>5, <2>6
    <2>8. QED BY <2>4, <2>7
  <1>8. TypeOK'
    BY <1>1, <1>2, <1>3, <1>5, <1>6, <1>7, <1>11 DEF TypeOK, Trade, n
  <1>9. Spoken'
    <2>2. \A m : \/ In(tradeCh', m) \/ In(listed', m) \/ In(Queue', TradeJob(m))
                 \/ TradeJob(m) \in gone' \/ m \in overtaken'
                 => m \in DOMAIN executed'
      BY <1>1, <1>3, <1>5, <1>6, <1>11 DEF Spoken
    <2>3. \A id \in 1 .. MaxTrades :
             tradeRow'[id] # 0 => tradeRow'[id] \in DOMAIN executed'
                                  /\ executed'[tradeRow'[id]].id = id
      BY <1>1, <1>3, <1>5 DEF Spoken
    <2>4. QED BY <1>3, <1>7, <2>2, <2>3 DEF Spoken
  <1>10. QED BY <1>5, <1>8, <1>9 DEF Types

\* What consumeTrades does with the next trade
LEMMA Consumes ==
    ASSUME Types, ConsumeTrade
    PROVE  LET n == Head(tradeCh)
           IN /\ tradeCh \in Seq(1 .. MaxTrades) /\ tradeCh # <<>> /\ tradeCh' = Tail(tradeCh)
              /\ In(tradeCh, n) /\ n \in DOMAIN executed /\ TradeJob(n) \in Jobs
              /\ SaveAsync(TradeJob(n))
              /\ \/ UNCHANGED redis
                 \/ Key(n) /\ UNCHANGED <<recent, listed>>
                 \/ /\ Key(n) /\ listed' = <<n>> \o listed
                    /\ recent' = Pushed(n) \/ recent' = Trimmed(Pushed(n))
              /\ overtaken' = IF \A o \in Sides(n) : place[o] = "saved" THEN overtaken
                              ELSE overtaken \union {n}
              /\ UNCHANGED <<place, book, filled, counter, pending, flushing, orderRow, tradeRow,
                             settled, eod, executed, boots, runs>>
              /\ errors' \in 0 .. MaxErrors
  <1> DEFINE n == Head(tradeCh)
  <1>1. tradeCh \in Seq(1 .. MaxTrades) /\ tradeCh # <<>> /\ tradeCh' = Tail(tradeCh)
    BY DEF Types, TypeOK, ConsumeTrade
  <1>2. In(tradeCh, n)
    <2> DEFINE S == 1 .. MaxTrades
    <2>1. tradeCh \in Seq(S)
      BY <1>1
    <2> HIDE DEF S
    <2>2. QED BY <1>1, <2>1, Received
  <1>3. n \in DOMAIN executed
    BY <1>2 DEF Types, Spoken
  <1>4. TradeJob(n) \in Jobs
    <2>1. n \in 1 .. MaxTrades
      BY <1>3, TradeFacts DEF Types
    <2>2. QED BY <2>1 DEF TradeJob, Jobs
  <1> HIDE DEF n
  <1>5. SaveAsync(TradeJob(n)) /\ (SaveTradeFails(n) \/ (SaveTrade(n) /\ UNCHANGED errors))
    BY DEF ConsumeTrade, TradeJob, n
  <1>6. \/ UNCHANGED redis
        \/ Key(n) /\ UNCHANGED <<recent, listed>>
        \/ /\ Key(n) /\ listed' = <<n>> \o listed
           /\ recent' = Pushed(n) \/ recent' = Trimmed(Pushed(n))
    BY <1>5 DEF SaveTradeFails, SaveTrade
  <1>7. errors' \in 0 .. MaxErrors
    <2>1. errors \in 0 .. MaxErrors /\ MaxErrors \in Nat
      BY BoundsAssumption DEF Types, TypeOK
    <2>2. errors' = errors \/ (errors < MaxErrors /\ errors' = errors + 1)
      BY <1>5 DEF SaveTradeFails
    <2>3. QED BY <2>1, <2>2
  <1>8. /\ overtaken' = IF \A o \in Sides(n) : place[o] = "saved" THEN overtaken
                        ELSE overtaken \union {n}
        /\ UNCHANGED <<place, book, filled, counter, pending, flushing, orderRow, tradeRow,
                       settled, eod, executed, boots, runs>>
    BY DEF ConsumeTrade, n, tables
  <1>9. QED BY <1>1, <1>2, <1>3, <1>4, <1>5, <1>6, <1>7, <1>8 DEF n

LEMMA TypesConsume ==
    ASSUME Types, ConsumeTrade
    PROVE  Types'
  <1> DEFINE n == Head(tradeCh)
             S == 1 .. MaxTrades
  <1>0. TypeOK /\ Spoken
    BY DEF Types
  <1>1. /\ tradeCh \in Seq(S) /\ tradeCh # <<>> /\ tradeCh' = Tail(tradeCh)
        /\ In(tradeCh, n) /\ n \in DOMAIN executed /\ TradeJob(n) \in Jobs
        /\ SaveAsync(TradeJob(n))
        /\ \/ UNCHANGED redis
           \/ Key(n) /\ UNCHANGED <<recent, listed>>
           \/ /\ Key(n) /\ listed' = <<n>> \o listed
              /\ recent' = Pushed(n) \/ recent' = Trimmed(Pushed(n))
        /\ overtaken' = IF \A o \in Sides(n) : place[o] = "saved" THEN overtaken
                        ELSE overtaken \union {n}
        /\ UNCHANGED <<place, book, filled, counter, pending, flushing, orderRow, tradeRow,
                       settled, eod, executed, boots, runs>>
        /\ errors' \in 0 .. MaxErrors
    BY Consumes
  <1>2. n \in S /\ executed[n].id \in S
    BY <1>0, <1>1, TradeFacts
  <1>3. recent \in Seq(S) /\ listed \in Seq(S) /\ tradeKey \in [S -> 0 .. MaxTrades]
        /\ S \subseteq 0 .. MaxTrades
    BY <1>0, BoundsAssumption DEF TypeOK
  <1> HIDE DEF n, S
  <1>4. /\ tradeCh' \in Seq(S) /\ \A m : In(tradeCh', m) => In(tradeCh, m)
        /\ Len(tradeCh') <= TradeCap + PassCap
    <2>1. /\ tradeCh' \in Seq(S) /\ \A m : In(tradeCh', m) => In(tradeCh, m)
          /\ Len(tradeCh') = Len(tradeCh) - 1 /\ Len(tradeCh) \in Nat
      BY <1>1, Received, HeadTailProperties, LenProperties
    <2>2. Len(tradeCh) <= TradeCap + PassCap /\ TradeCap + PassCap \in Nat
      BY <1>0, BoundsAssumption DEF TypeOK
    <2>3. QED BY <2>1, <2>2
  <1>5. tradeKey' \in [S -> 0 .. MaxTrades]
    <2>1. tradeKey' = tradeKey \/ tradeKey' = [tradeKey EXCEPT ![executed[n].id] = n]
      BY <1>1 DEF redis, Key
    <2>2. QED BY <1>2, <1>3, <2>1
  <1>6. listed' \in Seq(S) /\ \A m : In(listed', m) => In(listed, m) \/ m = n
    <2>1. listed' = listed \/ listed' = <<n>> \o listed
      BY <1>1 DEF redis
    <2>2. /\ <<n>> \o listed \in Seq(S)
          /\ \A m : In(<<n>> \o listed, m) => m = n \/ In(listed, m)
      BY <1>2, <1>3, Pushing
    <2>3. CASE listed' = listed
      BY <1>3, <2>3
    <2>4. CASE listed' = <<n>> \o listed
      BY <2>2, <2>4
    <2>5. QED BY <2>1, <2>3, <2>4
  <1>7. recent' \in Seq(S)
    <2> DEFINE all == <<executed[n].id>> \o recent
    <2>1. all \in Seq(S) /\ Len(all) \in Nat
      BY <1>2, <1>3, Pushing, LenProperties
    <2> HIDE DEF all
    <2>2. recent' = recent \/ recent' = all \/ recent' = Trimmed(all)
      BY <1>1 DEF redis, Pushed, all
    <2>3. Trimmed(all) \in Seq(S)
      <3>0. RecentCap \in Int /\ Len(all) \in Int /\ RecentCap \in Nat
        BY <2>1, BoundsAssumption
      <3>1. Min({RecentCap, Len(all)}) \in Nat /\ Min({RecentCap, Len(all)}) <= Len(all)
        <4>1. /\ Min({RecentCap, Len(all)}) \in {RecentCap, Len(all)}
              /\ Min({RecentCap, Len(all)}) <= Len(all)
          BY <3>0, MinIs
        <4>2. QED BY <2>1, <3>0, <4>1
      <3>2. QED BY <2>1, <3>1, Beginning DEF Trimmed
    <2>4. QED BY <1>3, <2>1, <2>2, <2>3
  <1>8. /\ writeCh' \in Seq(Jobs) /\ Len(writeCh') <= WriteCap /\ gone' \subseteq Jobs
        /\ \A m : In(Queue', TradeJob(m)) \/ TradeJob(m) \in gone'
                  => m = n \/ In(Queue, TradeJob(m)) \/ TradeJob(m) \in gone
    <2>1. /\ writeCh' \in Seq(Jobs) /\ Len(writeCh') <= WriteCap
          /\ \/ Queue' = Append(Queue, TradeJob(n)) /\ gone' = gone
             \/ Queue' = Queue /\ gone' = gone \union {TradeJob(n)}
      BY <1>0, <1>1, QueueSave
    <2>2. Queue \in Seq(Jobs)
      BY <1>0, QueueType
    <2>3. \A x : In(Append(Queue, TradeJob(n)), x) <=> In(Queue, x) \/ x = TradeJob(n)
      BY <1>1, <2>2, Added
    <2>4. gone' \subseteq Jobs
      BY <1>0, <1>1, <2>1 DEF TypeOK
    <2>5. \A m : TradeJob(m) = TradeJob(n) => m = n
      BY DEF TradeJob
    <2>6. QED BY <2>1, <2>3, <2>4, <2>5
  <1>9. overtaken' \subseteq S /\ \A m : m \in overtaken' => m = n \/ m \in overtaken
    <2>1. overtaken \subseteq S
      BY <1>0 DEF TypeOK, S
    <2>2. QED BY <1>1, <1>2, <2>1
  <1>10. TypeOK'
    BY <1>0, <1>1, <1>4, <1>5, <1>6, <1>7, <1>8, <1>9 DEF TypeOK, S
  <1>11. Spoken'
    BY <1>0, <1>1, <1>4, <1>6, <1>8, <1>9 DEF Spoken
  <1>12. QED BY <1>1, <1>10, <1>11 DEF Types

\* What the writer does with the next job: an order's
WritesOrder(o) ==
    /\ Head(Queue) = OrderJob(o)
    /\ tradeRow' = tradeRow
    /\ \/ /\ gone' = gone
          /\ orderRow' = [p \in Orders |-> IF p = o /\ orderRow[p] = "none" THEN Status(o)
                                           ELSE orderRow[p]]
       \/ gone' = gone \union {OrderJob(o)} /\ orderRow' = orderRow

\* ... or a trade's
WritesTrade(m) ==
    /\ Head(Queue) = TradeJob(m)
    /\ orderRow' = orderRow
    /\ \/ /\ gone' = gone
          /\ \A o \in Sides(m) : orderRow[o] # "none"
          /\ tradeRow' = IF tradeRow[executed[m].id] = 0
                         THEN [tradeRow EXCEPT ![executed[m].id] = m] ELSE tradeRow
       \/ /\ gone' = gone
          /\ ~(\A o \in Sides(m) : orderRow[o] # "none")
          /\ tradeRow' = tradeRow
       \/ gone' = gone \union {TradeJob(m)} /\ tradeRow' = tradeRow

LEMMA Flushes ==
    ASSUME Types, WriterFlush
    PROVE  /\ Queue \in Seq(Jobs) /\ Queue # <<>> /\ Queue' = Tail(Queue)
           /\ In(Queue, Head(Queue))
           /\ \/ \E o \in Orders : WritesOrder(o)
              \/ \E m \in DOMAIN executed : WritesTrade(m)
           /\ UNCHANGED <<place, book, filled, counter, tradeCh, writeCh, tradeKey, recent, listed,
                          settled, eod, executed, overtaken, boots, runs>>
           /\ errors' \in 0 .. MaxErrors
           /\ pending' \in Seq(Jobs) /\ Len(pending') = Len(pending) - 1 /\ Len(pending) \in Nat
           /\ Len(pending) > 0 /\ flushing' = (Len(pending) > 1)
  <1>1. TypeOK
    BY DEF Types
  <1> DEFINE job == Head(Queue)
  <1>2. /\ Queue # <<>> /\ Head(pending) = job /\ job \in Jobs /\ Queue' = Tail(Queue)
        /\ pending' \in Seq(Jobs) /\ Len(pending) \in Nat /\ Len(pending') = Len(pending) - 1
        /\ pending # <<>> /\ pending \in Seq(Jobs)
    BY <1>1, QueueFlush, QueueType
  <1>3. Queue \in Seq(Jobs) /\ In(Queue, job)
    BY <1>1, <1>2, Received, QueueType
  <1>4. /\ \/ Insertable(job) /\ ExecuteWrite(job) /\ gone' = gone
           \/ ~Insertable(job) /\ UNCHANGED <<orderRow, tradeRow, gone>>
           \/ gone' = gone \union {job} /\ UNCHANGED <<orderRow, tradeRow>>
        /\ errors' = errors \/ (errors < MaxErrors /\ errors' = errors + 1)
    BY <1>2 DEF WriterFlush
  <1> HIDE DEF job
  <1>5. ASSUME job \in {"order"} \X Orders PROVE \E o \in Orders : WritesOrder(o)
    <2>1. PICK o \in Orders : job = OrderJob(o)
      BY <1>5 DEF OrderJob
    <2>2. Insertable(job) /\ job[1] = "order"
      BY <2>1 DEF Insertable, OrderJob
    <2>3. \A p : job = <<"order", p>> <=> p = o
      BY <2>1 DEF OrderJob
    <2>4. ASSUME ExecuteWrite(job)
          PROVE  /\ tradeRow' = tradeRow
                 /\ orderRow' = [p \in Orders |-> IF p = o /\ orderRow[p] = "none"
                                                  THEN Status(o) ELSE orderRow[p]]
      BY <2>2, <2>3, <2>4 DEF ExecuteWrite
    <2>5. WritesOrder(o)
      BY <1>4, <2>1, <2>2, <2>4 DEF WritesOrder, job
    <2>6. QED BY <2>5
  <1>6. ASSUME job \in {"trade"} \X (1 .. MaxTrades) PROVE \E m \in DOMAIN executed : WritesTrade(m)
    <2>1. PICK m \in 1 .. MaxTrades : job = TradeJob(m)
      BY <1>6 DEF TradeJob
    <2>2. m \in DOMAIN executed
      BY <1>3, <2>1 DEF Types, Spoken
    <2>3. /\ job[1] = "trade" /\ job[2] = m /\ \A p : job # <<"order", p>>
          /\ Insertable(job) <=> \A o \in Sides(m) : orderRow[o] # "none"
      BY <2>1 DEF Insertable, TradeJob
    <2>4. orderRow = [p \in Orders |-> orderRow[p]]
      BY <1>1 DEF TypeOK
    <2>5. ASSUME ExecuteWrite(job)
          PROVE  /\ orderRow' = orderRow
                 /\ tradeRow' = IF tradeRow[executed[m].id] = 0
                                THEN [tradeRow EXCEPT ![executed[m].id] = m] ELSE tradeRow
      BY <2>3, <2>4, <2>5 DEF ExecuteWrite
    <2>6. WritesTrade(m)
      BY <1>4, <2>1, <2>3, <2>5 DEF WritesTrade, job
    <2>7. QED BY <2>2, <2>6
  <1>7. errors' \in 0 .. MaxErrors
    <2>1. errors \in 0 .. MaxErrors /\ MaxErrors \in Nat
      BY <1>1, BoundsAssumption DEF TypeOK
    <2>2. QED BY <1>4, <2>1
  <1>8. Len(pending) > 0
    BY <1>2, EmptySeq
  <1>9. job \in {"order"} \X Orders \/ job \in {"trade"} \X (1 .. MaxTrades)
    BY <1>2 DEF Jobs
  <1>10. /\ UNCHANGED <<place, book, filled, counter, tradeCh, writeCh, tradeKey, recent, listed,
                        settled, eod, executed, overtaken, boots, runs>>
         /\ flushing' = (Len(pending) > 1)
    BY DEF WriterFlush, redis
  <1>11. QED BY <1>2, <1>3, <1>5, <1>6, <1>7, <1>8, <1>9, <1>10 DEF job

LEMMA StatusIs ==
    \A o \in Orders : /\ Status(o) \in {"OPEN", "PARTIALLY_FILLED", "FILLED"}
                      /\ Status(o) = "FILLED" <=> filled[o] = Terms[o].qty
  BY DEF Status

LEMMA TypesWriter ==
    ASSUME Types, WriterTake \/ WriterTick \/ WriterFlush
    PROVE  Types'
  <1>0. TypeOK /\ Spoken /\ (~flushing => Len(pending) < BatchSize)
    BY DEF Types
  <1>1. Len(pending) \in Nat /\ BatchSize \in Nat \ {0} /\ Len(pending) <= BatchSize
    BY <1>0, BoundsAssumption, LenProperties DEF TypeOK
  <1>2. CASE WriterTake
    <2>1. /\ writeCh' \in Seq(Jobs) /\ Len(writeCh') <= WriteCap
          /\ pending' \in Seq(Jobs) /\ Len(pending') = Len(pending) + 1 /\ pending' # <<>>
          /\ Queue' = Queue
      BY <1>0, <1>2, QueueTake
    <2>2. /\ ~flushing /\ flushing' = (Len(pending) + 1 >= BatchSize)
          /\ UNCHANGED <<place, book, filled, counter, tradeCh, tradeKey, recent, listed, orderRow,
                         tradeRow, settled, eod, executed, gone, overtaken, boots, runs, errors>>
      BY <1>2 DEF WriterTake, redis, tables
    <2>3. Len(pending') <= BatchSize
      BY <1>0, <1>1, <2>1, <2>2
    <2>4. flushing' \in BOOLEAN
      BY <2>2
    <2>5. ASSUME ~flushing' PROVE Len(pending') < BatchSize
      <3>1. ~(Len(pending) + 1 >= BatchSize)
        BY <2>2, <2>5
      <3>2. QED BY <1>1, <2>1, <3>1
    <2>6. TypeOK'
      BY <1>0, <2>1, <2>2, <2>3, <2>4 DEF TypeOK
    <2>7. Spoken'
      BY <1>0, <2>1, <2>2 DEF Spoken
    <2>8. QED BY <2>2, <2>5, <2>6, <2>7 DEF Types
  <1>3. CASE WriterTick
    <2>1. /\ flushing' = TRUE /\ pending # <<>>
          /\ UNCHANGED <<place, book, filled, counter, tradeCh, writeCh, pending, tradeKey, recent,
                         listed, orderRow, tradeRow, settled, eod, executed, gone, overtaken,
                         boots, runs, errors>>
      BY <1>3 DEF WriterTick, redis, tables
    <2>2. TypeOK'
      BY <1>0, <2>1 DEF TypeOK
    <2>3. Spoken'
      BY <1>0, <2>1 DEF Spoken, Queue
    <2>4. QED BY <2>1, <2>2, <2>3 DEF Types
  <1>4. CASE WriterFlush
    <2>1. /\ Queue \in Seq(Jobs) /\ Queue # <<>> /\ Queue' = Tail(Queue)
          /\ In(Queue, Head(Queue))
          /\ \/ \E o \in Orders : WritesOrder(o)
             \/ \E m \in DOMAIN executed : WritesTrade(m)
          /\ UNCHANGED <<place, book, filled, counter, tradeCh, writeCh, tradeKey, recent, listed,
                         settled, eod, executed, overtaken, boots, runs>>
          /\ errors' \in 0 .. MaxErrors
          /\ pending' \in Seq(Jobs) /\ Len(pending') = Len(pending) - 1 /\ Len(pending) \in Nat
          /\ Len(pending) > 0 /\ flushing' = (Len(pending) > 1)
      BY <1>4, Flushes
    <2>2. /\ orderRow' \in [Orders -> {"none", "OPEN", "PARTIALLY_FILLED", "FILLED"}]
          /\ tradeRow' \in [1 .. MaxTrades -> 0 .. MaxTrades]
          /\ gone' = gone \/ gone' = gone \union {Head(Queue)}
          /\ \A id \in 1 .. MaxTrades :
                tradeRow'[id] # 0 => tradeRow'[id] \in DOMAIN executed
                                     /\ executed[tradeRow'[id]].id = id
      <3>1. /\ orderRow \in [Orders -> {"none", "OPEN", "PARTIALLY_FILLED", "FILLED"}]
            /\ tradeRow \in [1 .. MaxTrades -> 0 .. MaxTrades]
            /\ \A id \in 1 .. MaxTrades :
                  tradeRow[id] # 0 => tradeRow[id] \in DOMAIN executed
                                      /\ executed[tradeRow[id]].id = id
        BY <1>0 DEF TypeOK, Spoken
      <3>2. ASSUME NEW o \in Orders, WritesOrder(o)
            PROVE  /\ orderRow' \in [Orders -> {"none", "OPEN", "PARTIALLY_FILLED", "FILLED"}]
                   /\ tradeRow' = tradeRow
                   /\ gone' = gone \/ gone' = gone \union {Head(Queue)}
        BY <3>1, <3>2, StatusIs DEF WritesOrder
      <3>3. ASSUME NEW m \in DOMAIN executed, WritesTrade(m)
            PROVE  /\ orderRow' = orderRow
                   /\ tradeRow' = tradeRow \/ tradeRow' = [tradeRow EXCEPT ![executed[m].id] = m]
                   /\ gone' = gone \/ gone' = gone \union {Head(Queue)}
        BY <3>3 DEF WritesTrade
      <3>4. \A m \in DOMAIN executed : /\ m \in 0 .. MaxTrades /\ executed[m].id \in 1 .. MaxTrades
        BY <1>0, TradeFacts
      <3>5. ASSUME NEW m \in DOMAIN executed, tradeRow' = [tradeRow EXCEPT ![executed[m].id] = m]
            PROVE  /\ tradeRow' \in [1 .. MaxTrades -> 0 .. MaxTrades]
                   /\ \A id \in 1 .. MaxTrades :
                         tradeRow'[id] # 0 => tradeRow'[id] \in DOMAIN executed
                                              /\ executed[tradeRow'[id]].id = id
        BY <3>1, <3>4, <3>5
      <3>6. QED BY <2>1, <3>1, <3>2, <3>3, <3>5
    <2>3. /\ gone' \subseteq Jobs
          /\ \A n : In(Queue', TradeJob(n)) \/ TradeJob(n) \in gone' => n \in DOMAIN executed
      <3>1. Head(Queue) \in Jobs /\ \A x : In(Queue', x) => In(Queue, x)
        BY <2>1, Received
      <3>2. gone \subseteq Jobs
        BY <1>0 DEF TypeOK
      <3>3. \A n : In(Queue, TradeJob(n)) \/ TradeJob(n) \in gone => n \in DOMAIN executed
        BY <1>0 DEF Spoken
      <3>4. QED BY <2>1, <2>2, <3>1, <3>2, <3>3
    <2>4. Len(pending') <= BatchSize /\ flushing' \in BOOLEAN
      BY <1>1, <2>1
    <2>5. flushing' => pending' # <<>>
      <3>1. SUFFICES ASSUME flushing' PROVE pending' # <<>>
        OBVIOUS
      <3>0. Len(pending) > 1
        BY <2>1, <3>1
      <3>2. Len(pending') > 0
        BY <2>1, <3>0
      <3>3. QED BY <2>1, <3>2, EmptySeq
    <2>6. ASSUME ~flushing' PROVE Len(pending') < BatchSize
      <3>1. ~(Len(pending) > 1)
        BY <2>1, <2>6
      <3>2. QED BY <1>1, <2>1, <3>1
    <2>7. TypeOK'
      BY <1>0, <2>1, <2>2, <2>3, <2>4, <2>5 DEF TypeOK
    <2>8. Spoken'
      BY <1>0, <2>1, <2>2, <2>3 DEF Spoken
    <2>9. QED BY <2>1, <2>6, <2>7, <2>8 DEF Types
  <1>5. QED BY <1>2, <1>3, <1>4

\* What a settlement does: its query
Settleable == {c \in Clients : HasOrders(c)}
Others == <<place, book, filled, counter, tradeCh, writeCh, pending, flushing, tradeKey, recent,
            listed, orderRow, tradeRow, executed, gone, overtaken, boots>>

LEMMA Queries ==
    ASSUME Types, SettleQuery
    PROVE  /\ runs' = runs + 1 /\ runs \in Nat /\ runs' \in 1 .. MaxRuns
           /\ DOMAIN eod' = 1 .. MaxRuns /\ \A r \in 1 .. MaxRuns : r # runs' => eod'[r] = eod[r]
           /\ IsRun(eod'[runs'])
           /\ DOMAIN eod'[runs'].figures = Settleable /\ eod'[runs'].todo = Settleable
           /\ \A c \in Settleable : eod'[runs'].figures[c] = FiguresOf(c)
           /\ eod'[runs'].clean => \A r \in 1 .. runs : eod[r].todo = {}
           /\ UNCHANGED <<Others, settled, errors>>
  <1> DEFINE F == [c \in Settleable |-> FiguresOf(c)]
             w == \A r \in 1 .. runs : eod[r].todo = {}
             x == [figures |-> F, todo |-> Settleable, clean |-> w]
  <1>1. /\ runs < MaxRuns /\ runs' = runs + 1 /\ eod' = [eod EXCEPT ![runs + 1] = x]
        /\ UNCHANGED <<Others, settled, errors>>
    BY DEF SettleQuery, Settleable, Others, redis, memory, tables
  <1>2. runs \in Nat /\ runs' \in 1 .. MaxRuns
    <2>1. runs \in 0 .. MaxRuns /\ MaxRuns \in Nat
      BY BoundsAssumption DEF Types, TypeOK
    <2>2. QED BY <1>1, <2>1
  <1>3. Settleable \subseteq Clients /\ \A c \in Settleable : FiguresOf(c) \in Figures
    BY FiguresType DEF Settleable
  <1>4. F \in [Settleable -> Figures] /\ w \in BOOLEAN
    BY <1>3
  <1>5. \A c \in Settleable : F[c] = FiguresOf(c)
    OBVIOUS
  <1>6. DOMAIN eod = 1 .. MaxRuns
    BY DEF Types, TypeOK
  <1> HIDE DEF F
  <1>7. x.figures = F /\ x.todo = Settleable /\ x.clean = w /\ DOMAIN F = Settleable
    BY <1>4
  <1>8. IsRun(x)
    BY <1>3, <1>4 DEF IsRun
  <1> HIDE DEF x
  <1>9. /\ DOMAIN eod' = 1 .. MaxRuns /\ eod'[runs'] = x
        /\ \A r \in 1 .. MaxRuns : r # runs' => eod'[r] = eod[r]
    BY <1>1, <1>2, <1>6
  <1>10. QED BY <1>1, <1>2, <1>5, <1>7, <1>8, <1>9

\* ... one client
LEMMA Settles ==
    ASSUME Types, NEW r \in 1 .. runs, NEW c \in Clients, SettleClient(r, c)
    PROVE  /\ r \in 1 .. MaxRuns /\ c \in eod[r].todo /\ c \in DOMAIN eod[r].figures
           /\ DOMAIN eod' = 1 .. MaxRuns /\ \A q \in 1 .. MaxRuns : q # r => eod'[q] = eod[q]
           /\ IsRun(eod'[r]) /\ eod'[r].todo = eod[r].todo \ {c}
           /\ \/ eod[r].todo = {c} /\ DOMAIN eod'[r].figures = {}
              \/ eod[r].todo # {c} /\ eod'[r].figures = eod[r].figures
           /\ Settle(r, c) \/ settled' = settled
           /\ eod'[r].clean => eod[r].clean /\ Settle(r, c)
           /\ UNCHANGED <<Others, runs>>
           /\ errors' \in 0 .. MaxErrors
  <1>1. r \in 1 .. MaxRuns
    <2>1. runs \in 0 .. MaxRuns /\ MaxRuns \in Nat
      BY BoundsAssumption DEF Types, TypeOK
    <2>2. QED BY <2>1
  <1>2. DOMAIN eod = 1 .. MaxRuns /\ IsRun(eod[r])
    BY <1>1 DEF Types, TypeOK
  <1>3. c \in eod[r].todo /\ c \in DOMAIN eod[r].figures /\ eod[r].clean \in BOOLEAN
    BY <1>2, RunIs DEF SettleClient
  <1>4. PICK w \in BOOLEAN :
           /\ eod' = [eod EXCEPT ![r] = Passed(eod[r], c, w)]
           /\ Settle(r, c) \/ settled' = settled
           /\ w => eod[r].clean /\ Settle(r, c)
    BY <1>1, <1>2, <1>3 DEF SettleClient
  <1>5. /\ DOMAIN eod' = 1 .. MaxRuns /\ eod'[r] = Passed(eod[r], c, w)
        /\ \A q \in 1 .. MaxRuns : q # r => eod'[q] = eod[q]
    BY <1>1, <1>2, <1>4
  <1>6. errors' \in 0 .. MaxErrors
    <2>1. errors \in 0 .. MaxErrors /\ MaxErrors \in Nat
      BY BoundsAssumption DEF Types, TypeOK
    <2>2. errors' = errors \/ (errors < MaxErrors /\ errors' = errors + 1)
      BY DEF SettleClient
    <2>3. QED BY <2>1, <2>2
  <1>7. UNCHANGED <<Others, runs>>
    BY DEF SettleClient, redis, memory, Others
  <1>8. QED BY <1>1, <1>2, <1>3, <1>4, <1>5, <1>6, <1>7, PassedIs

\* ... and the end of one whose rows are cut short
LEMMA Cuts ==
    ASSUME Types, NEW r \in 1 .. runs, SettleCut(r)
    PROVE  /\ DOMAIN eod' = 1 .. MaxRuns
           /\ \A q \in 1 .. MaxRuns : eod'[q] = eod[q] \/ eod'[q] = Idle
           /\ UNCHANGED <<Others, settled, runs>>
           /\ errors' \in 0 .. MaxErrors
  <1>1. DOMAIN eod = 1 .. MaxRuns
    BY DEF Types, TypeOK
  <1>2. errors' \in 0 .. MaxErrors
    <2>1. errors \in 0 .. MaxErrors /\ MaxErrors \in Nat
      BY BoundsAssumption DEF Types, TypeOK
    <2>2. errors < MaxErrors /\ errors' = errors + 1
      BY DEF SettleCut
    <2>3. QED BY <2>1, <2>2
  <1>3. QED BY <1>1, <1>2 DEF SettleCut, redis, memory, tables, Others

LEMMA TypesSettle ==
    ASSUME Types, RunEODSettlement
    PROVE  Types'
  <1>0. TypeOK /\ Spoken /\ MaxRuns \in Nat
    BY BoundsAssumption DEF Types
  <1>1. /\ UNCHANGED Others /\ errors' \in 0 .. MaxErrors /\ runs' \in 0 .. MaxRuns
        /\ settled' \in [Clients -> Figures]
        /\ DOMAIN eod' = 1 .. MaxRuns /\ \A r \in 1 .. MaxRuns : IsRun(eod'[r])
    <2>0. /\ \A r \in 1 .. MaxRuns : IsRun(eod[r])
          /\ settled \in [Clients -> Figures]
          /\ errors \in 0 .. MaxErrors /\ runs \in 0 .. MaxRuns
      BY <1>0 DEF TypeOK
    <2>1. CASE SettleQuery
      <3>1. \A r \in 1 .. MaxRuns : IsRun(eod'[r])
        BY <2>0, <2>1, Queries
      <3>2. runs' \in 0 .. MaxRuns
        BY <2>1, Queries
      <3>3. QED BY <2>0, <2>1, <3>1, <3>2, Queries
    <2>2. ASSUME NEW r \in 1 .. runs, NEW c \in Clients, SettleClient(r, c)
          PROVE  /\ UNCHANGED Others /\ errors' \in 0 .. MaxErrors /\ runs' \in 0 .. MaxRuns
                 /\ settled' \in [Clients -> Figures]
                 /\ DOMAIN eod' = 1 .. MaxRuns /\ \A q \in 1 .. MaxRuns : IsRun(eod'[q])
      <3>1. \A q \in 1 .. MaxRuns : IsRun(eod'[q])
        BY <2>0, <2>2, Settles
      <3>2. settled' \in [Clients -> Figures]
        <4>1. eod[r].figures[c] \in Figures
          BY <2>0, <2>2, Settles, RunIs
        <4>2. settled' = settled \/ settled' = [settled EXCEPT ![c] = eod[r].figures[c]]
          BY <2>2, Settles DEF Settle
        <4>3. QED BY <2>0, <4>1, <4>2
      <3>3. QED BY <2>0, <2>2, <3>1, <3>2, Settles
    <2>3. ASSUME NEW r \in 1 .. runs, SettleCut(r)
          PROVE  /\ UNCHANGED Others /\ errors' \in 0 .. MaxErrors /\ runs' \in 0 .. MaxRuns
                 /\ settled' \in [Clients -> Figures]
                 /\ DOMAIN eod' = 1 .. MaxRuns /\ \A q \in 1 .. MaxRuns : IsRun(eod'[q])
      BY <2>0, <2>3, Cuts, IdleIs
    <2>4. QED BY <2>1, <2>2, <2>3 DEF RunEODSettlement
  <1>2. TypeOK'
    BY <1>0, <1>1 DEF TypeOK, Others
  <1>3. Spoken'
    BY <1>0, <1>1 DEF Spoken, Queue, Others
  <1>4. QED BY <1>1, <1>2, <1>3 DEF Types, Others

\* What a crash takes away
LEMMA Restarts ==
    ASSUME Types, Restart
    PROVE  /\ Queue' = <<>> /\ tradeCh' = <<>> /\ listed' = <<>> /\ counter' = 0
           /\ \A x : ~In(Queue', x) /\ ~In(tradeCh', x) /\ ~In(listed', x)
           /\ gone' \subseteq Jobs
           /\ \A x : In(Queue, x) => x \in gone'
           /\ \A n : In(tradeCh, n) => TradeJob(n) \in gone'
           /\ gone \subseteq gone'
           /\ \A x \in gone' : \/ x \in gone \/ In(Queue, x)
                               \/ \E n \in DOMAIN executed : In(tradeCh, n) /\ x = TradeJob(n)
           /\ filled' = [o \in Orders |-> 0]
           /\ DOMAIN eod' = 1 .. MaxRuns
           /\ \A r \in 1 .. MaxRuns : eod'[r] = eod[r] \/ eod'[r] = Idle
           /\ \A o \in Orders : place'[o] = "saved" <=> place[o] = "saved"
           /\ UNCHANGED <<tradeKey, recent, orderRow, tradeRow, settled, executed, overtaken, runs,
                          errors>>
  <1>1. TypeOK /\ Spoken
    BY DEF Types
  <1>2. /\ pending' = <<>> /\ writeCh' = <<>> /\ tradeCh' = <<>> /\ listed' = <<>>
        /\ counter' = 0 /\ filled' = [o \in Orders |-> 0]
        /\ DOMAIN eod' = 1 .. MaxRuns
        /\ \A r \in 1 .. MaxRuns : eod'[r] = eod[r] \/ eod'[r] = Idle
        /\ place' = [o \in Orders |-> IF place[o] \in {"stored", "added"} THEN "lost"
                                      ELSE place[o]]
        /\ gone' = gone \union {writeCh[i] : i \in DOMAIN writeCh}
                        \union {pending[i] : i \in DOMAIN pending}
                        \union {<<"trade", tradeCh[i]>> : i \in DOMAIN tradeCh}
        /\ UNCHANGED <<tradeKey, recent, orderRow, tradeRow, settled, executed, overtaken, runs,
                       errors>>
    BY DEF Restart, tables
  <1>3. Queue' = <<>>
    BY <1>2 DEF Queue
  <1>4. \A x : ~In(<<>>, x)
    BY DEF In
  <1>5. \A x : x \in gone' <=> \/ x \in gone \/ In(Queue, x)
                               \/ \E i \in DOMAIN tradeCh : x = TradeJob(tradeCh[i])
    <2>1. \A x : In(Queue, x) <=> \/ x \in {writeCh[i] : i \in DOMAIN writeCh}
                                  \/ x \in {pending[i] : i \in DOMAIN pending}
      BY <1>1, QueueType DEF Waiting
    <2>2. QED BY <1>2, <2>1 DEF TradeJob
  <1>6. \A x : In(Queue, x) => x \in Jobs
    BY <1>1, QueueType
  <1>7. \A i \in DOMAIN tradeCh : tradeCh[i] \in DOMAIN executed /\ In(tradeCh, tradeCh[i])
    BY <1>1 DEF Spoken, In
  <1>8. \A n \in DOMAIN executed : TradeJob(n) \in Jobs
    BY <1>1, TradeFacts DEF TradeJob, Jobs
  <1>9. gone' \subseteq Jobs
    <2>1. gone \subseteq Jobs
      BY <1>1 DEF TypeOK
    <2>2. QED BY <1>5, <1>6, <1>7, <1>8, <2>1
  <1>10. \A x \in gone' : \/ x \in gone \/ In(Queue, x)
                          \/ \E n \in DOMAIN executed : In(tradeCh, n) /\ x = TradeJob(n)
    BY <1>5, <1>7
  <1>11. \A n : In(tradeCh, n) => TradeJob(n) \in gone'
    BY <1>5 DEF In
  <1>12. \A o \in Orders : place'[o] = "saved" <=> place[o] = "saved"
    BY <1>2
  <1>13. QED BY <1>2, <1>3, <1>4, <1>5, <1>9, <1>10, <1>11, <1>12

LEMMA TypesRestart ==
    ASSUME Types, Restart
    PROVE  Types'
  <1>0. TypeOK /\ Spoken
    BY DEF Types
  <1>1. /\ tradeCh' = <<>> /\ listed' = <<>> /\ counter' = 0 /\ gone' \subseteq Jobs
        /\ \A x : ~In(Queue', x) /\ ~In(tradeCh', x) /\ ~In(listed', x)
        /\ \A x \in gone' : \/ x \in gone \/ In(Queue, x)
                            \/ \E n \in DOMAIN executed : In(tradeCh, n) /\ x = TradeJob(n)
        /\ filled' = [o \in Orders |-> 0]
        /\ DOMAIN eod' = 1 .. MaxRuns
        /\ \A r \in 1 .. MaxRuns : eod'[r] = eod[r] \/ eod'[r] = Idle
        /\ UNCHANGED <<tradeKey, recent, orderRow, tradeRow, settled, executed, overtaken, runs,
                       errors>>
    BY Restarts
  <1>2. /\ pending' = <<>> /\ writeCh' = <<>> /\ flushing' = FALSE
        /\ place' = [o \in Orders |-> IF place[o] \in {"stored", "added"} THEN "lost"
                                      ELSE place[o]]
        /\ book' = {o \in Orders : place[o] # "new"}
        /\ boots < MaxBoots /\ boots' = boots + 1
    BY DEF Restart
  <1>3. place' \in [Orders -> {"new", "stored", "added", "saved", "lost"}] /\ book' \subseteq Orders
    BY <1>0, <1>2 DEF TypeOK
  <1>4. boots' \in 1 .. MaxBoots
    <2>1. boots \in 1 .. MaxBoots /\ MaxBoots \in Nat
      BY <1>0, BoundsAssumption DEF TypeOK
    <2>2. QED BY <1>2, <2>1
  <1>5. \A S : pending' \in Seq(S) /\ writeCh' \in Seq(S) /\ tradeCh' \in Seq(S) /\ listed' \in Seq(S)
    BY <1>1, <1>2
  <1>6. Len(pending') <= BatchSize /\ Len(pending') < BatchSize /\ Len(writeCh') <= WriteCap
    BY <1>2, BoundsAssumption
  <1>7. filled' \in [Orders -> Nat] /\ counter' \in 0 .. MaxTrades
    BY <1>1, BoundsAssumption
  <1>8. Len(tradeCh') <= TradeCap + PassCap
    BY <1>1, BoundsAssumption
  <1>9. \A r \in 1 .. MaxRuns : IsRun(eod'[r])
    BY <1>0, <1>1, IdleIs DEF TypeOK
  <1>10. TypeOK'
    BY <1>0, <1>1, <1>2, <1>3, <1>4, <1>5, <1>6, <1>7, <1>8, <1>9 DEF TypeOK
  <1>11. Spoken'
    <2>1. \A n : TradeJob(n) \in gone' => n \in DOMAIN executed
      <3>1. \A n, m : TradeJob(n) = TradeJob(m) => n = m
        BY DEF TradeJob
      <3>2. QED BY <1>0, <1>1, <3>1 DEF Spoken
    <2>2. counter' <= Len(executed')
      BY <1>0, <1>1, TradeFacts
    <2>3. QED BY <1>0, <1>1, <2>1, <2>2 DEF Spoken
  <1>12. QED BY <1>6, <1>10, <1>11 DEF Types

LEMMA TypesStep ==
    ASSUME Types, [Next]_vars
    PROVE  Types'
  <1>1. CASE UNCHANGED vars
    <2>1. UNCHANGED <<place, book, filled, counter, tradeCh, writeCh, pending, flushing,
                      tradeKey, recent, listed, orderRow, tradeRow, settled, eod, executed,
                      gone, overtaken, boots, runs, errors>>
      BY <1>1 DEF vars, memory, redis, tables
    <2>2. TypeOK' /\ Spoken'
      BY <2>1 DEF Types, TypeOK, Spoken, Queue
    <2>3. QED BY <2>1, <2>2 DEF Types
  <1>2. QED
    BY <1>1, TypesPlace, TypesExecute, TypesConsume, TypesWriter, TypesSettle, TypesRestart
       DEF Next, asyncWriter

LEMMA TypesInit ==
    ASSUME Init
    PROVE  Types /\ Queue = <<>> /\ Len(executed) = 0 /\ DOMAIN executed = {}
  <1>1. \A S : pending \in Seq(S) /\ writeCh \in Seq(S) /\ tradeCh \in Seq(S) /\ listed \in Seq(S)
               /\ recent \in Seq(S) /\ executed \in Seq(S)
    BY DEF Init
  <1>2. Len(pending) = 0 /\ Len(writeCh) = 0 /\ Len(executed) = 0 /\ DOMAIN executed = {}
    BY DEF Init
  <1>3. /\ place \in [Orders -> {"new", "stored", "added", "saved", "lost"}] /\ book \subseteq Orders
        /\ filled \in [Orders -> Nat] /\ counter \in 0 .. MaxTrades
        /\ orderRow \in [Orders -> {"none", "OPEN", "PARTIALLY_FILLED", "FILLED"}]
        /\ flushing = FALSE /\ gone = {} /\ overtaken = {}
    BY OrdersAssumption, BoundsAssumption DEF Init
  <1>4. /\ tradeKey \in [1 .. MaxTrades -> 0 .. MaxTrades]
        /\ tradeRow \in [1 .. MaxTrades -> 0 .. MaxTrades]
        /\ \A id \in 1 .. MaxTrades : tradeRow[id] = 0
        /\ boots \in 1 .. MaxBoots /\ runs \in 0 .. MaxRuns /\ errors \in 0 .. MaxErrors
    BY BoundsAssumption DEF Init
  <1>5. settled \in [Clients -> Figures]
    <2>1. Unsettled \in Figures
      BY DEF Unsettled, Figures
    <2>2. QED BY <2>1 DEF Init
  <1>6. DOMAIN eod = 1 .. MaxRuns /\ \A r \in 1 .. MaxRuns : IsRun(eod[r])
    BY IdleIs DEF Init
  <1>7. Len(tradeCh) <= TradeCap + PassCap
    BY BoundsAssumption DEF Init
  <1>8. Len(pending) <= BatchSize /\ Len(pending) < BatchSize /\ Len(writeCh) <= WriteCap
        /\ Len(executed) <= MaxTrades
    BY <1>2, BoundsAssumption
  <1>9. TypeOK
    BY <1>1, <1>3, <1>4, <1>5, <1>6, <1>7, <1>8 DEF TypeOK
  <1>10. Queue = <<>>
    BY DEF Init, Queue
  <1>11. Spoken
    <2>1. counter <= Len(executed)
      BY <1>2 DEF Init
    <2>2. \A n : ~In(tradeCh, n) /\ ~In(listed, n) /\ ~In(Queue, TradeJob(n))
      BY <1>10 DEF Init, In
    <2>3. QED BY <1>3, <1>4, <2>1, <2>2 DEF Spoken
  <1>12. QED BY <1>2, <1>8, <1>9, <1>10, <1>11 DEF Types

-----------------------------------------------------------------------------
(* The jobs of orders *)

\* The steps that leave the queue, the rows and what was accepted alone
Quiet ==
    /\ Queue' = Queue /\ gone' = gone /\ orderRow' = orderRow /\ tradeRow' = tradeRow
    /\ overtaken' = overtaken /\ \A o \in Orders : place'[o] = "saved" <=> place[o] = "saved"

LEMMA QuietSteps ==
    ASSUME Types
    PROVE  /\ \A o \in Orders : PlaceStore(o) \/ PlaceAdd(o) => Quiet /\ UNCHANGED tradeCh
           /\ WriterTake \/ WriterTick => Quiet /\ UNCHANGED tradeCh
           /\ RunEODSettlement => Quiet /\ UNCHANGED tradeCh
           /\ UNCHANGED vars => Quiet /\ UNCHANGED tradeCh
  <1>0. place \in [Orders -> {"new", "stored", "added", "saved", "lost"}] /\ TypeOK
    BY DEF Types, TypeOK
  <1>1. ASSUME NEW o \in Orders, PlaceStore(o) \/ PlaceAdd(o) PROVE Quiet /\ UNCHANGED tradeCh
    <2>1. \A p \in Orders : place'[p] = "saved" <=> place[p] = "saved"
      BY <1>0, <1>1 DEF PlaceStore, PlaceAdd
    <2>2. QED BY <1>1, <2>1 DEF Quiet, Queue, PlaceStore, PlaceAdd, redis, tables
  <1>3. ASSUME WriterTake \/ WriterTick PROVE Quiet /\ UNCHANGED tradeCh
    <2>1. Queue' = Queue
      <3>1. CASE WriterTake
        BY <1>0, <3>1, QueueTake
      <3>2. CASE WriterTick
        BY <3>2 DEF WriterTick, Queue
      <3>3. QED BY <1>3, <3>1, <3>2
    <2>2. QED BY <1>3, <2>1 DEF Quiet, WriterTake, WriterTick, redis, tables
  <1>4. ASSUME RunEODSettlement PROVE Quiet /\ UNCHANGED tradeCh
    BY <1>4 DEF Quiet, Queue, RunEODSettlement, SettleQuery, SettleClient, SettleCut, memory,
           redis, tables
  <1>5. ASSUME UNCHANGED vars PROVE Quiet /\ UNCHANGED tradeCh
    BY <1>5 DEF Quiet, Queue, vars, memory, redis, tables
  <1>6. QED BY <1>1, <1>3, <1>4, <1>5

LEMMA JobsDiffer ==
    /\ \A o, p : OrderJob(o) = OrderJob(p) <=> o = p
    /\ \A m, n : TradeJob(m) = TradeJob(n) <=> m = n
    /\ \A o, n : OrderJob(o) # TradeJob(n)
    /\ \A o \in Orders : OrderJob(o) \in Jobs
  BY DEF OrderJob, TradeJob, Jobs

\* PlaceOrder's hand-over
LEMMA Accepts ==
    ASSUME Types, NEW o \in Orders, PlaceSave(o)
    PROVE  /\ place[o] # "saved" /\ place'[o] = "saved"
           /\ \A p \in Orders : p # o => place'[p] = place[p]
           /\ \/ Queue' = Append(Queue, OrderJob(o)) /\ gone' = gone
              \/ Queue' = Queue /\ gone' = gone \union {OrderJob(o)}
           /\ UNCHANGED <<orderRow, tradeRow, overtaken, tradeCh, executed, counter>>
  <1>1. place \in [Orders -> {"new", "stored", "added", "saved", "lost"}] /\ TypeOK
    BY DEF Types, TypeOK
  <1>2. /\ place[o] = "added" /\ place' = [place EXCEPT ![o] = "saved"]
        /\ SaveAsync(OrderJob(o)) /\ pending' = pending
        /\ UNCHANGED <<orderRow, tradeRow, overtaken, tradeCh, executed, counter>>
    BY DEF PlaceSave, redis, tables, OrderJob
  <1>3. \/ Queue' = Append(Queue, OrderJob(o)) /\ gone' = gone
        \/ Queue' = Queue /\ gone' = gone \union {OrderJob(o)}
    BY <1>1, <1>2, JobsDiffer, QueueSave
  <1>4. QED BY <1>1, <1>2, <1>3

\* consumeTrades' hand-over
LEMMA HandsOver ==
    ASSUME Types, ConsumeTrade
    PROVE  LET n == Head(tradeCh)
           IN /\ n \in DOMAIN executed /\ In(tradeCh, n) /\ TradeJob(n) \in Jobs
              /\ \A m : In(tradeCh', m) => In(tradeCh, m)
              /\ \A m : In(tradeCh, m) => m = n \/ In(tradeCh', m)
              /\ Once(tradeCh) => ~In(tradeCh', n)
              /\ \/ Queue' = Append(Queue, TradeJob(n)) /\ gone' = gone
                 \/ Queue' = Queue /\ gone' = gone \union {TradeJob(n)}
              /\ overtaken' = IF \A o \in Sides(n) : place[o] = "saved" THEN overtaken
                              ELSE overtaken \union {n}
              /\ UNCHANGED <<place, orderRow, tradeRow, executed, counter>>
  <1> DEFINE n == Head(tradeCh)
             S == 1 .. MaxTrades
  <1>1. /\ tradeCh \in Seq(S) /\ tradeCh # <<>> /\ tradeCh' = Tail(tradeCh)
        /\ In(tradeCh, n) /\ n \in DOMAIN executed /\ TradeJob(n) \in Jobs
        /\ SaveAsync(TradeJob(n))
        /\ overtaken' = IF \A o \in Sides(n) : place[o] = "saved" THEN overtaken
                        ELSE overtaken \union {n}
        /\ UNCHANGED <<place, pending, orderRow, tradeRow, executed, counter>>
    BY Consumes
  <1> HIDE DEF S
  <1>2. /\ \A m : In(tradeCh', m) => In(tradeCh, m)
        /\ \A m : In(tradeCh, m) => m = n \/ In(tradeCh', m)
        /\ Once(tradeCh) => ~In(tradeCh', n)
    BY <1>1, Received
  <1> HIDE DEF n
  <1>3. \/ Queue' = Append(Queue, TradeJob(n)) /\ gone' = gone
        \/ Queue' = Queue /\ gone' = gone \union {TradeJob(n)}
    BY <1>1, QueueSave DEF Types
  <1>4. QED BY <1>1, <1>2, <1>3 DEF n

\* The queue as a set of jobs
LEMMA QueueSets ==
    ASSUME Types
    PROVE  /\ \A job \in Jobs : Queue' = Append(Queue, job) =>
                 /\ \A x : In(Queue', x) <=> In(Queue, x) \/ x = job
                 /\ Once(Queue) /\ ~In(Queue, job) => Once(Queue')
           /\ Queue # <<>> /\ Queue' = Tail(Queue) =>
                 /\ \A x : In(Queue', x) => In(Queue, x)
                 /\ \A x : In(Queue, x) => x = Head(Queue) \/ In(Queue', x)
                 /\ Once(Queue) => Once(Queue') /\ ~In(Queue', Head(Queue))
  <1>1. Queue \in Seq(Jobs)
    BY QueueType DEF Types
  <1>2. ASSUME NEW job \in Jobs, Queue' = Append(Queue, job)
        PROVE  /\ \A x : In(Queue', x) <=> In(Queue, x) \/ x = job
               /\ Once(Queue) /\ ~In(Queue, job) => Once(Queue')
    BY <1>1, <1>2, Added
  <1>3. ASSUME Queue # <<>>, Queue' = Tail(Queue)
        PROVE  /\ \A x : In(Queue', x) => In(Queue, x)
               /\ \A x : In(Queue, x) => x = Head(Queue) \/ In(Queue', x)
               /\ Once(Queue) => Once(Queue') /\ ~In(Queue', Head(Queue))
    BY <1>1, <1>3, Received
  <1>4. QED BY <1>2, <1>3

OrderJobOf(o) ==
    /\ place[o] # "saved" => /\ ~In(Queue, OrderJob(o)) /\ OrderJob(o) \notin gone
                             /\ orderRow[o] = "none"
    /\ In(Queue, OrderJob(o)) => OrderJob(o) \notin gone /\ orderRow[o] = "none"
    /\ OrderJob(o) \in gone => orderRow[o] = "none"
    /\ place[o] = "saved" => \/ In(Queue, OrderJob(o)) \/ OrderJob(o) \in gone
                             \/ orderRow[o] # "none"

LEMMA OrderJobsIff == OrderJobs <=> Once(Queue) /\ \A o \in Orders : OrderJobOf(o)
  BY DEF OrderJobs, OrderJobOf

LEMMA OrderJobsStep ==
    ASSUME Types, OrderJobs, TradeJobs, [Next]_vars
    PROVE  Once(Queue)' /\ \A o \in Orders : OrderJobOf(o)'
  <1>0. Once(Queue) /\ \A o \in Orders : OrderJobOf(o)
    BY OrderJobsIff
  <1>1. ASSUME Quiet PROVE Once(Queue)' /\ \A o \in Orders : OrderJobOf(o)'
    BY <1>0, <1>1 DEF Quiet, OrderJobOf
  <1>7. ASSUME NEW b \in Orders, NEW s \in Orders, Execute(b, s)
        PROVE  Once(Queue)' /\ \A p \in Orders : OrderJobOf(p)'
    <2>1. Queue' = Queue /\ orderRow' = orderRow /\ place' = place
      BY <1>7, Sends
    <2>2. \A p \in Orders : OrderJob(p) \in gone' <=> OrderJob(p) \in gone
      BY <1>7, Sends, JobsDiffer
    <2>3. QED BY <1>0, <2>1, <2>2 DEF OrderJobOf
  <1>2. ASSUME NEW o \in Orders, PlaceSave(o)
        PROVE  Once(Queue)' /\ \A p \in Orders : OrderJobOf(p)'
    <2>1. /\ place[o] # "saved" /\ place'[o] = "saved"
          /\ \A p \in Orders : p # o => place'[p] = place[p]
          /\ \/ Queue' = Append(Queue, OrderJob(o)) /\ gone' = gone
             \/ Queue' = Queue /\ gone' = gone \union {OrderJob(o)}
          /\ UNCHANGED <<orderRow, tradeRow, overtaken, tradeCh>>
      BY <1>2, Accepts
    <2>2. ~In(Queue, OrderJob(o)) /\ OrderJob(o) \notin gone /\ orderRow[o] = "none"
      BY <1>0, <2>1 DEF OrderJobOf
    <2>3. CASE Queue' = Append(Queue, OrderJob(o)) /\ gone' = gone
      <3>1. /\ Once(Queue') /\ \A x : In(Queue', x) <=> In(Queue, x) \/ x = OrderJob(o)
        BY <1>0, <2>2, <2>3, QueueSets, JobsDiffer
      <3>2. ASSUME NEW p \in Orders, p # o PROVE OrderJobOf(p)'
        <4>1. OrderJobOf(p) /\ (In(Queue', OrderJob(p)) <=> In(Queue, OrderJob(p)))
          BY <1>0, <3>1, <3>2, JobsDiffer
        <4>2. QED BY <2>1, <2>3, <3>2, <4>1 DEF OrderJobOf
      <3>3. OrderJobOf(o)'
        BY <2>1, <2>2, <2>3, <3>1 DEF OrderJobOf
      <3>4. QED BY <3>1, <3>2, <3>3
    <2>4. CASE Queue' = Queue /\ gone' = gone \union {OrderJob(o)}
      <3>1. ASSUME NEW p \in Orders, p # o PROVE OrderJobOf(p)'
        <4>1. OrderJobOf(p) /\ (OrderJob(p) \in gone' <=> OrderJob(p) \in gone)
          BY <1>0, <2>4, <3>1, JobsDiffer
        <4>2. QED BY <2>1, <2>4, <3>1, <4>1 DEF OrderJobOf
      <3>2. OrderJobOf(o)'
        BY <2>1, <2>2, <2>4 DEF OrderJobOf
      <3>3. QED BY <1>0, <2>4, <3>1, <3>2
    <2>5. QED BY <2>1, <2>3, <2>4
  <1>3. ASSUME ConsumeTrade
        PROVE  Once(Queue)' /\ \A p \in Orders : OrderJobOf(p)'
    <2> DEFINE n == Head(tradeCh)
    <2>1. /\ n \in DOMAIN executed /\ In(tradeCh, n) /\ TradeJob(n) \in Jobs
          /\ \/ Queue' = Append(Queue, TradeJob(n)) /\ gone' = gone
             \/ Queue' = Queue /\ gone' = gone \union {TradeJob(n)}
          /\ UNCHANGED <<place, orderRow>>
      BY <1>3, HandsOver
    <2> HIDE DEF n
    <2>2. ~In(Queue, TradeJob(n))
      BY <2>1 DEF TradeJobs
    <2>3. Once(Queue') /\ \A p \in Orders : /\ In(Queue', OrderJob(p)) <=> In(Queue, OrderJob(p))
                                            /\ OrderJob(p) \in gone' <=> OrderJob(p) \in gone
      BY <1>0, <2>1, <2>2, QueueSets, JobsDiffer
    <2>4. QED BY <1>0, <2>1, <2>3 DEF OrderJobOf
  <1>4. ASSUME WriterFlush
        PROVE  Once(Queue)' /\ \A p \in Orders : OrderJobOf(p)'
    <2>1. /\ Queue # <<>> /\ Queue' = Tail(Queue) /\ In(Queue, Head(Queue)) /\ place' = place
          /\ \/ \E o \in Orders : WritesOrder(o)
             \/ \E m \in DOMAIN executed : WritesTrade(m)
      BY <1>4, Flushes
    <2>2. /\ \A x : In(Queue', x) => In(Queue, x)
          /\ \A x : In(Queue, x) => x = Head(Queue) \/ In(Queue', x)
          /\ Once(Queue') /\ ~In(Queue', Head(Queue))
      BY <1>0, <2>1, QueueSets
    <2>3. ASSUME NEW o \in Orders, WritesOrder(o), NEW p \in Orders PROVE OrderJobOf(p)'
      <3>1. /\ Head(Queue) = OrderJob(o)
            /\ \/ /\ gone' = gone
                  /\ orderRow' = [r \in Orders |-> IF r = o /\ orderRow[r] = "none" THEN Status(o)
                                                   ELSE orderRow[r]]
               \/ gone' = gone \union {OrderJob(o)} /\ orderRow' = orderRow
        BY <2>3 DEF WritesOrder
      <3>2. OrderJobOf(p) /\ OrderJobOf(o)
        BY <1>0
      <3>3. CASE p # o
        <4>1. In(Queue', OrderJob(p)) <=> In(Queue, OrderJob(p))
          BY <2>2, <3>1, <3>3, JobsDiffer
        <4>2. OrderJob(p) \in gone' <=> OrderJob(p) \in gone
          BY <3>1, <3>3, JobsDiffer
        <4>3. orderRow'[p] = orderRow[p]
          BY <3>1, <3>3
        <4>4. QED BY <2>1, <3>2, <4>1, <4>2, <4>3 DEF OrderJobOf
      <3>4. CASE p = o
        <4>1. /\ In(Queue, OrderJob(o)) /\ ~In(Queue', OrderJob(o))
              /\ OrderJob(o) \notin gone /\ orderRow[o] = "none" /\ place[o] = "saved"
          BY <2>1, <2>2, <3>1, <3>2 DEF OrderJobOf
        <4>2. \/ gone' = gone /\ orderRow'[o] # "none"
              \/ gone' = gone \union {OrderJob(o)} /\ orderRow'[o] = "none"
          BY <3>1, <4>1, StatusIs
        <4>3. QED BY <2>1, <3>4, <4>1, <4>2 DEF OrderJobOf
      <3>5. QED BY <3>3, <3>4
    <2>4. ASSUME NEW m \in DOMAIN executed, WritesTrade(m), NEW p \in Orders PROVE OrderJobOf(p)'
      <3>1. /\ Head(Queue) = TradeJob(m) /\ orderRow' = orderRow
            /\ gone' = gone \/ gone' = gone \union {TradeJob(m)}
        BY <2>4 DEF WritesTrade
      <3>2. /\ In(Queue', OrderJob(p)) <=> In(Queue, OrderJob(p))
            /\ OrderJob(p) \in gone' <=> OrderJob(p) \in gone
        BY <2>2, <3>1, JobsDiffer
      <3>3. QED BY <1>0, <2>1, <3>1, <3>2 DEF OrderJobOf
    <2>5. QED BY <2>1, <2>2, <2>3, <2>4
  <1>5. ASSUME Restart
        PROVE  Once(Queue)' /\ \A p \in Orders : OrderJobOf(p)'
    <2>1. /\ Queue' = <<>> /\ \A x : ~In(Queue', x)
          /\ \A x : In(Queue, x) => x \in gone'
          /\ gone \subseteq gone'
          /\ \A x \in gone' : \/ x \in gone \/ In(Queue, x)
                              \/ \E n \in DOMAIN executed : In(tradeCh, n) /\ x = TradeJob(n)
          /\ \A o \in Orders : place'[o] = "saved" <=> place[o] = "saved"
          /\ orderRow' = orderRow
      BY <1>5, Restarts
    <2>2. Once(Queue')
      BY <2>1 DEF Once
    <2>3. ASSUME NEW p \in Orders PROVE OrderJobOf(p)'
      <3>1. OrderJob(p) \in gone' <=> OrderJob(p) \in gone \/ In(Queue, OrderJob(p))
        BY <2>1, JobsDiffer
      <3>2. OrderJobOf(p)
        BY <1>0
      <3>3. QED BY <2>1, <3>1, <3>2 DEF OrderJobOf
    <2>4. QED BY <2>2, <2>3
  <1>6. QED
    BY <1>1, <1>2, <1>3, <1>4, <1>5, <1>7, QuietSteps DEF Next, asyncWriter

-----------------------------------------------------------------------------
(* The order of trades, and the list in Redis *)

\* Numbers of trades on their way and in the list
LEMMA Numbers ==
    ASSUME Types
    PROVE  /\ Len(executed) \in Nat /\ counter \in Nat /\ counter <= Len(executed) /\ Base \in Int
           /\ Base = Len(executed) - counter /\ DOMAIN executed = 1 .. Len(executed)
           /\ Len(tradeCh) \in Nat /\ DOMAIN tradeCh = 1 .. Len(tradeCh)
           /\ Len(listed) \in Nat /\ DOMAIN listed = 1 .. Len(listed)
           /\ \A i \in DOMAIN tradeCh : tradeCh[i] \in DOMAIN executed
           /\ \A i \in DOMAIN listed : listed[i] \in DOMAIN executed
           /\ Len(recent) \in Nat
  <1>1. TypeOK /\ Spoken
    BY DEF Types
  <1>2. /\ Len(executed) \in Nat /\ counter \in Nat /\ counter <= Len(executed)
        /\ DOMAIN executed = 1 .. Len(executed)
    <2>1. counter \in 0 .. MaxTrades /\ counter <= Len(executed)
      BY <1>1 DEF TypeOK, Spoken
    <2>2. QED BY <1>1, <2>1, TradeFacts
  <1>3. \A S : tradeCh \in Seq(S) => Len(tradeCh) \in Nat /\ DOMAIN tradeCh = 1 .. Len(tradeCh)
    BY LenProperties
  <1>4. \A S : listed \in Seq(S) => Len(listed) \in Nat /\ DOMAIN listed = 1 .. Len(listed)
    BY LenProperties
  <1>5. \A S : recent \in Seq(S) => Len(recent) \in Nat
    BY LenProperties
  <1>6. /\ tradeCh \in Seq(1 .. MaxTrades) /\ listed \in Seq(1 .. MaxTrades)
        /\ recent \in Seq(1 .. MaxTrades)
    BY <1>1 DEF TypeOK
  <1>7. /\ \A i \in DOMAIN tradeCh : tradeCh[i] \in DOMAIN executed
        /\ \A i \in DOMAIN listed : listed[i] \in DOMAIN executed
    BY <1>1 DEF Spoken, In
  <1>8. QED BY <1>2, <1>3, <1>4, <1>5, <1>6, <1>7 DEF Base

\* An execution has the next number, and appends it to the channel or drops the trade.
LEMMA ExecuteNumbers ==
    ASSUME Types, NEW b \in Orders, NEW s \in Orders, Execute(b, s)
    PROVE  /\ Base' = Base
           /\ DOMAIN executed' = DOMAIN executed \union {Len(executed) + 1}
           /\ Len(executed) + 1 \notin DOMAIN executed
           /\ executed'[Len(executed) + 1].id = (Len(executed) + 1) - Base
           /\ {executed'[Len(executed) + 1].buy, executed'[Len(executed) + 1].sell} = {b, s}
           /\ Len(executed) + 1 > Base
           /\ \A m \in DOMAIN executed : executed'[m] = executed[m]
           /\ \/ tradeCh' = tradeCh
              \/ /\ DOMAIN tradeCh' = 1 .. Len(tradeCh) + 1
                 /\ tradeCh'[Len(tradeCh) + 1] = Len(executed) + 1
                 /\ \A i \in DOMAIN tradeCh : tradeCh'[i] = tradeCh[i]
           /\ UNCHANGED <<listed, recent, tradeKey>>
  <1>1. PICK q \in Nat \ {0} :
             /\ counter' = counter + 1
             /\ executed' = Append(executed, [id |-> counter + 1, buy |-> b, sell |-> s,
                                              qty |-> q])
             /\ [id |-> counter + 1, buy |-> b, sell |-> s, qty |-> q] \in Trade
    BY Executes
  <1> DEFINE n == Len(executed) + 1
             t == [id |-> counter + 1, buy |-> b, sell |-> s, qty |-> q]
  <1>2. /\ Len(executed') = n /\ executed'[n] = t
        /\ DOMAIN executed' = DOMAIN executed \union {n} /\ n \notin DOMAIN executed
        /\ \A m \in DOMAIN executed : executed'[m] = executed[m]
    BY <1>1, OneMore DEF Types
  <1>3. /\ Len(executed) \in Nat /\ counter \in Nat /\ counter <= Len(executed)
        /\ Base = Len(executed) - counter
    BY Numbers
  <1>4. t.id = counter + 1 /\ t.buy = b /\ t.sell = s
    OBVIOUS
  <1> HIDE DEF t
  <1>5. Base' = Base /\ t.id = n - Base /\ n > Base
    <2>1. Base' = n - (counter + 1)
      BY <1>1, <1>2 DEF Base
    <2>2. QED BY <1>3, <1>4, <2>1
  <1>6. /\ tradeCh' = Append(tradeCh, n) \/ tradeCh' = tradeCh
        /\ UNCHANGED <<listed, recent, tradeKey>>
    BY Sends
  <1>7. ASSUME tradeCh' = Append(tradeCh, n)
        PROVE  /\ DOMAIN tradeCh' = 1 .. Len(tradeCh) + 1 /\ tradeCh'[Len(tradeCh) + 1] = n
               /\ \A i \in DOMAIN tradeCh : tradeCh'[i] = tradeCh[i]
    <2> DEFINE S == Nat
    <2>1. tradeCh \in Seq(S) /\ n \in S /\ DOMAIN tradeCh = 1 .. Len(tradeCh)
      <3>1. tradeCh \in Seq(1 .. MaxTrades)
        BY DEF Types, TypeOK
      <3>2. \A i \in 1 .. Len(tradeCh) : tradeCh[i] \in S
        BY <3>1, Numbers
      <3>3. QED BY <1>3, <3>1, <3>2, Numbers
    <2> HIDE DEF S, n
    <2>2. /\ Len(tradeCh') = Len(tradeCh) + 1 /\ tradeCh' \in Seq(S)
          /\ tradeCh'[Len(tradeCh) + 1] = n
          /\ \A i \in 1 .. Len(tradeCh) : tradeCh'[i] = tradeCh[i]
      BY <1>7, <2>1, AppendProperties
    <2>3. QED BY <2>1, <2>2, LenProperties
  <1>8. executed'[n].id = n - Base /\ {executed'[n].buy, executed'[n].sell} = {b, s}
    BY <1>2, <1>4, <1>5
  <1>9. QED BY <1>2, <1>5, <1>6, <1>7, <1>8, Zenon

LEMMA OrderedStep ==
    ASSUME Types, Ordered, [Next]_vars
    PROVE  Ordered'
  <1>0. /\ Len(executed) \in Nat /\ counter \in Nat /\ counter <= Len(executed) /\ Base \in Int
        /\ DOMAIN executed = 1 .. Len(executed)
        /\ Len(tradeCh) \in Nat /\ DOMAIN tradeCh = 1 .. Len(tradeCh)
        /\ DOMAIN listed = 1 .. Len(listed) /\ Len(listed) \in Nat
        /\ \A i \in DOMAIN tradeCh : tradeCh[i] \in DOMAIN executed
        /\ \A i \in DOMAIN listed : listed[i] \in DOMAIN executed
    BY Numbers
  <1>1. CASE UNCHANGED <<executed, counter, tradeCh, listed>>
    BY <1>1 DEF Ordered, Base
  <1>2. ASSUME NEW b \in Orders, NEW s \in Orders, Execute(b, s) PROVE Ordered'
    <2> DEFINE n == Len(executed) + 1
    <2>1. /\ Base' = Base
          /\ DOMAIN executed' = DOMAIN executed \union {n}
          /\ executed'[n].id = n - Base /\ n > Base
          /\ \A m \in DOMAIN executed : executed'[m] = executed[m]
          /\ \/ tradeCh' = tradeCh
             \/ /\ DOMAIN tradeCh' = 1 .. Len(tradeCh) + 1
                /\ tradeCh'[Len(tradeCh) + 1] = n
                /\ \A i \in DOMAIN tradeCh : tradeCh'[i] = tradeCh[i]
          /\ listed' = listed
      BY <1>2, ExecuteNumbers, Zenon
    <2>2. \A m \in DOMAIN executed : m < n
      BY <1>0
    <2> HIDE DEF n
    <2>3. \A m \in DOMAIN executed' : m > Base' => executed'[m].id = m - Base'
      BY <2>1 DEF Ordered
    <2>4. CASE tradeCh' = tradeCh
      BY <2>1, <2>3, <2>4 DEF Ordered
    <2>5. CASE /\ DOMAIN tradeCh' = 1 .. Len(tradeCh) + 1
               /\ tradeCh'[Len(tradeCh) + 1] = n
               /\ \A i \in DOMAIN tradeCh : tradeCh'[i] = tradeCh[i]
      <3>1. \A i \in DOMAIN tradeCh' : i \in DOMAIN tradeCh \/ i = Len(tradeCh) + 1
        <4>1. \A i \in 1 .. Len(tradeCh) + 1 : i \in 1 .. Len(tradeCh) \/ i = Len(tradeCh) + 1
          BY <1>0
        <4>2. DOMAIN tradeCh' = 1 .. Len(tradeCh) + 1 /\ DOMAIN tradeCh = 1 .. Len(tradeCh)
          BY <1>0, <2>5, Zenon
        <4>3. QED BY <4>1, <4>2, Zenon
      <3>2. \A i \in DOMAIN tradeCh' : tradeCh'[i] > Base'
        BY <2>1, <2>5, <3>1 DEF Ordered
      <3>3. ASSUME NEW i \in DOMAIN tradeCh', NEW j \in DOMAIN tradeCh', i < j
            PROVE  tradeCh'[i] < tradeCh'[j]
        <4>1. i \in DOMAIN tradeCh
          BY <1>0, <2>5, <3>3
        <4>2. CASE j \in DOMAIN tradeCh
          BY <2>5, <3>3, <4>1, <4>2 DEF Ordered
        <4>3. CASE j = Len(tradeCh) + 1
          BY <1>0, <2>2, <2>5, <4>1, <4>3
        <4>4. QED BY <3>1, <4>2, <4>3
      <3>4. \A i \in DOMAIN listed', j \in DOMAIN tradeCh' : listed'[i] < tradeCh'[j]
        BY <1>0, <2>1, <2>2, <2>5, <3>1 DEF Ordered
      <3>5. QED BY <2>3, <3>2, <3>3, <3>4 DEF Ordered
    <2>6. QED BY <2>1, <2>4, <2>5
  <1>3. CASE ConsumeTrade
    <2> DEFINE n == Head(tradeCh)
               S == 1 .. MaxTrades
    <2>1. /\ tradeCh \in Seq(S) /\ tradeCh # <<>> /\ tradeCh' = Tail(tradeCh) /\ n \in DOMAIN executed
          /\ UNCHANGED <<executed, counter>>
          /\ listed' = listed \/ listed' = <<n>> \o listed
      BY <1>3, Consumes DEF redis
    <2>2. n \in S /\ listed \in Seq(S)
      BY <2>1, TradeFacts DEF Types, TypeOK
    <2> HIDE DEF S
    <2>3. /\ Len(tradeCh) > 0 /\ n = tradeCh[1] /\ DOMAIN tradeCh' = 1 .. Len(tradeCh) - 1
          /\ \A i \in 1 .. Len(tradeCh) - 1 : tradeCh'[i] = tradeCh[i + 1]
      <3>1. Len(tradeCh') = Len(tradeCh) - 1 /\ tradeCh' \in Seq(S)
            /\ \A i \in 1 .. Len(tradeCh') : tradeCh'[i] = tradeCh[i + 1]
        BY <2>1, HeadTailProperties
      <3>2. Len(tradeCh) > 0 /\ n = tradeCh[1]
        BY <1>0, <2>1, EmptySeq
      <3>3. DOMAIN tradeCh' = 1 .. Len(tradeCh')
        BY <3>1, LenProperties
      <3>4. QED BY <3>1, <3>2, <3>3
    <2>4. \A i \in DOMAIN listed' : listed'[i] = n \/ In(listed, listed'[i])
      <3>1. CASE listed' = listed
        BY <3>1 DEF In
      <3>2. CASE listed' = <<n>> \o listed
        <4>1. \A x : In(<<n>> \o listed, x) => x = n \/ In(listed, x)
          BY <2>2, Pushing
        <4>2. \A i \in DOMAIN listed' : In(listed', listed'[i])
          BY DEF In
        <4>3. QED BY <3>2, <4>1, <4>2
      <3>3. QED BY <2>1, <3>1, <3>2
    <2> HIDE DEF n
    <2>5. \A i \in DOMAIN tradeCh' : i + 1 \in DOMAIN tradeCh /\ tradeCh'[i] = tradeCh[i + 1]
                                     /\ i \in Int /\ 1 < i + 1
      BY <1>0, <2>3
    <2>6. 1 \in DOMAIN tradeCh
      BY <1>0, <2>3
    <2>7. Base' = Base /\ executed' = executed
      BY <2>1 DEF Base
    <2>8. /\ \A i \in DOMAIN tradeCh' : tradeCh'[i] > Base
          /\ \A i, j \in DOMAIN tradeCh' : i < j => tradeCh'[i] < tradeCh'[j]
      <3>1. ASSUME NEW i \in DOMAIN tradeCh', NEW j \in DOMAIN tradeCh', i < j
            PROVE  tradeCh'[i] < tradeCh'[j]
        <4>1. /\ i + 1 \in DOMAIN tradeCh /\ j + 1 \in DOMAIN tradeCh /\ i + 1 < j + 1
              /\ tradeCh'[i] = tradeCh[i + 1] /\ tradeCh'[j] = tradeCh[j + 1]
          BY <2>5, <3>1
        <4>2. QED BY <4>1 DEF Ordered
      <3>2. \A i \in DOMAIN tradeCh' : tradeCh'[i] > Base
        BY <2>5 DEF Ordered
      <3>3. QED BY <3>1, <3>2
    <2>9. \A x, j : In(listed, x) /\ j \in DOMAIN tradeCh => x < tradeCh[j]
      BY DEF Ordered, In
    <2>10. \A i \in DOMAIN listed', j \in DOMAIN tradeCh' : listed'[i] < tradeCh'[j]
      BY <2>3, <2>4, <2>5, <2>6, <2>9 DEF Ordered
    <2>11. \A m \in DOMAIN executed : m > Base => executed[m].id = m - Base
      BY DEF Ordered
    <2>12. QED BY <2>7, <2>8, <2>10, <2>11 DEF Ordered
  <1>4. CASE Restart
    <2>1. tradeCh' = <<>> /\ listed' = <<>> /\ counter' = 0 /\ executed' = executed
      BY <1>4, Restarts
    <2>2. \A m \in DOMAIN executed' : ~(m > Base')
      BY <1>0, <2>1 DEF Base
    <2>3. DOMAIN tradeCh' = {} /\ DOMAIN listed' = {}
      BY <2>1
    <2>4. QED BY <2>2, <2>3 DEF Ordered
  <1>5. QED
    BY <1>1, <1>2, <1>3, <1>4, Flushes
       DEF Next, asyncWriter, RunEODSettlement, PlaceStore, PlaceAdd, PlaceSave, WriterTake,
           WriterTick, SettleQuery, SettleClient, SettleCut, memory, redis, vars

\* SaveTrade moves the entries that stay by one place.
LEMMA ListMoves ==
    ASSUME Types, NEW n \in DOMAIN executed,
           recent' = Pushed(n) \/ recent' = Trimmed(Pushed(n))
    PROVE  /\ 1 <= Len(recent') /\ recent'[1] = executed[n].id
           /\ \A i \in 2 .. RecentCap :
                 i - 1 <= Len(recent) => i <= Len(recent') /\ recent'[i] = recent[i - 1]
  <1> DEFINE S == 1 .. MaxTrades
             all == <<executed[n].id>> \o recent
             k == Min({RecentCap, Len(all)})
  <1>1. executed[n].id \in S /\ recent \in Seq(S)
    BY TradeFacts DEF Types, TypeOK
  <1> HIDE DEF S
  <1>2. /\ all \in Seq(S) /\ Len(all) = Len(recent) + 1 /\ Len(recent) \in Nat
        /\ all[1] = executed[n].id
        /\ \A i \in 2 .. Len(recent) + 1 : all[i] = recent[i - 1]
    BY <1>1, Pushing
  <1>3. recent' = all \/ recent' = SubSeq(all, 1, k)
    BY DEF Pushed, Trimmed
  <1> HIDE DEF all
  <1>4. /\ RecentCap \in Nat \ {0} /\ k \in {RecentCap, Len(all)} /\ k <= RecentCap /\ k <= Len(all)
    <2>1. RecentCap \in Int /\ Len(all) \in Int /\ RecentCap \in Nat \ {0}
      BY <1>2, BoundsAssumption
    <2>2. QED BY <2>1, MinIs
  <1> HIDE DEF k
  <1>5. /\ Len(SubSeq(all, 1, k)) = k
        /\ \A i \in 1 .. k : SubSeq(all, 1, k)[i] = all[i]
    <2>1. k \in Nat
      BY <1>2, <1>4
    <2>2. QED BY <1>2, <1>4, <2>1, Beginning
  <1>6. \A i \in 1 .. RecentCap : i <= Len(all) => i <= Len(recent') /\ recent'[i] = all[i]
    <2>1. CASE recent' = all
      BY <2>1
    <2>2. CASE recent' = SubSeq(all, 1, k)
      <3>1. \A i \in 1 .. RecentCap : i <= Len(all) => i \in 1 .. k
        BY <1>2, <1>4
      <3>2. QED BY <1>4, <1>5, <2>2, <3>1
    <2>3. QED BY <1>3, <2>1, <2>2
  <1>7. 1 <= Len(recent') /\ recent'[1] = all[1]
    <2>1. 1 \in 1 .. RecentCap /\ 1 <= Len(all)
      BY <1>2, <1>4
    <2>2. QED BY <1>6, <2>1
  <1>8. ASSUME NEW i \in 2 .. RecentCap, i - 1 <= Len(recent)
        PROVE  i <= Len(recent') /\ recent'[i] = recent[i - 1]
    <2>1. i \in 1 .. RecentCap /\ i <= Len(all) /\ i \in 2 .. Len(recent) + 1
      BY <1>2, <1>4, <1>8
    <2>2. QED BY <1>2, <1>6, <2>1
  <1>9. QED BY <1>2, <1>7, <1>8

\* In one life of the server, trades have ids of their own.
LEMMA OwnIds ==
    ASSUME Types, Ordered, NEW m \in DOMAIN executed, NEW n \in DOMAIN executed,
           m > Base, n > Base, executed[m].id = executed[n].id
    PROVE  m = n
  <1>1. Base \in Int /\ DOMAIN executed = 1 .. Len(executed) /\ Len(executed) \in Nat
    BY Numbers
  <1>2. executed[m].id = m - Base /\ executed[n].id = n - Base
    BY DEF Ordered
  <1>3. m - Base = n - Base
    BY <1>2
  <1>4. QED BY <1>1, <1>3

LEMMA ListedStep ==
    ASSUME Types, Ordered, Listed, [Next]_vars
    PROVE  Listed'
  <1>0. /\ Len(executed) \in Nat /\ Base \in Int /\ DOMAIN executed = 1 .. Len(executed)
        /\ Len(tradeCh) \in Nat /\ DOMAIN tradeCh = 1 .. Len(tradeCh)
        /\ DOMAIN listed = 1 .. Len(listed) /\ Len(listed) \in Nat
        /\ \A i \in DOMAIN tradeCh : tradeCh[i] \in DOMAIN executed
        /\ \A i \in DOMAIN listed : listed[i] \in DOMAIN executed
    BY Numbers
  <1>1. CASE UNCHANGED <<executed, counter, listed, tradeKey, recent>>
    BY <1>1 DEF Listed, Base
  <1>2. ASSUME NEW b \in Orders, NEW s \in Orders, Execute(b, s) PROVE Listed'
    <2>1. /\ Base' = Base /\ \A m \in DOMAIN executed : executed'[m] = executed[m]
          /\ listed' = listed /\ recent' = recent /\ tradeKey' = tradeKey
      BY <1>2, ExecuteNumbers
    <2>2. \A i \in DOMAIN listed : executed'[listed[i]] = executed[listed[i]]
      BY <1>0, <2>1
    <2>3. \A i \in 1 .. Len(listed) : executed'[listed[i]] = executed[listed[i]]
      BY <1>0, <2>2
    <2>4. QED BY <2>1, <2>2, <2>3 DEF Listed
  <1>3. CASE ConsumeTrade
    <2> DEFINE n == Head(tradeCh)
               S == 1 .. MaxTrades
    <2>1. /\ n \in DOMAIN executed /\ In(tradeCh, n)
          /\ UNCHANGED <<executed, counter>>
          /\ \/ UNCHANGED redis
             \/ Key(n) /\ UNCHANGED <<recent, listed>>
             \/ /\ Key(n) /\ listed' = <<n>> \o listed
                /\ recent' = Pushed(n) \/ recent' = Trimmed(Pushed(n))
      BY <1>3, Consumes
    <2>2. n \in S /\ listed \in Seq(S) /\ executed[n].id \in S /\ tradeKey \in [S -> 0 .. MaxTrades]
      BY <2>1, TradeFacts DEF Types, TypeOK
    <2> HIDE DEF S, n
    <2>3. n > Base /\ \A i \in DOMAIN listed : listed[i] < n
      BY <2>1 DEF Ordered, In
    <2>4. \A i \in DOMAIN listed : executed[listed[i]].id # executed[n].id
      <3>1. ASSUME NEW i \in DOMAIN listed, executed[listed[i]].id = executed[n].id PROVE FALSE
        <4>1. listed[i] \in DOMAIN executed /\ listed[i] > Base /\ listed[i] < n
          BY <1>0, <2>3 DEF Listed
        <4>2. listed[i] = n
          BY <2>1, <2>3, <3>1, <4>1, OwnIds
        <4>3. QED BY <1>0, <2>1, <4>1, <4>2
      <3>2. QED BY <3>1
    <2>5. Key(n) => /\ tradeKey'[executed[n].id] = n
                    /\ \A i \in DOMAIN listed : tradeKey'[executed[listed[i]].id] = listed[i]
      <3>1. ASSUME Key(n), NEW i \in DOMAIN listed
            PROVE  tradeKey'[executed[listed[i]].id] = listed[i]
        <4>1. executed[listed[i]].id \in S
          BY <1>0, TradeFacts DEF Types, S
        <4>2. tradeKey[executed[listed[i]].id] = listed[i]
          BY DEF Listed
        <4>3. QED BY <2>2, <2>4, <3>1, <4>1, <4>2 DEF Key
      <3>2. Key(n) => tradeKey'[executed[n].id] = n
        BY <2>2 DEF Key
      <3>3. QED BY <3>1, <3>2
    <2>6. Base' = Base /\ executed' = executed
      BY <2>1 DEF Base
    <2>7. CASE UNCHANGED redis
      BY <2>6, <2>7 DEF Listed, redis
    <2>8. CASE Key(n) /\ UNCHANGED <<recent, listed>>
      BY <2>5, <2>6, <2>8 DEF Listed
    <2>9. CASE /\ Key(n) /\ listed' = <<n>> \o listed
               /\ recent' = Pushed(n) \/ recent' = Trimmed(Pushed(n))
      <3>1. /\ listed' \in Seq(S) /\ Len(listed') = Len(listed) + 1 /\ listed'[1] = n
            /\ \A i \in 2 .. Len(listed) + 1 : listed'[i] = listed[i - 1]
        BY <2>2, <2>9, Pushing
      <3>2. DOMAIN listed' = 1 .. Len(listed) + 1
        BY <3>1, LenProperties
      <3>3. \A i \in DOMAIN listed' : \/ i = 1
                                      \/ i \in 2 .. Len(listed) + 1 /\ i - 1 \in DOMAIN listed
        BY <1>0, <3>2
      <3>4. \A i \in DOMAIN listed' : \/ i = 1 /\ listed'[i] = n
                                      \/ i - 1 \in DOMAIN listed /\ listed'[i] = listed[i - 1]
        BY <3>1, <3>3
      <3>5. \A i \in DOMAIN listed' : listed'[i] > Base
        BY <2>3, <3>4 DEF Listed
      <3>6. ASSUME NEW i \in DOMAIN listed', NEW j \in DOMAIN listed', i < j
            PROVE  listed'[j] < listed'[i]
        <4>1. i \in Int /\ j \in Int /\ i >= 1 /\ j >= 1
          BY <1>0, <3>2
        <4>2. j - 1 \in DOMAIN listed /\ listed'[j] = listed[j - 1]
          BY <3>4, <3>6, <4>1
        <4>3. CASE i = 1
          BY <2>3, <3>1, <4>2, <4>3
        <4>4. CASE i # 1
          <5>1. i - 1 \in DOMAIN listed /\ listed'[i] = listed[i - 1] /\ i - 1 < j - 1
            BY <3>4, <3>6, <4>1, <4>4
          <5>2. QED BY <4>2, <5>1 DEF Listed
        <4>5. QED BY <4>3, <4>4
      <3>7. \A i \in DOMAIN listed' : tradeKey'[executed[listed'[i]].id] = listed'[i]
        BY <2>5, <2>9, <3>4
      <3>8. ASSUME NEW i \in 1 .. Len(listed'), i <= RecentCap
            PROVE  i <= Len(recent') /\ recent'[i] = executed[listed'[i]].id
        <4>1. /\ 1 <= Len(recent') /\ recent'[1] = executed[n].id
              /\ \A k \in 2 .. RecentCap :
                    k - 1 <= Len(recent) => k <= Len(recent') /\ recent'[k] = recent[k - 1]
          BY <2>1, <2>9, ListMoves
        <4>2. CASE i = 1
          BY <3>1, <4>1, <4>2
        <4>3. CASE i # 1
          <5>1. RecentCap \in Nat /\ i \in Int /\ i - 1 <= RecentCap /\ i \in 2 .. RecentCap
                /\ i \in 2 .. Len(listed) + 1 /\ i - 1 \in 1 .. Len(listed)
            BY <1>0, <3>1, <3>8, <4>3, BoundsAssumption
          <5>2. i - 1 <= Len(recent) /\ recent[i - 1] = executed[listed[i - 1]].id
            BY <5>1 DEF Listed
          <5>3. QED BY <3>1, <4>1, <5>1, <5>2
        <4>4. QED BY <4>2, <4>3
      <3>9. QED BY <2>6, <3>5, <3>6, <3>7, <3>8 DEF Listed
    <2>10. QED BY <2>1, <2>7, <2>8, <2>9
  <1>4. CASE Restart
    <2>1. listed' = <<>>
      BY <1>4, Restarts
    <2>2. DOMAIN listed' = {} /\ 1 .. Len(listed') = {}
      BY <2>1
    <2>3. QED BY <2>2 DEF Listed
  <1>5. QED
    BY <1>1, <1>2, <1>3, <1>4, Flushes
       DEF Next, asyncWriter, RunEODSettlement, PlaceStore, PlaceAdd, PlaceSave, WriterTake,
           WriterTick, SettleQuery, SettleClient, SettleCut, memory, redis, vars

-----------------------------------------------------------------------------
(* The jobs of trades *)

Taken(n) == \E m \in 1 .. n - 1 : executed[m].id = executed[n].id /\ Recorded(m)
TradeJobOf(n) ==
    /\ In(tradeCh, n) => ~In(Queue, TradeJob(n)) /\ n \notin overtaken
    /\ OnTheWay(n) => TradeJob(n) \notin gone /\ ~Recorded(n) /\ n > Base
    /\ \A i \in DOMAIN Queue : Queue[i] = TradeJob(n) => Fated(n, i)
    /\ ~OnTheWay(n) => (Recorded(n) <=> ~Unrecordable(n))
    /\ Recorded(n) => \A o \in Sides(n) : orderRow[o] # "none"

LEMMA TradeJobsIff ==
    /\ TradeJobs <=> \A n \in DOMAIN executed : TradeJobOf(n)
    /\ \A n : Unrecordable(n) <=> \/ TradeJob(n) \in gone \/ n \in overtaken \/ Taken(n)
                                  \/ \E o \in Sides(n) : OrderJob(o) \in gone
  <1>1. TradeJobs <=> \A n \in DOMAIN executed : TradeJobOf(n)
    BY DEF TradeJobs, TradeJobOf
  <1>2. \A n : Unrecordable(n) <=> \/ TradeJob(n) \in gone \/ n \in overtaken \/ Taken(n)
                                   \/ \E o \in Sides(n) : OrderJob(o) \in gone
    BY DEF Unrecordable, Taken, TradeJob, OrderJob
  <1>3. QED BY <1>1, <1>2

\* What is before a job when one is added, and when the first one is taken
LEMMA Places ==
    ASSUME Types
    PROVE  /\ \A x : ~Before(x, 1)
           /\ Queue # <<>> => 1 \in DOMAIN Queue /\ Queue[1] = Head(Queue)
           /\ \A job \in Jobs : Queue' = Append(Queue, job) =>
                 \A i \in DOMAIN Queue' :
                    \/ /\ i \in DOMAIN Queue /\ Queue'[i] = Queue[i]
                       /\ \A x : Before(x, i)' <=> Before(x, i)
                    \/ /\ Queue'[i] = job
                       /\ \A x : Before(x, i)' <=> In(Queue, x)
           /\ Queue # <<>> /\ Queue' = Tail(Queue) =>
                 \A i \in DOMAIN Queue' :
                    /\ i + 1 \in DOMAIN Queue /\ Queue'[i] = Queue[i + 1]
                    /\ \A x : Before(x, i + 1) <=> x = Head(Queue) \/ Before(x, i)'
  <1> DEFINE l == Len(Queue)
  <1>1. Queue \in Seq(Jobs) /\ DOMAIN Queue = 1 .. l /\ l \in Nat
    BY QueueType, LenProperties DEF Types
  <1>2. \A x : ~Before(x, 1)
    BY DEF Before
  <1>3. Queue # <<>> => l > 0 /\ 1 \in DOMAIN Queue /\ Queue[1] = Head(Queue)
    BY <1>1, EmptySeq
  <1>4. ASSUME NEW job \in Jobs, Queue' = Append(Queue, job), NEW i \in DOMAIN Queue'
        PROVE  \/ /\ i \in DOMAIN Queue /\ Queue'[i] = Queue[i]
                  /\ \A x : Before(x, i)' <=> Before(x, i)
               \/ /\ Queue'[i] = job
                  /\ \A x : Before(x, i)' <=> In(Queue, x)
    <2>1. /\ Queue' \in Seq(Jobs) /\ Len(Queue') = l + 1 /\ Queue'[l + 1] = job
          /\ \A j \in 1 .. l : Queue'[j] = Queue[j]
      BY <1>1, <1>4, AppendProperties
    <2>2. DOMAIN Queue' = 1 .. l + 1
      BY <2>1, LenProperties
    <2> HIDE DEF l
    <2>3. \A j \in 1 .. i - 1 : j \in 1 .. l
      BY <1>1, <2>2
    <2>4. \A x : Before(x, i)' <=> \E j \in 1 .. i - 1 : Queue[j] = x
      BY <2>1, <2>3 DEF Before
    <2>5. CASE i \in 1 .. l
      BY <1>1, <2>1, <2>4, <2>5 DEF Before
    <2>6. CASE i = l + 1
      <3>1. 1 .. i - 1 = DOMAIN Queue
        BY <1>1, <2>6
      <3>2. QED BY <2>1, <2>4, <2>6, <3>1 DEF In
    <2>7. QED BY <1>1, <2>2, <2>5, <2>6
  <1>5. ASSUME Queue # <<>>, Queue' = Tail(Queue), NEW i \in DOMAIN Queue'
        PROVE  /\ i + 1 \in DOMAIN Queue /\ Queue'[i] = Queue[i + 1]
               /\ \A x : Before(x, i + 1) <=> x = Head(Queue) \/ Before(x, i)'
    <2>1. /\ Queue' \in Seq(Jobs) /\ Len(Queue') = l - 1
          /\ \A j \in 1 .. Len(Queue') : Queue'[j] = Queue[j + 1]
      BY <1>1, <1>5, HeadTailProperties
    <2>2. DOMAIN Queue' = 1 .. Len(Queue')
      BY <2>1, LenProperties
    <2> HIDE DEF l
    <2>3. /\ DOMAIN Queue' = 1 .. l - 1 /\ l > 0 /\ Queue[1] = Head(Queue)
          /\ \A j \in 1 .. l - 1 : Queue'[j] = Queue[j + 1]
      BY <1>3, <1>5, <2>1, <2>2
    <2>4. i \in 1 .. l - 1 /\ i + 1 \in DOMAIN Queue /\ Queue'[i] = Queue[i + 1]
      BY <1>1, <2>3
    <2>5. ASSUME NEW x, Before(x, i + 1) PROVE x = Head(Queue) \/ Before(x, i)'
      <3>1. PICK j \in 1 .. i : Queue[j] = x
        BY <2>4, <2>5 DEF Before
      <3>2. CASE j = 1
        BY <2>3, <3>1, <3>2
      <3>3. CASE j # 1
        <4> DEFINE k == j - 1
        <4>1. k \in 1 .. i - 1 /\ k \in 1 .. l - 1 /\ k + 1 = j
          BY <1>1, <2>4, <3>3
        <4> HIDE DEF k
        <4>2. Queue'[k] = x
          BY <2>3, <3>1, <4>1
        <4>3. QED BY <4>1, <4>2 DEF Before
      <3>4. QED BY <3>2, <3>3
    <2>6. ASSUME NEW x, x = Head(Queue) \/ Before(x, i)' PROVE Before(x, i + 1)
      <3>1. CASE x = Head(Queue)
        <4>1. 1 \in 1 .. (i + 1) - 1
          BY <2>4
        <4>2. QED BY <2>3, <3>1, <4>1 DEF Before
      <3>2. CASE Before(x, i)'
        <4>1. PICK k \in 1 .. i - 1 : Queue'[k] = x
          BY <3>2 DEF Before
        <4> DEFINE j == k + 1
        <4>2. j \in 1 .. (i + 1) - 1 /\ k \in 1 .. l - 1
          BY <1>1, <2>4
        <4>3. Queue[j] = x
          BY <2>3, <4>1, <4>2
        <4> HIDE DEF j
        <4>4. QED BY <4>2, <4>3 DEF Before
      <3>3. QED BY <2>6, <3>1, <3>2
    <2>7. QED BY <2>4, <2>5, <2>6
  <1>6. QED BY <1>2, <1>3, <1>4, <1>5

LEMMA SameRows ==
    ASSUME executed' = executed, tradeRow' = tradeRow
    PROVE  \A n : /\ Recorded(n)' <=> Recorded(n)
                  /\ Taken(n)' <=> Taken(n)
                  /\ Sides(n)' = Sides(n)
  BY DEF Recorded, Taken, Sides

\* What the proofs below take from the invariant about one trade
LEMMA TradeAt ==
    ASSUME Types, Ordered, OrderJobs, TradeJobs, NEW n \in DOMAIN executed
    PROVE  /\ TradeJobOf(n) /\ Sides(n) \subseteq Orders
           /\ \A o \in Orders : OrderJobOf(o)
           /\ Unrecordable(n) <=> \/ TradeJob(n) \in gone \/ n \in overtaken \/ Taken(n)
                                  \/ \E o \in Sides(n) : OrderJob(o) \in gone
  <1>1. TradeJobOf(n)
    BY TradeJobsIff
  <1>2. \A o \in Orders : OrderJobOf(o)
    BY OrderJobsIff
  <1>3. Sides(n) \subseteq Orders
    BY TradeFacts DEF Types
  <1>4. QED BY <1>1, <1>2, <1>3, TradeJobsIff

\* Each trade passes the channel once.
LEMMA ChannelOnce ==
    ASSUME Types, Ordered
    PROVE  Once(tradeCh)
  <1>1. /\ DOMAIN tradeCh = 1 .. Len(tradeCh) /\ Len(tradeCh) \in Nat
        /\ \A i \in DOMAIN tradeCh : tradeCh[i] \in DOMAIN executed
        /\ DOMAIN executed = 1 .. Len(executed) /\ Len(executed) \in Nat
    BY Numbers
  <1>2. ASSUME NEW i \in DOMAIN tradeCh, NEW j \in DOMAIN tradeCh, tradeCh[i] = tradeCh[j]
        PROVE  i = j
    <2>1. ~(i < j) /\ ~(j < i)
      <3>1. tradeCh[i] \in Int /\ tradeCh[j] \in Int
        BY <1>1
      <3>2. QED BY <1>2, <3>1 DEF Ordered
    <2>2. QED BY <1>1, <2>1
  <1>3. QED BY <1>2 DEF Once

LEMMA TradesQuiet ==
    ASSUME Types, Ordered, OrderJobs, TradeJobs, Quiet, UNCHANGED <<tradeCh, executed, counter>>
    PROVE  \A n \in DOMAIN executed' : TradeJobOf(n)'
  <1>1. ASSUME NEW n \in DOMAIN executed PROVE TradeJobOf(n)'
    <2>1. TradeJobOf(n) /\ (Unrecordable(n)' <=> Unrecordable(n))
      <3>1. TradeJobOf(n)
        BY TradeAt
      <3>2. Unrecordable(n)' <=> Unrecordable(n)
        BY DEF Quiet, Unrecordable, Recorded, Sides
      <3>3. QED BY <3>1, <3>2
    <2>2. Recorded(n)' <=> Recorded(n)
      BY SameRows DEF Quiet
    <2>3. Sides(n)' = Sides(n)
      BY DEF Sides
    <2>4. \A i : Fated(n, i)' <=> Fated(n, i)
      BY <2>3 DEF Quiet, Fated, Before
    <2>5. (OnTheWay(n)' <=> OnTheWay(n)) /\ Base' = Base
      BY DEF Quiet, OnTheWay, Base
    <2>6. QED BY <2>1, <2>2, <2>3, <2>4, <2>5 DEF TradeJobOf, Quiet
  <1>2. QED BY <1>1

LEMMA TradesExecute ==
    ASSUME Types, Ordered, OrderJobs, TradeJobs,
           NEW b \in Orders, NEW s \in Orders, Execute(b, s)
    PROVE  \A m \in DOMAIN executed' : TradeJobOf(m)'
  <1>0. PICK n : n = Len(executed) + 1
    OBVIOUS
  <1>1. /\ Base' = Base
        /\ DOMAIN executed' = DOMAIN executed \union {n} /\ n \notin DOMAIN executed
        /\ n > Base
        /\ \A m \in DOMAIN executed : executed'[m] = executed[m]
    BY <1>0, ExecuteNumbers, Zenon
  <1>2. /\ Queue' = Queue /\ orderRow' = orderRow /\ tradeRow' = tradeRow
        /\ overtaken' = overtaken
        /\ \/ tradeCh' = Append(tradeCh, n) /\ gone' = gone
           \/ tradeCh' = tradeCh /\ gone' = gone \union {TradeJob(n)}
    BY <1>0, Sends
  <1>5. /\ ~In(Queue, TradeJob(n)) /\ TradeJob(n) \notin gone /\ n \notin overtaken
        /\ ~In(tradeCh, n)
        /\ \A id \in 1 .. MaxTrades : tradeRow[id] # n
    <2>1. n # 0
      BY <1>0, Numbers
    <2>2. QED BY <1>1, <2>1 DEF Types, Spoken
  <1>3. /\ \A m : m # n => /\ In(tradeCh', m) <=> In(tradeCh, m)
                           /\ TradeJob(m) \in gone' <=> TradeJob(m) \in gone
        /\ \A o : OrderJob(o) \in gone' <=> OrderJob(o) \in gone
        /\ \/ In(tradeCh', n) /\ gone' = gone
           \/ ~In(tradeCh', n) /\ TradeJob(n) \in gone'
    <2> DEFINE S == 1 .. MaxTrades
    <2>1. tradeCh \in Seq(S) /\ n \in S
      <3>1. tradeCh \in Seq(S) /\ Len(executed) + 1 <= MaxTrades
        <4>1. PICK q \in Nat \ {0} : Len(executed) + 1 <= MaxTrades
          BY Executes
        <4>2. QED BY <4>1 DEF Types, TypeOK
      <3>2. QED BY <1>0, <3>1, Numbers, BoundsAssumption
    <2> HIDE DEF S
    <2>2. \A m : In(Append(tradeCh, n), m) <=> In(tradeCh, m) \/ m = n
      BY <2>1, Added
    <2>3. CASE tradeCh' = Append(tradeCh, n) /\ gone' = gone
      BY <2>2, <2>3
    <2>4. CASE tradeCh' = tradeCh /\ gone' = gone \union {TradeJob(n)}
      BY <1>5, <2>4, JobsDiffer
    <2>5. QED BY <1>2, <2>3, <2>4
  <1>4. DOMAIN executed = 1 .. Len(executed) /\ Len(executed) \in Nat
    BY Numbers
  <1>6. TradeJobOf(n)'
    <2>1. ~In(Queue', TradeJob(n)) /\ (OnTheWay(n)' <=> In(tradeCh', n))
      BY <1>2, <1>5 DEF OnTheWay
    <2>2. ~Recorded(n)'
      <3>1. executed'[n].id \in 1 .. MaxTrades
        <4>1. Types'
          BY TypesExecute
        <4>2. executed' \in Seq(Trade)
          BY <4>1 DEF Types, TypeOK, Trade
        <4>3. executed'[n] \in Trade
          BY <1>1, <4>2, ElementOfSeq, LenProperties
        <4>4. QED BY <4>3 DEF Trade
      <3>2. QED BY <1>2, <1>5, <3>1 DEF Recorded
    <2>3. \A i \in DOMAIN Queue' : Queue'[i] # TradeJob(n)
      BY <2>1 DEF In
    <2>4. TradeJob(n) \in gone' => Unrecordable(n)'
      BY DEF Unrecordable, TradeJob
    <2>5. QED BY <1>1, <1>2, <1>3, <1>5, <2>1, <2>2, <2>3, <2>4 DEF TradeJobOf
  <1>7. ASSUME NEW m \in DOMAIN executed PROVE TradeJobOf(m)'
    <2>1. TradeJobOf(m)
      BY TradeAt
    <2>2. \A k \in DOMAIN executed : Recorded(k)' <=> Recorded(k)
      BY <1>1, <1>2 DEF Recorded
    <2>3. Sides(m)' = Sides(m)
      BY <1>1 DEF Sides
    <2>0. m # n
      BY <1>1
    <2>4. Unrecordable(m)' <=> Unrecordable(m)
      <3>1. \A k \in 1 .. m - 1 : k \in DOMAIN executed
        BY <1>4
      <3>2. Taken(m)' <=> Taken(m)
        BY <1>1, <2>2, <3>1 DEF Taken
      <3>3. Unrecordable(m)' <=> \/ TradeJob(m) \in gone' \/ m \in overtaken' \/ Taken(m)'
                                 \/ \E o \in Sides(m)' : OrderJob(o) \in gone'
        BY DEF Unrecordable, Taken, TradeJob, OrderJob
      <3>4. QED BY <1>2, <1>3, <2>0, <2>3, <3>2, <3>3, TradeJobsIff
    <2>5. \A i : Fated(m, i)' <=> Fated(m, i)
      BY <1>2, <1>3, <2>3 DEF Fated, Before
    <2>6. (OnTheWay(m)' <=> OnTheWay(m)) /\ (In(tradeCh', m) <=> In(tradeCh, m))
      BY <1>2, <1>3, <2>0 DEF OnTheWay
    <2>7. TradeJob(m) \in gone' <=> TradeJob(m) \in gone
      BY <1>3, <2>0
    <2>8. Recorded(m)' <=> Recorded(m)
      BY <2>2
    <2>9. QED BY <1>1, <1>2, <2>1, <2>3, <2>4, <2>5, <2>6, <2>7, <2>8 DEF TradeJobOf
  <1>8. QED BY <1>1, <1>6, <1>7

LEMMA TradesPlace ==
    ASSUME Types, Ordered, OrderJobs, TradeJobs, NEW o \in Orders, PlaceSave(o)
    PROVE  \A n \in DOMAIN executed' : TradeJobOf(n)'
  <1>1. /\ place[o] # "saved"
        /\ \/ Queue' = Append(Queue, OrderJob(o)) /\ gone' = gone
           \/ Queue' = Queue /\ gone' = gone \union {OrderJob(o)}
        /\ UNCHANGED <<orderRow, tradeRow, overtaken, tradeCh, executed, counter>>
    BY Accepts
  <1>2. orderRow[o] = "none"
    BY <1>1, OrderJobsIff DEF OrderJobOf
  <1>3. /\ \A n : /\ In(Queue', TradeJob(n)) <=> In(Queue, TradeJob(n))
                  /\ TradeJob(n) \in gone' <=> TradeJob(n) \in gone
        /\ gone \subseteq gone' /\ \A p : OrderJob(p) \in gone' => OrderJob(p) \in gone \/ p = o
    BY <1>1, QueueSets, JobsDiffer
  <1>4. \A n : \A i \in DOMAIN Queue' :
           Queue'[i] = TradeJob(n) => /\ i \in DOMAIN Queue /\ Queue[i] = TradeJob(n)
                                      /\ \A x : Before(x, i)' <=> Before(x, i)
    <2>1. CASE Queue' = Append(Queue, OrderJob(o))
      <3>1. \A i \in DOMAIN Queue' :
               \/ i \in DOMAIN Queue /\ Queue'[i] = Queue[i] /\ \A x : Before(x, i)' <=> Before(x, i)
               \/ Queue'[i] = OrderJob(o)
        BY <2>1, Places, JobsDiffer
      <3>2. QED BY <3>1, JobsDiffer
    <2>2. CASE Queue' = Queue
      BY <2>2 DEF Before
    <2>3. QED BY <1>1, <2>1, <2>2
  <1>5. ASSUME NEW n \in DOMAIN executed PROVE TradeJobOf(n)'
    <2>1. /\ TradeJobOf(n) /\ Sides(n) \subseteq Orders
          /\ Unrecordable(n) <=> \/ TradeJob(n) \in gone \/ n \in overtaken \/ Taken(n)
                                 \/ \E p \in Sides(n) : OrderJob(p) \in gone
      BY TradeAt
    <2>2. (Recorded(n)' <=> Recorded(n)) /\ (Taken(n)' <=> Taken(n)) /\ Sides(n)' = Sides(n)
      BY <1>1, SameRows
    <2>3. Unrecordable(n)' <=> \/ TradeJob(n) \in gone' \/ n \in overtaken' \/ Taken(n)'
                               \/ \E p \in Sides(n)' : OrderJob(p) \in gone'
      BY DEF Unrecordable, Taken, TradeJob, OrderJob
    <2>4. (OnTheWay(n)' <=> OnTheWay(n)) /\ Base' = Base
      BY <1>1, <1>3 DEF OnTheWay, Base
    <2>5. \A i \in DOMAIN Queue' : Queue'[i] = TradeJob(n) => Fated(n, i)'
      <3>1. ASSUME NEW i \in DOMAIN Queue', Queue'[i] = TradeJob(n) PROVE Fated(n, i)'
        <4>1. /\ i \in DOMAIN Queue /\ Queue[i] = TradeJob(n)
              /\ \A x : Before(x, i)' <=> Before(x, i)
          BY <1>4, <3>1
        <4>2. Fated(n, i)
          BY <2>1, <4>1 DEF TradeJobOf
        <4>3. QED BY <1>1, <1>3, <2>2, <4>1, <4>2 DEF Fated
      <3>2. QED BY <3>1
    <2>6. Recorded(n) => o \notin Sides(n)
      BY <1>2, <2>1 DEF TradeJobOf
    <2>7. ~OnTheWay(n)' => (Recorded(n)' <=> ~Unrecordable(n)')
      BY <1>1, <1>3, <2>1, <2>2, <2>3, <2>4, <2>6 DEF TradeJobOf
    <2>8. QED BY <1>1, <1>3, <2>1, <2>2, <2>4, <2>5, <2>7 DEF TradeJobOf
  <1>6. QED BY <1>1, <1>5

\* The fate of a trade that stays where it is, when jobs were added behind it
LEMMA StillFated ==
    ASSUME NEW n, NEW i, Fated(n, i), orderRow' = orderRow, Sides(n)' = Sides(n),
           n \in overtaken' <=> n \in overtaken, \A p : OrderJob(p) \in gone => OrderJob(p) \in gone',
           \A x : Before(x, i)' <=> Before(x, i)
    PROVE  Fated(n, i)'
  BY DEF Fated

LEMMA TradesConsume ==
    ASSUME Types, Ordered, OrderJobs, TradeJobs, ConsumeTrade
    PROVE  \A m \in DOMAIN executed' : TradeJobOf(m)'
  <1>0. PICK n : n = Head(tradeCh)
    OBVIOUS
  <1>1. /\ n \in DOMAIN executed /\ In(tradeCh, n) /\ TradeJob(n) \in Jobs
        /\ \A m : In(tradeCh', m) <=> In(tradeCh, m) /\ m # n
        /\ \/ Queue' = Append(Queue, TradeJob(n)) /\ gone' = gone
           \/ Queue' = Queue /\ gone' = gone \union {TradeJob(n)}
        /\ overtaken' = IF \A o \in Sides(n) : place[o] = "saved" THEN overtaken
                        ELSE overtaken \union {n}
        /\ UNCHANGED <<place, orderRow, tradeRow, executed, counter>>
    <2>1. Once(tradeCh)
      BY ChannelOnce
    <2>2. QED BY <1>0, <2>1, HandsOver
  <1>2. \A m : (Recorded(m)' <=> Recorded(m)) /\ (Taken(m)' <=> Taken(m)) /\ Sides(m)' = Sides(m)
    BY <1>1, SameRows
  <1>3. \A m : Unrecordable(m)' <=> \/ TradeJob(m) \in gone' \/ m \in overtaken' \/ Taken(m)'
                                    \/ \E p \in Sides(m)' : OrderJob(p) \in gone'
    BY DEF Unrecordable, Taken, TradeJob, OrderJob
  <1>4. Base' = Base
    BY <1>1 DEF Base
  <1>5. /\ TradeJobOf(n) /\ Sides(n) \subseteq Orders /\ \A o \in Orders : OrderJobOf(o)
    BY <1>1, TradeAt
  <1>6. /\ ~In(Queue, TradeJob(n)) /\ n \notin overtaken /\ TradeJob(n) \notin gone
        /\ ~Recorded(n) /\ n > Base
    BY <1>1, <1>5 DEF TradeJobOf, OnTheWay
  <1>7. \A p : OrderJob(p) \in gone' <=> OrderJob(p) \in gone
    BY <1>1, JobsDiffer
  <1>8. \A i \in DOMAIN Queue' :
           \/ /\ i \in DOMAIN Queue /\ Queue'[i] = Queue[i]
              /\ \A x : Before(x, i)' <=> Before(x, i)
           \/ Queue'[i] = TradeJob(n) /\ \A x : Before(x, i)' <=> In(Queue, x)
    <2>1. CASE Queue' = Append(Queue, TradeJob(n))
      BY <1>1, <2>1, Places
    <2>2. CASE Queue' = Queue
      BY <2>2 DEF Before
    <2>3. QED BY <1>1, <2>1, <2>2
  <1>9. TradeJobOf(n)'
    <2>1. ASSUME NEW i \in DOMAIN Queue', Queue'[i] = TradeJob(n) PROVE Fated(n, i)'
      <3>1. \A x : Before(x, i)' <=> In(Queue, x)
        BY <1>6, <1>8, <2>1 DEF In
      <3>2. CASE \A o \in Sides(n) : place[o] = "saved"
        <4>1. n \notin overtaken'
          BY <1>1, <1>6, <3>2
        <4>2. \A o \in Sides(n) : \/ orderRow[o] # "none" \/ OrderJob(o) \in gone
                                  \/ In(Queue, OrderJob(o))
          BY <1>5, <3>2 DEF OrderJobOf
        <4>3. QED BY <1>1, <1>2, <1>7, <3>1, <4>1, <4>2 DEF Fated
      <3>3. CASE ~(\A o \in Sides(n) : place[o] = "saved")
        <4>1. n \in overtaken'
          BY <1>1, <3>3
        <4>2. \E o \in Sides(n) : orderRow[o] = "none" /\ ~In(Queue, OrderJob(o))
          BY <1>5, <3>3 DEF OrderJobOf
        <4>3. QED BY <1>1, <1>2, <3>1, <4>1, <4>2 DEF Fated
      <3>4. QED BY <3>2, <3>3
    <2>2. ~In(tradeCh', n)
      BY <1>1
    <2>3. CASE Queue' = Append(Queue, TradeJob(n)) /\ gone' = gone
      <3>1. OnTheWay(n)'
        BY <1>1, <2>3, QueueSets DEF OnTheWay
      <3>2. QED BY <1>2, <1>4, <1>6, <2>1, <2>2, <2>3, <3>1 DEF TradeJobOf
    <2>4. CASE Queue' = Queue /\ gone' = gone \union {TradeJob(n)}
      <3>1. ~OnTheWay(n)' /\ TradeJob(n) \in gone'
        BY <1>6, <2>2, <2>4 DEF OnTheWay
      <3>2. QED BY <1>2, <1>3, <1>6, <2>1, <2>2, <3>1 DEF TradeJobOf
    <2>5. QED BY <1>1, <2>3, <2>4
  <1>10. ASSUME NEW m \in DOMAIN executed, m # n PROVE TradeJobOf(m)'
    <2>1. /\ TradeJobOf(m)
          /\ Unrecordable(m) <=> \/ TradeJob(m) \in gone \/ m \in overtaken \/ Taken(m)
                                 \/ \E o \in Sides(m) : OrderJob(o) \in gone
      BY TradeAt
    <2>2. /\ In(Queue', TradeJob(m)) <=> In(Queue, TradeJob(m))
          /\ TradeJob(m) \in gone' <=> TradeJob(m) \in gone
          /\ m \in overtaken' <=> m \in overtaken
          /\ In(tradeCh', m) <=> In(tradeCh, m)
      BY <1>1, <1>10, QueueSets, JobsDiffer
    <2>3. OnTheWay(m)' <=> OnTheWay(m)
      BY <2>2 DEF OnTheWay
    <2>4. ASSUME NEW i \in DOMAIN Queue', Queue'[i] = TradeJob(m) PROVE Fated(m, i)'
      <3>1. i \in DOMAIN Queue /\ Queue[i] = TradeJob(m) /\ \A x : Before(x, i)' <=> Before(x, i)
        BY <1>8, <1>10, <2>4, JobsDiffer
      <3>2. Fated(m, i)
        BY <2>1, <3>1 DEF TradeJobOf
      <3>3. orderRow' = orderRow /\ Sides(m)' = Sides(m)
        BY <1>1, <1>2
      <3>4. QED BY <1>7, <2>2, <3>1, <3>2, <3>3, StillFated
    <2>5. Unrecordable(m)' <=> Unrecordable(m)
      BY <1>2, <1>3, <1>7, <2>1, <2>2
    <2>6. QED BY <1>1, <1>2, <1>4, <2>1, <2>2, <2>3, <2>4, <2>5 DEF TradeJobOf
  <1>11. QED BY <1>1, <1>9, <1>10

LEMMA TradesRestart ==
    ASSUME Types, Ordered, OrderJobs, TradeJobs, Restart
    PROVE  \A m \in DOMAIN executed' : TradeJobOf(m)'
  <1>1. /\ Queue' = <<>> /\ \A x : ~In(Queue', x) /\ ~In(tradeCh', x)
        /\ \A x : In(Queue, x) => x \in gone'
        /\ \A m : In(tradeCh, m) => TradeJob(m) \in gone'
        /\ gone \subseteq gone'
        /\ \A x \in gone' : \/ x \in gone \/ In(Queue, x)
                            \/ \E m \in DOMAIN executed : In(tradeCh, m) /\ x = TradeJob(m)
        /\ UNCHANGED <<orderRow, tradeRow, executed, overtaken>>
    BY Restarts
  <1>2. \A m : (Recorded(m)' <=> Recorded(m)) /\ (Taken(m)' <=> Taken(m)) /\ Sides(m)' = Sides(m)
    BY <1>1, SameRows
  <1>3. \A m : Unrecordable(m)' <=> \/ TradeJob(m) \in gone' \/ m \in overtaken' \/ Taken(m)'
                                    \/ \E p \in Sides(m)' : OrderJob(p) \in gone'
    BY DEF Unrecordable, Taken, TradeJob, OrderJob
  <1>4. ASSUME NEW m \in DOMAIN executed PROVE TradeJobOf(m)'
    <2>1. /\ TradeJobOf(m) /\ Sides(m) \subseteq Orders /\ \A o \in Orders : OrderJobOf(o)
          /\ Unrecordable(m) <=> \/ TradeJob(m) \in gone \/ m \in overtaken \/ Taken(m)
                                 \/ \E o \in Sides(m) : OrderJob(o) \in gone
      BY TradeAt
    <2>2. ~OnTheWay(m)' /\ \A i \in DOMAIN Queue' : FALSE
      BY <1>1 DEF OnTheWay
    <2>3. Recorded(m)' <=> ~Unrecordable(m)'
      <3>1. CASE OnTheWay(m)
        <4>1. TradeJob(m) \in gone' /\ ~Recorded(m)
          BY <1>1, <2>1, <3>1 DEF TradeJobOf, OnTheWay
        <4>2. QED BY <1>2, <1>3, <4>1
      <3>2. CASE ~OnTheWay(m)
        <4>1. TradeJob(m) \in gone' <=> TradeJob(m) \in gone
          BY <1>1, <3>2, JobsDiffer DEF OnTheWay
        <4>2. ASSUME Recorded(m), NEW o \in Sides(m), OrderJob(o) \in gone' PROVE FALSE
          <5>1. orderRow[o] # "none" /\ OrderJobOf(o)
            BY <2>1, <4>2 DEF TradeJobOf
          <5>2. OrderJob(o) \notin gone /\ ~In(Queue, OrderJob(o))
            BY <5>1 DEF OrderJobOf
          <5>3. QED BY <1>1, <4>2, <5>2, JobsDiffer
        <4>3. Recorded(m) <=> ~Unrecordable(m)
          BY <2>1, <3>2 DEF TradeJobOf
        <4>4. QED BY <1>1, <1>2, <1>3, <2>1, <4>1, <4>2, <4>3
      <3>3. QED BY <3>1, <3>2
    <2>4. QED BY <1>1, <1>2, <2>1, <2>2, <2>3 DEF TradeJobOf
  <1>5. QED BY <1>1, <1>4

\* The writer comes to the next job: an order's
LEMMA TradesWriteOrder ==
    ASSUME Types, Ordered, OrderJobs, TradeJobs, WriterFlush, NEW o \in Orders, WritesOrder(o)
    PROVE  \A m \in DOMAIN executed' : TradeJobOf(m)'
  <1>1. /\ Queue # <<>> /\ Queue' = Tail(Queue) /\ In(Queue, OrderJob(o)) /\ Head(Queue) = OrderJob(o)
        /\ UNCHANGED <<tradeCh, executed, counter, overtaken, tradeRow>>
        /\ \/ /\ gone' = gone
              /\ orderRow' = [p \in Orders |-> IF p = o /\ orderRow[p] = "none" THEN Status(o)
                                               ELSE orderRow[p]]
           \/ gone' = gone \union {OrderJob(o)} /\ orderRow' = orderRow
    BY Flushes DEF WritesOrder
  <1>2. \A m : (Recorded(m)' <=> Recorded(m)) /\ (Taken(m)' <=> Taken(m)) /\ Sides(m)' = Sides(m)
    BY <1>1, SameRows
  <1>3. \A m : Unrecordable(m)' <=> \/ TradeJob(m) \in gone' \/ m \in overtaken' \/ Taken(m)'
                                    \/ \E p \in Sides(m)' : OrderJob(p) \in gone'
    BY DEF Unrecordable, Taken, TradeJob, OrderJob
  <1>4. Base' = Base
    BY <1>1 DEF Base
  <1>5. orderRow[o] = "none"
    BY <1>1, OrderJobsIff DEF OrderJobOf
  <1>6. /\ \A p \in Orders : orderRow[p] # "none" => orderRow'[p] # "none"
        /\ \A p \in Orders : p # o => orderRow'[p] = orderRow[p]
        /\ orderRow'[o] # "none" \/ OrderJob(o) \in gone'
        /\ gone \subseteq gone'
        /\ \A p : OrderJob(p) \in gone' => OrderJob(p) \in gone \/ p = o
        /\ \A m : TradeJob(m) \in gone' <=> TradeJob(m) \in gone
    BY <1>1, <1>5, StatusIs, JobsDiffer
  <1>7. \A m : In(Queue', TradeJob(m)) <=> In(Queue, TradeJob(m))
    BY <1>1, QueueSets, JobsDiffer
  <1>8. ASSUME NEW m \in DOMAIN executed PROVE TradeJobOf(m)'
    <2>1. /\ TradeJobOf(m) /\ Sides(m) \subseteq Orders
          /\ Unrecordable(m) <=> \/ TradeJob(m) \in gone \/ m \in overtaken \/ Taken(m)
                                 \/ \E p \in Sides(m) : OrderJob(p) \in gone
      BY TradeAt
    <2>2. OnTheWay(m)' <=> OnTheWay(m)
      BY <1>1, <1>7 DEF OnTheWay
    <2>3. ASSUME NEW i \in DOMAIN Queue', Queue'[i] = TradeJob(m) PROVE Fated(m, i)'
      <3>1. /\ i + 1 \in DOMAIN Queue /\ Queue[i + 1] = TradeJob(m)
            /\ \A x : Before(x, i + 1) <=> x = OrderJob(o) \/ Before(x, i)'
        BY <1>1, <2>3, Places
      <3>2. Fated(m, i + 1)
        BY <2>1, <3>1 DEF TradeJobOf
      <3>3. CASE m \in overtaken
        <4>1. PICK p \in Sides(m) : orderRow[p] = "none" /\ ~Before(OrderJob(p), i + 1)
          BY <3>2, <3>3 DEF Fated
        <4>2. p # o /\ ~Before(OrderJob(p), i)'
          BY <3>1, <4>1
        <4>3. orderRow'[p] = "none"
          BY <1>6, <2>1, <4>1, <4>2
        <4>4. QED BY <1>1, <1>2, <3>3, <4>2, <4>3 DEF Fated
      <3>4. CASE m \notin overtaken
        <4>1. \A p \in Sides(m) : \/ orderRow[p] # "none" \/ OrderJob(p) \in gone
                                  \/ Before(OrderJob(p), i + 1)
          BY <3>2, <3>4 DEF Fated
        <4>2. \A p \in Sides(m) : \/ orderRow'[p] # "none" \/ OrderJob(p) \in gone'
                                  \/ Before(OrderJob(p), i)'
          BY <1>6, <2>1, <3>1, <4>1, JobsDiffer
        <4>3. QED BY <1>1, <1>2, <3>4, <4>2 DEF Fated
      <3>5. QED BY <3>3, <3>4
    <2>4. Recorded(m) => o \notin Sides(m)
      BY <1>5, <2>1 DEF TradeJobOf
    <2>5. ~OnTheWay(m)' => (Recorded(m)' <=> ~Unrecordable(m)')
      BY <1>1, <1>2, <1>3, <1>6, <2>1, <2>2, <2>4 DEF TradeJobOf
    <2>6. Recorded(m)' => \A p \in Sides(m)' : orderRow'[p] # "none"
      BY <1>2, <1>6, <2>1 DEF TradeJobOf
    <2>7. QED BY <1>1, <1>2, <1>4, <1>6, <1>7, <2>1, <2>2, <2>3, <2>5, <2>6 DEF TradeJobOf
  <1>9. QED BY <1>1, <1>8

\* An insert into the table of trades: a free id is taken, another stays with its trade,
\* which is of an earlier life.
LEMMA InsertTrade ==
    ASSUME Types, Ordered, NEW k \in DOMAIN executed, k > Base, ~Recorded(k),
           executed' = executed,
           tradeRow' = IF tradeRow[executed[k].id] = 0
                       THEN [tradeRow EXCEPT ![executed[k].id] = k] ELSE tradeRow
    PROVE  /\ \A m \in DOMAIN executed : m # k => /\ Recorded(m)' <=> Recorded(m)
                                                  /\ Taken(m)' <=> Taken(m)
           /\ \/ Recorded(k)' /\ ~Taken(k)'
              \/ ~Recorded(k)' /\ Taken(k)'
  <1> DEFINE id == executed[k].id
  <1>1. /\ DOMAIN executed = 1 .. Len(executed) /\ Len(executed) \in Nat /\ Base \in Int
        /\ \A m \in DOMAIN executed : executed[m].id \in 1 .. MaxTrades
        /\ tradeRow \in [1 .. MaxTrades -> 0 .. MaxTrades]
    BY Numbers, TradeFacts DEF Types, TypeOK
  <1>2. ASSUME NEW m \in DOMAIN executed, m > k, executed[m].id = executed[k].id PROVE FALSE
    <2>1. m > Base
      BY <1>1, <1>2
    <2>2. m = k
      BY <1>2, <2>1, OwnIds
    <2>3. QED BY <1>1, <1>2, <2>2
  <1>3. CASE tradeRow[executed[k].id] = 0
    <2>1. tradeRow' = [tradeRow EXCEPT ![executed[k].id] = k]
      BY <1>3
    <2>2. \A m \in DOMAIN executed : m # k => (Recorded(m)' <=> Recorded(m))
      <3>1. ASSUME NEW m \in DOMAIN executed, m # k PROVE Recorded(m)' <=> Recorded(m)
        <4>1. CASE executed[m].id = executed[k].id
          <5>1. m # 0 /\ tradeRow'[executed[m].id] = k
            BY <1>1, <2>1, <4>1
          <5>2. QED BY <1>3, <3>1, <4>1, <5>1 DEF Recorded
        <4>2. CASE executed[m].id # executed[k].id
          BY <1>1, <2>1, <4>2 DEF Recorded
        <4>3. QED BY <4>1, <4>2
      <3>2. QED BY <3>1
    <2>3. Recorded(k)'
      BY <1>1, <2>1 DEF Recorded
    <2>4. \A m \in DOMAIN executed : \A l \in 1 .. m - 1 : l \in DOMAIN executed /\ l < m
      BY <1>1
    <2>5. ASSUME NEW m \in DOMAIN executed, m # k PROVE Taken(m)' <=> Taken(m)
      <3>1. \A l \in 1 .. m - 1 : executed[l].id = executed[m].id => l # k
        BY <1>2, <2>4
      <3>2. \A l \in 1 .. m - 1 :
               executed[l].id = executed[m].id => (Recorded(l)' <=> Recorded(l))
        BY <2>2, <2>4, <3>1
      <3>3. QED BY <3>2 DEF Taken
    <2>6. ~Taken(k)'
      <3>1. ASSUME NEW l \in 1 .. k - 1, executed[l].id = executed[k].id, Recorded(l)' PROVE FALSE
        <4>1. l # k
          BY <1>1
        <4>2. tradeRow'[executed[k].id] = k
          BY <1>1, <2>1
        <4>3. QED BY <3>1, <4>1, <4>2 DEF Recorded
      <3>2. QED BY <3>1 DEF Taken
    <2>7. QED BY <2>2, <2>3, <2>5, <2>6
  <1>4. CASE tradeRow[executed[k].id] # 0
    <2>1. tradeRow' = tradeRow
      BY <1>4
    <2>2. \A m : (Recorded(m)' <=> Recorded(m)) /\ (Taken(m)' <=> Taken(m))
      BY <2>1, SameRows
    <2>3. PICK l \in DOMAIN executed : l = tradeRow[executed[k].id] /\ executed[l].id = executed[k].id
      BY <1>1, <1>4 DEF Types, Spoken
    <2>4. l # k
      BY <2>3 DEF Recorded
    <2>5. l \in 1 .. k - 1
      BY <1>1, <1>2, <2>3, <2>4
    <2>6. Recorded(l)
      BY <2>3 DEF Recorded
    <2>7. Taken(k)
      BY <2>3, <2>5, <2>6 DEF Taken
    <2>8. QED BY <2>2, <2>7
  <1>5. QED BY <1>3, <1>4

\* ... or a trade's
LEMMA TradesWriteTrade ==
    ASSUME Types, Ordered, OrderJobs, TradeJobs, WriterFlush,
           NEW k \in DOMAIN executed, WritesTrade(k)
    PROVE  \A m \in DOMAIN executed' : TradeJobOf(m)'
  <1>1. /\ Queue # <<>> /\ Queue' = Tail(Queue) /\ In(Queue, TradeJob(k)) /\ Head(Queue) = TradeJob(k)
        /\ UNCHANGED <<tradeCh, executed, counter, overtaken, orderRow>>
        /\ \/ /\ gone' = gone
              /\ \A o \in Sides(k) : orderRow[o] # "none"
              /\ tradeRow' = IF tradeRow[executed[k].id] = 0
                             THEN [tradeRow EXCEPT ![executed[k].id] = k] ELSE tradeRow
           \/ /\ gone' = gone
              /\ ~(\A o \in Sides(k) : orderRow[o] # "none")
              /\ tradeRow' = tradeRow
           \/ gone' = gone \union {TradeJob(k)} /\ tradeRow' = tradeRow
    BY Flushes DEF WritesTrade
  <1>2. \A m : Unrecordable(m)' <=> \/ TradeJob(m) \in gone' \/ m \in overtaken' \/ Taken(m)'
                                    \/ \E p \in Sides(m)' : OrderJob(p) \in gone'
    BY DEF Unrecordable, Taken, TradeJob, OrderJob
  <1>3. Base' = Base /\ \A m : Sides(m)' = Sides(m)
    BY <1>1 DEF Base, Sides
  <1>4. /\ TradeJobOf(k) /\ Sides(k) \subseteq Orders /\ \A o \in Orders : OrderJobOf(o)
        /\ Unrecordable(k) <=> \/ TradeJob(k) \in gone \/ k \in overtaken \/ Taken(k)
                               \/ \E p \in Sides(k) : OrderJob(p) \in gone
    BY TradeAt
  <1>5. ~Recorded(k) /\ TradeJob(k) \notin gone /\ k > Base /\ ~In(tradeCh, k)
    BY <1>1, <1>4 DEF TradeJobOf, OnTheWay
  <1>6. IF k \in overtaken THEN \E o \in Sides(k) : orderRow[o] = "none"
        ELSE \A o \in Sides(k) : orderRow[o] # "none" \/ OrderJob(o) \in gone
    <2>1. 1 \in DOMAIN Queue /\ Queue[1] = TradeJob(k) /\ \A x : ~Before(x, 1)
      BY <1>1, Places
    <2>2. Fated(k, 1)
      BY <1>4, <2>1 DEF TradeJobOf
    <2>3. QED BY <2>1, <2>2 DEF Fated
  <1>7. /\ \A p : OrderJob(p) \in gone' <=> OrderJob(p) \in gone
        /\ \A m : m # k => (TradeJob(m) \in gone' <=> TradeJob(m) \in gone)
    BY <1>1, JobsDiffer
  <1>8. /\ \A m : m # k => (In(Queue', TradeJob(m)) <=> In(Queue, TradeJob(m)))
        /\ ~In(Queue', TradeJob(k))
    <2>1. Once(Queue)
      BY OrderJobsIff
    <2>2. QED BY <1>1, <2>1, QueueSets, JobsDiffer
  <1>9. /\ \A m \in DOMAIN executed : m # k => /\ Recorded(m)' <=> Recorded(m)
                                               /\ Taken(m)' <=> Taken(m)
        /\ Recorded(k)' <=> ~Unrecordable(k)'
        /\ Recorded(k)' => \A o \in Sides(k) : orderRow[o] # "none"
    <2>1. CASE /\ gone' = gone
               /\ \A o \in Sides(k) : orderRow[o] # "none"
               /\ tradeRow' = IF tradeRow[executed[k].id] = 0
                              THEN [tradeRow EXCEPT ![executed[k].id] = k] ELSE tradeRow
      <3>1. k \notin overtaken
        BY <1>6, <2>1
      <3>2. \A o \in Sides(k) : OrderJob(o) \notin gone
        BY <1>4, <2>1 DEF OrderJobOf
      <3>3. /\ \A m \in DOMAIN executed : m # k => /\ Recorded(m)' <=> Recorded(m)
                                                   /\ Taken(m)' <=> Taken(m)
            /\ \/ Recorded(k)' /\ ~Taken(k)'
               \/ ~Recorded(k)' /\ Taken(k)'
        BY <1>1, <1>5, <2>1, InsertTrade
      <3>4. Unrecordable(k)' <=> Taken(k)'
        BY <1>1, <1>2, <1>3, <1>5, <2>1, <3>1, <3>2
      <3>5. QED BY <2>1, <3>3, <3>4
    <2>2. CASE tradeRow' = tradeRow
      <3>1. \A m : (Recorded(m)' <=> Recorded(m)) /\ (Taken(m)' <=> Taken(m))
        BY <1>1, <2>2, SameRows
      <3>2. CASE gone' = gone /\ ~(\A o \in Sides(k) : orderRow[o] # "none")
        <4>1. k \in overtaken \/ \E o \in Sides(k) : OrderJob(o) \in gone
          BY <1>6, <3>2
        <4>2. Unrecordable(k)'
          BY <1>1, <1>2, <1>3, <3>2, <4>1
        <4>3. QED BY <1>5, <3>1, <4>2
      <3>3. CASE gone' = gone \union {TradeJob(k)}
        <4>1. Unrecordable(k)'
          BY <1>2, <3>3
        <4>2. QED BY <1>5, <3>1, <4>1
      <3>4. CASE /\ gone' = gone
                 /\ \A o \in Sides(k) : orderRow[o] # "none"
                 /\ tradeRow' = IF tradeRow[executed[k].id] = 0
                                THEN [tradeRow EXCEPT ![executed[k].id] = k] ELSE tradeRow
        BY <2>1, <3>4
      <3>5. QED BY <1>1, <3>2, <3>3, <3>4
    <2>3. QED BY <1>1, <2>1, <2>2
  <1>10. TradeJobOf(k)'
    <2>1. ~OnTheWay(k)' /\ \A i \in DOMAIN Queue' : Queue'[i] # TradeJob(k)
      BY <1>1, <1>5, <1>8 DEF OnTheWay, In
    <2>2. QED BY <1>1, <1>3, <1>5, <1>9, <2>1 DEF TradeJobOf
  <1>11. ASSUME NEW m \in DOMAIN executed, m # k PROVE TradeJobOf(m)'
    <2>1. /\ TradeJobOf(m)
          /\ Unrecordable(m) <=> \/ TradeJob(m) \in gone \/ m \in overtaken \/ Taken(m)
                                 \/ \E p \in Sides(m) : OrderJob(p) \in gone
      BY TradeAt
    <2>2. OnTheWay(m)' <=> OnTheWay(m)
      BY <1>1, <1>8, <1>11 DEF OnTheWay
    <2>3. ASSUME NEW i \in DOMAIN Queue', Queue'[i] = TradeJob(m) PROVE Fated(m, i)'
      <3>1. /\ i + 1 \in DOMAIN Queue /\ Queue[i + 1] = TradeJob(m)
            /\ \A x : Before(x, i + 1) <=> x = TradeJob(k) \/ Before(x, i)'
        BY <1>1, <2>3, Places
      <3>2. Fated(m, i + 1)
        BY <2>1, <3>1 DEF TradeJobOf
      <3>3. \A p : Before(OrderJob(p), i + 1) <=> Before(OrderJob(p), i)'
        BY <3>1, JobsDiffer
      <3>4. QED BY <1>1, <1>3, <1>7, <3>2, <3>3 DEF Fated
    <2>4. (Recorded(m)' <=> Recorded(m)) /\ (Taken(m)' <=> Taken(m))
      BY <1>9, <1>11
    <2>5. Unrecordable(m)' <=> Unrecordable(m)
      BY <1>1, <1>2, <1>3, <1>7, <1>11, <2>1, <2>4
    <2>6. QED BY <1>1, <1>3, <1>7, <1>8, <1>11, <2>1, <2>2, <2>3, <2>4, <2>5 DEF TradeJobOf
  <1>12. QED BY <1>1, <1>10, <1>11

LEMMA TradeJobsStep ==
    ASSUME Types, Ordered, OrderJobs, TradeJobs, [Next]_vars
    PROVE  TradeJobs'
  <1>1. ASSUME Quiet, UNCHANGED <<tradeCh, executed, counter>>
        PROVE  \A n \in DOMAIN executed' : TradeJobOf(n)'
    BY <1>1, TradesQuiet
  <1>2. ASSUME WriterFlush PROVE \A n \in DOMAIN executed' : TradeJobOf(n)'
    BY <1>2, Flushes, TradesWriteOrder, TradesWriteTrade
  <1>3. \A n \in DOMAIN executed' : TradeJobOf(n)'
    <2>1. \A o \in Orders : PlaceStore(o) \/ PlaceAdd(o) => UNCHANGED <<executed, counter>>
      BY DEF PlaceStore, PlaceAdd
    <2>2. WriterTake \/ WriterTick \/ RunEODSettlement \/ UNCHANGED vars
          => UNCHANGED <<executed, counter>>
      BY DEF WriterTake, WriterTick, RunEODSettlement, SettleQuery, SettleClient, SettleCut, memory, vars
    <2>3. QED
      BY <1>1, <1>2, <2>1, <2>2, QuietSteps, TradesPlace, TradesExecute, TradesConsume,
         TradesRestart DEF Next, asyncWriter
  <1>4. QED BY <1>3 DEF TradeJobs, TradeJobOf

-----------------------------------------------------------------------------
(* What is billed *)

TradesOf(o) == {n \in DOMAIN executed : o \in Sides(n)}

LEMMA ExecutedQtyType ==
    ASSUME Types, NEW o
    PROVE  /\ ExecutedQty(o) = SumFunctionOnSet(Qty, TradesOf(o)) /\ ExecutedQty(o) \in Nat
           /\ IsFiniteSet(TradesOf(o))
           /\ \A n \in DOMAIN executed : Qty[n] = executed[n].qty /\ Qty[n] \in Nat
  <1>1. ExecutedQty(o) = SumFunctionOnSet(Qty, TradesOf(o))
    BY DEF ExecutedQty, TradesOf
  <1>2. TypeOK
    BY DEF Types
  <1>3. IsFiniteSet(DOMAIN executed)
    BY <1>2, TradeFacts, FS_Interval
  <1>4. IsFiniteSet(TradesOf(o))
    BY <1>3, FS_Subset DEF TradesOf
  <1>5. \A n \in DOMAIN executed : Qty[n] = executed[n].qty /\ Qty[n] \in Nat
    BY <1>2, TradeFacts DEF Qty
  <1>6. \A n \in TradesOf(o) : Qty[n] \in Nat
    BY <1>5 DEF TradesOf
  <1>7. QED BY <1>1, <1>4, <1>5, <1>6, SumIsNat

\* A trade counts for the orders on its two sides.
LEMMA ExecutedGrows ==
    ASSUME Types, NEW b \in Orders, NEW s \in Orders, Execute(b, s)
    PROVE  \A o \in Orders : /\ filled'[o] - filled[o] = ExecutedQty(o)' - ExecutedQty(o)
                             /\ ExecutedQty(o)' >= ExecutedQty(o) /\ ExecutedQty(o)' \in Nat
  <1>1. PICK q \in Nat \ {0} :
             /\ filled' = [o \in Orders |-> IF o \in {b, s} THEN filled[o] + q ELSE filled[o]]
             /\ executed' = Append(executed, [id |-> counter + 1, buy |-> b, sell |-> s,
                                              qty |-> q])
             /\ [id |-> counter + 1, buy |-> b, sell |-> s, qty |-> q] \in Trade
    BY Executes
  <1>2. PICK k : k = Len(executed) + 1
    OBVIOUS
  <1>3. /\ DOMAIN executed' = DOMAIN executed \union {k} /\ k \notin DOMAIN executed
        /\ executed'[k] = [id |-> counter + 1, buy |-> b, sell |-> s, qty |-> q]
        /\ \A n \in DOMAIN executed : executed'[n] = executed[n]
    BY <1>1, <1>2, OneMore DEF Types
  <1>4. executed'[k].buy = b /\ executed'[k].sell = s /\ executed'[k].qty = q
    BY <1>3
  <1>5. filled \in [Orders -> Nat]
    BY DEF Types, TypeOK
  <1>6. ASSUME NEW o \in Orders
        PROVE  /\ filled'[o] - filled[o] = ExecutedQty(o)' - ExecutedQty(o)
               /\ ExecutedQty(o)' >= ExecutedQty(o) /\ ExecutedQty(o)' \in Nat
    <2> DEFINE S == TradesOf(o)
               T == TradesOf(o)'
               f == Qty
               g == Qty'
    <2>1. /\ ExecutedQty(o) = SumFunctionOnSet(f, S) /\ ExecutedQty(o) \in Nat
          /\ IsFiniteSet(S) /\ \A n \in DOMAIN executed : f[n] = executed[n].qty /\ f[n] \in Nat
      BY ExecutedQtyType
    <2>2. /\ ExecutedQty(o)' = SumFunctionOnSet(g, T)
          /\ \A n \in DOMAIN executed' : g[n] = executed'[n].qty /\ g[n] \in Nat
      <3>1. ExecutedQty(o)' = SumFunctionOnSet(g, T)
        BY DEF ExecutedQty, TradesOf
      <3>2. \A n \in DOMAIN executed' : g[n] = executed'[n].qty
        BY DEF Qty
      <3>3. \A n \in DOMAIN executed' : executed'[n].qty \in Nat
        BY <1>3, <1>4, <2>1
      <3>4. QED BY <3>1, <3>2, <3>3
    <2>3. S \subseteq DOMAIN executed /\ T = S \union (IF o \in {b, s} THEN {k} ELSE {})
      BY <1>3, <1>4 DEF TradesOf, Sides
    <2>4. (\A n \in S : g[n] = f[n]) /\ g[k] = q
      BY <1>3, <1>4, <2>1, <2>2, <2>3
    <2>5. \A n \in DOMAIN executed' : g[n] \in Int
      BY <2>2
    <2>6. S \union {k} \subseteq DOMAIN executed' /\ k \notin S
      BY <1>3, <2>3
    <2> HIDE DEF S, T, f, g
    <2>7. SumFunctionOnSet(g, S) = SumFunctionOnSet(f, S)
      BY <2>1, <2>4, SumAgree
    <2>8. CASE o \in {b, s}
      <3>1. IsIntOn(g, S \union {k})
        BY <2>5, <2>6 DEF IsIntOn
      <3>2. SumFunctionOnSet(g, S \union {k}) = g[k] + SumFunctionOnSet(g, S)
        BY <2>1, <2>6, <3>1, SumAdd
      <3>3. ExecutedQty(o)' = q + ExecutedQty(o)
        BY <2>1, <2>2, <2>3, <2>4, <2>7, <2>8, <3>2
      <3>4. filled'[o] = filled[o] + q /\ filled[o] \in Nat
        BY <1>1, <1>5, <2>8
      <3>5. QED BY <2>1, <3>3, <3>4
    <2>9. CASE o \notin {b, s}
      <3>1. ExecutedQty(o)' = ExecutedQty(o)
        BY <2>1, <2>2, <2>3, <2>7, <2>9
      <3>2. filled'[o] = filled[o] /\ filled[o] \in Nat
        BY <1>1, <1>5, <2>9
      <3>3. QED BY <2>1, <3>1, <3>2
    <2>10. QED BY <2>8, <2>9
  <1>7. QED BY <1>6

LEMMA BillableFinite ==
    ASSUME NEW c
    PROVE  IsFiniteSet(Billable(c)) /\ Cardinality(Billable(c)) \in Nat
  <1>1. IsFiniteSet(Billable(c))
    BY OrdersAssumption, FS_Subset DEF Billable
  <1>2. QED BY <1>1, FS_CardinalityType

LEMMA BillableGrows ==
    ASSUME NEW c, \A o \in Orders : ExecutedQty(o)' >= ExecutedQty(o) /\ ExecutedQty(o) \in Nat
                                    /\ ExecutedQty(o)' \in Nat
    PROVE  Cardinality(Billable(c)) <= Cardinality(Billable(c)') /\ Cardinality(Billable(c)') \in Nat
  <1>1. \A o \in Orders : Terms[o].qty \in Nat
    BY TermsAssumption
  <1>2. Billable(c) \subseteq Billable(c)'
    BY <1>1 DEF Billable
  <1>3. IsFiniteSet(Billable(c)')
    BY OrdersAssumption, FS_Subset DEF Billable
  <1>4. QED BY <1>2, <1>3, FS_Subset, FS_CardinalityType

LEMMA BilledStep ==
    ASSUME Types, Billed, [Next]_vars
    PROVE  Billed'
  <1>0. /\ \A o \in Orders : ExecutedQty(o) \in Nat /\ Terms[o].qty \in Nat
        /\ filled \in [Orders -> Nat] /\ settled \in [Clients -> Figures]
        /\ \A r \in 1 .. MaxRuns : \A c \in DOMAIN eod[r].figures : eod[r].figures[c] \in Figures
    <2>1. \A o \in Orders : ExecutedQty(o) \in Nat /\ Terms[o].qty \in Nat
      BY ExecutedQtyType, TermsAssumption
    <2>2. \A r \in 1 .. MaxRuns : IsRun(eod[r])
      BY DEF Types, TypeOK
    <2>3. QED BY <2>1, <2>2, RunIs DEF Types, TypeOK
  <1>1. ASSUME executed' = executed
        PROVE  /\ \A o \in Orders : ExecutedQty(o)' = ExecutedQty(o)
               /\ \A c : Billable(c)' = Billable(c)
    BY <1>1 DEF ExecutedQty, Qty, Sides, Billable
  <1>2. CASE UNCHANGED <<executed, filled, orderRow, settled, eod>>
    BY <1>1, <1>2 DEF Billed, BilledWereFilled, Billable
  <1>3. ASSUME NEW b \in Orders, NEW s \in Orders, Execute(b, s) PROVE Billed'
    <2>1. \A o \in Orders : /\ filled'[o] - filled[o] = ExecutedQty(o)' - ExecutedQty(o)
                            /\ ExecutedQty(o)' >= ExecutedQty(o) /\ ExecutedQty(o)' \in Nat
      BY <1>3, ExecutedGrows
    <2>2. UNCHANGED <<orderRow, settled, eod>>
      BY <1>3, Sends
    <2>3. \A o \in Orders : filled'[o] <= ExecutedQty(o)'
      <3>1. ASSUME NEW o \in Orders PROVE filled'[o] <= ExecutedQty(o)'
        <4>1. /\ filled'[o] - filled[o] = ExecutedQty(o)' - ExecutedQty(o)
              /\ filled[o] <= ExecutedQty(o) /\ filled[o] \in Nat /\ ExecutedQty(o) \in Nat
              /\ ExecutedQty(o)' \in Nat /\ filled'[o] \in Nat
          BY <1>0, <1>3, <2>1, TypesExecute DEF Billed, Types, TypeOK
        <4>2. QED BY <4>1
      <3>2. QED BY <3>1
    <2>4. \A o \in Orders : orderRow'[o] = "FILLED" => ExecutedQty(o)' >= Terms[o].qty
      <3>1. ASSUME NEW o \in Orders, orderRow'[o] = "FILLED" PROVE ExecutedQty(o)' >= Terms[o].qty
        <4>1. /\ ExecutedQty(o) >= Terms[o].qty /\ Terms[o].qty \in Nat /\ ExecutedQty(o) \in Nat
              /\ ExecutedQty(o)' >= ExecutedQty(o) /\ ExecutedQty(o)' \in Nat
          BY <1>0, <2>1, <2>2, <3>1 DEF Billed
        <4>2. QED BY <4>1
      <3>2. QED BY <3>1
    <2>5. \A c, x : x \in Nat /\ x <= Cardinality(Billable(c)) => x <= Cardinality(Billable(c)')
      <3>1. ASSUME NEW c, NEW x \in Nat, x <= Cardinality(Billable(c))
            PROVE  x <= Cardinality(Billable(c)')
        <4>1. /\ Cardinality(Billable(c)) <= Cardinality(Billable(c)')
              /\ Cardinality(Billable(c)') \in Nat
          BY <1>0, <2>1, BillableGrows
        <4>2. Cardinality(Billable(c)) \in Nat
          BY BillableFinite
        <4>3. QED BY <3>1, <4>1, <4>2
      <3>2. QED BY <3>1
    <2>6. \A r \in 1 .. MaxRuns : \A c \in DOMAIN eod[r].figures :
             eod[r].figures[c].orders <= Cardinality(Billable(c)')
      <3>1. \A r \in 1 .. MaxRuns : \A c \in DOMAIN eod[r].figures : eod[r].figures[c].orders \in Nat
        BY <1>0 DEF Figures
      <3>2. QED BY <2>5, <3>1 DEF Billed
    <2>7. \A c \in Clients : settled[c].orders <= Cardinality(Billable(c)')
      <3>1. \A c \in Clients : settled[c].orders \in Nat
        BY <1>0 DEF Figures
      <3>2. \A c \in Clients : settled[c].orders <= Cardinality(Billable(c))
        BY DEF Billed, BilledWereFilled, Billable
      <3>3. QED BY <2>5, <3>1, <3>2
    <2>8. BilledWereFilled'
      BY <2>2, <2>7 DEF BilledWereFilled, Billable
    <2>9. QED BY <2>2, <2>3, <2>4, <2>6, <2>8 DEF Billed
  <1>4. CASE WriterFlush
    <2>1. /\ \/ \E o \in Orders : WritesOrder(o)
             \/ \E m \in DOMAIN executed : WritesTrade(m)
          /\ UNCHANGED <<filled, settled, eod, executed>>
      BY <1>4, Flushes
    <2>2. \A p \in Orders : \/ orderRow'[p] = orderRow[p]
                            \/ orderRow'[p] = Status(p)
      BY <2>1 DEF WritesOrder, WritesTrade
    <2>3. \A p \in Orders : Status(p) = "FILLED" => ExecutedQty(p) >= Terms[p].qty
      BY <1>0, StatusIs DEF Billed
    <2>4. \A p \in Orders : orderRow'[p] = "FILLED" => ExecutedQty(p) >= Terms[p].qty
      BY <2>2, <2>3 DEF Billed
    <2>5. QED BY <1>1, <2>1, <2>4 DEF Billed, BilledWereFilled, Billable
  <1>5. CASE SettleQuery
    <2>1. /\ runs' \in 1 .. MaxRuns
          /\ \A r \in 1 .. MaxRuns : r # runs' => eod'[r] = eod[r]
          /\ DOMAIN eod'[runs'].figures = Settleable
          /\ \A c \in Settleable : eod'[runs'].figures[c] = FiguresOf(c)
          /\ UNCHANGED <<filled, orderRow, settled, executed>>
      BY <1>5, Queries DEF Others
    <2>2. ASSUME NEW c PROVE FiguresOf(c).orders <= Cardinality(Billable(c))
      <3> DEFINE F == {o \in PlacedToday(c) : Terms[o].charged /\ orderRow[o] = "FILLED"}
      <3>1. FiguresOf(c).orders = Cardinality(F)
        BY DEF FiguresOf, Chargeable
      <3>2. F \subseteq Billable(c)
        BY DEF Billed, Billable, PlacedToday
      <3> HIDE DEF F
      <3>3. QED BY <3>1, <3>2, BillableFinite, FS_Subset
    <2>3. ASSUME NEW r \in 1 .. MaxRuns, NEW c \in DOMAIN eod'[r].figures
          PROVE  eod'[r].figures[c].orders <= Cardinality(Billable(c))
      <3>1. CASE r = runs'
        BY <2>1, <2>2, <2>3, <3>1
      <3>2. CASE r # runs'
        BY <2>1, <2>3, <3>2 DEF Billed
      <3>3. QED BY <3>1, <3>2
    <2>4. QED BY <1>1, <2>1, <2>3 DEF Billed, BilledWereFilled, Billable
  <1>6. ASSUME NEW r \in 1 .. runs, NEW c \in Clients, SettleClient(r, c) PROVE Billed'
    <2>1. /\ r \in 1 .. MaxRuns /\ c \in DOMAIN eod[r].figures
          /\ \A q \in 1 .. MaxRuns : q # r => eod'[q] = eod[q]
          /\ \/ DOMAIN eod'[r].figures = {}
             \/ eod'[r].figures = eod[r].figures
          /\ \/ settled' = [settled EXCEPT ![c] = eod[r].figures[c]]
             \/ settled' = settled
          /\ UNCHANGED <<filled, orderRow, executed>>
      BY <1>6, Settles DEF Settle, Others
    <2>2. ASSUME NEW q \in 1 .. MaxRuns, NEW d \in DOMAIN eod'[q].figures
          PROVE  eod'[q].figures[d].orders <= Cardinality(Billable(d))
      <3>1. CASE q = r
        BY <2>1, <2>2, <3>1 DEF Billed
      <3>2. CASE q # r
        BY <2>1, <2>2, <3>2 DEF Billed
      <3>3. QED BY <3>1, <3>2
    <2>3. \A d \in Clients : settled[d].orders <= Cardinality(Billable(d))
      BY DEF Billed, BilledWereFilled, Billable
    <2>4. \A d \in Clients : settled'[d] = settled[d] \/ (d = c /\ settled'[d] = eod[r].figures[c])
      BY <1>0, <2>1
    <2>5. \A d \in Clients : settled'[d].orders <= Cardinality(Billable(d))
      BY <2>1, <2>3, <2>4 DEF Billed
    <2>6. BilledWereFilled'
      BY <1>1, <2>1, <2>5 DEF BilledWereFilled, Billable
    <2>7. QED BY <1>1, <2>1, <2>2, <2>6 DEF Billed
  <1>9. ASSUME \A r \in 1 .. MaxRuns : eod'[r] = eod[r] \/ eod'[r] = Idle,
               UNCHANGED <<orderRow, settled, executed>>,
               \A o \in Orders : filled'[o] <= ExecutedQty(o)
        PROVE  Billed'
    <2>1. \A r \in 1 .. MaxRuns : \A c \in DOMAIN eod'[r].figures :
             eod'[r].figures[c].orders <= Cardinality(Billable(c))
      BY <1>9, IdleIs DEF Billed
    <2>2. QED BY <1>1, <1>9, <2>1 DEF Billed, BilledWereFilled, Billable
  <1>7. CASE Restart
    <2>1. /\ filled' = [o \in Orders |-> 0] /\ UNCHANGED <<orderRow, settled, executed>>
          /\ \A r \in 1 .. MaxRuns : eod'[r] = eod[r] \/ eod'[r] = Idle
      BY <1>7, Restarts
    <2>2. \A o \in Orders : filled'[o] <= ExecutedQty(o)
      BY <1>0, <2>1
    <2>3. QED BY <1>9, <2>1, <2>2
  <1>10. ASSUME NEW r \in 1 .. runs, SettleCut(r) PROVE Billed'
    <2>1. /\ \A q \in 1 .. MaxRuns : eod'[q] = eod[q] \/ eod'[q] = Idle
          /\ UNCHANGED <<filled, orderRow, settled, executed>>
      BY <1>10, Cuts DEF Others
    <2>2. QED BY <1>9, <2>1 DEF Billed
  <1>8. QED
    BY <1>2, <1>3, <1>4, <1>5, <1>6, <1>7, <1>10
       DEF Next, asyncWriter, RunEODSettlement, PlaceStore, PlaceAdd, PlaceSave, ConsumeTrade,
           WriterTake, WriterTick, memory, tables, vars

-----------------------------------------------------------------------------
(* What the settlement adds up to *)

\* The query counts each recorded trade between orders of the day once for a buyer and once
\* for a seller, as both have rows, and no other trade.
LEMMA QueryBalances ==
    ASSUME Types, TradeJobs, SameDay
    PROVE  SumFunctionOnSet([c \in Settleable |-> FiguresOf(c).buy], Settleable)
             = SumFunctionOnSet([c \in Settleable |-> FiguresOf(c).sell], Settleable)
  <1> DEFINE R == {n \in TradesIn(tradeRow) : Terms[executed[n].buy].today}
             C == Settleable
             B == [n \in R |-> Terms[executed[n].buy].client]
             L == [n \in R |-> Terms[executed[n].sell].client]
  <1>1. TypeOK /\ Spoken
    BY DEF Types
  <1>2. IsFiniteSet(Clients) /\ IsFiniteSet(C)
    BY ClientsFinite, FS_Subset DEF Settleable
  <1>3. IsFiniteSet(R) /\ R \subseteq DOMAIN executed
    <2>1. IsFiniteSet(DOMAIN executed)
      BY <1>1, TradeFacts, FS_Interval
    <2>2. R \subseteq DOMAIN executed
      <3>1. DOMAIN tradeRow = 1 .. MaxTrades
        BY <1>1 DEF TypeOK
      <3>2. QED BY <1>1, <3>1 DEF Spoken, TradesIn
    <2>3. QED BY <2>1, <2>2, FS_Subset
  <1>4. IsIntOn(Qty, R)
    BY <1>1, <1>3, TradeFacts DEF IsIntOn, Qty
  <1>5. ASSUME NEW n \in TradesIn(tradeRow)
        PROVE  /\ \A o \in Sides(n) : o \in Orders /\ orderRow[o] # "none"
               /\ Terms[executed[n].buy].today <=> Terms[executed[n].sell].today
    <2>1. DOMAIN tradeRow = 1 .. MaxTrades
      BY <1>1 DEF TypeOK
    <2>2. PICK id \in 1 .. MaxTrades : tradeRow[id] = n /\ n # 0
      BY <2>1 DEF TradesIn
    <2>3. Recorded(n) /\ n \in DOMAIN executed
      BY <1>1, <2>2 DEF Spoken, Recorded
    <2>4. \A o \in Sides(n) : o \in Orders /\ orderRow[o] # "none"
      BY <1>1, <2>3, TradeFacts DEF TradeJobs
    <2>5. executed[n].buy \in Orders /\ executed[n].sell \in Orders
      BY <1>1, <2>3, TradeFacts
    <2>6. Terms[executed[n].buy].today \in BOOLEAN /\ Terms[executed[n].sell].today \in BOOLEAN
      BY <2>5, TermsAssumption
    <2>7. Terms[executed[n].buy].today = Terms[executed[n].sell].today
      BY DEF SameDay, AcrossDays
    <2>8. QED BY <2>4, <2>6, <2>7
  <1>6. ASSUME NEW n \in R
        PROVE  /\ executed[n].buy \in PlacedToday(B[n]) /\ executed[n].sell \in PlacedToday(L[n])
               /\ B[n] \in C /\ L[n] \in C
    <2>1. /\ executed[n].buy \in Orders /\ executed[n].sell \in Orders
          /\ orderRow[executed[n].buy] # "none" /\ orderRow[executed[n].sell] # "none"
          /\ Terms[executed[n].buy].today /\ Terms[executed[n].sell].today
      BY <1>5 DEF Sides
    <2>2. executed[n].buy \in PlacedToday(B[n]) /\ executed[n].sell \in PlacedToday(L[n])
      BY <2>1 DEF PlacedToday
    <2>3. QED BY <2>1, <2>2, ClientsFinite DEF Settleable, HasOrders
  <1>7. ASSUME NEW c \in C
        PROVE  /\ FiguresOf(c).buy = SumFunctionOnSet(Qty, {n \in R : B[n] = c})
               /\ FiguresOf(c).sell = SumFunctionOnSet(Qty, {n \in R : L[n] = c})
    <2>1. {n \in TradesIn(tradeRow) : executed[n].buy \in PlacedToday(c)} = {n \in R : B[n] = c}
      <3>1. ASSUME NEW n \in TradesIn(tradeRow), executed[n].buy \in PlacedToday(c)
            PROVE  n \in R /\ B[n] = c
        BY <3>1 DEF PlacedToday
      <3>2. \A n \in R : B[n] = c => executed[n].buy \in PlacedToday(c)
        BY <1>6
      <3>3. QED BY <3>1, <3>2
    <2>2. {n \in TradesIn(tradeRow) : executed[n].sell \in PlacedToday(c)} = {n \in R : L[n] = c}
      <3>1. ASSUME NEW n \in TradesIn(tradeRow), executed[n].sell \in PlacedToday(c)
            PROVE  n \in R /\ L[n] = c
        BY <1>5, <3>1 DEF PlacedToday
      <3>2. \A n \in R : L[n] = c => executed[n].sell \in PlacedToday(c)
        BY <1>6
      <3>3. QED BY <3>1, <3>2
    <2>3. FiguresOf(c).buy = BuyValue(c) /\ FiguresOf(c).sell = SellValue(c)
      BY DEF FiguresOf
    <2>4. QED BY <2>1, <2>2, <2>3 DEF BuyValue, SellValue
  <1> HIDE DEF R, C, B, L
  <1>8. /\ [c \in C |-> FiguresOf(c).buy] = [c \in C |-> SumFunctionOnSet(Qty, {n \in R : B[n] = c})]
        /\ [c \in C |-> FiguresOf(c).sell] = [c \in C |-> SumFunctionOnSet(Qty, {n \in R : L[n] = c})]
    BY <1>7
  <1>9. /\ SumFunctionOnSet([c \in C |-> SumFunctionOnSet(Qty, {n \in R : B[n] = c})], C)
             = SumFunctionOnSet(Qty, R)
        /\ SumFunctionOnSet([c \in C |-> SumFunctionOnSet(Qty, {n \in R : L[n] = c})], C)
             = SumFunctionOnSet(Qty, R)
    BY <1>2, <1>3, <1>4, <1>6, SumByClass
  <1>10. SumFunctionOnSet([c \in C |-> FiguresOf(c).buy], C)
           = SumFunctionOnSet([c \in C |-> FiguresOf(c).sell], C)
    BY <1>8, <1>9
  <1>11. QED BY <1>10 DEF C

\* When the last client is settled, the rows show what was read: clients that were not
\* read have traded nothing.
LEMMA RowsBalance ==
    ASSUME NEW D \in SUBSET Clients, NEW F \in [D -> Figures], NEW R \in [Clients -> Figures],
           \A c \in D : R[c] = F[c], \A c \in Clients \ D : R[c] = Unsettled,
           SumFunctionOnSet([c \in D |-> F[c].buy], D) = SumFunctionOnSet([c \in D |-> F[c].sell], D)
    PROVE  SumFunctionOnSet([c \in Clients |-> R[c].buy], Clients)
             = SumFunctionOnSet([c \in Clients |-> R[c].sell], Clients)
  <1> DEFINE b == [c \in Clients |-> R[c].buy]
             s == [c \in Clients |-> R[c].sell]
             fb == [c \in D |-> F[c].buy]
             fs == [c \in D |-> F[c].sell]
  <1>1. IsFiniteSet(Clients) /\ IsFiniteSet(D)
    BY ClientsFinite, FS_Subset
  <1>2. IsIntOn(b, Clients) /\ IsIntOn(s, Clients)
    BY DEF IsIntOn, Figures
  <1>3. (\A c \in Clients \ D : b[c] = 0) /\ (\A c \in Clients \ D : s[c] = 0)
    BY DEF Unsettled
  <1>4. (\A c \in D : b[c] = fb[c]) /\ (\A c \in D : s[c] = fs[c])
    OBVIOUS
  <1> HIDE DEF b, s, fb, fs
  <1>5. /\ SumFunctionOnSet(b, Clients) = SumFunctionOnSet(b, D)
        /\ SumFunctionOnSet(s, Clients) = SumFunctionOnSet(s, D)
    BY <1>1, <1>2, <1>3, SumOver
  <1>6. SumFunctionOnSet(b, D) = SumFunctionOnSet(fb, D) /\ SumFunctionOnSet(s, D) = SumFunctionOnSet(fs, D)
    BY <1>1, <1>4, SumAgree
  <1>7. SumFunctionOnSet(fb, D) = SumFunctionOnSet(fs, D)
    BY DEF fb, fs
  <1>8. SumFunctionOnSet(b, Clients) = SumFunctionOnSet(s, Clients)
    BY <1>5, <1>6, <1>7
  <1>9. QED BY <1>8 DEF b, s

\* A row of a trade stays, and so do the trade and the days of its orders.
LEMMA DaysStay ==
    ASSUME Types, \A n \in DOMAIN executed : executed'[n] = executed[n],
           DOMAIN tradeRow' = DOMAIN tradeRow,
           \A id \in DOMAIN tradeRow : tradeRow[id] # 0 => tradeRow'[id] = tradeRow[id]
    PROVE  SameDay' => SameDay
  <1>1. TradesIn(tradeRow) \subseteq TradesIn(tradeRow')
    BY DEF TradesIn
  <1>2. TradesIn(tradeRow) \subseteq DOMAIN executed
    <2>1. DOMAIN tradeRow = 1 .. MaxTrades
      BY DEF Types, TypeOK
    <2>2. QED BY <2>1 DEF Types, Spoken, TradesIn
  <1>3. \A n \in TradesIn(tradeRow) : AcrossDays(n)' <=> AcrossDays(n)
    BY <1>2 DEF AcrossDays
  <1>4. QED BY <1>1, <1>3 DEF SameDay

\* What settles nothing disturbs no settlement.
LEMMA BalancedKept ==
    ASSUME Balanced, UNCHANGED <<settled, eod, runs>>,
           \A c : HasOrders(c) => HasOrders(c)', SameDay' => SameDay
    PROVE  Balanced'
  <1>2. BuysEqualSells'
    BY DEF Balanced, BuysEqualSells, Bought, Sold, SameDay
  <1>3. Settling(eod[runs]) => Settling(eod[runs])'
    BY DEF Settling, Balances, BuysRead, SellsRead
  <1>4. QED BY <1>2, <1>3 DEF Balanced

LEMMA BalancedQuery ==
    ASSUME Types, TradeJobs, Balanced, SettleQuery
    PROVE  Balanced'
  <1>1. /\ runs' = runs + 1 /\ runs \in Nat /\ runs' \in 1 .. MaxRuns
        /\ \A r \in 1 .. MaxRuns : r # runs' => eod'[r] = eod[r]
        /\ DOMAIN eod'[runs'].figures = Settleable /\ eod'[runs'].todo = Settleable
        /\ \A c \in Settleable : eod'[runs'].figures[c] = FiguresOf(c)
        /\ eod'[runs'].clean => \A r \in 1 .. runs : eod[r].todo = {}
        /\ UNCHANGED <<settled, orderRow, tradeRow, executed>>
    BY Queries DEF Others
  <1>2. \A c : HasOrders(c)' <=> HasOrders(c)
    BY <1>1 DEF HasOrders, PlacedToday
  <1>3. SameDay' <=> SameDay
    BY <1>1 DEF SameDay, AcrossDays
  <1>4. Settleable # {}
    BY DEF SettleQuery, Settleable
  <1>5. Balances(eod[runs])'
    <2>1. SUFFICES ASSUME SameDay
                   PROVE  SumFunctionOnSet(BuysRead(eod'[runs']), Settleable)
                            = SumFunctionOnSet(SellsRead(eod'[runs']), Settleable)
      BY <1>1, <1>3 DEF Balances, BuysRead, SellsRead
    <2>2. /\ BuysRead(eod'[runs']) = [c \in Settleable |-> FiguresOf(c).buy]
          /\ SellsRead(eod'[runs']) = [c \in Settleable |-> FiguresOf(c).sell]
      BY <1>1 DEF BuysRead, SellsRead
    <2>3. QED BY <2>1, <2>2, QueryBalances
  <1>6. \A c \in Clients : settled[c] # Unsettled => HasOrders(c) /\ c \in Settleable
    BY DEF Balanced, Settleable
  <1>7. Settling(eod[runs])'
    BY <1>1, <1>5, <1>6 DEF Settling
  <1>8. ASSUME NEW r \in 1 .. MaxRuns, NEW c \in DOMAIN eod'[r].figures PROVE HasOrders(c)'
    <2>1. CASE r = runs'
      BY <1>1, <1>2, <1>8, <2>1 DEF Settleable
    <2>2. CASE r # runs'
      BY <1>1, <1>2, <1>8, <2>2 DEF Balanced
    <2>3. QED BY <2>1, <2>2
  <1>9. ASSUME eod'[runs'].clean, NEW r \in 1 .. runs' - 1 PROVE eod'[r].todo = {}
    <2>0. runs' = runs + 1 /\ runs \in Nat /\ runs' \in 1 .. MaxRuns /\ MaxRuns \in Nat
      BY <1>1, BoundsAssumption
    <2>1. r \in 1 .. runs /\ r \in 1 .. MaxRuns /\ r # runs'
      BY <2>0
    <2>2. QED BY <1>1, <1>9, <2>1
  <1>10. BuysEqualSells'
    BY <1>1, <1>4 DEF BuysEqualSells
  <1>11. QED BY <1>1, <1>2, <1>6, <1>7, <1>8, <1>9, <1>10 DEF Balanced

LEMMA BalancedSettle ==
    ASSUME Types, Balanced, NEW r \in 1 .. runs, NEW c \in Clients, SettleClient(r, c)
    PROVE  Balanced'
  <1> DEFINE x == eod[r]
             y == eod'[r]
  <1>1. /\ r \in 1 .. MaxRuns /\ c \in x.todo /\ c \in DOMAIN x.figures
        /\ \A q \in 1 .. MaxRuns : q # r => eod'[q] = eod[q]
        /\ y.todo = x.todo \ {c}
        /\ \/ x.todo = {c} /\ DOMAIN y.figures = {}
           \/ x.todo # {c} /\ y.figures = x.figures
        /\ settled' = [settled EXCEPT ![c] = x.figures[c]] \/ settled' = settled
        /\ y.clean => x.clean /\ settled' = [settled EXCEPT ![c] = x.figures[c]]
        /\ UNCHANGED <<orderRow, tradeRow, executed, runs>>
    BY Settles DEF Settle, Others
  <1>2. /\ settled \in [Clients -> Figures] /\ settled' \in [Clients -> Figures]
        /\ x.figures \in [DOMAIN x.figures -> Figures] /\ DOMAIN x.figures \subseteq Clients
        /\ runs \in Nat /\ runs <= MaxRuns /\ MaxRuns \in Nat
    <2>1. IsRun(eod[r]) /\ settled \in [Clients -> Figures] /\ runs \in 0 .. MaxRuns /\ MaxRuns \in Nat
      BY <1>1, BoundsAssumption DEF Types, TypeOK
    <2>2. /\ x.figures \in [DOMAIN x.figures -> Figures] /\ DOMAIN x.figures \subseteq Clients
          /\ \A d \in DOMAIN x.figures : x.figures[d] \in Figures
      BY <2>1, RunIs
    <2> HIDE DEF x
    <2>3. settled' \in [Clients -> Figures]
      BY <1>1, <2>1, <2>2
    <2>4. QED BY <2>1, <2>2, <2>3
  <1> HIDE DEF x, y
  <1>3. (\A d : HasOrders(d)' <=> HasOrders(d)) /\ (SameDay' <=> SameDay)
    BY <1>1 DEF HasOrders, PlacedToday, SameDay, AcrossDays
  <1>4. /\ \A d \in Clients : settled'[d] = settled[d] \/ (d = c /\ settled'[d] = x.figures[c])
        /\ \A d \in DOMAIN x.figures : HasOrders(d)
    BY <1>1, <1>2 DEF Balanced, x
  <1>5. /\ \A d \in Clients : settled'[d] # Unsettled => HasOrders(d)'
        /\ \A q \in 1 .. MaxRuns : \A d \in DOMAIN eod'[q].figures : HasOrders(d)'
    <2>1. \A d \in Clients : settled'[d] # Unsettled => HasOrders(d)'
      BY <1>1, <1>3, <1>4 DEF Balanced
    <2>2. ASSUME NEW q \in 1 .. MaxRuns, NEW d \in DOMAIN eod'[q].figures PROVE HasOrders(d)'
      <3>1. CASE q = r
        BY <1>1, <1>3, <1>4, <2>2, <3>1 DEF y
      <3>2. CASE q # r
        BY <1>1, <1>3, <2>2, <3>2 DEF Balanced
      <3>3. QED BY <3>1, <3>2
    <2>3. QED BY <2>1, <2>2
  <1>6. CASE r # runs
    <2>1. r \in 1 .. runs - 1 /\ runs \in 1 .. MaxRuns
      BY <1>1, <1>2, <1>6
    <2>2. eod'[runs'] = eod[runs] /\ ~eod[runs].clean
      <3>1. eod'[runs'] = eod[runs]
        BY <1>1, <1>6, <2>1
      <3>2. eod[r].todo # {} /\ runs > 0
        BY <1>1, <2>1 DEF x
      <3>3. QED BY <2>1, <3>1, <3>2 DEF Balanced
    <2>3. BuysEqualSells'
      BY <2>2 DEF BuysEqualSells
    <2>4. QED BY <1>5, <2>2, <2>3 DEF Balanced
  <1>7. CASE r = runs /\ ~y.clean
    <2>1. ~eod'[runs'].clean
      BY <1>1, <1>7 DEF y
    <2>2. QED BY <1>5, <2>1 DEF Balanced, BuysEqualSells
  <1>8. CASE r = runs /\ y.clean
    <2>1. runs > 0 /\ x.clean /\ settled' = [settled EXCEPT ![c] = x.figures[c]] /\ x.todo # {}
      BY <1>1, <1>2, <1>8
    <2>2. /\ \A q \in 1 .. runs - 1 : eod[q].todo = {}
          /\ Balances(x)
          /\ \A d \in Clients : settled[d] # Unsettled => d \in DOMAIN x.figures
          /\ \A d \in DOMAIN x.figures \ x.todo : settled[d] = x.figures[d]
      BY <1>8, <2>1 DEF Balanced, Settling, x
    <2>3. \A q \in 1 .. runs' - 1 : eod'[q].todo = {}
      BY <1>1, <1>2, <1>8, <2>2
    <2>4. \A d \in DOMAIN x.figures \ y.todo : settled'[d] = x.figures[d]
      <3>1. ASSUME NEW d \in DOMAIN x.figures \ y.todo PROVE settled'[d] = x.figures[d]
        <4>1. CASE d = c
          BY <1>2, <2>1, <4>1
        <4>2. CASE d # c
          BY <1>1, <1>2, <2>1, <2>2, <3>1, <4>2
        <4>3. QED BY <4>1, <4>2
      <3>2. QED BY <3>1
    <2>5. \A d \in Clients : settled'[d] # Unsettled => d \in DOMAIN x.figures
      BY <1>1, <1>4, <2>2
    <2>6. CASE x.todo # {c} /\ y.figures = x.figures
      <3>1. y.todo # {}
        BY <1>1, <2>6
      <3>2. eod'[runs'] = y
        BY <1>1, <1>8 DEF y
      <3>3. BuysRead(eod[runs])' = BuysRead(x) /\ SellsRead(eod[runs])' = SellsRead(x)
        BY <2>6, <3>2 DEF BuysRead, SellsRead
      <3>4. Balances(eod[runs])'
        BY <1>3, <2>2, <2>6, <3>2, <3>3 DEF Balances
      <3>5. BuysEqualSells'
        BY <3>1, <3>2 DEF BuysEqualSells
      <3>6. Settling(eod[runs])'
        BY <2>4, <2>5, <2>6, <3>2, <3>4 DEF Settling
      <3>7. QED BY <1>5, <2>3, <3>5, <3>6 DEF Balanced
    <2>7. CASE x.todo = {c} /\ DOMAIN y.figures = {}
      <3>1. y.todo = {} /\ eod'[runs'] = y
        BY <1>1, <1>8, <2>7 DEF y
      <3>2. Settling(eod[runs])'
        BY <3>1 DEF Settling
      <3>3. BuysEqualSells'
        <4>1. SUFFICES ASSUME SameDay
                       PROVE  SumFunctionOnSet(Bought', Clients) = SumFunctionOnSet(Sold', Clients)
          BY <1>3 DEF BuysEqualSells, SameDay
        <4> DEFINE D == DOMAIN x.figures
        <4>2. \A d \in D : settled'[d] = x.figures[d]
          BY <2>4, <3>1
        <4>3. \A d \in Clients \ D : settled'[d] = Unsettled
          BY <2>5
        <4>4. BuysRead(x) = [d \in D |-> x.figures[d].buy] /\ SellsRead(x) = [d \in D |-> x.figures[d].sell]
          BY DEF BuysRead, SellsRead
        <4>5. SumFunctionOnSet([d \in D |-> x.figures[d].buy], D)
                = SumFunctionOnSet([d \in D |-> x.figures[d].sell], D)
          BY <2>2, <4>1, <4>4 DEF Balances
        <4>6. /\ Bought' = [d \in Clients |-> settled'[d].buy]
              /\ Sold' = [d \in Clients |-> settled'[d].sell]
          BY DEF Bought, Sold
        <4>7. D \in SUBSET Clients /\ x.figures \in [D -> Figures]
          BY <1>2
        <4> HIDE DEF D
        <4>8. QED BY <1>2, <4>2, <4>3, <4>5, <4>6, <4>7, RowsBalance
      <3>4. QED BY <1>5, <2>3, <3>2, <3>3 DEF Balanced
    <2>8. QED BY <1>1, <2>6, <2>7
  <1>9. QED BY <1>6, <1>7, <1>8, <1>2

\* A settlement that ends early, or with the process, is not clean.
LEMMA BalancedStop ==
    ASSUME Types, Balanced, UNCHANGED <<settled, orderRow, tradeRow, executed, runs>>,
           \A r \in 1 .. MaxRuns : eod'[r] = eod[r] \/ eod'[r] = Idle
    PROVE  Balanced'
  <1>1. (\A d : HasOrders(d)' <=> HasOrders(d)) /\ (SameDay' <=> SameDay)
    BY DEF HasOrders, PlacedToday, SameDay, AcrossDays
  <1>2. \A r \in 1 .. MaxRuns : /\ \A c \in DOMAIN eod'[r].figures : HasOrders(c)'
                                /\ eod[r].todo = {} => eod'[r].todo = {}
                                /\ eod'[r].clean => eod'[r] = eod[r]
    BY <1>1, IdleIs DEF Balanced
  <1>3. runs \in 0 .. MaxRuns /\ MaxRuns \in Nat
    BY BoundsAssumption DEF Types, TypeOK
  <1>4. \A c \in Clients : settled'[c] # Unsettled => HasOrders(c)'
    BY <1>1 DEF Balanced
  <1>5. CASE runs > 0 /\ eod'[runs].clean
    <2>1. runs \in 1 .. MaxRuns /\ \A r \in 1 .. runs - 1 : r \in 1 .. MaxRuns
      BY <1>3, <1>5
    <2>2. eod'[runs'] = eod[runs] /\ runs' = runs /\ eod[runs].clean
      BY <1>2, <1>5, <2>1
    <2>3. (\A r \in 1 .. runs - 1 : eod[r].todo = {}) /\ Settling(eod[runs])
      BY <1>5, <2>2 DEF Balanced
    <2>4. \A r \in 1 .. runs' - 1 : eod'[r].todo = {}
      BY <1>2, <2>1, <2>2, <2>3
    <2>5. Settling(eod[runs])'
      BY <1>1, <2>2, <2>3 DEF Settling, Balances, BuysRead, SellsRead
    <2>6. BuysEqualSells'
      BY <1>1, <1>5, <2>2 DEF Balanced, BuysEqualSells, Bought, Sold, SameDay
    <2>7. QED BY <1>2, <1>4, <2>4, <2>5, <2>6 DEF Balanced
  <1>6. CASE ~(runs > 0 /\ eod'[runs].clean)
    BY <1>2, <1>4, <1>6 DEF Balanced, BuysEqualSells
  <1>7. QED BY <1>5, <1>6

LEMMA BalancedStep ==
    ASSUME Types, TradeJobs, Balanced, [Next]_vars
    PROVE  Balanced'
  <1>1. CASE UNCHANGED <<settled, eod, runs, orderRow, tradeRow, executed>>
    BY <1>1, BalancedKept DEF HasOrders, PlacedToday, SameDay, AcrossDays
  <1>2. ASSUME NEW b \in Orders, NEW s \in Orders, Execute(b, s) PROVE Balanced'
    <2>1. UNCHANGED <<settled, eod, runs, orderRow, tradeRow>>
      BY <1>2, Sends
    <2>2. \A n \in DOMAIN executed : executed'[n] = executed[n]
      BY <1>2, ExecuteNumbers
    <2>3. SameDay' => SameDay
      BY <2>1, <2>2, DaysStay
    <2>4. \A c : HasOrders(c) => HasOrders(c)'
      BY <2>1 DEF HasOrders, PlacedToday
    <2>5. QED BY <2>1, <2>3, <2>4, BalancedKept
  <1>3. CASE WriterFlush
    <2>1. /\ \/ \E o \in Orders : WritesOrder(o)
             \/ \E m \in DOMAIN executed : WritesTrade(m)
          /\ UNCHANGED <<settled, eod, executed, runs>>
      BY <1>3, Flushes
    <2>2. \A o \in Orders : orderRow[o] # "none" => orderRow'[o] # "none"
      BY <2>1 DEF WritesOrder, WritesTrade
    <2>3. \A c : HasOrders(c) => HasOrders(c)'
      BY <2>2 DEF HasOrders, PlacedToday
    <2>4. DOMAIN tradeRow = 1 .. MaxTrades
      BY DEF Types, TypeOK
    <2>5. /\ DOMAIN tradeRow' = DOMAIN tradeRow
          /\ \A id \in DOMAIN tradeRow : tradeRow[id] # 0 => tradeRow'[id] = tradeRow[id]
      BY <2>1, <2>4 DEF WritesOrder, WritesTrade
    <2>6. SameDay' => SameDay
      BY <2>1, <2>5, DaysStay
    <2>7. QED BY <2>1, <2>3, <2>6, BalancedKept
  <1>4. CASE Restart
    BY <1>4, Restarts, BalancedStop
  <1>5. ASSUME NEW r \in 1 .. runs, SettleCut(r) PROVE Balanced'
    BY <1>5, Cuts, BalancedStop DEF Others
  <1>6. QED
    BY <1>1, <1>2, <1>3, <1>4, <1>5, BalancedQuery, BalancedSettle
       DEF Next, asyncWriter, RunEODSettlement, PlaceStore, PlaceAdd, PlaceSave,
           ConsumeTrade, WriterTake, WriterTick, tables, vars

-----------------------------------------------------------------------------
(* The invariant holds *)

LEMMA JournalInit ==
    ASSUME Init
    PROVE  JournalInv
  <1>1. Types /\ Queue = <<>> /\ DOMAIN executed = {}
    BY TypesInit
  <1>2. DOMAIN tradeCh = {} /\ DOMAIN listed = {} /\ 1 .. Len(listed) = {}
    BY DEF Init
  <1>3. Ordered /\ Listed
    BY <1>1, <1>2 DEF Ordered, Listed
  <1>4. OrderJobs
    <2>1. Once(Queue) /\ \A x : ~In(Queue, x)
      BY <1>1 DEF Once, In
    <2>2. gone = {} /\ \A o \in Orders : place[o] = "saved" <=> orderRow[o] # "none"
      BY DEF Init
    <2>3. QED BY <2>1, <2>2 DEF OrderJobs
  <1>5. TradeJobs
    BY <1>1 DEF TradeJobs
  <1>6. /\ \A r \in 1 .. MaxRuns : DOMAIN eod[r].figures = {}
        /\ runs = 0
    BY IdleIs DEF Init
  <1>7. \A c \in Clients : settled[c] = Unsettled
    BY DEF Init
  <1>8. Billed
    <2>1. \A o \in Orders : filled[o] = 0 /\ orderRow[o] # "FILLED"
      BY DEF Init
    <2>2. \A o \in Orders : filled[o] <= ExecutedQty(o)
      BY <1>1, <2>1, ExecutedQtyType
    <2>3. BilledWereFilled
      <3>1. \A c \in Clients : 0 <= Cardinality(Billable(c))
        BY BillableFinite
      <3>2. \A c \in Clients : settled[c].orders = 0
        BY <1>7 DEF Unsettled
      <3>3. QED BY <3>1, <3>2 DEF BilledWereFilled, Billable
    <2>4. QED BY <1>6, <2>1, <2>2, <2>3 DEF Billed
  <1>9. Balanced
    BY <1>6, <1>7 DEF Balanced, BuysEqualSells
  <1>10. QED BY <1>1, <1>3, <1>4, <1>5, <1>8, <1>9 DEF JournalInv

LEMMA JournalStep ==
    ASSUME JournalInv, [Next]_vars
    PROVE  JournalInv'
  <1>1. Types /\ Ordered /\ Listed /\ OrderJobs /\ TradeJobs /\ Billed /\ Balanced
    BY DEF JournalInv
  <1>2. Types' /\ Ordered' /\ Listed'
    BY <1>1, TypesStep, OrderedStep, ListedStep
  <1>3. OrderJobs'
    <2>1. Once(Queue)' /\ \A o \in Orders : OrderJobOf(o)'
      BY <1>1, OrderJobsStep
    <2>2. QED BY <2>1 DEF OrderJobs, OrderJobOf
  <1>4. TradeJobs' /\ Billed' /\ Balanced'
    BY <1>1, TradeJobsStep, BilledStep, BalancedStep
  <1>5. QED BY <1>2, <1>3, <1>4 DEF JournalInv

LEMMA JournalInvariant == Spec => []JournalInv
  <1>1. Init => JournalInv
    BY JournalInit
  <1>2. JournalInv /\ [Next]_vars => JournalInv'
    BY JournalStep
  <1>3. QED BY <1>1, <1>2, PTL DEF Spec

\* Whatever the handlers, the writer, the settlement and restarts do, and in whatever order,
\* every variable keeps its type: no channel grows past its capacity, no batch past its
\* size, and a settlement only holds figures of clients (module Journal).
THEOREM JournalTypes == Spec => []TypeOK
  <1>1. JournalInv => TypeOK
    BY DEF JournalInv, Types
  <1>2. QED BY <1>1, JournalInvariant, PTL

\* A trade that is no longer on its way has its row exactly if none of the reasons of
\* Unrecordable holds - a full TradeCh or writeCh, a statement that failed before its
\* commit, a crash, an order of it without a row, an id used before - for any number of
\* orders, trades, restarts and errors (fillAgainstLevel, consumeTrades, asyncWriter).
THEOREM EveryTradeAccountedFor == Spec => []TradesRecorded
  <1>1. JournalInv => TradesRecorded
    <2>1. SUFFICES ASSUME JournalInv, NEW n \in DOMAIN executed,
                          \A i \in DOMAIN tradeCh : tradeCh[i] # n, ~Waiting(<<"trade", n>>)
                   PROVE  Recorded(n) <=> ~Unrecordable(n)
      BY DEF TradesRecorded, Over
    <2>2. ~In(Queue, TradeJob(n))
      BY <2>1, QueueType DEF JournalInv, Types, TradeJob
    <2>3. ~OnTheWay(n)
      BY <2>1, <2>2 DEF OnTheWay, In
    <2>4. QED BY <2>1, <2>3 DEF JournalInv, TradeJobs
  <1>2. QED BY <1>1, JournalInvariant, PTL

\* An accepted order whose job is neither waiting nor lost has its row
\* (SaveOrderAsync, asyncWriter, insertOrder).
THEOREM AcceptedOrdersHaveRows == Spec => []RowsCatchUp
  <1>1. JournalInv => RowsCatchUp
    <2>1. SUFFICES ASSUME JournalInv, NEW o \in Orders, place[o] = "saved",
                          ~Waiting(<<"order", o>>), <<"order", o>> \notin gone
                   PROVE  orderRow[o] # "none"
      BY DEF RowsCatchUp
    <2>2. ~In(Queue, OrderJob(o)) /\ OrderJob(o) \notin gone
      BY <2>1, QueueType DEF JournalInv, Types, OrderJob
    <2>3. QED BY <2>1, <2>2 DEF JournalInv, OrderJobs
  <1>2. QED BY <1>1, JournalInvariant, PTL

\* The list of recent trades begins with the trades of this life, newest first, each
\* under a key of its own, however long the list may be (SaveTrade).
THEOREM NewestFirst == Spec => []RecentAreNewest
  <1>1. JournalInv => RecentAreNewest
    <2>1. SUFFICES ASSUME JournalInv, NEW i \in 1 .. Min({RecentCap, Len(listed)})
                   PROVE  /\ tradeKey[recent[i]] = listed[i]
                          /\ \A j \in i + 1 .. Len(listed) : listed[j] < listed[i]
      BY DEF RecentAreNewest
    <2>2. Types /\ Listed
      BY <2>1 DEF JournalInv
    <2>3. DOMAIN listed = 1 .. Len(listed) /\ Len(listed) \in Nat
      BY <2>2, Numbers
    <2>4. i \in 1 .. Len(listed) /\ i <= RecentCap
      <3>1. RecentCap \in Int /\ Len(listed) \in Int
        BY <2>3, BoundsAssumption
      <3>2. /\ Min({RecentCap, Len(listed)}) \in {RecentCap, Len(listed)}
            /\ Min({RecentCap, Len(listed)}) <= RecentCap
            /\ Min({RecentCap, Len(listed)}) <= Len(listed)
        BY <3>1, MinIs
      <3>3. QED BY <3>1, <3>2
    <2>5. tradeKey[recent[i]] = listed[i]
      BY <2>2, <2>3, <2>4 DEF Listed
    <2>6. \A j \in i + 1 .. Len(listed) : j \in DOMAIN listed /\ i \in DOMAIN listed /\ i < j
      BY <2>3, <2>4
    <2>7. QED BY <2>2, <2>5, <2>6 DEF Listed
  <1>2. QED BY <1>1, JournalInvariant, PTL

\* A client is billed for no more orders than it has that were executed in full, although
\* rows are written once, from what the object said then (insertOrder, RunEODSettlement).
THEOREM OnlyFilledAreBilled == Spec => []BilledWereFilled
  <1>1. JournalInv => BilledWereFilled
    BY DEF JournalInv, Billed
  <1>2. QED BY <1>1, JournalInvariant, PTL

\* If the last settlement met no error and none was at work when it began, it adds up once
\* it is over, for any number of clients, trades and settlements before it, and whatever
\* was inserted meanwhile, unless an order of an earlier day traded with one of the day
\* (RunEODSettlement).
THEOREM SettlementAddsUp == Spec => []BuysEqualSells
  <1>1. JournalInv => BuysEqualSells
    BY DEF JournalInv, Balanced
  <1>2. QED BY <1>1, JournalInvariant, PTL
=============================================================================
