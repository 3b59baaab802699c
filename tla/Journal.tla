------------------------------ MODULE Journal ------------------------------
(***************************************************************************)
(* The records of what happened: PlaceOrder and consumeTrades              *)
(* (internal/api) list trades in Redis (internal/store) and hand orders    *)
(* and trades to a bounded queue, from which one goroutine writes them to  *)
(* Postgres in batches (internal/db), and RunEODSettlement reads the       *)
(* tables while all of that goes on.  A crash loses the queue and keeps    *)
(* the tables; a restart brings the orders back from Redis, but does not   *)
(* hand them to Postgres again, and counts trade ids from 1 again.         *)
(*                                                                         *)
(* One symbol, trades at price 1, one day, with orders of earlier days     *)
(* still in the book.  Book and engine appear as what they do to the order *)
(* objects; positions, which share the queue, are in module Positions.     *)
(***************************************************************************)
EXTENDS Integers, Sequences, FiniteSetsExt, Functions

CONSTANTS
    Orders,
    Resting,     \* those that are in the book and in Postgres from the start
    Terms,       \* Terms[o]: [client, side, qty, charged, today]; charged: not CNC;
                 \* today: placed on the day that is settled
    TradeCap,    \* capacity of the engine's TradeCh     (10000 in the code)
    PassCap,     \* trades between TradeCh and consumeTrades: tradeCh of the OMS and the
                 \* one that its forwarder holds         (50001)
    WriteCap,    \* capacity of writeCh                  (10000)
    BatchSize,   \* a flush starts at this many jobs     (100)
    RecentCap,   \* length of the list trades:all        (10000)
    MaxTrades,   \* bound: trades made
    MaxBoots,    \* bound: starts of the server
    MaxRuns,     \* bound: settlements
    MaxErrors    \* bound: statements that fail, for a check of the table or any other reason

ASSUME TermsAssumption ==
    Terms \in [Orders -> [client : STRING, side : {"BUY", "SELL"}, qty : Nat \ {0},
                          charged : BOOLEAN, today : BOOLEAN]]
ASSUME OrdersAssumption ==
    /\ IsFiniteSet(Orders) /\ Resting \subseteq Orders
    /\ \A o \in Orders \ Resting : Terms[o].today
ASSUME BoundsAssumption ==
    /\ TradeCap \in Nat \ {0}
    /\ PassCap \in Nat \ {0}
    /\ WriteCap \in Nat \ {0}
    /\ BatchSize \in Nat \ {0}
    /\ RecentCap \in Nat \ {0}
    /\ MaxTrades \in Nat
    /\ MaxBoots \in Nat \ {0}
    /\ MaxRuns \in Nat
    /\ MaxErrors \in Nat

VARIABLES
    \* the memory of the process
    place,      \* place[o]: "new", "stored" in Redis, "added" to the book, "saved", or "lost"
    book,       \* the orders in the book
    filled,     \* filled[o]: FilledQty of the order object
    counter,    \* the engine's tradeCounter
    tradeCh,    \* trades on their way to consumeTrades: TradeCh, forwarder and tradeCh
    writeCh,    \* jobs: <<kind, what>>
    pending,    \* asyncWriter's batch
    flushing,   \* it is being written
    \* Redis
    tradeKey,   \* tradeKey[id]: the trade under trade:<id>, or 0
    recent,     \* the list trades:all, of ids
    \* Postgres
    orderRow,   \* orderRow[o]: the status in the row, or "none"
    tradeRow,   \* tradeRow[id]: the trade in the row, or 0
    settled,    \* settled[c]: the row of eod_settlements, or Unsettled
    \* RunEODSettlement
    eod,        \* eod[r]: the figures the r-th settlement read, by client, the clients to
                \* come, and whether no other was at work when it began and it met no error
    \* history
    executed,   \* every trade: [id, buy, sell, qty]
    gone,       \* jobs and trades dropped, not written for an error, or lost in a crash
    overtaken,  \* trades handed over before one of their orders
    listed,     \* trades listed in Redis since the last start, newest first
    boots,
    runs,       \* settlements begun
    errors

memory == <<place, book, filled, counter, tradeCh, writeCh, pending, flushing>>
redis == <<tradeKey, recent, listed>>
tables == <<orderRow, tradeRow, settled>>
vars == <<memory, redis, tables, eod, executed, gone, overtaken, boots, runs, errors>>

Clients == {Terms[o].client : o \in Orders}
Sides(n) == {executed[n].buy, executed[n].sell}

Figures == [orders : Nat, buy : Nat, sell : Nat]
Unsettled == [orders |-> 0, buy |-> 0, sell |-> 0]
Idle == [figures |-> <<>>, todo |-> {}, clean |-> FALSE]

Init ==
    /\ place = [o \in Orders |-> IF o \in Resting THEN "saved" ELSE "new"]
    /\ book = Resting
    /\ filled = [o \in Orders |-> 0]
    /\ counter = 0
    /\ tradeCh = <<>>
    /\ writeCh = <<>>
    /\ pending = <<>>
    /\ flushing = FALSE
    /\ tradeKey = [id \in 1 .. MaxTrades |-> 0]
    /\ recent = <<>>
    /\ listed = <<>>
    /\ orderRow = [o \in Orders |-> IF o \in Resting THEN "OPEN" ELSE "none"]
    /\ tradeRow = [id \in 1 .. MaxTrades |-> 0]
    /\ settled = [c \in Clients |-> Unsettled]
    /\ eod = [r \in 1 .. MaxRuns |-> Idle]
    /\ executed = <<>>
    /\ gone = {}
    /\ overtaken = {}
    /\ boots = 1
    /\ runs = 0
    /\ errors = 0

-----------------------------------------------------------------------------
(* The OMS *)

Status(o) == IF filled[o] = Terms[o].qty THEN "FILLED"
             ELSE IF filled[o] > 0 THEN "PARTIALLY_FILLED" ELSE "OPEN"

\* Mutant: the queue takes any number of jobs.
SaveAsyncUnbounded(job) ==
    writeCh' = Append(writeCh, job) /\ UNCHANGED gone

\* SaveOrderAsync, SaveTradeAsync: a full channel drops the job.
SaveAsync(job) ==
    IF Len(writeCh) < WriteCap
    THEN writeCh' = Append(writeCh, job) /\ UNCHANGED gone
    ELSE gone' = gone \union {job} /\ UNCHANGED writeCh

\* PlaceOrder: the order is saved in Redis, from where on a restart brings it back
PlaceStore(o) ==
    /\ place[o] = "new"
    /\ place' = [place EXCEPT ![o] = "stored"]
    /\ UNCHANGED <<redis, book, filled, counter, tradeCh, writeCh, pending,
                   flushing, tables, eod, executed, gone, overtaken, boots, runs, errors>>

\* PlaceOrder: book.Add, from where on the engine may trade with the order
PlaceAdd(o) ==
    /\ place[o] = "stored"
    /\ place' = [place EXCEPT ![o] = "added"]
    /\ book' = book \union {o}
    /\ UNCHANGED <<redis, filled, counter, tradeCh, writeCh, pending,
                   flushing, tables, eod, executed, gone, overtaken, boots, runs, errors>>

\* PlaceOrder: SaveOrderAsync, of the same object
PlaceSave(o) ==
    /\ place[o] = "added"
    /\ place' = [place EXCEPT ![o] = "saved"]
    /\ SaveAsync(<<"order", o>>)
    /\ UNCHANGED <<redis, book, filled, counter, tradeCh, pending, flushing,
                   tables, eod, executed, overtaken, boots, runs, errors>>

\* The engine makes a trade of all that the smaller order still wants.  TradeCh drops it
\* when it is full, which the trades that have passed it neither cause nor prevent.
Execute(b, s) ==
    LET qty == Min({Terms[b].qty - filled[b], Terms[s].qty - filled[s]})
    IN /\ b \in book /\ s \in book
       /\ Terms[b].side = "BUY" /\ Terms[s].side = "SELL"
       /\ qty > 0
       /\ Len(executed) < MaxTrades
       /\ filled' = [filled EXCEPT ![b] = @ + qty, ![s] = @ + qty]
       /\ counter' = counter + 1
       /\ executed' = Append(executed, [id |-> counter + 1, buy |-> b, sell |-> s,
                                        qty |-> qty])
       /\ \/ /\ Len(tradeCh) < TradeCap + PassCap
             /\ tradeCh' = Append(tradeCh, Len(executed) + 1)
             /\ UNCHANGED gone
          \/ /\ Len(tradeCh) >= TradeCap
             /\ gone' = gone \union {<<"trade", Len(executed) + 1>>}
             /\ UNCHANGED tradeCh
       /\ UNCHANGED <<redis, place, book, writeCh, pending, flushing, tables, eod,
                      overtaken, boots, runs, errors>>

\* SaveTrade's pipeline in Redis: the trade under its id, the id before the others in
\* the list, and the list cut to its length
Key(n) == tradeKey' = [tradeKey EXCEPT ![executed[n].id] = n]
Pushed(n) == <<executed[n].id>> \o recent
Trimmed(ids) == SubSeq(ids, 1, Min({RecentCap, Len(ids)}))

\* Mutant: the list grows at its end and is cut there.
SaveTradeAtEnd(n) ==
    /\ Key(n)
    /\ recent' = Trimmed(Append(recent, executed[n].id))
    /\ listed' = <<n>> \o listed

SaveTrade(n) ==
    /\ Key(n)
    /\ recent' = Trimmed(Pushed(n))
    /\ listed' = <<n>> \o listed

\* The pipeline fails, none, some or all of it done; the error is logged.
SaveTradeFails(n) ==
    /\ errors < MaxErrors
    /\ errors' = errors + 1
    /\ \/ UNCHANGED redis
       \/ Key(n) /\ UNCHANGED <<recent, listed>>
       \/ Key(n) /\ recent' = Pushed(n) /\ listed' = <<n>> \o listed
       \/ SaveTrade(n)

\* consumeTrades: SaveTrade, then SaveTradeAsync
ConsumeTrade ==
    LET n == Head(tradeCh)
    IN /\ tradeCh # <<>>
       /\ tradeCh' = Tail(tradeCh)
       /\ SaveTradeFails(n) \/ (SaveTrade(n) /\ UNCHANGED errors)
       /\ SaveAsync(<<"trade", n>>)
       /\ overtaken' = IF \A o \in Sides(n) : place[o] = "saved" THEN overtaken
                       ELSE overtaken \union {n}
       /\ UNCHANGED <<place, book, filled, counter, pending, flushing, tables, eod,
                      executed, boots, runs>>

-----------------------------------------------------------------------------
(* asyncWriter *)

WriterTake ==
    /\ ~flushing
    /\ writeCh # <<>>
    /\ writeCh' = Tail(writeCh)
    /\ pending' = Append(pending, Head(writeCh))
    /\ flushing' = (Len(pending) + 1 >= BatchSize)
    /\ UNCHANGED <<redis, place, book, filled, counter, tradeCh, tables, eod,
                   executed, gone, overtaken, boots, runs, errors>>

\* The ticker starts a flush of what there is.
WriterTick ==
    /\ ~flushing
    /\ pending # <<>>
    /\ flushing' = TRUE
    /\ UNCHANGED <<redis, place, book, filled, counter, tradeCh, writeCh, pending,
                   tables, eod, executed, gone, overtaken, boots, runs, errors>>

\* The references of a row of trades to rows of orders
Insertable(job) ==
    job[1] = "trade" => \A o \in Sides(job[2]) : orderRow[o] # "none"

\* Mutant: a trade replaces the one that has its id.
ExecuteWriteReplaces(job) ==
    /\ orderRow' = [o \in Orders |-> IF job = <<"order", o>> /\ orderRow[o] = "none"
                                     THEN Status(o) ELSE orderRow[o]]
    /\ tradeRow' = IF job[1] = "trade"
                   THEN [tradeRow EXCEPT ![executed[job[2]].id] = job[2]] ELSE tradeRow

\* executeWrite: insertOrder, with what the order object says now, or insertTrade; both
\* do nothing when the key is taken.
ExecuteWrite(job) ==
    /\ orderRow' = [o \in Orders |-> IF job = <<"order", o>> /\ orderRow[o] = "none"
                                     THEN Status(o) ELSE orderRow[o]]
    /\ tradeRow' = IF job[1] = "trade" /\ tradeRow[executed[job[2]].id] = 0
                   THEN [tradeRow EXCEPT ![executed[job[2]].id] = job[2]] ELSE tradeRow

\* Mutant: the first error ends the flush and the rest of the batch.
WriterFlushStops ==
    LET job == Head(pending)
    IN /\ flushing
       /\ \/ /\ Insertable(job) /\ ExecuteWrite(job)
             /\ pending' = Tail(pending) /\ UNCHANGED gone
          \/ /\ gone' = gone \union {job}
             /\ pending' = <<>> /\ UNCHANGED <<orderRow, tradeRow>>
       /\ flushing' = (pending' # <<>>)
       /\ UNCHANGED <<redis, place, book, filled, counter, tradeCh, writeCh,
                      settled, eod, executed, overtaken, boots, runs, errors>>

\* flush, one job: written, refused for a missing reference, or failed.  An error is
\* logged and the job is over, whether or not it comes after the commit.
WriterFlush ==
    LET job == Head(pending)
    IN /\ flushing
       /\ pending' = Tail(pending)
       /\ flushing' = (Len(pending) > 1)
       /\ \/ Insertable(job) /\ ExecuteWrite(job) /\ UNCHANGED <<gone, errors>>
          \/ ~Insertable(job) /\ UNCHANGED <<orderRow, tradeRow, gone, errors>>
          \/ /\ errors < MaxErrors
             /\ errors' = errors + 1
             /\ \/ Insertable(job) /\ ExecuteWrite(job) /\ UNCHANGED gone
                \/ gone' = gone \union {job} /\ UNCHANGED <<orderRow, tradeRow>>
       /\ UNCHANGED <<redis, place, book, filled, counter, tradeCh, writeCh,
                      settled, eod, executed, overtaken, boots, runs>>

-----------------------------------------------------------------------------
(* RunEODSettlement *)

TradesIn(rows) == {rows[id] : id \in DOMAIN rows} \ {0}
Qty == [n \in DOMAIN executed |-> executed[n].qty]

\* The orders of a client that the query looks at, and the value of the trades of those
\* on one side of them
PlacedToday(c) == {o \in Orders : Terms[o].client = c /\ Terms[o].today /\ orderRow[o] # "none"}
BuyValue(c) ==
    SumFunctionOnSet(Qty, {n \in TradesIn(tradeRow) : executed[n].buy \in PlacedToday(c)})
SellValue(c) ==
    SumFunctionOnSet(Qty, {n \in TradesIn(tradeRow) : executed[n].sell \in PlacedToday(c)})
Chargeable(c) ==
    Cardinality({o \in PlacedToday(c) : Terms[o].charged /\ orderRow[o] = "FILLED"})

\* Mutant: trades are joined to the buyer's order alone.
FiguresOfBuyers(c) == [orders |-> Chargeable(c), buy |-> BuyValue(c), sell |-> 0]

\* Mutant: every order with a row is charged.
FiguresOfAll(c) ==
    [orders |-> Cardinality({o \in PlacedToday(c) : Terms[o].charged}),
     buy |-> BuyValue(c), sell |-> SellValue(c)]

\* The query's row for a client: its filled orders that are charged, and the value of
\* the trades of its buy and of its sell orders
FiguresOf(c) == [orders |-> Chargeable(c), buy |-> BuyValue(c), sell |-> SellValue(c)]

HasOrders(c) == PlacedToday(c) # {}

\* A settlement goes on to the next client; its figures go with the last one.
Passed(run, c, clean) ==
    IF run.todo = {c} THEN [Idle EXCEPT !.clean = clean]
    ELSE [run EXCEPT !.todo = @ \ {c}, !.clean = clean]

\* The query: all clients that have orders of the day, as the tables are at this moment.
\* Nothing keeps a second request from running beside the first.
SettleQuery ==
    /\ \E c \in Clients : HasOrders(c)
    /\ runs < MaxRuns
    /\ runs' = runs + 1
    /\ LET some == {c \in Clients : HasOrders(c)}
       IN eod' = [eod EXCEPT ![runs + 1] =
                     [figures |-> [c \in some |-> FiguresOf(c)], todo |-> some,
                      clean |-> \A r \in 1 .. runs : eod[r].todo = {}]]
    /\ UNCHANGED <<redis, memory, tables, executed, gone, overtaken, boots, errors>>

Settle(r, c) == settled' = [settled EXCEPT ![c] = eod[r].figures[c]]

\* The upsert of one client's row, as far as a second run replaces it: the values
\* traded and the orders that brokerage is charged for.  An error, of the row read or of
\* the upsert, before its commit or after it, is logged and the next client is next.
SettleClient(r, c) ==
    /\ c \in eod[r].todo
    /\ \/ /\ Settle(r, c)
          /\ eod' = [eod EXCEPT ![r] = Passed(@, c, @.clean)]
          /\ UNCHANGED errors
       \/ /\ errors < MaxErrors
          /\ errors' = errors + 1
          /\ Settle(r, c) \/ UNCHANGED settled
          /\ eod' = [eod EXCEPT ![r] = Passed(@, c, FALSE)]
    /\ UNCHANGED <<redis, memory, orderRow, tradeRow, executed, gone, overtaken, boots, runs>>

\* The connection breaks while rows are read: the loop ends as if they were all, and
\* nobody asks rows.Err.
SettleCut(r) ==
    /\ eod[r].todo # {}
    /\ errors < MaxErrors
    /\ errors' = errors + 1
    /\ eod' = [eod EXCEPT ![r] = Idle]
    /\ UNCHANGED <<redis, memory, tables, executed, gone, overtaken, boots, runs>>

-----------------------------------------------------------------------------
\* The process dies, or is stopped: main never calls Close.  The next one finds the
\* orders in Redis, as if nothing of them were filled.
Restart ==
    /\ boots < MaxBoots
    /\ boots' = boots + 1
    /\ place' = [o \in Orders |-> IF place[o] \in {"stored", "added"} THEN "lost"
                              ELSE place[o]]
    /\ book' = {o \in Orders : place[o] # "new"}
    /\ filled' = [o \in Orders |-> 0]
    /\ counter' = 0
    /\ gone' = gone \union {writeCh[i] : i \in DOMAIN writeCh}
                    \union {pending[i] : i \in DOMAIN pending}
                    \union {<<"trade", tradeCh[i]>> : i \in DOMAIN tradeCh}
    /\ tradeCh' = <<>> /\ writeCh' = <<>> /\ pending' = <<>>
    /\ flushing' = FALSE
    /\ eod' = [r \in 1 .. MaxRuns |-> IF eod[r].todo = {} THEN eod[r] ELSE Idle]
    /\ listed' = <<>>
    /\ UNCHANGED <<tradeKey, recent, tables, executed, overtaken, runs, errors>>

-----------------------------------------------------------------------------
asyncWriter == WriterTake \/ WriterTick \/ WriterFlush
RunEODSettlement ==
    \/ SettleQuery
    \/ \E r \in 1 .. runs : SettleCut(r) \/ \E c \in Clients : SettleClient(r, c)

Next ==
    \/ \E o \in Orders : PlaceStore(o) \/ PlaceAdd(o) \/ PlaceSave(o)
    \/ \E b, s \in Orders : Execute(b, s)
    \/ ConsumeTrade
    \/ asyncWriter
    \/ RunEODSettlement
    \/ Restart

Spec == Init /\ [][Next]_vars
-----------------------------------------------------------------------------
(* Properties *)

\* A settlement holds figures of some clients, and is still to settle some of those.
IsRun(x) ==
    \E S \in SUBSET Clients : x \in [figures : [S -> Figures], todo : SUBSET S, clean : BOOLEAN]

Jobs == ({"order"} \X Orders) \union ({"trade"} \X (1 .. MaxTrades))

\* Every variable keeps its type.
TypeOK ==
    /\ place \in [Orders -> {"new", "stored", "added", "saved", "lost"}]
    /\ book \subseteq Orders
    /\ filled \in [Orders -> Nat]
    /\ counter \in 0 .. MaxTrades
    /\ tradeCh \in Seq(1 .. MaxTrades) /\ Len(tradeCh) <= TradeCap + PassCap
    /\ writeCh \in Seq(Jobs) /\ Len(writeCh) <= WriteCap
    /\ pending \in Seq(Jobs) /\ Len(pending) <= BatchSize
    /\ flushing \in BOOLEAN /\ (flushing => pending # <<>>)
    /\ tradeKey \in [1 .. MaxTrades -> 0 .. MaxTrades]
    /\ recent \in Seq(1 .. MaxTrades) /\ listed \in Seq(1 .. MaxTrades)
    /\ orderRow \in [Orders -> {"none", "OPEN", "PARTIALLY_FILLED", "FILLED"}]
    /\ tradeRow \in [1 .. MaxTrades -> 0 .. MaxTrades]
    /\ settled \in [Clients -> Figures]
    /\ DOMAIN eod = 1 .. MaxRuns /\ \A r \in 1 .. MaxRuns : IsRun(eod[r])
    /\ executed \in Seq([id : 1 .. MaxTrades, buy : Orders, sell : Orders, qty : Nat \ {0}])
    /\ Len(executed) <= MaxTrades
    /\ gone \subseteq Jobs
    /\ overtaken \subseteq 1 .. MaxTrades
    /\ boots \in 1 .. MaxBoots
    /\ runs \in 0 .. MaxRuns
    /\ errors \in 0 .. MaxErrors

Waiting(job) ==
    \/ \E i \in DOMAIN writeCh : writeCh[i] = job
    \/ \E i \in DOMAIN pending : pending[i] = job
Recorded(n) == tradeRow[executed[n].id] = n

\* A trade that is on its way neither to consumeTrades nor to its row
Over(n) == (\A i \in DOMAIN tradeCh : tradeCh[i] # n) /\ ~Waiting(<<"trade", n>>)

\* Every reason for which a trade never gets its row: a full TradeCh or writeCh dropped
\* it, its statement failed before the commit, or a crash took it; an order of it has no
\* row because the same befell the order's job; it was handed over before one of its
\* orders, whose row it refers to; or its id was taken by a trade from before a restart.
Unrecordable(n) ==
    \/ <<"trade", n>> \in gone
    \/ \E o \in Sides(n) : <<"order", o>> \in gone
    \/ n \in overtaken
    \/ \E m \in 1 .. n - 1 : executed[m].id = executed[n].id /\ Recorded(m)

\* Every trade that the engine made and that is no longer on its way is in the table,
\* unless one of the reasons above holds, and then it is not: neither the batches nor
\* the order of the jobs, the restarts or the reused ids lose or invent any other
\* (fillAgainstLevel, PlaceOrder, consumeTrades, asyncWriter, insertTrade).
TradesRecorded ==
    \A n \in DOMAIN executed : Over(n) => (Recorded(n) <=> ~Unrecordable(n))

\* What the schema says of the table of trades: "every matched trade"
\* (001_schema.sql; PlaceOrder hands the order to Postgres after the book).
EveryTradeStored == \A n \in DOMAIN executed : Over(n) => Recorded(n)

\* What GetRecentTrades reads first is what happened last: the list begins with the
\* trades of this life of the server, newest first, although its ids are those of
\* older trades, whose entries now show the wrong trade (SaveTrade, createTrade).
RecentAreNewest ==
    \A i \in 1 .. Min({RecentCap, Len(listed)}) :
        /\ tradeKey[recent[i]] = listed[i]
        /\ \A j \in i + 1 .. Len(listed) : listed[j] < listed[i]

\* An order the client was told is accepted has its row once the writer has come to
\* it, if its job was not lost, whatever failed beside it in its batch
\* (SaveOrderAsync, asyncWriter).
RowsCatchUp ==
    \A o \in Orders :
        place[o] = "saved" /\ ~Waiting(<<"order", o>>) /\ <<"order", o>> \notin gone
            => orderRow[o] # "none"

\* What is charged was traded: the settlement bills an order only if it was executed
\* in full, although its row shows what the object said when the job was written and
\* is never updated (insertOrder, RunEODSettlement).
ExecutedQty(o) ==
    SumFunctionOnSet(Qty, {n \in DOMAIN executed : o \in Sides(n)})
BilledWereFilled ==
    \A c \in Clients :
        settled[c].orders <= Cardinality({o \in Orders : Terms[o].client = c
                               /\ Terms[o].charged /\ ExecutedQty(o) >= Terms[o].qty})

Bought == [c \in Clients |-> settled[c].buy]
Sold == [c \in Clients |-> settled[c].sell]

\* A trade between an order of the day and one of an earlier day, whose side the query
\* leaves out
AcrossDays(n) == Terms[executed[n].buy].today # Terms[executed[n].sell].today

\* The settlement of a day adds up: once the last one has gone through without an error,
\* and none was at work when it began, what clients bought is what clients sold, although
\* trades were inserted while it went from client to client, and although others ran
\* before it; unless an order of an earlier day has traded with one of the day
\* (RunEODSettlement).
BuysEqualSells ==
    runs > 0 /\ eod[runs].clean /\ eod[runs].todo = {}
             /\ (\A n \in TradesIn(tradeRow) : ~AcrossDays(n))
        => SumFunctionOnSet(Bought, Clients) = SumFunctionOnSet(Sold, Clients)
=============================================================================
