# A TLA+ verification of go-oms

go-oms is an order management system for a small stock exchange: clients place and cancel orders
over HTTP, an engine per symbol matches them, Redis keeps what must survive a restart, Postgres
keeps history, and watchers follow prices, positions and good-till-triggered (GTT) orders. This
directory models its core in TLA+, checks the models with TLC and proves the most important
properties with TLAPS for every number of orders, clients, failures and restarts.

`PROJECT.json` lists the components, the runs with their properties, a mutant for each property, the
source lines behind every definition, the findings, the hazards and the theorems.

## 1. Inventory

| Component | State | Operations | Hard because |
|---|---|---|---|
| Order book `internal/orderbook` | `bids`, `asks` (slices of levels, each with a slice of orders and a `Total`), map `orders`, `EventCh` | `Add`, `Cancel`, readers | the engine reads its slices without its lock; it sends on a bounded channel while it holds the lock |
| Matching engine `internal/matching` | the pass it is in, `tradeCounter`, `TradeCh` | `matchLoop`, `matchLimitOrder`, `matchMarketOrder`, `fillAgainstLevel` | a trade is several writes to shared orders; a full `TradeCh` drops trades |
| Orders `internal/models` | `Status`, `FilledQty`, `RemainingQty` | `Fill`, `UpdateStatus` | shared by pointer between book, engine and API |
| Order entry `internal/api` | books, engines, channels | `PlaceOrder`, `CancelOrder`, `RecoverFromRedis`, consumers | each is a sequence of Redis calls that may fail or be cut off by a crash |
| Redis `internal/store` | orders, status indexes, margin accounts, last prices, the list of recent trades | `SaveOrder`, `UpdateOrderStatus`, `BlockMargin`, `ReleaseMargin`, `SetLTP`, `SaveTrade` | pipelines take effect in part; some errors are ignored; keys expire |
| Risk checks `internal/risk` | none that the server uses | `ValidateBasics`, `CheckPriceBand`, `CheckFreezeQty` | prices may be missing or stale |
| Feed `internal/marketdata` | the last quotes | `Refresh` | runs beside everything else |
| Start `cmd/server` | | start, recovery | what the memory lost and Redis kept must fit together |
| GTTs `internal/gtt` | map of GTTs, `eventCh` | `Add`, `Cancel`, `scan` | one lock through `PlaceOrder` and blocking sends; retries; pairs |
| Positions `internal/position` | quantity, averages, profit | `ApplyTrade`, `UpdateLTP` | averages of both sides; lossy event channel |
| Postgres `internal/db` | write queue, the writer's batch, the tables | async writes, settlement | jobs are dropped, fail or are lost; rows refer to rows that may be missing; trade ids repeat |
| WebSocket hub `internal/ws` | the map of clients, three channels, a channel and topics per client | `Broadcast`, `Run`, `ServeWS`, `readPump`, `writePump` | closing a channel others send on; a `select` over register and unregister |

How they interact: `PlaceOrder` checks risk, blocks margin in Redis, saves the order in Redis, then
calls `book.Add`; `Add` sends an event to the engine; the engine fills the order objects and sends
trades; a forwarder hands them to `consumeTrades`, which saves them and updates positions; position
events go to clients through the hub and to Postgres through its writer's queue, which orders and
trades share. The feed writes last prices that `PlaceOrder`, the GTT watcher
and the positions read. At a start, `RecoverFromRedis` puts the orders of the OPEN and
PARTIALLY_FILLED indexes back into the books.

What makes each part correct: trades respect limits, quantities and cancellations whatever the
interleaving (book and engine); margin, Redis and book agree, and accepted orders survive a crash
(order entry); a GTT fires once and its outcome is announced (GTTs); shares are conserved and the
profit shown is the profit made (positions); a trade or order is recorded unless something nameable
happened to it, and a settlement that ran undisturbed adds up (Postgres); the hub does not panic, of
the messages it took none is skipped for a client it still serves, and no gone client is kept (hub).

## 2. Modules

| Module | Models |
|---|---|
| `GoSlice` | Go slices as far as two goroutines can tell them apart: header, backing arrays, in-place `append` |
| `ExchangeLedger` | abstract: what a symbol promises, a list of trades between orders with fixed terms |
| `Matching` | book, callers of `Add` and `Cancel`, engine, forwarder of one symbol |
| `Oms` | order entry, Redis, risk checks, feed, crash and restart; uses `ExchangeLedger` for the engine |
| `Gtt` | the GTT manager, its watcher, its event channel and consumer |
| `Positions` | positions of one symbol, ticks, the event channel and its consumer |
| `Journal` | trades on their way to Redis' list, orders and trades on their way to Postgres, the writer, the settlement, crash and restart |
| `Hub` | the hub's loop, `ServeWS`, both pumps, publishers |
| `MC*` | instances for TLC |
| `MatchingProofs`, `OmsProofs`, `GttProofs`, `PositionsProofs`, `JournalProofs`, `HubProofs` | theorems about the module of that name |
| `GoSliceProofs`, `DataLemmas` | lemmas: what each slice operation keeps and shows; channels and streams as sequences; sums over finite sets |

**Matching.** `Add` and `Cancel` hold the book's write lock (`Locked`) from their first step to the
send on `EventCh`, which is a step of its own because it may wait. The engine takes the lock only to
fetch a side's slice (`EngFetch`). Everything after that is without the lock, so `Add` and `Cancel`
run in between, as they can in Go: the cell of a level (`EngTakeLevel`), that level's slice header
(`EngEnterLevel`), the cell of an order (`EngTakeOrder`), the look at its status (`EngCheck`), the
trade with the incoming order's `Fill` (`EngTrade`), and the resting order's `Fill` with the send on
`TradeCh` (`EngFillResting`). In particular a `Cancel` may begin and return between the look at an
order's status and the trade with it. What one step holds together are reads of quantities that only the
engine writes, and the number and terms of a trade, which only the engine sees before `TradeCh`. `GoSlice`
decides what the engine then sees: `append(s[:i], s[i+1:]...)` shifts the cells of the same array, an
insert that outgrows the capacity leaves the engine on the old one. A level is named by the order
that opened it. `caller[o]` is where the goroutine that places or cancels `o` is. Data left out:
average prices, timestamps, messages.

**Oms.** One listed symbol. `place[o]` and `cancel[o]` are the program counters of `PlaceOrder` and
`CancelOrder`; every Redis call is a step. `SaveOrder` is a Redis pipeline: when it returns an error,
none, some or all of it has taken effect (`SaveOrderFails`). Every other call that changes Redis may
fail too, `BlockMargin` before or after its script has run; what the code does with the error, and
where it ignores it (`ReleaseMargin`, `SRem`), is what the model does. `MaxFaults` bounds the errors
and `faults` counts them. `kept` holds the orders whose `SRem` failed, `missed` those that the last
start could not read: the places where an ignored error lets a property fail, which the properties
name. `ExpireOrder` is Redis dropping an order 24 hours after its last save, wherever the order is.
`Crash` may come between any two steps, clears what is in memory and keeps Redis; `Boot` is `main` up
to reading the indexes, some of whose orders it may miss, `RecoverOne` one order of
`RecoverFromRedis`, `ListenAndServe` the moment requests are taken. Book and engine are abstract: a
set of orders, and trades that `ExchangeLedger` allows, which is what `Matching` is proved to
implement. Money is in twentieths of a price unit, so that the rates 100 %, 20 % and 15 % are
integers. Prices of orders may be negative, because only those of LIMIT orders are checked, and so may
margins and a client's used margin. An order for an unlisted symbol, an unknown client, a product
without a margin rate (one that reaches `BlockMargin`), a negative stop-loss price, a missing trigger
and a quantity above the freeze limit are all among the terms. A restart keeps `margin` as history.
`unsure` holds the orders for which a call of `BlockMargin` or `ReleaseMargin` returned an error, of
which nobody knows whether it took effect.

**Gtt.** The lock is held while `scan.pc # "idle"` or `canceller # NoPair`: through the whole scan,
the orders it places and each blocking send. The scan visits the map in any order, as Go does.
`PlaceOrder` succeeds, returns an error, or does not return. The handler that builds a GTT gives it the id it names as
its pair, so a pair is linked one way unless the first GTT guesses the id of the second.

**Positions.** Both halves of `ApplyTrade` run under the manager's lock and are one action, ticks
another. Prices are whole paise and averages are rounded to paise like `math.Round(x*100)/100`;
products and sums that the code rounds are then exact. `Consume` hands a position to Postgres'
writer, whose queue may be full.

**Journal.** One symbol, and the settlement of one day, with orders of earlier days (`today` is false)
still in the book. `place[o]` is `PlaceOrder` as far as records are concerned: the order is saved in
Redis, is in the book, where it can be traded, and only then goes to the writer's queue. `Execute` makes
a trade and sends it towards `consumeTrades`. The path there is one sequence: the engine's `TradeCh` and
behind it the OMS' `tradeCh` with its forwarder. A full `TradeCh` drops the trade, which can happen once
`TradeCap` trades are on the path and must happen at `TradeCap + PassCap`. `ConsumeTrade` is
`SaveTrade`'s pipeline, which may fail after any of its commands, and `SaveTradeAsync`; both it and
`PlaceSave` drop the job when `writeCh` is full. `WriterTake`, `WriterTick` and `WriterFlush` are
`asyncWriter`: a flush starts at `BatchSize` jobs or at a tick and writes one job per step, with what the
order object says at that moment, while the rest of the system goes on. A row of `trades` needs the rows
of both orders; a key that is taken makes the insert do nothing; any statement may fail, before its
commit, so that the job is `gone`, or after it. `SettleQuery` is a settlement's one query, over the
orders placed on its day, `SettleClient` one client's upsert, which may fail in the same two ways, and
`SettleCut` the loop over rows breaking off, which the code takes for its end. No lock keeps settlements
apart: `eod[r]` is what the `r`-th is doing, and any number of them run side by side. `Restart` loses
queue, batch, trades on their path and settlements, brings the orders back unfilled and starts the trade
ids from 1. `executed`, `gone`, `overtaken` and `listed` are history.

**Hub.** `Run` is one `select` round per step and, while a message is fanned out, one client per
step, in any order of the map. `client[c]` holds the Client, its connection, the program counters of
`ServeWS` and the two pumps, and as history what was written to the peer (`got`) and meant for it
(`offered`). A plain send waits for room and panics on a closed channel (`SendOrPanic`); a panic in a
pump or in the hub ends the process (`panicked`), one in the handler is recovered by `net/http`. A
connection closes when either pump closes it; writes and reads may fail at any time.

Two simplifications to keep in mind. Reads and writes of one slice header, one cell or one status are
atomic here; in Go they are data races, and a torn slice header could do anything. `Add` up to its
send, and unlinking in `Cancel`, are atomic although the engine could read between the change of a
level's orders and of its `Total`; the engine does not read `Total`. Calls that end in an error and
change nothing are actions that change nothing (`AddDuplicate`, `CancelRefused`, `AddRefused`,
`TradeWithoutOrder`). In `Hub`, `h.clients` belongs to the hub's goroutine, as `hub.go:64` says;
`ConnectedClients` reads it from handlers without a lock, which is a data race that the model leaves
out.

## 3. Runs

| Run | Instance | Shows |
|---|---|---|
| `matching` | 3 orders of 5 terms in 12 assignments, `LevelCap` 1, `TradeCap` 1, room in `EventCh`, fair | types, well-formed book, depth, limits, fills, market orders, tape, ledger, no pass chooses a cancelled order, everything comes to rest |
| `matching_block` | `EventCap` 1 | **violated**: `Add` waits for the engine, the engine for `Add` |
| `matching_cross` | a buy, two asks of different prices, `LevelCap` 2 | **violated**: crossing orders left in the book |
| `oms` | 2 orders of 10 terms, 2 clients, a price that may be missing, 1 fault, 2 starts | margin, Redis and book agree through an error of any Redis call, expiry, a crash and a restart |
| `oms_replay` | 3 orders, 2 starts | **violated**: executed orders are executed again after a restart |
| `oms_restart` | 2 orders, 2 starts | **violated**: a restart frees the margin of orders that come back |
| `oms_filled` | 2 orders, 1 start, no fault | **violated**: the margin of filled orders stays blocked |
| `gtt` | 3 GTTs, prices none, 2, 3, `EventCap` 1, fair | firing once, pairs, announcements, no GTT waits for ever but for refusals and a `PlaceOrder` that does not return |
| `positions` | 2 clients, 3 trades, 2 prices and sizes, `EventCap` 4, explored up to the first drop | shares, one-way profit, what Postgres is given once the channel is drained |
| `journal` | 3 orders, one resting from the day before, `TradeCap`, `PassCap` 1, queue, batch and list of 2, 3 trades, 2 starts, 2 settlements, 1 error | which trades and orders reach Postgres, what Redis lists, what the settlement charges |
| `journal_trades` | 2 orders, 1 trade, no error, no restart | **violated**: a trade that overtakes its order has no row |
| `hub` | 1 connection, channels of 1, 3 messages, 2 messages of the peer, fair | the hub never panics, who else can, no gap in what a client sees of the messages the hub took, a client that is gone leaves the map |

The bounds are small and the cases they must reach are reached. Capacities are 1 to 4 so that arrays
are outgrown, trades dropped and senders blocked with few orders. Three orders give a pass over two
resting orders while one of them is cancelled. Two starts give every crash point followed by a
recovery, and one fault an error at every call of every history; the proofs cover more of both. The
feed has one price in `oms`, which may also be missing, and limit orders have others: a price that
moves changes only what a cancelled market order releases (see Findings). In `journal` one order rests
from the start, so that two more are enough for trades on both sides of a restart with the same id; it
is of the day before, so that a trade across days happens too, and two settlements overlap. A trade sends
two position events, a tick one: with the `EventCap` of 4 in `positions` a trade and two ticks, or two
trades, wait in the channel with none dropped. The run stops at the first drop, which changes no
position and ends what `SavedCatchesUp` speaks of. In `hub` one message beyond the capacity makes a client slow, and the peer sends one more
than its channel has room for replies; the hub serves each connection by itself, and the theorems of
`HubProofs` are for any number of them. In `gtt` ids 1 and 2
name each other, and the third GTT gives self-pairs and one-way pairs. Orders, and clients in
`Positions`, are interchangeable and are used as symmetry sets in the runs that check safety only; in
`matching`, which checks liveness too, one assignment stands for those that differ only in which order
has which terms, and every one has an order that buys and one that sells. `EventCap` in `matching` is large enough for
every event, because the deadlock of `matching_block` would otherwise end behaviours; its safety
properties lose nothing by it but the states of a full channel. `Oms` may stop for good when the last start
is used up and the server has crashed, `Hub` when the process has panicked or every connection is
gone, `Journal` when everything was traded and written: their configurations do not
check deadlock.

Every property has a mutant, an operator beside the original that changes it the way a plausible bug
would, and TLC reports the property violated when the mutant takes the original's place.

**Fairness.** `Matching` assumes weak fairness of the engine, the forwarder and of a goroutine inside
`Add` or `Cancel`; `Gtt` of what the watcher does by itself (`WatchSteps`), the consumer and a waiting
`Cancel`. All are goroutines that Go's preemptive scheduler runs whenever they can run, and
`sync.RWMutex` lets no waiter starve. Nothing is assumed of clients, of prices, of whether `PlaceOrder`
accepts a GTT's order, or of whether it returns: `book.Add` inside it can wait for ever
(`matching_block`), and the watcher then waits with it and keeps the manager's lock.
`ReachedIsServed` excepts that, and a GTT that is refused again and again. `Hub` assumes strong fairness
of each case of the hub's `select`, because Go picks at random among the cases that are ready, and
weak fairness of its fan-out, of a handler that has begun and of the pumps' own steps. A read or write
on a closed connection returns; nothing makes a peer send, a publisher publish or an open connection
fail.

**Findings.** The six violated runs are disagreements between the code and its own comments, tests
and schema; `PROJECT.json` quotes them:

- `matching_block`: `Add` blocks on a full `EventCh` with the lock its reader needs.
- `matching_cross`: `AskLevels` is no copy. A better ask is inserted in place while a buy's pass runs, the
  level behind it moves beyond the length that was fetched, the pass trades with the new level only, and
  the buy and the old ask stay in the book although they cross.
- `oms_replay`: executed orders come back at a restart and are executed again.
- `oms_restart`: a restart zeroes the used margin of orders that come back.
- `oms_filled`: a filled order never gives its margin back.
- `journal_trades`: a trade that reaches the writer before one of its orders has no row for good.

The models show more behaviour that a reader should know of. Known from earlier runs or from traces,
and stated by no property:

- A trade may be made with an order whose `Cancel` has returned, if the engine looked at the order's
  status before (`CancelSticks` allows that one).
- A `Cancel` that shifts a level's slice under the engine makes it skip an order, and a later one of
  the same price is filled first.
- Only the price of LIMIT orders is checked. An SL-M order of price -4 lowers the used margin, and a
  client with a balance of 240 gets an order accepted that needs 270 (`TypeOK` and `MarginAddsUp` of
  `Oms` name the case and say what still holds).
- Cancelling a market order releases margin at the price of now: more or less than was blocked
  (`MarginAddsUp` leaves out the client from then on). After a negative margin the floor of
  `ReleaseMargin` can leave more used than is owed.
- The profit of a position that turns from long to short mixes both sides' averages, and a closed
  position keeps the unrealized profit of its last tick, because `UpdateLTP` skips flat positions.

Named by the exceptions of properties that hold:

- A cancelled order whose `SRem` failed stays in the OPEN index and comes back at every restart
  (`kept`); an order that expired in Redis can no longer be cancelled and does not survive one.
- A trade is lost for Redis and Postgres when `TradeCh` is full, and for Postgres when `writeCh` is, when
  its statement fails or in a crash; a trade after a restart whose id was used before is not inserted, and
  in Redis it takes the older one's place (`Unrecordable`, `RecentAreNewest`).
- The row of an order is inserted once and never updated, although the schema speaks of every state
  transition: the settlement charges no order that was filled after its row was written. It never
  charges one that was not filled (`BilledWereFilled`).
- Two settlements of one day that overlap mix the rows of two queries, and one whose rows break off
  reports success with clients left out; a trade with an order of an earlier day, whose side the query
  leaves out, keeps buys and sells apart (`BuysEqualSells`).
- A client that is dropped as slow can take the process with it: its read pump sends on the closed
  channel (`PanicsOnlyIfSlow`).
- When the hub takes a client's unregister before its register, the client stays in the map until a
  message finds its channel full; a read pump whose write pump has returned can wait for ever on a full
  channel (`GoneIsForgotten`).

## 4. Proofs

Checked by TLAPS, for every value of the constants that satisfies the named assumptions: any number
of orders, GTTs, connections, messages, trades, crashes, faults and restarts, any terms, any
capacities. All the invariants and both action properties that the passing runs check are theorems;
the three liveness properties are not. The assumptions are typing and positive capacities, and that `Keys` of `Positions` and `Orders` of `Oms` and `Journal` are finite sets, because sums
range over them.

**Lemmas.** `GoSliceProofs` shows that no operation on a slice shortens an array or changes the type
of its cells (`StoreKeeps`), what the slice shows afterwards (`AppendContent`, `InsertContent`,
`DeleteContent`), and that a goroutine that walks an older header finds in each cell what was there
before or something the slice now shows (`Reads`). `DataLemmas` has what sending, taking and dropping
do to a channel and to the stream of messages behind it, and the laws of sums: a sum over a finite set
is computed by a fold, a function defined by recursion on subsets, and each law (`SumAdd`,
`SumRemove`, `SumChange`, `SumLeq`, `SumByClass`...) is proved with a smallest subset for which it would
fail, so no induction rule is needed.

**Matching.** `TypeCorrectness`, `LimitsRespected`, `NoOverfill` and `Refinement` come from one
inductive invariant, `Inv` (theorem `Invariance`). None of the properties is inductive alone. That a
trade is within the limits rests on the price that `EngTakeLevel` compared still being the price of
the order that `EngTrade` trades with, and that rests on every cell of every backing array, stale ones
included, holding orders of its level's side and price, which is why `TypeOK` types cells by side and
price. `EngineFacts` carries the comparison from one step to the next; `PlacedFacts` says that an
order not yet added is untouched. `Refinement` maps `filled` to `Settled`, which counts a trade from
`createTrade` on, before the resting order's `Fill`. On top of `Inv`:

- `BookStaysWellFormed`: `BookInv` says the same from the levels' side. A level has orders exactly
  while its side shows it, and a registered order is in one queue, once. Then `Cancel` finds its order
  in exactly one place, and a new level's price fits strictly between its neighbours.
- `DepthHidesNothing`: fills only lower the sum of what a queue wants; `Add` and `Cancel` change total
  and sum by the same amount, because fills cannot come in between.
- `MarketOrdersNeverRest`: an order's pass stays to come or running until `EngFinish` (`StaysUnmatched`),
  and a market order being filled by another pass still has its own to come (`RestInv`).
- `CancellationSticks`: an order can be active after its cancellation, when a `Fill` that was under way
  overwrites CANCELLED. `StickInv` says why no pass chooses it again: either the incoming order of that
  pass has all it wanted, or the engine's slice does not show the order, and neither `Add` nor `Cancel`
  brings it into a cell of that slice again (`BookReads`, from `Reads` and `BookInv`). The one order that
  `EngCheck` has already chosen is what the property leaves open.
- `TradesInOrder`: the numbers on the tape and in the channel increase, up to the last trade made.

**Oms.** `BookBacked`, `AcceptedOrdersSurvive`, `CancelledOrdersStayOut` and `RejectedOrdersStayOut`
come from `Durable` (theorem `Durability`), which says for every stage of `PlaceOrder` and
`CancelOrder` what Redis holds of the order (`PlaceFacts`, `CancelFacts`), and where the order is in
each phase of the server (`BookFacts`). What an ignored error or an expiry breaks is excepted at the
order it happened to (`kept`, `missed`, an order that Redis no longer has), so one order's fault says
nothing against another's. `MarginAccountsAddUp` needs for every order what is blocked for it at
each stage (`MarginFacts`): a release gives back what was blocked because the price of a limit order
does not move. For orders whose call returned an error it names those (`lost`, of `unsure`) whose
margin stays blocked. `OmsTypes` is `TypeOK`.

**Gtt.** `GttInv`: the GTT that the scan is at, or that a `Cancel` waits with, already has the status
its event will announce, and scan and canceller never hold the lock together (`Holding`). Accepted
orders are due and are of GTTs that stay TRIGGERED, one each, and the order that `PlaceOrder` has is of
another GTT (`Firing`). The pair of a GTT that fired is no longer ACTIVE, except right after the last
placing, when the scan is about to cancel it (`Pairing`). An outcome is announced once, or its holder is
about to (`Telling`). From it `FiresAtMostOnce`, `OneCancelsOther`, `EveryOutcomeAnnounced`, `GttTypes`.

**Positions.** `NoShareMadeOrLost` follows trade by trade from the sum laws; a client that trades with
itself is the case in which both halves change one position. `WriterCatchesUp`: for each position the
last trade event in the channel carries its quantity, or there is none and the quantity is saved
(`WillSave`). `PositionTypes` includes that averages stay natural numbers. `ProfitShownIsReal`
(`OneWayProfitExact`) needs what the books say of every position that was built up and then only reduced,
flat ones included (`ProfitInv`): BuyQty is what was bought, the average times that quantity is within
half a paisa per share and trade of what was paid (`Close`), and the realized profit is what the sells
brought less the average for each share sold; the same with the sides exchanged for a short position.
One rounding adds at most half a paisa per share (`RoundError`, `AverageStaysClose`); in the profit
shown everything cancels but the error of the average.

**Journal.** `JournalInv`: trade ids count up in each life and trades travel in order (`Ordered`), the
list shows the trades of this life (`Listed`), an order's job and then its row exist once it is saved
(`OrderJobs`), each trade's fate is decided by what stands before it in the queue (`TradeJobs`), a
billed order was executed in full (`Billed`), and, if the last settlement ran alone and met no error,
the figures it read balance and are written for every client it has passed (`Balanced`). From it the six
theorems of `JournalProofs`.

**Hub.** `Safe` follows a client through its life (`Lifecycle`): one that is in the map, or whose
register is still on its way, has an open channel; a channel is closed only because its client was slow
or its read pump has ended, so `OnlySlowClientsPanic`. `StreamHasNoGaps` adds what each goroutine does to
the stream of messages of one client (`Flow`, `Stream`).

Only model-checked: liveness (`ComesToRest`, `ReachedIsServed`, `GoneIsForgotten`), which is out of
the prover's reach. Every invariant and action property of the passing runs is also a theorem.

## 5. Not modelled

- HTTP handlers, JSON, routing, log messages: conversions around the modelled operations.
- Fetching quotes from Yahoo and simulating them: I/O and random numbers. A price is any price.
- `Engine.Stop`, the risk engine's own accounts, Redis' GTT index and rate limiter, the writer's
  `UpdateOrderAsync` and `LogMarketDataAsync`, `DB.Close`: never used by the server.
- Readers that decide nothing: market depth, book statistics, position summaries, trade history and
  the other report queries, `ConnectedClients`.
- Redis' indexes by client and by symbol and the expiry of trades after seven days: nothing that the
  models decide reads them.
- `upsertPosition`: it writes what `Positions` hands over. Positions share `writeCh` with orders and
  trades; their effect on `Journal`, a fuller queue, is had there by a queue of two places.
- Postgres' pool of 25 connections: a settlement holds one for its rows while it asks for another for
  each client, so 25 settlements at once would wait for each other.
- `InitAccount` failing at a start: the server then serves with the old account.
- Torn slice headers: undefined behaviour that no list of outcomes describes.

## 6. Plan

1. `Matching` and `Oms` composed, so that a cancellation's steps in the book and in Redis interleave
   with a pass.
