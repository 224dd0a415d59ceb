# Marketimmune in TLA+

Formal models of the parts of Marketimmune whose correctness depends on the
order in which things happen: the order book and batch engine that replay
Hyperliquid blocks; the paper-trading engine that decides on one clock and is
filled on another, its feeds and its recording; the browser's feed and its
labels; the lake's backfills and the service that scores them; the book rebuilt
from an archive and the simulator that trades on it. TLC checks them on small
instances; TLAPS proves the central invariants and three refinements for every value of the
constants.

    tlc -config MCOrderBook.cfg MCOrderBook      # a run
    tlapm PaperMakerProofs.tla                   # the proofs of a module

Paths below are relative to the repository.

## 1. The system

| Component | State it keeps | Operations | How it interacts | What is hard | What makes it correct |
|---|---|---|---|---|---|
| **Replay order book** `crates/hl-replay/src/book.rs` | slab of nodes, free list, index, levels per side with head, tail, count, cached total | `add`, `cancel`, `reduce`, `take` | called by the batch engine and by callers that follow recorded diffs | two copies of the unlink bookkeeping, slots reused out of order, a take that empties levels and expires own orders on the way | price-time priority; a queue position is never lost or gained; links, totals and index always agree |
| **Batch engine** `crates/hl-replay/src/engine.rs` | output buffers, the book | `apply_batch`: post-only, cancels, takers | drives the book | class order against proposer order, ids that return, partial fills | the book never crosses; a cancel beats the block's takers; the report accounts for every lot; a batch ends |
| **Paper maker** `marketimmune/paper/{orders,engine}.py` | its orders, the current order per side, position, fill log | `decide`/`place`, `on_top`, `on_depth`, `on_trade` | `Engine.handle` feeds it events, `Engine.evaluate` asks it to decide | decisions on local time, fills on block time; two orders of a side overlap in flight | no order forgotten, none live twice, a trade fills once, overshoot bounded |
| **Market maker and risk** `engine.py`, `mm.py` | pending exit, entry and open time, cool-off, `Portfolio` pause and peak, venues last heard | exits, kill switch, `pull`, `absorb` | `Engine.tick` marks the portfolio and pulls quotes | an exit in flight races maker fills; four reasons not to quote | an exit never overshoots; quiet periods are quiet; quotes go when a feed dies |
| **Engine, coins, budget** `engine.py` | makers and takers by coin, last evaluation, receive times | `handle`, `room`, `tick` | coins share the budget, nothing else | the budget is read against positions while several coins quote | gross exposure bounded; coins otherwise independent |
| **Paper taker** `engine.py:389` | pending entry or exit, position | `decide`, `on_top` | as the makers | as the exits above | one order in flight, position within its size |
| **Quoters and signals** `strategies.py`, `signals.py`, `immune.py`, `optimal.py` | rolling statistics | `quotes`, `targets` | asked by `decide` | numeric | stops at its position limit |
| **Live feeds, clock, replay** `live.py`, `events.py` | sockets, backoff, clock offset and target, Coinbase books and sequence, one file per venue | `hl_feed`, `cb_feed`, `Clock.observe/step/now_ns`, `RawWriter`, `raw_lines`, `replay` | call `Engine.handle` and `tick` in one event loop; the replay reads what they wrote | reconnects repeat trades and lose books, clocks drift, a crash cuts each file elsewhere | a reference is read from a whole book; time never runs back nor leads; a replay is the run |
| **Browser feed** `frontend/src/market/feed.ts`, `lib/regret.ts` | socket, windows since the last connect, seen trades, waiting and labelled fills, tape | `connect`, `resetAfterGap`, `onBook`, `onTrades`, watchdog; `add`, `onMid`, `dropPending` | one socket carries books and trades in no common order; the tracker is called by both | silent stalls, replayed trades, late trades and late mids | a label is the mid of its horizon; each trade once; no book of before a gap; a stall is noticed |
| **Recorder** `deploy/recorder/record.py` | hourly files, gap log | `run_feed`, flusher | two feeds, one stop event | drops between the gap records | every gap is logged |
| **Decision service** `server/api/services` | decisions by fill and model, run records | refresh, staleness test, upsert, backfill jobs | HTTP requests and jobs on one database, one lake, one model directory | failures and kills in mid-refresh, overlapping refreshes, promotions | no model's decision overwritten by another's; the newest partition is served before long |
| **Lake backfill** `marketimmune/lake` | partitions by coin and date, contexts by date, coverage file | `run_backfill`, `write_parquet_records` | several runs on one lake, with the same temporary names | kill between writes, other hours, concurrent runs | recorded hours have their artifacts, or a run that replaces them is on its way |
| **Rebuilt book** `sources/albers_l4.py`, `cli/build_albers_silver.py` | orders, levels, last row, warm-up | `drop_replayed`, `split_at_gaps`, `replay_hour`, `_close_blocks` | archive of statuses in, rows and order events out | the archive repeats and misses stretches; orders reopen; triggers rest or trade | the book is the exchange's, order by order |
| **Block simulator** `marketimmune/sim/engine.py` | live order, target, pending actions per maker and side | `_act`, `_level_event`, `_fill`, `_drop_all`, the decision at a row | replays a day of the rebuilt book | actions land a delay after the decision, between rows | target names what is live or on its way; nobody is filled out of turn |
| **Forced flow, priority, labels, features, models, serving, sources, command lines, pages** | tables | pure functions and downloads | files | floating point | out of scope: numeric or presentation code with no interleaving |

`PROJECT.json` lists every component with its status, and every place where the
code is exposed to such a hazard, with the property that covers it.

## 2. The modules

    OrderBook ----------- BatchEngine            PaperOrders
    :    |    \                 |                    |
    : PriceTimeBook <.. OrderBookPromise         PaperMaker <.... PaperDesk
    :                           |                    |                |
    SlabBook            BatchEngineProofs        MarketMaker          |
      |                       |                      |                |
    SlabBookProofs -------- Sums   Sums -- PaperMakerProofs <.. PaperDeskProofs -- Sums

    RegretTracker    PaperFeeds -- PaperFeedsProofs    LakeBackfill    AlbersBook
         |                                                  |              |
     MarketFeed                                      DecisionService   SimMaker
         |                                                  |
     MarketFeedProofs -- Sums                     DecisionServiceProofs

A line is an EXTENDS, a dotted one an INSTANCE: of the book for what it promises and
for the slab that stores it, of a maker for each coin of a desk.
`Sums` holds what the proofs know of sums over finite sets. The theorems of
`OrderBook` and of `OrderBookPromise` are in `BatchEngineProofs`, which goes on from them.
Each `MC*` module gives one of them its model values and menus; every `.cfg`
is one run.

### OrderBook
The book as its callers see it. `resting` maps an order id to its wallet, side,
price and size; `ahead` is the set of pairs *p stands before o* within a
level. `taker` is the `Book::take` in progress: the Rust loop becomes one step
per maker it meets (`ExpireOwn`, `FillWhole`, `FillPart`), which lets the
properties look at the book inside a take. `fills` and `expired` are the
caller's `MatchOut`; they are cleared when the caller takes the result, since
the caller owns them. `Key` is the code's sort key, `-tick - 1` being the two's
complement of `!tick`. The code's panics (adding a resting id, growing an order
in `reduce`) are guards: the callers check first.

### PriceTimeBook
The promise: a taker is one step, and what each maker gives is computed in
closed form from the volume that stands before it. It is the naive `RefBook`
of `tests/proptest_book.rs` without its loop. `OrderBookPromise` maps a take in
progress to its final result, so each turn of the code's loop must be a stutter
of the abstract book.

### SlabBook
The same operations with the pointer work of the code: slab, free stack,
doubly linked queues, cached totals. Slots are numbered from 1 and 0 is `NIL`.
A freed slot keeps its stale contents, as in the code. `take` pops heads with
its own bookkeeping (`PopHead`) and not with `Unlink`. `Resting` and `Before`
read the store back as the orders and the queues it stands for: a slot stands
before those its `next` links reach. `OB` is `OrderBook` over what they read, and
the run checks `OB!Spec`. In `FillHead` and `ExpireHead` popping the head and
removing an emptied level are one step: the borrow is held throughout and
nothing can look in between.

### BatchEngine
`apply_batch` on an `OrderBook`: `pass` and `pos` walk the batch three times,
`statuses` are the report. Every branch of `apply` is an action. `opening` is a
history variable, the book a batch found, for `ReportAccounts`, which compares the
report's three parts in both roles of an order: as maker, book and statuses against
the fills it gave; as taker, the lots of its statuses (`Filled`, `Resting`,
`IocCanceled`) against the fills that name it. Between
batches the caller reads the report and hands over the next one.

### PaperOrders, PaperMaker
`PaperOrders` holds what a decision, a book message and a trade do to a set of
paper orders, without variables, because three modules use it. `PaperMaker` is
one `Maker` in one coin driven by `Engine.handle`: a Hyperliquid top updates
the queues and evaluates, a Coinbase top only evaluates, depth updates queues,
a trade fills. A decision is skipped within `EvalMs` of the last one.

* An order is named by side and local placing time: a maker decides at most
  once a millisecond (`EVAL_MS` > 0), so the name is unique, and `current[side]`
  becomes the time of the order it refers to. A filled order leaves `orders`
  (as in the code, `on_trade` filters it) and `current` dangles, which is the
  `cur.qty <= 0` that `place` looks for.
* `BlockTimes`: a message carries a block time up to `Lag` behind the local
  clock, in any order. The code orders nothing between channels.
* The quoter is every strategy that stops at its position limit, as
  `strategies.capped` and `mm.targets` do: `Wants` is the set of all its answers.
  `Rooms` are the answers `Engine.room` may give.
* `SeenSizes` stands for the latest book kept in `CoinState`: the size a trade
  reads there for an order that has seen no message yet may be any the book
  messages showed, or none.
* `fills` is what the latest message added to `Account.log`.
* The model starts when the coin has had its first top (`_start_coin`).

### MarketMaker
`PaperMaker` with the risk layer: the pending taker exit, the hold timer, the
cool-off, the kill switch's pause, the receive time of each venue, and
`Engine.tick` (`Tick100`), which may trip the kill switch and pulls the quotes
when a feed is silent. Whether a stop or the kill switch trips depends on
prices; here it may at any evaluation or tick. The position, the open time and
the pending exit change before the decision of the same message, as
`Engine.handle` calls them.

### PaperDesk
One strategy in several coins. `Room` is the budget less the other coins'
positions; every mid is 1. `CoinsAreMakers` states that each coin is a
`PaperMaker` with rooms in `0 .. Budget`.

### RegretTracker, MarketFeed
`RegretTracker` is the class of `regret.ts` as operators on a record: fills that
wait sorted by due time, the mids kept, the labelled fills of the statistics
window, and the fills whose mid came too late. A mid, a label and a book are
named by the venue's time of the book. `MarketFeed` is `feed.ts` with one
socket:

* The venue prints a book or none at every instant and the trades of
  `TradeTime`. What it sends waits in `books` (in order) and `trades`; a message
  of trades is the oldest of them (`Messages`), and the two channels overtake each
  other; `Told` is the code's loop over such a message. A new subscriber gets the
  newest book and the recent trades (`Recent`): at most `Replayed`, whole instants,
  and no more than the memory of ids still holds when it has just forgotten a
  batch (`FeedAssumption`; the code then holds 4001).
* The socket is `connecting`, `open`, `closing` (the watchdog called `close`) or
  `waiting` (for the reconnect timer). It can break at any time, and it can
  stall: it stays open and nothing comes.
* Two clocks meet in the code, the venue's and this machine's. The timeouts of
  the watchdog belong to the second and are the flags `bookOld` and
  `pongMissing`, raised at any time.
* `HearBook` and `HearTrades` are `onBook` and `onTrades` whole, with what they
  call: the tracker, `forget`, the tape, `refreshStats`, which is skipped when
  it ran just before (`Refreshed`).
* `scoredOn` is the book a trade was scored on. Whether it has a model, a
  context and finite features is free (`able`).

### PaperFeeds
The event loop of `run_live`: `hl_feed`, `cb_feed` and the tick loop. What runs
between two awaits is one action. `Clock` has all its fields; `now` is
Coinbase's time, `Wall` this machine's: it is ahead by `skew`, which an instant
may change by a member of `Drifts`. A delay may be below `Floor` or above it.

* A Coinbase book is the set of changes it holds, so that a missing one shows.
  `CbLoses` is a message that never comes, be it the first of the connection. The
  sequence gap that a later one leaves ends the connection in `HearCb`, as the
  failing assertion does; a connection can end in any other way too (`CbDrops`).
* `lines` is the recording in the order of the live run, each line with what the
  engine got from it. `Replay` reads it back as `raw_lines` and `replay` do: the
  files merged by time, equal times in the order of the file names, from what a
  crash left (`Cuts`). `Heard` are the lines from before anything that is missing.
* Three history variables let the properties say how far they hold: `headless` (this
  connection's first message was lost), `broken` (a connection was lost that no gap
  ended; a line keeps both as they were), and `basis` (the skews of the samples that
  the offset rests on: the window's, and older ones until the offset meets its target).

Connection times, backoff, retimed and re-clocked replays are left out: they
change when things happen, and that is free here.

### LakeBackfill
Runs of `run_backfill` over one lake and one date, write by write. A partition
is opened under a temporary name beside its target (`Opens`), and renamed over
it (`Publishes`); the temporary name does not tell runs apart, so a second run
empties the first one's file, or finds it renamed away (`FindsNoFile`). A run
fails or is killed at any step (`Stops`) and leaves what it published. Contents
are named by the request they were built from; asset contexts belong to the
date and are the same from every request. Bronze and silver fills and the
markouts, which a coin-day has or has not together, are one artifact. An
artifact without records is skipped: a run has left what its request yields
(`Yields`), and writes it in the order of the code (`Place`, `NextUp`). Two
history variables belong to the properties, and start anew when hours are recorded:
`disturbed` (runs of the coin-day overlapped, or a file that two runs wrote at once
was published as one of its own) and `begun` (the requests of the replacing runs that
have published a file). A replacing run that is killed half way is in `begun` and
disturbs nothing.

### DecisionService
`LakeBackfill` with its callers: `run_hyperliquid_backfill_job`, which refreshes
after a run that wrote training rows, and API requests, which refresh when
`_stale` says so. A refresh is three actions, what the code does between its
reads and its transaction: the partition is looked up and the model loaded
(`Begins`), the partition read (`Scores`), the decisions upserted under the
digest of the model file as it is by then (`Persists`). Any of them can fail, the
process can be killed, models are promoted at any time. The run records are not
state of the model: nothing reads them but the page that shows them.

### AlbersBook
The book of one coin rebuilt by `replay_hour` and `_close_blocks`, block by
block, from two streams: statuses say when, the `new` book diffs which orders rest
and at what size (`RestSize`; `rested` is the hour's diffs, which `build` reads
before its statuses). An `open` carries the size submitted, also if the order trades
on entry (`OpenTrades`): then it has no diff, or one of what is left of it. The
exchange and the archive are external and only as rich as the code's comments say:
HyperCore's order of classes inside a block, sweeps in price-time order, modified
orders that open again under their id, triggers that have a diff from their placement
and rest or trade, an archive that jumps back and repeats a stretch (`Windows`) or
misses more than a gap (`Misses`). `DropReplayed` leaves what is in time order alone,
as `drop_replayed` does. `mbo` are the events of the block. `RebuiltBook` compares the
book with the exchange's own list.

### SimMaker
`sim/engine.py` on the rows and events of `AlbersBook`: `Block` is one turn of
the loop of `_Sim.run`. There is a maker for each queue model (`fifo`,
`risk_averse`); both are asked the same quotes, any choice from `Wanted`, which
covers every strategy of `sim/strategies.py`. An order carries `sure`, a history
variable: the row it was placed by was the book's top and every post-only order
of its level was told.

## 3. The runs

| Run | Instance | Shows |
|---|---|---|
| `order_book` | 3 orders, 2 wallets, 2 prices, sizes to 2, symmetric ids and wallets | `QueueOrder`: each level's queue is a strict total order. `PositionsKept`: whoever stays on the book keeps everyone ahead of it. `PriceTimePriority`: the implementation of `PriceTimeBook` |
| `batch_engine` | a menu of 9 actions, batches of up to 3, batches for ever | `NeverCrossed`, `CancelBeatsTaker`, `ReportAccounts`, and `BatchEnds` under fairness |
| `slab_book` | 3 ids, 3 kinds of order, 3 kinds of take | `LinksConsistent`, `TotalsCached`, `SlotsAccounted` (the code's `check_invariants`, and inside a take too), `RefinesOrderBook` |
| `paper_maker` | sizes of 2, latency 1, delay 1, six instants | `NoStrayOrder`, `OneLivePerSide`, `TradeFillsOnce`, `PositionBounded`, `OrdersOnlyShrink` |
| `market_maker` | timers of 1 and 2 evaluations, five instants | `QuotesGoBeforeExit`, `ExitEndsFlat`, `HeldSinceOpened`, `QuietPeriods`, `NoStrayWithPulls`, `OneLivePerSide` with pulls |
| `paper_desk` | 2 coins, budget 2, three instants | `GrossBounded`, `CoinsAreMakers` |
| `market_feed` | 3 trades, horizon and lag 1, window 3, five instants, memories of 2 | `LabelIsHorizonMid`: a label is the first mid printed at or after the horizon, in time. `CountedOnce`, `NoOrphanOnTape`, `ScoredBeforehand`; `StallNoticed` under fairness |
| `paper_feeds` | clock 2 ahead and drifting by 1 an instant, up or down, between 1 and 3 (`MCDriftBound`); delays of 0 and 2 around a floor of 1, slew 1, window 2, one lost connection, any message lost, five instants, every cut | `RefIsTheBook`: a reference is read from a book without a hole. `ClockSound`: never back, and no further off than the samples explain. `ReplayIsLive`: what was heard before the cut is given again, line by line |
| `decision_service` | 2 coins of a date, 3 runs (one replaces, one refreshes), 1 page, 2 models, 2 runs at once, 1 failure or kill | `CoverageTells`: each artifact of the recorded hours is theirs, or that of a replacing run whose hours are not recorded yet. `DecisionsTell`; `ServesNewest` under fairness |
| `sim_replay` | 3 order ids, 3 prices, sizes to 2, rows of one level, delay 2, gap 2, five blocks of up to 3 statuses | `RebuiltBook`, `QueuePlaceKept`, `TargetTells` |
| `dead_mans_switch` | as `market_maker` without a hold | **violated**: `PulledAtOnce` |
| `desk_budget` | 2 coins, budget 1 | **violated**: `GrossWithinBudget` |

Each property of a passing run is known to fail on a changed code: the operators
commented "Not the code" are these changes, and `PROJECT.json` ("mutants")
says which property notices which.

### Bounds, and why they are enough
* `Oid` of 3: the smallest number with a middle to unlink, a slot freed out of
  order and a level of two behind one that is being emptied. `Tick` of 2: a best
  level and one behind it. `MaxLots` 2: whole and partial fills.
* `MaxBatch` 3: one action of each class in any proposer order, or two that
  meet in a class, on a book that earlier batches built.
* `Horizon`: the last local time. An order's life is a latency in and a latency
  out; `PaperMaker` has room for a replacement of a replacement while the first
  is still fillable. Time stands still at the horizon and the events go on, so
  nothing deadlocks there and no liveness is claimed for these modules.
* `Lag` and `Latency` of 1 or 0 with `EvalMs` 1: the ratio of the three is what
  matters, one decision per latency; the live engine has ten.
* `Never` is any number beyond `Horizon + Latency`.
* `Rooms`, `Tops`, `Depths`, `Trades`: a queue and none, a trade at the price,
  through it, and away from it, of one and two units. The market maker's and the
  desk's instances have empty queues: what is ahead of an order is
  `PaperMaker`'s question.
* `market_feed`: `HorizonMs`, `MaxLagMs` 1 and `WindowMs` 3 put a mid before, at,
  in time for and too late for a fill, and a fill out of the window. Memories of
  2 (`TapeLimit`, `SeenLimit`, `BookHistory`) overflow with three trades. What the
  venue repeats must fit in what is remembered (`FeedAssumption`): the code keeps
  at least 4000 ids, the venue repeats far fewer.
* `paper_feeds`: the first correction is at once, so a clock that is ahead stands still
  and lines of several venues share a stamp; later the target moves by up to 3 between
  samples against a slew of 1, so the offset follows over several ticks while the window
  of 2 forgets samples and the clock drifts on. With `MaxDrops` 1 there is a first and a
  second connection, the first ended by a gap or without one, either of them with or
  without its snapshot.
* `decision_service`: `AtOnce` 2 overlaps every pair of runs; `MaxStops` 1 leaves
  one thing half done at any step, on top of what runs do to each other; a request
  of an hour in which nothing traded has no training rows, one of a day without
  asset contexts lacks that artifact.
* `sim_replay`: `Delay` 2 puts a block between a decision and its landing;
  `Depth` 1 leaves levels that no row shows; `MaxTotal` 3 statuses after the opening
  ones are a post-only order in front, a modification and a fill, a trigger and its
  trades, or an order that trades on entry and the maker it meets; `MaxRecords` is as much
  in one block. Random traces of a larger instance (5 orders, 4 prices, rows of two
  levels, both sides, thirty statuses in up to twelve blocks, a warm-up, crossing fills;
  some nine million states) showed nothing more.

### Fairness
`apply_batch` is a plain function: once called, it runs until it returns. So
`FairEngineSpec` has `WF(Run)`, weak fairness of the steps inside a batch, and
none for the callers. `BatchEnds` (every batch is done) needs nothing more: each
take consumes lots or orders, each pass advances. `MarketFeed` assumes what the
browser gives: its timers fire (`EverySecond`, `Reconnect`), time passes on this
machine while no book comes (`BookAges`), and a socket that was closed reports it
(`Closes`). Nothing is assumed of the venue: the connection may break before it
opens, each time, so `StallNoticed` claims only that another is tried.
`DecisionService` assumes that the page keeps asking (`WF(Asks)`; its age test is
not needed) and that a refresh which is tried again and again is not killed every
time (`SF(Scores)`, `SF(Persists)`); failures are bounded by `MaxStops`. The other
modules claim no liveness: a paper order may rest for ever if no trade comes.

### Where the code and its documentation disagree
* **The dead man's switch is not at once.** `mm.py:31-32` has the quotes
  cancelled "at once" when a feed has been silent for `stale` seconds, and
  `pull` (`engine.py:321-322`) cancels "every live order by `deadline_ms`". `pull`
  reaches only what `current` names. If the other feed triggers an evaluation
  between the deadline and the next tick, `blocked` already makes `place`
  cancel with the maker's latency and clear `current`; the pull then touches
  nothing and the quotes can fill for a latency longer. Quotes replaced just
  before are missed in the same way. What does hold is `NoStrayWithPulls`.
* **The budget does not cap the gross exposure.** The test
  `test_budget_caps_gross_exposure_across_coins` and the pre-registration
  ("a $5,000 budget of gross exposure") read as a cap. `Engine.room` counts
  positions and no quotes, so coins quoting into the same room can fill
  together. What does hold is `GrossBounded`: the budget and what the coins
  have in flight.

The properties of the other modules say by a named condition where the code does not
keep what its documentation says; without the condition TLC finds each of these.

* **A reference can come from a book without a snapshot** (`RefIsTheBook`,
  `headless`). `CoinbaseBooks` (`events.py:138-139`): a gap raises, "so the caller
  reconnects and starts from a fresh snapshot". The assertion (`events.py:149`) has
  nothing to compare a connection's first message with; if that is the one lost, the
  updates make a book of their own.
* **A replay can differ from its run** (`ReplayIsLive`, `broken` and `Ties`), against
  `live.py:7-10` ("every decision the live run made, in the same order"). *After an
  ordinary reconnect* the replay, which is not told, meets the next connection's first
  sequence number as a gap and drops that message, the snapshot perhaps, where the
  comment at `live.py:401` supposes that the gap is the one the live run met. *At
  equal stamps*: while a fast clock waits for Coinbase's, the corrected time stands
  still, and the merge takes the lines of several venues that carry the same stamp in
  the order of the file names.
* **The coverage can tell of other hours than the partitions have** (`CoverageTells`,
  `begun`), against `tables.py:73` ("the hours a coin-day's partitions were built
  from"): a replacing run leaves the old coverage in place until it is done, so a kill
  before that leaves the old hours recorded over new partitions.
* **A run does not replace what it does not write** (`CoverageTells` is about the
  artifacts that the recorded hours have), against `backfill.py:7-8`: empty artifacts
  are skipped (`backfill.py:82`), so after a day is replaced by an hour in which
  nothing traded, the day's training rows stay under the hour's coverage.
* **Overlapping backfills can publish half a file** (`disturbed`), against
  `tables.py:87-88`: the temporary name is the same for every run, and one for all
  coins of a date for the asset contexts.
* **A decision can be credited to another model** (`DecisionsTell`, `swapped`), against
  `markout_decisions.py:101-102`: the digest is read after the model was loaded and
  has scored.
* **A queue place can be counted from an old level** (`QueuePlaceKept`, `sure`),
  against `sim/engine.py:15`: no row is given while the book shows one side, and a
  post-only order beyond the shown depth is in no event of its block. For the same
  reason the `level` of a `risk_averse` order drifts from the size it stands for.

## 4. What is proved

For every value of the constants under the modules' named assumptions
(`BookAssumption`, `SlabAssumption`, `EngineAssumption`, `PaperAssumption`,
`MakerAssumption`, `RiskAssumption`, `TrackerAssumption`, `FeedAssumption`,
`FeedsAssumption`, `LakeAssumption`, `ServiceAssumption`; TLC evaluates them in
the runs):

* `BatchEngineProofs`, of the book: `BookTypeCorrect` (`TypeOK`) and
  `QueuesStayOrdered` (`QueueOrder`). The order is its own inductive invariant
  once the types are known: an insertion puts the order behind exactly those of
  its level, a removal only takes pairs away. `PlacesAreKept` (`PositionsKept`) is
  a fact of the steps and needs no invariant. `TakesKeepPriority`
  (`PriceTimePriority`): the book implements `PriceTimeBook`. Starting a take is the
  abstract step, returning hands back its result, and every turn in between must
  leave the promised result alone. A maker that gives all it has (`WholeTurn`) goes,
  and the taker with it shrinks by what it gave, so every maker behind it is left the
  same number of lots (`OffLeft`, by a sum over what stands before it) and gives the
  same (`OffMet`): the result of the smaller take on the smaller book is the result
  promised, less one report. A maker that gives less (`PartTurn`) is the last that is
  met. The order of the reports is by how many orders precede each (`InTurn`); that
  this names one order for each place (`TurnsAreOf`), the maker in turn for the first
  (`FirstInTurn`), follows from the queue's strict order. `PromiseInv` adds to the
  book's invariant that the book is finite and that nothing is reported between calls.
* `BatchEngineProofs`, of the engine: `EngineTypeCorrect`, `BookNeverCrossed`,
  `CancelsBeatTakers`, `ReportsAreComplete`. `NeverCrossed` alone is not
  inductive: in the middle of a take the taker's remainder is about to rest.
  `EngineInv` adds what the engine knows of the taker in hand (its limit, its
  wallet, that its id is not resting), that no taker of the batch has rested
  before the last pass, that every fill so far names a taker of this batch, and
  that every cancel behind the cancel pass has left its order off the book unless
  a taker rested under that id since. `ReportInv` is the report's account of makers (`MakersAccounted`), which holds
  after every single step and not only at the end of a batch, with what makes it
  inductive: an action whose turn has not come is reported as nothing yet
  (`WaitingUnreported`), so its status is counted once, and only orders are
  reported as resting (`OrdersRest`). `TakerInv` is its account of takers: within a
  take the fills that name the order in hand are ahead of its statuses by what it has
  taken so far (`TakeInv`), and the status that ends the take catches up.
* `SlabBookProofs`: `LinksTheorem`, `TotalsTheorem`, `SlotsTheorem` (the code's
  `check_invariants` in three parts) and `StoreIsBook` (`RefinesOrderBook`), for any
  orders, takes and number of slots. None of the three parts is inductive: that
  unlinking a node leaves the rest of its level linked needs to know that the
  index, the levels and the queues speak of the same slots. The invariant
  `SlabInv` therefore says that there is a queue of slots for every side and key,
  from which head, tail, count, links, running totals and index are read off
  (`Good`), and that all other slots are free, once. Every operation is a push at
  the back, a cut from anywhere or a smaller order in place, and each of the three
  has its lemma. With it each step of the store is the step of `OrderBook` of the
  same name: that a take meets the orders of a level in the order of its links is
  what `Before` states and the refinement proves.
* `PaperMakerProofs`: `OrdersTypeCorrect`, `NoOrderStrays`,
  `OneLivePerSideAlways`, `TradesFillOnce`, `OrdersShrink`, `PositionsAreBounded`,
  for every latency, delay, evaluation interval, quoter and room. Messages and
  trades leave the times of orders alone and only take from their sizes and
  queues (`Meek`), a decision gives the order it replaces a cancel time no later
  than the live time of its replacement (`Steered`). One live order per side then
  gives one fill per trade, because a trade meets one side only.
  `PositionsAreBounded` (`PositionBounded`) counts: `BoundInv` says that the
  position and all that the orders of a side can still fill (`MayFill`) stay within
  the limit and one order for each decision of the last latency and delay. Orders
  of a side are sent `EvalMs` apart (`Spaced`), and one can fill until no late trade
  is before its cancel time any more, so that at most `InFlight` besides the current
  one can (`FewOut`, by the pigeonhole). It needs
  the rooms to be bounded (`MakerAssumption`), which any budget does.
  For `MarketMaker`: `NoOrderStraysWithPulls`, `OneLiveWithPulls`, `ExitsMeetNoQuote`, `PausesAreQuiet`, `TimerFollowsPosition`, `ExitsEndFlat`: all
  that `market_maker` checks, for every latency, timer, quoter and room.
  `RiskInv` is `Steered` with a later bound (`Gone`: an order that is no longer
  steered leaves by a latency after the last decision, or by now, if a pull told it
  to), with `QuotesGoBeforeExit` and `QuietPeriods`: while an exit is pending
  nothing is steered, so a blocked decision cancels nothing and moves no cancel
  time. `HoldInv` adds the position. That it stays a number needs `RiskInv`: a
  trade fills one order at most, and the sum over one element is unfolded by hand
  (`BoughtOfOne`).
* `PaperDeskProofs`: `GrossIsBounded` (`GrossBounded`), `DeskOfMakers`
  (`CoinsAreMakers`), for any finite set of coins, budget, position limit, latency,
  delay, evaluation interval, tops, depths and trades (`DeskAssumption`). The gross
  exposure is not inductive: fills in other coins shrink a room under orders that
  are already out. `ExcessInv` is: what a coin holds and its orders of one side can
  still fill, beyond what can be on its way at once (`Excess`), summed over the
  coins, is at most the budget less one order. A fill moves lots from what can fill
  to what is held. A decision adds to what its coin may hold only when one more order
  fits the room, and the room is short by what the others hold, so by their
  excess (`SumGap`). With a budget below one order's size no coin ever quotes
  (`Idle`). What is said in `PaperMakerProofs` of any orders, and not of the
  maker's variables, is taken from there for each coin's orders (`P == INSTANCE
  PaperMakerProofs`); that is why its lemmas are stated that way. Every step of the
  desk is, in a coin's own variables, a step of `PaperMaker` with some room in
  `0 .. Budget`, or leaves them alone: that is `DeskOfMakers`.
* `PaperFeedsProofs`: `ReferenceIsWhole` (`RefIsTheBook`), `ClockIsSound`
  (`ClockSound`), `ReplayFollowsLive` (`ReplayIsLive`), for every skew, drift, slew,
  window, floor, set of delays and number of lost connections. `BookInv`: a book that
  missed no message since the first it heard holds every change since then, and all of
  them if that first one was the connection's; once one is missed, the next sequence
  number shows it. `ClockInv`: a target is a sample's, so the offset, which starts at a
  target and moves only toward targets, lies between two values that samples of its
  basis explain; a stamp is as far off as the offset, or held. That the least of the
  window exists is the well-foundedness of `Nat`. `ReplayInv`: there are books, one for
  each line, that a replay of all lines would have and with which it gives what was
  given live, until a connection was lost that no gap ended. Of what a crash left, the
  merge is by a strict order that agrees with the live run's on the lines of one file
  and on lines of different times (`MergeIs`, `HeardPlace`): when it comes to a line of
  Coinbase's that was heard before anything missing, it has heard just the lines of
  Coinbase's from before it, and has the live run's books (`HeardBefore`,
  `OneMoreGiven`).
* `MarketFeedProofs`: `LabelsAreRight` (`LabelIsHorizonMid`), `TradesCountOnce`
  (`CountedOnce`), `NoOrphans` (`NoOrphanOnTape`), `ScoresComeFirst`
  (`ScoredBeforehand`), for any trades and books, any
  horizon, lag and window, and whatever is lost, late or sent again. `FeedInv` has
  a part for each reason. `BooksInv`: the mids kept are a stretch of those printed
  with none missing between them, and what the socket still carries comes after.
  `LabelInv`: a fill that waits is due after the last mid kept, so the first mid
  that reaches it is the next one printed; a late fill finds its mid in the stretch;
  a gap empties both. `SeenInv`: a trade that was counted is remembered, or so old
  that the venue does not repeat it (`Old`); any other trade the socket carries is
  later than all that is remembered (`News`). The memory forgets its oldest only,
  and then still holds as many later ones as the venue repeats: this is where
  `FeedAssumption` is needed. `OnceInv` says that who waits is not labelled too.
  The loop of `onTrades` keeps a statement about the trades taken so far
  (`LoopGood`), by induction over the length of the message. `ScoreInv` is for the
  scores: the history and the socket hold no book of before the first of the
  connection, and a trade with a score is remembered or too old to come again, so
  that it never gets another, nor loses it.
* `DecisionServiceProofs`: `RecordedHoursTell` (`CoverageTells`),
  `KeysTellTheModel` (`DecisionsTell`), for any runs, coins, requests, pages,
  models, kills and failures. `LakeInv`: a run that is still alone has written all that
  it no longer has left, and found its own hours recorded unless it is one that replaces
  them (`Alone`); it records its hours last (`Working`). Until then what a replacing run
  puts in the place of recorded hours is in `begun`.
  `DecisionInv`: a loaded model is the promoted one unless the refresh was
  overtaken (`LoadedIsPromoted`).

What stays with TLC:

* Liveness: `BatchEnds`, `StallNoticed`, `ServesNewest`.
* Folds over a batch or a history, each of which the provers need unfolded by hand:
  `RebuiltBook`, `QueuePlaceKept`, `TargetTells`.

## 5. What is left out

* Cash, fees, entry price, the journal, statistics, dashboards: nothing of them
  returns to trading except through stops and the kill switch, which are free.
* Floating point: prices are ticks, sizes are units; the tolerances the code adds
  (`1e-9 * qty`) stand for equality.
* Duplicate delivery to the paper engine: after a reconnect Hyperliquid repeats
  recent trades, `parse_hl` drops only those older than its limit, and nothing in
  the code tells a repetition from another trade: an order that was live at the
  time of the trade, and still is, fills again. `PaperFeeds` records a repeated
  trade as the new line it is; what it fills is not asked.
* Of the browser's feed: candles, contexts and REST answers, the order-flow
  features. They reach a score through `able`.
* Of the paper feeds: retimed and re-clocked replays, connection times and backoff.
* Of the lake and the service: dry runs, the parsing of hours, and the leakage
  report, which is written in place (`backfill.py:10` says that every file is renamed over).
  A job or refresh that was killed leaves its record "running" for ever; nothing
  but a page reads it. A promoted model makes no decision stale: the old model's
  are served until they age or another partition comes.
* Of the rebuilt book: a triggered order that trades in part and rests the remainder.
  A limit order that trades on entry meets one order only, and its remainder logs no
  `filled` of its own behind its `open` (if the archive does log one, the code tells a
  fill of size 0, which puts a `fifo` order at the front). An order that opens again has
  not traded, so that its diffs have one size (`merge_rested` keeps the last). The diffs
  of an order lie in the hour of its status or before. An archive that jumps back across
  an hour's end repeats no status of the newest block, whose copies the code keeps
  (`test_albers_l4.py:178-179` keeps one of the newest time).
* Of the simulator: positions, the list of results, the strategies' numbers.
* Not modelled: the paper taker, which has one decision pending at a time and shares
  with the makers of its coin nothing but the evaluation clock; the recorder, which appends what it hears to files and a gap log. The numeric pipelines
  (features, labels, models, serving, forced flow, priority fees, data sources)
  and the command lines and pages run alone on tables: nothing in them interleaves.

## 6. Plan

In the order of what matters most to the program:

1. *(done)* `OrderBook`, `PriceTimeBook`, `SlabBook`, `BatchEngine` and their
   first theorems.
2. *(done)* `PaperOrders`, `PaperMaker`, `MarketMaker`, `PaperDesk`; theorems of
   `PaperMaker`.
3. *(done)* `RegretTracker` and `MarketFeed`; `PaperFeeds` and its theorems;
   `LakeBackfill` and `DecisionService` and their theorems; `AlbersBook` and
   `SimMaker`.
4. `PaperTaker`: the taker's entries and exits, alone and beside the makers in
   `PaperDesk`.
5. `PaperFeeds` composed with `PaperMaker`: what a repeated trade fills, and what an
   order that was live across a lost connection has missed.
6. *(done)* Theorems of `SlabBook` with its refinement, `PositionBounded`,
   `OrdersOnlyShrink`, `ReportAccounts`, and of `MarketFeed`'s labels, tape
   and scores.
7. *(done)* Theorems: `PaperDesk`'s `GrossBounded` and `CoinsAreMakers`, on the lemmas
   of `PaperMaker` restated for the orders of one coin; `ReplayIsLive`; the refinement
   `PriceTimePriority`.
