# fyers-autotrader: a TLA+ model

fyers-autotrader scans two Indian indices (NIFTY50 and BANKNIFTY), lets a language model
decide BUY, SELL or HOLD, and trades index options on that decision, on paper or through a
Fyers account. This directory holds TLA+ specifications of the parts that keep money and
positions consistent, the TLC runs that check them on small instances, and TLAPS proofs of
what matters most for instances of every size.

Run a check with `tlc -config paper_crash.cfg MC_Paper` and a proof with
`tlapm PaperBrokerProofs.tla`. PROJECT.json lists every run, the source lines each
definition stands for, a mutant of the code that breaks each property, and the hazards.

## 1. The system

| Part (source) | State it keeps | Operations | Talks to |
|---|---|---|---|
| Decision consumer and position watcher (`simulation-engine/main.py`) | `last_id`, everything else in Redis | read a decision, run the entry gates, flip or open; every tick, evaluate the exits of each position; every 30 s in live mode, reconcile with Fyers | Redis, one of the two brokers |
| Paper broker (`execution/mock_broker.py`) | `positions:open`, `trades:open_id`, `trades:all`, `pnl:realized:total`, `sl:cooldown:*` | `open_position`, `close_position` | budget, data-service |
| Virtual budget (`portfolio/budget.py`) | `budget:state` = cash, invested | `allocate`, `release`, `reconcile_invested` | Redis |
| Live broker (`execution/live_broker.py`) | the same keys, `pending:order:*`, `reconcile:pending` | open, close, `record_external_close` | core-engine, which talks to Fyers |
| Exit rules (`execution/exit_rules.py`, `invalidation_exit.py`) | peak and milestone count in the position | `check_exit`, `check_invalidation_exit` | called by the watcher |
| Manual close (`POST /positions/{symbol}/close`) | none | `close_position` in a request of its own | races the consumer |
| Tick feed (`core-engine/fyers/tick_feed.py`) | `_fyers`, `_subscribed`, latest ticks, one-minute bars | supervise, connect, watch, subscribe, reconcile, consume | SDK threads, Redis `ltp:*` |
| Scan (`core-engine/scheduler/jobs.py`, `indicators/*`) | candle cache, `last_candle_ts:*`, `market:*`, caches of zones and context | per symbol: fetch, compute, catch up, publish; backfill; weekly zones | Fyers, data-service, Redis |
| Decision publishing (`core-engine/llm/decision.py`) | last signal per symbol | ask the LLM, gate across symbols, publish, persist | Redis stream, data-service |
| data-service | TimescaleDB rows | upsert trades, decisions, candles, daily bars and zones; mirror a trade into `trades:all`; mark a decision acted | everyone |
| equity-engine | mode, paper account, trade log and report in Redis; daily bars in data-service | read bars, screen, plan, backtest; trade on paper or for real; refresh the report | core-engine, data-service, Redis |
| api-service, ui-service | none | read | the others |

What is hard to get right here:

* Everything in the simulation engine runs on one asyncio loop and yields at each Redis or
  HTTP `await`. Two handlers, the consumer and a manual close, interleave between any two
  commands; the keys they share have no lock and no transaction.
* A position is five Redis keys written one after another, by a process that can stop at
  any point between two of them and start again.
* In live mode the truth is at the broker. Replies get lost, orders end rejected after they
  were accepted, the positions API lags, and the user trades on the same account.
* The feed is one SDK socket handled by three tasks, a worker thread and the SDK's own threads,
  any of which can hang; its subscriptions follow a book that another service changes.
* The exits are a list of rules where each `return` hides the rules after it, over a position
  whose peak and milestone are a copy that is written back only on some paths.
* An entry is decided by gates that look at a scan minutes old, a live price, a verdict cached for the
  day and a clock, each read at another await; the exits look at the same levels in other ways.
* Bars arrive while they are still forming, and scans, backfills and requests that data-service serves
  after their client has gone write them in any order. What a scan knows of the day, of its opening
  range and of the levels ahead is computed from them, over the bars of more than one day.
* Ticks come in on an SDK thread and leave on the event loop, through dicts without a lock.
* equity-engine runs readers and orders in threads and processes of their own, over a table and an
  account that have no lock, and judges its signals by a backtest that must not look ahead.
* The decision itself goes through an LLM, a stream and a table, each of which can be late, lose it
  or see it in another order.

What makes each part correct: the account explains itself and a position's cost is paid back
once (paper broker, budget); the views of a position in Redis agree (both brokers); the book
is the account at Fyers (live broker); a gain the trail protects is not given back, a position
is closed at the end of the session and a broken thesis is left (exit rules); a stopped symbol
is not re-entered in its cooldown (consumer); no tick of a subscribed symbol is awaited for
ever, and a reconnect loses no subscription (tick feed); a decision is acted on at most once and
its mark, once made, stays (publishing, data-service); an entry the gates let through is not undone
by its own exit rules, and yesterday's breakout opens no gate today (entry gates); a bar before the
mark is stored and final, and what is published from the bars is theirs (scan); no tick is left
behind in the tables (tick feed); the zones are those of one computation (scan); recent daily bars
are there and final, a backtest is what trading its signals would have given, and what is held is what
the log says (equity-engine).

## 2. The modules

| Module | Models | Checked by | Proved in |
|---|---|---|---|
| `PaperBroker` | consumer, watcher, paper broker, budget, manual close, crash and restart | `MC_Paper`: `paper_*` | `PaperBrokerProofs` |
| `Ledger` | abstract: what the engine owes its virtual account, one step per payment | as a property of `MC_Paper`, `paper_crash` | `PaperBrokerProofs` |
| `PaperLedger` | EXTENDS `PaperBroker`: the refinement mapping onto `Ledger` (INSTANCE) | `MC_Paper`: `paper_crash` | `PaperBrokerProofs` |
| `ExitRules` | the life of one option under every exit rule | `MC_Exit`: `exit_*` | `ExitRulesProofs` |
| `LiveBroker` | orders, fills, live open and close, both reconciliations, crash and restart | `MC_Live`: `live_*` | `LiveBrokerProofs` |
| `TickFeed` | the feed's connection and its subscriptions, crash and restart | `MC_Feed`: `tick_feed` | `TickFeedProofs` |
| `DecisionFlow` | a decision from the scan over the LLM, the stream and the consumer to its row; failures, timeouts, restarts of both services, overlapping scans | `MC_Decision`: `decision_flow` | `DecisionFlowProofs` |
| `EntryGates` | the gates between a decision and `open_position`, over several days; takes `check_exit` from `ExitRules` (INSTANCE) | `MC_Gates`: `entry_gates` | `EntryGatesProofs` |
| `Bars` | what is computed from bars: aggregation, day and opening range, consolidation, pivots, CPR, the prompt's candle rows, the forming-bar signal | operators only; used by `MarketScan` | |
| `CandleLog` | the bars of one symbol on their way into `market_candles`: scans, catch-up, mark, backfill, late requests, crashes | `MC_Market`: `market_data` | `MarketProofs` |
| `MarketScan` | EXTENDS `CandleLog`: the snapshot a scan publishes, computed with `Bars` | `MC_Market`: `market_data` | `MarketProofs` |
| `TickTable` | the tick and bar tables between the SDK's thread and the consumer | `MC_Market`: `market_data` | `MarketProofs` |
| `SrLevels` | support and resistance zones: the clustering, and the table, Redis key and cache that hold them | `MC_Market`: `market_data` | `MarketProofs` |
| `SwingBacktest` | equity-engine's features, signals, plan and walk-forward backtest | `MC_Equity`: `equity` | `EquityProofs` |
| `BarCache` | the daily bars of a stock, read through a table that is filled on demand | `MC_Equity`: `equity` | `EquityProofs` |
| `PaperDesk` | equity-engine's mode, orders, paper account and report | `MC_Equity`: `equity` | `EquityProofs` |

`MC_Market` and `MC_Equity` each put three components that share no state into one run: `component`
says which one a behaviour is about, the others rest, so their states are added and not multiplied.

### PaperBroker

An action is one Redis command with the synchronous code around it, which is the unit the
event loop can interleave. `pc[a]` is where handler `a` is suspended and `work[a]` holds its
locals; `Consumer` is the task that runs `_consume_decisions` and `_check_stop_targets` one
after the other, and each member of `Requests` is one HTTP request. `close_position` is the
sequence `ClosePosition, FindId, FindTrade, DelOpenId, LogClose, SaveClose, ReleaseGet,
ReleaseSet, DelPosition, RealizedGet, RealizedSet`; the GET and the SET of `budget:state` and
of `pnl:realized:total` are separate, which is where updates get lost. `Abort` is an exception
in any handler with the `except` branch that takes it, `Crash` the loss of the process and
`Restart` the startup with `reconcile_invested`.

`persist_trade` posts a trade's record to data-service, which commits the row and then writes the
same record into `trades:all` (`ingest.py:149-156`), whatever stands there by then. `sent` holds the
records on their way: `Post` adds one, `MirrorTrade` is data-service's HSET, and `Return` ends the
call in one of three ways. The record is mirrored, or refused or lost, or the client has given up
after its 5 s while data-service is still at it. Such a record may be mirrored at any later moment,
after a restart too; `MaxLate` bounds how many are.

Abstractions, each chosen so that the properties cannot tell:

* the entry gates and the exit rules are a nondeterministic choice. `WatchExit(s, "STOP")`
  stands for the two reasons that set a cooldown and `"OTHER"` for the rest;
* a trade is named by the decision that opened it; statuses CLOSED and STOPPED are one;
* money is an integer, costs and P&L come from small sets, rounding is left out;
* reads of keys that only the consumer writes are merged with the step that uses them;
* a decision published while the service is down is lost, as in the code (`last_id = "$"`),
  so it is never offered; the day is a single session.

History variables (`charged`, `settled`, `written`, `stopped`, `overlap`, `dirty`, `faults`) are read
by no action. `written` is the record the engine itself wrote last of a trade; the trades that
data-service has re-opened over it are `Reopened`. `overlap` and `faults` let a property say for which behaviours it is meant: the code
makes no promise about two handlers closing one position, and then settles it twice (section 5).

### ExitRules

One position from `open_position` to its sale. A tick brings a premium (0 when none could be
obtained), the index price, greeks, indicator votes and whether the index stands at a support
or resistance. `Invalidate`, `ExitNow` and `KeepOpen` are the three ways a tick can go, in the
order of `_check_stop_targets`; `CheckExit` is `check_exit` with one operator per rule, in the
order of the code. A write-back can fail. Percentages are compared by cross-multiplication.
A close is one step, since PaperBroker looks inside it.

### Ledger and PaperLedger

`Ledger` is the account as a trader thinks of it: `cash`, `invested` and a book with one entry per symbol.
`Buy` takes cost and fee and makes the entry, `Sell` pays proceeds less fee and strikes it, both in one step;
`Slip` is what a fault may do (lose an entry just paid for, bring back one just paid out, move no money), and
`Repair` is what the restart makes of it. In the code these payments are spread over the many Redis commands of
an opening or a close. The mapping in `PaperLedger` says where they take effect: at the two writes of `budget:state`. From
`AllocateSet` to `PutPosition` the book already holds what the consumer is about to store (`Bought`), and from
`ReleaseSet` to `DelPosition` it no longer holds what Redis still does (`Sold`). The ledger promises
nothing once handlers have overlapped (`Share`): the code's GET and SET of `budget:state` then lose updates,
and `InvestedMatches` says what a restart still puts right.

### LiveBroker

The account at Fyers (`net`), what its positions API shows (`shown`, which lags), the orders
that reached it, and the same Redis keys as above. An order is refused, accepted, or accepted
with its reply lost; it becomes TRADED or REJECTED on its own time; polling sees its status or
gives up (TIMEOUT). `mishaps` counts what goes wrong outside the engine: lost replies,
unconfirmed fills, exits rejected after they were accepted, sales by the user, a startup
reconciliation that could not reach Fyers. `StartupReconcile` and `Reconcile*` are the two
reconciliations of `main.py`; the 120 s age of a position is the set `young`, left (`Age`) only
once its orders are final and visible, which is what the comment at `main.py:90-92` assumes. The
account starts with at most one option in it, which the first start adopts.

What the book holds of an option is `Booked`: the lots of all positions in it, under whichever
underlying. A recovered BANKNIFTY option is filed under NIFTY50 (section 5), so it and a new BANKNIFTY
position can be of one contract.
Left out: partial fills, prices, the gates, Redis exceptions inside a handler and the late mirror of a
trade's record (PaperBroker has both; `trades` is here what the broker wrote), and changes of
`trading:mode`.

### TickFeed

One action is what core-engine's event loop does between two awaits; `_on_open`, which runs on
an SDK thread, is two (`OnOpen` takes the list, `Resubscribe` sends it, on whatever socket
`_fyers` holds by then). `supervisor` is where `_supervise` is, `worker` the connect worker it
waits for, `stray` one it has left to itself before that worker stored its socket; `requested`
is the event of the watchdog and `stale` the 60 s of silence. A socket dials, is open, or is
dead without telling; the SDK dials again by itself or gives up. Simulation-engine opens and
closes positions and posts to `/ws/subscribe` and `/ws/unsubscribe`; posts can be lost, late and
out of order. A reconcile reads the book in one step and changes the subscriptions in another.

Abstractions: sockets are reused once closed, so a small set serves any number of reconnects;
the market hours are not a variable (the watchdog acts at any time, and silence may also mean
a closed market); the time between `get_valid_token` and the 60 s threshold is not counted, as
the token is a local file; positions without an option are left out. About the SDK the model
assumes what the comments of `tick_feed.py` say of it: closing a socket that dials stops it, and
a socket that connects again has lost its subscriptions. The history variable `missed` holds the
symbols whose `subscribe` raised on the current socket. Nothing repairs those before the next
reconnect: they are in `_subscribed`, so the reconcile does not add them.

### DecisionFlow

A scan runs one coroutine for each symbol; `stage[c]` is where coroutine `c`, a pair of scan and symbol, is
suspended: collecting data, waiting for the LLM, or between the stream entry and the end (`row`). The
scheduler runs one instance of its job at a time, but `POST /scan/trigger` (`core-engine/main.py:448-451`)
starts a scan at any time and takes no lock, so the coroutines of several scans interleave. `StartScan` asks
only that this same scan has ended. The peer signal is a local of the coroutine
(`peer`), taken before the prompt is sent; the cache `_last_decisions` is `last`, of the lead only,
since no other entry is read. `ahead` is the part of the Redis stream after the consumer's
`last_id`; `dollar` says that `last_id` is still "$", which every XREAD takes as "later than this
call", so `ReadFrom` drops what came in between. A decision's row is saved, lost, or (`posted`)
still being written by a data-service whose client gave up after 5 s; `UpsertDecision` is that late
insert. `_post` has a retry decorator, but catches every exception inside, so it never retries; the
mutant of `MarkSticks` is the world in which it does, where the second insert of a row would reset
`acted_upon`. Prompts, prices and confidence are left out: a decision is its direction, and whether
it opens a position is a choice.

The history variables are `signal` and `heard` (what the lead last published, and what a follower was
bound to), `handled` and `due`. `signal.crossed` says that an earlier decision of the lead, of a slower
scan, was remembered after the latest one.

### EntryGates

One decision at a time goes through `Take` (price refreshed, clock read), `Check` (all gates, after
the await of the ORB query), `Look` (an existing position, a signal flip) and `OpenPosition` or
`Refuse`, while the clock moves, the price breaks out, positions are closed and the process restarts.
`Want` is the position the entry would make; `WouldExit` runs `ExitRules!CheckExit` on its first
favourable tick, as `_would_exit_immediately` does. Prices are integers around an opening range of
990 to 1000, the one that scans publish in the end. A scan publishes none
before the first bar and a part of it until 09:30: `Partial` holds such parts, and `early` the symbols for which a
decision with one was taken. `broke` is the truth the ORB gate is about: the price has been beyond a
threshold today. The ORB query asks data-service for the bars since 09:07 (`main.py:828`; 09:30 in its
docstring), so the bars of the range itself are among those that may show a crossing.

Left out: the confidence floor (a decision under it is a HOLD), the size of the position, and the
missing option price with which the pre-entry check is skipped (`open_position` then refuses).

### Bars, MarketScan and CandleLog

`CandleLog` has the minutes of a session, two scans (the scheduler's and `POST /scan/trigger`, which
nothing keeps apart) and the backfill. A scan is `Fetch` (one fetch a minute, shared through the candle
cache), `ReadMark` (what to post, by `select_candles_to_persist`), a batch, a request for the newest bar,
`Mark` and `Publish`. A bar is partial in its own minute and final after it. data-service commits the
rows of a request one by one (`Serve`), also after its client has given up (`GiveUp`, `ServeLate`) or
died (`Crash`); `_post` swallows every exception, so that what follows is the same. `from` is where the
promise begins (a scan without a mark stores its newest bar only), `hurt` are the bars whose last copy
was lost or came late; a backfill slower than a minute overwrites a final bar with a partial one, and
that, too, is `hurt`. Prices are left out.

`MarketScan` adds the snapshot. The bars are real ones there: 16 one-minute bars from 09:15 on and four
of the day before, as the 500-bar fetch returns them, so that each operator of `Bars` is applied to what
the code applies it to, in its order: aggregation, then the range of the day, the opening range, the
levels, the rows of the prompt. Prices are integers, and those that the code divides by three or takes
half of are kept in sixths. The
loop of `aggregate_1m_to_5m` over the bars is a walk (`TakeMinute`): a bar
of a minute begins a bar of five minutes or extends the last one, since bars come in the order of time. Text is left out; a row of the prompt is its time,
body and wick.

Left out: EMA, RSI, VWAP and greeks (floating point), the option chain, news, context, and the row of
daily indicators that a scan posts between mark and snapshot.

### TickTable

`_on_message` is `Latest`, then `Join` or `HandOver` and `StartBar`, then `Wake`: one step for each
dict operation, because the consumer may run between any two. `_consume` is `Begin`, `WriteFinal` for
each finished bar, `Turn`, and for each tick `Throttle`, or `WriteTick` and `WriteForming`; a `setex`
may fail. A tick is its minute and number, a bar the set of its ticks. Left out: the keys' expiry, and a
bar read while the SDK's thread is half way through updating it (`n`, high and low are set one by one).

### SrLevels

`Zones` is `compute_sr_levels`: swings, clusters in the order of price, minimum strength. The clustering
loop is a walk (`Clusters`): each step takes the cheapest touch that is left (`Cheapest`) and widens the
last zone or starts one. A level is kept as sum and number of its touches so that nothing is rounded. `StartSr`, `ReplaceTable`, `ReplaceCache` are
`bootstrap_daily_ohlcv`, with a failure at each; `LoadSr` is the startup's read, `ExpireSr` the end of
the Redis key after a day, `RestartSr` a new process. The score's bonuses for age and for round numbers
only rank zones and are left out.

### SwingBacktest, BarCache, PaperDesk

`SwingBacktest` is one function of the daily bars, stage by stage as the code calls them, and a behaviour
that adds a day at a time: `backtest` is what `run_backtest` says of the bars so far. The code's loop over
the days is a function `walk` of the day (`Advance`): the trades so far, and the first day from which the
next signal may be, which is the loop's `i`. Lookbacks are scaled down by the instance. Prices are integers
and divisions round down; the MACD is taken as the sign of the last move.

`BarCache` is `daily_bars`: read the table, be content if there are enough rows and one of today, else
fetch the whole history or a top-up, write it back and merge. Two readers with limits of their own run
at once; a fetch wider than a request comes in pieces, the newest first and the oldest shorter than the
others, and any of them may fail (`Pieces`). `torn` remembers a write that left a gap: a top-up after an
absence longer than itself, or a piece that failed. What is always complete are the days of one top-up
before the newest bar, unless a whole request's worth of days has passed since (`Behind`): then that bar
may come from the oldest piece alone.

`PaperDesk` is `POST /trade`, `/mode` and `/analysis/refresh`. An order is routed once (`Route`), then
quoted, `Load`ed, `Save`d and logged on paper, or placed for real; nothing is locked, and `raced` are the
stocks on which two orders overlapped or a crash fell between the two writes. The log is kept as what it
sums up to (`logged`). The flag of the refresh is
raised by the job, not by the request, so two jobs may start.

## 3. What the runs show

| Run | Instance | Shows |
|---|---|---|
| `paper_crash` | 2 symbols, 2 decisions, lots of 2 and 3 on a budget of 6, 1 fault, 1 late row, no manual close | `BooksAgree`, `IndexAgrees`: between handlers the account and the three views of a position agree while nothing failed. `FollowsLedger`: PaperBroker implements `Ledger`, through a crash or exception at any step and the restart after it: each cost is paid and paid back once, in the amount of its position. `RemovalPaid`: a cost is paid back before the position goes. `ClosedIsKept`: the record of a closed trade changes no more, unless data-service still owes it the OPEN record that `persist_trade` gave up on. `NoReentryAfterStop`: no open between a stop and the end of its cooldown |
| `paper_late_save` | 1 symbol, 1 decision, 1 late row, no fault | violation: a late OPEN record re-opens a closed trade in `trades:all` |
| `paper_manual` | 1 symbol, 1 decision, 1 manual close, 2 faults | `InvestedMatches`: whatever overlaps or fails, a restart makes `invested` the cost of the open positions. `SquareOff`: after the session close the book becomes empty and stays so |
| `exit_rules` | entry 100, premiums 0, 85, 100, 103, 105, 110, 125, two index prices, one level | `ThesisHolds`, `PeakRemembered`, `MilestonesEarned`, `GainProtected`, `ClosedAtSessionEnd` |
| `exit_index_price` | same | violation: an invalidation exit without a premium books the index price |
| `live_orders` | 1 underlying (call and put), 1 decision, 3 orders, 1 manual close, 1 mishap or crash | `BookIsAccount`: with no mishap, Redis and the account agree between handlers. `RealizedOnce`, `ClosedIffCounted`: P&L is counted once and only for recorded closes. `ExternalCloseSeen`: a position whose option is gone is found out |
| `live_rejected_exit` | no manual close, 1 mishap | violation: a rejected exit order clears the position |
| `tick_feed` | 1 underlying, 1 option, 2 sockets, 1 trade, 1 fault | `OneSocket`: no reconnect leaves a second live socket. `Streamed`: what is subscribed streams after any reconnect. `Recovers`: a feed without ticks comes back. `Converges`: in the end the subscriptions are what the book asks for |
| `decision_flow` | 2 symbols, 3 decisions, batches of 2, 1 fault; a triggered scan beside the scheduled one | `HandledOnce`: no decision is traded twice. `Served`: one whose neighbour in the batch raised is handled all the same. `MarkSticks`: an acted mark is never taken back. `NotOpposed`: a follower does not oppose the lead's latest direction, also when scans overlap, unless an earlier decision of the lead was remembered after it. `ScanEnds`: a silent LLM does not stop the scanning |
| `entry_gates` | 1 symbol, 2 days, 5 prices, 4 levels ahead, one level behind or not, one partial range | `OrbRespected`: the verdict cached for the opening range opens the gate on its own day only. `FirstTickHolds`: no position whose exit rules would undo it at the price of its entry. |
| `market_data` | bars: 2 minutes (09:29 and 09:30), 2 scans, 1 backfill, 1 fault; ticks: 2 symbols, 2 minutes, 2 ticks each, 1 failed write; levels: 7 days of three kinds, 1 failure | `Mirrored`: below the mark every bar is stored and final, through overlaps, late requests and crashes, unless its last copy was lost or late. `OpeningRange`: the range taken from the 5-minute bars is that of today's 1-minute bars before 09:30. `SnapshotExact`: the aggregated bars keep the day's range and volume, the nearest levels lie on their side of the price, within the day's range. `TicksKept`: a sleeping consumer has left nothing behind, a finished bar is whole, what is shown is the newest. `ZonesApart`: the zones the scans read are those of one computation, and no two are the same |
| `equity` | backtest: 10 days of five kinds, lookbacks of 2 to 6; bars: days 4 to 7 with a holiday, two readers of 2 and 5 bars, requests of 2 (so one, two or three pieces, the oldest of one day), two failures; desk: 1 stock, 2 orders, 2 refreshes, 1 crash or timeout | `BacktestSound`: positions do not overlap, are entered at the open after the signal and ended by the first bar that touches stop or target. `NoLookahead`: a later bar changes no closed trade. `BarsSound`: the days before the newest are there and final, in the table and for every reader, and all days of the table if no write left a gap. `DeskSound`: what is held is what the log says unless orders overlapped, no real order without a confirmation, no flag that stays up |

Why the bounds are enough. Two decisions give a flip, an open after a close and a re-entry; two
symbols give a snapshot with a rest, and a GET of one symbol's close between two commands of
another's; a budget of 6 makes the second lot fail to fit. The hazards are races of two
handlers and a fault between two commands, so one request and one or two faults reach them; the
manual close and the peaks are in `paper_manual`, the second symbol, the second decision and the late row in
`paper_crash`. One late row is enough: `ClosedIsKept` is about one record. In
`exit_rules` the premiums lie on, under and over each threshold (stop 85, entry 100, trail 105,
ranging milestone 110, milestones 115 and 125) and the offset changes with the peak; one level
on either side of the index is enough because the rules only ask for the existence of a crossed
one. In `live_orders` the account may start with a holding, so one decision already covers
adopt, flip, open and close; three orders are what that takes with one retry. One
underlying cannot hold two positions of one contract; for that case `BookIsAccount` rests on its proof,
which is for any number of underlyings. In `tick_feed` a
second socket is enough to be one too many, and a stuck dial, an error, a stale feed and their
reconnects need no fault; the fault is a drop, a dead socket, a crash, or a failed SDK call or read.
In `decision_flow` three decisions
are two scans, so that the lead's decision of the first binds the follower in the second or
the lead's decisions of two overlapping scans bind the follower of one, and a
batch of two with one more behind it; one fault is a handler that raises, a lost or late row, a lost
mark or a restart. To keep the run small (`Bounded` in `MC_Decision`) a scan is triggered only beside the scheduled
one, before the consumer's first message, and nothing fails while it runs; `LeadObeyed` is
proved without these bounds. In `entry_gates` two days are what a stale verdict takes, the prices lie on both
sides of the range and of its 0.2% thresholds, and the levels within and beyond 0.25% of them. In
`market_data` two minutes are a partial bar, its final copy and a catch-up batch, and the bounds of the
proof are none; 09:29 is the last bar of the opening range and 09:30, which leaves it and begins a bar of five minutes, the first
outside; seven
days with a window of 1 are enough for two swings that cluster and one that does not. In `equity` ten
days hold a warm-up, an entry and its end by stop, target, time or the end of the bars, and a second
trade; a holiday and a top-up shorter than the absence over it are what leaves a hole; two orders on one
stock are what loses an update.

Deadlock checking is off in every run: with its decisions used up and its book empty the model
stops, as does an engine no one sends anything to.

### Fairness

* `PaperBroker`: weak fairness of the consumer's handlers (asyncio runs a ready task), weak
  fairness of `Restart` (the container has a restart policy), and strong fairness of
  `WatchExit(s, "OTHER")`: past the session close `check_exit` returns SESSION_CLOSE for each
  position the watcher visits with a price, so a watcher that visits for ever and never exits
  is one that is without an index price for ever. Manual requests have no fairness.
* `ExitRules`: weak fairness of a tick. `_consume_decisions` calls the watcher at least every 5 s.
* `LiveBroker`: the consumer and `Restart` as above, weak fairness of the exchange (a market
  order becomes final and visible) and of `Age` (time passes), and strong fairness of a due
  reconciliation and of its request (every 30 s, and core-engine does not fail for ever).
* `TickFeed`: weak fairness of the tasks, of the watchdog (it runs every 15 s, and the market opens
  again), of silence when nothing ticks, of the reconcile job and of `Start`; strong fairness of a
  connect worker that finds a token, of a dial that succeeds, and of an `_on_open` that the watchdog
  does not overtake (it takes milliseconds). connect() itself has none: it may never return.

* `DecisionFlow`: weak fairness of each coroutine (every await of a scan returns or times out; for
  the LLM only the timeout is fair, an answer never is) and of the consumer's steps.
* `EntryGates`, `MC_Market` and `MC_Equity` have safety properties only.

## 4. What is proved

`tlapm` checks these for every value of the constants: any number of symbols, decisions,
concurrent requests and faults, any budget, fee, price and level.

`PaperBrokerProofs`
* `TypeCorrect`: `Spec => []TypeOK`, with one lemma per group of actions. TypeOK contains what
  it needs to be inductive: a handler past its entry holds a symbol.
* `NoReentry`: `Spec => NoReentryAfterStop`. The property alone says nothing about the window
  between the stop and SETEX. `StopInv` fills it in: as long as no fault has happened, each
  stopped symbol is off the rest of the watcher's list; it has its cooldown key, or the consumer
  is still at a label of the close that follows the stop (`Stopping`); its position is gone or
  about to be deleted (`Emptying`); and no decision on it is past the gate (`Entering`). Manual
  closes move only `pc` of a request and remove positions, so they preserve it.

  The module begins with the lemmas about `SumOf` that type correctness and the books need. The sum of
  a function over a finite set is a fold, of which the library proves nothing and tlapm, without
  induction over an operator, can prove nothing by the usual route. `Weight` gets around it: `SumOf` is
  rewritten as the difference of the cardinalities of two finite sets (one element per unit of each
  summand), and `SumAdd`, `SumChange` and `SumSame` follow from the library's theorems on cardinality.

Then it proves the other safety properties of the passing `paper_*` runs, from seven invariants, each
inductive with those before it:
* `SoleInv`: while handlers have not overlapped, at most one is under way, the position it closes and
  those the watcher has still to visit are the ones in Redis, and the consumer opens on a free symbol.
  No property says so, but each relies on it: between the HGET and the HDEL of a close eleven awaits go by.
* `TradeInv`: a decision that is not yet a position has left no trace but its commission; no two
  positions share a decision; an indexed trade is that of the position and not closed; how far the record
  of a trade has got at each label; a cost has been paid more often than there were faults only if its
  close is about to HDEL. From it `SettlesOnce` and `RemovalIsPaid`. It
  speaks of `written`, since `trades:all` may hold a late record.
* `EchoInv`: what data-service has been sent is the engine's last record of a trade, or the OPEN record of one
  that was closed since, and so is what `trades:all` holds. A record sent at an opening thus changes nothing
  while the trade is open, and that of a closing nothing ever. From it `ClosedStays`: `Spec => ClosedIsKept`.
* `InvestedInv`: `invested` is the sum of the positions' costs plus what the handler under way has
  already debited or not yet deleted, and the copy read by a GET is still true at the SET.
  From it `InvestedSound`; `Restart` establishes it whatever came before.
* `IndexInv`: the three views, with `written` for the trades, agree but for the symbol under way, whose
  exceptions are named label by label. From it and `EchoInv`, `IndexSound`.
* `BooksInv`: cash, invested, commissions and realized total differ by the profit of the close under way
  from `release` to the SET of the total, and the trades `written` as closed by the same from LogClose on. From it and `EchoInv`,
  `BooksSound`.
Steps that leave what an invariant speaks of alone go through one frame lemma per invariant.
* `LedgerInv`: what `allocate()` and `release()` have read is still the budget when they write, the cost and
  fee are covered, and the proceeds are not negative; it holds through faults, where `InvestedInv` says
  nothing until the restart. With it and `SoleInv`, each step of PaperBroker is a step of `Ledger` or changes
  nothing of it (`LedgerOpen`, `LedgerClose`, `LedgerWatch`, `LedgerSlip`, `LedgerRepair`, `LedgerStep`), and
  so `Implements`: `Spec => FollowsLedger`, for any symbols, requests, faults, budget, fees, costs and profits.
* `LedgerBalanced`: `L!Spec => []L!InBalance`, what the ledger itself promises: before the first fault, invested
  is at every moment the sum of the entries' costs, and so no sale is cut off at 0.

`ExitRulesProofs`
* `TypeCorrect`, from `CheckExitReturns` (what `check_exit` can return) and `KeepOpenMoves` (what
  a tick that keeps the position can change).
* `ThesisSafe`, `MemoryTrue`, `MilestonesPaid`: the invariants of `exit_rules`, each inductive
  with TypeOK; the initial case of the first is the filter in `build_invalidation_levels`.
* `GainSafe`: `GainProtected`. The arithmetic is the lemma `FloorAboveEntry`: over each band of
  `_premium_trail_offset` the trail floor is above the entry price once the peak has gained 5%.
  The README of the repository says the floor "always sits at or above entry"; that is true of a
  trail engaged by the premium. One engaged by the price-action rule below +5% has its floor
  under the entry, and the property does not cover it.

`TickFeedProofs`
* `TypeCorrect`, with a lemma for each of the operators that do the work (`Send`, `Change`,
  `TearDown`, `Dial`).
* `SingleSocket`: `Spec => []OneSocket`, with `ControlInv`: whenever the supervisor is about to start
  a worker, or a worker has no socket yet, `_fyers` is empty and no request is pending. The
  watchdog only acts when `_fyers` is set, so no worker is abandoned before it stored its socket.
  Without the `clear()` at the top of the loop the property fails: that is its mutant.
* `AllStreamed`: `Spec => []Streamed`, with `StreamInv`: what is subscribed streams on the open
  current socket, was missed, or is in the list that its `_on_open` is about to send.

`MarketProofs`, about `TickTable`, proves `TablesKept`: `TickSpec => []TicksKept`, for any number of symbols, minutes, ticks
and failed writes. Three invariants beside the types:
* `WakeInv`: unless a wake-up is still to come (`_on_message` under way, a call of `set` not yet run, or
  the event set), all that is in the tables is on the consumer's list, or will be when it turns to the ticks.
  The order `wait`, `clear`, then read the keys is what makes `Begin` keep it.
* `BarInv`: the forming bar holds the ticks of the newest minute but for the one that `_on_message` is about
  to add; a bar handed over is whole and its minute over.
* `ShownInv`: the newest tick is in `_latest`; once it was taken and not dropped it is the one in `ltp`, and
  `forming_bar` lacks no other tick than this one.

`DecisionFlowProofs`
* `TypeCorrect`, with `Room` (the coroutines that may still publish fit under the bound, which is what
  keeps the ids in their set) and `Held` (what a coroutine has published it keeps until its row is written).
* `EachHandledOnce`: `Spec => []HandledOnce`, with `OnceInv`: the entries of the batch and those ahead in
  the stream are in the order of their ids, and each of them is untouched, the first of the batch only
  until its handler has begun. So a handler that raises, or an XREAD repeated from `last_id`, finds no
  entry that was handled.
* `MarksStay`: `Spec => MarkSticks`, with `MarkInv`: a marked row is complete, and none of its inserts is
  still on its way; two coroutines never write the same row.
* `LeadObeyed`: `Spec => NotOpposed`, with `LeadInv`: when no coroutine of the lead is between its stream
  entry and the cache, `_last_decisions` is the lead's latest direction or `crossed` says that an earlier one
  was remembered after it; no such coroutine holds a later decision than the latest, and the one that holds the
  latest will remember its direction; and what a follower has heard uncrossed is the peer signal it gates with. `LeaveLead` is the case where such a coroutine ends, of which
  there may be one for each scan. It holds for any number of followers and of overlapping scans.

`LiveBrokerProofs` proves the safety properties of `live_orders`, for any finite set of
underlyings, any number of manual closes, decisions, orders and mishaps. Five invariants, each inductive
with those before it:
* `Types`: TypeOK, and `Callers`: a request closes only for itself, the consumer for one of its loops or
  for a decision, which it then remembers. From it `TypeCorrect`.
* `SoleInv`: while handlers have not overlapped, at most one is under way, what it closes and what its loop
  has still to visit are the positions in Redis, and it opens on a free symbol.
* `CountInv`: a position is of one decision, whose P&L is not counted while the position is in Redis or
  on its way from there into the total; a decision not yet opened has left no trace. From it `CountedOnce`.
* `IndexInv`: without a crash, the index names each position's decision but for the symbol under way, and
  the closed trades not counted yet are those of a close under way. From it `CloseCounted`.
* `BookInv`: while nothing goes wrong at the broker, the account is `Owned`, the book in which a fill that
  is not yet recorded has been put in or taken out. What keeps it so: an order that still works is that of the
  handler which waits for it (`Placed`); an aged position is shown by the positions API (`Visible`), so
  that no reconciliation takes it for gone (`NoneMissing`); and only the first start, with an empty
  Redis (`Fresh`), adopts anything. Quantities are counted as the cardinality of a set of lots, since
  the sum over a book would need an induction over sets of orders. From it `AccountMirrored`.

`EntryGatesProofs`
* `TypeCorrect`, with a clause of its own for what is remembered of a decision at each label.
* `OrbKept`: `Spec => OrbRespected`, with `OrbInv`: an entry of today in the cache, and a decision
  past the ORB gate, stand for a price that did break out today or for a symbol excepted by a
  partial range. `Key` is what makes it inductive over a new day: yesterday's entries carry
  yesterday's date, and a decision under way cannot outlive its day.
* `FirstTickSafe`: `Spec => []FirstTickHolds`, for every price, level, premium and lot gain. The lemma
  `FirstTickQuiet` says that on the first favourable tick no rule but the price-action trail can fire,
  on either type of day, which is why a check for one day type is enough.

`MarketProofs`, about `CandleLog`
* `TypeCorrect`, with `InStep`: a scan that waits for a request has one on its way, and the minute of
  its bars is not in the future.
* `MirrorSafe`: `Spec => []Mirrored`. The property speaks of the mark; between reading and writing it a
  scan must know that it will be right. `CatchUp` says so for each scan: below the bar that it is
  about to mark, every bar is settled or its final row is part of the scan's own request. `InTime` is
  what a row can be: final only when its minute is over, so that a row that overwrites a settled bar
  with a partial copy is one committed late, and its bar is `hurt`. The proof takes the commit of a row
  (`UpsertSettles`), the answer to a request (`OnwardEffect`), the reading of the mark
  (`ReadMarkCatchesUp`) and its writing (`MarkMirrors`) one by one; another scan's step, a backfill or
  a crash only settles bars or hurts them. It holds for every length of the session, number of scans
  and number of faults.

`MarketProofs`, about `MarketScan`
* `PublishedExact`: `ScanSpec => SnapshotExact`, for any bars of today and of the days before, whatever
  their prices, any quotes and any levels of the day before. `FivesKeep` is about the walk over the bars: the
  bars of five minutes of a day reach as high and as low as its 1-minute bars so far and no farther
  (`Covers`), and have their volume (`TakeVolume`). It needs that all bars of the day are of the session:
  `aggregate_1m_to_5m` drops earlier ones. `NearestBound` is about the levels: the day's high and low are
  among them, so that a price within the range has a level on either side and never the fallback R5 or S5.
  Induction over the bars is done with a set of places (`UpTo`), which needs no operator for a parameter.
* `OpeningExact`: `ScanSpec => []OpeningRange`, for the same bars. `OpeningSpan` takes `Covers`, which holds of
  any end of a bucket, at the end of the bucket of 09:25: the bars of five minutes before 09:30 reach as high and
  as low as the 1-minute bars before 09:30, of today only.

`MarketProofs`, about `SrLevels`
* `LevelsApart`: `SrSpec => []ZonesApart`, for any daily bars, window, tolerance, strength and number of
  failures. That no two zones have the same level is not plain, for a level moves with each touch
  that joins it. `Apart`, kept by each step of the walk, says that between any two zones found so far lies
  a price above the level of one and not above that of the other (`AddTouchApart`): touches come in the order
  of their prices, and one that starts a zone is not `Near` the last zone, so it is dearer than its level.
  From it `LevelsDiffer`: no two levels are the same, and at most one zone is nearest to a price on either
  side. `SrInv` says that cache, table and Redis key each hold the zones of the bars of one fetch.

`EquityProofs`
* `BarsComplete`: `BarSpec => []BarsSound`, for any readers and limits, any calendar, any size of a request
  and any number of failures. `BarInv` says of everything a reader holds (the rows it read, what Fyers
  answered, the series it returned) what the property says of the table, and what makes a write safe:
  Fyers' bars are partial only today, and unless a piece is missing they reach up to today (`FreshOk`), so
  that laying them over a table leaves no gap above it (`MergeWhole`). Three lemmas carry the counting of
  days: the answer to a request has its newest days complete or is a whole request behind
  (`PieceRecent`), the newest rows of a table keep its recent days (`NewestRecent`), and so do two tables
  laid over one another (`MergeRecent`). A new day needs the guard of `NextDay`: a reading that crosses
  midnight holds final bars only.
* `DeskSafe`: `DeskSpec => []DeskSound`, for any orders, stocks, quantities and crashes. `BooksInv`: unless
  an update was lost, a position is what was logged and what the orders between the two writes are about to
  log; `ArmedInv`: what reached the exchange and what is about to was confirmed in live mode. Both
  sum over the orders, and count the shares as the cardinality of a set for the reason given above.
* `BacktestIsSound`: `TestSpec => []BacktestSound`, for any lookbacks, settings, holding times and moves.
  What varies is the plan, of which the proof needs little: a stop below the close by the risk of a share, a
  target above it and a size within the budget (`BuildPlanOk`), for which the average range must be a whole
  number whatever the bars (`WilderType`). `EndIs` says where a position ends, and `SoOk`, the invariant of the
  walk, that all trades so far end before the next signal.
* `NothingLooksAhead`: `TestSpec => NoLookahead`. `Agree` compares the walks over a series and over the same
  series with a day more: at every day they have come to the same, or the shorter one holds a position
  to the end of its bars and adds no trade any more, while the longer one keeps those that were closed.
  Both theorems rest on functions defined by recursion on the day; that these exist and what holds of
  every value is shown by the least day that would be an exception (`LeastNat`).

The assumptions are the named `ASSUME`s of the modules, which TLC evaluates in each run: ranges of
the numeric constants, that the null values are not members of the sets, that days and the prices of bars are positive numbers, that today's bars carry their minute and date and others another date and a top-up is no longer
than any limit and any request (40 bars against 150 or more, and 365 days), and that the symbols of the brokers
and of the scan (a watchlist in the settings) and equity-engine's orders are finitely many, without which a sum
of costs or a count of lots means nothing.

Only model-checked: the liveness properties (`SquareOff`, `ClosedAtSessionEnd`,
`ExternalCloseSeen`, `Recovers`, `Converges`, `Served`, `ScanEnds`), which need reasoning about fairness and
ENABLED that the prover does not do. All other properties of the passing runs are stated by theorems.
`SnapshotExact` is checked on one day's bars, not on all days: what varies there is the minute, the price and
the bars a scan has seen so far. The theorem is about all bars.

## 5. Disagreements found

1. `main.py:997`: an invalidation exit on a tick without a premium sells at the index price,
   which `exit_rules.py:203-205` forbids (`exit_index_price`).
2. `live_broker.py:341`: an exit order that is accepted and then rejected clears the position that
   `live_broker.py:325` says to keep (`live_rejected_exit`).
3. `ingest.py:156`: data-service mirrors a trade's record into `trades:all` without looking at what is
   there, also after `persist_trade` has given up (`data_client.py:23`). An OPEN record that is late comes
   over the CLOSED one and re-opens a closed trade, in the table too (`repositories/trades.py:20-26`), although
   `data_client.py:3` says of these calls "Errors are non-fatal — Redis remains the operational source of
   truth" (`paper_late_save`).

Seen while modelling, and part of the models, but not the subject of a run:

* `mock_broker.py:267`: a close reads the position and deletes it eleven awaits later. A manual close
  that overlaps the watcher's close of the same symbol releases the cost twice, against `budget.py:65`
  ("Return invested amount + P&L to cash"); the invariants of `PaperBroker` are stated for handlers that
  do not overlap (`overlap`), `InvestedMatches` for the state after a restart.
* `jobs.py:458`: of two overlapping scans (`POST /scan/trigger` takes no lock) the slower one may write the
  lead's older decision into `_last_decisions` after the newer one was published and remembered. The cache
  then is not what `jobs.py:57` calls it, the "last published decision", and a follower may publish the opposite
  of the lead's latest direction, which `jobs.py:60` says gates all other symbols. `NotOpposed` excepts that
  (`crossed`), and is violated in `decision_flow` without the exception.
* `main.py:476`: the ORB gate uses the range its scan saw. A decision with the range of unfinished bars
  opens the gate for the rest of the day, which `main.py:792` says takes a crossed threshold (`early`).
* `jobs.py:403-411`: the forming bar is taken from all fetched bars at or after its minute, whatever
  their date (`FormingBars`); the slot of the volume profile is computed from UTC (`ProfileSlot`).
* `data_client.py:43`: `_post` has a retry decorator and catches every exception inside, so it never
  retries. A batch of bars that is lost is fetched again only by a backfill.
* `tick_feed.py:485` publishes "the freshest available" bar, which may lack the newest tick: that tick
  was taken from `_latest` before it had joined its bar, and the wake-up that follows writes nothing.
* `candles.py:57`: once enough rows and a bar of today are stored, that bar is not fetched again that
  day, so the evening's analysis may work with a bar of the morning. A top-up of 40 bars after a longer
  absence leaves a hole.
* `market_data.py:61-75`: a window is cut into requests from its newest end, so the oldest is a short one:
  for the default of 250 daily bars it is 15 days of 380. If only that one is answered, its few bars
  are stored and returned as the newest there are (`PieceOf`, `Behind`); the proof of `BarsComplete` led to
  this case.
* `engine.py:57-60`: a bar that opens beyond the stop is filled at the stop, a price it never had.
* `equity-engine/execution/broker.py:52`: two orders on one stock lose an update.

* `exit_rules.py:331`: the premium trail returns before the ranging milestone, so a jump to +10% is
  not taken at once as `exit_rules.py:23` says; the watcher raises the peak before it asks.
* `main.py:907`: the retry of the startup reconciliation promised at `main.py:1038` is behind an early
  return for an empty book, and does nothing for any other.
* `main.py:192`: "NIFTYBANK" is looked for where option names say "BANKNIFTY", so a recovered
  BANKNIFTY option is filed under NIFTY50.
* `main.py:254`: as long as no message has come, `last_id` stays "$" and a decision published between
  two XREADs is stepped over. `Served` starts with the first message for that reason.
* `live_broker.py` never marks a decision acted, and the paper broker's mark is answered 404 when it
  arrives before the row, which is inserted after the stream entry. So `acted_upon` may stay false
  for a traded decision; that a mark once made stays is `MarkSticks`.

## 6. Plan

Done: the modules and proofs above. Next, in this order:

1. The same refinement for `LiveBroker`, whose account is the exchange's and moves with the fills.
2. The other scheduled jobs: magnet zones with their Redis key, the news refresh with its set of seen
   headlines, the option-chain snapshots, the fast position watcher.

Not modelled: EMA, RSI, VWAP, greeks (floating-point formulas without state), the wording of prompts and
context, equity-engine's momentum and multifactor backtests and its watchlist, data-service's analytics
and reads, api-service, ui-service, helm and infra (no trading state), and authentication.
