# Verification of hlbot, the news trading bot

TLA+ modules that model the decision and position core of `src/src/hlbot/`, the TLC configurations
that check them on small instances, and TLAPS proofs of what matters most. Paths below are relative
to `src/src/hlbot/` unless they start with `src/`.

    tlc -workers 2 -config BookExchange.cfg MCPositionBook     # any run: see "Runs"
    tlapm PositionBookProofs.tla                               # or any other *Proofs module

`PROJECT.json` is the index: components, runs, one mutant per property, the source lines each
definition stands for, hazards, findings and theorems.

## 1. The system

The bot listens to two news feeds, lets a language model read each headline, puts the verdict
through a risk gate, sends an order to a Hyperliquid perpetual exchange (or simulates it), and
watches the position until it is closed. One process, one asyncio loop: between two awaits that
really suspend nothing else runs, and every hazard below is about what happens *during* an await,
or when the process dies.

| Component | State it keeps | Operations | Modules |
|---|---|---|---|
| News feeds (`news/telegram_source.py`, `news/tree_client.py`) | highest id seen per channel, unresolved channels, connection, reconnect pause | handler, resolve and seed, poll, reconnect | TelegramFeed; FeedWatch (reconnects of both) |
| Ingest and dedup (`pipeline.on_news`, `news/dedup.py`) | ids seen, in order, up to a bound | check, remember, restore | NewsPipeline |
| Processing task (`pipeline._process`, `analysis/burst.py`) | task set, analysis semaphore, burst buffer | analyse, combine with earlier pieces, hand over to the trade section | NewsPipeline |
| Analyzer and providers (`analysis/analyzer.py`, `analysis/providers/`) | the request features still allowed, the warm prompt prefix | triage, analyse, confirm, keep warm, retry | Analyst |
| Universe (`analysis/universe.py`) | markets by symbol, when each was first seen; a file | refresh, carry over, save | Universe, composed in Analyst |
| Trade section (`pipeline._trade`) | `_trade_lock` | contrary exit, evaluate, open, track | NewsPipeline (when), PositionBook (positions), TradingGate (halts, loss, cooldown) |
| Risk engine (`trading/risk.py`) | last entry per symbol, recent signals | evaluate, note_entry, restore | TradingGate, PositionBook (caps), Arena (duplicates), Replay (sizes), EntryLab (move and book guards) |
| Runtime state (`config.RuntimeState`) | mode, halt, its kind and day, the lanes' halts; a file | halt, halt_daily, maybe_auto_resume, resume, set_dry_run, load, save | TradingGate, Arena |
| Executor (`trading/executor.py`) | none of its own; mutates Position objects | open, adopt a lost fill, place and cancel stops, close, record a partial and a final close | PositionBook |
| Position manager (`trading/position_manager.py`) | tracked positions, ids being closed, absence counts, last marks, peaks | track, force_close, restore, monitor pass, reconcile, exit decision | PositionBook; ExitRules (prices) |
| Store (`store/db.py`) | SQLite: news, analyses, decisions, positions | upserts in FIFO order, the restart queries, today's PnL, the snapshot | PositionBook, PositionLedger, NewsPipeline, TradingGate, Observers |
| Exchange (`trading/hl_client.py`, and the exchange itself) | lots held, resting stops; cached mids and tables | market open and close, position state, trigger orders, mids, candles, book | PositionBook (external), MarketCaches, MarketTables, EntryLab |
| Event bus (`bus.py`) and dashboards (`ui/server.py`, `ui/arena_server.py`, their pages) | subscriber queues, page state, response caches | publish, subscribe, snapshot, follow, control, proxy candles and markets | Observers, HistoryCaches, MarketTables; PositionBook and TradingGate (control) |
| Telegram bot (`notify/telegram.py`) | offset, the tracked card | poll, browse, ask, confirm, redraw, alert | Bot, over Observers |
| Supervision (`main.py`) | tasks and back-off, watchdog, capital baseline | start, restart loops, watch the feeds, backfill, refresh the brief, shutdown with drain | FeedWatch, WarmUp; NewsPipeline (drain, boot), PositionBook and TradingGate (restart) |
| Arena (`main_arena.py`, `arena/`) | a lane per model with its own book, gate, lock; one semaphore | fan out, trade per lane, restore | Arena |
| Backtest (`backtest/engine.py`) | analysis, brief, bar and funding caches on disk; a simulated portfolio | analyse all, build the timeline, replay, walk the bars | Replay, ExitRules (the walk), HistoryCaches, EntryLab |
| Exit lab, optimizer (`backtest/exit_variants.py`, `optimizer.py`) | none | walk a variant; split, score, rank | ExitLab, WalkForward |

How they meet: the feeds call `Pipeline.on_news`; it spawns one task per headline; the tasks share
the analysis semaphore, the burst buffer and the trade lock; the section under the lock reads the
gate's inputs (flags, PnL of the day, the book, cooldowns) over several awaits and then calls the
executor; the position it returns is handed to the manager, whose loop, the UI, Telegram and a
contrary headline all may close it; every change of a position is written to the store, which is
all a restart has.

What makes each part correct, and is hard:

* **Positions.** One position per market and caps that hold though the gate reads them long before
  it acts; a close booked once whoever wins the race; the book, the table and the exchange telling
  the same story through partial fills, lost replies and crashes; every due position closed in
  the end.
* **News.** A headline processed once though both feeds deliver it, decided once accepted, traded on
  at most once over restarts; bursts combined in the order of publication; a drain that loses
  nothing and ends.
* **Feed.** No gap below the id under which nobody looks again, and a backstop that works.
* **Gate.** A halt that stops entries, survives restarts and ends only when it should; a loss limit
  that counts every loss once; a cooldown a restart cannot shorten; in the arena, halts and repeats
  that are a lane's own.
* **Exits.** A stop that only tightens, is the one shown, and is the backtest's.
* **Judgement.** An answer that is never taken away by another request's trouble; markets that stay
  tradable; news, brief and baseline that a restart finds again.
* **Observers.** A notifier and a page that end up with the truth; a close that only a confirmation
  of that very position can cause.
* **Backtest.** A resumed run that ends as an undisturbed one would; nothing decided with what was not
  known yet.

## 2. Modules

### PositionBook (with PositionLedger)

`pos` is the Position objects in memory, `open`, `closing` and `misses` are the manager's `_open`,
`_closing` and `_absent`, `row` the positions table, `exch` and `resting` the lots and stops on the
exchange; `trader`, `closer[c]` and `monitor` are the program counters of the trade section, of each
caller of `Executor.close`, and of `PositionManager.run`. An action is the code between two awaits
that can suspend. Orders run in a worker thread, so the exchange's execution is a step of its own
between request and reply (`ExecuteOpen`, `ExecuteClose`). The store is one FIFO connection, so a
write takes effect or fails when issued and the caller hears of it in a later step.

* *Opening*: `StartTrade`, `PassCaps` / `RejectTrade` (everything `evaluate` may say no to but the
  caps), `SendOrder`, `ExecuteOpen`, `OpenReply`, `VerifyOrder` (adoption of a fill whose reply was
  lost), `PlaceStop`, `PersistOpen`, `Track`.
* *Closing*: `ForceClose` (with `UserClose` for UI and Telegram and `ContraryClose`), then
  `ExecuteClose`, `CloseUnfilled`, `ClosePartial`, `CloseFilled`, `RecordClose`, `FinishClose`, ...
* *Monitor*: `FetchStates`, the reconciler's `Reconcile*` per position, then the `Scan*` over a copy
  of the book.
* *World*: time exits falling due, the exchange flattening a position by itself (a stop fired, a
  liquidation, a manual close), crash, restart.

`PositionLedger` is the abstract promise of the table: an entry is made on a free market within the
cap, its lots are booked in slices and once each, a closed entry never changes. `ImplementsLedger`
maps each row to its entry; everything in memory is invisible.

Abstractions: sizes and notionals are lots and prices are left out, so the cap on exposure is about
sizes (slippage can take the notional beyond it); one dex; exits for any reason are a time exit falling due
(`Expire`); `hl.mid` suspends only on a cache miss, so a pass may or may not yield there; the loop
over positions in one synchronous stretch is split per position where the iterations commute;
shutdown looks like a crash to the monitor. Faults are drawn from `Faults`, at most `MaxFaults`.
Two assumptions about the world are explicit in actions: an empty but well-formed exchange answer
(`glitch`) does not come in two polls running, and an order is not
in flight longer than the 15 s grace the reconciler gives a new position.

### NewsPipeline

`seen` is Dedup's ordered memory, `stage[i]` where a headline's task is suspended, `buffer` and
`prior` the burst buffer and what a headline is combined with, `writes` the store's queue and
`table` what it holds, `phase` the group `drain()` waits for. Headlines are their times of
publication, all of one ticker; they may be delivered and analysed in any order. Which filter
drops a headline is one choice (`SkipFiltered`, which also covers a full backlog). The trade section is
three stages here; PositionBook has its inside. `drain()` takes a snapshot of each group when
its turn comes (`Stop`, `Drained`).

Left out: a failing dedup restore, headlines published at the same instant, `analyze()` raising (it
returns an error verdict instead). A decision's row has no order relative to a position's that any
property observes.

### TelegramFeed

One channel. `seenMax` is `_seen_max`, `handling` the messages whose handler awaits `get_chat`, `poll` the
poll loop's place. `floor` is a history variable: the id the channel was seeded with. Left out:
`stop()`, crashes (a restart seeds anew and loses what came between by design), handler-only mode.
The module docstring's handler that goes silent is `deaf`; after any reconnect it may fire again or not. `handled` is a history
variable, the newest message the handler brought itself: what the handler had missed before that one is lost (section 6), and the
properties say that nothing else is.

### TradingGate

`runtime` and `disk` are RuntimeState and its file, `gate` the headline between the awaits of
`RiskEngine.evaluate` and `Executor.open`, `row`, `tracked` and `mark` what the loss check
reads (the positions table, the manager's positions, their last marks), `opened` and
`lastEntry` the two places the cooldown lives; `passed` (orders since the halt) is history. A position is
named by the number of its order. A headline reads the halt, the duplicate window and the mode in one
stretch and asks the store for the losses of the day (`Begin`), adds the marks when the answer is there (`CheckLoss`,
`CheckMarket`), and goes on to the price and the guards (`GuardRejects`), the order (`SendOrder`, in the mode *of that moment*), its
reply, and `Track`. The operator's `Halt`, `Resume` and `Toggle`, the monitor's `Mark`, `Close` and `Drop`, `StoreExecutes`, `Tick`,
`Crash` and `Restart` interleave with all of it.

The store is a queue of its own: a close is asked for (`Close`), done to the table some time later (`StoreExecutes`) and taken up by its
caller, which drops the position, later still (`Drop`); the query of the losses takes the same way. So between the
reading of the realized and of the unrealized part any close may be at any of these points, and that each position is still counted
once (`CountedOnce`) rests on aiosqlite's one thread and on callers that resume in its order. Production only (the arena's per-lane
halts are left out), one position per market (PositionBook checks it), PnL in whole units, one closer of a position (`_closing`; the reconciler
and a late close are in PositionBook), writes of rows succeed, and a `_save` that fails without a crash (it is swallowed) is left out.

### ExitRules and ExitLab

A price path, a polling monitor and a bar walk side by side. A price is signed by the side, so one
set of rules serves long and short. `live`, `row` and `shown` are the tracked Position's peak and stop, its
row and the stop of the last `positions.tick`; `walk` is `walk_candles` after each `BarClose`. `Tick` moves the
market, `PollExits`, `PollKeeps`, `PollBlind` (no price) and `SavePeak` (which may fail) are the monitor, `Restart`
reads the row back. `missed`, `unsaved` and `lost` record why live and backtest may differ.
`ExitLab` adds `walk_variant` over the same bars.

The breakeven stop is off by default (`config.yaml:100`); the claim of `exit_variants.py` that production's
parameters mirror `walk_candles` exactly is about that default, and `VariantMirrorsWalk` says so.

### Replay

One headline after another through `run_live_replay` (`mode = "replay"`) or all at once through
`run_backtest` (`"alone"`). `cache`, `briefs` and `confirmed` are what earlier runs paid for, `disk` the saved part;
`book` is the simulated portfolio. A headline is one of a few kinds (market, side, confidence, how its
trade would end). `Judged` is the whole loop body as a function of the book; `AnalyzeOk`, `AnalyzeFails`,
`RegimeFails`, `Crash` and `Again` (the command is repeated) are what happens around it.
Not in it: bursts, the `veto_only` confirmation rule, more than one size precision. A crash within a
judgement is the same as one right after it, since a judgement writes only the skeptic's verdict.

### EntryLab and WalkForward

Pure functions, checked on every small input by the replay run. `EntryLab`: what the gate and the backtest measure
before an entry. A price is the moment it was traded, so a look ahead is visible as a number that is too large; a bar opens with
its first trade, which may come after the news though the bar began before it; bars without a trade are missing; the gate sees the trades
until it asks, some time after the news. `WalkForward`: the optimizer's splits and scores.

### Universe and Analyst

`Universe` is `refresh()`, one dex per step, with `first_seen` and its file; `Analyst` composes it with the calls of
the analyzer: `call[p]` is the request of each headline and of the keep-warm loop, `allowed` the optional
features not yet refused, `hot` the API's prompt cache. A prefix is what renders into the cached part:
brief, tradable markets, tool strictness. Both provider adapters are `ProviderReplies`, `EmptyReply` and `Transient`; a
missing key behaves like a non-retryable error. A failed save of the listing file is not retried
until a new market appears, a failed volume fetch means no liquidity penalty: both as in the code.

### Observers and Bot

`Observers` is the bus, the notifier that follows it and a dashboard page: positions are opened and closed by others, row
first and event second, and the page subscribes before it reads its snapshot. `Bot` adds the chat: `chat`
what each message shows, `card` the tracked one, `job` the update being handled, `redraw` the two refreshers.
Every Bot API call is a step boundary. One position at a time is in transition; no redraws after a
restart; `trade.error` and status events, texts and 409 conflicts are left out. The production snapshot holds 50 rows, more
than the model's positions.

### Arena

`task[l][i]` is a lane's work on a headline, `signal` and `rows` the duplicate window in memory and in the table,
`halt` and `disk` the per-lane halts and their file. All lanes share `Analyzing`, the semaphore. Left out: headlines the arena
does not keep, mode changes and the manual halt (no operator in this process), a midnight between the loss
query and the stamp, a failing `save_analysis`. The window is keyed by the analyzer's ticker when restored and
by the market's symbol when live (`risk.py:231-246`): the same in the model's one market.

### Requests, MarketCaches, MarketTables, HistoryCaches, FeedWatch, WarmUp

The background services. `Requests` holds what they share, the clock and the bound on failures; a request
takes up to `Timeout`. `MarketCaches`: mids kept warm by a loop and asked for directly when old. `MarketTables`: the
market list, whose `viewers` queue at a lock and look at the stamp once they have it, fetched dex after dex with what fails left
out, and the funding rates of each dex, with no lock; both stamped before they are asked for. `HistoryCaches`: the arena server's candle pages
and the backtest's bars and funding ranges. `FeedWatch`: reconnect pauses of the tree client and `supervised()`, and the watchdog.
`WarmUp`: startup backfill, brief, capital baseline. `MCServices` runs one of them at a time, chosen initially
(`exercised`), each up to its own `Horizon`. Left out: the page rate limiter, the catalyst memory loop.
Assumptions: funding rates that live at least as long as a request (`FundingTtl >= Timeout`: 60 s against 15 s; none such for the
market list, whose 10 s a fetch may outlast), a silence alert above the watchdog's shortest period (`Least < Silence`), a history request that ends
by now.

## 3. Runs

| Run | Module, cfg | Instance | Shows |
|---|---|---|---|
| book_exchange | MCPositionBook, BookExchange | 2 live positions, 2 markets, sizes to 2, one fault of any order, price, stop or write kind | `BookMatchesExchange`, `ExposureWithinCap` |
| book_restart | MCPositionBook, BookRestart | 2 positions, 1 market, UI and contrary closes, two of crash and glitch | `OneTrackedPerMarket`, `NeverReconcileLiveExposure` |
| book_live | MCPositionBook, BookLive | 2 positions, live and paper, two faults of every kind but stop and write | `RowsMirrorBook`, `ImplementsLedger`, `DueIsClosed` |
| news_pipeline | MCNewsPipeline, NewsPipeline | 2 headlines, 3 deliveries, 1 analysis at a time, bursts, one restart | `DrainCatchesAll`, `BurstChronological`, `EnteredOnce`, `AcceptedIsDecided` |
| feed_backstop | MCTelegramFeed, FeedBackstop | 5 messages, one blank, batches of 2, 2 faults, a handler that falls silent and fires again | `NoGap`, `EventuallyIngested` |
| gate_keeps | MCTradingGate, GateKeeps | 2 markets, 2 orders, limit 2, cooldown 2, days of 2 ticks, 3 ticks, 1 crash | `HaltLetsOneThrough`, `OperatorDecides`, `DailyHaltLasts`, `CooldownHolds`, `CountedOnce` |
| exit_rules | MCExitRules, ExitRules | 6 prices around every level, long and short, fixed target, trail, breakeven, 5 ticks in bars of 2, 2 faults | `StopShownIsKept`, `LiveLeavesFirst`, `VariantMirrorsWalk` |
| replay | MCReplay, Replay | 4 headlines of 5 kinds over 2 days, 2 faults, 3 runs; the labs on all sets of trades in 8 moments, bars of 1 and 3, and all orders of up to 6 times | `JudgedInContext`, `ResumeConverges`, `PortfolioSound`, `ReferenceIsLastKnown`, `ValidatedOnce` |
| analyst | MCAnalyst, Analyst | 2 headlines and the warmer, 3 markets on 2 dexes, one listed late, 2 API and 2 universe faults | `NewMeansNew`, `ListedStaysTradable`, `AnsweredIsJudged`, `PrefixIsHot` |
| bot | MCBot, Bot | 2 positions, 1 card, 3 presses, queue of 2, 1 fault, 1 restart | `CaughtUpShowsTheBook`, `OnlyConfirmedIsClosed` |
| arena | MCArena, Arena | 2 lanes, 2 headlines of one story, 1 permit, days and window of 2 ticks | `NobodyWaitsForever`, `HaltIsTheLanesOwn`, `StoryTradedOnce` |
| services | MCServices, Services | 2 callers, 2 dexes, 2 readers, 2 feeds, 3 posts, 2 failures, horizons of 4 to 7 ticks, a market list that lives one tick and takes up to two to fetch | `QuotesAreRecent`, `PagesAreFinal`, `FetchesTakeTurns`, `FeedsStayUp`, `ContextSurvives` |

Why the bounds are enough to be interesting. Two positions on one market give every race of a
re-entry with a late close, two on two markets the sharing of the caps; sizes to 2 make a partial
fill leave something; two faults allow a fault while the previous one is being repaired. Ids are used
once, as uuids are, so two of them bound a behaviour to two entries, and whatever is repeatable
(retries, monitor passes, prices failing) is unbounded. One
analysis slot and two headlines make a nested semaphore deadlock; one burst piece makes
the buffer evict; three deliveries give each headline a duplicate; the dedup memory is as large as
the headline set, since beyond it the code forgets on purpose. Five messages in batches of two
leave a backlog after a batch. A cooldown and a day of two ticks each, within three, straddle a
midnight. The prices of exit_rules lie on both sides of every stop, trail, target and breakeven level and
allow a gap through each; five ticks make two bars and a poll between any two trades. Three runs of
the replay let a repetition be disturbed and repeated again. Two refreshes of the universe suffice for a
failed dex to be carried over and to come back. One card is enough, since all refreshers share one tracked
card; three presses are ask, confirm and something else in between. Two lanes are what isolation is about. Every
run is exhaustive within its bounds; two use a `CONSTRAINT` on the number of events (`FewEvents`) and symmetry of
interchangeable model values, without a temporal property.

Deadlock is checked in the book runs, whose processes never stop. The others reach ends that are real
within the bounds: all deliveries made and the process stopped, all messages ingested, the clock at its limit (the gate, exit
rules, arena and services), the last run of the replay done.

**Fairness.** Book: weak fairness of the trade section, of each close, of the monitor and of the
restart: the loop runs what is ready, requests are answered (they carry timeouts), and the supervisor restarts
the process. No fairness of headlines, users or the exchange acting by itself. News: of each headline's
task (timeouts bound the analysis and the order, and the lock and semaphore are released in bounded
time by a bounded number of contenders), the store and the drain. Feed: of the poll loop and each
handler; the library may never reconnect by itself. Exit rules, replay, analyst, bot, arena and services are
checked for safety only; where something must happen in time (`FeedsStayUp`, `NobodyWaitsForever`) it is stated with a clock
or as a step that can be taken. In `book_live` there are no users:
somebody who presses the close button for ever, each time failing, holds the guard and can starve the monitor.

## 4. What is proved

All for every value of the constants; modules with proofs use no recursion.

**PositionBook.** `PositionBookProofs!TypeCorrect`: types, and that every reference a task, the book
or a row holds is to a position that exists. Assuming only that
writes of rows succeed (`WritesSucceed`: `"db" \notin Faults`),

* `OneTracked`: `Spec => []OneTrackedPerMarket`,
* `CapHolds`: `Spec => []CapRespected`,
* `RowsMirror`: `Spec => []RowsMirrorBook`,

from one inductive invariant (`BookSafe`). None of the three is inductive: the gate reads `has_open` and
the count several awaits before `track`, and a restart replaces the book by the table. The invariant
therefore speaks of the *union* of the book and the open rows (`BookApart`, `Room`), of the entry under way
(`EntryFree`: past the gate its market and a slot are still free; `EntryNew`: its position is known to
nobody else and its row is unused), and of what other tasks may touch meanwhile
(`TasksOpen`: a close or a pass works on a position that is tracked or closed already; `DropsClosed`:
only a closed one is about to be dropped). `WritesSucceed` cannot be dropped: a failed write leaves a
zombie row behind, which a restart puts beside a newer position (section 6).

* `ExposureBound`: `WritesSucceed` and `[]AdoptsNoMore` give `Spec => []ExposureWithinCap`, over partial fills, partial closes,
  adopted fills, crashes and restarts. `ExposureInv` adds that the lots of the entry under way still fit on top of the book
  (`EntryBudget`), and that its position is never larger than they are (`EntrySize`); `RowExposure`, that what a
  crash leaves in the table fits, so that what a restart restores does. `AdoptsNoMore` says that after an order of unknown outcome the market
  holds no more than the order asked for: `executor.open` adopts whatever it finds there, also what an
  earlier crash left behind (section 6, `executor.py:84`). The exposure is a sum over a set: that it is monotonic and that any
  member may be taken out of it first (`SizeMonotonic`, `SizeWithout`) is proved from the fact that a nonempty family of
  subsets of a finite set has a minimal member (`Minimal`), which replaces induction.

**TradingGate.** `TradingGateProofs`:

* `GateTypeCorrect`: types, a dated daily halt, and tracked positions with open rows. Its invariant adds
  that past its first check a headline has a market that, from `CheckMarket` on, nobody tracks.
* `HaltStops`: `Spec => []HaltLetsOneThrough`. `HaltInv` adds: once an order went out under a halt no
  headline is past its check and short of its order.
* `OperatorAlone` and `DailyHaltStands`: `OperatorDecides` and `DailyHaltLasts`, if no crash tears the
  file; the invariant is that file and memory agree, and `FlagChanges` lists
  what a step can do to the flags. Without the assumption a torn file refutes the first (section 6).
* `CooldownKept`: `Spec => CooldownHolds`. `CoolInv`: while the process runs, memory knows every entry of the
  last `Cooldown` ticks but that of the headline about to note its own.
* `LossesCountedOnce`: `Spec => CountedOnce`. `QueueInv` says what each request in the store's queue means: a close asked for is of a tracked
  position whose row is open until the store has done it (`Written`); an answered query lacks, of what is closed now, exactly what was
  closed after it (`Querying`); what the process tracks and the table has closed is a close not yet taken up (`Known`). The days along
  the queue do not fall (`Dated`), so a close that the query came too late for is one of today's. When the query is taken up it is
  at the head of the queue, and everything closed after it is then still tracked.

**ExitRules.** `ExitRulesProofs`, for every set of prices, plan, bar length and number of faults:

* `TypeCorrect`; `StopKept`: `Spec => []StopShownIsKept`, from the monotonicity of the effective stop in the peak;
* `LiveFirst`: `Spec => []LiveLeavesFirst`: a monitor that acts on every trade has left by the time the walk
  has. The invariant compares the peaks of both: the walk's is never ahead of the monitor's;
* `FillHonest`: the walk's fill lies within the excursions it reports, and beyond the stop only if the bar gapped;
* `LabIsTrusted`: `LabSpec => []VariantMirrorsWalk`, for every set of the lab's parameters. `LabInv` adds that while the variant is open, not yet extended and
  breakeven is unarmed, it has production's peak and horizon (`Abreast`); it can then only leave earlier, because the tightest of its stops
  is at least production's (`TightestBinds`, from the existence of a maximum, `Greatest`).

**Universe.** `UniverseProofs`, over the whole `Analyst`, for any number of dexes, listings, faults and restarts:

* `NewIsNew`: `Spec => []NewMeansNew`, and `ListedStays`: `Spec => []ListedStaysTradable`. Neither is inductive.
  `UniInv` adds what a refresh has seen so far (`Baseline`: a baseline holds every market of the dexes that
  answered, and nothing is on file yet), that a kept baseline is complete (`Complete`), that the file is
  complete too and never knows what memory does not (`OnFile`), and what the refresh under way has already taken over
  (`Loading`). `Sound` states this of a refresh before its next dex, so that one lemma, `ContinueKeeps`, serves
  the dex that answers and the one that fails.
* `RejectionBlindsNobody`: `Spec => []AnsweredIsJudged`. `Judged` says what a request of each kind under way means for the
  verdict, the second opinion and the failure of its headline; all the ways a request ends (answer, retry,
  feature taken out, exception) keep it.
* `KeptHot`: `NothingLeaves => (Spec => []PrefixIsHot)`, where `NothingLeaves` says that no market is delisted. Then the prefixes
  of a process only move on (`brief` grows, `allowed` shrinks, `tradable` grows: `KeyMovesOn`), so `_warm_key` equal to the
  current prefix means that nothing changed since the warming call began, and every analysis under way either carries
  that prefix or was sent before it (`OldOrSame`). Without the hypothesis it is false (section 6).

**TelegramFeed.** `NewsPipelineProofs!NothingSkipped` (the module's last part): `FeedSpec => []NoGap`, for any number of
messages, size of batches and number of failures, and a handler that fires or not as it likes. `FeedInv` adds that a batch joins what was
seen when it was asked for (`Fetching`), since `seenMax` moves on while a fetch is under way, and that a channel still being seeded
is not fetched from (`Seeding`).

**NewsPipeline.** `NewsPipelineProofs`, for any set of headlines, sizes of queues and number of restarts:

* `DrainLosesNothing`: `Spec => []DrainCatchesAll`. `DrainInv` adds what each phase of the drain has waited for (`Draining`: the snapshot of
  each group covers its group, because the group before it can no longer add to it) and which writes a headline has
  issued at each of its stages (`Recorded`).
* `TradedOnce`: `Roomy => (Spec => EnteredOnce)`, where `Roomy` says that the dedup memory (20000 ids, `dedup.py:14`) holds all
  headlines; beyond it the code forgets on purpose. `OnceInv` adds that what ever got a task is remembered, or will be
  on restart (`Remembered`), which rests on the FIFO store: a headline is on record before its position can be
  (`NewsFirst`).
* `BurstOrdered`: `Roomy => (Spec => []BurstChronological)`. `BurstInv` adds to `OnceInv` that the buffer rises and holds only headlines
  past their verdict (`InBuffer`), so that none is analyzed with itself, and that what each was analyzed with rises too
  (`PriorOrdered`). What filtering a sequence by age keeps is proved from the shape of the filter (`Pieces` is a stretch of the buffer), not
  by induction. Without `Roomy` a headline forgotten and delivered again enters the buffer twice.

**Arena.** `ArenaProofs`, for any number of lanes, headlines and permits:

* `HaltIsOwn`: `Spec => HaltIsTheLanesOwn`. The invariant is mutual exclusion by each lane's trade lock, and that memory, the
  halt file and what the lane was found at agree (`HaltsAgree`).
* `RepeatsAreStopped`: `[]LastIsRemembered => (Spec => StoryTradedOnce)`. `StoryInv` ties the three copies of an analysis together:
  its row is never older than the signal of its direction, the signal of the last order is there or too old to matter (`Signalled`), and a headline in
  the gate has left its own (`GateSignal`). `LastIsRemembered` says that when a story is told again its direction's signal still is of that story: the code
  keeps only the newest per direction (`risk.py:204`), so A, B, A within the window enters A twice (section 6).
* `OneStoryIsTradedOnce`: the run's instance, where every headline tells one story, without that hypothesis.

**Replay.** `ReplayProofs`, for any headlines, limits, number of faults and number of runs, in both modes:

* `ContextIsThere`: `Spec => []JudgedInContext`, and `ResumeIsSound`: `Spec => []ResumeConverges`. `Uninterrupted` is the recursive function
  of the run nothing disturbs; the invariant never unfolds it beyond the next headline. `Converging(f)`, for an `f` that has its recursion
  (`Ideal`), says of a run still under way: no call failed, so the book is `f` up to here (`Same`: equal but for how what a trade earned is
  split into result and funding, which a failed funding query changes); and no call ever failed, so each verdict on file has the memory `f`
  gives it (`Remembers`). `SameJudged` is the heart: a judgement maps same books to same books, since every limit reads the sum of the two. The
  brief needs that the timeline is written once (`BriefsKept`).
* `EndedIsFinal`: `Spec => RealizedIsFinal`: a trade that has ended is never changed by a later contrary exit.
* `EntriesAreWithinLimits`: `OneAtATime => (Spec => []PortfolioSound)`. The property looks back at every entry from the end, the code judges
  each once: `Limits` states the limits of all trades so far, and a judgement keeps it because a new trade is later than every older one
  (`Noticed`) and a cut only shortens (`ExitsKeepLimits`, with sums over finite sets ordered by `TotalGrows`). `OneAtATime` says that
  headlines have increasing times and that no trade ends as it begins. It is needed for the loss alone: of two headlines in one
  instant the first may enter and the second exit another trade at a loss, which the property then counts as realized by the time of that
  entry, though the code judged the entry before. The run's headlines come one at a time.

**Observers and Bot.** `BotProofs`, for any number of positions, presses, messages and restarts, and any size of the queues:

* `BotObserves`: `Spec => ObserversSpec`. The bus and its followers, with positions moved by anybody, are a specification of their own
  (`ObserversNext`), and each step of `Bot` is one of its steps or leaves it alone (`BotStepObserves`). The next two follow from it.
* `NewestStays`: `Spec => []NewestIsKept`, and `PageShowsTheBook`: `Spec => []CaughtUpShowsTheBook`. `ObserverInv` says that the notifier's queue rises from what it
  took to the newest event (`Continues`), that the last event about a position in the page's queue says what has become of it (`QueueTrue`)
  and that the page shows what no event in the queue is about (`PageTrue`). The page subscribes before it reads, so both hold from its
  first row on.
* `ConfirmedOnly`: `Spec => []OnlyConfirmedIsClosed`. `CommandInv` numbers the updates: a press that asks for a close, on its way, in the
  backlog or in the batch in hand, was confirmed on a prompt naming its position, in this life if the backlog was skipped.
* `PromptHolds`: `BacklogIsSkipped => (Spec => []PromptHoldsTheCard)`. `PromptInv` says which update each message, job and redraw stems from,
  and that whatever is still to be handled came after it (`Past`), so a prompt on show with no later tap has its `confirming` mark (`Held`).
  `BacklogIsSkipped` excludes a start whose first `getUpdates` fails, the defect of section 6: a press handled again in the next life
  asks about a position that has gone, and its redraw clears the mark while the old prompt still shows. The bot run, with one fault and one
  restart, is too small for that; all other failures are in.

**PositionBook and the exchange.** `PositionBookProofs`, for any number of positions, markets, lots and faults:

* `BookMatches`: `MonitorAlone /\ NothingBlinds => (Spec => []BookMatchesExchange)`: the monitor is the only closer (section 6 has the
  late close), and no fault is a crash, a failed fetch or an empty answer, after which the exchange holds what nobody
  knows. Rejected, partial and lost orders and failing prices, stops and writes are all in. `Known` names who knows of
  the lots on a market: the entry under way, or the one tracked position, less what its close has sold and not booked.
* `ExposureKeptLive`: under the same hypotheses, failed writes included, `Spec => []ExposureWithinCap`; here `AdoptsNoMore` is
  proved: an order is sent only to a market on which nothing is held (`Known`), and until it is settled nothing but the order adds to it.
* `ReconcilesFlat`: `OrdersFill => (Spec => NeverReconcileLiveExposure)`, with any number of users and contrary headlines; `OrdersFill` allows
  crashes, empty answers and failing stops, so that orders fill. `Missed`: a position counted absent though it is held is being closed, or the
  count is from the last poll and that was an empty answer, or the poll in hand has seen it. `PollTrue` says what the answer in hand is
  still worth, `Flattened` and `Guarded` which closes under way leave their market flat and which still may send. With failed fetches or rejected orders it is false (section 6).
* `KeepsTheLedger`: `MonitorAlone /\ WritesSucceed => (Spec => ImplementsLedger)`: the refinement, step by step (`StepImplements`): each step is a step of
  `PositionLedger` or leaves the table as it is. `LedgerInv` adds that a tracked position is open until its one closer has closed and
  is about to drop it (`OpenUntilDropped`), that the entry under way has nothing booked (`NothingBooked`), and
  that no write has failed.

**Only model-checked**: liveness (out of the prover's reach, as is ENABLED, which `NobodyWaitsForever` uses); `ReferenceIsLastKnown` and `ValidatedOnce`,
which compare pure functions of `EntryLab` and `WalkForward` over all small inputs; the properties of the services,
one specification for all of them. The provers cannot use an induction theorem (its parameter is an operator), nor a recursive operator; where a
property needs induction over data, as exposure and budget do, a minimal counterexample serves instead.

**Only proved**: `RealizedIsFinal`, `NewestIsKept` and `PromptHoldsTheCard`, which no run needs any more.

Some hold under the bounds of their runs and not beyond, for known reasons. With two closers and partial fills the late
close of section 6 rewrites a closed row, so book_live has the monitor as its only closer: the hypothesis `MonitorAlone` of
`KeepsTheLedger`. The analyst run sends no prompt once a second thing happened to the universe, and a prefix needs two to come back: the
hypothesis `NothingLeaves` of `KeptHot`.

## 5. Properties and the hazards they answer

`PROJECT.json` lists each hazard at its line with the properties that would catch it. The ones most worth
reading:

* `BookMatchesExchange` relates the manager's sizes to the exchange through partial fills and errors with
  an unknown outcome, whenever nothing is in flight. The monitor is the only closer of its run (the late close of section 6 is why).
* `NeverReconcileLiveExposure`: recording a close sends no order, so a wrong one orphans exposure. It holds for
  isolated empty answers by the debounce, and against re-entries by the grace.
* `RowsMirrorBook` and `ImplementsLedger`: what a restart brings back, and what the table says over time.
* `DueIsClosed`: all error paths of a close rely on the monitor to try again.
* `DrainCatchesAll`: each group is a snapshot, so the order of the groups is what counts.
* `AcceptedIsDecided`: a semaphore taken twice by one task, never nested.
* `HaltLetsOneThrough` is deliberately not "no order after a halt": the flag is read once, at the start,
  and the headline in the gate at that moment may still enter. It bounds the damage to one.
* `CountedOnce` relates the table, the manager's memory and an answer on its way between them: three views of one position that change in
  three different steps.
* `NoGap`: two readers of one channel share one high-water mark; only what the handler itself jumped over may be missing below it.
* `CooldownHolds` relates two copies of the same fact, one in memory and one in the table, over a crash
  between the write of one and of the other.
* `StopShownIsKept` and `LiveLeavesFirst` tie three computations of one stop together: the monitor's, the dashboard's and the backtest's.
* `ReferenceIsLastKnown`: bars of three lengths, fetched by two callers at different times, must give one notion of the price before
  the news. Where they cannot, the property says exactly when.
* `ResumeConverges`: a run disturbed by any calls that failed and came back ends with the trades of an
  undisturbed one; `JudgedInContext`: and with verdicts asked in the same context.
* `OnlyConfirmedIsClosed` relates a money action to a prompt shown earlier, through a list that shifted in between.
* `StoryTradedOnce` compares what memory suppressed before a crash with what the table makes it suppress after.
* `FetchesTakeTurns`: a lock on the one table and a life longer than any request on the other keep answers in order; without either
  an old answer could replace a newer one.
* `ContextSurvives`: an interrupted backfill must leave a prefix, never a hole, or the next gap is computed wrongly.

## 6. Where code and documentation disagree

Each of these was found because a property, or a run with one more fault, fails. The runs are configured
to stop short of them (the constant is named), or contain them, the property then naming the one case it excepts, so that what holds
otherwise stays visible.

Positions and feeds:

* `executor.py:287`. `_record_close` marks the object closed before it writes the row. If the
  write raises, every retry returns early, the position is dropped and its row stays open (add `"db"` to `Faults` of BookLive).
* `position_manager.py:238-239`. A pass visits a position that was closed and dropped during the pass, and tests
  `_closing` only before it awaits a price: two close orders for one position may be in flight, and the late one, which
  names a market, sells a newer position's lots and books them on a closed row, against "a second call is a
  no-op" (`executor.py:276-278`; add a user and `"partial"` to BookLive).
* `position_manager.py:186`. Two empty exchange answers with a *failed* fetch between them count as
  consecutive, against 182-184. So do two with a poll between them that skipped the position because a close was in
  flight (174-175), if that close is then rejected (add `"fetch"`, or `"reject"`, to `Faults` of BookRestart; `OrdersFill` in
  section 4 excludes both).
* `executor.py:84`. A crash between a fill and its stop and row leaves exposure nobody knows of.
* `executor.py:36`. A mode toggled while a headline is in the gate makes it trade in a mode whose losses were not checked.
* `executor.py:261`. PnL realized by a partial close is in neither term of the daily loss until the
  rest is closed, against "realized PnL today PLUS current open-position drawdown" (`risk.py:361`). `CountedOnce` is about positions, not
  about the parts of one.
* `config.py:403`. The state file is truncated and rewritten in place and an unreadable one means the defaults: a
  crash in between ends a halt and may flip the mode (`TornWrites = TRUE`).
* `news/telegram_source.py:61`. A handler that fires again after missing a message moves the shared
  highest id past it; no poll fetches it, against "the poll loop is the backstop that keeps ingestion alive" (12; leave
  `m < handled` out of `NoGap`).
* `news/telegram_source.py:107-108`, `main.py:182-188`. Posts between the backfill's fetch and the source's seeding are
  never stored; a backfill that failed, followed by live news, leaves its gap for good, since the next one
  starts at the newest row (`db.py:150`). "Skip if the store is already current" (`main.py:198`) never happens: the gap is
  at least 0.05 days and the test is for 0.02.
* `news/telegram_source.py`. A source that finds itself unauthorized returns, and `supervised()` takes that for done; only the watchdog tells.
* `analysis/burst.py:42-44`. A piece analysed late removes newer pieces from the buffer, against 9-11.

Judgement:

* `analysis/providers/base.py:32`, "not auto-retried" (an empty or truncated reply): `is_retryable` (76-77) retries it.
* `analysis/analyzer.py:385`: `_warm_key` names the prefix last warmed and `_prefix_used_at` the last use of *any*. A prefix that
  comes back (a market appears and is delisted again) counts as recently used though its cache entry is old, against
  "so a headline after a quiet stretch never pays the cold-cache penalty" (377-378).
* `analysis/universe.py`: a market delisted and listed again between two refreshes is not noticed; a dex added to
  the configuration makes all its markets new; a symbol on two dexes resolves to the other while the first fails.
* `main.py:341-350`, `hl_client.py:128-149`: a reading with one wallet missing can become the persistent baseline; an unreadable
  baseline file means a new one at the next refresh.

Bot and dashboards:

* `notify/telegram.py:128-130`: when the first `getUpdates` fails the backlog is not skipped "on first poll" either, so a
  confirmation from before the restart acts.
* `notify/telegram.py:234-246`: `_refresh_card_once` tests `confirming` before it awaits the rendering; a refresh in
  flight overwrites the prompt, and the card stays frozen until the next tap.
* `arena_server.py:218-219` (and `ui/server.py`), "retries happen once per TTL, not inline on every request for the duration of the
  outage", and 215, "concurrent requests share one fetch": when a fetch outlasts the ten seconds (one dex may take fifteen, and each is asked in turn),
  every viewer behind the lock finds the stamp expired and fetches again, inline, one after the other; the services run does so. Once per TTL is what
  remains true (`FetchesTakeTurns`).
* `db.py:226`: news at a page boundary with equal times are skipped by the next page, and a reconnect after
  more than a page leaves a hole above the cursor (`arena.html:1409-1425`).

Arena:

* `arena/lane.py:48-49`, "paper starts fresh": the restored rows are those of both modes.
* `arena/pipeline.py:5-8`, a slow lane blocks nobody: the lanes share six permits, which the slow ones may hold.
* `risk.py:204`: only the last story per direction is remembered, so A, B, A trades A twice.

Backtest:

* `risk.py:396-398`, "strictly tighter than the backtest": not if the price comes back after the next open. Live gives
  up on a failed fetch of bars where the backtest tries coarser ones.
* `risk.py:116`, "that open predates the headline": the open of the bar that contains the news is the bar's first trade, and in a sparse
  bar that may come after the headline. If nothing was traded in the lookback before it, the move is measured from there, live and in the
  backtest (`engine.py:667`), and the reaction so far is not seen. `ReferenceIsLastKnown` says that this is the only case. A headline at the very
  start of such a bar gets the same open for both ends of the backtest's measurement, a move of 0.
* `scripts/optimize.py:118-126` asks for funding up to an end in the future, which `FundingHistory` then takes for
  covered, against `engine.py:222-223`.
* The optimizer does not purge: a training trade's hold may reach into the validation window.

## 7. Not modelled, and the plan

Left out for good: prompts and texts, verdict sanitizing, the usage ledger and prices, dashboards'
rendering, reports and metrics (straight-line arithmetic over finished trades), the scripts (operator tools outside the
process). `resolve()` and `mentions()` are string lookups.

Next, in this order:

1. **NewsPages**: the feed's pagination and the socket's reconnect, against the disagreement above.
2. Composition: the gate's `row` and `tracked` refined by PositionBook's, ExitRules' `live` by its `pos`.
3. Proofs: the caches and feeds of the services, one specification each; the reference price of `EntryLab` for any bars.
