# TLA+ models and proofs of project-10x-trader

`trader` is a Python daemon that trades US equities on an Alpaca account by a
trend-following rule, with risk limits, a daily-drawdown kill-switch and a news
filter that may veto an entry; beside it live a backtester of the same rule and
an evaluation that asks whether the news filter earns its vetoes.  This
directory holds TLA+ modules that model those parts, TLC configurations that
check them on small instances, and TLAPS proofs that hold for every instance.

Run a configuration with `tlc -config X.cfg M`, a proof with `tlapm M.tla`.
`PROJECT.json` lists the runs, the mutants of each property, the source lines of
every definition, the hazards and the findings.

## 1. The system: inventory

Paths are relative to `src/src/trader`.

| Component | State | Operations | Talks to |
|---|---|---|---|
| **Trend executor** `trend_trader.py` | locals of a tick: account, flag, positions, `open_syms` | `run_tick`: check drawdown, list positions, then per symbol sell / ask the news filter / size and buy; write the journal | broker, kill-switch, news filter, journal |
| **Kill-switch** `risk/drawdown.py` | none of its own; two day keys in Redis | `check`: anchor the day, compare, liquidate, latch | Redis, broker |
| **Redis cache** `persistence/cache.py` | `anchor:<day>`, `paused:<day>` (36 h), `news:<symbol>` (2 h), snapshots | get / set with expiry | Redis |
| **Broker access** `market_data.py` | none; the account is Alpaca's | `get_account`, `get_positions_detail`, `submit_notional_buy`, `close_position`, `close_positions`, `cancel_stale_orders` | Alpaca |
| **Scheduler** `scheduler.py`, started by `main.py` | `_running`; the job's next run | interval job, market-hours gate, boot tick, run-once | executor, market clock |
| **News filter** `news.py` | verdicts in Redis | `assess`, `should_block` | Alpaca news, Claude, Redis |
| **Journal** `persistence/journal.py` | MongoDB collection | one insert per tick | MongoDB |
| **Trend backtest** `backtest/trend.py` | position, pending action, `deferred`, trades | `backtest_trend`, `desired_long` | veto callback |
| **Filter evaluation** `eval/news_replay.py` | trades of two arms, vetoes, task table of scores | `replay`, probes, `_LazyVeto`, `_Scorer`, `_attribute` | backtest in threads, event loop, score cache |
| **Score cache** `eval/cache.py` | JSON file | get / put / save | disk |
| **Legacy LLM engine** `agent.py`, `risk/hook.py`, `mcp_client.py`, `prompt.py` | context of a tick | `run_tick`, the order hook | Claude, MCP, broker |
| **Classic backtest** `backtest/signals.py`, `backtest/engine.py` | signals, position, trades | `signal`, `backtest_symbol` | none |
| Indicators, metrics, configuration, report | none or per run | pure or wiring | |

How they interact.  The scheduler runs at most one tick at a time, of two tasks that
may begin one: `start()`, which awaits the boot tick, and the interval job.  A tick makes
some twenty remote calls one after another; between any two of them orders
fill, prices move, other agents spend the cash of the shared account, midnight passes, and
the process may die and be restarted by its container (`restart:
unless-stopped`).  What survives a restart is the account, and the day keys in
Redis.  The evaluation runs one simulation per symbol in a thread of its own;
each blocks on scores that an event loop computes.

What is hard, and where the properties aim:

* **Stale reads in a tick.**  The cap, the size and the cash limit are judged
  against lists read at the start of the tick, while earlier orders may still
  be working.
* **Crash between two steps.**  The liquidation and the flag that records it are
  two calls to two services.
* **Expiry and midnight.**  Keys of a day must live until the day ends; a tick
  that straddles midnight keeps the day it started with.
* **Swallowed failures.**  A close that fails, an order whose reply is lost: only
  a later tick's reconciliation can repair them.
* **A veto is retried.**  A blocked entry stays alive for as long as its leg, so
  one veto makes two simulations of the same bars diverge for good; the
  comparison is honest only if nothing else differs.
* **A decision on a snapshot.**  The legacy hook judges every order of a model's turn,
  however long it lasts, against the account as it was before the turn.
* **A late answer.**  A tick awaits the model of the news filter once per candidate, and
  nothing limits how long.  Meanwhile the loop turns: the job comes up, the session opens
  or closes, keys expire, and what the tick read at its start grows old.
* **An order within a bar.**  The classic backtest decides exit and entry of a bar in
  one iteration, from data of different moments of that bar.
* **Threads against a loop.**  In the evaluation, simulations block on scores, scores
  on fetches, and the shutdown blocks the loop that both need; a process may die with
  everything it paid for still in memory.

What makes each part correct, in a line: the executor never exceeds its caps,
never buys on a paused day, and empties the book of a tripped day; the anchor of
a day never moves; the backtest without a blocking veto is the backtest without
a veto; a retry lives exactly as long as its leg; the live signal is the state
of the backtest; every veto is attributed to the trade it prevented; a score is paid
for once, a verdict on file stays, and a run ends; in the legacy engine one snapshot
bounds what a model's first entry may do, and no model keeps a stop from being sold; the
daemon's ticks do not overlap and never cease, judge closed bars only, and act on news no
older than the verdict's lifetime; the classic backtest holds what its signals ask for, and
nothing else.

## 2. The modules

| Module | Models |
|---|---|
| `Broker` | the account behind `market_data.py`: positions, working orders, cash; external, from how the wrapper is used |
| `KillSwitch` | the day keys with their expiry, the clock, the decision of `check` |
| `TrendTick` | `run_tick`, `check` and `close_positions` against the two above |
| `DailyGate` | the abstract promise of the risk limits: a bounded book and a gate that stays shut until midnight |
| `TickLedger` | `TrendTick` with a record of the symbols a tick could not see, and what holds of the others |
| `MCTrendTick`, `MCTickLedger` | values for TLC |
| `TrendTick_proofs`, `TickLedger_proofs` | theorems about `TrendTick` and `TickLedger` |
| `TrendSim` | `backtest_trend`, four runs of it over the same bars, and `desired_long` |
| `Attribution` | what `_attribute` derives from the two finished runs |
| `TrendSim_proofs`, `Attribution_proofs` | theorems about `TrendSim` and `Attribution` |
| `EvalReplay` | `replay`, `_LazyVeto`, `_Scorer` and `ScoreCache`, from one process to the next |
| `ScoreMemo` | the abstract promise of the score cache: a sequential table of verdicts |
| `MCEvalReplay` | values for TLC |
| `EvalReplay_proofs` | theorems about `EvalReplay` |
| `RiskHook` | `evaluate_order`, the decision on an order of the model |
| `LlmTick` | the legacy `run_tick` with the model's turn behind `RiskHook` |
| `MCLlmTick` | values for TLC |
| `LlmTick_proofs` | theorems about `LlmTick` |
| `NewsFilter` | what the model's reply comes to, when it blocks, and the key it is kept under |
| `Scheduler` | `TickScheduler` and the process around it: boot, job, gate, restart, the clock |
| `Daemon` | `run_tick` and `assess` as fired by `Scheduler`, over `NewsFilter` |
| `MCDaemon` | values for TLC |
| `Daemon_proofs` | theorems about `Daemon` |
| `ClassicSim` | `signal` and `backtest_symbol` |
| `ClassicSim_proofs` | theorems about `ClassicSim` |

Definitions whose comment starts with *Slip* are not part of the model.  Each is
a plausible mistake in the definition after it; substituting it must break the
property that `PROJECT.json` names, which shows that the property can fail.

The type invariant of every module (`TypeOK`, `LedgerTypeOK`) is a theorem, proved for
every value of the constants, and no run repeats it; section 5 ends with the other
properties of which that is true.

### The live tick: `TrendTick` over `Broker` and `KillSwitch`

*State.*  `pc` names the remote call the tick makes next.  The locals of
`run_tick` and `check` (`acct`, `tickDay`, `ref`, `ddPaused`, `toClose`,
`positions`, `openSyms`, `idx`) are variables because their staleness is the
subject.  Everything else is the broker's, or a day key with the hours it has
left to live.  `swept` is a history variable: the days on which a liquidation
ran to its end.

*Actions.*  One per remote call, with the local computation that follows it.

| Action | Code |
|---|---|
| `StartTick`, `AbortTick` | `scheduler.py` `_tick`; an exception outside the per-symbol handler, or the end of the process, at any `pc` |
| `GetAccount`, `GetAnchor`, `StoreAnchor`, `CheckDrawdown`, `StorePaused` | `get_account`, then `DrawdownMonitor.check` call by call |
| `ListPositions`, `SweepOne` | `MarketData.close_positions`, which swallows each failure |
| `GetPositions` | `get_positions_detail` and `open_syms` |
| `HistoryMissing`, `ReconcileHeld`, `ReconcileFlat`, `ClosePosition`, `AssessNews` | the loop over the watchlist; `get_history` failing or too short; the decision for a held and for another symbol; its sale; the news filter |
| `SkipBuy`, `BuyAccepted`, `BuyRefused`, `BuyReplyLost` | sizing and `submit_notional_buy` |
| `RecordTick` | the journal |
| `FillBuy`, `LapseBuy`, `FillClose`, `MarketMoves`, `OthersTrade`, `HourPasses` | the broker, the market and the other agents of the account; the clock and Redis |

*Abstractions.*  Daily bars are reduced to the answers the tick derives from
them (in trend or not, at the catastrophic stop or not, no usable history).
Money is whole dollars.  Profit shows in `equity`, which moves freely between
the levels given, and not in `cash`.  One read of the account and one of the
positions are two actions, but `get_account`, which the wrapper makes of two
requests, is one.  The other agents of the account (`docker-compose.yml` starts several on
one set of keys) hold symbols outside the watchlist.  What they hold is `others`: the
dollars their positions have taken from the cash and those their working orders will take,
any member of `OthersBooks`, changed at any moment by `OthersTrade`.  Their gains and losses
are part of `equity`, which moves freely.

*Fault hypotheses.*  Two constants say what the account may do to a tick.
`FillsLag`: may an order of an earlier tick still be working when the next one
starts?  `RepliesLost`: may an order be accepted and its reply lost?  Calls that
fail and processes that die are always possible, `MaxFaults` of them.

*What holds with neither* (market orders settle within the hour between two
ticks, replies arrive, any other call may fail and the process may die
anywhere): `ImplementsGate`, a refinement of `DailyGate`, with the positions and
the working buys as the book and today's flag as the gate; and
`PositionSizeCapped`.  Both are proved under these hypotheses; the runs check the more
general properties of `TickLedger` in their place.  *What holds in any case*: `NoEntryWhilePaused`,
`PausedMeansSwept`, `BreachStopsEntries`, `AnchorStable`, `KillSwitchFlattens`.
*What does not hold* is in section 4; how far it can go wrong is the next module.

### What a tick could not see: `TickLedger`

`TrendTick` with three history variables that no guard reads.  `unseen` are the symbols of
the book that were orders, not positions, when a tick listed positions, or whose order's
reply was lost; a symbol leaves the set when its orders and position are gone, or when a
tick buys it with an answer.  `excused` are the symbols that the closes of this tick may
miss: still an order when the positions were read, without history, or with a close that
failed.  `claimed` says that more is taken from the account than the cash the tick has read
shows: by orders working at the time of the read, by its own since, or by another agent.
Everything in this module is stated with no
hypothesis on fills and replies.

* `ImplementsSeenGate`: the book without `unseen` implements `DailyGate`.  `ImplementsGate`
  is the case in which nothing is unseen; here the cap is kept by what the ticks can see,
  and not even a lagging fill lets a symbol *enter* the seen book on a paused day.
* `CapUpToUnseen`, `SizeUpToUnseen`: the overrun of `cap_overrun` has exactly one cause.
  Nothing but an order no tick could see exceeds `max_open_positions`, and nothing but a
  second buy on top of such an order exceeds `max_position_pct`.
* `PausedTickSells`: a tick that knows the day is paused ends with every position being
  closed, but for `excused`.  It is the safety half of `KillSwitchFlattens`: what one tick
  does, where the liveness property says that enough ticks come.
* `OrderIsCovered`: the cap at the cash of the tick's start keeps its purpose ("so the final
  slot fills instead of bouncing") as long as the cash is not `claimed`, whatever this
  agent's orders do meanwhile and whatever the other agents give back.  `acct.cash` is not
  read again after an order, so a later order of the tick may bounce (`BuyRefused`); and on
  a shared account so may the first, when another agent takes cash after the read.

### The simulation and the live signal: `TrendSim`

*State.*  For each of four arms the locals of `backtest_trend` (`pos`,
`pending`, `deferred`, `trades`), the bars its veto was or would have been asked
on, and for the live signal the state `desired_long` computes from all bars so
far (`leg`).  The arms are the runs of the evaluation: `baseline` without a
veto, `open` and `blocked` with the two probes, `filtered` with a scored veto.
`downs`, `vetoed`, `retried` and `plain` are history.

*One action.*  `NextBar` is one iteration of the loop for all four arms: execute
at the open, check the stop, decide at the close.  The helpers carry the names of
the loop's parts.  The arms do not interact, so advancing them together loses
nothing and lets invariants compare them.

*Abstractions.*  A bar is a breakout, a breakdown or neither, with its close
above or below its average, and a set of positions whose stop its low reaches.
The last is wider than real prices: two positions of different entry price may
be hit in any combination, so what holds here holds for every history.
A breakout and a breakdown on one bar are impossible, as a high is never below a
low.  The arrays before the first bar (the warm-up) are the initial `leg` and
`regime`.  `desired_long`'s own minimum of bars is left out.

*Properties.*  `OpenIsBaseline` (a veto that never blocks changes nothing, the
identity the docstring calls "what makes the comparison an honest A/B"),
`ProbeIsSuperset` (the cost bound), `EntriesInLegs` and `RetryLastsTheLeg` (a
waiting entry lives exactly as long as its leg), `NothingLostUnasked` (no
baseline trade disappears without the filter having been asked),
`TradesDisjoint` (the lookup by entry is well defined), `TradesFollowDecisions` (no trade
of any arm looks ahead or lags: it was asked for and let through on the bar before its
entry, and it outlives no breakdown by more than the next open), `VetoOnlyDelays` ("News
can only block, not initiate": an arm is in the market only while the baseline is, but
for a leg in which the baseline was stopped), `LiveReadAgrees` (where the live signal and
the simulation agree).

### The attribution: `Attribution`

Every state of `TrendSim` is a history the evaluation may be given, so the marks
of `_attribute` are operators on a state: whether a veto starts a window, which
baseline trade prices it, whether the filtered arm got in anyway.
`NoWindowMerged`: two blocked opportunities are never counted as one.  (One may be
counted as two: a retry after a bar below the average starts a second window.)
`ReentryInSameLeg`: an entry credited as "merely delayed" is in the leg of the
veto.  `VetoesArePriced`: a veto that retries nothing is priced by the trade it prevented,
or falls into a trade of the baseline; a retry, of which the code says that it "won't
match", matches only when the baseline was stopped in the leg and enters it again.

### The threads of the evaluation: `EvalReplay`

*State.*  `sim` is the thread of each symbol (in the pool's queue, computing,
blocked on the score of a day, ended, or ended by an exception), `task` the task
table of `_Scorer` (how far the score of a key has come, from the request posted to
the loop, over the semaphore, the fetch pool and the LLM call, to the answer),
`memory` and `disk` the dictionary and the file of `ScoreCache`, `count` the counters
of the result, `vetoes` the keys recorded.  `phase` says whether the event loop runs
or sits in `pool.shutdown`.  `calls`, `unsaved`, `unread`, `blind` and `returned` are history.

| Action | Code |
|---|---|
| `StartRun`, `Return`, `Kill` | `replay` and the process around it: load the file, or pass over one that cannot be read, and submit the simulations; gather, save, return; the process is killed |
| `PickUp`, `Ask`, `Consult`, `ConsultRaises`, `EndSim` | a worker of the simulations' pool: `_LazyVeto.__call__` posts a request, blocks, applies `should_block` or raises |
| `LookUp`, `Acquire`, `CallModel`, `AnswerWithoutScore`, `ModelReplies` | `_Scorer.get` and `_compute`, from one await to the next |
| `BeginFetch`, `EndFetch` | a worker of asyncio's default pool |
| `GatherRaises`, `ShutdownEnds` | the `finally` of `replay`, on the loop |

*Abstractions.*  What a simulation computes between two scores is `TrendSim`; here
it asks for any later day, or ends.  The key of the cache is symbol and day, as
lookback, prompt and model are fixed in a run.  A verdict is one that `should_block`
blocks, one it passes, or an error.  A file that does not parse is an empty one, which
is what the loader makes of it.  One that cannot be read (`OSError`) leaves the process with
an empty memory too, but what is on file is still there for the next one, until `save()`
replaces it; `unread` counts these processes, and `blind` says that this is one.
A malformed record is JSON that is not a `Sentiment`.
The save is one step, because it writes a temporary file and renames it.

*Properties.*  `PaidOnce` (a key costs one LLM call, and one more at most for each
process that ended without saving or could not read the file), `VerdictsStick` (no step
loses or replaces what is on file, but for the save of a run that could not read it),
`ActivityAddsUp` and `VetoesAreBlocks` (counters of the loop, vetoes of
the threads and the file agree when the result is returned), `RunsEnd` (with a readable
cache, a run that is not killed returns its result: nobody waits for ever, and nothing
raises).  Its safety halves are properties of their own: `NeverStuck` (while the loop
runs, something can go on or the run is over), `FailuresAreCaught` (with a readable cache
nothing raises) and `OnlyForward` (every step takes a simulation or a score further and
none back).  `ImplementsMemo` says what the threads add up to: the module refines
`ScoreMemo`, a table that is opened with the file or, counted, with nothing, pays only for
what it does not know, learns each verdict once, and is either closed, keeping all it knows
and nothing else, or lost whole.

### The legacy tick: `LlmTick` with `RiskHook`

*State.*  `pc` names the call `run_tick` makes next; `ctx` is the `RiskContext`, `toExit`
the positions found across their stop or target.  The account is `held` (positions of
every agent), `closing` (of which a sale is working), `buys` (working entries, and whether
each is older than an interval) and `crossed` (positions beyond stop or target).  `entered`
and `unsettled` are history.

| Action | Code |
|---|---|
| `StartTick`, `RecordTick`, `AbortTick` | `_tick` of the scheduler; the journal; an exception nobody catches, or the end of the process |
| `Reconcile` | `cancel_stale_orders`, each failure passed over |
| `GetAccount` | `_gather`: the account, then the bars, without the symbols that have none |
| `ListExits`, `ExitOne`, `ExitsDone` | `_enforce_software_stops`: the positions across their stop, but for one without any price, each closed on its own |
| `CheckDrawdown` | `DrawdownMonitor.check` in one step, as `TrendTick` has its details |
| `PlaceOrder`, `CloseCall`, `CancelCall`, `EndTurn` | the model's turn: any calls it likes, entries through `EntryAllowed`; a denied call does nothing |
| `FillBuy`, `RejectBuy`, `BuyTurnsStale`, `FillClose`, `MarketMoves`, `OthersTrade` | the account at any moment, the wall clock and another agent included |

*Abstractions.*  The long-only profile, which has software stops and no resting
brackets.  A model is any sequence of calls.  Money is left out: an order is within
the size limit or beyond it.  An order's age is by the wall clock, as the cutoff of
`cancel_stale_orders` is, and not by ticks: a boot tick begins at once after a restart, so
an order may outlast several ticks, or turn stale in the middle of one (`BuyTurnsStale`).

*Properties.*  `FirstEntryRespectsCap` is what the snapshot does give: the first entry
of a turn keeps the cap, unless an older entry was working at the read.  Later entries
of the same turn are judged against the same snapshot and may exceed it, which
`docs/agent-loop.html` concedes.  `NoStacking`: "so they don't ... stack when a venue fills
slowly"; however many entries the model adds and the venue never fills, the account is again
and again without one older than an interval, although a reconciliation may fail.
`StopsExit`: a position does not stay across its stop for ever, although a turn may
cancel every order, the close just sent included, since no hook matches
`cancel_all_orders`.  It needs turns to end: `docs/architecture.md` says that a "model
that hangs" could never prevent an exit, but nothing bounds `receive_response` and no
tick starts while one runs.

### The daemon: `Daemon` over `Scheduler` and `NewsFilter`

*State.*  The clock counts slots of one tick interval since midnight.  `up` and `once`
are the process and its `TRADER_RUN_ONCE`; `due` says whether the interval job is due
now or behind its time; `running` is `_running`; `at` is the call that each of the two
tasks, boot and interval, makes next, and `span` the slots since the tick began.
`verdicts` are the keys `news:<symbol>`.  Of the locals of a tick there are
`market_open`, the place in the watchlist and the `Sentiment` about to be stored.
`sawPartial`, `said` and `outcome` are history: whether a bar in progress was judged,
what the model said of a symbol last and how long ago, and what the last candidate came
to.

| Action | Code |
|---|---|
| `Boot`, `BootFails` | `main.py`: health checks, then `run_tick` once, or `start()` with the boot tick |
| `Fire` | the interval job, with `coalesce`, `max_instances=1` and the default misfire grace |
| `ReadClock` | the one `is_market_open` of a tick, which counts as open when it fails |
| `ReadBars`, `KeepsPartial` | `get_history`, `completed_bars` and the signal |
| `LookUp`, `FetchNews`, `ModelReplies`, `Store` | `assess`, from one call to the next, and `should_block` behind it |
| `RecordTick`, `Raise` | the journal and the end of the tick; an exception nobody in `run_tick` handles |
| `Kill`, `TimePasses`, `KeyExpires` | the process, the clock and Redis |

*Interleaving.*  The event loop is one thread.  A task that is in synchronous code holds
it; only a task that awaits the model (`scoring`) lets another go on (`HasLoop`).  That
is the one place at which the boot tick and the job can meet.

*Abstractions.*  What a tick does to the account is `TrendTick`; here a symbol is a
candidate or not.  A day has no weekday.  A verdict is its label, whether its confidence
reaches the minimum, the earnings flag and the error flag; `parse_sentiment` is modelled
by what it makes of a reply without JSON, with an unknown label, with a confidence
that is no number, or with a text for a boolean.  The properties judge a reply by what it
says and not by what the parser makes of it (`Adverse`, `Denial`): near earnings are
adverse as a boolean or as a text.  `Crypto` are the symbols that trade around the clock; one
of them in the watchlist switches the market-hours gate off (`has_crypto`).

*Hypothesis.*  `MaxSpan`: a tick is over before a night has passed.  Nothing in the code
bounds the model's answer; without the bound a tick that read the clock in one session
could judge the bars of the next one.

*Properties.*  `NoOverlap` (two ticks never run at once, and `_running` says exactly
whether one does, after every exception), `ClosedBarsOnly` (no scheduled tick judges a
bar still in progress, without crypto in the watchlist), `DecidedOnNews` (an adverse word of
the model always blocks, an error or a harmless word never does, and the word decided on is
no older than the key's lifetime plus the tick that heard it), `PaidOncePerTTL` (the model is asked about a symbol once in the
lifetime of its key, over ticks and restarts, errors included), `TicksKeepComing`.

### The classic backtest: `ClassicSim`

*State.*  The snapshot of the last bar, the signals so far, the position with its entry
bar, the trades, and whether the loop is over.

*Actions.*  `NextBar` is one iteration: leave by signal at the open, or by stop or target
within the bar; enter at the open if flat by then; compute the signal at the close.
`End` closes what is open.  The code computes all signals in a pass of its own before
the loop; as a signal depends on nothing but the bars up to its own, the two passes
advance together.

*Abstractions.*  A snapshot is what `signal` asks of it.  Whether a bar reaches stop or
target is free, the code's order of the two checks is not.

*Properties.*  `WithTheTrend` (with the filter on no signal goes against a strong trend,
and no breakout is cancelled by a reversal), `ExposureFollowsSignal` (after every bar the position
is what the signal before the bar asks for, or none on the bar of a stop or target, where
the property leaves open whether the code enters again: it does, see `classic_reentry`),
`TradesAreWanted` (a trade was wanted on every bar it was held, and
ended by signal exactly if it no longer was).

## 3. The runs

| Run | Configuration | Bounds and why they are enough |
|---|---|---|
| `trend_tick` | `TrendTick.cfg` | 3 symbols and a cap of 2, so that the cap binds while a candidate is left; 2 days of 2 hours with keys of 3 hours, so that keys are written late, outlive midnight and expire; 2 equity levels on both sides of the limit; replies that are lost and 2 faults, so that a failure meets a crash; 40 % positions of 100 dollars, so that a third buy, after a lost reply, is refused for cash; other agents that hold nothing, or have taken 45 dollars and ordered for 45 more, so that a first buy may be refused as well; a smallest order of 33, which 40 % of the lower equity does not reach. About 1,803,000 states |
| `trend_tick_live` | `TickLedger.cfg` | 2 symbols, cap 1, one day, orders that lag, replies that are lost, 2 faults: a leftover of the liquidation needs one fault or one lagging buy, an overrun of the cap one of either, and a second buy of a symbol too; 40 dollars, equity of 80 or 120 and shares of a quarter, so that two positions do not fit; other agents that hold nothing, 25 dollars, or an order for 25, so that after theirs not even one may; a smallest order of 20. About 200,000 states |
| `trend_sim` | `TrendSim.cfg` | 7 bars with the regime filter, which contain veto, pause below the average, retry, entry, stop, second leg and second veto. About 157,000 states. It ends after the last bar, so deadlock is not checked |
| `eval_replay` | `EvalReplay.cfg` | 3 symbols, so that the semaphore of 2, the pool of 2 and the one fetching thread are all short; one day each, as the days of a symbol are asked for one after the other and share nothing; 2 processes and one kill, so that the second finds what the first saved, or lost; one record that may be malformed from the start; a file of that one key that the second process may fail to read (`UnreadKeys`, `CleanRuns`), so that it pays again and its save replaces the file. About 557,000 states |
| `llm_tick` | `LlmTick.cfg` | 2 symbols, a cap of 1 and one symbol of another agent, so that the cap binds and the other agent may take the slot; 2 calls in a turn, so that a close sent is cancelled or a second entry follows the first; 2 working entries, each of which may turn stale at any moment; 1 fault; bars of one symbol may be missing. About 276,000 states |
| `daemon` | `Daemon.cfg` | 2 symbols, so that one awaits the model while the other is to come; a day of 4 slots with a session from 1 to 3, so that ticks begin before, in and after it and straddle both bells; ticks of up to 2 slots, which is a night; a lifetime of 2 slots, so that keys expire within a tick and between ticks; three replies, one adverse though it denies earnings by the text "false", one without a known label that denies them by "no", one without JSON; no crypto; 1 fault anywhere. About 933,000 states |
| `classic_sim` | `ClassicSim.cfg` | 4 bars, which contain entry, stop, entry again, flip and close; both directions, breakouts and the trend filter on. About 133,000 states. It ends after the last bar, so deadlock is not checked |
| `cap_overrun`, `lost_latch` | `*.cfg` | the live tick with the one hypothesis each needs; see section 4 |
| `faithful_read`, `fail_open`, `classic_reentry` | `*.cfg` | the instances above, with 6 and 3 bars for the two simulations and a watchlist with crypto in `fail_open`; see section 4 |

**Fairness.**  In `trend_tick_live`, `WF(Tick)`: the interval job
fires again and again and the container restarts the process, so a tick that can
take a step takes one; failures are bounded by `MaxFaults` and owe nothing, which
also bounds how often a symbol's history is missing (a symbol delisted for good
is never sold by this engine, see the hazards).  Weak fairness of fills: a working
order is filled or, as a DAY order, lapses, and a close is filled.  Nothing is
assumed of the clock, so the property reads: while the day and its session last.

In `eval_replay`, `WF(Progress)`: some thread, task or call that can go on does.
Threads and the loop are scheduled, and a fetch or an LLM call ends, with a result or
an error; one that never does hangs the run, as the code sets no timeout.  Nobody has
to start a run or to kill one.

In `llm_tick`, `WF(Tick)` for the code's own steps and nothing for the model's: that a
turn ends is the hypothesis of `StopsExit` and `NoStacking`.  `SF(FillClose)`: a market close that is
sent again and again is filled in the end, even if some are cancelled before; with weak
fairness a model that cancels everything in each turn would prevent every exit.

In `daemon`, `WF(Tick)`: a task that can go on does, which includes that the model answers
in the end; `WF(Scheduling)`: the loop runs a due job and the container starts an ended
process again; `WF(TimePasses)`.  Weak fairness is enough: a tick cannot be
held up for ever by anything but the model, and each of the three is enabled until it
happens.

## 4. What the code does not keep

Each is a run that must fail, with the sentence of the repository it contradicts
quoted in `PROJECT.json`.

* `cap_overrun`: a buy that is still working at the next tick is neither a
  position nor in that tick's `open_syms`, so the book outgrows
  `max_open_positions`.  `CapUpToUnseen` says that this, and a lost reply, are the only
  ways.
* `lost_latch`: a crash or a Redis failure between liquidation and flag leaves a
  liquidated day unlatched; if equity is above the limit when the next tick looks,
  the same day buys again.
* `faithful_read`: `desired_long` is false below the average and true after a
  stop; the simulation holds below the average and waits for a new breakout after
  a stop.  `LiveReadAgrees` says where the two do agree.
* `fail_open`: `assess` reads and writes its key outside the `try` that fails open; when
  Redis fails there, the entry is dropped.
* `classic_reentry`: after a stop or target within a bar the classic backtest enters again
  at the open of that same bar, before the exit.

Some divergences are visible in the models and have no run of their own.
`close_positions` says it cancels the open orders of its symbols and cancels none; such a
buy fills after the liquidation, and `KillSwitchFlattens` shows that a later tick sells it.
The notional is capped by the cash the tick *started* with, so after earlier buys the last
one is refused (`BuyRefused`).  `docs/agent-loop.html` concedes both in its section "What
these diagrams do not guarantee".  A record of the score cache that is JSON but no
`Sentiment` raises in the scorer and ends the run without a result, which is why `RunsEnd`
asks for a readable cache; `FailuresAreCaught` says that nothing else does that.  A cache file
that exists and cannot be read is passed over (`eval/cache.py:33-37`) and, at the end of the
run, replaced by what that run alone has scored (`:48-52`): an intact file of many runs may be
lost to one failed read.  `VerdictsStick` and `PaidOnce` name this run as their one exception.
A file that is no UTF-8 text or no JSON object raises, although the comment at `:36` says
that "a corrupt cache must never fail the run"; the model leaves such files out.  An error is
saved like a verdict, so later runs answer with it.  A reply of the model that denies near
earnings by a text blocks the entry for the lifetime of the key, since `bool("false")` is true
(`news.py:68`); `DecidedOnNews` leaves open what such a reply comes to.  A watchlist with crypto
and `mode: trend` would judge bars in progress, as its ticks run while the US session is closed
and `completed_bars` then keeps the last bar; no shipped configuration is of that kind, and
`ClosedBarsOnly` is stated for watchlists without crypto.

## 5. What is proved

TLAPS checks the following for every value of the constants that satisfies the
named assumptions (`BrokerAssumption`, `KillSwitchAssumption`,
`TrendTickAssumption`, `FaultModelAssumption`, `TrendSimAssumption`,
`EvalReplayAssumption`, `RiskHookAssumption`, `LlmTickAssumption`, `NewsFilterAssumption`,
`SchedulerAssumption`, `DaemonAssumption`, `ClassicSimAssumption`): any watchlist without duplicates, any cap,
any number of days, faults, bars, symbols, workers and processes, any session and
lifetime.  The assumptions that matter are `HoursPerDay <= KeyHours`, keys live at least a
day, and `MaxSpan <= OpenAt + DayLength - CloseAt`, no tick outlasts a night.

**`TrendTick_proofs`.**  Typing first; then one invariant per concern, each
inductive relative to the typing.

* `NoEntry` (`NoEntryWhilePaused`).  Inductive: `PauseKeys` (no flag is of a day
  to come, and today's flag has enough life left to reach midnight) and
  `PauseFlag` (once `check` has decided, the tick's copy is not older than the
  flag, and only a tick whose copy says go pursues a candidate).  The property
  alone is not inductive: it says nothing of a tick that read the flag before it
  was set, nor of one that crosses midnight.
* `PauseAfterSweep`, `BreachIsNotTraded`.  Inductive: `SweepRecord`, which carries
  the completed liquidation from the sweep to the flag and from there into the
  loop.
* `AnchorIsStable`.  Inductive: `AnchorKeys`, the counterpart of `PauseKeys`; it
  also says that a tick about to write an anchor found none.
* `CapHolds`, `SizeCap`, `TickImplementsGate`, each assuming `~FillsLag` and
  `~RepliesLost`.  Inductive: `SlotLedger`: nothing is being bought when the
  positions are read; from then on `openSyms` covers the whole book, and what it
  has gained are symbols the loop has passed, so a symbol about to be bought is
  not in the book.  The refinement maps every step to `Enter`, `Leave`, `Halt`,
  `NewDay` or a stutter; that `Halt` happens once uses `PauseKeys`.
  `CapHolds` states `CapRespected`, which the run `cap_overrun` violates with
  lagging fills: the hypothesis is needed.  `BuySize`, what one buy may add, is a lemma of
  its own.

**`TickLedger_proofs`**, on top of those, without the two hypotheses.

* `LedgerTyping`; `CapHoldsUpToUnseen`, `SizeHoldsUpToUnseen`.  Inductive: `SightLedger`,
  which is `SlotLedger` with the book replaced by its seen part: from the read of the
  positions on, whatever is in the book and not in `openSyms` is unseen.
* `TickImplementsSeenGate`: every step of the tick maps to `Enter`, `Leave`, `Halt`,
  `NewDay` or a stutter.  Reading positions makes the book that is seen shrink by all
  orders then working, which is why `Leave` takes a set.
* `OrdersAreCovered` (`OrderIsCovered`).  Inductive: `CashLasts`, nothing but an order or
  another agent takes from the cash that is free (`MeansLast`: a fill takes what was reserved
  for it, and the account's other movements give cash back or make the cash `claimed`).
* `PausedTickSellsAll` (`PausedTickSells`).  Inductive: `PausedLoop`, every position is
  excused, being closed, or of a symbol the loop has still to come to (`ToCome`); at the
  end of the watchlist there is none of the last.

**`TrendSim_proofs`.**

* `Typing`; `Identity` (`OpenIsBaseline`, with `NeverDeferred`: without a block
  nothing is deferred); `UpperBound` (`ProbeIsSuperset`, with `BlockedWaits`: the
  blocked arm is flat and waits wherever another arm waits); `LegsOnly`
  (`EntriesInLegs`, with `DeferredInLeg`); `NothingLost`; `TradesApart`
  (`TradesDisjoint`, with `TradeOrder`: closed trades lie before the open
  position); `LiveReadIsFaithful` (`LiveReadAgrees`, with `LiveInv`).
* `TradesAreOnTime` (`TradesFollowDecisions`).  Inductive: `OnTime`, what is pending was
  decided on the last bar, and a position has met no breakdown but one of the last bar,
  which then is pending to sell it.
* `VetoAddsNothing` (`VetoOnlyDelays`).  Inductive: `Shadowed`, which extends the property
  to an arm that waits: a retry outlives the leg no more than a position does.

**`Attribution_proofs`**, on top of those.

* `RetryLives` (`RetryLastsTheLeg`).  Inductive with `Past`: vetoes and breakdowns are of
  bars gone by, and a position of the filtered arm was entered after every veto, so that
  whatever the arm enters and sells ends the wait of all earlier vetoes.
* `WindowsApart` (`NoWindowMerged`), with `VetoWaits`: a veto leaves its entry waiting.
* `DelayInLeg` (`ReentryInSameLeg`), from `OnTime`: the baseline holds a position through
  no breakdown, and a breakdown is never vetoed (`NoDownVetoed`).
* `PricedAtTheRightTrade` (`VetoesArePriced`).  Inductive: `Priced`.  A veto of something new
  has the baseline in a trade or about to enter one (`Covered`), and a retry has it in a
  position entered before, or stopped; closed trades and the past of a veto do not change.

**`EvalReplay_proofs`.**

* `Typing`, with `Alive`: a process that runs is not counted as ended, and a
  simulation that waits has asked for a day.
* `Waiting` is the invariant the others rest on: an unfinished score has its
  simulation blocked on it, no task exists for a day ahead of the simulation, and a
  score is computed only for a key the cache did not have.
* `ScoresPaidOnce` (`PaidOnce`).  Inductive: `Ledger`, which says who may have called
  for a key that is neither on file nor being scored: only processes that ended
  unsaved, or could not read the file.  Saving needs `NothingPending`: when all simulations have ended no score
  is under way.
* `VerdictsStay` (`VerdictsStick`).  Inductive: `Loaded`, memory agrees with the file unless
  the process could not read it.
* `VetoesAreScored` (`VetoesAreBlocks`).  Inductive: `Recorded`, the vetoes are the
  blocks answered whose simulation no longer waits.
* `CountersAddUp` (`ActivityAddsUp`).  Inductive: `Tally`, the same sum with the answers
  that are there and have not been taken by their simulation (`Unread`) counted as
  consulted; a step of a score adds to `Unread`, a consultation takes from it.
* `NobodyIsStuck` (`NeverStuck`).  Inductive: `Heard`, a simulation that waits has a task
  under its key.  With every simulation blocked, some task is then at a place where it can
  go on, since a task that waits for a permit or for the pool waits for one that has it.
* `OnlyTheCacheRaises` (`FailuresAreCaught`).  Inductive: `Caught`, what raises is a task that
  found a malformed record.
* `ProcessesGoForward` (`OnlyForward`), one lemma for the simulations and one for the scores.
* `EvaluationImplementsMemo` (`ImplementsMemo`): every step maps to `Open`, `OpenBlank`, `Pay`,
  `Learn`, `Close`, `Lose` or a stutter.  That `Close` finds nothing paid for and unanswered uses
  `NothingPending`; that a score is paid for and learned once uses `Waiting`.

**`LlmTick_proofs`.**

* `Typing`.
* `FirstEntryWithinCap` (`FirstEntryRespectsCap`).  Inductive: `SnapshotCovers`, from the
  read of the account to the turn's first entry the snapshot covers the book; only an
  entry adds to the book, whatever fills.

**`Daemon_proofs`.**

* `Typing`, with `AtCandidate`: a task that assesses news has a symbol to assess.
* `TicksNeverOverlap` (`NoOverlap`).  Inductive: `OneTick`, which adds to the property
  that only a process that is up has a tick, and that a run-once tick is the boot task's.
* `CompletedBarsOnly` (`ClosedBarsOnly`).  Inductive: `Gated`: without crypto, `Late` (a scheduled
  tick that is on outside the session began in the one before, so `span` counts at least the
  slots since its close) and `Told` (a tick that was told the market is closed runs while it
  is).  As a tick lasts no night, no session opens while one is on (`NightIsLong`), so
  a tick that was told "closed" meets no bar in progress.
* `EntriesFollowTheNews` (`DecidedOnNews`).  Inductive: `Known`.  A verdict on file or about
  to be stored blocks if the model's last word was adverse and passes if it was harmless
  (`Suits`, from what `parse_sentiment` makes of each reply, `ReplySuits`), its age and the slots
  the key has left add up to no more than the lifetime and the tick (`Fresh`), and while
  a task is between look-up and store there is no key (`Unfiled`).
* `ModelIsPaidOnce` (`PaidOncePerTTL`).  Inductive: `Kept`, without failures a key dies no
  earlier than its lifetime after the word it keeps.

**`ClassicSim_proofs`.**

* `Typing`, and `BreakoutSelfAligns` (`WithTheTrend`), which follows from the typing and
  the definition of `signal`.
* `SignalsAreActedOn` (`ExposureFollowsSignal`), inductive with the typing.
* `TradesWanted` (`TradesAreWanted`).  Inductive: `Books`, every closed trade lies in the past
  and is justified by signals that later bars do not change; `PositionIsWanted` says the
  same of the open position.

**Proved and in no passing run.**  The type invariants; `ImplementsGate` and
`PositionSizeCapped`, the cases of `ImplementsSeenGate` and `SizeUpToUnseen` in which no order
is unseen; `EntriesInLegs`, the leg of an entry about to be made, where `VetoOnlyDelays` and
`TradesFollowDecisions` speak of whole trades; `OnlyForward`, the measure behind `RunsEnd`; and
`CapRespected`, which holds under the hypotheses of `CapHolds` alone.

**Only model-checked.**  `KillSwitchFlattens`, `RunsEnd`, `StopsExit`, `NoStacking` and
`TicksKeepComing`: liveness under fairness and `ENABLED` are beyond TLAPS.  The safety
halves of the first two are proved: `PausedTickSells`, and `NeverStuck` with
`FailuresAreCaught` and `OnlyForward`.  Every safety
invariant and action property of a passing run is proved.  Recursion over data is not
used in any module with theorems: the proof system can neither unfold `RECURSIVE`
operators nor instantiate an induction theorem.

## 6. What is not modelled, and the plan

Not modelled for good: indicators and metrics (floating-point formulas without
state), prompts, reports, the parsing of configuration, the download of bars, the text of
headlines.

Not modelled yet, in the order they would be worth it; each with its mutants and, where
an invariant allows, its theorems.

1. `LlmTick` with resting brackets (the profile of equities that is not long-only):
   `cancel_stale_orders` takes any old open order of the watchlist, the legs that
   protect a position included.
2. Two agents on one account: namespaced keys, shared equity and cash, one anchor each.
3. `Daemon` and `TrendTick` composed: entries, exits and news in one tick.  The two share
   no variable but the place in the watchlist, and the product of their states is beyond
   TLC; the proofs of each would carry over.
4. The journal against the orders of the account, should the code come to read it.

The hazards that wait for these modules are in `PROJECT.json` with a note.
