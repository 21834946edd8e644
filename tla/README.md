# Formal models of hybrid-trading-bot

TLA+ models of the trading bot, the TLC configurations that check them and
theorems checked by TLAPS. The reference is the code under `src/`; where a doc
and the code disagree the model follows the code and a run that finds the
disagreement records it ("Findings" below).

## 1. The system

The bot consists of a Rust engine that turns ticks into shadow orders, Python
tools around it that watch the engine or run further shadow strategies against
prediction-market venues, and a Streamlit dashboard that reads the engine's
database.

| Part | State | Operations | Interacts with |
| --- | --- | --- | --- |
| **Task pipeline** `engine-rust/src/{main,ingest/mod,strategy,execution,persist}.rs` | three bounded mpsc channels, the tasks' program counters and locals, the batch of the persist task, the metrics, the shutdown broadcast | produce, send, receive, generate a signal, veto or execute it, offer to persist, flush by size, by timer or at the end, shut down, join, give up after 5 s, exit 13 on overload | the SQLite database; the operator (CTRL-C), systemd |
| **Risk-cap tracker** `execution.rs` `ExposureTracker` | total, per-symbol exposure, open orders | `check_and_update`, `release` | owned by the execution task |
| **SMA rule** `strategy.rs` | window of 20 prices, previous difference | one step per tick | the strategy task |
| **Database replay** `ingest/mod.rs` `run_replay_db` | offset, page, rows of `ticks` | fetch page, send tick, stop | reads the table that the persist task writes |
| **WebSocket ingest** `ingest/mod.rs` `run_mock_ws`, `ingest/realws.rs` | connection, source index, last message time | connect, read, ping, fail over, back off, stop | mock server or exchanges |
| **Start-up** `main.rs`, `config.rs`, `db.rs` | configuration, PRAGMAs, schema, exit code | load, override, validate, open, verify, migrate | systemd (`RestartPreventExitStatus=12`) |
| **Venue books** `venues/*.py`; `ingest/venuebook.rs`, `strategy.rs` `classify_thin_book`, `shared/venue_book.py` | attempts of a fetch | fetch with retries, parse, normalise, judge; classify | Kalshi and Polymarket over HTTP; the runners |
| **Official price** `sources/`, `eligibility/`, `feeds/` | none | read the rules, check a market, ask the exchanges in order | three exchanges; the shadow runner |
| **Discovery and readiness cache** `polymarket/`, `venues/polymarket_discovery.py`, `scripts/verify_shadow_pipeline.py` | cache of probe results with expiry times | list, filter, rank, probe with retries, select | Gamma and CLOB HTTP services |
| **Shadow runner** `scripts/run_shadow_stale_edge.py`, `strategies/stale_edge.py`, `risk/rules.py` | return model, rate slots, exposure, feed abort | one turn: price, book, decision, limits, order or cancellation | price feeds, venue books, journal |
| **Shadow artifacts** `recorder/*.py`, `scripts/run_shadow_enhanced.py`, `scripts/run_shadow_prod_entrypoint.py` | journal, summary and health files; the rows of the run | append, trim to a bound, replace by rename, copy, publish | systemd timer under flock; CI readers |
| **Soak controller** `scripts/soak_2h.py` | ladder rung, stall detector, exit action | poll, throttle, rewrite configuration, restart | engine through systemd, database |
| **Dashboard** `dashboard/` | last ids seen | incremental queries | the engine's database |
| Legacy engine `engine/`, shell scripts, units, recorded data | none of interest | | |

What is hard here, in one list (`PROJECT.json` "hazards" has the lines):

* four tasks run on several threads; three of them feed one persist channel,
  and every `try_send` may find it full at another moment;
* three policies meet on full channels: the ingest task ends the process (exit
  code 13), the strategy drops and counts a signal, strategy and execution drop
  an event for the database without counting it;
* the shutdown is a cascade: only the ingest task hears the broadcast, every
  other task ends because its last sender went away, and a five-second timer
  races them all;
* a batch is written row by row, without a transaction and without retry;
* a kill or an exit can fall between any two steps;
* admission and release of exposure are far apart and must match;
* the shadow runner's limiters, caps and cancellation each may refuse after the
  one before has acted, on feeds whose clocks disagree;
* the soak controller reads the unit's state, the pressure and the tick table one
  after the other while engine and systemd go on;
* a market is chosen through a cache and a budget of probes, at a venue that may
  answer late, again or not at all, and closes while it is being looked at;
* the unit of a Kalshi price is guessed from the prices of the book;
* three artifact files are replaced one after the other, by two programs, either of
  which may be killed or fail to write at any point.

### What makes each component correct

* Pipeline: every tick reaches the strategy once and in order; every signal is
  executed, vetoed or counted as dropped; every event handed over is written,
  refused by the database or turned away, once, in order, a trade after its
  order; counters add up to rows; a shutdown ends the process by itself; the
  trading tasks never wait for the database.
* Tracker: caps hold, counters equal the orders outstanding, vetoes are
  justified.
* SMA rule: equals its definition over the whole price history, whatever the
  window drops.
* Replay: every stored row is replayed once; a shutdown is heard.
* WebSocket ingest: a lost connection is replaced, a silent one gets its ping in
  time; a shutdown ends the task in every phase.
* Start-up: nothing runs on an invalid configuration or without its PRAGMAs; a
  configuration error is never restarted.
* Venue books: accepted quotes are the venue's best quotes however it sent them, and
  a good book is accepted however it came; the same verdict in Rust and Python.
* Official price: of the asset the rules name, for a market still open.
* Discovery: a cached verdict is never used beyond its lifetime, and the selection
  ends with the best market that the venue calls ready.
* Shadow runner: limits hold over any sequence of turns; a silence of the feeds
  and the end of the market are final.
* Artifacts: a reader sees a complete old or a complete new file; journal, summary
  and health tell one story; no run is published before it has succeeded.
* Soak: whoever starts the engine starts it at the rate of the ladder; no stall is
  missed or invented; the end is patient and leaves no engine running.
* Dashboard: every row is shown once.

## 2. Modules

| Module | Role |
| --- | --- |
| `ExposureTracker` | the tracker alone, for any caller that releases what it was admitted with |
| `EventJournal` | abstract: what the engine promises about persistence, an at-most-once journal |
| `Pipeline` | the four tasks and main; instantiates the two modules above |
| `SmaStrategy` | the crossover rule of the strategy task, which `Pipeline` leaves open |
| `ReplayDb` | replay from the database, with the writer and the shutdown it meets |
| `WsIngest` | the two WebSocket modes of the ingest task, with servers and network |
| `ShadowRunner` | the stale-edge shadow runner: strategy, limiters, exposure |
| `SoakController` | the soak controller, with the engine and systemd around it |
| `Ranking` | operators: what sorting comes to, each element at its place; for `ORDER BY` in `ReplayDb` and `sorted` in `ClobReadiness` |
| `VenueBooks` | operators: what the two parsers make of a venue's answer |
| `OfficialFeed` | operators: source of the rules, eligibility, routing of the price feeds |
| `ClobReadiness` | listing, ranking, probes and their cache: the selection of a Polymarket market |
| `MarketAccess` | composes the three modules above as the three programs do that go from a venue to a decision's inputs |
| `ShadowArtifacts` | the two writers of the shadow artifacts, with crashes and failing writes |
| `MCExposureTracker`, `MCPipeline`, `MCSmaStrategy`, `MCReplayDb`, `MCWsIngest`, `MCShadowRunner`, `MCSoakController`, `MCMarketAccess` | small instances for TLC |
| `EngineRulesProofs`, `PipelineProofs`, `ReplayDbProofs`, `WsProofs`, `ShadowRunnerProofs`, `SoakProofs`, `MarketProofs`, `ArtifactsProofs` | theorems and their proofs; `EngineRulesProofs` is about `ExposureTracker` and `SmaStrategy`, whose properties are both sums, `PipelineProofs` includes the refinements of `EventJournal` and `ExposureTracker`, `MarketProofs` is about `MarketAccess` with the three modules it composes |

### Pipeline

A task runs without yielding between two `.await` points, but the runtime is
multi-threaded, so every `try_send` is an action: `IngestTick` is the first half
of `send_tick`, `IngestPersist` the second; `StrategySend` and
`StrategyPersist`, `ExecOrder` and `ExecTrade` are the two sends of their tasks.
The variables `ingestPc`, `strategyPc`, `execPc`, `persistPc` and `mainPc` say
which send or await comes next. What follows a send without another task being
able to see it (a counter, `release`) belongs to the send's action.

A tick is its number, an event a kind and a tick number, since a tick has at
most one signal, a signal one order, an order one trade. Prices are abstracted:
whether a tick makes the averages cross is a choice (`MayCross`). `db` is the
rows of the four tables in commit order; `rejected` and `unrecorded` are history
variables for the events the database refused and the ones a full channel turned
away. `exit` says how the process ended; no action is possible afterwards. A kill
needs no action: it cuts a behaviour short, and the safety properties hold of
every prefix.

`Mode` chooses between `run_synthetic` (selects between its timer and the
broadcast) and `run_replay_file` (asks for the shutdown, then reads a line, and
reports the end of the file to main). `RunSeconds` says whether `--seconds` is
given, because main then listens to nothing but its timer.

### EventJournal as abstraction

`Pipeline` implements `EventJournal` under the mapping `pending <- buffer \o
persistQ`, `journal <- db`, `discarded <- rejected \cup unrecorded`. A hand-over
must be fresh (ascending per kind, a trade after its order), so the refinement
says that no event is handed over or written twice, that rows keep the order of
hand-over across channel and batch boundaries, and that the journal is closed
only when drained. `Held` maps the execution task to `ExposureTracker`'s history
of outstanding orders: the task satisfies the protocol the tracker's properties
assume.

### SmaStrategy and ReplayDb

`SmaStrategy` has one action per path through the loop body (warm-up, first
difference, comparison) and keeps the whole price history beside the bounded
window, so that its properties can say what the rule should have emitted. Means
are compared through the windows' sums, weighted by the lengths.

`ReplayDb` models the table `ticks` by its time stamps. A row visited is sent
(one in `SampleEvery`) and appears in `pending`, the way to the persist task,
which inserts it into the same table as `ts / 1000` or fails. `shutdown` is the
one message of the broadcast: taken by whichever `try_recv` comes first. A full
channel ends the process, at any send, since the rest of the pipeline is not in
this module.

### WsIngest

`run_real_ws` and `run_mock_ws` have the same phases, so one module has both and
`kind` says which: they differ in what follows a lost link (`AfterLoss`: the next
source, or the top of the loop at once), in `SequenceAtStart`, and in whether a
pong is activity. Each branch of the session's `select!` is an action. Time is
counted down by `Tick`, which waits for a timer that is due; `idle` is
`last_activity.elapsed()`. A frame is the number of ticks parsed from it: none for
a malformed one, several for an update of Gemini. `Overload` is `send_tick` on a
full channel. A server goes up or down with its links (`Flip`), closes a link
(`Drop`) or falls silent (`Mute`). `Pipeline` abstracts all this to a source that
may produce a tick at any time and ends when it takes the shutdown.

What the model shows beside its properties: contract S4 wants a missed pong to
cause a reconnect, but pongs are awaited nowhere, so a link that takes writes and
delivers nothing is kept for ever (`Recovers` has the premise that none does); S3
wants an exponential back-off, the code has constant pauses, and none after the
loss of a mock session; in the real mode sampling starts anew with each session,
so connections shorter than `sample_every` ticks send nothing.

### ShadowRunner

The program is one thread, so an action is one turn of its loop: `StartTurn` is
the clock, the official price and the abort latch, and the actions differ by what
the decision comes to (`Refuse`, `Cancel`, `Pass`, `Trade`). The turn's inputs are
a price with the lag of its stamp behind the runner's clock, or none, and a book
with two sides, one or none. The router tries its feeds in order, so two turns
may hear from two exchanges: a later price may bear an earlier stamp, and the
model has lags of either sign. Which feed answered matters for nothing else.
Times are small integers, probabilities percentages; the strategy's comparison of
a ratio is multiplied out.

Two gates of the code cannot refuse: the book's stamp is always the turn's own
clock, so `STALE_BOOK` does not occur, and a book with one side passes
`BOOK_INCOMPLETE` (the other price stands in) but then fails on its price or its
spread. `silence`, `orders` and `cancels` are history variables. Not in the
module: the checks before the loop (their verdict is the initial `sourceKnown`)
and a clock that is set back.

### SoakController

One turn of the loop is four steps, `poll`, `status`, `pressure`, `stall`, because
each looks at the system anew, and the engine (`EngineTicks`, `EngineExits`) and
systemd (`SystemdRestarts`) act in between. They are external: the unit restarts
on failure except for exit 12, as the drop-in under `ops/systemd` and the recorded
`systemctl show` say, and systemd's start limit may leave it failed. A restart
with its pause belongs to the step that asks for it; the pause is part of the
turn's length. `StatusQuiet` is also the branch of a failing `systemctl show`, and
`StallUnreadable` that of an unreadable database. `Init` is after the restart that
opens the soak. A keyboard interrupt ends the loop like the abort file, and is
modelled where that is. `writeLost`, `pressedAtTop`, `neglect` and `sinceRow` are
history variables.

What the model shows beside its properties: the detector's clock is not reset by a
restart, so an engine slow to its first row is restarted every turn; since systemd
restarts the unit after exits 10, 11 and 13 by itself, the controller acts on them
only if its poll finds the unit failed at the start limit; a refused start leaves
the exit status in place, which is answered once more.

### MarketAccess with ClobReadiness, VenueBooks and OfficialFeed

`program` says which of three programs runs: the timer's service (select, then
shadow), the stale-edge runner on a given Kalshi market (metadata, eligibility, then
shadow), or the pipeline verifier (select, probe a known-ready market through the
same cache, fetch one book, PASS or FAIL). Each is one thread, so an action ends at
an answer from the network: `Discover`, `Reply` (a final one or one that is tried
again), `Metadata`, `Turn` (the official price), `Fetch` (one attempt). What happens
between two answers belongs to the action before, except that `Consider`, `Judge`,
`Exhausted`, `Selected` and `Choose` are separate for the sake of reading; nothing
can come in between. Every request takes a while out of `Delays`.

Prices are integers: hundredths in an answer, ten-thousandths of a dollar once
normalised, so that the sums and comparisons of the parsers are exact where the code
has floats. A market of a listing says whether it passes the four Boolean filters,
when it ends, how it ranks and its YES token, `Absent` for each way of not parsing.
A rules text is what it says of each exchange. `answered` (the venue's last word on a
token) and `truth` (the book that an answer encodes) are history variables. What
`ShadowRunner` takes as a turn's inputs, a price or none and a book or none, is what
a turn of this module ends with.

What the model shows beside its properties: a market with a bare date
(`"2026-01-31"`) makes the comparison with now raise, nothing up to `main` catches it
and one such listing fails the discovery (`FilterCrashes`); a readiness answer that is
JSON but a number does the same (`ReplyCrashes`), as does an error of the Binance feed
that is not an `URLError` (`FeedRaises`). `allowed_fallbacks` is read nowhere: the
router asks Coinbase first for rules that name Binance only, and answers a question
about USDT with a USD pair. `FEED_ROUTING_UNKNOWN` cannot occur, so rules about an
asset without feed pass eligibility. The service shadows whichever market it selected
under the default rules, Binance BTC/USDT. A book in cents with a level at 1 cent is
refused as ambiguous, and one whose levels are all at 1 cent would be taken for
dollars (`ScaleShows` is the premise that keeps both apart).

### ShadowArtifacts

Files are values of `files[directory][name]`; `aliased` says that the second
directory is a link to the first, as the entrypoint allows. A write by rename is one
step, since neither reader nor crash can see its inside; the others are several, with
`whole = FALSE` in between: `open("w")` and the header of the journal leave an empty
file, `shutil.copy` leaves the header and any number of the rows (`CopyPiece`), and what
is there when it fails or is killed stays, with the summary of the run beside it if it
failed. A complete copy of a journal without header is not whole either. Decision, journal, summary and health are steps of their own, and
`Stop` (a kill, the unit's time-out, the regular end) may come after each. The lock of
the unit keeps two runs apart. A row is its run, its turn and its reason. The enhanced
runner has no official price (`SELF_REFERENTIAL`), so its strategy refuses or, once the
market has ended, cancels, and only the cancellation limiter has work.
`succeeded` is a history variable.

What the model shows beside its properties: a run that starts drops the rows of the
runs before it from the journal; a journal killed before its header never gets one,
and the enhanced runner then writes rows whose every column is empty, for it takes a
row for the header (`Blank`); a journal that cannot be read (its permissions, its
encoding, the csv reader; `readable` of `WriteJournal`) is replaced under the
artifacts' header and counts as matching, so if the turn ends before its health file, the
old one still tells a mismatch beside a journal that has none: `MismatchFlagIsTrue`
says that only this can be wrong and that the newer last row gives it away;
`last_error_at` is always null, `last_success_at` that of
the turn before, `journal_rows` the rows of the run and not of the file, though the
contract calls it the number of rows in the journal; the bound
`SHADOW_JOURNAL_MAX_ROWS` that the service's unit sets has no effect on the journal it
appends to; rows of 25 columns are appended under whatever header is there. Temporary
files of a killed writer stay.

What is published needs reading with care. A failed run publishes nothing by itself, as
the comment at line 78 of the entrypoint wants it, but its rows stay in the journal that
the next successful run copies as a whole, and `PublicationIsSound` says no more than
that no row comes before such a success. Where both directories are one, nothing is
copied: readers see the journal as it grows, with the rows of running and failed runs, and
only the summary waits for the return code.

## 3. Runs

| Run | Question | Bounds |
| --- | --- | --- |
| `tracker` | caps hold, counters equal the outstanding orders | eight orders over three symbols, caps of 7 in all, 4 per symbol and 3 open orders; each of the three is the binding one for some order |
| `stream` | type correctness, `GaplessTicks`, `SignalsAccounted`, `RowsAccounted`, `GracefulMeansDrained`; refinement of `EventJournal` and of `ExposureTracker` | 2 ticks, both may cross, so up to 8 events; channels 1/1/2, batch 2, one failing INSERT: every channel can be full, a batch full, partial or cut, an INSERT fail in each position |
| `live` | a broadcast shutdown ends the process and accepted events settle, given a fair persist task; signals are decided even if the database never answers (contract I6) | 2 ticks, fair trading tasks |
| `replay` | a replay ends by itself, vetoes included | file mode, no `--seconds`, caps below one order |
| `crossover` | the incremental rule equals its definition over the whole history | windows 2 and 3, 8 ticks of 3 prices, uneven so that averages touch, cross and rest |
| `db_pages` | pages by OFFSET skip no row although the table grows; the order across pages, set back by no more rows than are written back | 4 rows, two with the same stamp, pages of 2, up to 3 write-backs |
| `ws` | pings in time, a shutdown ends the task, a lost link is replaced, sampling survives short connections | both modes, 2 sources, 3 changes of servers or mute links, units of 5 s, `sample_every` 3 so that it falls within and between connections |
| `shadow` | rates, caps and open orders agree; silence and the market's end are final; returns span the horizon | 10 time units in turns of 1 or 3, a window of 2, so that stamps leave it from its edge and from within; limits of 2 orders and 1 cancellation, three orders fill the cap; prices on time, late and too late |
| `soak` | rate of every start, stalls missed or invented, patience and final stop | turns of 1 or 2 in 7, threshold 2, three rungs, patience 3: the top is reached by pressure, by exit 13 and by both, and the time ends before and after the patience |
| `market` | cached verdicts are recent, the selection is the best, accepted books are true and good ones accepted, PASS is earned, a decision's price and book belong together | two tokens, two probes, one retry, five listings (empty, closed, expiring, malformed, bare date, without token), a clock of 8 with lifetimes 3, 1 and 2 and delays of 1 or 2, so that entries are used, expire and are asked for again; six books in 18 encodings, four bad answers of each venue; markets that close at 1 and at 4 |
| `artifacts` | journal, summary and health agree at every moment, the mismatch flag can be trusted, a failed write is made up for, no run is published before it or a later one has succeeded | 3 runs of either program with 3 turns each, 2 rows kept, one cancellation per window, a market that ends at turn 2, so that a run refuses, cancels and is limited: rows are trimmed, a journal is inherited from the other program whole, empty, without header or unreadable, a copy ends after any row |
| `db_stop` | finding, see below | |

`crossover` and the `db_...` runs do not check for deadlock: the ticks end, the
replay ends.

Every property has a fault of the code it detects, defined next to the definition
it replaces (`Mut...`).

Two ticks are enough for what the pipeline's properties can tell apart: a tick
causes up to four events, so that two of them fill and overflow every channel and
leave a batch cut, and tasks keep at most one event in hand. All the properties of
`stream` are also proved, for any number of ticks.

In `market` two tokens are enough for one market to be refused or skipped before
another, and the cache matters only between the selection and the known-ready probe
that follows it, or between two listings of one token. In `artifacts` a third run is
needed for a file that one program leaves broken, the other inherits and a third
reads; a fourth would inherit nothing that a third cannot.

### Fairness

Tokio schedules every ready task, hence weak fairness per task. `select!` picks
at random among ready branches, so a branch ready again and again is taken,
hence strong fairness for the branches of ingest and persist. A replay file ends.
Not assumed: that the source yields, that the operator stops the engine, that the
join timer fires (`live` shows that it is not needed). Nor is the persist task
fair in `FairSpec`: an INSERT may never return. `PersistFairness` is a premise of
the properties that need it, and `SignalsDecided` has no such premise. In the same
way `WsIngest` does not assume that an attempt to connect ends (`connect_async` has
no timeout of its own): `AttemptsEnd` is a premise. Timers fire and a ready branch
of `select!` is not starved; nothing is assumed of the servers.

### Findings

* `db_stop`: contract S13, "ingestion stops"; a shutdown inside a page stops only
  the page, the replay reads on and main runs into its timer.

Three more promises of the documents are stated as definitions, with the invariants of
their modules, and are not part of a run; as the invariant of the run named, each has a
counterexample:

* `CleanExitFlushes` (`Pipeline_stream.cfg`): contract S13 promises that a graceful
  shutdown flushes; main gives the tasks five seconds and then exits with code 0
  whatever is left (`main.rs` 346).
* `ReplayIsDeterministic` (`ReplayDb_pages.cfg`): the contract asks for deterministic
  replays; the ticks replayed are written back into the table being paged, with a
  smaller stamp (`persist.rs` 126), so what later pages hold depends on the persist
  task. If it keeps pace, the table grows as fast as the offset and the replay never
  ends (`MaxRows` cuts this off).
* `ReadersSeeCompleteFiles` (`ShadowArtifacts.cfg`): the artifacts contract
  (`docs/artifacts/SHADOW_ARTIFACTS_CONTRACT.md` 160) wants all artifact writes atomic,
  so that "readers always see a complete file"; the service creates the journal and
  then writes its header (`trade_journal.py` 44), copies it with `shutil.copy` and
  writes the summary through `open("w")` (`run_shadow_prod_entrypoint.py` 89, 104).

No run is needed to see that a full persist channel drops an order uncounted and
unlogged (`execution.rs` 229), although contract S10 has every transition
persisted, nor that main's log line "backpressure policy: DROP_OLDEST"
(`main.rs` 212) does not fit `try_send`: a full channel turns the newest away.

## 4. Theorems

Proved for every number of ticks, runs, turns and rows, all channel, page and batch sizes
and caps, every listing and every book, from the named assumptions on the constants. Most
are types and signs (`PipelineAssumption`, `CapsAssumption`, `SmaAssumption`,
`ReplayAssumption`, `RunnerAssumption`, `SoakAssumption`, `WsAssumption`,
`ArtifactsAssumption`, `ReadinessAssumption`, `AccessAssumption`, `BadAssumption`), or keep
the value that stands for something missing apart from everything else (`AbsentIsNoFile`,
`AbsentIsNoRecord`, `MarksAssumption`). Three say something about the world:
`LagAssumption` (stamps cannot run ahead of the clock without limit), `BooksAssumption` (a
venue's book is not crossed, prices are 1 to 99 cents, and Kalshi sends each half of the
book under at least one of its two names) and `TokensAreDistinct` (a venue gives every
market of a listing a token of its own).

| Theorem | States |
| --- | --- |
| `TrackerTypeCorrect` | `[]TypeOK` of the tracker |
| `CapsNeverExceeded` | `[]CapsHold`, from `TypeOK`: both are inductive |
| `CountersAreExact` | `[]CountersMatchOutstanding`: total and per-symbol exposure are the sums over the orders outstanding |
| `SignalsAreExact` | `[]SignalsAreTheCrossings` of the crossover rule, over histories of any length |
| `PipelineTypeCorrect` | `[]TypeOK`: every channel and the batch within its bound. One lemma per part of the state (tasks, channels, rows, main), one case per group of actions that touch it alike |
| `StrategySeesEveryTick` | `[]GaplessTicks`, inductive together with `TypeOK` |
| `NoSignalUnaccounted` | `[]SignalsAccounted`, inductive together with `TypeOK` |
| `TrackerHoldsOrderInFlight` | `[]ExposureIsHeld`, inductive by itself; that the tracker is empty between signals is not inductive, the invariant has to say what the fill will give back |
| `PipelineUsesTracker` | `TrackerSpec`: the execution task implements `ExposureTracker` with the order in flight as the outstanding one |
| `HandOversAreFresh` | `[]HandOversAscend`, inductive together with `TypeOK` and `GaplessTicks` |
| `PipelineImplementsJournal` | `JournalSpec`: every step is a step of `EventJournal` or a stutter |
| `RowsExplained` | `[]RowsAccounted` |
| `GracefulShutdownDrains` | `[]GracefulMeansDrained` |
| `PagesKeepTheOrder` | `[]ReplaysInOrder` of the replay, with rows written back at any time; `OrderedUntilWrittenBack` draws the conclusion for a table nothing has been written to: in order and without repetition |
| `NoStoredRowIsSkipped` | `[]EveryStoredRowReplayed`, whatever the writer adds meanwhile |
| `WsTypeCorrect` | `[]TypeOK` of the WebSocket modes |
| `PingsAreInTime` | `[]PingsInTime` |
| `RefusalsAreRespected` | `[]RefusedSourcesRest` |
| `ExposureIsExact` | `[]ExposureIsOpenOrders` of the shadow runner |
| `SilenceEndsTrading` | `SilenceIsFinal`, a property of steps |
| `CancellationIsLast` | `[]EndIsFinal` |
| `RatesAreHeld` | `[]RatesHold`: no window of time holds more orders or cancellations than its limit |
| `ReturnsAreSpanned` | `[]ReturnsSpanTheHorizon`, with stamps that go back and forth |
| `SoakTypeCorrect` | `[]TypeOK` of the soak controller |
| `EngineFollowsLadder` | `[]EngineRunsAtRung` |
| `SoakIsPatient` | `[]TopGetsItsPolls` |
| `EndStopsEngine` | `[]EngineOffAfterEnd` |
| `NoStallIsMissed`, `NoFalseStall` | `[]StallsAreAnswered`, `[]StallsAreReal` |
| `VerdictsAreRecent` | `[]VerdictIsRecent` of the readiness cache |
| `TheBestIsSelected` | `[]SelectionIsBest`, whatever the order of the listing and the answers |
| `PassesAreEarned` | `[]PassIsEarned` of the verifier |
| `QuotesAreTrue` | `[]AcceptedBooksAreTrue`, for every book and each encoding of it |
| `GoodBooksPass` | `[]GoodBooksAreAccepted`, for every deep and tight book and each encoding of it whose deciding prices show their unit |
| `InputsBelongTogether` | `[]InputsAreFounded` of a shadow turn |
| `ArtifactsTypeCorrect` | types of the files and of both writers, and what each stage finds done |
| `FlagsAreTrue` | `[]MismatchFlagIsTrue` of the artifacts, journals that cannot be read included |
| `OnlySuccessIsPublished` | `[]PublicationIsSound` of the artifacts, copies cut short included |
| `ReadersFollow` | `[]HealthFollowsJournal` of the artifacts |
| `HealthIsComplete` | `[]HealthMeansComplete` of the artifacts |

The journal of the pipeline. A hand-over must be fresh, but whether it is
depends on queues and tasks far from the persist channel: `HandOversAscend` says
that ticks ascend from the source through the tick channel (`GaplessTicks`) into
the strategy, its signals ascend through the signal channel into the execution
task (`SignalsAscend`), and everything handed over is older than what its
producer holds (`Passed`). With `EndInOrder` (a task ends only after its senders,
on an empty channel), which the close of the journal needs, every step maps to
the journal. Freshness gives `NoRepeats` (nothing waits twice, nothing waiting was
refused before), so that a refused row adds one to the history set the counters
are compared with; this proves `RowsExplained`. Finally `EventsConserved` (events
made = stored + refused + in a task's hands) and `GracefulIsEnded` (a graceful end
finds all tasks ended) leave no place but the tables, `rejected` and `unrecorded`
for an event after a graceful end.

Sums, of the tracker and of the crossover rule. The library's folds are a chosen
recursive function, and that it is what its equation says needs induction over data, whose
theorems take an operator. `EngineRulesProofs` has it by a smallest counterexample
instead: among the finite sets without a (unique) function of that equation one has the
fewest elements, and taking one element away contradicts it. From this follows that a sum
does not depend on the order of its terms, so that an admission adds its amount and a
release takes it away. `CountersInv` adds to the property that the outstanding orders
are finitely many and that each has an entry for its symbol. `RuleInv` says that the
window is the end of the history and `prevDiff` the difference at the latest tick; a
window that is full drops its oldest price, which is the one that leaves the sum.

The replay. `TableInv`: a row written back never changes a stored one. By the order of the
table (time, then row id) a row written back can only push stored rows to later places,
so that those still to come stay beyond the offset: `CoverInv`. It pushes each by one
place (`PlacesGrow`), so what has been visited and the rest of the page lie one after
the other in the order of the table, set back by at most the number of rows written back:
`OrderInv`, which also says that the offset is the number of rows visited, or beyond it
once there were as many as the stored ones.

The WebSocket modes. `PingInv`: in a session the silence since the latest activity
or ping, plus what the timer has left, stays within keep-alive plus one period.
`RestInv`: the sources still to come in a round have rested, and in a pause what a
source has rested plus what is left of the pause is a whole pause.

The shadow runner. `Core` has the types and says that no order or cancellation is
newer than the clock. The exposure follows because turns are strictly ordered in
time: an order placed now is younger than every cancellation, so it joins
`OpenOrders`, and a cancellation now empties it. Silence is final because the latch
is set in the very turn that sees the silence. For the end, a cancellation puts
the clock beyond the market's end, where `Trade` is disabled. Rates: the limiter forgets
stamps, so `Limited` says that it holds the stamp of whatever can still share a window
with the present; a window that ends later cannot reach what was forgotten. Returns: a
feed's stamps may go back, so the samples are not sorted; `Timely` says that two of them
are never further out of order than lags differ, which bounds the span of a return on
both sides.

The soak controller. Each question has an inductive invariant of its own:
`LadderInv` (a running engine has loaded the file as it is, and the file holds the
rung since its latest good write), `PatienceInv` (every unit of
`consecutive_pressure` is a rung climbed or a poll at the top) and `DetectorInv`
(the detector's clock is never behind the true neglect nor, unless a row waits to
be seen, ahead of the true silence).

The artifacts. `WriteKeeps` says once that a write changes its file and no other.
`FollowInv` is what readers rely on: the runner's rows are numbered by its turns and a
turn that the health file does not know of has left an error (`MemoryInv`), the journal has
the newest of those rows and none of a later run (`JournalInv`), the summary follows the
journal at every stage of either program (`SummaryInv`), and the health file follows the
summary (`HealthInv`). For publication, `OwnRowsInv` says that the service's journal ends
with its latest turn, and that past the return code it has returned 0 after at least one;
`SummariesInv` and `CopyInv` say that what is published is of earlier runs while the service
is still deciding (`Settled`), so that a result recorded now cannot contradict it, and that
every row of a copy, cut short or not, has a success at or after its run (`Reached`). That
needs `JournalInv` for the rows being copied, while `FollowInv` needs to know how far the
service has got: the two are proved together (`RunsHold`).

`MismatchFlagIsTrue` alone is not inductive: `FlagInv` adds that a health file, and the
stages after the journal write, mean a journal with a known header, so that the next
write keeps that header or, unable to read it, gives it the artifacts' own; and that a
journal without a header is only being created while there is no health file. That the
row of such a write is newer than the health file is `HealthInv`: until a turn renews the
file, it is of an earlier turn.

The selection of a market. `CacheInv` ties every entry of the cache to the venue's last
word on its token and the time of it, `ProbeInv` ties a probe or verdict to whoever asked.
`Line` is the loop: the eligible markets of the listing in their order, those before the
queue refused, and as many probes made as markets dealt with; so a selection without a
result has used up its probes or its markets. `ChosenInv` says that a chosen market's entry is
READY and still fresh, so that the known-ready probe of the same token does not ask again
and cannot lose the verdict that PASS stands on (`TokenInv`). `TurnInv` keeps the
asset of the price and the clock of the turn until the book has come. Stated with
the ranks alone, `SelectionIsBest` was false for an exhausted selection among markets of
equal rank, as TLC showed while the proof was tried: it now follows the order of the
listing between them, as `sorted` does (`Better`).

The books. Dollars are never taken for cents. Cents are taken for dollars only if every
deciding price is one cent, and then a price of the other half is above a dollar or the
book comes out crossed: both are refused, so an accepted quote is true
(`QuotesAreTrue`). Conversely (`GoodBooksPass`) every half of a book is read from one of
its names and not from both, comes back level by level in ten-thousandths of a dollar,
and depth and spread are therefore those of the book itself.

Every safety invariant and action property that a run checks is proved.
`TrackerTypeCorrect`, `TrackerHoldsOrderInFlight`, `HandOversAreFresh`,
`SoakTypeCorrect`, `WsTypeCorrect`, `RefusalsAreRespected` and `ArtifactsTypeCorrect` are
proved of invariants that no run checks: they are the inductive parts of the others, and
TLC agreed with each before it was proved. Only model-checked: liveness under fairness
(`live`, `replay`, `ws`, `db_stop`), since the prover does not reason about ENABLED, and
that each fault (`Mut...`) is detected.

## 5. Plan

Done so far, in this order: the pipeline with its tracker and journal, the crossover
rule, database replay, WebSocket modes, shadow runner, soak controller, market access,
artifacts. Left:

1. Proofs: what one module assumes of another, as `Pipeline` has with the tracker: that
   `WsIngest` and `ReplayDb` implement the source that `Pipeline` leaves open, and that
   the inputs a turn of `ShadowRunner` may have include what `MarketAccess` ends with;
   the steps on which the liveness properties rest (what never grows and what each fair
   step takes away), without the temporal conclusion.
2. `Lifecycle`: start-up, LIVE gate, exit codes 0, 1, 12 and 13 and what systemd makes
   of each; which validations run before which side effect; the LIVE gate's assertion,
   which ends the execution task and not the process. `SoakController`'s external
   actions become an abstraction of it.
3. The Rust venue books beside `VenueBooks`, for parity; `DeltaReader` for the
   dashboard.

## 6. Not modelled

Quantities and fees (no property modelled so far depends on them), f64 rounding,
log lines, the HTML of the dashboard, HTTP requests themselves, the legacy
engine, recorded data. In the pipeline: the panic of the execution task in an
armed LIVE mode (Lifecycle, planned), the heartbeat, and `ctrl_c()` failing to
register.

In `ShadowRunner`, `MarketAccess` and `ShadowArtifacts`: the exact arithmetic stands
for floats; a malformed level of a book is one value, whatever its fault; parsing a
listing's tokens and a rules text is a value of the input; a Gamma answer of another
JSON type than a list, duplicate tokens in one listing, fixture modes and
`shared/venue_book.py`, which no runner calls. `run_shadow_enhanced.py` also appends to
a journal of its own (`--output`), which is no artifact; its venue and signal modules
are not in the repository (the imports fall back to stubs, without a book and without
an edge); a strategy that raises is recorded like one that refuses. Sanitising and validation of fields and a row cut short, by a full disk or at
the end of a copy cut short (it counts as not there), are left out. Two
programs that write the artifacts at once are excluded, as the unit's lock does for
the service; nothing does for the enhanced runner started by hand.
