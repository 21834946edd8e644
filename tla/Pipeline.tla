------------------------------- MODULE Pipeline -------------------------------
(***************************************************************************)
(* The task pipeline of engine-rust: main.rs spawns the ingest, strategy,  *)
(* execution and persist tasks, joins them with three bounded mpsc         *)
(* channels, and takes them down again.                                    *)
(*                                                                         *)
(*     ingest --tickQ--> strategy --signalQ--> execution                   *)
(*        \                  |                    |                        *)
(*         +------persistQ---+--------------------+---> persist --> db     *)
(*                                                                         *)
(* A task runs between two .await points without yielding, but the tasks   *)
(* run on several threads: every try_send is a step of its own.  A tick is *)
(* its number; a signal, order or trade is known by the tick it stems      *)
(* from.  Whether a tick crosses the moving averages is a choice here      *)
(* (module SmaStrategy has the rule).  A step is taken only while the      *)
(* process runs: exit says how it ended.  A kill (SIGTERM, SIGKILL, power  *)
(* loss) has no handler: it cuts the behaviour short at any point, and     *)
(* every prefix of a behaviour is one already.                             *)
(***************************************************************************)
EXTENDS Integers, Sequences, FiniteSets, Functions

CONSTANTS
    Mode,               \* "stream" (run_synthetic) or "replay" (run_replay_file)
    RunSeconds,         \* whether --seconds is given: main then only sleeps
    MaxTicks,           \* bound: how many ticks the source yields at most
    MayCross,           \* ticks that may cross the averages (not the warm-up)
    MaxDbErrors,        \* bound: how many INSERTs fail at most
    TickCap, SignalCap, PersistCap,     \* channel sizes of the configuration
    BatchSize,          \* BATCH_SIZE of persist.rs
    SymbolOf,           \* the symbol of each tick
    Notional,           \* desired_size * 100.0 of every signal
    MaxExposure, MaxSymbolExposure, MaxOpenOrders

ASSUME PipelineAssumption ==
    /\ Mode \in {"stream", "replay"} /\ RunSeconds \in BOOLEAN
    /\ MayCross \subseteq 1..MaxTicks
    /\ MaxTicks \in Nat /\ MaxDbErrors \in Nat
    /\ TickCap \in Nat \ {0} /\ SignalCap \in Nat \ {0}
    /\ PersistCap \in Nat \ {0} /\ BatchSize \in Nat \ {0}
    /\ DOMAIN SymbolOf = 1..MaxTicks
    /\ Notional \in Nat \ {0} /\ MaxExposure \in Nat \ {0}
    /\ MaxSymbolExposure \in Nat \ {0} /\ MaxOpenOrders \in Nat \ {0}

VARIABLES
    produced,           \* ticks constructed by the ingest task so far
    ingestPc,           \* "select", "read" (replay), "persist", "ended"
    tickQ,              \* tick_tx/tick_rx
    strategyPc,         \* "recv", "signal", "persist", "ended"
    strategyTick,       \* the tick last received by the strategy task
    signalQ,            \* signal_tx/signal_rx
    execPc,             \* "recv", "order", "trade", "ended"
    execSignal,         \* the signal last received by the execution task
    exposure,           \* its ExposureTracker
    persistQ,           \* persist_tx/persist_rx
    persistPc,          \* "select", "flush", "final", "ended"
    buffer,             \* the batch of the persist task
    batch,              \* success_count and error_count of flush_batch
    db,                 \* the rows of the four tables, in commit order
    rejected,           \* history: events whose INSERT failed
    unrecorded,         \* history: events a full persist channel turned away
    metrics,            \* the counters of types.rs used here
    shutdown,           \* the broadcast was sent
    mainPc,             \* "waiting", "joining", "done"
    exit                \* "running", "graceful", "timeout", "overload"

ingestVars   == <<produced, ingestPc>>
strategyVars == <<strategyPc, strategyTick>>
execVars     == <<execPc, execSignal, exposure>>
persistVars  == <<persistPc, buffer, batch, db, rejected>>
mainVars     == <<shutdown, mainPc>>
queues       == <<tickQ, signalQ, persistQ>>
vars == <<ingestVars, strategyVars, execVars, persistVars, mainVars, queues,
          unrecorded, metrics, exit>>

Event(kind, n) == [kind |-> kind, n |-> n]

OrderOf(n) == [n |-> n, symbol |-> SymbolOf[n], amount |-> Notional]

\* The orders admitted by the execution task and not yet released.
Holding == execPc \in {"order", "trade"}
Held == IF Holding THEN {OrderOf(execSignal)} ELSE {}

Tracker == INSTANCE ExposureTracker
              WITH Orders <- {OrderOf(n) : n \in 1..MaxTicks},
                   outstanding <- Held

\* struct Metrics: signal_count, shadow_order_count, risk_vetoes, persist_count,
\* persist_errors and the three backpressure_drops.
Counters == {"signals", "orders", "vetoes", "persisted", "errors",
             "dropTick", "dropSignal", "dropPersist"}

Count(counter) == metrics' = [metrics EXCEPT ![counter] = @ + 1]

Running == exit = "running"

\* The process ends: nothing runs after it.
Exit(how) == exit' = how

------------------------------------------------------------------------------
Init ==
    /\ produced = 0 /\ ingestPc = "select"
    /\ strategyPc = "recv" /\ strategyTick = 0
    /\ execPc = "recv" /\ execSignal = 0
    /\ exposure = [total |-> 0, symbol |-> [s \in {} |-> 0], open |-> 0]
    /\ persistPc = "select" /\ buffer = <<>> /\ batch = [ok |-> 0, err |-> 0]
    /\ db = <<>> /\ rejected = {}
    /\ tickQ = <<>> /\ signalQ = <<>> /\ persistQ = <<>>
    /\ unrecorded = {}
    /\ metrics = [c \in Counters |-> 0]
    /\ shutdown = FALSE /\ mainPc = "waiting" /\ exit = "running"

(***************************************************************************)
(* Ingest.  run_synthetic selects between its timer and the shutdown       *)
(* broadcast; run_replay_file looks at the broadcast, then reads a line.   *)
(***************************************************************************)
IngestPoll ==
    /\ Running /\ Mode = "replay"
    /\ ingestPc = "select" /\ ~ shutdown
    /\ ingestPc' = "read"
    /\ UNCHANGED <<produced, strategyVars, execVars, persistVars, mainVars,
                   queues, unrecorded, metrics, exit>>

\* A blank or malformed line, or one sample_every leaves out.
IngestSkip ==
    /\ Running /\ ingestPc = "read"
    /\ ingestPc' = "select"
    /\ UNCHANGED <<produced, strategyVars, execVars, persistVars, mainVars,
                   queues, unrecorded, metrics, exit>>

MutTickOverflow ==
    Count("dropTick") /\ ingestPc' = "persist" /\ UNCHANGED <<tickQ, exit>>
TickOverflow ==
    Count("dropTick") /\ Exit("overload") /\ UNCHANGED <<tickQ, ingestPc>>

\* send_tick, first half: a full tick channel ends the process with code 13.
IngestTick ==
    /\ Running /\ produced < MaxTicks
    /\ ingestPc = (IF Mode = "replay" THEN "read" ELSE "select")
    /\ produced' = produced + 1
    /\ \/ /\ Len(tickQ) < TickCap
          /\ tickQ' = Append(tickQ, produced')
          /\ ingestPc' = "persist"
          /\ UNCHANGED <<metrics, exit>>
       \/ /\ Len(tickQ) >= TickCap
          /\ TickOverflow
    /\ UNCHANGED <<strategyVars, execVars, persistVars, mainVars,
                   signalQ, persistQ, unrecorded>>

\* send_tick, second half: so does a full persist channel.
IngestPersist ==
    /\ Running /\ ingestPc = "persist"
    /\ \/ /\ Len(persistQ) < PersistCap
          /\ persistQ' = Append(persistQ, Event("tick", produced))
          /\ ingestPc' = "select"
          /\ UNCHANGED <<metrics, exit>>
       \/ /\ Len(persistQ) >= PersistCap
          /\ Count("dropPersist") /\ Exit("overload")
          /\ UNCHANGED <<persistQ, ingestPc>>
    /\ UNCHANGED <<produced, strategyVars, execVars, persistVars, mainVars,
                   tickQ, signalQ, unrecorded>>

MutSeesShutdown == Mode = "replay" /\ ingestPc = "select" /\ shutdown
SeesShutdown == ingestPc = "select" /\ shutdown

\* The shutdown broadcast is seen, or the replay file has no further line
\* (or cannot be read): the task returns and drops its senders.
IngestEnd ==
    /\ Running
    /\ \/ SeesShutdown
       \/ ingestPc = "read"
    /\ ingestPc' = "ended"
    /\ UNCHANGED <<produced, strategyVars, execVars, persistVars, mainVars,
                   queues, unrecorded, metrics, exit>>

------------------------------------------------------------------------------
(***************************************************************************)
(* Strategy: run_strategy_task.                                            *)
(***************************************************************************)
StrategyRecv ==
    /\ Running /\ strategyPc = "recv" /\ tickQ # <<>>
    /\ tickQ' = Tail(tickQ) /\ strategyTick' = Head(tickQ)
    /\ \/ UNCHANGED <<strategyPc, metrics>>         \* warm-up or no crossover
       \/ /\ strategyTick' \in MayCross
          /\ strategyPc' = "signal" /\ Count("signals")
    /\ UNCHANGED <<ingestVars, execVars, persistVars, mainVars, signalQ,
                   persistQ, unrecorded, exit>>

MutSignalDropped == UNCHANGED metrics
SignalDropped == Count("dropSignal")

\* A full signal channel drops the new signal and counts it.
StrategySend ==
    /\ Running /\ strategyPc = "signal"
    /\ strategyPc' = "persist"
    /\ \/ /\ Len(signalQ) < SignalCap
          /\ signalQ' = Append(signalQ, strategyTick)
          /\ UNCHANGED metrics
       \/ /\ Len(signalQ) >= SignalCap
          /\ SignalDropped
          /\ UNCHANGED signalQ
    /\ UNCHANGED <<ingestVars, strategyTick, execVars, persistVars, mainVars,
                   tickQ, persistQ, unrecorded, exit>>

MutUnboundedOffer(e) == persistQ' = Append(persistQ, e) /\ UNCHANGED unrecorded
MutBlockingOffer(e) == Len(persistQ) < PersistCap /\ MutUnboundedOffer(e)

\* let _ = persist_tx.try_send(e): a full channel turns e away, uncounted.
OfferToPersist(e) ==
    \/ /\ Len(persistQ) < PersistCap
       /\ persistQ' = Append(persistQ, e)
       /\ UNCHANGED unrecorded
    \/ /\ Len(persistQ) >= PersistCap
       /\ unrecorded' = unrecorded \cup {e}
       /\ UNCHANGED persistQ

StrategyPersist ==
    /\ Running /\ strategyPc = "persist"
    /\ strategyPc' = "recv"
    /\ OfferToPersist(Event("signal", strategyTick))
    /\ UNCHANGED <<ingestVars, strategyTick, execVars, persistVars, mainVars,
                   tickQ, signalQ, metrics, exit>>

\* tick_rx.recv() returns None: no sender left and nothing queued.
StrategyEnd ==
    /\ Running /\ strategyPc = "recv"
    /\ tickQ = <<>> /\ ingestPc = "ended"
    /\ strategyPc' = "ended"
    /\ UNCHANGED <<ingestVars, strategyTick, execVars, persistVars, mainVars,
                   queues, unrecorded, metrics, exit>>

------------------------------------------------------------------------------
(***************************************************************************)
(* Execution: run_execution_task with the shadow adapter.                  *)
(***************************************************************************)
ExecVeto ==
    /\ Running /\ execPc = "recv" /\ signalQ # <<>>
    /\ ~ Tracker!WithinCaps(OrderOf(Head(signalQ)))
    /\ signalQ' = Tail(signalQ) /\ execSignal' = Head(signalQ)
    /\ Count("vetoes")
    /\ UNCHANGED <<ingestVars, strategyVars, execPc, exposure, persistVars,
                   mainVars, tickQ, persistQ, unrecorded, exit>>

ExecAdmit ==
    /\ Running /\ execPc = "recv" /\ signalQ # <<>>
    /\ Tracker!WithinCaps(OrderOf(Head(signalQ)))
    /\ signalQ' = Tail(signalQ) /\ execSignal' = Head(signalQ)
    /\ exposure' = Tracker!Reserved(OrderOf(Head(signalQ)))
    /\ execPc' = "order"
    /\ Count("orders")          \* shadow_order_count; trade_count goes with it
    /\ UNCHANGED <<ingestVars, strategyVars, persistVars, mainVars, tickQ,
                   persistQ, unrecorded, exit>>

MutFirstRecord == "trade"
FirstRecord == "order"

ExecOrder ==
    /\ Running /\ execPc = "order"
    /\ execPc' = "trade"
    /\ OfferToPersist(Event(FirstRecord, execSignal))
    /\ UNCHANGED <<ingestVars, strategyVars, execSignal, exposure, persistVars,
                   mainVars, tickQ, signalQ, metrics, exit>>

MutAfterFill == exposure
AfterFill == Tracker!Released(OrderOf(execSignal))

ExecTrade ==
    /\ Running /\ execPc = "trade"
    /\ execPc' = "recv"
    /\ OfferToPersist(Event("trade", execSignal))
    /\ exposure' = AfterFill
    /\ UNCHANGED <<ingestVars, strategyVars, execSignal, persistVars, mainVars,
                   tickQ, signalQ, metrics, exit>>

ExecEnd ==
    /\ Running /\ execPc = "recv"
    /\ signalQ = <<>> /\ strategyPc = "ended"
    /\ execPc' = "ended"
    /\ UNCHANGED <<ingestVars, strategyVars, execSignal, exposure, persistVars,
                   mainVars, queues, unrecorded, metrics, exit>>

------------------------------------------------------------------------------
(***************************************************************************)
(* Persist: run_persist_task and flush_batch.                              *)
(***************************************************************************)
PersistRecv ==
    /\ Running /\ persistPc = "select" /\ persistQ # <<>>
    /\ persistQ' = Tail(persistQ)
    /\ buffer' = Append(buffer, Head(persistQ))
    /\ persistPc' = IF Len(buffer') >= BatchSize THEN "flush" ELSE "select"
    /\ UNCHANGED <<ingestVars, strategyVars, execVars, batch, db, rejected,
                   mainVars, tickQ, signalQ, unrecorded, metrics, exit>>

MutTimerHasWork == Len(buffer) >= BatchSize
TimerHasWork == buffer # <<>>

\* The one-second timer fires with something to write.
PersistTimer ==
    /\ Running /\ persistPc = "select" /\ TimerHasWork
    /\ persistPc' = "flush"
    /\ UNCHANGED <<ingestVars, strategyVars, execVars, buffer, batch, db,
                   rejected, mainVars, queues, unrecorded, metrics, exit>>

MutAfterClose == "ended"
AfterClose == IF buffer # <<>> THEN "final" ELSE "ended"

\* persist_rx.recv() returns None once the three senders are gone.
PersistClosed ==
    /\ Running /\ persistPc = "select" /\ persistQ = <<>>
    /\ ingestPc = "ended" /\ strategyPc = "ended" /\ execPc = "ended"
    /\ persistPc' = AfterClose
    /\ UNCHANGED <<ingestVars, strategyVars, execVars, buffer, batch, db,
                   rejected, mainVars, queues, unrecorded, metrics, exit>>

\* One INSERT of the drain loop; a database error is counted and skipped.
PersistWrite ==
    /\ Running /\ persistPc \in {"flush", "final"} /\ buffer # <<>>
    /\ buffer' = Tail(buffer)
    /\ \/ /\ db' = Append(db, Head(buffer))
          /\ batch' = [batch EXCEPT !.ok = @ + 1]
          /\ UNCHANGED rejected
       \/ /\ Cardinality(rejected) < MaxDbErrors
          /\ rejected' = rejected \cup {Head(buffer)}
          /\ batch' = [batch EXCEPT !.err = @ + 1]
          /\ UNCHANGED db
    /\ UNCHANGED <<ingestVars, strategyVars, execVars, persistPc, mainVars,
                   queues, unrecorded, metrics, exit>>

MutNextBatch == batch
NextBatch == [ok |-> 0, err |-> 0]

PersistFlushed ==
    /\ Running /\ persistPc \in {"flush", "final"} /\ buffer = <<>>
    /\ metrics' = [metrics EXCEPT !["persisted"] = @ + batch.ok,
                                  !["errors"] = @ + batch.err]
    /\ batch' = NextBatch
    /\ persistPc' = IF persistPc = "final" THEN "ended" ELSE "select"
    /\ UNCHANGED <<ingestVars, strategyVars, execVars, buffer, db, rejected,
                   mainVars, queues, unrecorded, exit>>

------------------------------------------------------------------------------
(***************************************************************************)
(* Main: wait for a reason to stop, broadcast the shutdown, join the tasks *)
(* or give up after five seconds.                                          *)
(***************************************************************************)
BeginShutdown ==
    /\ shutdown' = TRUE /\ mainPc' = "joining"
    /\ UNCHANGED <<ingestVars, strategyVars, execVars, persistVars, queues,
                   unrecorded, metrics, exit>>

\* The run_seconds sleep is over, or the operator pressed CTRL-C.
StopRequested ==
    /\ Running /\ mainPc = "waiting"
    /\ BeginShutdown

MutReplayDoneHeard == FALSE
ReplayDoneHeard == Mode = "replay" /\ ~ RunSeconds /\ ingestPc = "ended"

\* replay_done arrived (or its sender was dropped): the ingest task returned.
\* With run_seconds main does not listen to it.
ReplayDone ==
    /\ Running /\ mainPc = "waiting"
    /\ ReplayDoneHeard
    /\ BeginShutdown

AllEnded ==
    /\ ingestPc = "ended" /\ strategyPc = "ended"
    /\ execPc = "ended" /\ persistPc = "ended"

JoinAll ==
    /\ Running /\ mainPc = "joining" /\ AllEnded
    /\ mainPc' = "done" /\ Exit("graceful")
    /\ UNCHANGED <<ingestVars, strategyVars, execVars, persistVars, shutdown,
                   queues, unrecorded, metrics>>

\* shutdown_timeout: main returns Ok(()) and the runtime drops the tasks.
JoinTimeout ==
    /\ Running /\ mainPc = "joining"
    /\ mainPc' = "done" /\ Exit("timeout")
    /\ UNCHANGED <<ingestVars, strategyVars, execVars, persistVars, shutdown,
                   queues, unrecorded, metrics>>

\* An ended process stays ended.
Terminated == ~ Running /\ UNCHANGED vars

Ingest    == IngestPoll \/ IngestSkip \/ IngestTick \/ IngestPersist
             \/ IngestEnd
Strategy  == StrategyRecv \/ StrategySend \/ StrategyPersist \/ StrategyEnd
Execution == ExecVeto \/ ExecAdmit \/ ExecOrder \/ ExecTrade \/ ExecEnd
Persist   == PersistRecv \/ PersistTimer \/ PersistClosed \/ PersistWrite
             \/ PersistFlushed
Main      == StopRequested \/ ReplayDone \/ JoinAll \/ JoinTimeout

Next == Ingest \/ Strategy \/ Execution \/ Persist \/ Main \/ Terminated

Spec == Init /\ [][Next]_vars

(***************************************************************************)
(* Fairness.  Tokio runs every task that is ready; select! picks at random *)
(* among ready branches, so a branch that is ready again and again is      *)
(* taken (strong fairness).  A replay file is finite.  Nothing obliges the *)
(* source to yield, the operator to stop the engine or the join timer to   *)
(* be the one that ends it.                                                *)
(***************************************************************************)
TradingFairness ==
    /\ WF_vars(IngestPoll) /\ WF_vars(IngestPersist) /\ SF_vars(IngestEnd)
    /\ WF_vars(Strategy) /\ WF_vars(Execution)

\* An INSERT returns (busy_timeout), the flush timer ticks.  Not part of
\* FairSpec, whose behaviours include a database that stalls for ever: a
\* property that needs it says so.
PersistFairness ==
    /\ SF_vars(PersistRecv) /\ SF_vars(PersistTimer) /\ WF_vars(PersistClosed)
    /\ WF_vars(PersistWrite) /\ WF_vars(PersistFlushed)

FairSpec == Spec /\ TradingFairness /\ WF_vars(JoinAll) /\ WF_vars(ReplayDone)

------------------------------------------------------------------------------
Ticks == 1..MaxTicks

PipelineEvent == [kind : {"tick", "signal", "order", "trade"}, n : Ticks]

TasksTyped ==
    /\ produced \in 0..MaxTicks
    /\ ingestPc \in {"select", "read", "persist", "ended"}
    /\ ingestPc = "persist" => produced \in Ticks
    /\ strategyPc \in {"recv", "signal", "persist", "ended"}
    /\ strategyTick \in 0..MaxTicks
    /\ strategyPc \in {"signal", "persist"} => strategyTick \in Ticks
    /\ execPc \in {"recv", "order", "trade", "ended"}
    /\ execSignal \in 0..MaxTicks
    /\ execPc \in {"order", "trade"} => execSignal \in Ticks
    /\ persistPc \in {"select", "flush", "final", "ended"}

ChannelsTyped ==
    /\ tickQ \in Seq(Ticks) /\ Len(tickQ) <= TickCap
    /\ signalQ \in Seq(Ticks) /\ Len(signalQ) <= SignalCap
    /\ persistQ \in Seq(PipelineEvent) /\ Len(persistQ) <= PersistCap
    /\ buffer \in Seq(PipelineEvent) /\ Len(buffer) <= BatchSize
    /\ persistPc = "select" => Len(buffer) < BatchSize

RowsTyped ==
    /\ batch \in [ok : Nat, err : Nat]
    /\ db \in Seq(PipelineEvent)
    /\ rejected \subseteq PipelineEvent /\ IsFiniteSet(rejected)
    /\ unrecorded \subseteq PipelineEvent /\ IsFiniteSet(unrecorded)

MainTyped ==
    /\ metrics \in [Counters -> Nat]
    /\ shutdown \in BOOLEAN
    /\ mainPc \in {"waiting", "joining", "done"}
    /\ exit \in {"running", "graceful", "timeout", "overload"}

\* Every variable has its type and no channel or batch outgrows its bound.
TypeOK == TasksTyped /\ ChannelsTyped /\ RowsTyped /\ MainTyped

\* The strategy's input has no gap and no repetition: what it has received
\* and what is queued for it are the ticks 1..produced, in order, except for
\* the one tick whose rejection ended the process (send_tick).
GaplessTicks ==
    /\ \A i \in DOMAIN tickQ : tickQ[i] = strategyTick + i
    /\ exit # "overload" => strategyTick + Len(tickQ) = produced

\* I2 in this pipeline: the tracker holds exactly the order being recorded and,
\* between two signals, no exposure at all: a veto depends on the configuration
\* alone and never on the signals that came before (run_execution_task).
ExposureIsHeld ==
    /\ exposure.total = IF Holding THEN Notional ELSE 0
    /\ exposure.open = IF Holding THEN 1 ELSE 0
    /\ Holding => SymbolOf[execSignal] \in DOMAIN exposure.symbol
    /\ \A s \in DOMAIN exposure.symbol :
          exposure.symbol[s] =
              IF Holding /\ s = SymbolOf[execSignal] THEN Notional ELSE 0

\* The heartbeat's counters explain every signal: it was executed, vetoed or
\* dropped, or is on its way (strategy.rs signal_count, execution.rs
\* shadow_order_count and risk_vetoes, backpressure_drops_signal).
Decided == metrics.orders + metrics.vetoes
Undecided == Len(signalQ) + (IF strategyPc = "signal" THEN 1 ELSE 0)
SignalsAccounted == metrics.signals = Decided + metrics.dropSignal + Undecided

\* persist_count and persist_errors explain every row: what is in the tables
\* and what the database refused is counted once, by a finished batch or by
\* the one in progress (persist.rs flush_batch).
RowsAccounted ==
    /\ metrics.persisted + batch.ok = Len(db)
    /\ metrics.errors + batch.err = Cardinality(rejected)
    /\ persistPc \in {"select", "ended"} => batch = [ok |-> 0, err |-> 0]

\* "all tasks completed gracefully" (main.rs) means that nothing is left in a
\* channel or in the batch, and that every event of the run is in a table,
\* was refused by the database or was turned away by a full persist channel.
GracefulMeansDrained ==
    exit = "graceful" =>
        /\ tickQ = <<>> /\ signalQ = <<>> /\ persistQ = <<>> /\ buffer = <<>>
        /\ produced + metrics.signals + 2 * metrics.orders =
              metrics.persisted + metrics.errors + Cardinality(unrecorded)

Journal == INSTANCE EventJournal
              WITH pending <- buffer \o persistQ,
                   journal <- db,
                   discarded <- rejected \cup unrecorded,
                   status <- CASE exit = "running" -> "open"
                               [] exit = "graceful" -> "closed"
                               [] OTHER -> "cut"

\* The three producers, the bounded channel, the batch and the per-row INSERTs
\* together are an at-most-once journal that keeps the order of hand-over.
JournalSpec == Journal!Spec

\* Every event that was ever offered to the persist channel.
HandedOver ==
    Range(buffer) \cup Range(persistQ) \cup Range(db) \cup rejected \cup unrecorded

\* No task still has event e, or an older one of its kind, to hand over.
Passed(e) ==
    /\ e.kind = "tick" =>
          e.n <= produced /\ (ingestPc = "persist" => e.n < produced)
    /\ e.kind = "signal" =>
          /\ e.n <= strategyTick
          /\ strategyPc \in {"signal", "persist"} => e.n < strategyTick
    /\ e.kind = "order" =>
          e.n <= execSignal /\ (execPc = "order" => e.n < execSignal)
    /\ e.kind = "trade" =>
          e.n <= execSignal /\ (Holding => e.n < execSignal)

EventsPassed ==
    /\ \A e \in HandedOver : Passed(e)
    /\ execPc = "trade" => Event("order", execSignal) \in HandedOver

SignalsAscend ==
    /\ execSignal <= strategyTick
    /\ strategyPc = "signal" => execSignal < strategyTick
    /\ \A i \in DOMAIN signalQ :
          /\ execSignal < signalQ[i] /\ signalQ[i] <= strategyTick
          /\ strategyPc = "signal" => signalQ[i] < strategyTick
    /\ \A i, j \in DOMAIN signalQ : i < j => signalQ[i] < signalQ[j]

\* Why JournalSpec holds: across tasks and queues, a tick, signal, order or trade
\* still to come is newer than all of its kind, and a trade's order went before.
HandOversAscend == EventsPassed /\ SignalsAscend

\* The execution task uses its ExposureTracker as its specification demands:
\* it admits within the caps and releases exactly what it holds.
TrackerSpec == Tracker!Spec

------------------------------------------------------------------------------
\* S13: once main has broadcast the shutdown the four tasks end one after the
\* other by themselves and the process with them, without the join timer.
ShutdownCompletes == PersistFairness => (shutdown ~> ~ Running)

\* I6: a queued signal is executed or vetoed although the persist task may
\* never take another step.
SignalsDecided ==
    \A n \in Ticks :
        n \in Range(signalQ) ~> \/ ~ Running
                                \/ execSignal >= n /\ execPc \in {"recv", "ended"}

\* What the persist channel accepted reaches the tables or is refused by the
\* database, unless the process ends first: no event waits for company.
EventsSettle == PersistFairness =>
    \A e \in PipelineEvent :
        e \in Range(persistQ) ~> e \in Range(db) \cup rejected \/ ~ Running

\* A replay that is not given --seconds ends the process by itself.
ReplayFinishes == PersistFairness => <> ~ Running

------------------------------------------------------------------------------
\* S13 as the contract words it: a clean exit (code 0) leaves no accepted
\* event unflushed.
CleanExitFlushes ==
    exit \in {"graceful", "timeout"} => persistQ = <<>> /\ buffer = <<>>
===============================================================================
