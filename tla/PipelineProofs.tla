---------------------------- MODULE PipelineProofs ----------------------------
(***************************************************************************)
(* Theorems about Pipeline, for every number of ticks and all channel and  *)
(* batch sizes.                                                            *)
(***************************************************************************)
EXTENDS Pipeline, SequenceTheorems, FiniteSetTheorems, TLAPS

(***************************************************************************)
(* Sequences as channels.                                                  *)
(***************************************************************************)
LEMMA SendKeepsChannel ==
  ASSUME NEW S, NEW q \in Seq(S), NEW e \in S, NEW cap \in Nat, Len(q) < cap
  PROVE  Append(q, e) \in Seq(S) /\ Len(Append(q, e)) <= cap
BY AppendProperties

LEMMA RecvKeepsChannel ==
  ASSUME NEW S, NEW q \in Seq(S), NEW cap \in Nat, Len(q) <= cap, q # <<>>
  PROVE  /\ Head(q) \in S /\ Tail(q) \in Seq(S)
         /\ Len(Tail(q)) = Len(q) - 1 /\ Len(Tail(q)) <= cap
BY HeadTailProperties

LEMMA AddKeepsFinite ==
    ASSUME NEW T, NEW S, S \subseteq T, IsFiniteSet(S), NEW x \in T
    PROVE  S \cup {x} \subseteq T /\ IsFiniteSet(S \cup {x})
<1>1. S \cup {x} \subseteq T
  OBVIOUS
<1>2. IsFiniteSet(S \cup {x})
  BY FS_AddElement
<1>3. QED BY <1>1, <1>2

(***************************************************************************)
(* Type correctness, one lemma per part of the state.                      *)
(***************************************************************************)
LEMMA InitTyped == Init => TypeOK
<1> SUFFICES ASSUME Init PROVE TypeOK
  OBVIOUS
<1> USE PipelineAssumption DEF Init
<1>1. TasksTyped
  BY DEF TasksTyped
<1>2. ChannelsTyped
  BY DEF ChannelsTyped
<1>3. RowsTyped
  BY FS_EmptySet DEF RowsTyped
<1>4. MainTyped
  BY DEF MainTyped, Counters
<1>5. QED BY <1>1, <1>2, <1>3, <1>4 DEF TypeOK

LEMMA TasksStep == TypeOK /\ [Next]_vars => TasksTyped'
<1> SUFFICES ASSUME TypeOK, [Next]_vars PROVE TasksTyped'
  OBVIOUS
<1> USE PipelineAssumption DEF TasksTyped, Ticks, ingestVars, strategyVars,
      execVars, persistVars
<1>0. TasksTyped /\ ChannelsTyped
  BY DEF TypeOK
<1>1. CASE Ingest
  BY <1>0, <1>1 DEF Ingest, IngestPoll, IngestSkip, IngestTick, IngestPersist,
                    IngestEnd, TickOverflow
<1>2. CASE StrategyRecv
  <2>1. Head(tickQ) \in Ticks
    BY <1>0, <1>2, RecvKeepsChannel DEF StrategyRecv, ChannelsTyped
  <2>2. strategyTick' \in Ticks
    BY <1>2, <2>1 DEF StrategyRecv
  <2>3. QED BY <1>0, <1>2, <2>2 DEF StrategyRecv
<1>3. CASE StrategySend \/ StrategyPersist \/ StrategyEnd
  BY <1>0, <1>3 DEF StrategySend, StrategyPersist, StrategyEnd
<1>4. CASE ExecVeto \/ ExecAdmit
  <2>1. Head(signalQ) \in Ticks
    BY <1>0, <1>4, RecvKeepsChannel DEF ExecVeto, ExecAdmit, ChannelsTyped
  <2>2. execSignal' \in Ticks
    BY <1>4, <2>1 DEF ExecVeto, ExecAdmit
  <2>3. QED BY <1>0, <1>4, <2>2 DEF ExecVeto, ExecAdmit
<1>5. CASE ExecOrder \/ ExecTrade \/ ExecEnd
  BY <1>0, <1>5 DEF ExecOrder, ExecTrade, ExecEnd
<1>6. CASE Persist
  BY <1>0, <1>6 DEF Persist, PersistRecv, PersistTimer, PersistClosed,
                    AfterClose, PersistWrite, PersistFlushed
<1>7. CASE UNCHANGED <<ingestVars, strategyVars, execVars, persistVars>>
  BY <1>0, <1>7
<1>8. QED
  BY <1>1, <1>2, <1>3, <1>4, <1>5, <1>6, <1>7
  DEF Next, Strategy, Execution, Main, StopRequested, ReplayDone,
      BeginShutdown, JoinAll, JoinTimeout, Terminated, vars

LEMMA ChannelsStep == TypeOK /\ [Next]_vars => ChannelsTyped'
<1> SUFFICES ASSUME TypeOK, [Next]_vars PROVE ChannelsTyped'
  OBVIOUS
<1> USE PipelineAssumption DEF queues, persistVars
<1>0. TasksTyped /\ ChannelsTyped
  BY DEF TypeOK
<1>1. CASE IngestTick
  <2>1. produced' \in Ticks
    BY <1>0, <1>1 DEF IngestTick, TasksTyped, Ticks
  <2>2. tickQ' \in Seq(Ticks) /\ Len(tickQ') <= TickCap
    BY <1>0, <1>1, <2>1, SendKeepsChannel
    DEF IngestTick, TickOverflow, ChannelsTyped
  <2>3. QED BY <1>0, <1>1, <2>2 DEF IngestTick, ChannelsTyped
<1>2. CASE IngestPersist
  <2>1. Event("tick", produced) \in PipelineEvent
    BY <1>0, <1>2 DEF IngestPersist, TasksTyped, Event, PipelineEvent
  <2>2. persistQ' \in Seq(PipelineEvent) /\ Len(persistQ') <= PersistCap
    BY <1>0, <1>2, <2>1, SendKeepsChannel DEF IngestPersist, ChannelsTyped
  <2>3. QED BY <1>0, <1>2, <2>2 DEF IngestPersist, ChannelsTyped
<1>3. CASE StrategyRecv
  <2>1. tickQ' \in Seq(Ticks) /\ Len(tickQ') <= TickCap
    BY <1>0, <1>3, RecvKeepsChannel DEF StrategyRecv, ChannelsTyped
  <2>2. QED BY <1>0, <1>3, <2>1 DEF StrategyRecv, ChannelsTyped
<1>4. CASE StrategySend
  <2>1. strategyTick \in Ticks
    BY <1>0, <1>4 DEF StrategySend, TasksTyped
  <2>2. signalQ' \in Seq(Ticks) /\ Len(signalQ') <= SignalCap
    BY <1>0, <1>4, <2>1, SendKeepsChannel DEF StrategySend, ChannelsTyped
  <2>3. QED BY <1>0, <1>4, <2>2 DEF StrategySend, ChannelsTyped
<1>5. CASE ExecVeto \/ ExecAdmit
  <2>1. signalQ' \in Seq(Ticks) /\ Len(signalQ') <= SignalCap
    BY <1>0, <1>5, RecvKeepsChannel DEF ExecVeto, ExecAdmit, ChannelsTyped
  <2>2. QED BY <1>0, <1>5, <2>1 DEF ExecVeto, ExecAdmit, ChannelsTyped
<1>6. CASE StrategyPersist \/ ExecOrder \/ ExecTrade
  <2>1. PICK e \in PipelineEvent : OfferToPersist(e)
    BY <1>0, <1>6 DEF StrategyPersist, ExecOrder, ExecTrade, TasksTyped,
                      FirstRecord, Event, PipelineEvent
  <2>2. persistQ' \in Seq(PipelineEvent) /\ Len(persistQ') <= PersistCap
    BY <1>0, <2>1, SendKeepsChannel DEF OfferToPersist, ChannelsTyped
  <2>3. QED
    BY <1>0, <1>6, <2>2
    DEF StrategyPersist, ExecOrder, ExecTrade, ChannelsTyped
<1>7. CASE PersistRecv
  <2>1. /\ Head(persistQ) \in PipelineEvent
        /\ persistQ' \in Seq(PipelineEvent) /\ Len(persistQ') <= PersistCap
    BY <1>0, <1>7, RecvKeepsChannel DEF PersistRecv, ChannelsTyped
  <2>2. buffer' \in Seq(PipelineEvent) /\ Len(buffer') <= BatchSize
    BY <1>0, <1>7, <2>1, SendKeepsChannel DEF PersistRecv, ChannelsTyped
  <2>3. QED BY <1>0, <1>7, <2>1, <2>2 DEF PersistRecv, ChannelsTyped
<1>8. CASE PersistWrite
  <2>1. buffer' \in Seq(PipelineEvent) /\ Len(buffer') <= BatchSize
    BY <1>0, <1>8, RecvKeepsChannel DEF PersistWrite, ChannelsTyped
  <2>2. QED BY <1>0, <1>8, <2>1 DEF PersistWrite, ChannelsTyped
<1>9. CASE PersistTimer \/ PersistClosed \/ PersistFlushed
  BY <1>0, <1>9
  DEF PersistTimer, PersistClosed, AfterClose, PersistFlushed, ChannelsTyped
<1>10. CASE UNCHANGED <<queues, persistVars>>
  BY <1>0, <1>10 DEF ChannelsTyped
<1>11. QED
  BY <1>1, <1>2, <1>3, <1>4, <1>5, <1>6, <1>7, <1>8, <1>9, <1>10
  DEF Next, Ingest, IngestPoll, IngestSkip, IngestEnd, Strategy, StrategyEnd,
      Execution, ExecEnd, Persist, Main, StopRequested, ReplayDone,
      BeginShutdown, JoinAll, JoinTimeout, Terminated, vars

LEMMA RowsStep == TypeOK /\ [Next]_vars => RowsTyped'
<1> SUFFICES ASSUME TypeOK, [Next]_vars PROVE RowsTyped'
  OBVIOUS
<1>0. TasksTyped /\ ChannelsTyped /\ RowsTyped
  BY DEF TypeOK
<1>1. CASE StrategyPersist \/ ExecOrder \/ ExecTrade
  <2>1. PICK e \in PipelineEvent : OfferToPersist(e)
    BY <1>0, <1>1 DEF StrategyPersist, ExecOrder, ExecTrade, TasksTyped,
                      FirstRecord, Event, PipelineEvent
  <2>2. unrecorded' = unrecorded \/ unrecorded' = unrecorded \cup {e}
    BY <2>1 DEF OfferToPersist
  <2>3. unrecorded' \subseteq PipelineEvent /\ IsFiniteSet(unrecorded')
    BY <1>0, <2>2, AddKeepsFinite DEF RowsTyped
  <2>4. QED
    BY <1>0, <1>1, <2>3
    DEF StrategyPersist, ExecOrder, ExecTrade, persistVars, RowsTyped
<1>2. CASE PersistWrite
  <2>1. Head(buffer) \in PipelineEvent
    BY <1>0, <1>2, RecvKeepsChannel, PipelineAssumption
    DEF PersistWrite, ChannelsTyped
  <2>2. db' \in Seq(PipelineEvent)
    <3>1. db' = db \/ db' = Append(db, Head(buffer))
      BY <1>2 DEF PersistWrite
    <3>2. QED BY <1>0, <2>1, <3>1, AppendProperties DEF RowsTyped
  <2>3. rejected' \subseteq PipelineEvent /\ IsFiniteSet(rejected')
    <3>1. rejected' = rejected \/ rejected' = rejected \cup {Head(buffer)}
      BY <1>2 DEF PersistWrite
    <3>2. QED BY <1>0, <2>1, <3>1, AddKeepsFinite DEF RowsTyped
  <2>4. batch' \in [ok : Nat, err : Nat]
    BY <1>0, <1>2 DEF PersistWrite, RowsTyped
  <2>5. QED BY <1>0, <1>2, <2>2, <2>3, <2>4 DEF PersistWrite, RowsTyped
<1>3. CASE PersistFlushed
  BY <1>0, <1>3 DEF PersistFlushed, NextBatch, RowsTyped
<1>4. CASE UNCHANGED <<batch, db, rejected, unrecorded>>
  BY <1>0, <1>4 DEF RowsTyped
<1>5. QED
  BY <1>1, <1>2, <1>3, <1>4
  DEF Next, Ingest, IngestPoll, IngestSkip, IngestTick, IngestPersist,
      IngestEnd, Strategy, StrategyRecv, StrategySend, StrategyEnd, Execution,
      ExecVeto, ExecAdmit, ExecEnd, Persist, PersistRecv, PersistTimer,
      PersistClosed, Main, StopRequested, ReplayDone, BeginShutdown, JoinAll,
      JoinTimeout, Terminated, persistVars, vars

LEMMA MainStep == TypeOK /\ [Next]_vars => MainTyped'
<1> SUFFICES ASSUME TypeOK, [Next]_vars PROVE MainTyped'
  OBVIOUS
<1> USE DEF MainTyped, mainVars
<1>0. MainTyped /\ RowsTyped
  BY DEF TypeOK
<1>1. CASE UNCHANGED <<metrics, mainVars, exit>>
  BY <1>0, <1>1
<1>2. CASE UNCHANGED metrics /\ Main
  BY <1>0, <1>2 DEF Main, StopRequested, ReplayDone, BeginShutdown, JoinAll,
                    JoinTimeout, Exit
<1>3. ASSUME NEW c \in Counters, Count(c), UNCHANGED mainVars,
             exit' \in {exit, "overload"}
      PROVE  MainTyped'
  BY <1>0, <1>3 DEF Count, Counters
<1>4. CASE PersistFlushed
  <2>1. batch.ok \in Nat /\ batch.err \in Nat
    BY <1>0 DEF RowsTyped
  <2>2. metrics' \in [Counters -> Nat]
    <3>1. /\ DOMAIN metrics' = Counters
          /\ metrics'["persisted"] = metrics["persisted"] + batch.ok
          /\ metrics'["errors"] = metrics["errors"] + batch.err
          /\ \A c \in Counters \ {"persisted", "errors"} :
                metrics'[c] = metrics[c]
      BY <1>0, <1>4 DEF PersistFlushed, Counters
    <3>2. metrics' = [c \in Counters |-> metrics'[c]]
      BY <1>0, <1>4 DEF PersistFlushed
    <3>3. QED BY <1>0, <2>1, <3>1, <3>2 DEF Counters
  <2>3. QED BY <1>0, <1>4, <2>2 DEF PersistFlushed
<1>5. QED
  BY <1>1, <1>2, <1>3, <1>4
  DEF Next, Ingest, IngestPoll, IngestSkip, IngestTick, TickOverflow,
      IngestPersist, IngestEnd, Strategy, StrategyRecv, StrategySend,
      SignalDropped, StrategyPersist, StrategyEnd, Execution, ExecVeto,
      ExecAdmit, ExecOrder, ExecTrade, ExecEnd, Persist, PersistRecv,
      PersistTimer, PersistClosed, PersistWrite, Main, StopRequested,
      ReplayDone, BeginShutdown, JoinAll, JoinTimeout, Exit, Terminated,
      Counters, vars

LEMMA TypeStep == TypeOK /\ [Next]_vars => TypeOK'
BY TasksStep, ChannelsStep, RowsStep, MainStep DEF TypeOK

\* Every step of the pipeline keeps every variable in its type and every
\* channel and the batch within its bound.
THEOREM PipelineTypeCorrect == Spec => []TypeOK
BY InitTyped, TypeStep, PTL DEF Spec

(***************************************************************************)
(* The strategy sees every tick once and in order.                         *)
(***************************************************************************)
LEMMA GaplessStep == TypeOK /\ GaplessTicks /\ [Next]_vars => GaplessTicks'
<1> SUFFICES ASSUME TypeOK, GaplessTicks, [Next]_vars PROVE GaplessTicks'
  OBVIOUS
<1> USE DEF GaplessTicks
<1>0. /\ produced \in Nat /\ strategyTick \in Nat /\ tickQ \in Seq(Ticks)
  BY PipelineAssumption DEF TypeOK, TasksTyped, ChannelsTyped
<1>1. CASE IngestTick
  <2>1. produced = strategyTick + Len(tickQ) /\ produced' = produced + 1
    BY <1>1 DEF IngestTick, Running
  <2>2. CASE tickQ' = Append(tickQ, produced')
    <3>1. Len(tickQ') = Len(tickQ) + 1 /\ DOMAIN tickQ' = 1..Len(tickQ) + 1
      BY <1>0, <2>2
    <3>2. \A i \in 1..Len(tickQ) + 1 :
             tickQ'[i] = IF i <= Len(tickQ) THEN tickQ[i] ELSE produced'
      BY <1>0, <2>2
    <3>3. UNCHANGED strategyTick
      BY <1>1 DEF IngestTick, strategyVars
    <3>4. \A i \in 1..Len(tickQ) : tickQ[i] = strategyTick + i
      BY <1>0
    <3>5. \A i \in DOMAIN tickQ' : tickQ'[i] = strategyTick' + i
      BY <1>0, <2>1, <3>1, <3>2, <3>3, <3>4
    <3>6. QED BY <1>0, <2>1, <3>1, <3>3, <3>5
  <2>3. CASE TickOverflow
    BY <1>1, <2>3 DEF IngestTick, TickOverflow, Exit, strategyVars
  <2>4. QED BY <1>1, <2>2, <2>3 DEF IngestTick
<1>2. CASE StrategyRecv
  <2>1. tickQ # <<>> /\ tickQ' = Tail(tickQ) /\ strategyTick' = Head(tickQ)
    BY <1>2 DEF StrategyRecv
  <2>2. /\ Len(tickQ') = Len(tickQ) - 1
        /\ \A i \in 1..Len(tickQ) - 1 : tickQ'[i] = tickQ[i + 1]
        /\ strategyTick' = strategyTick + 1
    BY <1>0, <2>1, HeadTailProperties
  <2>3. DOMAIN tickQ' = 1..Len(tickQ) - 1
    BY <1>0, <2>1, <2>2
  <2>4. QED
    BY <1>0, <1>2, <2>2, <2>3 DEF StrategyRecv, ingestVars
<1>3. CASE Running /\ UNCHANGED <<tickQ, strategyTick, produced>>
  BY <1>3 DEF Running
<1>4. CASE UNCHANGED <<tickQ, strategyTick, produced, exit>>
  BY <1>4
<1>5. CASE IngestPersist
  BY <1>5 DEF IngestPersist, Running, strategyVars
<1>6. QED
  BY <1>1, <1>2, <1>3, <1>4, <1>5
  DEF Next, Ingest, IngestPoll, IngestSkip, IngestEnd, Strategy, StrategySend,
      StrategyPersist, StrategyEnd, Execution, ExecVeto, ExecAdmit, ExecOrder,
      ExecTrade, ExecEnd, Persist, PersistRecv, PersistTimer, PersistClosed,
      PersistWrite, PersistFlushed, Main, StopRequested, ReplayDone,
      BeginShutdown, JoinAll, JoinTimeout, Exit, Terminated, ingestVars,
      strategyVars, queues, vars

\* What the strategy has received and what is queued for it are the ticks
\* produced so far, without gap and without repetition.
THEOREM StrategySeesEveryTick == Spec => []GaplessTicks
<1>1. Init => GaplessTicks
  BY DEF Init, GaplessTicks
<1>2. QED BY <1>1, GaplessStep, PipelineTypeCorrect, PTL DEF Spec

(***************************************************************************)
(* No signal disappears from the counters.                                 *)
(***************************************************************************)
LEMMA CountAddsOne ==
  ASSUME metrics \in [Counters -> Nat], NEW c \in Counters, Count(c)
  PROVE  /\ metrics'[c] = metrics[c] + 1
         /\ \A d \in Counters \ {c} : metrics'[d] = metrics[d]
BY DEF Count

\* The four counters of SignalsAccounted and what they may do in a step.
SignalCounters == {"signals", "orders", "vetoes", "dropSignal"}

LEMMA OtherCountersStay ==
  ASSUME TypeOK, NEW c \in Counters, Count(c)
  PROVE  \A d \in SignalCounters \ {c} : metrics'[d] = metrics[d]
<1>1. SignalCounters \subseteq Counters
  BY DEF SignalCounters, Counters
<1>2. QED BY <1>1, CountAddsOne DEF TypeOK, MainTyped

\* One step moves one signal along: generated, queued or dropped, decided.
LEMMA SignalsStep ==
  TypeOK /\ SignalsAccounted /\ [Next]_vars => SignalsAccounted'
<1> SUFFICES ASSUME TypeOK, SignalsAccounted, [Next]_vars
             PROVE  SignalsAccounted'
  OBVIOUS
<1>0. /\ metrics \in [Counters -> Nat] /\ signalQ \in Seq(Ticks)
      /\ metrics.signals \in Nat /\ metrics.orders \in Nat
      /\ metrics.vetoes \in Nat /\ metrics.dropSignal \in Nat
      /\ SignalCounters \subseteq Counters
  BY DEF TypeOK, MainTyped, ChannelsTyped, Counters, SignalCounters
<1>00. Decided \in Nat /\ Undecided \in Nat
  BY <1>0 DEF Decided, Undecided
<1>1. CASE StrategyRecv
  <2>1. CASE UNCHANGED <<strategyPc, metrics>>
    BY <1>1, <2>1 DEF StrategyRecv, SignalsAccounted, Decided, Undecided
  <2>2. CASE strategyPc' = "signal" /\ Count("signals")
    <3>1. metrics'.signals = metrics.signals + 1
      BY <1>0, <2>2, CountAddsOne DEF SignalCounters
    <3>2. Decided' = Decided /\ metrics'.dropSignal = metrics.dropSignal
      BY <1>0, <2>2, OtherCountersStay DEF SignalCounters, Decided
    <3>3. Undecided' = Undecided + 1
      BY <1>0, <1>1, <2>2 DEF StrategyRecv, Undecided
    <3>4. metrics'.signals = (Decided + metrics.dropSignal) + Undecided'
      <4>1. metrics.signals = (Decided + metrics.dropSignal) + Undecided
        BY DEF SignalsAccounted
      <4>2. Decided + metrics.dropSignal \in Nat
        BY <1>0, <1>00
      <4>3. QED BY <1>00, <3>1, <3>3, <4>1, <4>2
    <3>5. QED BY <3>2, <3>4 DEF SignalsAccounted
  <2>3. QED BY <1>1, <2>1, <2>2 DEF StrategyRecv
<1>2. CASE StrategySend
  <2>1. CASE signalQ' = Append(signalQ, strategyTick) /\ UNCHANGED metrics
    BY <1>0, <1>2, <2>1 DEF StrategySend, SignalsAccounted, Decided, Undecided
  <2>2. CASE SignalDropped /\ UNCHANGED signalQ
    <3>1. metrics'.dropSignal = metrics.dropSignal + 1
      BY <1>0, <2>2, CountAddsOne DEF SignalDropped, SignalCounters
    <3>2. Decided' = Decided /\ metrics'.signals = metrics.signals
      BY <1>0, <2>2, OtherCountersStay
      DEF SignalDropped, SignalCounters, Decided
    <3>3. Undecided' = Undecided - 1
      BY <1>0, <1>2, <2>2 DEF StrategySend, Undecided
    <3>4. QED BY <1>0, <1>00, <3>1, <3>2, <3>3 DEF SignalsAccounted
  <2>3. QED BY <1>2, <2>1, <2>2 DEF StrategySend
<1>3. CASE ExecVeto \/ ExecAdmit
  <2>1. Len(signalQ') = Len(signalQ) - 1 /\ UNCHANGED strategyPc
    BY <1>0, <1>3, HeadTailProperties DEF ExecVeto, ExecAdmit, strategyVars
  <2>2. Undecided' = Undecided - 1
    BY <1>0, <2>1 DEF Undecided
  <2>3. Decided' = Decided + 1
    <3>1. CASE Count("vetoes")
      <4>1. metrics'.vetoes = metrics.vetoes + 1
        BY <1>0, <3>1, CountAddsOne DEF SignalCounters
      <4>2. metrics'.orders = metrics.orders
        BY <1>0, <3>1, OtherCountersStay DEF SignalCounters
      <4>3. QED BY <1>0, <4>1, <4>2 DEF Decided
    <3>2. CASE Count("orders")
      <4>1. metrics'.orders = metrics.orders + 1
        BY <1>0, <3>2, CountAddsOne DEF SignalCounters
      <4>2. metrics'.vetoes = metrics.vetoes
        BY <1>0, <3>2, OtherCountersStay DEF SignalCounters
      <4>3. QED BY <1>0, <4>1, <4>2 DEF Decided
    <3>3. QED BY <1>3, <3>1, <3>2 DEF ExecVeto, ExecAdmit
  <2>4. /\ metrics'.signals = metrics.signals
        /\ metrics'.dropSignal = metrics.dropSignal
    BY <1>0, <1>3, OtherCountersStay DEF ExecVeto, ExecAdmit, SignalCounters
  <2>5. QED BY <1>0, <1>00, <2>2, <2>3, <2>4 DEF SignalsAccounted
<1>4. CASE StrategyPersist \/ StrategyEnd
  BY <1>4 DEF StrategyPersist, StrategyEnd, queues, SignalsAccounted, Decided,
              Undecided
<1>5. CASE IngestTick \/ IngestPersist \/ PersistFlushed
  <2>1. UNCHANGED <<signalQ, strategyPc>>
    BY <1>5 DEF IngestTick, IngestPersist, PersistFlushed, strategyVars, queues
  <2>2. \A d \in SignalCounters : metrics'[d] = metrics[d]
    <3>1. CASE UNCHANGED metrics
      BY <3>1
    <3>2. CASE Count("dropTick") \/ Count("dropPersist")
      BY <3>2, OtherCountersStay DEF Counters, SignalCounters
    <3>3. CASE PersistFlushed
      BY <1>0, <3>3 DEF PersistFlushed, SignalCounters, Counters
    <3>4. QED
      BY <1>5, <3>1, <3>2, <3>3 DEF IngestTick, TickOverflow, IngestPersist
  <2>3. QED
    BY <2>1, <2>2 DEF SignalsAccounted, SignalCounters, Decided, Undecided
<1>6. CASE UNCHANGED <<signalQ, strategyPc, metrics>>
  BY <1>6 DEF SignalsAccounted, Decided, Undecided
<1>7. QED
  BY <1>1, <1>2, <1>3, <1>4, <1>5, <1>6
  DEF Next, Ingest, IngestPoll, IngestSkip, IngestEnd, Strategy, Execution,
      ExecOrder, ExecTrade, ExecEnd, Persist, PersistRecv, PersistTimer,
      PersistClosed, PersistWrite, Main, StopRequested, ReplayDone,
      BeginShutdown, JoinAll, JoinTimeout, Terminated, strategyVars, queues,
      vars

\* The heartbeat's counters explain every signal at every moment.
THEOREM NoSignalUnaccounted == Spec => []SignalsAccounted
<1>1. Init => SignalsAccounted
  BY DEF Init, SignalsAccounted, Decided, Undecided, Counters
<1>2. QED BY <1>1, SignalsStep, PipelineTypeCorrect, PTL DEF Spec

(***************************************************************************)
(* The tracker holds the order in flight and nothing else.                 *)
(***************************************************************************)
LEMMA ExposureStep == ExposureIsHeld /\ [Next]_vars => ExposureIsHeld'
<1> SUFFICES ASSUME ExposureIsHeld, [Next]_vars PROVE ExposureIsHeld'
  OBVIOUS
<1> USE PipelineAssumption DEF ExposureIsHeld, Holding
<1>1. CASE ExecAdmit
  <2> DEFINE n == Head(signalQ)
             sym == SymbolOf[n]
  <2>1. exposure' =
          [total  |-> exposure.total + Notional,
           symbol |-> [s \in DOMAIN exposure.symbol \cup {sym} |->
                          IF s = sym THEN Tracker!SymbolExposure(s) + Notional
                                     ELSE exposure.symbol[s]],
           open   |-> exposure.open + 1]
    BY <1>1 DEF ExecAdmit, Tracker!Reserved, OrderOf
  <2>2. execPc = "recv" /\ execPc' = "order" /\ execSignal' = n
    BY <1>1 DEF ExecAdmit
  <2>3. Tracker!SymbolExposure(sym) = 0
    BY <2>2 DEF Tracker!SymbolExposure
  <2>4. QED BY <2>1, <2>2, <2>3
<1>2. CASE ExecTrade
  <2>1. execPc = "trade" /\ execPc' = "recv"
    BY <1>2 DEF ExecTrade
  <2>2. exposure' =
          [total  |-> exposure.total - Notional,
           symbol |-> [s \in DOMAIN exposure.symbol |->
                          IF s = SymbolOf[execSignal]
                          THEN exposure.symbol[s] - Notional
                          ELSE exposure.symbol[s]],
           open   |-> IF exposure.open > 0 THEN exposure.open - 1 ELSE 0]
    BY <1>2 DEF ExecTrade, AfterFill, Tracker!Released, OrderOf
  <2>3. QED BY <2>1, <2>2
<1>3. CASE ExecVeto \/ ExecOrder \/ ExecEnd
  BY <1>3 DEF ExecVeto, ExecOrder, ExecEnd
<1>4. CASE UNCHANGED execVars
  BY <1>4 DEF execVars
<1>5. QED
  BY <1>1, <1>2, <1>3, <1>4
  DEF Next, Ingest, IngestPoll, IngestSkip, IngestTick, IngestPersist,
      IngestEnd, Strategy, StrategyRecv, StrategySend, StrategyPersist,
      StrategyEnd, Execution, Persist, PersistRecv, PersistTimer,
      PersistClosed, PersistWrite, PersistFlushed, Main, StopRequested,
      ReplayDone, BeginShutdown, JoinAll, JoinTimeout, Terminated, vars

\* Contract I2 in the pipeline: what a fill gives back is what the admission
\* reserved, so that the next signal meets an empty tracker.
THEOREM TrackerHoldsOrderInFlight == Spec => []ExposureIsHeld
<1>1. Init => ExposureIsHeld
  BY DEF Init, ExposureIsHeld, Holding
<1>2. QED BY <1>1, ExposureStep, PTL DEF Spec

(***************************************************************************)
(* The execution task is a client of the tracker: it admits an order that  *)
(* is not outstanding, and releases the one it holds.                      *)
(***************************************************************************)
LEMMA TrackerStep ==
  ASSUME TypeOK, [Next]_vars
  PROVE  [Tracker!Next]_(Tracker!trackerVars)
<1>1. CASE ExecAdmit
  <2> DEFINE o == OrderOf(Head(signalQ))
  <2>1. Head(signalQ) \in Ticks
    BY <1>1, RecvKeepsChannel DEF ExecAdmit, TypeOK, ChannelsTyped
  <2>2. Held = {} /\ Held' = {o}
    BY <1>1 DEF ExecAdmit, Held, Holding, OrderOf
  <2>3. Tracker!CheckAndUpdate(o)
    BY <1>1, <2>2 DEF ExecAdmit, Tracker!CheckAndUpdate
  <2>4. QED BY <2>1, <2>3 DEF Tracker!Next, Ticks
<1>2. CASE ExecTrade
  <2> DEFINE o == OrderOf(execSignal)
  <2>1. execSignal \in Ticks
    BY <1>2 DEF ExecTrade, TypeOK, TasksTyped
  <2>2. Held = {o} /\ Held' = {}
    BY <1>2 DEF ExecTrade, Held, Holding
  <2>3. exposure' = Tracker!Released(o)
    BY <1>2 DEF ExecTrade, AfterFill
  <2>4. Tracker!Release(o)
    BY <2>2, <2>3 DEF Tracker!Release
  <2>5. QED BY <2>1, <2>4 DEF Tracker!Next, Ticks
<1>3. CASE ExecVeto \/ ExecOrder \/ ExecEnd
  BY <1>3 DEF ExecVeto, ExecOrder, ExecEnd, Held, Holding, Tracker!trackerVars
<1>4. CASE UNCHANGED execVars
  BY <1>4 DEF execVars, Held, Holding, OrderOf, Tracker!trackerVars
<1>5. QED
  BY <1>1, <1>2, <1>3, <1>4
  DEF Next, Ingest, IngestPoll, IngestSkip, IngestTick, IngestPersist,
      IngestEnd, Strategy, StrategyRecv, StrategySend, StrategyPersist,
      StrategyEnd, Execution, Persist, PersistRecv, PersistTimer,
      PersistClosed, PersistWrite, PersistFlushed, Main, StopRequested,
      ReplayDone, BeginShutdown, JoinAll, JoinTimeout, Terminated, vars

\* The execution task implements the specification of ExposureTracker: it
\* releases exactly what it was admitted with, so what is proved of the tracker
\* (EngineRulesProofs) holds of the one in the pipeline.
THEOREM PipelineUsesTracker == Spec => TrackerSpec
<1>1. Init => Tracker!Init
  BY DEF Init, Held, Holding, Tracker!Init
<1>2. TypeOK /\ [Next]_vars => [Tracker!Next]_(Tracker!trackerVars)
  BY TrackerStep
<1>3. QED
  BY <1>1, <1>2, PipelineTypeCorrect, PTL DEF Spec, TrackerSpec, Tracker!Spec

------------------------------------------------------------------------------
(***************************************************************************)
(* The pipeline implements the at-most-once journal of EventJournal: first *)
(* that every hand-over to the persist channel is fresh (HandOversAscend), *)
(* then that every step is a step of the journal or a stutter.  From there *)
(* the counters of the persist task explain the rows, and a graceful end   *)
(* leaves nothing behind.                                                  *)
(***************************************************************************)

(***************************************************************************)
(* The elements of a sequence.                                             *)
(***************************************************************************)
LEMMA RangeOfAppend ==
  ASSUME NEW S, NEW s \in Seq(S), NEW e
  PROVE  Range(Append(s, e)) = Range(s) \cup {e}
<1>1. /\ DOMAIN Append(s, e) = 1..Len(s) + 1 /\ DOMAIN s = 1..Len(s)
      /\ Len(s) \in Nat
      /\ \A i \in 1..Len(s) : Append(s, e)[i] = s[i]
      /\ Append(s, e)[Len(s) + 1] = e
  OBVIOUS
<1>2. 1..Len(s) + 1 = (1..Len(s)) \cup {Len(s) + 1}
  BY <1>1
<1>3. QED BY <1>1, <1>2 DEF Range

LEMMA RangeOfConcat ==
  ASSUME NEW S, NEW s \in Seq(S), NEW t \in Seq(S)
  PROVE  Range(s \o t) = Range(s) \cup Range(t)
<1>1. /\ DOMAIN s = 1..Len(s) /\ DOMAIN t = 1..Len(t)
      /\ DOMAIN (s \o t) = 1..Len(s) + Len(t)
      /\ Len(s) \in Nat /\ Len(t) \in Nat
  OBVIOUS
<1>2. \A i \in 1..Len(s) : (s \o t)[i] = s[i]
  BY <1>1, ConcatProperties
<1>3. \A i \in 1..Len(t) : (s \o t)[Len(s) + i] = t[i]
  BY <1>1, ConcatProperties
<1>4. ASSUME NEW x \in Range(s \o t) PROVE x \in Range(s) \cup Range(t)
  <2>1. PICK i \in 1..Len(s) + Len(t) : (s \o t)[i] = x
    BY <1>1, <1>4 DEF Range
  <2>2. CASE i <= Len(s)
    BY <1>1, <1>2, <2>1, <2>2 DEF Range
  <2>3. CASE i > Len(s)
    <3>1. i - Len(s) \in 1..Len(t) /\ Len(s) + (i - Len(s)) = i
      BY <1>1, <2>1, <2>3
    <3>2. QED BY <1>1, <1>3, <2>1, <3>1 DEF Range
  <2>4. QED BY <1>1, <2>1, <2>2, <2>3
<1>5. Range(s) \subseteq Range(s \o t)
  BY <1>1, <1>2 DEF Range
<1>6. ASSUME NEW x \in Range(t) PROVE x \in Range(s \o t)
  <2>1. PICK i \in 1..Len(t) : t[i] = x
    BY <1>1, <1>6 DEF Range
  <2>2. Len(s) + i \in 1..Len(s) + Len(t)
    BY <1>1, <2>1
  <2>3. QED BY <1>1, <1>3, <2>1, <2>2 DEF Range
<1>7. QED BY <1>4, <1>5, <1>6

LEMMA RangeOfTail ==
  ASSUME NEW S, NEW s \in Seq(S), s # <<>>
  PROVE  Range(s) = {Head(s)} \cup Range(Tail(s))
<1>1. /\ DOMAIN s = 1..Len(s) /\ Len(s) \in Nat /\ Len(s) >= 1
      /\ Head(s) = s[1]
      /\ DOMAIN Tail(s) = 1..Len(s) - 1
      /\ \A i \in 1..Len(s) - 1 : Tail(s)[i] = s[i + 1]
  BY HeadTailProperties
<1>2. ASSUME NEW i \in 1..Len(s) PROVE s[i] \in {Head(s)} \cup Range(Tail(s))
  <2>1. CASE i = 1
    BY <1>1, <2>1
  <2>2. CASE i # 1
    <3>1. i - 1 \in 1..Len(s) - 1 /\ (i - 1) + 1 = i
      BY <1>1, <2>2
    <3>2. Tail(s)[i - 1] = s[i]
      BY <1>1, <3>1
    <3>3. QED BY <1>1, <3>1, <3>2 DEF Range
  <2>3. QED BY <2>1, <2>2
<1>3. ASSUME NEW i \in 1..Len(s) - 1 PROVE Tail(s)[i] \in Range(s)
  <2>1. i + 1 \in 1..Len(s)
    BY <1>1
  <2>2. QED BY <1>1, <2>1 DEF Range
<1>4. Head(s) \in Range(s)
  BY <1>1 DEF Range
<1>5. QED BY <1>1, <1>2, <1>3, <1>4 DEF Range

(***************************************************************************)
(* What a step does to the events handed over.                             *)
(***************************************************************************)
LEMMA OfferHandsOver ==
  ASSUME TypeOK, NEW e \in PipelineEvent, OfferToPersist(e),
         UNCHANGED <<buffer, db, rejected>>
  PROVE  HandedOver' = HandedOver \cup {e}
<1>1. persistQ \in Seq(PipelineEvent)
  BY DEF TypeOK, ChannelsTyped
<1>2. CASE persistQ' = Append(persistQ, e) /\ UNCHANGED unrecorded
  <2>1. Range(persistQ') = Range(persistQ) \cup {e}
    BY <1>1, <1>2, RangeOfAppend
  <2>2. QED BY <1>2, <2>1 DEF HandedOver
<1>3. CASE unrecorded' = unrecorded \cup {e} /\ UNCHANGED persistQ
  BY <1>3 DEF HandedOver
<1>4. QED BY <1>2, <1>3 DEF OfferToPersist

LEMMA TickHandsOver ==
  ASSUME TypeOK, IngestPersist
  PROVE  \/ /\ HandedOver' = HandedOver \cup {Event("tick", produced)}
            /\ ingestPc' = "select"
         \/ HandedOver' = HandedOver
<1>1. persistQ \in Seq(PipelineEvent)
  BY DEF TypeOK, ChannelsTyped
<1>2. UNCHANGED <<buffer, db, rejected, unrecorded>>
  BY DEF IngestPersist, persistVars
<1>3. CASE persistQ' = Append(persistQ, Event("tick", produced))
             /\ ingestPc' = "select"
  <2>1. Range(persistQ') = Range(persistQ) \cup {Event("tick", produced)}
    BY <1>1, <1>3, RangeOfAppend
  <2>2. QED BY <1>2, <1>3, <2>1 DEF HandedOver
<1>4. CASE UNCHANGED persistQ
  BY <1>2, <1>4 DEF HandedOver
<1>5. QED BY <1>3, <1>4 DEF IngestPersist

LEMMA PersistKeepsHandedOver ==
  ASSUME TypeOK, Persist
  PROVE  HandedOver' = HandedOver
<1>1. /\ persistQ \in Seq(PipelineEvent) /\ buffer \in Seq(PipelineEvent)
      /\ db \in Seq(PipelineEvent)
  BY DEF TypeOK, ChannelsTyped, RowsTyped
<1>2. CASE PersistRecv
  <2>1. /\ persistQ # <<>> /\ persistQ' = Tail(persistQ)
        /\ buffer' = Append(buffer, Head(persistQ))
        /\ UNCHANGED <<db, rejected, unrecorded>>
    BY <1>2 DEF PersistRecv
  <2>2. Range(persistQ) = {Head(persistQ)} \cup Range(persistQ')
    BY <1>1, <2>1, RangeOfTail
  <2>3. Range(buffer') = Range(buffer) \cup {Head(persistQ)}
    BY <1>1, <2>1, RangeOfAppend
  <2>4. QED BY <2>1, <2>2, <2>3 DEF HandedOver
<1>3. CASE PersistWrite
  <2>1. /\ buffer # <<>> /\ buffer' = Tail(buffer)
        /\ UNCHANGED <<persistQ, unrecorded>>
        /\ \/ db' = Append(db, Head(buffer)) /\ UNCHANGED rejected
           \/ rejected' = rejected \cup {Head(buffer)} /\ UNCHANGED db
    BY <1>3 DEF PersistWrite, queues
  <2>2. Range(buffer) = {Head(buffer)} \cup Range(buffer')
    BY <1>1, <2>1, RangeOfTail
  <2>3. Range(db') \cup rejected' = Range(db) \cup rejected \cup {Head(buffer)}
    <3>1. CASE db' = Append(db, Head(buffer)) /\ UNCHANGED rejected
      <4>1. Range(db') = Range(db) \cup {Head(buffer)}
        BY <1>1, <3>1, RangeOfAppend
      <4>2. QED BY <3>1, <4>1
    <3>2. CASE rejected' = rejected \cup {Head(buffer)} /\ UNCHANGED db
      BY <3>2
    <3>3. QED BY <2>1, <3>1, <3>2
  <2>4. QED BY <2>1, <2>2, <2>3 DEF HandedOver
<1>4. CASE PersistTimer \/ PersistClosed \/ PersistFlushed
  BY <1>4 DEF PersistTimer, PersistClosed, PersistFlushed, queues, HandedOver
<1>5. QED BY <1>2, <1>3, <1>4 DEF Persist

(***************************************************************************)
(* Hand-overs are fresh.                                                   *)
(***************************************************************************)
LEMMA NextTickIsNewer ==
  ASSUME TypeOK, GaplessTicks, StrategyRecv
  PROVE  strategyTick' = strategyTick + 1 /\ strategyTick \in Nat
<1>1. tickQ # <<>> /\ strategyTick' = Head(tickQ) /\ tickQ \in Seq(Ticks)
  BY DEF StrategyRecv, TypeOK, ChannelsTyped
<1>2. 1 \in DOMAIN tickQ /\ Head(tickQ) = tickQ[1]
  BY <1>1
<1>3. QED
  BY <1>1, <1>2, PipelineAssumption DEF GaplessTicks, TypeOK, TasksTyped

LEMMA SignalsAscendStep ==
  TypeOK /\ GaplessTicks /\ SignalsAscend /\ [Next]_vars => SignalsAscend'
<1> SUFFICES ASSUME TypeOK, GaplessTicks, SignalsAscend, [Next]_vars
             PROVE  SignalsAscend'
  OBVIOUS
<1> USE DEF SignalsAscend
<1>0. /\ signalQ \in Seq(Ticks) /\ strategyTick \in Nat /\ execSignal \in Nat
      /\ DOMAIN signalQ = 1..Len(signalQ) /\ Len(signalQ) \in Nat
      /\ \A i \in 1..Len(signalQ) : signalQ[i] \in Nat
  BY PipelineAssumption DEF TypeOK, TasksTyped, ChannelsTyped, Ticks
<1>1. CASE StrategyRecv
  BY <1>0, <1>1, NextTickIsNewer DEF StrategyRecv, execVars
<1>2. CASE StrategySend
  <2>1. /\ strategyPc = "signal" /\ strategyPc' = "persist"
        /\ UNCHANGED <<strategyTick, execSignal>>
    BY <1>2 DEF StrategySend, execVars
  <2>2. CASE signalQ' = Append(signalQ, strategyTick)
    <3>1. /\ DOMAIN signalQ' = 1..Len(signalQ) + 1
          /\ \A i \in 1..Len(signalQ) : signalQ'[i] = signalQ[i]
          /\ signalQ'[Len(signalQ) + 1] = strategyTick
      BY <1>0, <2>2
    <3>2. \A i \in DOMAIN signalQ' :
             execSignal < signalQ'[i] /\ signalQ'[i] <= strategyTick
      BY <1>0, <2>1, <3>1
    <3>3. ASSUME NEW i \in DOMAIN signalQ', NEW j \in DOMAIN signalQ', i < j
          PROVE  signalQ'[i] < signalQ'[j]
      <4>1. i \in 1..Len(signalQ)
        BY <1>0, <3>1, <3>3
      <4>2. CASE j \in 1..Len(signalQ)
        BY <1>0, <3>1, <3>3, <4>1, <4>2
      <4>3. CASE j = Len(signalQ) + 1
        BY <1>0, <2>1, <3>1, <4>1, <4>3
      <4>4. QED BY <1>0, <3>1, <3>3, <4>2, <4>3
    <3>4. QED BY <2>1, <3>2, <3>3
  <2>3. CASE UNCHANGED signalQ
    BY <2>1, <2>3
  <2>4. QED BY <1>2, <2>2, <2>3 DEF StrategySend
<1>3. CASE StrategyPersist \/ StrategyEnd
  BY <1>3 DEF StrategyPersist, StrategyEnd, execVars, queues
<1>4. CASE ExecVeto \/ ExecAdmit
  <2>1. /\ signalQ # <<>> /\ signalQ' = Tail(signalQ)
        /\ execSignal' = Head(signalQ) /\ UNCHANGED strategyVars
    BY <1>4 DEF ExecVeto, ExecAdmit
  <2>2. /\ Len(signalQ) >= 1 /\ Head(signalQ) = signalQ[1]
        /\ DOMAIN signalQ' = 1..Len(signalQ) - 1
        /\ \A i \in 1..Len(signalQ) - 1 : signalQ'[i] = signalQ[i + 1]
    BY <1>0, <2>1, HeadTailProperties
  <2>3. ASSUME NEW i \in DOMAIN signalQ'
        PROVE  /\ i \in Nat /\ 1 < i + 1 /\ i + 1 \in DOMAIN signalQ
               /\ signalQ'[i] = signalQ[i + 1]
    BY <1>0, <2>2
  <2>4. 1 \in DOMAIN signalQ
    BY <1>0, <2>2
  <2>5. \A i \in DOMAIN signalQ' : execSignal' < signalQ'[i]
    BY <2>1, <2>2, <2>3, <2>4
  <2>6. \A i \in DOMAIN signalQ' :
           /\ signalQ'[i] <= strategyTick
           /\ strategyPc = "signal" => signalQ'[i] < strategyTick
    BY <2>3
  <2>7. ASSUME NEW i \in DOMAIN signalQ', NEW j \in DOMAIN signalQ', i < j
        PROVE  signalQ'[i] < signalQ'[j]
    <3>1. i + 1 < j + 1
      BY <2>3, <2>7
    <3>2. signalQ[i + 1] < signalQ[j + 1]
      BY <2>3, <3>1
    <3>3. QED BY <2>3, <3>2
  <2>8. /\ execSignal' <= strategyTick
        /\ strategyPc = "signal" => execSignal' < strategyTick
    BY <2>1, <2>2, <2>4
  <2>9. QED BY <2>1, <2>5, <2>6, <2>7, <2>8 DEF strategyVars
<1>5. CASE UNCHANGED <<signalQ, strategyVars, execSignal>>
  BY <1>5 DEF strategyVars
<1>6. QED
  BY <1>1, <1>2, <1>3, <1>4, <1>5
  DEF Next, Ingest, IngestPoll, IngestSkip, IngestTick, IngestPersist,
      IngestEnd, Strategy, Execution, ExecOrder, ExecTrade, ExecEnd, Persist,
      PersistRecv, PersistTimer, PersistClosed, PersistWrite, PersistFlushed,
      Main, StopRequested, ReplayDone, BeginShutdown, JoinAll, JoinTimeout,
      Terminated, execVars, queues, vars

\* Only IngestPersist and the offers of strategy and execution hand over.
LEMMA OthersHandOverNothing ==
  ASSUME TypeOK, [Next]_vars
  PROVE  \/ IngestPersist \/ StrategyPersist \/ ExecOrder \/ ExecTrade
         \/ HandedOver' = HandedOver
<1>1. CASE Persist
  BY <1>1, PersistKeepsHandedOver
<1>2. CASE UNCHANGED <<persistQ, persistVars, unrecorded>>
  BY <1>2 DEF persistVars, HandedOver
<1>3. QED
  BY <1>1, <1>2
  DEF Next, Ingest, IngestPoll, IngestSkip, IngestTick, IngestEnd, Strategy,
      StrategyRecv, StrategySend, StrategyEnd, Execution, ExecVeto, ExecAdmit,
      ExecEnd, Main, StopRequested, ReplayDone, BeginShutdown, JoinAll,
      JoinTimeout, Terminated, queues, vars

LEMMA HandedOverTyped ==
  ASSUME TypeOK
  PROVE  HandedOver \subseteq PipelineEvent
<1>1. /\ persistQ \in Seq(PipelineEvent) /\ buffer \in Seq(PipelineEvent)
      /\ db \in Seq(PipelineEvent)
      /\ rejected \subseteq PipelineEvent /\ unrecorded \subseteq PipelineEvent
  BY DEF TypeOK, ChannelsTyped, RowsTyped
<1>2. ASSUME NEW s \in Seq(PipelineEvent) PROVE Range(s) \subseteq PipelineEvent
  BY DEF Range
<1>3. QED BY <1>1, <1>2 DEF HandedOver

\* The tasks move on from tick to tick and from signal to signal.
LEMMA PassedStays ==
  ASSUME TypeOK, GaplessTicks, SignalsAscend, [Next]_vars,
         NEW e \in PipelineEvent, Passed(e)
  PROVE  Passed(e)'
<1> USE DEF Passed, Holding
<1>0. /\ produced \in Nat /\ strategyTick \in Nat /\ execSignal \in Nat
      /\ e.n \in Nat
  BY PipelineAssumption DEF TypeOK, TasksTyped, PipelineEvent, Ticks
<1>1. CASE Ingest
  <2>1. UNCHANGED <<strategyVars, execVars>>
    BY <1>1 DEF Ingest, IngestPoll, IngestSkip, IngestTick, IngestPersist,
                IngestEnd
  <2>2. CASE IngestTick
    BY <1>0, <2>1, <2>2 DEF IngestTick, TickOverflow, strategyVars, execVars
  <2>3. CASE IngestPoll \/ IngestSkip \/ IngestPersist \/ IngestEnd
    BY <2>1, <2>3 DEF IngestPoll, IngestSkip, IngestPersist, IngestEnd,
                      strategyVars, execVars
  <2>4. QED BY <1>1, <2>2, <2>3 DEF Ingest
<1>2. CASE StrategyRecv
  <2>1. strategyTick' = strategyTick + 1
    BY <1>2, NextTickIsNewer
  <2>2. QED BY <1>0, <1>2, <2>1 DEF StrategyRecv, ingestVars, execVars
<1>3. CASE StrategySend \/ StrategyPersist \/ StrategyEnd
  BY <1>3 DEF StrategySend, StrategyPersist, StrategyEnd, ingestVars, execVars
<1>4. CASE ExecVeto \/ ExecAdmit
  <2>1. signalQ # <<>> /\ signalQ \in Seq(Ticks) /\ execSignal' = Head(signalQ)
    BY <1>4 DEF ExecVeto, ExecAdmit, TypeOK, ChannelsTyped
  <2>2. 1 \in DOMAIN signalQ /\ Head(signalQ) = signalQ[1]
    BY <2>1
  <2>3. execSignal < execSignal' /\ execSignal' \in Nat
    BY <2>1, <2>2, HeadTailProperties, PipelineAssumption
    DEF SignalsAscend, Ticks
  <2>4. QED
    BY <1>0, <1>4, <2>3 DEF ExecVeto, ExecAdmit, ingestVars, strategyVars
<1>5. CASE ExecOrder \/ ExecTrade \/ ExecEnd
  BY <1>5 DEF ExecOrder, ExecTrade, ExecEnd, ingestVars, strategyVars
<1>6. CASE UNCHANGED <<ingestVars, strategyVars, execVars>>
  BY <1>6 DEF ingestVars, strategyVars, execVars
<1>7. QED
  BY <1>1, <1>2, <1>3, <1>4, <1>5, <1>6
  DEF Next, Strategy, Execution, Persist, PersistRecv, PersistTimer,
      PersistClosed, PersistWrite, PersistFlushed, Main, StopRequested,
      ReplayDone, BeginShutdown, JoinAll, JoinTimeout, Terminated, vars


\* An event offered by the strategy or the execution task joins the others.
LEMMA OfferedEvent ==
  ASSUME TypeOK
  PROVE  /\ StrategyPersist => HandedOver' =
               HandedOver \cup {Event("signal", strategyTick)}
         /\ ExecOrder => HandedOver' =
               HandedOver \cup {Event("order", execSignal)}
         /\ ExecTrade => HandedOver' =
               HandedOver \cup {Event("trade", execSignal)}
<1>1. ASSUME StrategyPersist
      PROVE  HandedOver' = HandedOver \cup {Event("signal", strategyTick)}
  <2>1. Event("signal", strategyTick) \in PipelineEvent
    BY <1>1 DEF StrategyPersist, TypeOK, TasksTyped, Event, PipelineEvent
  <2>2. QED BY <1>1, <2>1, OfferHandsOver DEF StrategyPersist, persistVars
<1>2. ASSUME ExecOrder
      PROVE  HandedOver' = HandedOver \cup {Event("order", execSignal)}
  <2>1. Event("order", execSignal) \in PipelineEvent
    BY <1>2 DEF ExecOrder, TypeOK, TasksTyped, Event, PipelineEvent
  <2>2. QED
    BY <1>2, <2>1, OfferHandsOver DEF ExecOrder, FirstRecord, persistVars
<1>3. ASSUME ExecTrade
      PROVE  HandedOver' = HandedOver \cup {Event("trade", execSignal)}
  <2>1. Event("trade", execSignal) \in PipelineEvent
    BY <1>3 DEF ExecTrade, TypeOK, TasksTyped, Event, PipelineEvent
  <2>2. QED BY <1>3, <2>1, OfferHandsOver DEF ExecTrade, persistVars
<1>4. QED BY <1>1, <1>2, <1>3

LEMMA EventsPassedStep ==
  TypeOK /\ GaplessTicks /\ HandOversAscend /\ [Next]_vars => EventsPassed'
<1> SUFFICES ASSUME TypeOK, GaplessTicks, HandOversAscend, [Next]_vars
             PROVE  EventsPassed'
  OBVIOUS
<1>1. EventsPassed /\ SignalsAscend
  BY DEF HandOversAscend
<1>2. \A e \in HandedOver : Passed(e)'
  BY <1>1, PassedStays, HandedOverTyped DEF EventsPassed
<1>3. produced \in Nat /\ strategyTick \in Nat /\ execSignal \in Nat
  BY PipelineAssumption DEF TypeOK, TasksTyped
<1>4. CASE IngestPersist
  <2>1. UNCHANGED <<execVars, produced>>
    BY <1>4 DEF IngestPersist
  <2>2. CASE HandedOver' = HandedOver \cup {Event("tick", produced)}
             /\ ingestPc' = "select"
    <3>1. Passed(Event("tick", produced))'
      BY <1>3, <1>4, <2>2 DEF IngestPersist, Passed, Event
    <3>2. QED BY <1>1, <1>2, <2>1, <2>2, <3>1 DEF EventsPassed, execVars
  <2>3. CASE HandedOver' = HandedOver
    BY <1>1, <1>2, <2>1, <2>3 DEF EventsPassed, execVars
  <2>4. QED BY <1>4, <2>2, <2>3, TickHandsOver
<1>5. CASE StrategyPersist
  <2>1. Passed(Event("signal", strategyTick))'
    BY <1>3, <1>5 DEF StrategyPersist, Passed, Event
  <2>2. QED BY <1>1, <1>2, <1>5, <2>1, OfferedEvent
            DEF EventsPassed, StrategyPersist, execVars
<1>6. CASE ExecOrder
  <2>1. execPc' = "trade" /\ UNCHANGED execSignal
    BY <1>6 DEF ExecOrder
  <2>2. Passed(Event("order", execSignal))'
    BY <1>3, <2>1 DEF Passed, Event
  <2>3. QED
    BY <1>2, <1>6, <2>1, <2>2, OfferedEvent DEF EventsPassed, Event
<1>7. CASE ExecTrade
  <2>1. execPc' = "recv" /\ UNCHANGED execSignal
    BY <1>7 DEF ExecTrade
  <2>2. Passed(Event("trade", execSignal))'
    BY <1>3, <2>1 DEF Passed, Holding, Event
  <2>3. QED BY <1>2, <1>7, <2>1, <2>2, OfferedEvent DEF EventsPassed
<1>8. CASE HandedOver' = HandedOver
  <2>1. CASE ExecOrder
    BY <1>6, <2>1
  <2>2. CASE ~ ExecOrder
    <3>1. execPc' = "trade" => UNCHANGED <<execPc, execSignal>>
      BY <2>2
      DEF Next, Ingest, IngestPoll, IngestSkip, IngestTick, IngestPersist,
          IngestEnd, Strategy, StrategyRecv, StrategySend, StrategyPersist,
          StrategyEnd, Execution, ExecVeto, ExecAdmit, ExecTrade, ExecEnd,
          Persist, PersistRecv, PersistTimer, PersistClosed, PersistWrite,
          PersistFlushed, Main, StopRequested, ReplayDone, BeginShutdown,
          JoinAll, JoinTimeout, Terminated, execVars, vars
    <3>2. QED BY <1>1, <1>2, <1>8, <3>1 DEF EventsPassed, Event
  <2>3. QED BY <2>1, <2>2
<1>9. QED BY <1>4, <1>5, <1>6, <1>7, <1>8, OthersHandOverNothing

\* A tick, signal, order or trade still to come is newer than all of its kind
\* that were handed over, and a trade comes after its order.
THEOREM HandOversAreFresh == Spec => []HandOversAscend
<1>1. Init => HandOversAscend
  <2> SUFFICES ASSUME Init PROVE HandOversAscend
    OBVIOUS
  <2>1. DOMAIN <<>> = {} /\ Range(<<>>) = {}
    BY DEF Range
  <2>2. HandedOver = {}
    BY <2>1 DEF Init, HandedOver
  <2>3. EventsPassed
    BY <2>2 DEF Init, EventsPassed
  <2>4. SignalsAscend
    BY <2>1 DEF Init, SignalsAscend
  <2>5. QED BY <2>3, <2>4 DEF HandOversAscend
<1>2. TypeOK /\ GaplessTicks /\ HandOversAscend /\ [Next]_vars
        => HandOversAscend'
  BY EventsPassedStep, SignalsAscendStep DEF HandOversAscend
<1>3. QED
  BY <1>1, <1>2, PipelineTypeCorrect, StrategySeesEveryTick, PTL DEF Spec

(***************************************************************************)
(* Batch and channel as one queue.                                         *)
(***************************************************************************)
LEMMA AppendToConcat ==
  ASSUME NEW S, NEW s \in Seq(S), NEW t \in Seq(S), NEW e \in S
  PROVE  s \o Append(t, e) = Append(s \o t, e)
<1>1. Append(t, e) = t \o <<e>> /\ <<e>> \in Seq(S)
  OBVIOUS
<1>2. Append(s \o t, e) = (s \o t) \o <<e>>
  OBVIOUS
<1>3. QED BY <1>1, <1>2, ConcatAssociative

LEMMA MoveAcrossConcat ==
  ASSUME NEW S, NEW s \in Seq(S), NEW t \in Seq(S), t # <<>>
  PROVE  Append(s, Head(t)) \o Tail(t) = s \o t
<1>1. Head(t) \in S /\ Tail(t) \in Seq(S) /\ <<Head(t)>> \in Seq(S)
  BY HeadTailProperties
<1>2. t = <<Head(t)>> \o Tail(t)
  BY <1>1
<1>3. Append(s, Head(t)) = s \o <<Head(t)>>
  BY <1>1
<1>4. QED BY <1>1, <1>2, <1>3, ConcatAssociative

LEMMA HeadTailOfConcat ==
  ASSUME NEW S, NEW s \in Seq(S), NEW t \in Seq(S), s # <<>>
  PROVE  /\ s \o t # <<>>
         /\ Head(s \o t) = Head(s) /\ Tail(s \o t) = Tail(s) \o t
<1>1. Head(s) \in S /\ Tail(s) \in Seq(S) /\ <<Head(s)>> \in Seq(S)
  BY HeadTailProperties
<1>2. s = <<Head(s)>> \o Tail(s)
  BY <1>1
<1>3. s \o t = <<Head(s)>> \o (Tail(s) \o t)
  BY <1>1, <1>2, ConcatAssociative
<1>4. Tail(s) \o t \in Seq(S)
  BY <1>1, ConcatProperties
<1>5. QED BY <1>1, <1>3, <1>4

(***************************************************************************)
(* The tasks end one after the other: the receivers only once their        *)
(* senders are gone and their channels empty.                              *)
(***************************************************************************)
EndInOrder ==
    /\ strategyPc = "ended" => ingestPc = "ended" /\ tickQ = <<>>
    /\ execPc = "ended" => strategyPc = "ended" /\ signalQ = <<>>
    /\ persistPc \in {"final", "ended"} =>
          ingestPc = "ended" /\ execPc = "ended" /\ persistQ = <<>>
    /\ persistPc = "ended" => buffer = <<>>

LEMMA EndInOrderStep == EndInOrder /\ [Next]_vars => EndInOrder'
<1> SUFFICES ASSUME EndInOrder, [Next]_vars PROVE EndInOrder'
  OBVIOUS
<1> USE DEF EndInOrder
<1>1. CASE Ingest
  BY <1>1 DEF Ingest, IngestPoll, IngestSkip, IngestTick, TickOverflow,
              IngestPersist, SeesShutdown, IngestEnd, strategyVars, execVars,
              persistVars, queues
<1>2. CASE Strategy
  BY <1>2 DEF Strategy, StrategyRecv, StrategySend, StrategyPersist,
              OfferToPersist, StrategyEnd, ingestVars, execVars, persistVars,
              queues
<1>3. CASE Execution
  BY <1>3 DEF Execution, ExecVeto, ExecAdmit, ExecOrder, ExecTrade,
              OfferToPersist, ExecEnd, ingestVars, strategyVars, persistVars,
              queues
<1>4. CASE Persist
  BY <1>4 DEF Persist, PersistRecv, PersistTimer, PersistClosed, AfterClose,
              PersistWrite, PersistFlushed, ingestVars, strategyVars, execVars,
              queues
<1>5. CASE UNCHANGED <<ingestVars, strategyVars, execVars, persistVars, queues>>
  BY <1>5 DEF ingestVars, strategyVars, execVars, persistVars, queues
<1>6. QED
  BY <1>1, <1>2, <1>3, <1>4, <1>5
  DEF Next, Main, StopRequested, ReplayDone, BeginShutdown, JoinAll,
      JoinTimeout, Terminated, vars

LEMMA TasksEndInOrder == Spec => []EndInOrder
<1>1. Init => EndInOrder
  BY DEF Init, EndInOrder
<1>2. QED BY <1>1, EndInOrderStep, PTL DEF Spec

(***************************************************************************)
(* Every step is a step of the journal.                                    *)
(***************************************************************************)
Pending == buffer \o persistQ

LEMMA QueuesTyped ==
  ASSUME TypeOK
  PROVE  /\ persistQ \in Seq(PipelineEvent) /\ buffer \in Seq(PipelineEvent)
         /\ db \in Seq(PipelineEvent) /\ Pending \in Seq(PipelineEvent)
BY ConcatProperties DEF TypeOK, ChannelsTyped, RowsTyped, Pending

LEMMA KnownIsHandedOver ==
  ASSUME TypeOK
  PROVE  Journal!Known = HandedOver
<1>1. Range(Pending) = Range(buffer) \cup Range(persistQ)
  BY QueuesTyped, RangeOfConcat DEF Pending
<1>2. Journal!Known = Range(Pending) \cup Range(db) \cup rejected \cup unrecorded
  BY DEF Journal!Known, Journal!Range, Range, Pending
<1>3. QED BY <1>1, <1>2 DEF HandedOver

\* What the tasks hand over may be handed over.
LEMMA HandOversFresh ==
  ASSUME TypeOK, HandOversAscend
  PROVE  /\ IngestPersist => Journal!Fresh(Event("tick", produced))
         /\ StrategyPersist => Journal!Fresh(Event("signal", strategyTick))
         /\ ExecOrder => Journal!Fresh(Event("order", execSignal))
         /\ ExecTrade => Journal!Fresh(Event("trade", execSignal))
<1>1. \A d \in Journal!Known : Passed(d)
  BY KnownIsHandedOver DEF HandOversAscend, EventsPassed
<1>2. execPc = "trade" => Event("order", execSignal) \in Journal!Known
  BY KnownIsHandedOver DEF HandOversAscend, EventsPassed
<1>3. IngestPersist => Journal!Fresh(Event("tick", produced))
  BY <1>1 DEF IngestPersist, Journal!Fresh, Passed, Event
<1>4. StrategyPersist => Journal!Fresh(Event("signal", strategyTick))
  BY <1>1 DEF StrategyPersist, Journal!Fresh, Passed, Event
<1>5. ExecOrder => Journal!Fresh(Event("order", execSignal))
  BY <1>1 DEF ExecOrder, Journal!Fresh, Passed, Event
<1>6. ExecTrade => Journal!Fresh(Event("trade", execSignal))
  BY <1>1, <1>2 DEF ExecTrade, Journal!Fresh, Passed, Holding, Event
<1>7. QED BY <1>3, <1>4, <1>5, <1>6

LEMMA OfferIsTakeOrDiscard ==
  ASSUME TypeOK, Running, NEW e \in PipelineEvent, Journal!Fresh(e),
         OfferToPersist(e), UNCHANGED <<persistVars, exit>>
  PROVE  Journal!Next
<1>1. e \in Journal!Events
  BY DEF PipelineEvent, Journal!Events, Journal!Kinds, Ticks
<1>2. UNCHANGED <<buffer, db, rejected, exit>> /\ exit = "running"
  BY DEF persistVars, Running
<1>3. CASE persistQ' = Append(persistQ, e) /\ UNCHANGED unrecorded
  <2>1. Pending' = Append(Pending, e)
    BY <1>2, <1>3, QueuesTyped, AppendToConcat DEF Pending
  <2>2. Journal!Take(e)
    BY <1>2, <1>3, <2>1 DEF Journal!Take, Pending
  <2>3. QED BY <1>1, <2>2 DEF Journal!Next
<1>4. CASE unrecorded' = unrecorded \cup {e} /\ UNCHANGED persistQ
  <2>1. Journal!Discard(e)
    BY <1>2, <1>4 DEF Journal!Discard
  <2>2. QED BY <1>1, <2>1 DEF Journal!Next
<1>5. QED BY <1>3, <1>4 DEF OfferToPersist

LEMMA PersistRefines ==
  ASSUME TypeOK, Persist
  PROVE  Journal!Next \/ UNCHANGED Journal!journalVars
<1>1. exit = "running" /\ UNCHANGED <<exit, unrecorded>>
  BY DEF Persist, PersistRecv, PersistTimer, PersistClosed, PersistWrite,
         PersistFlushed, Running
<1>2. CASE PersistRecv
  <2>1. /\ persistQ # <<>> /\ persistQ' = Tail(persistQ)
        /\ buffer' = Append(buffer, Head(persistQ))
        /\ UNCHANGED <<db, rejected>>
    BY <1>2 DEF PersistRecv
  <2>2. Pending' = Pending
    BY <2>1, QueuesTyped, MoveAcrossConcat DEF Pending
  <2>3. QED BY <1>1, <2>1, <2>2 DEF Journal!journalVars, Pending
<1>3. CASE PersistWrite
  <2>1. /\ buffer # <<>> /\ buffer' = Tail(buffer) /\ UNCHANGED persistQ
        /\ \/ db' = Append(db, Head(buffer)) /\ UNCHANGED rejected
           \/ rejected' = rejected \cup {Head(buffer)} /\ UNCHANGED db
    BY <1>3 DEF PersistWrite, queues
  <2>2. /\ Pending # <<>> /\ Head(Pending) = Head(buffer)
        /\ Pending' = Tail(Pending)
    BY <2>1, QueuesTyped, HeadTailOfConcat DEF Pending
  <2>3. CASE db' = Append(db, Head(buffer)) /\ UNCHANGED rejected
    <3>1. Journal!Write
      BY <1>1, <2>2, <2>3 DEF Journal!Write, Pending
    <3>2. QED BY <3>1 DEF Journal!Next
  <2>4. CASE rejected' = rejected \cup {Head(buffer)} /\ UNCHANGED db
    <3>1. Journal!Reject
      BY <1>1, <2>2, <2>4 DEF Journal!Reject, Pending
    <3>2. QED BY <3>1 DEF Journal!Next
  <2>5. QED BY <2>1, <2>3, <2>4
<1>4. CASE PersistTimer \/ PersistClosed \/ PersistFlushed
  BY <1>1, <1>4 DEF PersistTimer, PersistClosed, PersistFlushed, queues,
                    Journal!journalVars
<1>5. QED BY <1>2, <1>3, <1>4 DEF Persist

\* The end of the process, orderly or not, is the end of the journal.
LEMMA ExitRefines ==
  ASSUME EndInOrder, Running, UNCHANGED <<persistVars, persistQ, unrecorded>>,
         \/ exit' = "graceful" /\ AllEnded
         \/ exit' \in {"timeout", "overload"}
  PROVE  Journal!Next
<1>1. /\ exit = "running" /\ UNCHANGED <<buffer, persistQ, db, rejected>>
  BY DEF Running, persistVars
<1>2. CASE exit' = "graceful" /\ AllEnded
  <2>1. buffer = <<>> /\ persistQ = <<>>
    BY <1>2 DEF AllEnded, EndInOrder
  <2>2. Pending = <<>>
    BY <2>1 DEF Pending
  <2>3. Journal!Close
    BY <1>1, <1>2, <2>2 DEF Journal!Close, Pending
  <2>4. QED BY <2>3 DEF Journal!Next
<1>3. CASE exit' \in {"timeout", "overload"}
  <2>1. Journal!Cut
    BY <1>1, <1>3 DEF Journal!Cut
  <2>2. QED BY <2>1 DEF Journal!Next
<1>4. QED BY <1>2, <1>3

LEMMA JournalStep ==
  ASSUME TypeOK, HandOversAscend, EndInOrder, [Next]_vars
  PROVE  [Journal!Next]_(Journal!journalVars)
<1>1. CASE UNCHANGED <<persistVars, persistQ, unrecorded, exit>>
  BY <1>1 DEF persistVars, Journal!journalVars
<1>2. CASE IngestTick
  <2>1. CASE TickOverflow
    BY <1>2, <2>1, ExitRefines DEF IngestTick, TickOverflow, Exit
  <2>2. CASE UNCHANGED exit
    BY <1>1, <1>2, <2>2 DEF IngestTick
  <2>3. QED BY <1>2, <2>1, <2>2 DEF IngestTick
<1>3. CASE IngestPersist
  <2>1. CASE persistQ' = Append(persistQ, Event("tick", produced))
             /\ UNCHANGED exit
    <3>1. Event("tick", produced) \in PipelineEvent
      BY <1>3 DEF IngestPersist, TypeOK, TasksTyped, Event, PipelineEvent
    <3>2. OfferToPersist(Event("tick", produced))
      BY <1>3, <2>1 DEF IngestPersist, OfferToPersist
    <3>3. QED
      BY <1>3, <2>1, <3>1, <3>2, HandOversFresh, OfferIsTakeOrDiscard
      DEF IngestPersist
  <2>2. CASE Exit("overload") /\ UNCHANGED persistQ
    BY <1>3, <2>2, ExitRefines DEF IngestPersist, Exit
  <2>3. QED BY <1>3, <2>1, <2>2 DEF IngestPersist
<1>4. CASE StrategyPersist
  <2>1. Event("signal", strategyTick) \in PipelineEvent
    BY <1>4 DEF StrategyPersist, TypeOK, TasksTyped, Event, PipelineEvent
  <2>2. QED BY <1>4, <2>1, HandOversFresh, OfferIsTakeOrDiscard
            DEF StrategyPersist
<1>5. CASE ExecOrder
  <2>1. Event("order", execSignal) \in PipelineEvent
    BY <1>5 DEF ExecOrder, TypeOK, TasksTyped, Event, PipelineEvent
  <2>2. QED BY <1>5, <2>1, HandOversFresh, OfferIsTakeOrDiscard
            DEF ExecOrder, FirstRecord
<1>6. CASE ExecTrade
  <2>1. Event("trade", execSignal) \in PipelineEvent
    BY <1>6 DEF ExecTrade, TypeOK, TasksTyped, Event, PipelineEvent
  <2>2. QED BY <1>6, <2>1, HandOversFresh, OfferIsTakeOrDiscard DEF ExecTrade
<1>7. CASE Persist
  BY <1>7, PersistRefines
<1>8. CASE JoinAll \/ JoinTimeout
  BY <1>8, ExitRefines DEF JoinAll, JoinTimeout, Exit, queues
<1>9. QED
  BY <1>1, <1>2, <1>3, <1>4, <1>5, <1>6, <1>7, <1>8
  DEF Next, Ingest, IngestPoll, IngestSkip, IngestEnd, Strategy, StrategyRecv,
      StrategySend, StrategyEnd, Execution, ExecVeto, ExecAdmit, ExecEnd, Main,
      StopRequested, ReplayDone, BeginShutdown, Terminated, queues, vars

\* The pipeline implements the at-most-once journal: no event is handed over or
\* written twice, rows keep the order of hand-over across channel and batch, and
\* a journal that is closed is drained.
THEOREM PipelineImplementsJournal == Spec => JournalSpec
<1>1. Init => Journal!Init
  BY DEF Init, Journal!Init
<1>2. TypeOK /\ HandOversAscend /\ EndInOrder /\ [Next]_vars
        => [Journal!Next]_(Journal!journalVars)
  BY JournalStep
<1>3. QED
  BY <1>1, <1>2, PipelineTypeCorrect, HandOversAreFresh, TasksEndInOrder, PTL
  DEF Spec, JournalSpec, Journal!Spec

(***************************************************************************)
(* Rows and counters.  No event waits twice, and none that waits was       *)
(* refused before.                                                         *)
(***************************************************************************)
NoRepeats ==
    /\ \A i, j \in DOMAIN Pending : i < j => Pending[i] # Pending[j]
    /\ \A i \in DOMAIN Pending : Pending[i] \notin rejected \cup unrecorded

LEMMA FreshIsUnknown ==
  ASSUME NEW e \in Journal!Events, Journal!Fresh(e)
  PROVE  e \notin Journal!Known
<1>1. e.n \in Nat
  BY PipelineAssumption DEF Journal!Events
<1>2. QED BY <1>1 DEF Journal!Fresh

LEMMA NoRepeatsStep ==
  ASSUME TypeOK, NoRepeats, [Journal!Next]_(Journal!journalVars)
  PROVE  NoRepeats'
<1> USE DEF NoRepeats
<1>0. /\ Pending \in Seq(PipelineEvent) /\ Len(Pending) \in Nat
      /\ DOMAIN Pending = 1..Len(Pending)
  BY QueuesTyped
<1>1. ASSUME NEW e \in Journal!Events, Journal!Take(e) PROVE NoRepeats'
  <2>1. /\ Pending' = Append(Pending, e)
        /\ UNCHANGED (rejected \cup unrecorded)
    BY <1>1 DEF Journal!Take, Pending
  <2>2. e \notin Journal!Known
    BY <1>1, FreshIsUnknown DEF Journal!Take
  <2>3. e \notin HandedOver
    BY <2>2, KnownIsHandedOver
  <2>4. e \notin rejected \cup unrecorded
    BY <2>3 DEF HandedOver
  <2>5. \A i \in DOMAIN Pending : Pending[i] # e
    <3>1. e \notin Range(Pending)
      BY <2>3, QueuesTyped, RangeOfConcat DEF HandedOver, Pending
    <3>2. QED BY <3>1 DEF Range
  <2>6. /\ DOMAIN Pending' = 1..Len(Pending) + 1
        /\ \A i \in 1..Len(Pending) : Pending'[i] = Pending[i]
        /\ Pending'[Len(Pending) + 1] = e
    BY <1>0, <2>1
  <2>7. ASSUME NEW i \in DOMAIN Pending', NEW j \in DOMAIN Pending', i < j
        PROVE  Pending'[i] # Pending'[j]
    <3>1. i \in 1..Len(Pending)
      BY <1>0, <2>6, <2>7
    <3>2. CASE j \in 1..Len(Pending)
      BY <1>0, <2>6, <2>7, <3>1, <3>2
    <3>3. CASE j = Len(Pending) + 1
      BY <1>0, <2>5, <2>6, <3>1, <3>3
    <3>4. QED BY <1>0, <2>6, <3>2, <3>3
  <2>8. ASSUME NEW i \in DOMAIN Pending'
        PROVE  Pending'[i] \notin (rejected \cup unrecorded)'
    <3>1. CASE i \in 1..Len(Pending)
      BY <1>0, <2>1, <2>6, <3>1
    <3>2. CASE i = Len(Pending) + 1
      BY <2>1, <2>4, <2>6, <3>2
    <3>3. QED BY <1>0, <2>6, <3>1, <3>2
  <2>9. QED BY <2>7, <2>8
<1>2. ASSUME NEW e \in Journal!Events, Journal!Discard(e) PROVE NoRepeats'
  <2>1. /\ (rejected \cup unrecorded)' = (rejected \cup unrecorded) \cup {e}
        /\ UNCHANGED Pending
    BY <1>2 DEF Journal!Discard, Pending
  <2>2. e \notin HandedOver
    BY <1>2, FreshIsUnknown, KnownIsHandedOver DEF Journal!Discard
  <2>3. e \notin Range(Pending)
    BY <2>2, QueuesTyped, RangeOfConcat DEF HandedOver, Pending
  <2>4. QED BY <2>1, <2>3 DEF Range
<1>3. ASSUME Pending # <<>>, Pending' = Tail(Pending),
             (rejected \cup unrecorded)' \subseteq
                 (rejected \cup unrecorded) \cup {Head(Pending)}
      PROVE  NoRepeats'
  <2>1. /\ DOMAIN Pending' = 1..Len(Pending) - 1 /\ Head(Pending) = Pending[1]
        /\ \A i \in 1..Len(Pending) - 1 : Pending'[i] = Pending[i + 1]
    BY <1>0, <1>3, HeadTailProperties
  <2>2. ASSUME NEW i \in DOMAIN Pending'
        PROVE  /\ i \in Nat /\ i + 1 \in DOMAIN Pending /\ 1 < i + 1
               /\ 1 \in DOMAIN Pending /\ Pending'[i] = Pending[i + 1]
    BY <1>0, <2>1
  <2>3. ASSUME NEW i \in DOMAIN Pending', NEW j \in DOMAIN Pending', i < j
        PROVE  Pending'[i] # Pending'[j]
    <3>1. i + 1 < j + 1
      BY <2>2, <2>3
    <3>2. Pending[i + 1] # Pending[j + 1]
      BY <2>2, <3>1
    <3>3. QED BY <2>2, <3>2
  <2>4. ASSUME NEW i \in DOMAIN Pending'
        PROVE  Pending'[i] \notin (rejected \cup unrecorded)'
    <3>1. Pending'[i] # Head(Pending)
      BY <2>1, <2>2
    <3>2. Pending'[i] \notin rejected \cup unrecorded
      BY <2>2
    <3>3. QED BY <1>3, <3>1, <3>2
  <2>5. QED BY <2>3, <2>4
<1>4. CASE Journal!Write \/ Journal!Reject
  BY <1>3, <1>4 DEF Journal!Write, Journal!Reject, Pending
<1>5. CASE UNCHANGED <<Pending, rejected \cup unrecorded>>
  BY <1>5
<1>6. QED
  BY <1>1, <1>2, <1>4, <1>5
  DEF Journal!Next, Journal!Close, Journal!Cut, Journal!journalVars, Pending

LEMMA NothingRepeated == Spec => []NoRepeats
<1>1. Init => NoRepeats
  BY DEF Init, NoRepeats, Pending
<1>2. TypeOK /\ HandOversAscend /\ EndInOrder /\ NoRepeats /\ [Next]_vars
        => NoRepeats'
  BY JournalStep, NoRepeatsStep
<1>3. QED
  BY <1>1, <1>2, PipelineTypeCorrect, HandOversAreFresh, TasksEndInOrder, PTL
  DEF Spec

LEMMA HeadOfBatchNotRefused ==
  ASSUME TypeOK, NoRepeats, buffer # <<>>
  PROVE  Head(buffer) \notin rejected
<1>1. Pending # <<>> /\ Head(Pending) = Head(buffer)
  BY QueuesTyped, HeadTailOfConcat DEF Pending
<1>2. 1 \in DOMAIN Pending /\ Head(Pending) = Pending[1]
  BY <1>1, QueuesTyped
<1>3. QED BY <1>1, <1>2 DEF NoRepeats

LEMMA RowsAccountedStep ==
  ASSUME TypeOK, NoRepeats, RowsAccounted, [Next]_vars
  PROVE  RowsAccounted'
<1> USE DEF RowsAccounted
<1>0. /\ metrics \in [Counters -> Nat] /\ metrics.persisted \in Nat
      /\ metrics.errors \in Nat /\ batch.ok \in Nat /\ batch.err \in Nat
      /\ db \in Seq(PipelineEvent) /\ Len(db) \in Nat
      /\ IsFiniteSet(rejected) /\ Cardinality(rejected) \in Nat
      /\ batch \in [ok : Nat, err : Nat]
  BY FS_CardinalityType DEF TypeOK, MainTyped, RowsTyped, Counters
<1>1. CASE PersistWrite
  <2>1. UNCHANGED <<metrics, persistPc>> /\ persistPc \in {"flush", "final"}
    BY <1>1 DEF PersistWrite
  <2>2. CASE /\ db' = Append(db, Head(buffer)) /\ UNCHANGED rejected
             /\ batch' = [batch EXCEPT !.ok = @ + 1]
    <3>1. Len(db') = Len(db) + 1
      BY <1>0, <2>2
    <3>2. batch'.ok = batch.ok + 1 /\ batch'.err = batch.err
      BY <1>0, <2>2
    <3>3. QED BY <1>0, <2>1, <2>2, <3>1, <3>2
  <2>3. CASE /\ rejected' = rejected \cup {Head(buffer)} /\ UNCHANGED db
             /\ batch' = [batch EXCEPT !.err = @ + 1]
    <3>1. Head(buffer) \notin rejected
      BY <1>1, HeadOfBatchNotRefused DEF PersistWrite
    <3>2. Cardinality(rejected') = Cardinality(rejected) + 1
      BY <1>0, <2>3, <3>1, FS_AddElement
    <3>3. batch'.ok = batch.ok /\ batch'.err = batch.err + 1
      BY <1>0, <2>3
    <3>4. QED BY <1>0, <2>1, <2>3, <3>2, <3>3
  <2>4. QED BY <1>1, <2>2, <2>3 DEF PersistWrite
<1>2. CASE PersistFlushed
  <2>1. /\ metrics'.persisted = metrics.persisted + batch.ok
        /\ metrics'.errors = metrics.errors + batch.err
        /\ batch' = [ok |-> 0, err |-> 0] /\ UNCHANGED <<db, rejected>>
    BY <1>0, <1>2 DEF PersistFlushed, NextBatch, Counters
  <2>2. QED BY <1>0, <2>1
<1>3. CASE PersistRecv \/ PersistTimer \/ PersistClosed
  BY <1>3 DEF PersistRecv, PersistTimer, PersistClosed, AfterClose
<1>4. ASSUME NEW c \in Counters \ {"persisted", "errors"}, Count(c),
             UNCHANGED persistVars
      PROVE  RowsAccounted'
  <2>1. /\ metrics'.persisted = metrics.persisted
        /\ metrics'.errors = metrics.errors
    BY <1>0, <1>4, CountAddsOne DEF Counters
  <2>2. QED BY <1>4, <2>1 DEF persistVars
<1>5. CASE UNCHANGED <<metrics, persistVars>>
  BY <1>5 DEF persistVars
<1>6. QED
  BY <1>1, <1>2, <1>3, <1>4, <1>5
  DEF Next, Ingest, IngestPoll, IngestSkip, IngestTick, TickOverflow,
      IngestPersist, IngestEnd, Strategy, StrategyRecv, StrategySend,
      SignalDropped, StrategyPersist, StrategyEnd, Execution, ExecVeto,
      ExecAdmit, ExecOrder, ExecTrade, ExecEnd, Persist, Main, StopRequested,
      ReplayDone, BeginShutdown, JoinAll, JoinTimeout, Terminated, Counters, vars

\* persist_count and persist_errors, with the batch in progress, count every row
\* of the tables and every refused event exactly once.
THEOREM RowsExplained == Spec => []RowsAccounted
<1>1. Init => RowsAccounted
  BY FS_EmptySet DEF Init, RowsAccounted, Counters
<1>2. TypeOK /\ NoRepeats /\ RowsAccounted /\ [Next]_vars => RowsAccounted'
  BY RowsAccountedStep
<1>3. QED BY <1>1, <1>2, PipelineTypeCorrect, NothingRepeated, PTL DEF Spec

(***************************************************************************)
(* Events are conserved: what was made is stored, refused or in the hands  *)
(* of the task that made it.                                               *)
(***************************************************************************)
Traded == metrics.signals + 2 * metrics.orders
Made == produced + Traded

Stored == Len(Pending) + Len(db)
Refused == Cardinality(rejected) + Cardinality(unrecorded)
Offered == Stored + Refused

TickInHand == IF ingestPc = "persist" THEN 1 ELSE 0
SignalInHand == IF strategyPc \in {"signal", "persist"} THEN 1 ELSE 0
FillInHand == CASE execPc = "order" -> 2 [] execPc = "trade" -> 1 [] OTHER -> 0
TradeInHand == SignalInHand + FillInHand
InHand == TickInHand + TradeInHand

EventsConserved == exit # "overload" => Made = Offered + InHand

LEMMA NumbersTyped ==
  ASSUME TypeOK
  PROVE  /\ produced \in Nat /\ metrics.signals \in Nat /\ metrics.orders \in Nat
         /\ Len(Pending) \in Nat /\ Len(db) \in Nat
         /\ Cardinality(rejected) \in Nat /\ Cardinality(unrecorded) \in Nat
         /\ Traded \in Nat /\ Made \in Nat
         /\ Stored \in Nat /\ Refused \in Nat /\ Offered \in Nat
         /\ TickInHand \in Nat /\ SignalInHand \in Nat /\ FillInHand \in Nat
         /\ TradeInHand \in Nat /\ InHand \in Nat
<1>1. produced \in Nat /\ metrics.signals \in Nat /\ metrics.orders \in Nat
  BY PipelineAssumption DEF TypeOK, TasksTyped, MainTyped, Counters
<1>2. Len(Pending) \in Nat /\ Len(db) \in Nat
  BY QueuesTyped
<1>3. Cardinality(rejected) \in Nat /\ Cardinality(unrecorded) \in Nat
  BY FS_CardinalityType DEF TypeOK, RowsTyped
<1>4. Stored \in Nat /\ Refused \in Nat
  BY <1>2, <1>3 DEF Stored, Refused
<1>5. Traded \in Nat
  BY <1>1 DEF Traded
<1>6. Made \in Nat
  BY <1>1, <1>5 DEF Made
<1>7. TickInHand \in Nat /\ SignalInHand \in Nat /\ FillInHand \in Nat
  BY DEF TickInHand, SignalInHand, FillInHand
<1>8. Offered \in Nat /\ TradeInHand \in Nat
  BY <1>4, <1>7 DEF Offered, TradeInHand
<1>9. InHand \in Nat
  BY <1>7, <1>8 DEF InHand
<1>10. QED BY <1>1, <1>2, <1>3, <1>4, <1>5, <1>6, <1>7, <1>8, <1>9

LEMMA OfferCounts ==
  ASSUME TypeOK, NEW e \in PipelineEvent, Journal!Fresh(e), OfferToPersist(e),
         UNCHANGED persistVars
  PROVE  Offered' = Offered + 1
<1>a. /\ Offered \in Nat /\ Stored \in Nat /\ Refused \in Nat
      /\ Len(Pending) \in Nat /\ Len(db) \in Nat
      /\ Cardinality(rejected) \in Nat /\ Cardinality(unrecorded) \in Nat
  BY NumbersTyped
<1>0. UNCHANGED <<buffer, db, rejected>>
  BY DEF persistVars
<1>1. CASE persistQ' = Append(persistQ, e) /\ UNCHANGED unrecorded
  <2>1. Pending' = Append(Pending, e)
    BY <1>0, <1>1, QueuesTyped, AppendToConcat DEF Pending
  <2>2. Len(Pending') = Len(Pending) + 1
    BY <2>1, QueuesTyped
  <2>3. Stored' = Stored + 1 /\ Refused' = Refused
    BY <1>0, <1>1, <2>2, <1>a DEF Stored, Refused
  <2>4. QED BY <2>3, <1>a DEF Offered
<1>2. CASE unrecorded' = unrecorded \cup {e} /\ UNCHANGED persistQ
  <2>1. e \in Journal!Events
    BY DEF PipelineEvent, Journal!Events, Journal!Kinds, Ticks
  <2>2. e \notin unrecorded
    BY <2>1, FreshIsUnknown, KnownIsHandedOver DEF HandedOver
  <2>3. Cardinality(unrecorded') = Cardinality(unrecorded) + 1
    BY <1>2, <2>2, FS_AddElement DEF TypeOK, RowsTyped
  <2>4. Refused' = Refused + 1
    BY <1>0, <2>3, <1>a DEF Refused
  <2>5. Stored' = Stored
    BY <1>0, <1>2 DEF Stored, Pending
  <2>6. QED BY <2>4, <2>5, <1>a DEF Offered
<1>3. QED BY <1>1, <1>2 DEF OfferToPersist

LEMMA PersistCounts ==
  ASSUME TypeOK, NoRepeats, Persist
  PROVE  Offered' = Offered
<1>a. /\ Offered \in Nat /\ Stored \in Nat /\ Refused \in Nat
      /\ Len(Pending) \in Nat /\ Len(db) \in Nat
      /\ Cardinality(rejected) \in Nat /\ Cardinality(unrecorded) \in Nat
  BY NumbersTyped
<1>1. CASE PersistRecv
  <2>1. /\ persistQ # <<>> /\ persistQ' = Tail(persistQ)
        /\ buffer' = Append(buffer, Head(persistQ))
        /\ UNCHANGED <<db, rejected, unrecorded>>
    BY <1>1 DEF PersistRecv
  <2>2. Pending' = Pending
    BY <2>1, QueuesTyped, MoveAcrossConcat DEF Pending
  <2>3. QED BY <2>1, <2>2 DEF Offered, Stored, Refused
<1>2. CASE PersistWrite
  <2>1. /\ buffer # <<>> /\ buffer' = Tail(buffer)
        /\ UNCHANGED <<persistQ, unrecorded>>
        /\ \/ db' = Append(db, Head(buffer)) /\ UNCHANGED rejected
           \/ rejected' = rejected \cup {Head(buffer)} /\ UNCHANGED db
    BY <1>2 DEF PersistWrite, queues
  <2>2. Pending # <<>> /\ Pending' = Tail(Pending)
    BY <2>1, QueuesTyped, HeadTailOfConcat DEF Pending
  <2>3. Len(Pending') = Len(Pending) - 1
    BY <2>2, QueuesTyped, HeadTailProperties
  <2>4. CASE db' = Append(db, Head(buffer)) /\ UNCHANGED rejected
    <3>1. Len(db') = Len(db) + 1
      BY <2>4, QueuesTyped
    <3>2. Stored' = Stored /\ Refused' = Refused
      BY <2>1, <2>3, <2>4, <3>1, <1>a DEF Stored, Refused
    <3>3. QED BY <3>2 DEF Offered
  <2>5. CASE rejected' = rejected \cup {Head(buffer)} /\ UNCHANGED db
    <3>1. Cardinality(rejected') = Cardinality(rejected) + 1
      BY <2>1, <2>5, HeadOfBatchNotRefused, FS_AddElement DEF TypeOK, RowsTyped
    <3>2. Stored' = Stored - 1
      BY <2>3, <2>5, <1>a DEF Stored
    <3>3. Refused' = Refused + 1
      BY <2>1, <3>1, <1>a DEF Refused
    <3>4. QED BY <3>2, <3>3, <1>a DEF Offered
  <2>6. QED BY <2>1, <2>4, <2>5
<1>3. CASE PersistTimer \/ PersistClosed \/ PersistFlushed
  BY <1>3 DEF PersistTimer, PersistClosed, PersistFlushed, queues, Offered,
              Stored, Refused, Pending
<1>4. QED BY <1>1, <1>2, <1>3 DEF Persist

LEMMA OfferedStays ==
  ASSUME UNCHANGED <<persistVars, persistQ, unrecorded>>
  PROVE  Offered' = Offered
BY DEF persistVars, Offered, Stored, Refused, Pending

LEMMA TradedStays ==
  ASSUME TypeOK, NEW c \in Counters \ {"signals", "orders"}, Count(c)
  PROVE  Traded' = Traded
BY CountAddsOne DEF Traded, TypeOK, MainTyped, Counters

LEMMA IngestConserves ==
  ASSUME TypeOK, HandOversAscend, EventsConserved, Ingest
  PROVE  EventsConserved'
<1> USE DEF EventsConserved
<1>a. /\ produced \in Nat /\ Traded \in Nat /\ Made \in Nat /\ Offered \in Nat
      /\ TickInHand \in Nat /\ SignalInHand \in Nat /\ FillInHand \in Nat
      /\ TradeInHand \in Nat /\ InHand \in Nat
      /\ metrics.signals \in Nat /\ metrics.orders \in Nat
  BY NumbersTyped
<1>0. TradeInHand' = TradeInHand /\ Made = Offered + InHand
  BY DEF Ingest, IngestPoll, IngestSkip, IngestTick, IngestPersist, IngestEnd,
         Running, strategyVars, execVars, SignalInHand, FillInHand, TradeInHand
<1>1. CASE IngestTick
  <2>1. CASE TickOverflow
    BY <2>1 DEF TickOverflow, Exit
  <2>2. CASE ingestPc' = "persist" /\ UNCHANGED metrics
    <3>1. Made' = Made + 1
      BY <1>1, <2>2, <1>a DEF IngestTick, Made, Traded
    <3>2. TickInHand' = TickInHand + 1
      BY <1>1, <2>2, PipelineAssumption DEF IngestTick, TickInHand
    <3>3. InHand' = InHand + 1
      BY <1>0, <3>2, <1>a DEF InHand
    <3>4. Offered' = Offered
      BY <1>1, OfferedStays DEF IngestTick
    <3>5. QED BY <1>0, <3>1, <3>3, <3>4, <1>a
  <2>3. QED BY <1>1, <2>1, <2>2 DEF IngestTick
<1>2. CASE IngestPersist
  <2>1. CASE Exit("overload")
    BY <2>1 DEF Exit
  <2>2. CASE /\ Len(persistQ) < PersistCap
             /\ persistQ' = Append(persistQ, Event("tick", produced))
             /\ ingestPc' = "select" /\ UNCHANGED metrics
    <3>1. Event("tick", produced) \in PipelineEvent
      BY <1>2 DEF IngestPersist, TypeOK, TasksTyped, Event, PipelineEvent
    <3>2. OfferToPersist(Event("tick", produced)) /\ UNCHANGED persistVars
      BY <1>2, <2>2 DEF IngestPersist, OfferToPersist
    <3>3. Offered' = Offered + 1
      BY <1>2, <3>1, <3>2, HandOversFresh, OfferCounts
    <3>4. TickInHand' = TickInHand - 1
      BY <1>2, <2>2 DEF IngestPersist, TickInHand
    <3>5. InHand' = InHand - 1
      BY <1>0, <3>4, <1>a DEF InHand
    <3>6. Made' = Made
      BY <1>2, <2>2 DEF IngestPersist, Made, Traded
    <3>7. Made' = Offered' + InHand'
      BY <1>0, <3>3, <3>5, <3>6, <1>a
    <3>8. QED BY <3>7
  <2>3. QED BY <1>2, <2>1, <2>2 DEF IngestPersist
<1>3. CASE IngestPoll \/ IngestSkip \/ IngestEnd
  <2>1. UNCHANGED <<Made, Offered>>
    BY <1>3, OfferedStays
    DEF IngestPoll, IngestSkip, IngestEnd, queues, Made, Traded
  <2>2. UNCHANGED TickInHand
    BY <1>3 DEF IngestPoll, IngestSkip, IngestEnd, SeesShutdown, TickInHand
  <2>3. QED BY <1>0, <2>1, <2>2 DEF InHand
<1>4. QED BY <1>1, <1>2, <1>3 DEF Ingest

LEMMA StrategyConserves ==
  ASSUME TypeOK, HandOversAscend, EventsConserved, Strategy
  PROVE  EventsConserved'
<1> USE DEF EventsConserved
<1>a. /\ produced \in Nat /\ Traded \in Nat /\ Made \in Nat /\ Offered \in Nat
      /\ TickInHand \in Nat /\ SignalInHand \in Nat /\ FillInHand \in Nat
      /\ TradeInHand \in Nat /\ InHand \in Nat
      /\ metrics.signals \in Nat /\ metrics.orders \in Nat
  BY NumbersTyped
<1>0. /\ TickInHand' = TickInHand /\ FillInHand' = FillInHand
      /\ Made = Offered + InHand /\ produced' = produced
  BY DEF Strategy, StrategyRecv, StrategySend, StrategyPersist, StrategyEnd,
         Running, ingestVars, execVars, TickInHand, FillInHand
<1>1. CASE StrategyRecv
  <2>0. Offered' = Offered
    BY <1>1, OfferedStays DEF StrategyRecv
  <2>1. CASE UNCHANGED <<strategyPc, metrics>>
    BY <1>0, <2>0, <2>1 DEF Made, Traded, InHand, TradeInHand, SignalInHand
  <2>2. CASE strategyPc' = "signal" /\ Count("signals")
    <3>1. metrics'.signals = metrics.signals + 1 /\ metrics'.orders = metrics.orders
      BY <2>2, CountAddsOne DEF TypeOK, MainTyped, Counters
    <3>8. metrics.signals \in Nat /\ metrics.orders \in Nat
      BY <1>a
    <3>2. Traded' = Traded + 1
      BY <3>1, <3>8 DEF Traded
    <3>3. Made' = Made + 1
      BY <1>0, <3>2, <1>a DEF Made
    <3>4. SignalInHand' = SignalInHand + 1
      BY <1>1, <2>2 DEF StrategyRecv, SignalInHand
    <3>5. TradeInHand' = TradeInHand + 1
      BY <1>0, <3>4, <1>a DEF TradeInHand
    <3>7. InHand' = InHand + 1
      BY <1>0, <3>5, <1>a DEF InHand
    <3>6. QED BY <1>0, <2>0, <3>3, <3>7, <1>a
  <2>3. QED BY <1>1, <2>1, <2>2 DEF StrategyRecv
<1>2. CASE StrategySend
  <2>1. Offered' = Offered
    BY <1>2, OfferedStays DEF StrategySend
  <2>2. Traded' = Traded
    <3>1. CASE UNCHANGED metrics
      BY <3>1 DEF Traded
    <3>2. CASE Count("dropSignal")
      BY <3>2, TradedStays DEF Counters
    <3>3. QED BY <1>2, <3>1, <3>2 DEF StrategySend, SignalDropped
  <2>3. SignalInHand' = SignalInHand
    BY <1>2 DEF StrategySend, SignalInHand
  <2>4. QED BY <1>0, <2>1, <2>2, <2>3 DEF Made, InHand, TradeInHand
<1>3. CASE StrategyPersist
  <2>1. Event("signal", strategyTick) \in PipelineEvent
    BY <1>3 DEF StrategyPersist, TypeOK, TasksTyped, Event, PipelineEvent
  <2>2. Offered' = Offered + 1
    BY <1>3, <2>1, HandOversFresh, OfferCounts DEF StrategyPersist
  <2>3. SignalInHand' = SignalInHand - 1
    BY <1>3 DEF StrategyPersist, SignalInHand
  <2>4. TradeInHand' = TradeInHand - 1
    BY <1>0, <2>3, <1>a DEF TradeInHand
  <2>7. InHand' = InHand - 1
    BY <1>0, <2>4, <1>a DEF InHand
  <2>5. Made' = Made
    BY <1>0, <1>3 DEF StrategyPersist, Made, Traded
  <2>6. QED BY <1>0, <2>2, <2>7, <2>5, <1>a
<1>4. CASE StrategyEnd
  <2>1. Offered' = Offered
    BY <1>4, OfferedStays DEF StrategyEnd, queues
  <2>2. UNCHANGED <<SignalInHand, Made>>
    BY <1>0, <1>4 DEF StrategyEnd, SignalInHand, Made, Traded
  <2>3. QED BY <1>0, <2>1, <2>2 DEF InHand, TradeInHand
<1>5. QED BY <1>1, <1>2, <1>3, <1>4 DEF Strategy

LEMMA ExecutionConserves ==
  ASSUME TypeOK, HandOversAscend, EventsConserved, Execution
  PROVE  EventsConserved'
<1> USE DEF EventsConserved
<1>a. /\ produced \in Nat /\ Traded \in Nat /\ Made \in Nat /\ Offered \in Nat
      /\ TickInHand \in Nat /\ SignalInHand \in Nat /\ FillInHand \in Nat
      /\ TradeInHand \in Nat /\ InHand \in Nat
      /\ metrics.signals \in Nat /\ metrics.orders \in Nat
  BY NumbersTyped
<1>0. /\ TickInHand' = TickInHand /\ SignalInHand' = SignalInHand
      /\ Made = Offered + InHand /\ produced' = produced
  BY DEF Execution, ExecVeto, ExecAdmit, ExecOrder, ExecTrade, ExecEnd, Running,
         ingestVars, strategyVars, TickInHand, SignalInHand
<1>1. CASE ExecVeto
  <2>1. Offered' = Offered
    BY <1>1, OfferedStays DEF ExecVeto
  <2>2. Traded' = Traded
    BY <1>1, TradedStays DEF ExecVeto, Counters
  <2>3. FillInHand' = FillInHand
    BY <1>1 DEF ExecVeto, FillInHand
  <2>4. QED BY <1>0, <2>1, <2>2, <2>3 DEF Made, InHand, TradeInHand
<1>2. CASE ExecAdmit
  <2>1. Offered' = Offered
    BY <1>2, OfferedStays DEF ExecAdmit
  <2>2. metrics'.orders = metrics.orders + 1 /\ metrics'.signals = metrics.signals
    BY <1>2, CountAddsOne DEF ExecAdmit, TypeOK, MainTyped, Counters
  <2>3. Traded' = Traded + 2
    BY <1>a, <2>2 DEF Traded
  <2>4. Made' = Made + 2
    BY <1>0, <1>a, <2>3 DEF Made
  <2>5. FillInHand' = FillInHand + 2
    BY <1>2 DEF ExecAdmit, FillInHand
  <2>6. TradeInHand' = TradeInHand + 2
    BY <1>0, <1>a, <2>5 DEF TradeInHand
  <2>7. InHand' = InHand + 2
    BY <1>0, <1>a, <2>6 DEF InHand
  <2>8. QED BY <1>0, <1>a, <2>1, <2>4, <2>7
<1>3. CASE ExecOrder \/ ExecTrade
  <2>1. PICK e \in PipelineEvent :
           /\ Journal!Fresh(e) /\ OfferToPersist(e) /\ UNCHANGED persistVars
    <3>1. /\ ExecOrder => Event("order", execSignal) \in PipelineEvent
          /\ ExecTrade => Event("trade", execSignal) \in PipelineEvent
      BY DEF ExecOrder, ExecTrade, TypeOK, TasksTyped, Event, PipelineEvent
    <3>2. QED BY <1>3, <3>1, HandOversFresh DEF ExecOrder, ExecTrade, FirstRecord
  <2>2. Offered' = Offered + 1
    BY <2>1, OfferCounts
  <2>3. FillInHand' = FillInHand - 1
    BY <1>3 DEF ExecOrder, ExecTrade, FillInHand
  <2>4. TradeInHand' = TradeInHand - 1
    BY <1>0, <1>a, <2>3 DEF TradeInHand
  <2>5. InHand' = InHand - 1
    BY <1>0, <1>a, <2>4 DEF InHand
  <2>6. Made' = Made
    BY <1>0, <1>3 DEF ExecOrder, ExecTrade, Made, Traded
  <2>7. QED BY <1>0, <1>a, <2>2, <2>5, <2>6
<1>4. CASE ExecEnd
  <2>1. Offered' = Offered
    BY <1>4, OfferedStays DEF ExecEnd, queues
  <2>2. FillInHand' = FillInHand /\ Made' = Made
    BY <1>0, <1>4 DEF ExecEnd, FillInHand, Made, Traded
  <2>3. QED BY <1>0, <2>1, <2>2 DEF InHand, TradeInHand
<1>5. QED BY <1>1, <1>2, <1>3, <1>4 DEF Execution

LEMMA PersistConserves ==
  ASSUME TypeOK, NoRepeats, EventsConserved, Persist
  PROVE  EventsConserved'
<1>1. /\ InHand' = InHand /\ produced' = produced /\ exit' = exit
  BY DEF Persist, PersistRecv, PersistTimer, PersistClosed, PersistWrite,
         PersistFlushed, ingestVars, strategyVars, execVars, InHand,
         TickInHand, TradeInHand, SignalInHand, FillInHand
<1>2. metrics'.signals = metrics.signals /\ metrics'.orders = metrics.orders
  BY DEF Persist, PersistRecv, PersistTimer, PersistClosed, PersistWrite,
         PersistFlushed, TypeOK, MainTyped, Counters
<1>3. Made' = Made
  BY <1>1, <1>2 DEF Made, Traded
<1>4. QED BY <1>1, <1>3, PersistCounts DEF EventsConserved

LEMMA ConservedStep ==
  ASSUME TypeOK, HandOversAscend, NoRepeats, EventsConserved, [Next]_vars
  PROVE  EventsConserved'
<1>1. CASE UNCHANGED <<ingestVars, strategyVars, execVars, persistVars, queues,
                       unrecorded, metrics>> /\ (exit' = exit \/ exit = "running")
  <2>1. UNCHANGED <<persistVars, persistQ, unrecorded>>
    BY <1>1 DEF queues
  <2>2. Offered' = Offered
    BY <2>1, OfferedStays
  <2>3. Made' = Made /\ InHand' = InHand
    BY <1>1 DEF ingestVars, strategyVars, execVars, Made, Traded, InHand,
                TickInHand, TradeInHand, SignalInHand, FillInHand
  <2>4. exit' # "overload" => exit # "overload"
    BY <1>1
  <2>5. QED BY <2>2, <2>3, <2>4 DEF EventsConserved
<1>2. CASE Main \/ Terminated \/ UNCHANGED vars
  BY <1>1, <1>2 DEF Main, StopRequested, ReplayDone, BeginShutdown, JoinAll,
                    JoinTimeout, Terminated, vars, Running
<1>3. QED
  BY <1>2, IngestConserves, StrategyConserves, ExecutionConserves,
     PersistConserves DEF Next

LEMMA NothingLost == Spec => []EventsConserved
<1>1. Init => EventsConserved
  <2> SUFFICES ASSUME Init PROVE EventsConserved
    OBVIOUS
  <2>1. Made = 0
    BY DEF Init, Made, Traded, Counters
  <2>2. Pending = <<>> /\ db = <<>> /\ rejected = {} /\ unrecorded = {}
    BY DEF Init, Pending
  <2>3. Offered = 0
    BY <2>2, FS_EmptySet DEF Offered, Stored, Refused
  <2>4. InHand = 0
    BY DEF Init, InHand, TickInHand, TradeInHand, SignalInHand, FillInHand
  <2>5. QED BY <2>1, <2>3, <2>4 DEF EventsConserved
<1>2. QED
  BY <1>1, ConservedStep, PipelineTypeCorrect, HandOversAreFresh, NothingRepeated,
     PTL DEF Spec

(***************************************************************************)
(* The process reports a graceful end only when the four tasks have ended, *)
(* and none of them takes a step after that.                               *)
(***************************************************************************)
GracefulIsEnded == exit = "graceful" => AllEnded

LEMMA GracefulAfterTasks == Spec => []GracefulIsEnded
<1>1. Init => GracefulIsEnded
  BY DEF Init, GracefulIsEnded
<1>2. GracefulIsEnded /\ [Next]_vars => GracefulIsEnded'
  <2> SUFFICES ASSUME GracefulIsEnded, [Next]_vars PROVE GracefulIsEnded'
    OBVIOUS
  <2> USE DEF GracefulIsEnded, AllEnded
  <2>1. CASE Ingest
    BY <2>1 DEF Ingest, IngestPoll, IngestSkip, IngestTick, TickOverflow,
                IngestPersist, IngestEnd, Exit, Running
  <2>2. CASE Strategy
    BY <2>2 DEF Strategy, StrategyRecv, StrategySend, StrategyPersist,
                StrategyEnd, Running
  <2>3. CASE Execution
    BY <2>3 DEF Execution, ExecVeto, ExecAdmit, ExecOrder, ExecTrade, ExecEnd,
                Running
  <2>4. CASE Persist
    BY <2>4 DEF Persist, PersistRecv, PersistTimer, PersistClosed, PersistWrite,
                PersistFlushed, Running
  <2>5. CASE Main
    BY <2>5 DEF Main, StopRequested, ReplayDone, BeginShutdown, JoinAll,
                JoinTimeout, Exit, Running, ingestVars, strategyVars, execVars,
                persistVars
  <2>6. CASE Terminated \/ UNCHANGED vars
    BY <2>6 DEF Terminated, vars, ingestVars, strategyVars, execVars, persistVars
  <2>7. QED BY <2>1, <2>2, <2>3, <2>4, <2>5, <2>6 DEF Next
<1>3. QED BY <1>1, <1>2, PTL DEF Spec

\* Proof of what main.rs promises by "all tasks completed gracefully": the tasks
\* ended in order, so the channels and the batch are empty; no event is in hand
\* or pending; and the counters of the persist task explain the rest.
LEMMA DrainedWhenEnded ==
  TypeOK /\ EndInOrder /\ RowsAccounted /\ EventsConserved /\ GracefulIsEnded
     => GracefulMeansDrained
<1> SUFFICES ASSUME TypeOK, EndInOrder, RowsAccounted, EventsConserved,
                    GracefulIsEnded, exit = "graceful"
             PROVE  /\ tickQ = <<>> /\ signalQ = <<>>
                    /\ persistQ = <<>> /\ buffer = <<>>
                    /\ produced + metrics.signals + 2 * metrics.orders =
                          metrics.persisted + metrics.errors
                             + Cardinality(unrecorded)
  BY DEF GracefulMeansDrained
<1>1. AllEnded
  BY DEF GracefulIsEnded
<1>2. tickQ = <<>> /\ signalQ = <<>> /\ persistQ = <<>> /\ buffer = <<>>
  BY <1>1 DEF AllEnded, EndInOrder
<1>3. InHand = 0
  BY <1>1 DEF AllEnded, InHand, TickInHand, TradeInHand, SignalInHand, FillInHand
<1>4. batch.ok = 0 /\ batch.err = 0
  BY <1>1 DEF AllEnded, RowsAccounted
<1>5. /\ metrics.persisted \in Nat /\ metrics.errors \in Nat
      /\ metrics.signals \in Nat /\ metrics.orders \in Nat
      /\ Len(db) \in Nat /\ Cardinality(rejected) \in Nat
      /\ Cardinality(unrecorded) \in Nat /\ produced \in Nat
      /\ Made \in Nat /\ Offered \in Nat
  BY NumbersTyped DEF TypeOK, MainTyped, Counters
<1>6. metrics.persisted = Len(db) /\ metrics.errors = Cardinality(rejected)
  BY <1>4, <1>5 DEF RowsAccounted
<1>7. Len(Pending) = 0
  BY <1>2 DEF Pending
<1>8. Stored = Len(db)
  BY <1>5, <1>7 DEF Stored
<1>9. Made = Offered
  BY <1>3, <1>5 DEF EventsConserved
<1>10. Offered = Len(db) + (Cardinality(rejected) + Cardinality(unrecorded))
  BY <1>8 DEF Offered, Refused
<1>11. Made = produced + (metrics.signals + 2 * metrics.orders)
  BY DEF Made, Traded
<1>12. QED BY <1>2, <1>5, <1>6, <1>9, <1>10, <1>11

\* The graceful end leaves nothing behind (main.rs, "all tasks completed
\* gracefully"), for every size of the channels and of the batch, however many
\* ticks there are and INSERTs fail.
THEOREM GracefulShutdownDrains == Spec => []GracefulMeansDrained
BY DrainedWhenEnded, PipelineTypeCorrect, TasksEndInOrder, RowsExplained,
   NothingLost, GracefulAfterTasks, PTL
==============================================================================
