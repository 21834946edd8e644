------------------------------ MODULE WsProofs ------------------------------
(***************************************************************************)
(* Theorems about WsIngest, for any number of sources, all periods and     *)
(* pauses and any behaviour of the servers.                                *)
(***************************************************************************)
EXTENDS WsIngest, TLAPS

\* Silence, and the silence since the last ping, and what the timer still
\* allows: only a tick of the timer can tell that a ping is due.
PingInv ==
    /\ kind \in Kinds
    /\ idle \in Nat /\ unpinged \in Nat /\ toPing \in Nat
    /\ pc = "session" =>
          /\ unpinged <= idle
          /\ unpinged + toPing <= KeepAlive[kind] + PingEvery[kind]

\* The sources still to come in a round have rested, in a pause all of them
\* will have.
RestInv ==
    /\ kind \in Kinds /\ source \in Sources
    /\ toWake \in 0..Pause[kind]
    /\ rest \in [Sources -> 0..Pause[kind]]
    /\ pc = "check" => \A s \in Sources : rest[s] = Pause[kind]
    /\ pc \in {"connect", "session"} =>
          \A s \in Sources : s >= source => rest[s] = Pause[kind]
    /\ pc = "pause" => \A s \in Sources : rest[s] + toWake >= Pause[kind]

LEMMA Timings ==
    /\ \A k \in Kinds : /\ PingEvery[k] \in Nat /\ PingEvery[k] > 0
                        /\ KeepAlive[k] \in Nat
                        /\ Pause[k] \in Nat /\ Pause[k] > 0
    /\ \A k \in Kinds : k = "real" \/ k = "mock"
    /\ SourceCount \in Nat /\ SourceCount > 0
BY WsAssumption DEF WsAssumption

------------------------------------------------------------------------------
\* Every step keeps the account of the silence.
LEMMA PingStep ==
    ASSUME PingInv, [Next]_vars
    PROVE  PingInv'
<1> USE Timings DEF PingInv, Longest
<1>1. ASSUME Check PROVE PingInv'
    BY <1>1 DEF Check, FirstSource, vars, taskVars, netVars
<1>2. ASSUME Connect PROVE PingInv'
    BY <1>2 DEF Connect, SequenceAtStart, vars, taskVars, netVars
<1>3. ASSUME Refused PROVE PingInv'
    BY <1>3 DEF Refused, NextSource, vars, taskVars, netVars
<1>4. ASSUME TakeShutdown PROVE PingInv'
    BY <1>4 DEF TakeShutdown, SessionShutdown, vars, taskVars, netVars
<1>5. ASSUME PingTimer PROVE PingInv'
    BY <1>5 DEF PingTimer, PingDue, LoseSession, AfterLoss, NextSource,
      vars, taskVars, netVars
<1>6. ASSUME NEW n \in MessageTicks, ReadText(n) PROVE PingInv'
    BY <1>6 DEF ReadText, vars, taskVars, netVars
<1>7. ASSUME NEW n \in MessageTicks, Overload(n) PROVE PingInv'
    BY <1>7 DEF Overload, vars, taskVars, netVars
<1>8. ASSUME ReadPong PROVE PingInv'
    BY <1>8 DEF ReadPong, vars, taskVars, netVars
<1>9. ASSUME ReadEnd PROVE PingInv'
    BY <1>9 DEF ReadEnd, LoseSession, AfterLoss, NextSource, vars,
      taskVars, netVars
<1>10. ASSUME Wake PROVE PingInv'
    BY <1>10 DEF Wake, vars, taskVars, netVars
<1>11. ASSUME WakeForShutdown PROVE PingInv'
    BY <1>11 DEF WakeForShutdown, vars, taskVars, netVars
<1>12. ASSUME Shutdown PROVE PingInv'
    BY <1>12 DEF Shutdown, vars, taskVars, netVars
<1>13. ASSUME NEW s \in Sources, Flip(s) PROVE PingInv'
    BY <1>13 DEF Flip, vars, taskVars, netVars
<1>14. ASSUME Mute PROVE PingInv'
    BY <1>14 DEF Mute, vars, taskVars, netVars
<1>15. ASSUME Drop PROVE PingInv'
    BY <1>15 DEF Drop, vars, taskVars, netVars
<1>16. ASSUME Tick PROVE PingInv'
    BY <1>16 DEF Tick, Aged, vars, taskVars, netVars
<1>17. CASE Over \/ UNCHANGED vars
    BY <1>17 DEF Over, vars, taskVars, netVars
<1>18. QED BY <1>1, <1>2, <1>3, <1>4, <1>5, <1>6, <1>7, <1>8, <1>9, <1>10,
    <1>11, <1>12, <1>13, <1>14, <1>15, <1>16, <1>17
    DEF Next, Task, Network, Read

\* Every step keeps the sources resting.
LEMMA RestStep ==
    ASSUME RestInv, [Next]_vars
    PROVE  RestInv'
<1> USE Timings DEF RestInv, Sources, Last
<1>1. ASSUME Check PROVE RestInv'
    BY <1>1 DEF Check, FirstSource, vars, taskVars, netVars
<1>2. ASSUME Connect PROVE RestInv'
    BY <1>2 DEF Connect, SequenceAtStart, vars, taskVars, netVars
<1>3. ASSUME Refused PROVE RestInv'
    BY <1>3 DEF Refused, NextSource, vars, taskVars, netVars
<1>4. ASSUME TakeShutdown PROVE RestInv'
    BY <1>4 DEF TakeShutdown, SessionShutdown, vars, taskVars, netVars
<1>5. ASSUME PingTimer PROVE RestInv'
    BY <1>5 DEF PingTimer, PingDue, LoseSession, AfterLoss, NextSource,
      vars, taskVars, netVars
<1>6. ASSUME NEW n \in MessageTicks, ReadText(n) PROVE RestInv'
    BY <1>6 DEF ReadText, vars, taskVars, netVars
<1>7. ASSUME NEW n \in MessageTicks, Overload(n) PROVE RestInv'
    BY <1>7 DEF Overload, vars, taskVars, netVars
<1>8. ASSUME ReadPong PROVE RestInv'
    BY <1>8 DEF ReadPong, vars, taskVars, netVars
<1>9. ASSUME ReadEnd PROVE RestInv'
    BY <1>9 DEF ReadEnd, LoseSession, AfterLoss, NextSource, vars,
      taskVars, netVars
<1>10. ASSUME Wake PROVE RestInv'
    BY <1>10 DEF Wake, vars, taskVars, netVars
<1>11. ASSUME WakeForShutdown PROVE RestInv'
    BY <1>11 DEF WakeForShutdown, vars, taskVars, netVars
<1>12. ASSUME Shutdown PROVE RestInv'
    BY <1>12 DEF Shutdown, vars, taskVars, netVars
<1>13. ASSUME NEW s \in Sources, Flip(s) PROVE RestInv'
    BY <1>13 DEF Flip, vars, taskVars, netVars
<1>14. ASSUME Mute PROVE RestInv'
    BY <1>14 DEF Mute, vars, taskVars, netVars
<1>15. ASSUME Drop PROVE RestInv'
    BY <1>15 DEF Drop, vars, taskVars, netVars
<1>16. ASSUME Tick PROVE RestInv'
  <2>1. kind' = kind /\ pc' = pc /\ source' = source /\ source' \in Sources'
    BY <1>16 DEF Tick
  <2>2. Pause[kind] \in Nat /\ pc # "check"
    BY <1>16 DEF Tick
  <2>3. toWake' \in 0..Pause[kind] /\ toWake' >= toWake - 1
    BY <1>16, <2>2 DEF Tick
  <2>4. ASSUME NEW s \in Sources
        PROVE  /\ rest'[s] \in 0..Pause[kind] /\ rest'[s] >= rest[s]
               /\ rest'[s] = Pause[kind] \/ rest'[s] = rest[s] + 1
    BY <1>16, <2>2 DEF Tick, Aged
  <2>5. rest' \in [Sources -> 0..Pause[kind]]
    BY <1>16, <2>4 DEF Tick
  <2>6. ASSUME NEW s \in Sources, pc = "pause" PROVE rest'[s] + toWake' >= Pause[kind]
    <3>1. /\ rest[s] \in 0..Pause[kind] /\ toWake \in 0..Pause[kind]
          /\ rest[s] + toWake >= Pause[kind]
      BY <2>6
    <3>2. rest'[s] = Pause[kind] \/ rest'[s] = rest[s] + 1
      BY <2>4
    <3>3. toWake' \in Nat /\ toWake' >= toWake - 1
      BY <2>2, <2>3
    <3>4. QED BY <2>2, <3>1, <3>2, <3>3
  <2>7. ASSUME NEW s \in Sources, pc \in {"connect", "session"}, s >= source
        PROVE  rest'[s] = Pause[kind]
    BY <2>2, <2>4, <2>7
  <2>8. QED BY <2>1, <2>2, <2>3, <2>5, <2>6, <2>7
<1>17. CASE Over \/ UNCHANGED vars
    BY <1>17 DEF Over, vars, taskVars, netVars
<1>18. QED BY <1>1, <1>2, <1>3, <1>4, <1>5, <1>6, <1>7, <1>8, <1>9, <1>10,
    <1>11, <1>12, <1>13, <1>14, <1>15, <1>16, <1>17
    DEF Next, Task, Network, Read

\* Every step keeps the types, conjunct by conjunct.
LEMMA TypeStep ==
    ASSUME TypeOK, [Next]_vars
    PROVE  TypeOK'
<1> USE DEF Next, Task, Network, Read, Over, Check, Connect, Refused, TakeShutdown,
      PingTimer, ReadText, Overload, ReadPong, ReadEnd, Wake, WakeForShutdown,
      Shutdown, Flip, Mute, Drop, Tick, LoseSession, AfterLoss, NextSource,
      SessionShutdown, vars, taskVars, netVars
<1>1. kind' = kind
    OBVIOUS
<1>2. Sources' = Sources /\ Longest' = Longest
    BY <1>1 DEF Sources, Last, Longest
<1>3. pc' \in {"check", "connect", "session", "pause", "ended", "exit13"}
    BY DEF TypeOK
<1>4. message' \in BOOLEAN /\ told' \in BOOLEAN
    BY DEF TypeOK
<1>5. source' \in Sources
    BY Timings DEF TypeOK, Sources, Last, FirstSource
<1>6. sequence' \in 0..(SampleEvery - 1)
    BY WsAssumption DEF TypeOK, SequenceAtStart, WsAssumption
<1>7. idle' \in 0..Longest /\ unpinged' \in 0..Longest
    BY Timings DEF TypeOK, Aged, Longest
<1>8. toPing' \in 0..PingEvery[kind] /\ toWake' \in 0..Pause[kind]
    BY Timings DEF TypeOK
<1>9. up' \in SUBSET Sources
    BY DEF TypeOK
<1>10. link' \in {"none", "live", "mute", "lost"}
    BY DEF TypeOK
<1>11. flips' \in 0..MaxFlips
    BY WsAssumption DEF TypeOK, WsAssumption
<1>12. rest' \in [Sources -> 0..Pause[kind]]
    BY Timings DEF TypeOK, Aged
<1>13. kind' \in Kinds
    BY <1>1 DEF TypeOK
<1> HIDE DEF Next, vars
<1>14. QED BY <1>1, <1>2, <1>3, <1>4, <1>5, <1>6, <1>7, <1>8, <1>9, <1>10,
            <1>11, <1>12, <1>13
         DEF TypeOK

------------------------------------------------------------------------------
\* Every variable stays in its type, the round in the list of sources.
THEOREM WsTypeCorrect == Spec => []TypeOK
<1>1. Init => TypeOK
  <2>1. ASSUME Init PROVE message \in BOOLEAN /\ told \in BOOLEAN
    BY <2>1 DEF Init
  <2>2. ASSUME Init
        PROVE  /\ source \in Sources /\ up \in SUBSET Sources
               /\ rest \in [Sources -> 0..Pause[kind]]
    BY <2>2, Timings DEF Init, Sources, Last
  <2>3. ASSUME Init
        PROVE  /\ sequence \in 0..(SampleEvery - 1) /\ flips \in 0..MaxFlips
               /\ idle \in 0..Longest /\ unpinged \in 0..Longest
               /\ toPing \in 0..PingEvery[kind] /\ toWake \in 0..Pause[kind]
    BY <2>3, Timings, WsAssumption DEF Init, Longest, WsAssumption
  <2>4. ASSUME Init PROVE kind \in Kinds /\ pc = "check" /\ link = "none"
    BY <2>4 DEF Init
  <2>5. QED BY <2>1, <2>2, <2>3, <2>4 DEF TypeOK
<1>2. TypeOK /\ [Next]_vars => TypeOK'
    BY TypeStep
<1>3. QED BY <1>1, <1>2, PTL DEF Spec

\* No session is silent for longer than keep-alive and one period of the timer
\* without a ping.
THEOREM PingsAreInTime == Spec => []PingsInTime
<1>1. Init => PingInv
    BY Timings DEF Init, PingInv
<1>2. PingInv /\ [Next]_vars => PingInv'
    BY PingStep
<1>3. PingInv => PingsInTime
    BY Timings DEF PingInv, PingsInTime
<1>4. QED BY <1>1, <1>2, <1>3, PTL DEF Spec

\* A source that refused is left alone for the length of a pause.
THEOREM RefusalsAreRespected == Spec => []RefusedSourcesRest
<1>1. Init => RestInv
    BY Timings DEF Init, RestInv, Sources, Last
<1>2. RestInv /\ [Next]_vars => RestInv'
    BY RestStep
<1>3. RestInv => RefusedSourcesRest
    BY Timings DEF RestInv, RefusedSourcesRest, Sources, Last
<1>4. QED BY <1>1, <1>2, <1>3, PTL DEF Spec
==============================================================================
