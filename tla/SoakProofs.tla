----------------------------- MODULE SoakProofs -----------------------------
(***************************************************************************)
(* Theorems about SoakController, for every length of the soak, every      *)
(* threshold, ladder and patience.  Each question has an inductive         *)
(* invariant of its own; all rest on TypeOK.                               *)
(***************************************************************************)
EXTENDS SoakController, TLAPS

\* A running engine has loaded the file as it is, and the file holds the
\* controller's rung since its latest write, unless that failed: a start by
\* systemd finds the same rate as a start by the controller.
LadderInv ==
    /\ unit = "running" => loadedRung = configRung
    /\ ~ writeLost => configRung = rung

\* Every unit of consecutive_pressure is a rung climbed or a poll at the top.
PatienceInv ==
    /\ pressure <= pressedAtTop + rung
    /\ PsiActions # "on" => pressure = 0
    /\ pc # "ended" => outcome = "none"
    /\ TopGetsItsPolls

\* The detector's clock is never behind the real neglect, nor ahead of the real
\* silence unless a row is waiting to be seen.
DetectorInv ==
    /\ seeded => neglect <= quiet
    /\ seeded /\ ~ fresh => quiet <= sinceRow
    /\ pc = "poll" => neglect <= StallThreshold
    /\ StallsAreAnswered

------------------------------------------------------------------------------
\* Every step keeps the types.
LEMMA TypeStep ==
    ASSUME TypeOK, [Next]_vars
    PROVE  TypeOK'
<1> USE SoakAssumption DEF TypeOK, SoakAssumption, Rungs, EngineCodes, Sigterm
<1>1. ASSUME NEW d \in TurnLengths, Poll(d) PROVE TypeOK'
    BY <1>1 DEF Poll, End, vars, unitVars, stallVars, ladderVars
<1>2. ASSUME StatusQuiet PROVE TypeOK'
    BY <1>2 DEF StatusQuiet, vars, unitVars, stallVars, ladderVars
<1>3. ASSUME StatusRestart PROVE TypeOK'
    BY <1>3 DEF StatusRestart, RestartEngine, Exited, vars, unitVars,
      stallVars, ladderVars
<1>4. ASSUME StatusThrottle PROVE TypeOK'
  <2>1. rung' \in Rungs /\ rung' = rung + 1
    BY <1>4 DEF StatusThrottle, Climb, AtTop
  <2>2. configRung' \in Rungs /\ writeLost' \in BOOLEAN
    BY <1>4, <2>1 DEF StatusThrottle, Climb, WriteConfig
  <2>3. /\ loadedRung' \in Rungs
        /\ unit' \in {"running", "failed"}
        /\ status' \in EngineCodes \cup {Sigterm}
    BY <1>4, <2>2 DEF StatusThrottle, Climb, RestartEngine
  <2>4. QED BY <1>4, <2>1, <2>2, <2>3 DEF StatusThrottle
<1>5. ASSUME StatusEnd PROVE TypeOK'
    BY <1>5 DEF StatusEnd, End, Exited, AtTop, vars, unitVars, stallVars,
      ladderVars
<1>6. ASSUME PressureNone PROVE TypeOK'
    BY <1>6 DEF PressureNone, Calm, vars, unitVars, stallVars, ladderVars
<1>7. ASSUME PressureThrottle PROVE TypeOK'
  <2>1. rung' \in Rungs /\ rung' = rung + 1
    BY <1>7 DEF PressureThrottle, Climb, AtTop
  <2>2. configRung' \in Rungs /\ writeLost' \in BOOLEAN
    BY <1>7, <2>1 DEF PressureThrottle, Climb, WriteConfig
  <2>3. /\ loadedRung' \in Rungs
        /\ unit' \in {"running", "failed"}
        /\ status' \in EngineCodes \cup {Sigterm}
    BY <1>7, <2>2 DEF PressureThrottle, Climb, RestartEngine
  <2>4. QED BY <1>7, <2>1, <2>2, <2>3 DEF PressureThrottle
<1>8. ASSUME PressureAtTop PROVE TypeOK'
    BY <1>8 DEF PressureAtTop, End, AtTop, vars, unitVars, stallVars,
      ladderVars
<1>9. ASSUME StallUnreadable PROVE TypeOK'
    BY <1>9 DEF StallUnreadable, vars, unitVars, stallVars, ladderVars
<1>10. ASSUME StallProgress PROVE TypeOK'
  <2>1. quiet' = 0 /\ neglect' = 0 /\ seeded' = TRUE /\ fresh' = FALSE
    BY <1>10 DEF StallProgress, Progressed, QuietAfterProgress
  <2>2. pc' = "poll"
    BY <1>10 DEF StallProgress
  <2>3. UNCHANGED <<elapsed, ingestMode, outcome, unit, status, loadedRung, sinceRow,
                    rung, configRung, writeLost, pressure, pressedAtTop>>
    BY <1>10 DEF StallProgress, unitVars, ladderVars
  <2>4. seeded' \in BOOLEAN /\ fresh' \in BOOLEAN
    BY <2>1
  <2>5. QED BY <2>1, <2>2, <2>3, <2>4
<1>11. ASSUME StallQuiet PROVE TypeOK'
    BY <1>11 DEF StallQuiet, Progressed, Stalled, RestartEngine, vars,
      unitVars, stallVars, ladderVars
<1>12. ASSUME EngineTicks PROVE TypeOK'
    BY <1>12 DEF EngineTicks, vars, unitVars, stallVars, ladderVars
<1>13. ASSUME NEW code \in EngineCodes, EngineExits(code) PROVE TypeOK'
    BY <1>13 DEF EngineExits, vars, unitVars, stallVars, ladderVars
<1>14. ASSUME SystemdRestarts PROVE TypeOK'
    BY <1>14 DEF SystemdRestarts, vars, unitVars, stallVars, ladderVars
<1>15. CASE Ended \/ UNCHANGED vars
    BY <1>15 DEF Ended, vars, unitVars, stallVars, ladderVars
<1>16. QED BY <1>1, <1>2, <1>3, <1>4, <1>5, <1>6, <1>7, <1>8, <1>9, <1>10,
    <1>11, <1>12, <1>13, <1>14, <1>15
    DEF Next, Controller, Engine

\* Every step keeps file, engine and ladder together.
LEMMA LadderStep ==
    ASSUME LadderInv, [Next]_vars
    PROVE  LadderInv'
<1> USE SoakAssumption DEF LadderInv, SoakAssumption
<1>1. ASSUME NEW d \in TurnLengths, Poll(d) PROVE LadderInv'
    BY <1>1 DEF Poll, End, vars, unitVars, stallVars, ladderVars
<1>2. ASSUME StatusQuiet PROVE LadderInv'
    BY <1>2 DEF StatusQuiet, vars, unitVars, stallVars, ladderVars
<1>3. ASSUME StatusRestart PROVE LadderInv'
    BY <1>3 DEF StatusRestart, RestartEngine, Exited, vars, unitVars,
      stallVars, ladderVars
<1>4. ASSUME StatusThrottle PROVE LadderInv'
    BY <1>4 DEF StatusThrottle, Climb, WriteConfig, RestartEngine, AtTop,
      Exited, vars, unitVars, stallVars, ladderVars
<1>5. ASSUME StatusEnd PROVE LadderInv'
    BY <1>5 DEF StatusEnd, End, Exited, AtTop, vars, unitVars, stallVars,
      ladderVars
<1>6. ASSUME PressureNone PROVE LadderInv'
    BY <1>6 DEF PressureNone, Calm, vars, unitVars, stallVars, ladderVars
<1>7. ASSUME PressureThrottle PROVE LadderInv'
    BY <1>7 DEF PressureThrottle, Climb, WriteConfig, RestartEngine, AtTop,
      vars, unitVars, stallVars, ladderVars
<1>8. ASSUME PressureAtTop PROVE LadderInv'
    BY <1>8 DEF PressureAtTop, End, AtTop, vars, unitVars, stallVars,
      ladderVars
<1>9. ASSUME StallUnreadable PROVE LadderInv'
    BY <1>9 DEF StallUnreadable, vars, unitVars, stallVars, ladderVars
<1>10. ASSUME StallProgress PROVE LadderInv'
    BY <1>10 DEF StallProgress, Progressed, QuietAfterProgress, vars,
      unitVars, stallVars, ladderVars
<1>11. ASSUME StallQuiet PROVE LadderInv'
    BY <1>11 DEF StallQuiet, Progressed, Stalled, RestartEngine, vars,
      unitVars, stallVars, ladderVars
<1>12. ASSUME EngineTicks PROVE LadderInv'
    BY <1>12 DEF EngineTicks, vars, unitVars, stallVars, ladderVars
<1>13. ASSUME NEW code \in EngineCodes, EngineExits(code) PROVE LadderInv'
    BY <1>13 DEF EngineExits, vars, unitVars, stallVars, ladderVars
<1>14. ASSUME SystemdRestarts PROVE LadderInv'
    BY <1>14 DEF SystemdRestarts, vars, unitVars, stallVars, ladderVars
<1>15. CASE Ended \/ UNCHANGED vars
    BY <1>15 DEF Ended, vars, unitVars, stallVars, ladderVars
<1>16. QED BY <1>1, <1>2, <1>3, <1>4, <1>5, <1>6, <1>7, <1>8, <1>9, <1>10,
    <1>11, <1>12, <1>13, <1>14, <1>15
    DEF Next, Controller, Engine

\* Every step accounts for the pressure it counts.
LEMMA PatienceStep ==
    ASSUME TypeOK, PatienceInv, [Next]_vars
    PROVE  PatienceInv'
<1> USE SoakAssumption DEF PatienceInv, TopGetsItsPolls, TypeOK, SoakAssumption, Rungs, AtTop
<1>1. ASSUME NEW d \in TurnLengths, Poll(d) PROVE PatienceInv'
    BY <1>1 DEF Poll, End, vars, unitVars, stallVars, ladderVars
<1>2. ASSUME StatusQuiet PROVE PatienceInv'
    BY <1>2 DEF StatusQuiet, vars, unitVars, stallVars, ladderVars
<1>3. ASSUME StatusRestart PROVE PatienceInv'
    BY <1>3 DEF StatusRestart, RestartEngine, Exited, vars, unitVars,
      stallVars, ladderVars
<1>4. ASSUME StatusThrottle PROVE PatienceInv'
    BY <1>4 DEF StatusThrottle, Climb, WriteConfig, RestartEngine, AtTop,
      Exited, vars, unitVars, stallVars, ladderVars
<1>5. ASSUME StatusEnd PROVE PatienceInv'
    BY <1>5 DEF StatusEnd, End, Exited, AtTop, vars, unitVars, stallVars,
      ladderVars
<1>6. ASSUME PressureNone PROVE PatienceInv'
    BY <1>6 DEF PressureNone, Calm, vars, unitVars, stallVars, ladderVars
<1>7. ASSUME PressureThrottle PROVE PatienceInv'
    BY <1>7 DEF PressureThrottle, Climb, WriteConfig, RestartEngine, AtTop,
      vars, unitVars, stallVars, ladderVars
<1>8. ASSUME PressureAtTop PROVE PatienceInv'
    BY <1>8 DEF PressureAtTop, End, AtTop, vars, unitVars, stallVars,
      ladderVars
<1>9. ASSUME StallUnreadable PROVE PatienceInv'
    BY <1>9 DEF StallUnreadable, vars, unitVars, stallVars, ladderVars
<1>10. ASSUME StallProgress PROVE PatienceInv'
    BY <1>10 DEF StallProgress, Progressed, QuietAfterProgress, vars,
      unitVars, stallVars, ladderVars
<1>11. ASSUME StallQuiet PROVE PatienceInv'
    BY <1>11 DEF StallQuiet, Progressed, Stalled, RestartEngine, vars,
      unitVars, stallVars, ladderVars
<1>12. ASSUME EngineTicks PROVE PatienceInv'
    BY <1>12 DEF EngineTicks, vars, unitVars, stallVars, ladderVars
<1>13. ASSUME NEW code \in EngineCodes, EngineExits(code) PROVE PatienceInv'
    BY <1>13 DEF EngineExits, vars, unitVars, stallVars, ladderVars
<1>14. ASSUME SystemdRestarts PROVE PatienceInv'
    BY <1>14 DEF SystemdRestarts, vars, unitVars, stallVars, ladderVars
<1>15. CASE Ended \/ UNCHANGED vars
    BY <1>15 DEF Ended, vars, unitVars, stallVars, ladderVars
<1>16. QED BY <1>1, <1>2, <1>3, <1>4, <1>5, <1>6, <1>7, <1>8, <1>9, <1>10,
    <1>11, <1>12, <1>13, <1>14, <1>15
    DEF Next, Controller, Engine

\* Nothing starts the engine once the loop has ended.
LEMMA DownStep ==
    ASSUME EngineOffAfterEnd, [Next]_vars
    PROVE  EngineOffAfterEnd'
<1> USE SoakAssumption DEF EngineOffAfterEnd
<1>1. ASSUME NEW d \in TurnLengths, Poll(d) PROVE EngineOffAfterEnd'
    BY <1>1 DEF Poll, End, vars, unitVars, stallVars, ladderVars
<1>2. ASSUME StatusQuiet PROVE EngineOffAfterEnd'
    BY <1>2 DEF StatusQuiet, vars, unitVars, stallVars, ladderVars
<1>3. ASSUME StatusRestart PROVE EngineOffAfterEnd'
    BY <1>3 DEF StatusRestart, RestartEngine, Exited, vars, unitVars,
      stallVars, ladderVars
<1>4. ASSUME StatusThrottle PROVE EngineOffAfterEnd'
    BY <1>4 DEF StatusThrottle, Climb, WriteConfig, RestartEngine, AtTop,
      Exited, vars, unitVars, stallVars, ladderVars
<1>5. ASSUME StatusEnd PROVE EngineOffAfterEnd'
    BY <1>5 DEF StatusEnd, End, Exited, AtTop, vars, unitVars, stallVars,
      ladderVars
<1>6. ASSUME PressureNone PROVE EngineOffAfterEnd'
    BY <1>6 DEF PressureNone, Calm, vars, unitVars, stallVars, ladderVars
<1>7. ASSUME PressureThrottle PROVE EngineOffAfterEnd'
    BY <1>7 DEF PressureThrottle, Climb, WriteConfig, RestartEngine, AtTop,
      vars, unitVars, stallVars, ladderVars
<1>8. ASSUME PressureAtTop PROVE EngineOffAfterEnd'
    BY <1>8 DEF PressureAtTop, End, AtTop, vars, unitVars, stallVars,
      ladderVars
<1>9. ASSUME StallUnreadable PROVE EngineOffAfterEnd'
    BY <1>9 DEF StallUnreadable, vars, unitVars, stallVars, ladderVars
<1>10. ASSUME StallProgress PROVE EngineOffAfterEnd'
    BY <1>10 DEF StallProgress, Progressed, QuietAfterProgress, vars,
      unitVars, stallVars, ladderVars
<1>11. ASSUME StallQuiet PROVE EngineOffAfterEnd'
    BY <1>11 DEF StallQuiet, Progressed, Stalled, RestartEngine, vars,
      unitVars, stallVars, ladderVars
<1>12. ASSUME EngineTicks PROVE EngineOffAfterEnd'
    BY <1>12 DEF EngineTicks, vars, unitVars, stallVars, ladderVars
<1>13. ASSUME NEW code \in EngineCodes, EngineExits(code) PROVE EngineOffAfterEnd'
    BY <1>13 DEF EngineExits, vars, unitVars, stallVars, ladderVars
<1>14. ASSUME SystemdRestarts PROVE EngineOffAfterEnd'
    BY <1>14 DEF SystemdRestarts, vars, unitVars, stallVars, ladderVars
<1>15. CASE Ended \/ UNCHANGED vars
    BY <1>15 DEF Ended, vars, unitVars, stallVars, ladderVars
<1>16. QED BY <1>1, <1>2, <1>3, <1>4, <1>5, <1>6, <1>7, <1>8, <1>9, <1>10,
    <1>11, <1>12, <1>13, <1>14, <1>15
    DEF Next, Controller, Engine

\* Every step keeps the detector's clock between neglect and silence.
LEMMA DetectorStep ==
    ASSUME TypeOK, DetectorInv, [Next]_vars
    PROVE  DetectorInv'
<1> USE SoakAssumption DEF DetectorInv, StallsAreAnswered, TypeOK, SoakAssumption
<1>1. ASSUME NEW d \in TurnLengths, Poll(d) PROVE DetectorInv'
    BY <1>1 DEF Poll, End, vars, unitVars, stallVars, ladderVars
<1>2. ASSUME StatusQuiet PROVE DetectorInv'
    BY <1>2 DEF StatusQuiet, vars, unitVars, stallVars, ladderVars
<1>3. ASSUME StatusRestart PROVE DetectorInv'
    BY <1>3 DEF StatusRestart, RestartEngine, Exited, vars, unitVars,
      stallVars, ladderVars
<1>4. ASSUME StatusThrottle PROVE DetectorInv'
    BY <1>4 DEF StatusThrottle, Climb, WriteConfig, RestartEngine, AtTop,
      Exited, vars, unitVars, stallVars, ladderVars
<1>5. ASSUME StatusEnd PROVE DetectorInv'
    BY <1>5 DEF StatusEnd, End, Exited, AtTop, vars, unitVars, stallVars,
      ladderVars
<1>6. ASSUME PressureNone PROVE DetectorInv'
    BY <1>6 DEF PressureNone, Calm, vars, unitVars, stallVars, ladderVars
<1>7. ASSUME PressureThrottle PROVE DetectorInv'
    BY <1>7 DEF PressureThrottle, Climb, WriteConfig, RestartEngine, AtTop,
      vars, unitVars, stallVars, ladderVars
<1>8. ASSUME PressureAtTop PROVE DetectorInv'
    BY <1>8 DEF PressureAtTop, End, AtTop, vars, unitVars, stallVars,
      ladderVars
<1>9. ASSUME StallUnreadable PROVE DetectorInv'
    BY <1>9 DEF StallUnreadable, vars, unitVars, stallVars, ladderVars
<1>10. ASSUME StallProgress PROVE DetectorInv'
    BY <1>10 DEF StallProgress, Progressed, QuietAfterProgress, vars,
      unitVars, stallVars, ladderVars
<1>11. ASSUME StallQuiet PROVE DetectorInv'
    BY <1>11 DEF StallQuiet, Progressed, Stalled, RestartEngine, vars,
      unitVars, stallVars, ladderVars
<1>12. ASSUME EngineTicks PROVE DetectorInv'
    BY <1>12 DEF EngineTicks, vars, unitVars, stallVars, ladderVars
<1>13. ASSUME NEW code \in EngineCodes, EngineExits(code) PROVE DetectorInv'
    BY <1>13 DEF EngineExits, vars, unitVars, stallVars, ladderVars
<1>14. ASSUME SystemdRestarts PROVE DetectorInv'
    BY <1>14 DEF SystemdRestarts, vars, unitVars, stallVars, ladderVars
<1>15. CASE Ended \/ UNCHANGED vars
    BY <1>15 DEF Ended, vars, unitVars, stallVars, ladderVars
<1>16. QED BY <1>1, <1>2, <1>3, <1>4, <1>5, <1>6, <1>7, <1>8, <1>9, <1>10,
    <1>11, <1>12, <1>13, <1>14, <1>15
    DEF Next, Controller, Engine

------------------------------------------------------------------------------
\* Every field keeps its type; in particular the ladder has no rung above its
\* last entry (next_throttle_state).
THEOREM SoakTypeCorrect == Spec => []TypeOK
<1>1. Init => TypeOK
  <2>1. Init => seeded \in BOOLEAN /\ fresh \in BOOLEAN /\ writeLost \in BOOLEAN
    BY DEF Init
  <2>2. QED BY <2>1, SoakAssumption DEF Init, TypeOK, SoakAssumption, Rungs, EngineCodes
<1>2. TypeOK /\ [Next]_vars => TypeOK'
    BY TypeStep
<1>3. QED BY <1>1, <1>2, PTL DEF Spec

\* A running engine samples at the rate of the controller's rung, whether the
\* controller or systemd has started it, since the latest write of the file.
THEOREM EngineFollowsLadder == Spec => []EngineRunsAtRung
<1>1. Init => LadderInv
    BY DEF Init, LadderInv
<1>2. LadderInv /\ [Next]_vars => LadderInv'
    BY LadderStep
<1>3. LadderInv => EngineRunsAtRung
    BY DEF LadderInv, EngineRunsAtRung
<1>4. QED BY <1>1, <1>2, <1>3, PTL DEF Spec

\* An end for pressure comes at the top of the ladder and after enough
\* consecutive polls there.
THEOREM SoakIsPatient == Spec => []TopGetsItsPolls
<1>1. Init => PatienceInv
    BY SoakAssumption DEF Init, PatienceInv, TopGetsItsPolls, SoakAssumption
<1>2. TypeOK /\ PatienceInv /\ [Next]_vars => PatienceInv'
    BY PatienceStep
<1>3. PatienceInv => TopGetsItsPolls
    BY DEF PatienceInv
<1>4. QED BY <1>1, <1>2, <1>3, SoakTypeCorrect, PTL DEF Spec

\* After the end of the loop the engine is down and stays down.
THEOREM EndStopsEngine == Spec => []EngineOffAfterEnd
<1>1. Init => EngineOffAfterEnd
    BY DEF Init, EngineOffAfterEnd
<1>2. EngineOffAfterEnd /\ [Next]_vars => EngineOffAfterEnd'
    BY DownStep
<1>3. QED BY <1>1, <1>2, PTL DEF Spec

\* The detector's clock is right: DetectorInv is an invariant.
LEMMA DetectorHolds == Spec => []DetectorInv
<1>1. Init => DetectorInv
  <2>1. PICK d \in TurnLengths : TRUE
    BY SoakAssumption DEF SoakAssumption
  <2>2. d \in Nat
    BY <2>1, SoakAssumption DEF SoakAssumption
  <2>3. QED BY <2>1, <2>2, SoakAssumption
        DEF Init, DetectorInv, StallsAreAnswered, SoakAssumption
<1>2. TypeOK /\ DetectorInv /\ [Next]_vars => DetectorInv'
    BY DetectorStep
<1>3. QED BY <1>1, <1>2, SoakTypeCorrect, PTL DEF Spec

\* No engine is silent for longer than the threshold and one turn without a
\* restart, as long as the table can be read.
THEOREM NoStallIsMissed == Spec => []StallsAreAnswered
<1>1. DetectorInv => StallsAreAnswered
    BY DEF DetectorInv
<1>2. QED BY <1>1, DetectorHolds, PTL

\* No engine that adds rows is restarted for a stall.
THEOREM NoFalseStall == Spec => []StallsAreReal
<1>1. TypeOK /\ DetectorInv => StallsAreReal
    BY SoakAssumption
    DEF DetectorInv, StallsAreReal, Progressed, Stalled, TypeOK, SoakAssumption
<1>2. QED BY <1>1, DetectorHolds, SoakTypeCorrect, PTL
==============================================================================
