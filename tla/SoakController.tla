--------------------------- MODULE SoakController ---------------------------
(***************************************************************************)
(* The soak controller, scripts/soak_2h.py, which polls the engine's       *)
(* systemd unit, the kernel's pressure figures and the tick table, slows   *)
(* the engine down rung by rung and restarts it.                           *)
(*                                                                         *)
(* One turn of run_loop is four steps: the clock and the operator's abort  *)
(* file, the unit's state, the pressure, the stall detector.  The engine   *)
(* and systemd move between any two of them: the controller sleeps and     *)
(* runs systemctl there.  systemd is external: Restart=on-failure with     *)
(* RestartPreventExitStatus=12, and a start limit that leaves the unit     *)
(* failed.  A sample_every rate is the rung it belongs to; the file may be *)
(* missing or read-only at any write, and the controller goes on.          *)
(***************************************************************************)
EXTENDS Integers

CONSTANTS
    Seconds,        \* --seconds, the length of the soak
    TurnLengths,    \* how long a turn may take, restarts included
    StallThreshold, \* --stall-threshold-sec
    TopRung,        \* the last index of THROTTLE_LADDER
    MaxPressure,    \* consecutive_pressure that ends the soak at the top
    PsiActions      \* --psi-actions: "on", "logonly" or "off"

ASSUME SoakAssumption ==
    /\ Seconds \in Nat /\ StallThreshold \in Nat
    /\ TopRung \in Nat /\ MaxPressure \in Nat
    /\ TurnLengths \subseteq 1..(Seconds + 1) /\ TurnLengths # {}
    /\ PsiActions \in {"on", "logonly", "off"}

VARIABLES
    pc,             \* the controller's next step
    elapsed,        \* time since start_time
    rung,           \* current_state
    configRung,     \* the rung whose sample_every is in the configuration file
    writeLost,      \* history: the latest write of the file has failed
    pressure,       \* consecutive_pressure
    ingestMode,     \* ingest_mode: "realws" until the first PARSE exit
    seeded,         \* StallDetector.last_count is not None
    quiet,          \* time since last_progress_wall
    outcome,        \* why the loop ended
    unit,           \* external: the unit's state
    status,         \* external: ExecMainStatus
    loadedRung,     \* external: the rung the running engine was started with
    fresh,          \* external: rows added to ticks since the last look
    pressedAtTop,   \* history: consecutive polls under pressure at the top
    neglect,        \* history: time without progress, restart or read error
    sinceRow        \* history: time since the engine really added a row

unitVars == <<unit, status, loadedRung>>
stallVars == <<seeded, quiet, fresh, neglect, sinceRow>>
ladderVars == <<rung, configRung, writeLost, pressure, pressedAtTop>>
vars == <<pc, elapsed, ingestMode, outcome, unitVars, stallVars, ladderVars>>

Rungs == 0..TopRung
EngineCodes == {0, 1, 10, 11, 12, 13}
Sigterm == 15
Exited == unit \in {"failed", "dead"}

------------------------------------------------------------------------------
\* __init__ puts sample_every = 1 into the file, if it can, and run_loop
\* restarts the engine.
Init ==
    /\ pc = "poll" /\ elapsed = 0 /\ outcome = "none"
    /\ rung = 0 /\ configRung \in Rungs /\ writeLost \in BOOLEAN
    /\ configRung = 0 \/ writeLost
    /\ pressure = 0 /\ pressedAtTop = 0
    /\ ingestMode \in {"realws", "mockws"}
    /\ seeded = FALSE /\ quiet = 0 /\ fresh = FALSE
    /\ neglect = 0 /\ sinceRow = 0
    /\ unit = "running" /\ status = 0 /\ loadedRung = configRung

\* systemctl restart, with the file as it will be: a running engine gets
\* SIGTERM first, and the start limit may refuse the start.
RestartEngine(config) ==
    \/ /\ unit' = "running"
       /\ loadedRung' = config
       /\ UNCHANGED status
    \/ /\ unit' = "failed"
       /\ status' = IF unit = "running" THEN Sigterm ELSE status
       /\ UNCHANGED loadedRung

\* The break out of the loop and its finally: systemctl stop.
MutEnd(why) ==
    /\ pc' = "ended"
    /\ outcome' = why
    /\ unit' = IF unit = "running" THEN "dead" ELSE unit    \* a pending start stays
    /\ UNCHANGED <<status, loadedRung>>
End(why) ==
    /\ pc' = "ended"
    /\ outcome' = why
    /\ unit' = IF unit = "failed" THEN "failed" ELSE "dead"
    /\ UNCHANGED <<status, loadedRung>>

\* next_throttle_state has nothing above the last entry.
AtTop == rung = TopRung

\* update_config_sample_rate: a write that fails is logged and no more.
WriteConfig(value) ==
    \/ configRung' = value /\ writeLost' = FALSE
    \/ UNCHANGED configRung /\ writeLost' = TRUE

\* The next state of the ladder, into the file and then into the engine.
MutClimb ==                         \* first into the engine, then into the file
    /\ rung' = rung + 1
    /\ RestartEngine(configRung)
    /\ WriteConfig(rung')
Climb ==
    /\ rung' = rung + 1
    /\ WriteConfig(rung')
    /\ RestartEngine(configRung')

------------------------------------------------------------------------------
\* Steps 1 and 2: a turn begins, or the time is up, or the operator aborts.
Poll(d) ==
    /\ pc = "poll"
    /\ elapsed <= Seconds
    /\ elapsed' = elapsed + d
    /\ quiet' = IF seeded THEN quiet + d ELSE quiet
    /\ neglect' = neglect + d
    /\ sinceRow' = sinceRow + d
    /\ \/ elapsed' > Seconds /\ End("complete")
       \/ End("operator")
       \/ /\ elapsed' <= Seconds
          /\ pc' = "status"
          /\ UNCHANGED <<outcome, unitVars>>
    /\ UNCHANGED <<ingestMode, seeded, fresh, ladderVars>>

\* Step 3, nothing to do: the unit is up or coming up, or cannot be queried.
StatusQuiet ==
    /\ pc = "status"
    /\ pc' = "pressure"
    /\ UNCHANGED <<elapsed, ingestMode, outcome, unitVars, stallVars, ladderVars>>

\* Step 3, NETWORK: restart after a pause.  PARSE: restart once, as a fallback.
StatusRestart ==
    /\ pc = "status"
    /\ Exited
    /\ \/ status = 10 /\ UNCHANGED ingestMode
       \/ status = 11 /\ ingestMode = "realws" /\ ingestMode' = "mockws"
    /\ RestartEngine(configRung)
    /\ pc' = "pressure"
    /\ neglect' = 0
    /\ UNCHANGED <<elapsed, outcome, seeded, quiet, fresh, sinceRow, ladderVars>>

\* Step 3, OVERLOAD: one rung up.
StatusThrottle ==
    /\ pc = "status"
    /\ Exited /\ status = 13
    /\ ~ AtTop
    /\ Climb
    /\ pc' = "pressure"
    /\ neglect' = 0
    /\ UNCHANGED <<elapsed, ingestMode, outcome, seeded, quiet, fresh, sinceRow,
                   pressure, pressedAtTop>>

\* Step 3, the exits that end the soak.
StatusEnd ==
    /\ pc = "status"
    /\ Exited
    /\ \/ status = 0 /\ End("complete")
       \/ status = 11 /\ ingestMode # "realws" /\ End("protocol")
       \/ status = 13 /\ AtTop /\ End("overload")
       \/ status \notin {0, 10, 11, 13} /\ End("unhandled")
    /\ UNCHANGED <<elapsed, ingestMode, stallVars, ladderVars>>

------------------------------------------------------------------------------
\* Step 4 without pressure, or with --psi-actions logonly; "off" skips it.
MutCalm == UNCHANGED pressure       \* the count is not consecutive any more
Calm == pressure' = IF PsiActions = "off" THEN pressure ELSE 0

PressureNone ==
    /\ pc = "pressure"
    /\ Calm
    /\ pressedAtTop' = 0
    /\ pc' = "stall"
    /\ UNCHANGED <<elapsed, ingestMode, outcome, unitVars, stallVars, rung, configRung, writeLost>>

\* Step 4 under pressure below the top: one rung up.
PressureThrottle ==
    /\ pc = "pressure" /\ PsiActions = "on"
    /\ ~ AtTop
    /\ pressure' = pressure + 1
    /\ Climb
    /\ pc' = "stall"
    /\ neglect' = 0
    /\ UNCHANGED <<elapsed, ingestMode, outcome, seeded, quiet, fresh, sinceRow,
                   pressedAtTop>>

\* Step 4 under pressure at the top: patience, then the end.
PressureAtTop ==
    /\ pc = "pressure" /\ PsiActions = "on"
    /\ AtTop
    /\ pressure' = pressure + 1
    /\ pressedAtTop' = pressedAtTop + 1
    /\ IF pressure' > MaxPressure
       THEN End("pressure")
       ELSE pc' = "stall" /\ UNCHANGED <<outcome, unitVars>>
    /\ UNCHANGED <<elapsed, ingestMode, stallVars, rung, configRung, writeLost>>

------------------------------------------------------------------------------
\* Step 5: the table cannot be read; nothing is learned and no time forgotten.
StallUnreadable ==
    /\ pc = "stall"
    /\ pc' = "poll"
    /\ neglect' = 0
    /\ UNCHANGED <<elapsed, ingestMode, outcome, unitVars, seeded, quiet, fresh, sinceRow,
                   ladderVars>>

\* Step 5: the first look, or more rows than at the last one.
MutProgressed == TRUE               \* the baseline is seeded at every look
Progressed == fresh \/ ~ seeded

MutQuietAfterProgress == quiet      \* the clock of the detector is not reset
QuietAfterProgress == 0

StallProgress ==
    /\ pc = "stall"
    /\ Progressed
    /\ seeded' = TRUE
    /\ fresh' = FALSE
    /\ quiet' = QuietAfterProgress
    /\ neglect' = IF fresh \/ ~ seeded THEN 0 ELSE neglect
    /\ pc' = "poll"
    /\ UNCHANGED <<elapsed, ingestMode, outcome, unitVars, sinceRow, ladderVars>>

\* Step 5: no new row.  Beyond the threshold the engine is restarted; the
\* clock of the detector goes on, so the next look restarts it again unless a
\* row has come in by then.
Stalled == quiet > StallThreshold

StallQuiet ==
    /\ pc = "stall"
    /\ ~ Progressed
    /\ IF Stalled
       THEN RestartEngine(configRung) /\ neglect' = 0
       ELSE UNCHANGED <<unitVars, neglect>>
    /\ pc' = "poll"
    /\ UNCHANGED <<elapsed, ingestMode, outcome, seeded, quiet, fresh, sinceRow, ladderVars>>

------------------------------------------------------------------------------
\* The engine inserts a tick.
EngineTicks ==
    /\ unit = "running"
    /\ fresh' = TRUE
    /\ sinceRow' = 0
    /\ UNCHANGED <<pc, elapsed, ingestMode, outcome, unitVars, seeded, quiet, neglect, ladderVars>>

\* The engine exits and systemd decides: 0 is success, 12 is not restarted, any
\* other code is, unless the start limit is hit.
EngineExits(code) ==
    /\ unit = "running"
    /\ status' = code
    /\ unit' \in IF code = 0 THEN {"dead"}
                 ELSE IF code = 12 THEN {"failed"} ELSE {"restarting", "failed"}
    /\ UNCHANGED <<pc, elapsed, ingestMode, outcome, loadedRung, stallVars, ladderVars>>

\* RestartSec has passed.
SystemdRestarts ==
    /\ unit = "restarting"
    /\ unit' = "running"
    /\ loadedRung' = configRung
    /\ UNCHANGED <<pc, elapsed, ingestMode, outcome, status, stallVars, ladderVars>>

Ended == pc = "ended" /\ UNCHANGED vars

Controller ==
    \/ \E d \in TurnLengths : Poll(d)
    \/ StatusQuiet
    \/ StatusRestart \/ StatusThrottle \/ StatusEnd
    \/ PressureNone \/ PressureThrottle \/ PressureAtTop
    \/ StallUnreadable \/ StallProgress \/ StallQuiet

Engine ==
    \/ EngineTicks
    \/ \E code \in EngineCodes : EngineExits(code)
    \/ SystemdRestarts

Next == Controller \/ Engine \/ Ended

Spec == Init /\ [][Next]_vars

------------------------------------------------------------------------------
\* The ladder has no rung above its last entry; every field keeps its type.
TypeOK ==
    /\ pc \in {"poll", "status", "pressure", "stall", "ended"}
    /\ elapsed \in Nat /\ quiet \in 0..elapsed /\ neglect \in 0..elapsed
    /\ rung \in Rungs /\ configRung \in Rungs /\ loadedRung \in Rungs
    /\ writeLost \in BOOLEAN
    /\ pressure \in Nat /\ pressedAtTop \in 0..pressure /\ sinceRow \in 0..elapsed
    /\ ingestMode \in {"realws", "mockws"}
    /\ seeded \in BOOLEAN /\ fresh \in BOOLEAN
    /\ outcome \in {"none", "complete", "operator", "protocol", "overload",
                    "unhandled", "pressure"}
    /\ unit \in {"running", "restarting", "failed", "dead"}
    /\ status \in EngineCodes \cup {Sigterm}

\* Whoever started it, the controller for whichever of its reasons or systemd
\* on its own, a running engine samples at the rate of the controller's rung,
\* unless the latest write of the configuration file has failed.
EngineRunsAtRung == unit = "running" /\ ~ writeLost => loadedRung = rung

\* The soak ends for pressure only at the top of the ladder, and only after
\* the top has been given a number of consecutive polls: consecutive_pressure
\* counts the polls that climbed as well, which take one each at most.
TopGetsItsPolls ==
    outcome = "pressure" => AtTop /\ pressedAtTop + TopRung > MaxPressure

\* Once the loop has ended the engine is down for good, also when it was about
\* to be started again by systemd (the finally clause stops the unit).
EngineOffAfterEnd == pc = "ended" => unit \in {"dead", "failed"}

\* A silent engine is not left alone for longer than the threshold and one
\* turn: whatever else a turn did, the detector comes to look.
StallsAreAnswered ==
    \E d \in TurnLengths : neglect <= StallThreshold + d

\* A restart for a stall is never wrong: when the detector says so, the table
\* really has had no new row for longer than the threshold, whatever looks
\* failed in between.
StallsAreReal ==
    pc = "stall" /\ ~ Progressed /\ Stalled => sinceRow > StallThreshold
==============================================================================
