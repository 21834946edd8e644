------------------------------ MODULE WsIngest ------------------------------
(***************************************************************************)
(* The WebSocket modes of the ingest task: run_real_ws with its sources in *)
(* order of priority (ingest/realws.rs) and run_mock_ws with its one       *)
(* server (ingest/mod.rs).  Both have the same states: ask for the         *)
(* shutdown, connect, session, pause.  They differ in what follows a lost  *)
(* link, in the sequence number behind sample_every, and in what counts as *)
(* activity.                                                               *)
(*                                                                         *)
(* The servers and the network are external.  A live link delivers frames  *)
(* and may become lost (a close frame, an error or the end of the stream   *)
(* is ready to be read) or mute: writes succeed and nothing ever comes.    *)
(* Time passes in units between the timers' deadlines.                     *)
(***************************************************************************)
EXTENDS Integers

CONSTANTS
    Kinds,          \* the modes modelled, a subset of {"real", "mock"}
    SourceCount,    \* entries of ws_sources.toml; run_mock_ws has one url
    PingEvery,      \* period of ping_timer, per kind
    KeepAlive,      \* silence before a ping, per kind
    Pause,          \* time before the next round, per kind
    SampleEvery,    \* sample_every
    MessageTicks,   \* how many ticks a text frame may hold
    MaxFlips        \* bound: how often a server goes up or down, or mute

ASSUME WsAssumption ==
    /\ Kinds \subseteq {"real", "mock"}
    /\ SourceCount \in Nat \ {0} /\ SampleEvery \in Nat \ {0}
    /\ \A k \in Kinds : /\ PingEvery[k] \in Nat \ {0}
                        /\ KeepAlive[k] \in Nat
                        /\ Pause[k] \in Nat \ {0}
    /\ MessageTicks \subseteq Nat
    /\ MaxFlips \in Nat

VARIABLES
    kind,           \* ingest_mode
    pc,             \* "check", "connect", "session", "pause", "ended", "exit13"
    source,         \* the source being tried or read
    sequence,       \* sequence % sample_every
    idle,           \* last_activity.elapsed()
    toPing,         \* time until ping_timer ticks
    toWake,         \* time until the pause is over
    message,        \* the broadcast holds the shutdown for this task
    told,           \* external: main has sent the shutdown
    up,             \* external: the sources that accept connections
    link,           \* external: the link of the session
    flips,          \* external: changes so far, for MaxFlips
    unpinged,       \* history: time since the latest activity or ping
    rest            \* history: time since a source refused, up to the pause

taskVars == <<kind, pc, source, sequence, idle, toPing, toWake, message>>
netVars == <<told, up, link, flips>>
vars == <<taskVars, netVars, unpinged, rest>>

Last == IF kind = "mock" THEN 1 ELSE SourceCount
Sources == 1..Last

\* Times beyond the longest that matters are not told apart.
Longest == KeepAlive[kind] + PingEvery[kind] + 1
Aged(t, limit) == IF t < limit THEN t + 1 ELSE t

------------------------------------------------------------------------------
Init ==
    /\ kind \in Kinds
    /\ pc = "check" /\ source = 1 /\ sequence = 0
    /\ idle = 0 /\ toPing = 0 /\ toWake = 0
    /\ message = FALSE /\ told = FALSE
    /\ up \in SUBSET Sources
    /\ link = "none" /\ flips = 0
    /\ unpinged = 0
    /\ rest = [s \in Sources |-> Pause[kind]]

\* A round begins with the source of the best priority.
MutFirstSource == source            \* with the one that came last
FirstSource == 1

\* The top of the loop: try_recv, then the first source.
Check ==
    /\ pc = "check"
    /\ IF message
       THEN pc' = "ended" /\ message' = FALSE
       ELSE pc' = "connect" /\ UNCHANGED message
    /\ source' = FirstSource
    /\ UNCHANGED <<kind, sequence, idle, toPing, toWake, netVars, unpinged, rest>>

\* run_source_session starts a sequence of its own, run_mock_ws goes on.
MutSequenceAtStart == 0             \* both start anew
SequenceAtStart == IF kind = "real" THEN 0 ELSE sequence

\* connect_async succeeds; the first tick of an interval is immediate.
Connect ==
    /\ pc = "connect" /\ source \in up
    /\ pc' = "session"
    /\ link' = "live"
    /\ sequence' = SequenceAtStart
    /\ idle' = 0 /\ toPing' = 0 /\ unpinged' = 0
    /\ UNCHANGED <<kind, source, toWake, message, told, up, flips, rest>>

\* The next source of the round, or the pause after the last one.
NextSource ==
    IF source = Last
    THEN pc' = "pause" /\ toWake' = Pause[kind] /\ UNCHANGED source
    ELSE pc' = "connect" /\ source' = source + 1 /\ UNCHANGED toWake

\* connect_async fails, or the url does not parse.
Refused ==
    /\ pc = "connect" /\ source \notin up
    /\ NextSource
    /\ rest' = [rest EXCEPT ![source] = 0]
    /\ UNCHANGED <<kind, sequence, idle, toPing, message, netVars, unpinged>>

\* A session that ends: the real task goes on to its next source, the mock
\* task back to the top of its loop.
AfterLoss ==
    \/ kind = "real" /\ NextSource
    \/ kind = "mock" /\ pc' = "check" /\ UNCHANGED <<source, toWake>>

LoseSession ==
    /\ AfterLoss
    /\ link' = "none"
    /\ UNCHANGED <<kind, sequence, idle, toPing, message, told, up, flips, unpinged, rest>>

------------------------------------------------------------------------------
(* The branches of the session's select!, any ready one of them.           *)

\* shutdown.recv(): the session and the task end.
MutSessionShutdown ==               \* only the session ends
    LoseSession
SessionShutdown ==
    /\ pc' = "ended" /\ link' = "none"
    /\ UNCHANGED <<kind, source, sequence, idle, toPing, toWake, told, up, flips,
                   unpinged, rest>>

TakeShutdown ==
    /\ pc = "session" /\ message
    /\ message' = FALSE
    /\ SessionShutdown

\* ping_timer.tick(): a ping if the silence has lasted, which fails on a lost
\* link.
MutPingDue == idle = KeepAlive[kind] + 1    \* a tick that comes late misses it
PingDue == idle > KeepAlive[kind]

PingTimer ==
    /\ pc = "session" /\ toPing = 0
    /\ \/ /\ ~ (PingDue /\ link = "lost")
          /\ toPing' = PingEvery[kind]
          /\ unpinged' = IF PingDue THEN 0 ELSE unpinged
          /\ UNCHANGED <<kind, pc, source, sequence, idle, toWake, message, netVars, rest>>
       \/ /\ PingDue /\ link = "lost"
          /\ LoseSession

\* A text frame with n ticks, none if it is malformed or of another type: each
\* is counted, one in sample_every is sent.
Sends(n) == sequence + n >= SampleEvery

ReadText(n) ==
    /\ pc = "session" /\ link = "live"
    /\ idle' = 0 /\ unpinged' = 0
    /\ sequence' = (sequence + n) % SampleEvery
    /\ UNCHANGED <<kind, pc, source, toPing, toWake, message, netVars, rest>>

\* send_tick meets a full channel.
Overload(n) ==
    /\ pc = "session" /\ link = "live" /\ Sends(n)
    /\ pc' = "exit13"
    /\ UNCHANGED <<kind, source, sequence, idle, toPing, toWake, message, netVars,
                   unpinged, rest>>

\* A pong is activity in run_source_session only.
ReadPong ==
    /\ pc = "session" /\ link = "live"
    /\ IF kind = "real" THEN idle' = 0 /\ unpinged' = 0 ELSE UNCHANGED <<idle, unpinged>>
    /\ UNCHANGED <<kind, pc, source, sequence, toPing, toWake, message, netVars, rest>>

\* Close, an error or the end of the stream.
ReadEnd ==
    /\ pc = "session" /\ link = "lost"
    /\ LoseSession

------------------------------------------------------------------------------
\* The pause between two rounds is raced with the shutdown.
Wake ==
    /\ pc = "pause" /\ toWake = 0
    /\ pc' = "check"
    /\ UNCHANGED <<kind, source, sequence, idle, toPing, toWake, message, netVars,
                   unpinged, rest>>

WakeForShutdown ==
    /\ pc = "pause" /\ message
    /\ message' = FALSE
    /\ pc' = "ended"
    /\ UNCHANGED <<kind, source, sequence, idle, toPing, toWake, netVars, unpinged, rest>>

------------------------------------------------------------------------------
\* Main broadcasts the shutdown, once.
Shutdown ==
    /\ ~ told
    /\ told' = TRUE /\ message' = TRUE
    /\ UNCHANGED <<kind, pc, source, sequence, idle, toPing, toWake, up, link, flips,
                   unpinged, rest>>

\* A server comes up or goes down, and takes the links with it.
Flip(s) ==
    /\ flips < MaxFlips /\ flips' = flips + 1
    /\ up' = IF s \in up THEN up \ {s} ELSE up \cup {s}
    /\ link' = IF s = source /\ s \in up /\ link # "none" THEN "lost" ELSE link
    /\ UNCHANGED <<taskVars, told, unpinged, rest>>

\* The server, or the network, stops the stream without a word.
Mute ==
    /\ flips < MaxFlips /\ flips' = flips + 1
    /\ link = "live"
    /\ link' = "mute"
    /\ UNCHANGED <<taskVars, told, up, unpinged, rest>>

\* The server closes the connection and takes the next one.
Drop ==
    /\ link = "live"
    /\ link' = "lost"
    /\ UNCHANGED <<taskVars, told, up, flips, unpinged, rest>>

\* A timer that is due is served before time goes on.
Tick ==
    /\ pc \in {"connect", "session", "pause"}
    /\ pc = "session" => toPing > 0
    /\ pc = "pause" => toWake > 0
    /\ idle' = IF pc = "session" THEN Aged(idle, Longest) ELSE idle
    /\ unpinged' = IF pc = "session" THEN Aged(unpinged, Longest) ELSE unpinged
    /\ toPing' = IF pc = "session" THEN toPing - 1 ELSE toPing
    /\ toWake' = IF pc = "pause" THEN toWake - 1 ELSE toWake
    /\ rest' = [s \in Sources |-> Aged(rest[s], Pause[kind])]
    /\ UNCHANGED <<kind, pc, source, sequence, message, netVars>>

Over == pc \in {"ended", "exit13"} /\ UNCHANGED vars

Read == ReadPong \/ ReadEnd \/ \E n \in MessageTicks : ReadText(n) \/ Overload(n)

Task == Check \/ Connect \/ Refused \/ TakeShutdown \/ PingTimer \/ Read
        \/ Wake \/ WakeForShutdown

Network == Shutdown \/ (\E s \in Sources : Flip(s)) \/ Mute \/ Drop \/ Tick

Next == (pc \notin {"ended", "exit13"} /\ (Task \/ Network)) \/ Over

Spec == Init /\ [][Next]_vars

\* An attempt to connect comes to an end.  Not part of FairSpec: connect_async has
\* no timeout, and a server may accept and never answer the handshake.
AttemptsEnd == WF_vars(Connect \/ Refused)

\* The task runs when it can, timers fire and select! does not starve a branch
\* that stays ready.
FairSpec ==
    /\ Spec
    /\ WF_vars(Check)
    /\ WF_vars(TakeShutdown)
    /\ WF_vars(PingTimer)
    /\ WF_vars(ReadEnd)
    /\ WF_vars(Wake \/ WakeForShutdown)
    /\ WF_vars(Tick)

------------------------------------------------------------------------------
\* Every variable stays in its type; the round does not leave the list.
TypeOK ==
    /\ kind \in Kinds
    /\ pc \in {"check", "connect", "session", "pause", "ended", "exit13"}
    /\ source \in Sources
    /\ sequence \in 0..(SampleEvery - 1)
    /\ idle \in 0..Longest /\ unpinged \in 0..Longest
    /\ toPing \in 0..PingEvery[kind] /\ toWake \in 0..Pause[kind]
    /\ message \in BOOLEAN /\ told \in BOOLEAN
    /\ up \in SUBSET Sources
    /\ link \in {"none", "live", "mute", "lost"}
    /\ flips \in 0..MaxFlips
    /\ rest \in [Sources -> 0..Pause[kind]]

\* A silent session sends a ping within keep-alive plus one period of its
\* timer, whenever the silence began within that period.
PingsInTime == pc = "session" => unpinged <= KeepAlive[kind] + PingEvery[kind]

\* A source that refused is not asked again before the pause is over, whatever
\* the other sources do in between.
RefusedSourcesRest == pc = "connect" => rest[source] >= Pause[kind]

\* The shutdown ends the task in whatever phase it arrives, also on a mute link
\* and between two sources of a round, if attempts to connect end.
ShutdownEnds == AttemptsEnd => (told ~> pc \in {"ended", "exit13"})

\* If from some time on some source accepts connections, and neither an attempt
\* nor a mute link lasts for ever, the task has a live link again and again.
Recovers ==
    /\ AttemptsEnd
    /\ \E s \in 1..SourceCount : <>[](s \in up)
    /\ []<>(link # "mute")
    => []<>(link = "live") \/ <>(pc \in {"ended", "exit13"})

\* Sampling goes on across connections in run_mock_ws: a server that closes
\* every connection after a tick or two cannot keep the task from sending.
SamplingOutlivesConnections ==
    kind = "mock" /\ []<><<\E n \in MessageTicks \ {0} : ReadText(n)>>_vars
        => []<><<\E n \in MessageTicks : ReadText(n) /\ Sends(n)>>_vars
==============================================================================
