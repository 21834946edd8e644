------------------------------ MODULE ReplayDb ------------------------------
(***************************************************************************)
(* Replay from the database: run_replay_db of engine-rust/src/ingest/mod.rs *)
(* together with the writer it shares the table with (persist_tick of      *)
(* persist.rs) and the shutdown broadcast.                                 *)
(*                                                                         *)
(* A replayed tick goes to the strategy and, like any tick, to the persist *)
(* task, which inserts it into the very table the next page is read from,  *)
(* with its time stamp divided by 1000.  The rest of the pipeline is left  *)
(* out (module Pipeline has it): a full channel ends the process.          *)
(***************************************************************************)
EXTENDS Integers, Sequences, SequencesExt, Ranking, TLC

CONSTANTS
    Original,           \* the time stamps stored when the run starts, by id
    Limit,              \* rows per page
    SampleEvery,        \* one row in SampleEvery is sent
    PersistCap,         \* persist channel and batch
    MaxRows             \* bound: the table grows up to here

ASSUME ReplayAssumption ==
    /\ Original \in Seq(Nat)
    /\ Limit \in Nat \ {0} /\ SampleEvery \in Nat \ {0}
    /\ PersistCap \in Nat \ {0} /\ MaxRows \in Nat

VARIABLES
    table,              \* the ticks table: time stamps by id
    pc,                 \* "top", "query", "page", "ended", "failed", "killed"
    offset,
    page,               \* ids of the rows fetched and not yet visited
    sequence,           \* rows counted for sampling
    pending,            \* time stamps on their way to the table
    shutdown,           \* the broadcast: "none", "sent", "received"
    visited             \* history: ids in the order of their visits

replayVars == <<table, pc, offset, page, sequence, pending, shutdown, visited>>

MutOrdered(rows) == [i \in DOMAIN rows |-> i]     \* the order of insertion

\* ORDER BY ts ASC: the index idx_ticks_ts yields equal stamps by rowid.
Earlier(rows) ==
    {p \in (DOMAIN rows) \X (DOMAIN rows) :
        \/ rows[p[1]] < rows[p[2]]
        \/ rows[p[1]] = rows[p[2]] /\ p[1] < p[2]}

Ordered(rows) == Ranking(DOMAIN rows, Earlier(rows))

\* LIMIT ? OFFSET ?
PageOf(rows, from) ==
    LET last == from + Limit
    IN  SubSeq(Ordered(rows), from + 1,
               IF last < Len(rows) THEN last ELSE Len(rows))

\* tick.ts / 1000, "ms to seconds": the stored stamp is taken for milliseconds.
StoredStamp(ts) == ts \div 1000

MutNextOffset == offset + Limit + 1
NextOffset == offset + Limit

Init ==
    /\ table = Original /\ pc = "top" /\ offset = 0 /\ page = <<>>
    /\ sequence = 0 /\ pending = <<>> /\ shutdown = "none" /\ visited = <<>>

\* Top of the outer loop: try_recv takes the one message of the broadcast.
StopAtPage ==
    /\ pc = "top" /\ shutdown = "sent"
    /\ shutdown' = "received" /\ pc' = "ended"
    /\ UNCHANGED <<table, offset, page, sequence, pending, visited>>

StartQuery ==
    /\ pc = "top" /\ shutdown # "sent"
    /\ pc' = "query"
    /\ UNCHANGED <<table, offset, page, sequence, pending, shutdown, visited>>

\* fetch_all: a failing query or an empty page ends the replay.
Fetch ==
    /\ pc = "query"
    /\ page' = PageOf(table, offset)
    /\ pc' = IF page' = <<>> THEN "ended" ELSE "page"
    /\ UNCHANGED <<table, offset, sequence, pending, shutdown, visited>>

FetchFails ==
    /\ pc = "query"
    /\ pc' = "failed"
    /\ UNCHANGED <<table, offset, page, sequence, pending, shutdown, visited>>

\* The inner loop takes the message too, but leaves only the page.
StopAtRow ==
    /\ pc = "page" /\ page # <<>> /\ shutdown = "sent"
    /\ shutdown' = "received"
    /\ page' = <<>>
    /\ UNCHANGED <<table, pc, offset, sequence, pending, visited>>

VisitRow ==
    /\ pc = "page" /\ page # <<>> /\ shutdown # "sent"
    /\ page' = Tail(page) /\ visited' = Append(visited, Head(page))
    /\ sequence' = sequence + 1
    /\ \/ /\ sequence' % SampleEvery # 0
          /\ UNCHANGED <<pc, pending>>
       \/ /\ sequence' % SampleEvery = 0 /\ Len(pending) < PersistCap
          /\ pending' = Append(pending, table[Head(page)])
          /\ UNCHANGED pc
       \/ /\ sequence' % SampleEvery = 0       \* a channel is full: exit 13
          /\ pc' = "killed"
          /\ UNCHANGED pending
    /\ UNCHANGED <<table, offset, shutdown>>

PageDone ==
    /\ pc = "page" /\ page = <<>>
    /\ offset' = NextOffset /\ pc' = "top"
    /\ UNCHANGED <<table, page, sequence, pending, shutdown, visited>>

\* The persist task writes a replayed tick back, or its INSERT fails.
WriteBack ==
    /\ pc # "killed"
    /\ pending # <<>>
    /\ \/ /\ Len(table) < MaxRows
          /\ table' = Append(table, StoredStamp(Head(pending)))
       \/ UNCHANGED table
    /\ pending' = Tail(pending)
    /\ UNCHANGED <<pc, offset, page, sequence, shutdown, visited>>

\* main broadcasts the shutdown (CTRL-C, --seconds).
Broadcast ==
    /\ shutdown = "none" /\ pc # "killed"
    /\ shutdown' = "sent"
    /\ UNCHANGED <<table, pc, offset, page, sequence, pending, visited>>

Next ==
    \/ StopAtPage \/ StartQuery \/ Fetch \/ FetchFails
    \/ StopAtRow \/ VisitRow \/ PageDone
    \/ WriteBack \/ Broadcast

Spec == Init /\ [][Next]_replayVars

------------------------------------------------------------------------------
\* The i-th row shown is the i-th of the table in its order, pushed to a later
\* place by at most as many rows as have been written back.  So a replay that keeps
\* ahead of the persist task shows each row once and in order, although every page
\* is a query of its own and equal stamps may fall on both sides of a cut; and a
\* row written back sets the replay back by one row and no more.
ReplaysInOrder ==
    LET writtenBack == Len(table) - Len(Original) IN
    shutdown # "received" =>
        \A i \in DOMAIN visited :
            Place(DOMAIN table, Earlier(table), visited[i]) \in i .. (i + writtenBack)

\* "replay finished (no more ticks)": every row stored before the run has been
\* replayed, although the rows written back shift the pages under the offset.
\* They have smaller stamps: a page may show rows again, it cannot skip one.
EveryStoredRowReplayed ==
    pc = "ended" /\ shutdown # "received" =>
        DOMAIN Original \subseteq Range(visited)

\* S13 "ingestion stops": once the replay has taken the shutdown message it
\* visits no further row.
IngestionStops ==
    [][shutdown = "received" => UNCHANGED visited]_replayVars

\* "recorded Tick stream -> deterministic Signals": until the replay is stopped,
\* the ticks it sends are those recorded, in the order of their stamps.
ReplayIsDeterministic ==
    shutdown # "received" =>
        IsPrefix([i \in DOMAIN visited |-> table[visited[i]]],
                 SortSeq(Original, LAMBDA s, t : s < t))
==============================================================================
