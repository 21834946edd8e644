---------------------------- MODULE ShadowArtifacts ----------------------------
(***************************************************************************)
(* The files that shadow trading leaves for its readers, and the two       *)
(* programs that write them:                                               *)
(*   "enhanced" scripts/run_shadow_enhanced.py, every turn through         *)
(*              recorder/shadow_artifacts.py: journal, summary, health,    *)
(*              each replaced as a whole;                                  *)
(*   "service"  scripts/run_shadow_prod_entrypoint.py, once per timer      *)
(*              tick: the stale-edge runner appends to the journal through *)
(*              recorder/trade_journal.py, then journal and summary are    *)
(*              published into the directory of the other repository.      *)
(*                                                                         *)
(* One program runs at a time and may be killed at any point; every write  *)
(* may fail.  A row is the run and the turn that wrote it with its reason. *)
(***************************************************************************)
EXTENDS Naturals, Sequences, FiniteSets

CONSTANTS
    Absent,         \* a file that does not exist
    MaxRows,        \* SHADOW_JOURNAL_MAX_ROWS
    MaxCancels,     \* max_cancel_replace_per_min
    RateWindow,     \* window of the limiter, in turns
    MarketEnds,     \* turns at which the market of a run may end
    MaxTurns,       \* bound on the turns of a run
    MaxRuns         \* bound on the runs

ASSUME ArtifactsAssumption ==
    {MaxRows, MaxCancels, RateWindow, MaxTurns, MaxRuns} \cup MarketEnds \subseteq Nat

\* A row, with what its decision came to, and the content of the three files.
Reasons == {"any", "REFUSED", "END_TIME_ANOMALY", "STALENESS_GATE", "CANCEL_RATE_LIMIT"}
Row == [run : Nat, turn : Nat, reason : Reasons]
Headers == {"none", "trade", "artifact", "row"}
JournalFile == [header : Headers, whole : BOOLEAN, rows : Seq(Row)]
SummaryFile ==
    [by : {"enhanced", "service"}, run : Nat, turn : Nat, whole : BOOLEAN, reason : Reasons]
HealthFile ==
    [run : Nat, turn : Nat, whole : BOOLEAN, mismatch : BOOLEAN, failed : BOOLEAN, success : Nat]

ASSUME AbsentIsNoFile == Absent \notin JournalFile \cup SummaryFile \cup HealthFile

VARIABLES
    aliased,        \* both directories are one, through a link
    files,          \* directory, name -> content
    program, pc, run, turn,
    marketEnd,      \* enhanced: 0 when --market-end-ts is not given
    rows,           \* enhanced: journal_rows_for_artifacts
    cancelStamps,   \* enhanced: cancel_limiter.timestamps
    mismatch,       \* enhanced: what the latest journal write returned
    lastError,      \* enhanced: artifact_last_error was set
    lastSuccess,    \* enhanced: the turn of artifact_last_success_at
    succeeded       \* history: turns of the service runs whose strategy returned 0

process == <<program, run, marketEnd, aliased>>
memory == <<rows, cancelStamps, lastError, lastSuccess>>
vars == <<process, memory, files, pc, turn, mismatch, succeeded>>

------------------------------------------------------------------------------
Published == IF aliased THEN "own" ELSE "published"

Write(dir, name, content) == files' = [files EXCEPT ![dir][name] = content]

\* Newest rows only; slicing by -0 keeps them all.
MutNewest(all) == IF Len(all) > MaxRows THEN SubSeq(all, 1, MaxRows) ELSE all
Newest(all) ==
    IF Len(all) > MaxRows /\ MaxRows > 0
    THEN SubSeq(all, Len(all) - MaxRows + 1, Len(all)) ELSE all

Init ==
    /\ aliased \in BOOLEAN
    /\ files = [dir \in {"own", "published"} |->
                    [name \in {"journal", "summary", "health"} |-> Absent]]
    /\ program = "none" /\ pc = "idle" /\ run = 0 /\ turn = 0
    /\ marketEnd = 0 /\ rows = <<>> /\ cancelStamps = {}
    /\ mismatch = FALSE /\ lastError = FALSE /\ lastSuccess = 0
    /\ succeeded = <<>>

\* A program starts with empty hands.
Start(p) ==
    /\ pc = "idle" /\ run < MaxRuns
    /\ program' = p
    /\ pc' = IF p = "enhanced" THEN "decide" ELSE "open"
    /\ run' = run + 1 /\ turn' = 0
    /\ marketEnd' \in MarketEnds
    /\ rows' = <<>> /\ cancelStamps' = {}
    /\ mismatch' = FALSE /\ lastError' = FALSE /\ lastSuccess' = 0
    /\ succeeded' = Append(succeeded, 0)
    /\ UNCHANGED <<aliased, files>>

\* It is killed, by its time-out or otherwise, finds no market or cannot write
\* its summary (service), ends with its time or after --once (enhanced).
Stop ==
    /\ pc # "idle"
    /\ pc' = "idle"
    /\ UNCHANGED <<process, memory, files, turn, mismatch, succeeded>>

------------------------------------------------------------------------------
\* After a turn's decision journal, summary and health are written, in turn.
MutNextWrite(name) ==               \* the summary first
    CASE name = "decide" -> "summary" [] name = "summary" -> "journal"
      [] name = "journal" -> "health" [] name = "health" -> "decide"
NextWrite(name) ==
    CASE name = "decide" -> "journal" [] name = "journal" -> "summary"
      [] name = "summary" -> "health" [] name = "health" -> "decide"

\* A turn of the enhanced runner.  It has no official price: the strategy
\* cancels everything once the market is over, and refuses before.
Evaluated(time) == IF time >= marketEnd THEN "END_TIME_ANOMALY" ELSE "REFUSED"

\* A shock, which only signal and venue modules from outside the repository
\* report, hides the cancellation before the limiter sees it.
Gated(verdict, shock) == IF shock THEN "STALENESS_GATE" ELSE verdict

Recent(time) == {s \in cancelStamps : time - s <= RateWindow}
Limited(verdict, time) ==
    IF verdict = "END_TIME_ANOMALY" /\ Cardinality(Recent(time)) >= MaxCancels
    THEN "CANCEL_RATE_LIMIT" ELSE verdict

Decide(shock) ==
    LET time   == turn + 1
        gated  == Gated(Evaluated(time), shock)
        reason == Limited(gated, time)
    IN  /\ pc = "decide" /\ turn < MaxTurns
        /\ turn' = time
        /\ cancelStamps' =
               CASE gated # "END_TIME_ANOMALY" -> cancelStamps
                 [] gated = "END_TIME_ANOMALY" /\ reason # gated -> Recent(time)
                 [] OTHER -> Recent(time) \cup {time}
        /\ rows' = Append(rows, [run |-> run, turn |-> time, reason |-> reason])
        /\ pc' = NextWrite("decide")
        /\ UNCHANGED <<process, files, mismatch, lastError, lastSuccess, succeeded>>

\* A write of the three raised: it is logged, and the turn is over.
ArtifactWriteFails ==
    /\ pc \in {"journal", "summary", "health"}
    /\ lastError' = TRUE
    /\ pc' = "decide"
    /\ UNCHANGED <<process, files, turn, rows, cancelStamps, mismatch, lastSuccess, succeeded>>

\* atomic_write_csv_bounded: the first line of a journal that is there already
\* stays its header, be it a row of a file that lost its header.  A journal that
\* cannot be read (its permissions, its encoding, the csv reader) is passed over.
KeptHeader(readable) ==
    LET old == files["own"].journal
    IN  IF old = Absent \/ ~ readable THEN "artifact"
        ELSE IF old.header # "none" THEN old.header
        ELSE IF old.rows = <<>> THEN "artifact" ELSE "row"

MutMismatched(readable) == KeptHeader(readable) = "trade"   \* the other known schema only
Mismatched(readable) == KeptHeader(readable) # "artifact"

\* Under a header that is a row no value has its column: every row is blank.
Blank == [run |-> 0, turn |-> 0, reason |-> "any"]
Recorded(header, newest) ==
    IF header = "row" THEN [i \in DOMAIN newest |-> Blank] ELSE newest

WriteJournal(readable) ==
    /\ pc = "journal"
    /\ LET header == KeptHeader(readable) IN
       Write("own", "journal", [header |-> header, whole |-> TRUE,
                                rows |-> Recorded(header, Newest(rows))])
    /\ mismatch' = Mismatched(readable)
    /\ pc' = NextWrite(pc)
    /\ UNCHANGED <<process, memory, turn, succeeded>>

WriteSummary ==
    /\ pc = "summary"
    /\ Write("own", "summary", [by |-> "enhanced", run |-> run, turn |-> turn, whole |-> TRUE,
                                reason |-> rows[Len(rows)].reason])
    /\ pc' = NextWrite(pc)
    /\ UNCHANGED <<process, memory, turn, mismatch, succeeded>>

WriteHealth ==
    /\ pc = "health"
    /\ Write("own", "health", [run |-> run, turn |-> turn, whole |-> TRUE, mismatch |-> mismatch,
                               failed |-> lastError, success |-> lastSuccess])
    /\ lastSuccess' = turn
    /\ pc' = NextWrite(pc)
    /\ UNCHANGED <<process, turn, rows, cancelStamps, mismatch, lastError, succeeded>>

------------------------------------------------------------------------------
\* A market was selected and the strategy starts: TradeJournal creates the
\* file, then writes its header, only when there is no file.
OpenJournal ==
    /\ pc = "open"
    /\ IF files["own"].journal = Absent
       THEN /\ Write("own", "journal", [header |-> "none", rows |-> <<>>, whole |-> FALSE])
            /\ pc' = "header"
       ELSE pc' = "append" /\ UNCHANGED files
    /\ UNCHANGED <<process, memory, turn, mismatch, succeeded>>

WriteHeader ==
    /\ pc = "header"
    /\ Write("own", "journal", [header |-> "trade", rows |-> <<>>, whole |-> TRUE])
    /\ pc' = "append"
    /\ UNCHANGED <<process, memory, turn, mismatch, succeeded>>

\* record_decision, whatever the header of the file.
AppendRow ==
    /\ pc = "append" /\ turn < MaxTurns
    /\ turn' = turn + 1
    /\ files' = [files EXCEPT !["own"].journal.rows =
                    Append(@, [run |-> run, turn |-> turn + 1, reason |-> "any"])]
    /\ UNCHANGED <<process, memory, pc, mismatch, succeeded>>

MutPublishes(ok) == TRUE            \* the return code is not looked at
Publishes(ok) == ok

\* The strategy ends: with 0 after a turn at least, with another code anywhere.
StrategyEnds(ok) ==
    /\ pc \in {"open", "header", "append"}
    /\ ok => pc = "append" /\ turn > 0
    /\ succeeded' = IF ok THEN [succeeded EXCEPT ![run] = turn] ELSE succeeded
    /\ pc' = IF ~ Publishes(ok) THEN "idle" ELSE IF aliased THEN "publish" ELSE "copy"
    /\ UNCHANGED <<process, memory, files, turn, mismatch>>

\* shutil.copy truncates the target and fills it piece by piece.
CopyBegins ==
    /\ pc = "copy"
    /\ Write("published", "journal", [header |-> "none", rows |-> <<>>, whole |-> FALSE])
    /\ pc' = "copying"
    /\ UNCHANGED <<process, memory, turn, mismatch, succeeded>>

CopyPiece ==
    LET source == files["own"].journal
        target == files["published"].journal
    IN  /\ pc = "copying"
        /\ \E n \in Len(target.rows) .. Len(source.rows) :
              Write("published", "journal", [header |-> source.header, whole |-> FALSE,
                                             rows |-> SubSeq(source.rows, 1, n)])
        /\ UNCHANGED <<process, memory, pc, turn, mismatch, succeeded>>

CopyEnds ==
    /\ pc = "copying"
    /\ Write("published", "journal", files["own"].journal)
    /\ pc' = "publish"
    /\ UNCHANGED <<process, memory, turn, mismatch, succeeded>>

\* "Copy failed (non-fatal)": the summary is published all the same, beside what
\* has been copied.
CopyFails ==
    /\ pc \in {"copy", "copying"}
    /\ pc' = "publish"
    /\ UNCHANGED <<process, memory, files, turn, mismatch, succeeded>>

ServiceSummary(whole) ==
    [by |-> "service", run |-> run, turn |-> turn, whole |-> whole, reason |-> "any"]

SummaryBegins ==
    /\ pc = "publish"
    /\ Write(Published, "summary", ServiceSummary(FALSE))
    /\ pc' = "publishing"
    /\ UNCHANGED <<process, memory, turn, mismatch, succeeded>>

SummaryEnds ==
    /\ pc = "publishing"
    /\ Write(Published, "summary", ServiceSummary(TRUE))
    /\ pc' = "idle"
    /\ UNCHANGED <<process, memory, turn, mismatch, succeeded>>

\* The bound on the runs is reached.
Bounded == pc = "idle" /\ run = MaxRuns /\ UNCHANGED vars

Next ==
    \/ \E p \in {"enhanced", "service"} : Start(p)
    \/ Stop
    \/ \E shock \in BOOLEAN : Decide(shock)
    \/ \E readable \in BOOLEAN : WriteJournal(readable)
    \/ ArtifactWriteFails \/ WriteSummary \/ WriteHealth
    \/ OpenJournal \/ WriteHeader \/ AppendRow
    \/ \E ok \in BOOLEAN : StrategyEnds(ok)
    \/ CopyBegins \/ CopyPiece \/ CopyEnds \/ CopyFails \/ SummaryBegins \/ SummaryEnds
    \/ Bounded

Spec == Init /\ [][Next]_vars

------------------------------------------------------------------------------
NotAfter(a, b) == a.run < b.run \/ (a.run = b.run /\ a.turn <= b.turn)
LastRow(journal) == journal.rows[Len(journal.rows)]

\* Read health, then summary, then journal, at any moment, between any two
\* writes and after any crash: each is at least as new as the one before it,
\* and the summary tells the decision that its row tells; unless the journal
\* lost its header, which the flag tells.
HealthFollowsJournal ==
    LET own == files["own"] IN
    own.health # Absent =>
        /\ own.summary # Absent /\ own.journal # Absent
        /\ NotAfter(own.health, own.summary)
        /\ own.journal.rows # <<>>
        /\ own.journal.header # "row" =>
            /\ NotAfter(own.summary, LastRow(own.journal))
            /\ \A i \in DOMAIN own.journal.rows :
                LET row == own.journal.rows[i] IN
                row.run = own.summary.run /\ row.turn = own.summary.turn =>
                    row.reason = own.summary.reason

\* Whenever the health file is renewed the journal holds exactly the newest
\* rows of the run, up to this turn, none missing: what earlier turns failed to
\* write has been made up for, and the failure is still told.  If the rows are
\* blank for want of a header, the file says so.
HealthMeansComplete ==
    [][files'["own"].health # files["own"].health =>
        LET written == files'["own"].journal.rows
            last    == files'["own"].health
            missing == last.turn - Len(written)
        IN  /\ Len(written) = last.turn \/ (Len(written) = MaxRows /\ MaxRows > 0)
            /\ \A i \in DOMAIN written :
                \/ written[i].run = run /\ written[i].turn = missing + i
                \/ last.mismatch /\ files'["own"].journal.header = "row"
            /\ last.success # last.turn - 1 => last.failed]_vars

\* A reader may trust schema_mismatch, whichever program created the journal and
\* however it was cut short.  FALSE: the journal has the artifacts' columns, and
\* keeps them.  TRUE: it has not, unless its last row is newer than the health
\* file: a later turn could not read it and wrote it anew under its own header.
MismatchFlagIsTrue ==
    LET journal == files["own"].journal
        health  == files["own"].health
    IN  health # Absent =>
            /\ journal # Absent
            /\ ~ health.mismatch => journal.header = "artifact"
            /\ health.mismatch /\ journal.header = "artifact" =>
                journal.rows # <<>> /\ ~ NotAfter(LastRow(journal), health)

\* What the service publishes.  A summary is of a run whose strategy returned 0;
\* where both directories are one, the journal beside it has got as far.  A copy
\* of the journal that was not cut short ends with the last row of such a run,
\* and no row of any copy is of a run after the last such run: rows of failed
\* runs are published by a later success, never before.
PublicationIsSound ==
    LET own  == files["own"]
        copy == files["published"].journal
    IN  /\ \A dir \in DOMAIN files :
            LET summary == files[dir].summary IN
            summary # Absent /\ summary.by = "service" => succeeded[summary.run] = summary.turn
        /\ own.summary # Absent /\ own.summary.by = "service" =>
            /\ own.journal # Absent /\ own.journal.rows # <<>>
            /\ own.journal.header # "row" => NotAfter(own.summary, LastRow(own.journal))
        /\ copy # Absent =>
            /\ copy.whole =>
                /\ copy.rows # <<>>
                /\ LastRow(copy).turn = succeeded[LastRow(copy).run]
            /\ \A i \in DOMAIN copy.rows : \E later \in DOMAIN succeeded :
                copy.rows[i].run <= later /\ succeeded[later] > 0

\* The contract of the artifacts: readers always see a complete file.
ReadersSeeCompleteFiles ==
    \A dir \in DOMAIN files : \A name \in DOMAIN files[dir] :
        files[dir][name] # Absent => files[dir][name].whole
==============================================================================
