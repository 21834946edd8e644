---------------------------- MODULE ArtifactsProofs ----------------------------
(***************************************************************************)
(* Theorems about ShadowArtifacts, for any bounds on rows, turns and runs. *)
(* Every action touches at most one file; WriteKeeps says so once, and the *)
(* proofs below speak of the three files that carry the argument.          *)
(***************************************************************************)
EXTENDS ShadowArtifacts, TLAPS

Dirs == {"own", "published"}
Names == {"journal", "summary", "health"}

FilesOK ==
    /\ files = [dir \in Dirs |-> [name \in Names |-> files[dir][name]]]
    /\ \A dir \in Dirs :
        /\ files[dir]["journal"] \in JournalFile \cup {Absent}
        /\ files[dir]["summary"] \in SummaryFile \cup {Absent}
        /\ files[dir]["health"] \in HealthFile \cup {Absent}

EnhancedPcs == {"decide", "journal", "summary", "health"}
ServicePcs == {"open", "header", "append", "copy", "copying", "publish", "publishing"}

StateOK ==
    /\ aliased \in BOOLEAN
    /\ program \in {"none", "enhanced", "service"}
    /\ pc \in {"idle"} \cup EnhancedPcs \cup ServicePcs
    /\ run \in Nat /\ turn \in Nat /\ marketEnd \in Nat
    /\ rows \in Seq(Row) /\ cancelStamps \subseteq Nat
    /\ mismatch \in BOOLEAN /\ lastError \in BOOLEAN /\ lastSuccess \in Nat
    /\ succeeded \in Seq(Nat) /\ Len(succeeded) = run

\* What a stage presupposes of what was done before it.
Stages ==
    /\ pc \in EnhancedPcs => program = "enhanced"
    /\ pc \in ServicePcs => program = "service" /\ run > 0
    /\ pc \in {"journal", "summary", "health"} => rows # <<>>
    /\ pc \in {"header", "append", "copying"} \cup {"copy"} =>
            files["own"]["journal"] # Absent
    /\ pc = "copying" => files["published"]["journal"] # Absent

TypeOK == StateOK /\ FilesOK /\ Stages

\* The service's turns are at the end of its journal; what it has published
\* is of runs before the one that is still deciding.
Deciding == {"open", "header", "append"}
OwnRowsInv ==
    /\ pc \in {"open", "header"} => turn = 0
    /\ pc \in {"append", "copy", "copying"} /\ turn > 0 =>
        LET journal == files["own"]["journal"] IN
        /\ journal.rows # <<>>
        /\ LastRow(journal).run = run /\ LastRow(journal).turn = turn
    /\ pc \in ServicePcs \ Deciding => turn > 0 /\ succeeded[run] = turn

Settled(of, at) ==
    /\ of \in 1..run /\ at = succeeded[of]
    /\ pc \in Deciding => of < run

\* A run at or after it has returned 0.
Reached(of) == \E later \in 1..run : of <= later /\ succeeded[later] > 0

SummariesInv ==
    \A dir \in Dirs : LET summary == files[dir]["summary"] IN
        summary # Absent /\ summary.by = "service" => Settled(summary.run, summary.turn)

CopyInv ==
    LET copy == files["published"]["journal"] IN
    copy # Absent =>
        /\ copy.whole =>
            copy.rows # <<>> /\ Settled(LastRow(copy).run, LastRow(copy).turn)
        /\ \A i \in DOMAIN copy.rows : Reached(copy.rows[i].run)

PublishInv == OwnRowsInv /\ SummariesInv /\ CopyInv

\* The runner's rows are its turns, one each, and a turn that the health file
\* does not know of has left the error behind.
MemoryInv ==
    pc \in EnhancedPcs =>
        /\ Len(rows) = turn
        /\ \A i \in DOMAIN rows : rows[i].run = run /\ rows[i].turn = i
        /\ lastSuccess # (IF pc = "decide" THEN turn ELSE turn - 1) => lastError

\* The journal has no row of a later run; the runner's holds its newest rows,
\* the service's ends with its latest turn.
JournalInv ==
    LET journal == files["own"]["journal"] IN
    /\ journal # Absent => \A i \in DOMAIN journal.rows :
            /\ journal.rows[i].run <= run
            /\ pc \in ServicePcs /\ journal.rows[i].run = run => journal.rows[i].reason = "any"
    /\ pc \in {"summary", "health"} =>
            journal # Absent /\ journal.rows = Recorded(journal.header, Newest(rows))
    /\ pc \in ServicePcs /\ turn > 0 =>
            /\ journal # Absent /\ journal.rows # <<>>
            /\ LastRow(journal).run = run /\ LastRow(journal).turn = turn

\* A summary and the journal beside it.
Agree(summary, journal) ==
    /\ NotAfter(summary, LastRow(journal))
    /\ \A i \in DOMAIN journal.rows :
            journal.rows[i].run = summary.run /\ journal.rows[i].turn = summary.turn =>
                journal.rows[i].reason = summary.reason

\* The summary follows the journal at every stage of either program.
SummaryInv ==
    LET journal == files["own"]["journal"]
        summary == files["own"]["summary"]
    IN  /\ pc = "header" => summary = Absent
        /\ pc = "health" =>
                summary # Absent /\ summary.run = run /\ summary.turn = turn
        /\ summary # Absent =>
            /\ journal # Absent /\ journal.rows # <<>>
            /\ summary.run <= run
            /\ pc \in ServicePcs \ {"publishing"} => summary.run < run
            /\ pc \in EnhancedPcs /\ summary.run = run =>
                    summary.turn \in DOMAIN rows /\ summary.reason = rows[summary.turn].reason
            /\ journal.header # "row" => Agree(summary, journal)

\* The health file follows the summary.
HealthInv ==
    LET summary == files["own"]["summary"]
        health  == files["own"]["health"]
    IN  health # Absent =>
            /\ summary # Absent /\ NotAfter(health, summary)
            /\ health.run <= run
            /\ pc \in EnhancedPcs /\ health.run = run =>
                    health.turn <= turn /\ (pc # "decide" => health.turn < turn)
            /\ pc \in ServicePcs => health.run < run

FollowInv == MemoryInv /\ JournalInv /\ SummaryInv /\ HealthInv

\* The runner writes health after a journal with a known header, and only the
\* creation of a journal, which nothing deletes, gives it another, or a turn that
\* cannot read it: the artifacts' own, in a row newer than the health file.
FlagInv ==
    LET journal == files["own"]["journal"]
        health  == files["own"]["health"]
    IN  /\ pc = "header" => health = Absent
        /\ pc \in {"summary", "health"} =>
            /\ journal # Absent /\ journal.header # "none"
            /\ mismatch = (journal.header # "artifact")
        /\ health # Absent =>
            /\ journal # Absent /\ journal.header # "none"
            /\ ~ health.mismatch => journal.header = "artifact"
            /\ health.mismatch /\ journal.header = "artifact" =>
                journal.rows # <<>> /\ ~ NotAfter(LastRow(journal), health)

------------------------------------------------------------------------------
Fits(name, content) ==
    /\ name = "journal" => content \in JournalFile
    /\ name = "summary" => content \in SummaryFile
    /\ name = "health" => content \in HealthFile

\* A write changes its file and no other.
LEMMA WriteKeeps ==
    ASSUME FilesOK, NEW dir \in Dirs, NEW name \in Names,
           NEW content, Fits(name, content), Write(dir, name, content)
    PROVE  /\ FilesOK'
           /\ files'[dir][name] = content
           /\ \A d \in Dirs, n \in Names :
                d # dir \/ n # name => files'[d][n] = files[d][n]
<1>1. DOMAIN files = Dirs /\ \A d \in Dirs : DOMAIN files[d] = Names
    BY DEF FilesOK
<1>2. files' = [files EXCEPT ![dir][name] = content]
    BY DEF Write
<1>3. DOMAIN files' = Dirs /\ \A d \in Dirs : DOMAIN files'[d] = Names
    BY <1>1, <1>2
<1>4. /\ files'[dir][name] = content
      /\ \A d \in Dirs, n \in Names :
            d # dir \/ n # name => files'[d][n] = files[d][n]
    BY <1>1, <1>2
<1>5. files' = [d \in Dirs |-> [n \in Names |-> files'[d][n]]]
  <2>1. \A d \in Dirs : files'[d] = [n \in Names |-> files'[d][n]]
    <3>1. \A d \in Dirs : files[d] = [n \in Names |-> files[d][n]]
        BY DEF FilesOK
    <3>2. TAKE d \in Dirs
    <3>3. CASE d = dir
        BY <1>1, <1>2, <3>1, <3>3
    <3>4. CASE d # dir
        BY <1>1, <1>2, <3>1, <3>4
    <3>5. QED BY <3>3, <3>4
  <2>2. QED BY <1>1, <1>2, <1>3, <2>1 DEF FilesOK
<1>6. ASSUME NEW d \in Dirs
      PROVE  /\ files'[d]["journal"] \in JournalFile \cup {Absent}
             /\ files'[d]["summary"] \in SummaryFile \cup {Absent}
             /\ files'[d]["health"] \in HealthFile \cup {Absent}
  <2>1. {"journal", "summary", "health"} = Names
      BY DEF Names
  <2>2. QED BY <1>4, <2>1 DEF FilesOK, Fits
<1>7. QED BY <1>4, <1>5, <1>6 DEF FilesOK

\* Trimming and blanking rows gives rows, and some when there were some.
LEMMA TrimmedRows ==
    ASSUME NEW all \in Seq(Row), NEW header \in Headers
    PROVE  /\ Newest(all) \in Seq(Row)
           /\ Recorded(header, Newest(all)) \in Seq(Row)
<1>1. MaxRows \in Nat
    BY ArtifactsAssumption
<1>2. Newest(all) \in Seq(Row)
    BY <1>1 DEF Newest
<1>3. ASSUME NEW some \in Seq(Row) PROVE [i \in DOMAIN some |-> Blank] \in Seq(Row)
  <2>1. Blank \in Row
      BY DEF Blank, Row, Reasons
  <2>2. DOMAIN some = 1..Len(some) /\ Len(some) \in Nat
      OBVIOUS
  <2>3. QED BY <2>1, <2>2
<1>4. QED BY <1>2, <1>3 DEF Recorded

\* The header a journal gets, or keeps, is known.
LEMMA HeaderKnown ==
    ASSUME FilesOK, NEW readable \in BOOLEAN
    PROVE  KeptHeader(readable) \in Headers \ {"none"}
<1>1. files["own"]["journal"] \in JournalFile \cup {Absent}
    BY DEF FilesOK, Dirs
<1>2. QED BY <1>1 DEF KeptHeader, JournalFile, Headers

\* The runner replaces the journal under that header.
LEMMA JournalReplaced ==
    ASSUME TypeOK, NEW readable \in BOOLEAN, WriteJournal(readable)
    PROVE  LET header == KeptHeader(readable)
               content == [header |-> header, whole |-> TRUE,
                           rows |-> Recorded(header, Newest(rows))]
           IN  /\ header \in Headers \ {"none"} /\ rows \in Seq(Row)
               /\ content \in JournalFile /\ Write("own", "journal", content)
<1>1. KeptHeader(readable) \in Headers \ {"none"} /\ rows \in Seq(Row)
    BY HeaderKnown DEF TypeOK, StateOK
<1>2. Recorded(KeptHeader(readable), Newest(rows)) \in Seq(Row)
    BY <1>1, TrimmedRows
<1>3. [header |-> KeptHeader(readable), whole |-> TRUE,
       rows |-> Recorded(KeptHeader(readable), Newest(rows))] \in JournalFile
    BY <1>1, <1>2 DEF JournalFile
<1>4. QED BY <1>1, <1>3 DEF WriteJournal

\* A piece of the copy is a beginning of the journal.
LEMMA PieceCopied ==
    ASSUME TypeOK, CopyPiece
    PROVE  LET own == files["own"]["journal"] IN
           \E piece \in JournalFile :
               /\ Write("published", "journal", piece) /\ piece.whole = FALSE
               /\ own \in JournalFile /\ DOMAIN piece.rows \subseteq DOMAIN own.rows
               /\ \A i \in DOMAIN piece.rows : piece.rows[i] = own.rows[i]
<1> DEFINE own == files["own"]["journal"]
           target == files["published"]["journal"]
<1>1. own \in JournalFile /\ target \in JournalFile
    BY DEF TypeOK, FilesOK, Stages, CopyPiece, Dirs
<1>2. own.header \in Headers /\ own.rows \in Seq(Row) /\ target.rows \in Seq(Row)
    BY <1>1 DEF JournalFile
<1>3. PICK n \in Len(target.rows) .. Len(own.rows) :
        Write("published", "journal", [header |-> own.header, whole |-> FALSE,
                                       rows |-> SubSeq(own.rows, 1, n)])
    BY DEF CopyPiece
<1> DEFINE some == SubSeq(own.rows, 1, n)
           piece == [header |-> own.header, whole |-> FALSE, rows |-> some]
<1>4. n \in 0..Len(own.rows) /\ DOMAIN own.rows = 1..Len(own.rows)
    BY <1>2
<1>5. /\ some \in Seq(Row) /\ DOMAIN some \subseteq DOMAIN own.rows
      /\ \A i \in DOMAIN some : some[i] = own.rows[i]
    BY <1>2, <1>4
<1>6. Write("published", "journal", piece)
    BY <1>3
<1> HIDE DEF own, some
<1>7. piece \in JournalFile /\ piece.whole = FALSE /\ piece.rows = some
    BY <1>2, <1>5 DEF JournalFile
<1> HIDE DEF piece
<1>8. QED BY <1>1, <1>5, <1>6, <1>7 DEF own

\* A row appended to the journal is a write of that file.
LEMMA AppendIsWrite ==
    ASSUME TypeOK, AppendRow
    PROVE  LET old == files["own"]["journal"]
               row == [run |-> run, turn |-> turn + 1, reason |-> "any"]
               new == [old EXCEPT !.rows = Append(@, row)]
           IN  /\ row \in Row /\ old \in JournalFile /\ new \in JournalFile
               /\ new.header = old.header /\ new.whole = old.whole
               /\ new.rows = Append(old.rows, row)
               /\ Write("own", "journal", new)
<1> DEFINE old == files["own"]["journal"]
           row == [run |-> run, turn |-> turn + 1, reason |-> "any"]
           new == [old EXCEPT !.rows = Append(@, row)]
<1>1. row \in Row
    BY DEF TypeOK, StateOK, Row, Reasons
<1>2. old \in JournalFile
    BY DEF TypeOK, FilesOK, Stages, AppendRow, Dirs
<1>3. /\ new \in JournalFile
      /\ new.header = old.header /\ new.whole = old.whole
      /\ new.rows = Append(old.rows, row)
  <2> DEFINE longer == Append(old.rows, row)
  <2> HIDE DEF row
  <2>1. old.header \in Headers /\ old.whole \in BOOLEAN /\ old.rows \in Seq(Row)
      BY <1>2 DEF JournalFile
  <2>2. longer \in Seq(Row)
      BY <1>1, <2>1
  <2> HIDE DEF old, longer
  <2>3. [old EXCEPT !.rows = longer] =
            [header |-> old.header, whole |-> old.whole, rows |-> longer]
      BY <1>2 DEF JournalFile
  <2>4. [header |-> old.header, whole |-> old.whole, rows |-> longer] \in JournalFile
      BY <2>1, <2>2 DEF JournalFile
  <2>5. new = [old EXCEPT !.rows = longer]
      BY DEF longer
  <2>6. QED BY <2>3, <2>4, <2>5 DEF longer
<1>4. Write("own", "journal", new)
    BY DEF AppendRow, Write
<1>5. QED BY <1>1, <1>2, <1>3, <1>4

------------------------------------------------------------------------------
\* Every step keeps the types and what a stage presupposes.
LEMMA TypeStep ==
    ASSUME TypeOK, [Next]_vars
    PROVE  TypeOK'
<1> USE DEF TypeOK
<1> USE DEF EnhancedPcs, ServicePcs
<1>a. /\ FilesOK
      /\ files["own"]["journal"] \in JournalFile \cup {Absent}
    BY DEF FilesOK, Dirs
<1>b. ASSUME UNCHANGED files PROVE FilesOK'
    BY <1>b DEF FilesOK
<1>c. ASSUME NEW content \in JournalFile, Write("own", "journal", content)
      PROVE  FilesOK' /\ files'["own"]["journal"] # Absent
    BY <1>a, <1>c, WriteKeeps, AbsentIsNoFile DEF Dirs, Names, Fits
<1>d. ASSUME NEW dir \in Dirs, NEW name \in {"summary", "health"},
             NEW content, Fits(name, content), Write(dir, name, content)
      PROVE  FilesOK' /\ files'["own"]["journal"] = files["own"]["journal"]
    BY <1>a, <1>d, WriteKeeps DEF Dirs, Names
<1>e. ASSUME NEW content \in JournalFile, Write("published", "journal", content)
      PROVE  /\ FilesOK' /\ files'["own"]["journal"] = files["own"]["journal"]
             /\ files'["published"]["journal"] # Absent
    BY <1>a, <1>e, WriteKeeps, AbsentIsNoFile DEF Dirs, Names, Fits
<1>f. Published \in Dirs
    BY DEF Published, Dirs
<1>1. ASSUME NEW p \in {"enhanced", "service"}, Start(p) PROVE TypeOK'
  <2>1. marketEnd' \in Nat
      BY <1>1, ArtifactsAssumption DEF Start
  <2>2. succeeded' \in Seq(Nat) /\ Len(succeeded') = run'
      BY <1>1 DEF Start, StateOK
  <2>3. rows' \in Seq(Row) /\ cancelStamps' \subseteq Nat
    <3>1. <<>> \in Seq(Row)
        OBVIOUS
    <3>2. QED BY <1>1, <3>1 DEF Start
  <2>4. pc' \in {"decide", "open"} /\ run' \in Nat /\ turn' \in Nat
      BY <1>1 DEF Start, StateOK
  <2>5. mismatch' \in BOOLEAN /\ lastError' \in BOOLEAN /\ lastSuccess' \in Nat
      BY <1>1 DEF Start
  <2>6. aliased' \in BOOLEAN /\ program' \in {"enhanced", "service"}
      BY <1>1 DEF Start, StateOK
  <2>7. StateOK'
      BY <2>1, <2>2, <2>3, <2>4, <2>5, <2>6 DEF StateOK
  <2>8. QED BY <1>1, <1>b, <2>7 DEF Start, Stages, StateOK
<1>2. ASSUME Stop PROVE TypeOK'
    BY <1>2, <1>b DEF Stop, StateOK, Stages, process, memory
<1>3. ASSUME NEW shock \in BOOLEAN, Decide(shock) PROVE TypeOK'
  <2> DEFINE time == turn + 1
             gated == Gated(Evaluated(time), shock)
             verdict == Limited(gated, time)
             row == [run |-> run, turn |-> time, reason |-> verdict]
  <2>1. verdict \in Reasons
      BY DEF Limited, Gated, Evaluated, Reasons
  <2>2. turn' = time /\ time \in Nat /\ pc' = NextWrite("decide")
      BY <1>3 DEF Decide, StateOK
  <2>3. rows' = Append(rows, row)
      BY <1>3 DEF Decide
  <2>4. row \in Row
      BY <2>1, <2>2 DEF Row, StateOK
  <2>5. rows' \in Seq(Row) /\ rows' # <<>>
      BY <2>3, <2>4 DEF StateOK
  <2>6. cancelStamps' \subseteq cancelStamps \cup {time}
      BY <1>3 DEF Decide, Recent
  <2>7. pc' = "journal" /\ pc = "decide"
      BY <1>3, <2>2 DEF Decide, NextWrite
  <2>8. StateOK'
      BY <1>3, <2>2, <2>5, <2>6, <2>7 DEF Decide, StateOK, process
  <2>9. Stages'
      BY <1>3, <2>5, <2>7 DEF Decide, Stages, process
  <2>10. QED BY <1>3, <1>b, <2>8, <2>9 DEF Decide
<1>4. ASSUME ArtifactWriteFails PROVE TypeOK'
    BY <1>4, <1>b DEF ArtifactWriteFails, StateOK, Stages, process
<1>5. ASSUME NEW readable \in BOOLEAN, WriteJournal(readable) PROVE TypeOK'
  <2> DEFINE content == [header |-> KeptHeader(readable), whole |-> TRUE,
                         rows |-> Recorded(KeptHeader(readable), Newest(rows))]
  <2>1. content \in JournalFile /\ Write("own", "journal", content)
      BY <1>5, JournalReplaced
  <2>2. FilesOK' /\ files'["own"]["journal"] # Absent
      BY <1>c, <2>1
  <2>3. pc' = "summary"
      BY <1>5 DEF WriteJournal, NextWrite
  <2>4. StateOK'
      BY <1>5, <2>3 DEF WriteJournal, StateOK, process, memory, Mismatched
  <2>5. QED BY <1>5, <2>2, <2>3, <2>4 DEF WriteJournal, Stages, process, memory
<1>6. ASSUME WriteSummary PROVE TypeOK'
  <2> DEFINE content == [by |-> "enhanced", run |-> run, turn |-> turn, whole |-> TRUE,
                         reason |-> rows[Len(rows)].reason]
  <2>1. rows[Len(rows)] \in Row
      BY <1>6 DEF WriteSummary, StateOK, Stages
  <2>2. content \in SummaryFile
      BY <2>1 DEF SummaryFile, Row, StateOK
  <2>3. Write("own", "summary", content)
      BY <1>6 DEF WriteSummary
  <2>4. FilesOK' /\ files'["own"]["journal"] = files["own"]["journal"]
      BY <1>d, <2>2, <2>3 DEF Fits, Dirs
  <2>5. pc' = "health"
      BY <1>6 DEF WriteSummary, NextWrite
  <2>6. StateOK'
      BY <1>6, <2>5 DEF WriteSummary, StateOK, process, memory
  <2>7. QED BY <1>6, <2>4, <2>5, <2>6 DEF WriteSummary, Stages, process, memory
<1>7. ASSUME WriteHealth PROVE TypeOK'
  <2> DEFINE content == [run |-> run, turn |-> turn, whole |-> TRUE, mismatch |-> mismatch,
                         failed |-> lastError, success |-> lastSuccess]
  <2>1. content \in HealthFile
      BY DEF HealthFile, StateOK
  <2>2. Write("own", "health", content)
      BY <1>7 DEF WriteHealth
  <2>3. FilesOK' /\ files'["own"]["journal"] = files["own"]["journal"]
      BY <1>d, <2>1, <2>2 DEF Fits, Dirs
  <2>4. pc' = "decide"
      BY <1>7 DEF WriteHealth, NextWrite
  <2>5. StateOK'
      BY <1>7, <2>4 DEF WriteHealth, StateOK, process
  <2>6. QED BY <1>7, <2>3, <2>4, <2>5 DEF WriteHealth, Stages, process
<1>8. ASSUME OpenJournal PROVE TypeOK'
  <2>1. StateOK'
      BY <1>8 DEF OpenJournal, StateOK, process, memory
  <2>2. CASE files["own"]["journal"] = Absent
    <3>1. [header |-> "none", rows |-> <<>>, whole |-> FALSE] \in JournalFile
        BY DEF JournalFile, Headers
    <3>2. Write("own", "journal", [header |-> "none", rows |-> <<>>, whole |-> FALSE])
        BY <1>8, <2>2 DEF OpenJournal
    <3>3. QED BY <1>8, <1>c, <2>1, <2>2, <3>1, <3>2 DEF OpenJournal, Stages, process, memory
  <2>3. CASE files["own"]["journal"] # Absent
      BY <1>8, <1>b, <2>1, <2>3 DEF OpenJournal, Stages, process, memory
  <2>4. QED BY <2>2, <2>3
<1>9. ASSUME WriteHeader PROVE TypeOK'
  <2>1. [header |-> "trade", rows |-> <<>>, whole |-> TRUE] \in JournalFile
      BY DEF JournalFile, Headers
  <2>2. Write("own", "journal", [header |-> "trade", rows |-> <<>>, whole |-> TRUE])
      BY <1>9 DEF WriteHeader
  <2>3. StateOK'
      BY <1>9 DEF WriteHeader, StateOK, process, memory
  <2>4. QED BY <1>9, <1>c, <2>1, <2>2, <2>3 DEF WriteHeader, Stages, process, memory
<1>10. ASSUME AppendRow PROVE TypeOK'
  <2> DEFINE row == [run |-> run, turn |-> turn + 1, reason |-> "any"]
             content == [files["own"]["journal"] EXCEPT !.rows = Append(@, row)]
  <2>1. content \in JournalFile /\ Write("own", "journal", content)
      BY <1>10, AppendIsWrite
  <2>2. StateOK'
      BY <1>10 DEF AppendRow, StateOK, process, memory
  <2> HIDE DEF content
  <2>3. QED BY <1>10, <1>c, <2>1, <2>2 DEF AppendRow, Stages, process, memory
<1>11. ASSUME NEW ok \in BOOLEAN, StrategyEnds(ok) PROVE TypeOK'
  <2>1. run \in 1..Len(succeeded)
      BY <1>11 DEF StrategyEnds, StateOK, Stages
  <2>2. succeeded' \in Seq(Nat) /\ Len(succeeded') = Len(succeeded)
      BY <1>11, <2>1 DEF StrategyEnds, StateOK
  <2>3. StateOK'
      BY <1>11, <2>2 DEF StrategyEnds, StateOK, process, memory
  <2>4. QED BY <1>11, <1>b, <2>3 DEF StrategyEnds, Publishes, Stages, process, memory
<1>12. ASSUME CopyBegins PROVE TypeOK'
  <2>1. [header |-> "none", rows |-> <<>>, whole |-> FALSE] \in JournalFile
      BY DEF JournalFile, Headers
  <2>2. Write("published", "journal", [header |-> "none", rows |-> <<>>, whole |-> FALSE])
      BY <1>12 DEF CopyBegins
  <2>3. StateOK'
      BY <1>12 DEF CopyBegins, StateOK, process, memory
  <2>4. QED BY <1>12, <1>e, <2>1, <2>2, <2>3 DEF CopyBegins, Stages, process, memory
<1>12p. ASSUME CopyPiece PROVE TypeOK'
  <2>1. PICK piece \in JournalFile : Write("published", "journal", piece)
      BY <1>12p, PieceCopied
  <2>2. StateOK'
      BY <1>12p DEF CopyPiece, StateOK, process, memory
  <2>3. QED BY <1>12p, <1>e, <2>1, <2>2 DEF CopyPiece, Stages, process, memory
<1>13. ASSUME CopyEnds PROVE TypeOK'
  <2>1. files["own"]["journal"] \in JournalFile
      BY <1>13, <1>a DEF CopyEnds, Stages
  <2>2. Write("published", "journal", files["own"]["journal"])
      BY <1>13 DEF CopyEnds
  <2>3. StateOK'
      BY <1>13 DEF CopyEnds, StateOK, process, memory
  <2>4. QED BY <1>13, <1>e, <2>1, <2>2, <2>3 DEF CopyEnds, Stages, process, memory
<1>14. ASSUME CopyFails PROVE TypeOK'
    BY <1>14, <1>b DEF CopyFails, StateOK, Stages, process, memory
<1>15. ASSUME NEW whole \in BOOLEAN, Write(Published, "summary", ServiceSummary(whole))
       PROVE  FilesOK' /\ files'["own"]["journal"] = files["own"]["journal"]
  <2>1. ServiceSummary(whole) \in SummaryFile
      BY DEF ServiceSummary, SummaryFile, Reasons, StateOK
  <2>2. QED BY <1>15, <1>d, <1>f, <2>1 DEF Fits
<1>16. ASSUME SummaryBegins PROVE TypeOK'
    BY <1>15, <1>16 DEF SummaryBegins, StateOK, Stages, process, memory
<1>17. ASSUME SummaryEnds PROVE TypeOK'
    BY <1>15, <1>17 DEF SummaryEnds, StateOK, Stages, process, memory
<1>18. ASSUME UNCHANGED vars PROVE TypeOK'
    BY <1>18, <1>b DEF vars, process, memory, StateOK, Stages
<1>19. QED
    BY <1>1, <1>2, <1>3, <1>4, <1>5, <1>6, <1>7, <1>8, <1>9, <1>10, <1>11, <1>12, <1>13,
       <1>14, <1>16, <1>17, <1>18, <1>12p DEF Next, Bounded

\* For all bounds, the runner's state, the journal, summary and health files
\* stay well typed, and each stage finds done what it presupposes.
THEOREM ArtifactsTypeCorrect == Spec => []TypeOK
<1>1. Init => TypeOK
  <2>1. ASSUME Init PROVE FilesOK
      BY <2>1 DEF Init, FilesOK, Dirs, Names
  <2>2. <<>> \in Seq(Row) /\ <<>> \in Seq(Nat) /\ {} \subseteq Nat
      OBVIOUS
  <2>3. ASSUME Init PROVE StateOK
      BY <2>2, <2>3 DEF Init, StateOK
  <2>4. ASSUME Init PROVE Stages
      BY <2>4 DEF Init, Stages, EnhancedPcs, ServicePcs
  <2>5. QED BY <2>1, <2>3, <2>4 DEF TypeOK
<1>2. TypeOK /\ [Next]_vars => TypeOK'
    BY TypeStep
<1>3. QED BY <1>1, <1>2, PTL DEF Spec

------------------------------------------------------------------------------
\* What a write of one file leaves of the other two beside it.
LEMMA JournalWritten ==
    ASSUME FilesOK, NEW content \in JournalFile, Write("own", "journal", content)
    PROVE  /\ files'["own"]["journal"] = content
           /\ files'["own"]["summary"] = files["own"]["summary"]
           /\ files'["own"]["health"] = files["own"]["health"]
<1>1. /\ "own" \in Dirs /\ "journal" \in Names /\ "summary" \in Names /\ "health" \in Names
      /\ Fits("journal", content)
    BY DEF Dirs, Names, Fits
<1>2. QED BY <1>1, WriteKeeps

LEMMA SummaryWritten ==
    ASSUME FilesOK, NEW content \in SummaryFile, Write("own", "summary", content)
    PROVE  /\ files'["own"]["journal"] = files["own"]["journal"]
           /\ files'["own"]["summary"] = content
           /\ files'["own"]["health"] = files["own"]["health"]
<1>1. /\ "own" \in Dirs /\ "journal" \in Names /\ "summary" \in Names /\ "health" \in Names
      /\ Fits("summary", content)
    BY DEF Dirs, Names, Fits
<1>2. QED BY <1>1, WriteKeeps

LEMMA HealthWritten ==
    ASSUME TypeOK, WriteHealth
    PROVE  /\ files'["own"]["journal"] = files["own"]["journal"]
           /\ files'["own"]["summary"] = files["own"]["summary"]
           /\ files'["own"]["health"] =
                [run |-> run, turn |-> turn, whole |-> TRUE, mismatch |-> mismatch,
                 failed |-> lastError, success |-> lastSuccess]
<1> DEFINE content == [run |-> run, turn |-> turn, whole |-> TRUE, mismatch |-> mismatch,
                       failed |-> lastError, success |-> lastSuccess]
<1>1. content \in HealthFile
    BY DEF HealthFile, TypeOK, StateOK
<1>2. Write("own", "health", content) /\ FilesOK
    BY DEF WriteHealth, TypeOK
<1> HIDE DEF content
<1>3. /\ "own" \in Dirs /\ "journal" \in Names /\ "summary" \in Names /\ "health" \in Names
      /\ Fits("health", content)
    BY <1>1 DEF Dirs, Names, Fits
<1>4. QED BY <1>2, <1>3, WriteKeeps DEF content

OwnFilesStay ==
    /\ files'["own"]["journal"] = files["own"]["journal"]
    /\ files'["own"]["summary"] = files["own"]["summary"]
    /\ files'["own"]["health"] = files["own"]["health"]

LEMMA WrittenElsewhere ==
    ASSUME FilesOK, NEW name \in Names, NEW content, Fits(name, content),
           Write("published", name, content)
    PROVE  OwnFilesStay
<1>1. /\ "own" \in Dirs /\ "published" \in Dirs /\ "own" # "published"
      /\ "journal" \in Names /\ "summary" \in Names /\ "health" \in Names
    BY DEF Dirs, Names
<1>2. QED BY <1>1, WriteKeeps DEF OwnFilesStay

\* The steps that do not touch the runner's directory, or only its summary.
LEMMA ServiceWrites ==
    ASSUME TypeOK
    PROVE  /\ CopyBegins => OwnFilesStay
           /\ CopyPiece => OwnFilesStay
           /\ CopyEnds => OwnFilesStay
           /\ \A whole \in BOOLEAN :
                Write(Published, "summary", ServiceSummary(whole)) =>
                    IF aliased
                    THEN /\ files'["own"]["summary"] = ServiceSummary(whole)
                         /\ files'["own"]["journal"] = files["own"]["journal"]
                         /\ files'["own"]["health"] = files["own"]["health"]
                    ELSE OwnFilesStay
<1>1. FilesOK /\ "journal" \in Names /\ "summary" \in Names /\ "own" \in Dirs
    BY DEF TypeOK, Names, Dirs
<1>2. ASSUME CopyBegins PROVE OwnFilesStay
  <2> DEFINE content == [header |-> "none", rows |-> <<>>, whole |-> FALSE]
  <2>1. content \in JournalFile
      BY DEF JournalFile, Headers
  <2>2. Write("published", "journal", content) /\ Fits("journal", content)
      BY <1>2, <2>1 DEF CopyBegins, Fits
  <2> HIDE DEF content
  <2>3. QED BY <1>1, <2>2, WrittenElsewhere
<1>3. ASSUME CopyEnds PROVE OwnFilesStay
  <2> DEFINE content == files["own"]["journal"]
  <2>1. content \in JournalFile
      BY <1>1, <1>3 DEF CopyEnds, TypeOK, Stages, FilesOK
  <2>2. Write("published", "journal", content) /\ Fits("journal", content)
      BY <1>3, <2>1 DEF CopyEnds, Fits
  <2> HIDE DEF content
  <2>3. QED BY <1>1, <2>2, WrittenElsewhere
<1>4. ASSUME NEW whole \in BOOLEAN, Write(Published, "summary", ServiceSummary(whole))
      PROVE  IF aliased
             THEN /\ files'["own"]["summary"] = ServiceSummary(whole)
                  /\ files'["own"]["journal"] = files["own"]["journal"]
                  /\ files'["own"]["health"] = files["own"]["health"]
             ELSE OwnFilesStay
  <2>1. ServiceSummary(whole) \in SummaryFile
      BY DEF ServiceSummary, SummaryFile, Reasons, TypeOK, StateOK
  <2>2. CASE aliased
    <3>1. Write("own", "summary", ServiceSummary(whole))
        BY <1>4, <2>2 DEF Published
    <3>2. QED BY <1>1, <2>1, <2>2, <3>1, SummaryWritten
  <2>3. CASE ~ aliased
    <3>1. Write("published", "summary", ServiceSummary(whole))
        BY <1>4, <2>3 DEF Published
    <3>2. Fits("summary", ServiceSummary(whole))
        BY <2>1 DEF Fits
    <3>3. QED BY <1>1, <2>3, <3>1, <3>2, WrittenElsewhere
  <2>4. QED BY <2>2, <2>3
<1>5. ASSUME CopyPiece PROVE OwnFilesStay
  <2>1. PICK piece \in JournalFile : Write("published", "journal", piece)
      BY <1>5, PieceCopied
  <2>2. Fits("journal", piece)
      BY DEF Fits
  <2>3. QED BY <1>1, <2>1, <2>2, WrittenElsewhere
<1>6. QED BY <1>2, <1>3, <1>4, <1>5

\* Trimming keeps the newest rows, blanking their number.
LEMMA NewestRows ==
    ASSUME NEW all \in Seq(Row), NEW header \in Headers, all # <<>>
    PROVE  LET some == Newest(all)
               written == Recorded(header, some)
           IN  /\ some \in Seq(Row) /\ written \in Seq(Row)
               /\ Len(some) \in 1..Len(all) /\ Len(written) = Len(some)
               /\ Len(some) = Len(all) \/ (Len(some) = MaxRows /\ MaxRows > 0)
               /\ \A i \in DOMAIN some : some[i] = all[Len(all) - Len(some) + i]
               /\ header # "row" => written = some
               /\ header = "row" => \A i \in DOMAIN written : written[i] = Blank
<1> DEFINE some == Newest(all)
           written == Recorded(header, some)
<1>1. MaxRows \in Nat /\ Len(all) \in Nat \ {0} /\ DOMAIN all = 1..Len(all)
    BY ArtifactsAssumption
<1>2. some \in Seq(Row) /\ written \in Seq(Row)
    BY TrimmedRows
<1>3. /\ Len(some) \in 1..Len(all)
      /\ Len(some) = Len(all) \/ (Len(some) = MaxRows /\ MaxRows > 0)
      /\ \A i \in DOMAIN some : some[i] = all[Len(all) - Len(some) + i]
  <2>1. CASE Len(all) > MaxRows /\ MaxRows > 0
    <3>1. some = SubSeq(all, Len(all) - MaxRows + 1, Len(all))
        BY <2>1 DEF Newest
    <3>2. Len(some) = MaxRows /\ DOMAIN some = 1..MaxRows
        BY <1>1, <2>1, <3>1
    <3>3. \A i \in 1..MaxRows : some[i] = all[Len(all) - MaxRows + i]
        BY <1>1, <2>1, <3>1
    <3> HIDE DEF some
    <3>4. Len(some) \in 1..Len(all)
        BY <1>1, <2>1, <3>2
    <3>5. QED BY <2>1, <3>2, <3>3, <3>4
  <2>2. CASE ~ (Len(all) > MaxRows /\ MaxRows > 0)
    <3>1. some = all
        BY <2>2 DEF Newest
    <3> HIDE DEF some
    <3>2. Len(some) = Len(all) /\ Len(some) \in 1..Len(all)
        BY <1>1, <3>1
    <3>3. \A i \in DOMAIN some : some[i] = all[Len(all) - Len(some) + i]
      <4>1. \A i \in DOMAIN all : Len(all) - Len(all) + i = i
          BY <1>1
      <4>2. QED BY <3>1, <4>1
    <3>4. QED BY <3>2, <3>3
  <2>3. QED BY <2>1, <2>2
<1> HIDE DEF some
<1>4. /\ Len(written) = Len(some)
      /\ header # "row" => written = some
      /\ header = "row" => \A i \in DOMAIN written : written[i] = Blank
    BY <1>2 DEF Recorded
<1>5. QED BY <1>2, <1>3, <1>4 DEF some

\* What the runner's journal says when it is written in this turn.
LEMMA RunnersJournal ==
    ASSUME TypeOK, MemoryInv, pc \in {"journal", "summary", "health"}, NEW header \in Headers
    PROVE  LET written == Recorded(header, Newest(rows)) IN
           /\ written \in Seq(Row) /\ written # <<>>
           /\ Len(written) = turn \/ (Len(written) = MaxRows /\ MaxRows > 0)
           /\ \A i \in DOMAIN written : written[i].run <= run
           /\ header # "row" =>
                /\ Len(written) <= turn
                /\ written[Len(written)] = rows[turn]
                /\ \A i \in DOMAIN written :
                    LET at == turn - Len(written) + i IN
                    /\ at \in DOMAIN rows /\ written[i] = rows[at]
                    /\ rows[at].run = run /\ rows[at].turn = at
<1> DEFINE some == Newest(rows)
           written == Recorded(header, some)
<1>1. /\ rows \in Seq(Row) /\ rows # <<>> /\ run \in Nat /\ turn \in Nat
      /\ Len(rows) = turn /\ DOMAIN rows = 1..turn
      /\ \A i \in DOMAIN rows : rows[i].run = run /\ rows[i].turn = i
    BY DEF TypeOK, StateOK, Stages, MemoryInv, EnhancedPcs
<1>2. /\ some \in Seq(Row) /\ written \in Seq(Row)
      /\ Len(some) \in 1..Len(rows) /\ Len(written) = Len(some)
      /\ Len(some) = Len(rows) \/ (Len(some) = MaxRows /\ MaxRows > 0)
      /\ \A i \in DOMAIN some : some[i] = rows[Len(rows) - Len(some) + i]
      /\ header # "row" => written = some
      /\ header = "row" => \A i \in DOMAIN written : written[i] = Blank
    BY <1>1, NewestRows
<1> HIDE DEF some, written
<1>3. /\ DOMAIN written = 1..Len(written) /\ Len(written) \in Nat /\ written # <<>>
      /\ DOMAIN some = 1..Len(some) /\ Len(written) \in 1..turn
    BY <1>1, <1>2
<1>4. ASSUME header # "row", NEW i \in DOMAIN written
      PROVE  LET at == turn - Len(written) + i IN
             /\ at \in DOMAIN rows /\ written[i] = rows[at]
             /\ rows[at].run = run /\ rows[at].turn = at
  <2>1. turn - Len(written) + i \in DOMAIN rows
      BY <1>1, <1>3
  <2>2. written[i] = rows[turn - Len(written) + i]
      BY <1>1, <1>2, <1>3, <1>4
  <2>3. QED BY <1>1, <2>1, <2>2
<1>5. \A i \in DOMAIN written : written[i].run <= run
  <2>1. CASE header = "row"
      BY <1>1, <1>2, <2>1 DEF Blank
  <2>2. CASE header # "row"
      BY <1>1, <1>4, <2>2
  <2>3. QED BY <2>1, <2>2
<1>6. header # "row" => written[Len(written)] = rows[turn]
  <2>1. Len(written) \in DOMAIN written /\ turn - Len(written) + Len(written) = turn
      BY <1>1, <1>3
  <2>2. QED BY <1>4, <2>1
<1>7. Len(written) = turn \/ (Len(written) = MaxRows /\ MaxRows > 0)
    BY <1>1, <1>2
<1>8. Len(written) <= turn
    BY <1>1, <1>3
<1>9. written = Recorded(header, Newest(rows))
    BY DEF written, some
<1>10. QED BY <1>2, <1>3, <1>4, <1>5, <1>6, <1>7, <1>8, <1>9

\* A step that leaves the three files, run and turn alone and goes on within
\* the service's stages, or to rest, keeps what they say of each other.
LEMMA FollowKept ==
    ASSUME TypeOK, FollowInv, OwnFilesStay, run' = run, turn' = turn,
           \/ pc' = "idle"
           \/ pc \in ServicePcs \ {"publishing"} /\ pc' \in ServicePcs \ {"header"}
    PROVE  FollowInv'
<1> USE DEF OwnFilesStay, EnhancedPcs, ServicePcs
<1>1. MemoryInv'
    BY DEF MemoryInv
<1>2. JournalInv'
    BY DEF FollowInv, JournalInv, LastRow
<1>3. SummaryInv'
    BY DEF FollowInv, SummaryInv, Agree, NotAfter, LastRow
<1>4. HealthInv'
    BY DEF FollowInv, HealthInv, NotAfter
<1>5. QED BY <1>1, <1>2, <1>3, <1>4 DEF FollowInv

LEMMA FollowStep ==
    ASSUME TypeOK, PublishInv, FollowInv, [Next]_vars
    PROVE  FollowInv'
<1> DEFINE journal == files["own"]["journal"]
           summary == files["own"]["summary"]
           health  == files["own"]["health"]
<1> USE DEF process, memory, EnhancedPcs, ServicePcs
<1>a. /\ FilesOK /\ run \in Nat /\ turn \in Nat /\ rows \in Seq(Row)
      /\ pc \in {"idle"} \cup EnhancedPcs \cup ServicePcs
    BY DEF TypeOK, StateOK
<1>b. /\ journal \in JournalFile \cup {Absent}
      /\ summary \in SummaryFile \cup {Absent}
      /\ health \in HealthFile \cup {Absent}
    BY <1>a DEF FilesOK, Dirs
<1>c. /\ summary # Absent => summary.run \in Nat /\ summary.turn \in Nat
      /\ health # Absent => health.run \in Nat /\ health.turn \in Nat
    BY <1>b DEF SummaryFile, HealthFile
<1>d. ASSUME files' = files PROVE OwnFilesStay
    BY <1>d DEF OwnFilesStay
<1>e. MemoryInv /\ JournalInv /\ SummaryInv /\ HealthInv /\ OwnRowsInv
    BY DEF FollowInv, PublishInv
<1>1. ASSUME NEW p \in {"enhanced", "service"}, Start(p) PROVE FollowInv'
  <2>1. /\ run' = run + 1 /\ turn' = 0 /\ rows' = <<>> /\ lastSuccess' = 0
        /\ pc' \in {"decide", "open"} /\ files' = files
      BY <1>1 DEF Start
  <2>2. MemoryInv'
      BY <2>1 DEF MemoryInv
  <2>3. JournalInv'
    <3>1. ASSUME journal # Absent, NEW i \in DOMAIN journal.rows
          PROVE  journal.rows[i].run <= run + 1 /\ journal.rows[i].run # run + 1
      <4>1. journal.rows[i] \in Row
          BY <1>b, <3>1 DEF JournalFile
      <4>2. journal.rows[i].run \in Nat
          BY <4>1 DEF Row
      <4>3. QED BY <1>a, <1>e, <3>1, <4>2 DEF JournalInv
    <3>2. QED BY <2>1, <3>1 DEF JournalInv
  <2>4. SummaryInv'
      BY <1>a, <1>c, <1>e, <2>1 DEF SummaryInv, Agree, NotAfter, LastRow
  <2>5. HealthInv'
      BY <1>a, <1>c, <1>e, <2>1 DEF HealthInv, NotAfter
  <2>6. QED BY <2>2, <2>3, <2>4, <2>5 DEF FollowInv
<1>2. ASSUME Stop PROVE FollowInv'
    BY <1>2, <1>d, FollowKept DEF Stop
<1>3. ASSUME NEW shock \in BOOLEAN, Decide(shock) PROVE FollowInv'
  <2> DEFINE time == turn + 1
             row == [run |-> run, turn |-> time,
                     reason |-> Limited(Gated(Evaluated(time), shock), time)]
  <2>1. /\ turn' = time /\ run' = run /\ rows' = Append(rows, row) /\ files' = files
        /\ lastSuccess' = lastSuccess /\ lastError' = lastError
        /\ pc = "decide" /\ pc' = "journal"
      BY <1>3 DEF Decide, NextWrite
  <2>2. row.run = run /\ row.turn = time
      OBVIOUS
  <2> HIDE DEF row
  <2>3. /\ Len(rows) = turn /\ Len(rows') = time
        /\ DOMAIN rows = 1..turn /\ DOMAIN rows' = 1..time
        /\ \A i \in DOMAIN rows : rows'[i] = rows[i]
        /\ rows'[time] = row
    <3>1. Len(rows) = turn
        BY <1>e, <2>1 DEF MemoryInv
    <3>2. QED BY <1>a, <2>1, <3>1
  <2>4. MemoryInv'
    <3>1. \A i \in DOMAIN rows' : rows'[i].run = run /\ rows'[i].turn = i
        BY <1>a, <1>e, <2>1, <2>2, <2>3 DEF MemoryInv
    <3>2. time - 1 = turn
        BY <1>a
    <3>3. QED BY <1>e, <2>1, <2>3, <3>1, <3>2 DEF MemoryInv
  <2>5. JournalInv'
      BY <1>e, <2>1 DEF JournalInv
  <2>6. SummaryInv'
      BY <1>a, <1>e, <2>1, <2>3 DEF SummaryInv, Agree, NotAfter, LastRow
  <2>7. HealthInv'
      BY <1>a, <1>c, <1>e, <2>1 DEF HealthInv, NotAfter
  <2>8. QED BY <2>4, <2>5, <2>6, <2>7 DEF FollowInv
<1>4. ASSUME ArtifactWriteFails PROVE FollowInv'
  <2>1. /\ run' = run /\ turn' = turn /\ rows' = rows /\ files' = files /\ lastError' = TRUE
        /\ pc \in {"journal", "summary", "health"} /\ pc' = "decide"
      BY <1>4 DEF ArtifactWriteFails
  <2>2. MemoryInv' /\ JournalInv'
      BY <1>e, <2>1 DEF MemoryInv, JournalInv
  <2>3. SummaryInv'
      BY <1>e, <2>1 DEF SummaryInv, Agree, NotAfter, LastRow
  <2>4. HealthInv'
      BY <1>e, <2>1 DEF HealthInv, NotAfter
  <2>5. QED BY <2>2, <2>3, <2>4 DEF FollowInv
<1>5. ASSUME NEW readable \in BOOLEAN, WriteJournal(readable) PROVE FollowInv'
  <2> DEFINE kept == KeptHeader(readable)
             written == Recorded(kept, Newest(rows))
             content == [header |-> kept, whole |-> TRUE, rows |-> written]
  <2>1. /\ Write("own", "journal", content) /\ pc = "journal" /\ pc' = "summary"
        /\ run' = run /\ turn' = turn /\ rows' = rows
        /\ lastSuccess' = lastSuccess /\ lastError' = lastError
      BY <1>5 DEF WriteJournal, NextWrite
  <2>2. kept \in Headers \ {"none"} /\ content \in JournalFile
      BY <1>5, JournalReplaced
  <2>3. /\ written \in Seq(Row) /\ written # <<>>
        /\ \A i \in DOMAIN written : written[i].run <= run
        /\ kept # "row" =>
                /\ Len(written) <= turn
                /\ written[Len(written)] = rows[turn]
                /\ \A i \in DOMAIN written :
                    LET at == turn - Len(written) + i IN
                    /\ at \in DOMAIN rows /\ written[i] = rows[at]
                    /\ rows[at].run = run /\ rows[at].turn = at
      BY <1>e, <2>1, <2>2, RunnersJournal
  <2>4. content \in JournalFile /\ content.header = kept /\ content.rows = written
      BY <2>2
  <2>5. journal' = content /\ summary' = summary /\ health' = health /\ content # Absent
      BY <1>a, <2>1, <2>4, JournalWritten, AbsentIsNoFile
  <2>6. MemoryInv'
      BY <1>e, <2>1 DEF MemoryInv
  <2>7. JournalInv'
      BY <2>1, <2>3, <2>4, <2>5 DEF JournalInv
  <2>8. ASSUME summary # Absent, kept # "row" PROVE Agree(summary, content)
    <3>1. /\ Len(rows) = turn /\ turn \in DOMAIN rows
          /\ rows[turn].run = run /\ rows[turn].turn = turn
        BY <1>a, <1>e, <2>1 DEF MemoryInv, TypeOK, Stages
    <3>2. LastRow(content) = rows[turn]
        BY <2>3, <2>4, <2>8 DEF LastRow
    <3>3. /\ summary.run <= run
          /\ summary.run = run => summary.turn \in 1..turn
                                    /\ summary.reason = rows[summary.turn].reason
        BY <1>a, <1>e, <2>1, <2>8, <3>1 DEF SummaryInv
    <3>4. NotAfter(summary, LastRow(content))
        BY <1>a, <1>c, <2>8, <3>1, <3>2, <3>3 DEF NotAfter
    <3>5. ASSUME NEW i \in DOMAIN written,
                 written[i].run = summary.run, written[i].turn = summary.turn
          PROVE  written[i].reason = summary.reason
        BY <2>3, <2>8, <3>3, <3>5
    <3>6. QED BY <2>4, <3>4, <3>5 DEF Agree
  <2>9. SummaryInv'
    <3> HIDE DEF content, written
    <3>1. summary # Absent =>
            /\ summary.run <= run
            /\ summary.run = run =>
                    summary.turn \in DOMAIN rows /\ summary.reason = rows[summary.turn].reason
        BY <1>e, <2>1 DEF SummaryInv
    <3>2. content.rows # <<>>
        BY <2>3, <2>4
    <3>3. QED BY <2>1, <2>4, <2>5, <2>8, <3>1, <3>2 DEF SummaryInv
  <2>10. HealthInv'
      BY <1>e, <2>1, <2>5 DEF HealthInv
  <2>11. QED BY <2>6, <2>7, <2>9, <2>10 DEF FollowInv
<1>6. ASSUME WriteSummary PROVE FollowInv'
  <2> DEFINE content == [by |-> "enhanced", run |-> run, turn |-> turn, whole |-> TRUE,
                         reason |-> rows[Len(rows)].reason]
  <2>1. /\ Write("own", "summary", content) /\ pc = "summary" /\ pc' = "health"
        /\ run' = run /\ turn' = turn /\ rows' = rows
        /\ lastSuccess' = lastSuccess /\ lastError' = lastError
      BY <1>6 DEF WriteSummary, NextWrite
  <2>2. /\ Len(rows) = turn /\ turn \in DOMAIN rows /\ rows[turn] \in Row
        /\ rows[turn].run = run /\ rows[turn].turn = turn
      BY <1>a, <1>e, <2>1 DEF MemoryInv, TypeOK, Stages
  <2>3. rows[turn].reason \in Reasons
      BY <2>2 DEF Row
  <2>4. /\ content \in SummaryFile /\ content.run = run /\ content.turn = turn
        /\ content.reason = rows[turn].reason
      BY <1>a, <2>2, <2>3 DEF SummaryFile
  <2> HIDE DEF content
  <2>5. journal' = journal /\ summary' = content /\ health' = health
      BY <1>a, <2>1, <2>4, SummaryWritten
  <2>6. /\ journal # Absent /\ journal.rows = Recorded(journal.header, Newest(rows))
        /\ journal.header \in Headers
    <3>1. journal # Absent /\ journal.rows = Recorded(journal.header, Newest(rows))
        BY <1>e, <2>1 DEF JournalInv
    <3>2. QED BY <1>b, <3>1 DEF JournalFile
  <2>7. /\ journal.rows # <<>>
        /\ journal.header # "row" =>
                /\ journal.rows[Len(journal.rows)] = rows[turn]
                /\ \A i \in DOMAIN journal.rows :
                    LET at == turn - Len(journal.rows) + i IN
                    /\ at \in DOMAIN rows /\ journal.rows[i] = rows[at]
                    /\ rows[at].run = run /\ rows[at].turn = at
      BY <1>e, <2>1, <2>6, RunnersJournal
  <2>8. ASSUME journal.header # "row" PROVE Agree(content, journal)
    <3>1. NotAfter(content, LastRow(journal))
        BY <1>a, <2>2, <2>4, <2>7, <2>8 DEF NotAfter, LastRow
    <3>2. ASSUME NEW i \in DOMAIN journal.rows,
                 journal.rows[i].run = content.run, journal.rows[i].turn = content.turn
          PROVE  journal.rows[i].reason = content.reason
        BY <2>4, <2>7, <2>8, <3>2
    <3>3. QED BY <3>1, <3>2 DEF Agree
  <2>9. SummaryInv'
    <3>1. content # Absent => content.turn \in DOMAIN rows /\ content.run <= run
        BY <1>a, <2>2, <2>4
    <3>2. summary' # Absent
        BY <2>4, <2>5, AbsentIsNoFile
    <3>3. QED BY <2>1, <2>4, <2>5, <2>6, <2>7, <2>8, <3>1, <3>2 DEF SummaryInv
  <2>10. MemoryInv' /\ JournalInv'
      BY <1>e, <2>1, <2>5 DEF MemoryInv, JournalInv
  <2>11. HealthInv'
    <3>1. health # Absent => NotAfter(health, content)
        BY <1>a, <1>c, <1>e, <2>1, <2>4 DEF HealthInv, NotAfter
    <3>2. QED BY <1>e, <2>1, <2>5, <2>9, <3>1 DEF HealthInv, SummaryInv
  <2>12. QED BY <2>9, <2>10, <2>11 DEF FollowInv
<1>7. ASSUME WriteHealth PROVE FollowInv'
  <2>1. /\ run' = run /\ turn' = turn /\ rows' = rows /\ lastSuccess' = turn
        /\ pc = "health" /\ pc' = "decide"
      BY <1>7 DEF WriteHealth, NextWrite
  <2>2. /\ journal' = journal /\ summary' = summary
        /\ health'.run = run /\ health'.turn = turn
      BY <1>7, HealthWritten
  <2>3. MemoryInv' /\ JournalInv'
      BY <1>e, <2>1, <2>2 DEF MemoryInv, JournalInv
  <2>4. SummaryInv'
      BY <1>e, <2>1, <2>2 DEF SummaryInv
  <2>5. summary # Absent /\ summary.run = run /\ summary.turn = turn
      BY <1>e, <2>1 DEF SummaryInv
  <2>6. NotAfter(health', summary)
      BY <1>a, <2>2, <2>5 DEF NotAfter
  <2>7. HealthInv'
      BY <1>a, <2>1, <2>2, <2>5, <2>6 DEF HealthInv
  <2>8. QED BY <2>3, <2>4, <2>7 DEF FollowInv
<1>8. ASSUME NEW content \in JournalFile, content.rows = <<>>,
             Write("own", "journal", content), summary = Absent,
             run' = run, turn' = turn, turn = 0, pc' \in {"header", "append"}
      PROVE  FollowInv'
  <2>1. journal' = content /\ summary' = summary /\ health' = health
      BY <1>a, <1>8, JournalWritten
  <2>2. MemoryInv' /\ JournalInv'
      BY <1>8, <2>1 DEF MemoryInv, JournalInv
  <2>3. SummaryInv'
      BY <1>8, <2>1 DEF SummaryInv
  <2>4. health = Absent
      BY <1>e, <1>8 DEF HealthInv
  <2>5. HealthInv'
      BY <2>1, <2>4 DEF HealthInv
  <2>6. QED BY <2>2, <2>3, <2>5 DEF FollowInv
<1>9. ASSUME OpenJournal PROVE FollowInv'
  <2>1. pc = "open" /\ run' = run /\ turn' = turn
      BY <1>9 DEF OpenJournal
  <2>2. CASE journal = Absent
    <3> DEFINE content == [header |-> "none", rows |-> <<>>, whole |-> FALSE]
    <3>1. content \in JournalFile /\ content.rows = <<>>
        BY DEF JournalFile, Headers
    <3>2. Write("own", "journal", content) /\ pc' = "header"
        BY <1>9, <2>2 DEF OpenJournal
    <3>3. summary = Absent
        BY <1>e, <2>2 DEF SummaryInv
    <3>4. turn = 0
        BY <1>e, <2>1 DEF OwnRowsInv
    <3> HIDE DEF content
    <3>5. QED BY <1>8, <2>1, <3>1, <3>2, <3>3, <3>4
  <2>3. CASE journal # Absent
      BY <1>9, <1>d, <2>1, <2>3, FollowKept DEF OpenJournal
  <2>4. QED BY <2>2, <2>3
<1>10. ASSUME WriteHeader PROVE FollowInv'
  <2> DEFINE content == [header |-> "trade", rows |-> <<>>, whole |-> TRUE]
  <2>1. content \in JournalFile /\ content.rows = <<>>
      BY DEF JournalFile, Headers
  <2>2. /\ Write("own", "journal", content) /\ pc = "header" /\ pc' = "append"
        /\ run' = run /\ turn' = turn
      BY <1>10 DEF WriteHeader
  <2>3. summary = Absent
      BY <1>e, <2>2 DEF SummaryInv
  <2>4. turn = 0
      BY <1>e, <2>2 DEF OwnRowsInv
  <2> HIDE DEF content
  <2>5. QED BY <1>8, <2>1, <2>2, <2>3, <2>4
<1>11. ASSUME AppendRow PROVE FollowInv'
  <2> DEFINE row == [run |-> run, turn |-> turn + 1, reason |-> "any"]
             content == [journal EXCEPT !.rows = Append(@, row)]
  <2>1. /\ content \in JournalFile /\ Write("own", "journal", content)
        /\ content.header = journal.header /\ journal \in JournalFile
        /\ content.rows = Append(journal.rows, row) /\ row \in Row
      BY <1>11, AppendIsWrite
  <2>2. row.run = run /\ row.turn = turn + 1 /\ row.reason = "any"
      OBVIOUS
  <2>3. /\ pc = "append" /\ pc' = "append" /\ run' = run /\ turn' = turn + 1
        /\ turn' > 0
      BY <1>11, <1>a DEF AppendRow
  <2> HIDE DEF content, row
  <2>4. /\ journal' = content /\ summary' = summary /\ health' = health
        /\ journal # Absent /\ content # Absent
      BY <1>a, <2>1, JournalWritten, AbsentIsNoFile
  <2>5. journal.rows \in Seq(Row)
      BY <2>1 DEF JournalFile
  <2>6. /\ content.rows # <<>> /\ LastRow(content) = row
        /\ \A i \in DOMAIN content.rows :
                content.rows[i] = row
                    \/ (i \in DOMAIN journal.rows /\ content.rows[i] = journal.rows[i])
    <3> DEFINE old == journal.rows
               new == Append(old, row)
    <3>1. old \in Seq(Row) /\ row \in Row
        BY <2>1, <2>5
    <3> HIDE DEF old
    <3>2. /\ new # <<>> /\ new[Len(new)] = row
          /\ \A i \in DOMAIN new : new[i] = row \/ (i \in DOMAIN old /\ new[i] = old[i])
        BY <3>1
    <3>3. content.rows = new
        BY <2>1 DEF old
    <3> HIDE DEF new
    <3>4. QED BY <3>2, <3>3 DEF LastRow, old
  <2>7. MemoryInv'
      BY <2>3 DEF MemoryInv
  <2>8. JournalInv'
    <3>1. \A i \in DOMAIN content.rows :
            /\ content.rows[i].run <= run
            /\ content.rows[i].run = run => content.rows[i].reason = "any"
        BY <1>a, <1>e, <2>2, <2>3, <2>4, <2>6 DEF JournalInv
    <3>2. QED BY <2>2, <2>3, <2>4, <2>6, <3>1 DEF JournalInv
  <2>9. ASSUME summary # Absent, content.header # "row" PROVE Agree(summary, content)
    <3>1. summary.run < run /\ Agree(summary, journal)
        BY <1>e, <2>1, <2>3, <2>9 DEF SummaryInv
    <3>2. NotAfter(summary, LastRow(content))
        BY <2>2, <2>6, <3>1 DEF NotAfter
    <3>3. summary.run # run
        BY <1>a, <1>c, <2>9, <3>1
    <3>4. QED BY <2>2, <2>6, <3>1, <3>2, <3>3 DEF Agree
  <2>10. SummaryInv'
      BY <1>e, <2>3, <2>4, <2>6, <2>9 DEF SummaryInv
  <2>11. HealthInv'
      BY <1>e, <2>3, <2>4 DEF HealthInv
  <2>12. QED BY <2>7, <2>8, <2>10, <2>11 DEF FollowInv
<1>12. ASSUME NEW ok \in BOOLEAN, StrategyEnds(ok) PROVE FollowInv'
    BY <1>12, <1>d, FollowKept DEF StrategyEnds, Deciding
<1>13. ASSUME CopyBegins PROVE FollowInv'
    BY <1>13, ServiceWrites, FollowKept DEF CopyBegins
<1>12p. ASSUME CopyPiece PROVE FollowInv'
    BY <1>12p, ServiceWrites, FollowKept DEF CopyPiece
<1>14. ASSUME CopyEnds PROVE FollowInv'
    BY <1>14, ServiceWrites, FollowKept DEF CopyEnds
<1>15. ASSUME CopyFails PROVE FollowInv'
    BY <1>15, <1>d, FollowKept DEF CopyFails
<1>16. ASSUME NEW whole \in BOOLEAN, Write(Published, "summary", ServiceSummary(whole)),
              aliased, run' = run, turn' = turn, pc \in {"publish", "publishing"},
              pc' \in {"publishing", "idle"}
       PROVE  FollowInv'
  <2> DEFINE content == ServiceSummary(whole)
  <2>1. journal' = journal /\ summary' = content /\ health' = health
      BY <1>16, ServiceWrites
  <2>2. content.run = run /\ content.turn = turn /\ content.reason = "any"
      BY DEF ServiceSummary
  <2> HIDE DEF content
  <2>3. turn > 0
      BY <1>e, <1>16 DEF OwnRowsInv, Deciding
  <2>4. /\ journal # Absent /\ journal.rows # <<>>
        /\ LastRow(journal).run = run /\ LastRow(journal).turn = turn
        /\ \A i \in DOMAIN journal.rows :
                journal.rows[i].run = run => journal.rows[i].reason = "any"
      BY <1>e, <1>16, <2>3 DEF JournalInv
  <2>5. Agree(content, journal)
      BY <1>a, <2>2, <2>4 DEF Agree, NotAfter
  <2>6. MemoryInv' /\ JournalInv'
      BY <1>e, <1>16, <2>1 DEF MemoryInv, JournalInv
  <2>7. SummaryInv'
      BY <1>a, <1>16, <2>1, <2>2, <2>4, <2>5 DEF SummaryInv
  <2>8. health # Absent => health.run < run /\ NotAfter(health, content)
      BY <1>e, <1>16, <2>2 DEF HealthInv, NotAfter
  <2>9. HealthInv'
    <3>1. content # Absent
      <4>1. content \in SummaryFile
          BY DEF content, ServiceSummary, SummaryFile, Reasons, TypeOK, StateOK
      <4>2. QED BY <4>1, AbsentIsNoFile
    <3>2. QED BY <1>a, <1>c, <1>16, <2>1, <2>8, <3>1 DEF HealthInv
  <2>10. QED BY <2>6, <2>7, <2>9 DEF FollowInv
<1>17. ASSUME SummaryBegins PROVE FollowInv'
  <2>1. CASE aliased
      BY <1>16, <1>17, <2>1 DEF SummaryBegins
  <2>2. CASE ~ aliased
      BY <1>17, <2>2, ServiceWrites, FollowKept DEF SummaryBegins
  <2>3. QED BY <2>1, <2>2
<1>18. ASSUME SummaryEnds PROVE FollowInv'
  <2>1. CASE aliased
      BY <1>16, <1>18, <2>1 DEF SummaryEnds
  <2>2. CASE ~ aliased
      BY <1>18, <2>2, ServiceWrites, FollowKept DEF SummaryEnds
  <2>3. QED BY <2>1, <2>2
<1>19. ASSUME UNCHANGED vars PROVE FollowInv'
    BY <1>19 DEF vars, FollowInv, MemoryInv, JournalInv, SummaryInv, HealthInv, Agree,
                 NotAfter, LastRow
<1>20. QED
    BY <1>1, <1>2, <1>3, <1>4, <1>5, <1>6, <1>7, <1>9, <1>10, <1>11, <1>12, <1>13,
       <1>14, <1>15, <1>17, <1>18, <1>19, <1>12p DEF Next, Bounded

------------------------------------------------------------------------------
\* What is published stays settled while its files, the runs and their results
\* stay, and the service does not go back to deciding.
LEMMA PublishedKept ==
    ASSUME TypeOK, SummariesInv, CopyInv,
           \A dir \in Dirs : files'[dir]["summary"] = files[dir]["summary"],
           files'["published"]["journal"] = files["published"]["journal"],
           run' = run, succeeded' = succeeded,
           pc' \in Deciding => pc \in Deciding
    PROVE  SummariesInv' /\ CopyInv'
BY DEF SummariesInv, CopyInv, Settled, Reached, LastRow

\* A summary written by the service in a run that returned 0 is settled, too.
LEMMA SummaryPublished ==
    ASSUME TypeOK, PublishInv, NEW whole \in BOOLEAN,
           Write(Published, "summary", ServiceSummary(whole)),
           pc \in {"publish", "publishing"}, pc' \notin Deciding,
           run' = run, turn' = turn, succeeded' = succeeded
    PROVE  SummariesInv' /\ CopyInv'
<1> DEFINE content == ServiceSummary(whole)
<1>1. FilesOK /\ Published \in Dirs /\ "summary" \in Names /\ "journal" \in Names
    BY DEF TypeOK, Dirs, Names, Published
<1>2. content \in SummaryFile /\ content.run = run /\ content.turn = turn
    BY DEF ServiceSummary, SummaryFile, Reasons, TypeOK, StateOK
<1>3. /\ files'[Published]["summary"] = content
      /\ \A dir \in Dirs : dir # Published => files'[dir]["summary"] = files[dir]["summary"]
      /\ files'["published"]["journal"] = files["published"]["journal"]
  <2>1. "published" \in Dirs
      BY DEF Dirs
  <2> HIDE DEF content
  <2>2. Fits("summary", content)
      BY <1>2 DEF Fits
  <2>3. QED BY <1>1, <2>1, <2>2, WriteKeeps DEF content
<1>4. run \in 1..run /\ turn = succeeded[run]
    BY DEF PublishInv, OwnRowsInv, ServicePcs, Deciding, TypeOK, StateOK, Stages
<1>5. ASSUME NEW dir \in Dirs, files'[dir]["summary"] # Absent,
             files'[dir]["summary"].by = "service"
      PROVE  Settled(files[dir]["summary"].run, files[dir]["summary"].turn)'
  <2>1. CASE dir = Published
      BY <1>2, <1>3, <1>4, <2>1 DEF Settled
  <2>2. CASE dir # Published
    <3>1. Settled(files[dir]["summary"].run, files[dir]["summary"].turn)
        BY <1>3, <1>5, <2>2 DEF PublishInv, SummariesInv
    <3>2. QED BY <1>3, <2>2, <3>1 DEF Settled
  <2>3. QED BY <2>1, <2>2
<1>6. CopyInv'
    BY <1>3 DEF PublishInv, CopyInv, Settled, Reached, LastRow
<1>7. QED BY <1>5, <1>6 DEF SummariesInv

LEMMA PublishStep ==
    ASSUME TypeOK, PublishInv, FollowInv, [Next]_vars
    PROVE  PublishInv'
<1> DEFINE journal == files["own"]["journal"]
           copy    == files["published"]["journal"]
           Same    == \A dir \in Dirs : files'[dir]["summary"] = files[dir]["summary"]
<1> USE DEF process, memory, Deciding, ServicePcs
<1>a. FilesOK /\ "own" \in Dirs /\ "published" \in Dirs
    BY DEF TypeOK, Dirs
<1>b. "journal" \in Names /\ "summary" \in Names /\ "health" \in Names
    BY DEF Names
<1>c. journal \in JournalFile \cup {Absent} /\ copy \in JournalFile \cup {Absent}
    BY <1>a DEF FilesOK
<1>d. ASSUME NEW content \in JournalFile, Write("own", "journal", content)
      PROVE  journal' = content /\ copy' = copy /\ Same
    BY <1>a, <1>b, <1>d, WriteKeeps DEF Fits
<1>e. ASSUME NEW content \in JournalFile, Write("published", "journal", content)
      PROVE  journal' = journal /\ copy' = content /\ Same
    BY <1>a, <1>b, <1>e, WriteKeeps DEF Fits
<1>f. /\ OwnRowsInv /\ SummariesInv /\ CopyInv
      /\ run \in Nat /\ turn \in Nat /\ succeeded \in Seq(Nat) /\ Len(succeeded) = run
    BY DEF PublishInv, TypeOK, StateOK
<1>g. ASSUME pc' \notin ServicePcs, Same, copy' = copy, run' = run, succeeded' = succeeded
      PROVE  PublishInv'
    BY <1>f, <1>g, PublishedKept DEF PublishInv, OwnRowsInv
<1>h. ASSUME pc \in Deciding \/ pc' \notin Deciding, Same, copy' = copy,
             run' = run, succeeded' = succeeded, OwnRowsInv'
      PROVE  PublishInv'
    BY <1>f, <1>h, PublishedKept DEF PublishInv
<1>1. ASSUME NEW p \in {"enhanced", "service"}, Start(p) PROVE PublishInv'
  <2>1. /\ run' = run + 1 /\ turn' = 0 /\ succeeded' = Append(succeeded, 0)
        /\ pc' \in {"decide", "open"} /\ files' = files
      BY <1>1 DEF Start
  <2>2. ASSUME NEW of, NEW at, Settled(of, at)
        PROVE  Settled(of, at)'
    <3>1. of \in 1..run /\ at = succeeded[of]
        BY <2>2 DEF Settled
    <3>2. succeeded'[of] = succeeded[of]
        BY <1>f, <2>1, <3>1
    <3>3. of \in 1..run' /\ of < run'
        BY <1>f, <2>1, <3>1
    <3>4. QED BY <3>1, <3>2, <3>3 DEF Settled
  <2>3. ASSUME NEW of, Reached(of) PROVE Reached(of)'
    <3>1. PICK later \in 1..run : of <= later /\ succeeded[later] > 0
        BY <2>3 DEF Reached
    <3>2. later \in 1..run' /\ succeeded'[later] = succeeded[later]
        BY <1>f, <2>1, <3>1
    <3>3. QED BY <3>1, <3>2 DEF Reached
  <2>4. SummariesInv'
      BY <1>f, <2>1, <2>2 DEF SummariesInv
  <2>5. CopyInv'
      BY <1>f, <2>1, <2>2, <2>3 DEF CopyInv, LastRow
  <2>6. OwnRowsInv'
      BY <2>1 DEF OwnRowsInv
  <2>7. QED BY <2>4, <2>5, <2>6 DEF PublishInv
<1>2. ASSUME Stop PROVE PublishInv'
    BY <1>2, <1>g DEF Stop
<1>3. ASSUME NEW shock \in BOOLEAN, Decide(shock) PROVE PublishInv'
    BY <1>3, <1>g DEF Decide, NextWrite
<1>4. ASSUME ArtifactWriteFails PROVE PublishInv'
    BY <1>4, <1>g DEF ArtifactWriteFails
<1>5. ASSUME NEW readable \in BOOLEAN, WriteJournal(readable) PROVE PublishInv'
  <2> DEFINE content == [header |-> KeptHeader(readable), whole |-> TRUE,
                         rows |-> Recorded(KeptHeader(readable), Newest(rows))]
  <2>1. content \in JournalFile /\ Write("own", "journal", content)
      BY <1>5, JournalReplaced
  <2> HIDE DEF content
  <2>2. copy' = copy /\ Same
      BY <1>d, <2>1
  <2>3. pc' = "summary"
      BY <1>5 DEF WriteJournal, NextWrite
  <2>4. QED BY <1>5, <1>g, <2>2, <2>3 DEF WriteJournal
<1>6. ASSUME WriteSummary PROVE PublishInv'
  <2> DEFINE content == [by |-> "enhanced", run |-> run, turn |-> turn, whole |-> TRUE,
                         reason |-> rows[Len(rows)].reason]
  <2>1. rows[Len(rows)] \in Row
      BY <1>6 DEF WriteSummary, TypeOK, StateOK, Stages
  <2>2. content \in SummaryFile /\ content.by = "enhanced"
      BY <2>1 DEF SummaryFile, Row, TypeOK, StateOK
  <2>3. Write("own", "summary", content) /\ pc' = "health"
      BY <1>6 DEF WriteSummary, NextWrite
  <2> HIDE DEF content
  <2>4. /\ files'["own"]["summary"] = content /\ copy' = copy
        /\ \A dir \in Dirs : dir # "own" => files'[dir]["summary"] = files[dir]["summary"]
      BY <1>a, <1>b, <2>2, <2>3, WriteKeeps DEF Fits
  <2>5. run' = run /\ succeeded' = succeeded
      BY <1>6 DEF WriteSummary
  <2>6. SummariesInv'
      BY <1>f, <2>2, <2>3, <2>4, <2>5 DEF SummariesInv, Settled
  <2>7. CopyInv'
      BY <1>f, <2>3, <2>4, <2>5 DEF CopyInv, Settled, Reached, LastRow
  <2>8. QED BY <2>3, <2>6, <2>7 DEF PublishInv, OwnRowsInv
<1>7. ASSUME WriteHealth PROVE PublishInv'
  <2> DEFINE content == [run |-> run, turn |-> turn, whole |-> TRUE, mismatch |-> mismatch,
                         failed |-> lastError, success |-> lastSuccess]
  <2>1. content \in HealthFile
      BY DEF HealthFile, TypeOK, StateOK
  <2>2. Write("own", "health", content) /\ pc' = "decide"
      BY <1>7 DEF WriteHealth, NextWrite
  <2>3. copy' = copy /\ Same
      BY <1>a, <1>b, <2>1, <2>2, WriteKeeps DEF Fits
  <2>4. QED BY <1>7, <1>g, <2>2, <2>3 DEF WriteHealth
<1>8. ASSUME OpenJournal PROVE PublishInv'
  <2>1. copy' = copy /\ Same
    <3>1. [header |-> "none", rows |-> <<>>, whole |-> FALSE] \in JournalFile
        BY DEF JournalFile, Headers
    <3>2. QED BY <1>8, <1>d, <3>1 DEF OpenJournal
  <2>2. turn' = 0
      BY <1>8, <1>f DEF OpenJournal, OwnRowsInv
  <2>3. OwnRowsInv'
      BY <1>8, <2>2 DEF OpenJournal, OwnRowsInv
  <2>4. QED BY <1>8, <1>h, <2>1, <2>3 DEF OpenJournal
<1>9. ASSUME WriteHeader PROVE PublishInv'
  <2>1. copy' = copy /\ Same
    <3>1. [header |-> "trade", rows |-> <<>>, whole |-> TRUE] \in JournalFile
        BY DEF JournalFile, Headers
    <3>2. QED BY <1>9, <1>d, <3>1 DEF WriteHeader
  <2>2. turn' = 0
      BY <1>9, <1>f DEF WriteHeader, OwnRowsInv
  <2>3. OwnRowsInv'
      BY <1>9, <2>2 DEF WriteHeader, OwnRowsInv
  <2>4. QED BY <1>9, <1>h, <2>1, <2>3 DEF WriteHeader
<1>10. ASSUME AppendRow PROVE PublishInv'
  <2> DEFINE row == [run |-> run, turn |-> turn + 1, reason |-> "any"]
             content == [journal EXCEPT !.rows = Append(@, row)]
  <2>1. /\ content \in JournalFile /\ Write("own", "journal", content)
        /\ content.rows = Append(journal.rows, row)
        /\ journal.rows \in Seq(Row) /\ row \in Row
    <3>1. journal \in JournalFile
        BY <1>10, AppendIsWrite
    <3>2. journal.rows \in Seq(Row)
        BY <3>1 DEF JournalFile
    <3>3. QED BY <1>10, <3>2, AppendIsWrite
  <2> HIDE DEF content
  <2>2. journal' = content /\ copy' = copy /\ Same
      BY <1>d, <2>1
  <2>3. content.rows # <<>> /\ LastRow(content) = row
      BY <2>1 DEF LastRow
  <2>4. pc = "append" /\ pc' = "append" /\ run' = run /\ turn' = turn + 1
      BY <1>10 DEF AppendRow
  <2>5. OwnRowsInv'
      BY <2>2, <2>3, <2>4 DEF OwnRowsInv, LastRow
  <2>6. QED BY <1>10, <1>h, <2>2, <2>5 DEF AppendRow
<1>11. ASSUME NEW ok \in BOOLEAN, StrategyEnds(ok) PROVE PublishInv'
  <2>1. /\ pc \in Deciding /\ pc' \notin Deciding /\ files' = files
        /\ run' = run /\ turn' = turn /\ run \in 1..Len(succeeded)
      BY <1>11, <1>f DEF StrategyEnds, TypeOK, Stages
  <2>2. /\ \A of \in 1..run : of < run => succeeded'[of] = succeeded[of]
        /\ ok => succeeded'[run] = turn
      BY <1>11, <1>f, <2>1 DEF StrategyEnds
  <2>3. ASSUME NEW of, NEW at, Settled(of, at)
        PROVE  Settled(of, at)'
      BY <2>1, <2>2, <2>3 DEF Settled
  <2>4. ASSUME NEW of, Reached(of) PROVE Reached(of)'
    <3>1. PICK later \in 1..run : of <= later /\ succeeded[later] > 0
        BY <2>4 DEF Reached
    <3>2. succeeded'[later] > 0
        BY <1>11, <1>f, <2>1, <3>1 DEF StrategyEnds
    <3>3. QED BY <2>1, <3>1, <3>2 DEF Reached
  <2>5. SummariesInv'
      BY <1>f, <2>1, <2>3 DEF SummariesInv
  <2>6. CopyInv'
      BY <1>f, <2>1, <2>3, <2>4 DEF CopyInv, LastRow
  <2>7. pc' \in ServicePcs => ok /\ pc = "append" /\ turn > 0
      BY <1>11 DEF StrategyEnds, Publishes
  <2>8. OwnRowsInv'
      BY <1>f, <2>1, <2>2, <2>7 DEF OwnRowsInv, LastRow
  <2>9. QED BY <2>5, <2>6, <2>8 DEF PublishInv
<1>12. ASSUME CopyBegins PROVE PublishInv'
  <2> DEFINE content == [header |-> "none", rows |-> <<>>, whole |-> FALSE]
  <2>1. content \in JournalFile
      BY DEF JournalFile, Headers
  <2>2. /\ Write("published", "journal", content) /\ pc = "copy" /\ pc' = "copying"
        /\ run' = run /\ turn' = turn /\ succeeded' = succeeded
      BY <1>12 DEF CopyBegins
  <2>3. journal' = journal /\ copy' = content /\ Same
      BY <1>e, <2>1, <2>2
  <2>4. OwnRowsInv'
      BY <1>f, <2>2, <2>3 DEF OwnRowsInv, LastRow
  <2>5. CopyInv'
      BY <2>3 DEF CopyInv
  <2>6. SummariesInv'
      BY <1>f, <2>2, <2>3 DEF SummariesInv, Settled
  <2>7. QED BY <2>4, <2>5, <2>6 DEF PublishInv
<1>i. ASSUME pc = "copying", NEW i \in DOMAIN journal.rows PROVE Reached(journal.rows[i].run)
  <2>1. journal.rows[i].run <= run
      BY <1>i DEF FollowInv, JournalInv, TypeOK, Stages
  <2>2. run \in 1..run /\ succeeded[run] > 0
      BY <1>f, <1>i DEF OwnRowsInv, TypeOK, Stages
  <2>3. QED BY <2>1, <2>2 DEF Reached
<1>12p. ASSUME CopyPiece PROVE PublishInv'
  <2>1. PICK piece \in JournalFile :
            /\ Write("published", "journal", piece) /\ piece.whole = FALSE
            /\ DOMAIN piece.rows \subseteq DOMAIN journal.rows
            /\ \A i \in DOMAIN piece.rows : piece.rows[i] = journal.rows[i]
      BY <1>12p, PieceCopied
  <2>2. /\ pc = "copying" /\ pc' = "copying"
        /\ run' = run /\ turn' = turn /\ succeeded' = succeeded
      BY <1>12p DEF CopyPiece
  <2>3. journal' = journal /\ copy' = piece /\ Same
      BY <1>e, <2>1
  <2>4. OwnRowsInv'
      BY <1>f, <2>2, <2>3 DEF OwnRowsInv, LastRow
  <2>5. \A i \in DOMAIN piece.rows : Reached(piece.rows[i].run)
      BY <1>i, <2>1, <2>2
  <2>6. CopyInv'
      BY <2>1, <2>2, <2>3, <2>5 DEF CopyInv, Reached
  <2>7. SummariesInv'
      BY <1>f, <2>2, <2>3 DEF SummariesInv, Settled
  <2>8. QED BY <2>4, <2>6, <2>7 DEF PublishInv
<1>13. ASSUME CopyEnds PROVE PublishInv'
  <2>1. journal \in JournalFile
      BY <1>13, <1>c DEF CopyEnds, TypeOK, Stages
  <2>2. /\ Write("published", "journal", journal) /\ pc = "copying" /\ pc' = "publish"
        /\ run' = run /\ turn' = turn /\ succeeded' = succeeded
      BY <1>13 DEF CopyEnds
  <2>3. journal' = journal /\ copy' = journal /\ Same
      BY <1>e, <2>1, <2>2
  <2>4. OwnRowsInv'
      BY <1>f, <2>2, <2>3 DEF OwnRowsInv, LastRow
  <2>5. /\ journal.rows # <<>>
        /\ LastRow(journal).run \in 1..run
        /\ LastRow(journal).turn = succeeded[LastRow(journal).run]
      BY <1>f, <2>2 DEF OwnRowsInv, TypeOK, Stages
  <2>6. CopyInv'
      BY <1>i, <2>2, <2>3, <2>5 DEF CopyInv, Settled, Reached, LastRow
  <2>7. SummariesInv'
      BY <1>f, <2>2, <2>3 DEF SummariesInv, Settled
  <2>8. QED BY <2>4, <2>6, <2>7 DEF PublishInv
<1>14. ASSUME CopyFails PROVE PublishInv'
  <2>1. OwnRowsInv'
      BY <1>14, <1>f DEF CopyFails, OwnRowsInv
  <2>2. QED BY <1>14, <1>h, <2>1 DEF CopyFails
<1>15. ASSUME SummaryBegins PROVE PublishInv'
  <2>1. SummariesInv' /\ CopyInv'
      BY <1>15, SummaryPublished DEF SummaryBegins
  <2>2. OwnRowsInv'
      BY <1>15, <1>f DEF SummaryBegins, OwnRowsInv
  <2>3. QED BY <2>1, <2>2 DEF PublishInv
<1>16. ASSUME SummaryEnds PROVE PublishInv'
  <2>1. SummariesInv' /\ CopyInv'
      BY <1>16, SummaryPublished DEF SummaryEnds
  <2>2. OwnRowsInv'
      BY <1>16 DEF SummaryEnds, OwnRowsInv
  <2>3. QED BY <2>1, <2>2 DEF PublishInv
<1>17. ASSUME UNCHANGED vars PROVE PublishInv'
    BY <1>17 DEF vars, PublishInv, OwnRowsInv, SummariesInv, CopyInv, Settled, Reached, LastRow
<1>18. QED
    BY <1>1, <1>2, <1>3, <1>4, <1>5, <1>6, <1>7, <1>8, <1>9, <1>10, <1>11, <1>12, <1>13,
       <1>14, <1>15, <1>16, <1>17, <1>12p DEF Next, Bounded

\* The two rest on each other: what is published on what the journal holds, and
\* the journal and its followers on how far the service has got.
LEMMA RunsHold == Spec => [](PublishInv /\ FollowInv)
<1>1. Init => PublishInv
  <2>1. ASSUME Init PROVE OwnRowsInv
      BY <2>1 DEF Init, OwnRowsInv, ServicePcs, Deciding
  <2>2. ASSUME Init PROVE SummariesInv /\ CopyInv
      BY <2>2 DEF Init, SummariesInv, CopyInv, Dirs
  <2>3. QED BY <2>1, <2>2 DEF PublishInv
<1>2. Init => FollowInv
    BY DEF Init, FollowInv, MemoryInv, JournalInv, SummaryInv, HealthInv, EnhancedPcs, ServicePcs
<1>3. TypeOK /\ PublishInv /\ FollowInv /\ [Next]_vars => PublishInv' /\ FollowInv'
    BY PublishStep, FollowStep
<1>4. QED BY <1>1, <1>2, <1>3, ArtifactsTypeCorrect, PTL DEF Spec

\* Whatever is killed or fails in between, a summary that the service has published
\* is of a run whose strategy returned 0, a whole copy of the journal ends with such
\* a run, and no copy holds a row of a run after the last that returned 0.
THEOREM OnlySuccessIsPublished == Spec => []PublicationIsSound
<1> DEFINE own == files["own"]
           copy == files["published"]["journal"]
<1>1. ASSUME TypeOK, PublishInv, FollowInv PROVE PublicationIsSound
  <2>1. DOMAIN files = Dirs /\ DOMAIN succeeded = 1..run
      BY <1>1 DEF TypeOK, FilesOK, StateOK
  <2>2. \A dir \in DOMAIN files :
            LET summary == files[dir].summary IN
            summary # Absent /\ summary.by = "service" =>
                succeeded[summary.run] = summary.turn
      BY <1>1, <2>1 DEF PublishInv, SummariesInv, Settled
  <2>3. own.summary # Absent =>
            /\ own.journal # Absent /\ own.journal.rows # <<>>
            /\ own.journal.header # "row" => NotAfter(own.summary, LastRow(own.journal))
      BY <1>1 DEF FollowInv, SummaryInv, Agree
  <2>4. copy # Absent =>
            /\ copy.whole =>
                copy.rows # <<>> /\ LastRow(copy).turn = succeeded[LastRow(copy).run]
            /\ \A i \in DOMAIN copy.rows : \E later \in DOMAIN succeeded :
                copy.rows[i].run <= later /\ succeeded[later] > 0
      BY <1>1, <2>1 DEF PublishInv, CopyInv, Settled, Reached
  <2>5. QED BY <2>2, <2>3, <2>4 DEF PublicationIsSound
<1>2. QED BY <1>1, ArtifactsTypeCorrect, RunsHold, PTL

\* A reader who takes health, then summary, then journal, between any two writes
\* and after any crash of either program, finds each at least as new as the one
\* before it, and the summary tells what the row of its turn tells.
THEOREM ReadersFollow == Spec => []HealthFollowsJournal
<1>1. FollowInv => HealthFollowsJournal
    BY DEF FollowInv, SummaryInv, HealthInv, Agree, HealthFollowsJournal
<1>2. QED BY <1>1, RunsHold, PTL

------------------------------------------------------------------------------
\* A step that leaves journal and health alone, and every write of another file
\* is one, keeps FlagInv unless it enters a stage FlagInv speaks of.
LEMMA FlagStep ==
    ASSUME TypeOK, FollowInv, FlagInv, [Next]_vars
    PROVE  FlagInv'
<1> DEFINE journal == files["own"]["journal"]
           health  == files["own"]["health"]
<1>a. FilesOK /\ "own" \in Dirs /\ "published" \in Dirs /\ Published \in Dirs
    BY DEF TypeOK, Dirs, Published
<1>b. "journal" \in Names /\ "summary" \in Names /\ "health" \in Names
    BY DEF Names
<1>c. journal \in JournalFile \cup {Absent} /\ health \in HealthFile \cup {Absent}
    BY <1>a DEF FilesOK
<1>d. ASSUME NEW content \in JournalFile, Write("own", "journal", content)
      PROVE  journal' = content /\ journal' # Absent /\ health' = health
    BY <1>a, <1>b, <1>d, WriteKeeps, AbsentIsNoFile DEF Fits
<1>e. ASSUME NEW dir \in Dirs, NEW content, Fits("summary", content),
             Write(dir, "summary", content)
      PROVE  journal' = journal /\ health' = health
    BY <1>a, <1>b, <1>e, WriteKeeps
<1>f. ASSUME NEW content \in JournalFile, Write("published", "journal", content)
      PROVE  journal' = journal /\ health' = health
    BY <1>a, <1>b, <1>f, WriteKeeps DEF Fits
<1>g. ASSUME journal' = journal, health' = health, pc' \notin {"header", "summary", "health"}
      PROVE  FlagInv'
    BY <1>g DEF FlagInv, LastRow, NotAfter
<1> USE DEF process, memory
<1>1. ASSUME NEW p \in {"enhanced", "service"}, Start(p) PROVE FlagInv'
    BY <1>1, <1>g DEF Start
<1>2. ASSUME Stop PROVE FlagInv'
    BY <1>2, <1>g DEF Stop
<1>3. ASSUME NEW shock \in BOOLEAN, Decide(shock) PROVE FlagInv'
    BY <1>3, <1>g DEF Decide, NextWrite
<1>4. ASSUME ArtifactWriteFails PROVE FlagInv'
    BY <1>4, <1>g DEF ArtifactWriteFails
<1>5. ASSUME NEW readable \in BOOLEAN, WriteJournal(readable) PROVE FlagInv'
  <2> DEFINE kept == KeptHeader(readable)
             content == [header |-> kept, whole |-> TRUE,
                         rows |-> Recorded(kept, Newest(rows))]
  <2>1. /\ kept \in Headers \ {"none"}
        /\ content \in JournalFile /\ Write("own", "journal", content)
      BY <1>5, JournalReplaced
  <2>2. /\ pc = "journal" /\ pc' = "summary" /\ mismatch' = (kept # "artifact")
      BY <1>5 DEF WriteJournal, NextWrite, Mismatched
  <2>3. journal' = content /\ journal' # Absent /\ health' = health
      BY <1>d, <2>1
  <2>4. health # Absent /\ ~ health.mismatch => kept = "artifact"
      BY DEF FlagInv, KeptHeader
  <2>5. ASSUME health # Absent, kept = "artifact"
        PROVE  content.rows # <<>> /\ ~ NotAfter(LastRow(content), health)
    <3>1. /\ content.rows # <<>> /\ content.rows[Len(content.rows)] = rows[turn]
          /\ turn \in DOMAIN rows /\ rows[turn].run = run /\ rows[turn].turn = turn
      <4> HIDE DEF kept
      <4>1. turn \in DOMAIN rows
          BY <2>2 DEF FollowInv, MemoryInv, EnhancedPcs, TypeOK, StateOK, Stages
      <4>2. rows[turn].run = run /\ rows[turn].turn = turn
          BY <2>2, <4>1 DEF FollowInv, MemoryInv, EnhancedPcs
      <4>3. Recorded(kept, Newest(rows)) # <<>>
            /\ Recorded(kept, Newest(rows))[Len(Recorded(kept, Newest(rows)))] = rows[turn]
          BY <2>1, <2>2, <2>5, RunnersJournal DEF FollowInv
      <4>4. QED BY <4>1, <4>2, <4>3
    <3>2. health.run \in Nat /\ health.turn \in Nat /\ run \in Nat /\ turn \in Nat
        BY <1>c, <2>5 DEF HealthFile, TypeOK, StateOK
    <3>3. health.run <= run /\ (health.run = run => health.turn < turn)
        BY <2>2, <2>5 DEF FollowInv, HealthInv, EnhancedPcs
    <3> HIDE DEF content, health
    <3>4. QED BY <3>1, <3>2, <3>3 DEF NotAfter, LastRow
  <2>6. content.header = kept
      OBVIOUS
  <2> HIDE DEF content, kept
  <2>7. QED BY <2>1, <2>2, <2>3, <2>4, <2>5, <2>6 DEF FlagInv
<1>6. ASSUME WriteSummary PROVE FlagInv'
  <2> DEFINE content == [by |-> "enhanced", run |-> run, turn |-> turn, whole |-> TRUE,
                         reason |-> rows[Len(rows)].reason]
  <2>1. content \in SummaryFile
    <3>1. rows[Len(rows)] \in Row
        BY <1>6 DEF WriteSummary, TypeOK, StateOK, Stages
    <3>2. QED BY <3>1 DEF SummaryFile, Row, TypeOK, StateOK
  <2>2. Write("own", "summary", content) /\ pc = "summary" /\ pc' = "health"
      BY <1>6 DEF WriteSummary, NextWrite
  <2>3. journal' = journal /\ health' = health
      BY <1>a, <1>e, <2>1, <2>2 DEF Fits
  <2>4. QED BY <1>6, <2>2, <2>3 DEF WriteSummary, FlagInv, LastRow, NotAfter
<1>7. ASSUME WriteHealth PROVE FlagInv'
  <2> DEFINE content == [run |-> run, turn |-> turn, whole |-> TRUE, mismatch |-> mismatch,
                         failed |-> lastError, success |-> lastSuccess]
  <2>1. content \in HealthFile
      BY DEF HealthFile, TypeOK, StateOK
  <2>2. Write("own", "health", content) /\ pc = "health" /\ pc' = "decide"
      BY <1>7 DEF WriteHealth, NextWrite
  <2>3. journal' = journal /\ health' = content
      BY <1>a, <1>b, <2>1, <2>2, WriteKeeps DEF Fits
  <2>4. health'.mismatch = mismatch
      BY <2>3
  <2>5. /\ journal # Absent /\ journal.header # "none"
        /\ mismatch = (journal.header # "artifact")
      BY <2>2 DEF FlagInv
  <2>6. /\ ~ health'.mismatch => journal'.header = "artifact"
        /\ ~ (health'.mismatch /\ journal'.header = "artifact")
      BY <2>3, <2>4, <2>5
  <2>7. pc' \notin {"header", "summary", "health"}
      BY <2>2
  <2> HIDE DEF content, journal, health
  <2>8. journal' # Absent /\ journal'.header # "none"
      BY <2>3, <2>5
  <2>9. QED BY <2>6, <2>7, <2>8 DEF FlagInv, journal, health
<1>8. ASSUME OpenJournal PROVE FlagInv'
  <2>1. CASE journal = Absent
    <3>1. [header |-> "none", rows |-> <<>>, whole |-> FALSE] \in JournalFile
        BY DEF JournalFile, Headers
    <3>2. /\ Write("own", "journal", [header |-> "none", rows |-> <<>>, whole |-> FALSE])
          /\ pc' = "header"
        BY <1>8, <2>1 DEF OpenJournal
    <3>3. health' = health
        BY <1>d, <3>1, <3>2
    <3>4. QED BY <2>1, <3>2, <3>3 DEF FlagInv
  <2>2. CASE journal # Absent
      BY <1>8, <1>g, <2>2 DEF OpenJournal
  <2>3. QED BY <2>1, <2>2
<1>9. ASSUME WriteHeader PROVE FlagInv'
  <2>1. [header |-> "trade", rows |-> <<>>, whole |-> TRUE] \in JournalFile
      BY DEF JournalFile, Headers
  <2>2. /\ Write("own", "journal", [header |-> "trade", rows |-> <<>>, whole |-> TRUE])
        /\ pc = "header" /\ pc' = "append"
      BY <1>9 DEF WriteHeader
  <2>3. health' = health
      BY <1>d, <2>1, <2>2
  <2>4. QED BY <2>2, <2>3 DEF FlagInv
<1>10. ASSUME AppendRow PROVE FlagInv'
  <2> DEFINE row == [run |-> run, turn |-> turn + 1, reason |-> "any"]
             content == [journal EXCEPT !.rows = Append(@, row)]
  <2>1. /\ content \in JournalFile /\ Write("own", "journal", content)
        /\ content.header = journal.header /\ content.rows = Append(journal.rows, row)
        /\ journal \in JournalFile /\ row \in Row /\ row.run = run
      BY <1>10, AppendIsWrite
  <2>2. pc = "append" /\ pc' = "append"
      BY <1>10 DEF AppendRow
  <2> HIDE DEF content, row
  <2>3. journal' = content /\ content # Absent /\ journal # Absent /\ health' = health
      BY <1>d, <2>1, AbsentIsNoFile
  <2>4. content.rows # <<>> /\ LastRow(content) = row
    <3> DEFINE old == journal.rows
    <3>1. old \in Seq(Row)
        BY <2>1 DEF JournalFile
    <3> HIDE DEF old
    <3>2. Append(old, row) # <<>> /\ Append(old, row)[Len(Append(old, row))] = row
        BY <2>1, <3>1
    <3>3. QED BY <2>1, <3>2 DEF LastRow, old
  <2>5. health # Absent => health.run < run /\ health.run \in Nat /\ run \in Nat
      BY <1>c, <2>2 DEF FollowInv, HealthInv, ServicePcs, HealthFile, TypeOK, StateOK
  <2>6. health # Absent => ~ NotAfter(row, health)
      BY <2>1, <2>5 DEF NotAfter
  <2>7. QED BY <2>1, <2>2, <2>3, <2>4, <2>6 DEF FlagInv
<1>11. ASSUME NEW ok \in BOOLEAN, StrategyEnds(ok) PROVE FlagInv'
    BY <1>11, <1>g DEF StrategyEnds
<1>12p. ASSUME CopyPiece PROVE FlagInv'
    BY <1>f, <1>g, <1>12p, PieceCopied DEF CopyPiece
<1>12. ASSUME CopyBegins PROVE FlagInv'
  <2>1. [header |-> "none", rows |-> <<>>, whole |-> FALSE] \in JournalFile
      BY DEF JournalFile, Headers
  <2>2. QED BY <1>12, <1>f, <1>g, <2>1 DEF CopyBegins
<1>13. ASSUME CopyEnds PROVE FlagInv'
  <2>1. journal \in JournalFile
      BY <1>13, <1>c DEF CopyEnds, TypeOK, Stages
  <2>2. QED BY <1>13, <1>f, <1>g, <2>1 DEF CopyEnds
<1>14. ASSUME CopyFails PROVE FlagInv'
    BY <1>14, <1>g DEF CopyFails
<1>15. ASSUME NEW whole \in BOOLEAN, Write(Published, "summary", ServiceSummary(whole))
       PROVE  journal' = journal /\ health' = health
  <2>1. ServiceSummary(whole) \in SummaryFile
      BY DEF ServiceSummary, SummaryFile, Reasons, TypeOK, StateOK
  <2>2. QED BY <1>15, <1>a, <1>e, <2>1 DEF Fits
<1>16. ASSUME SummaryBegins PROVE FlagInv'
    BY <1>15, <1>16, <1>g DEF SummaryBegins
<1>17. ASSUME SummaryEnds PROVE FlagInv'
    BY <1>15, <1>17, <1>g DEF SummaryEnds
<1>18. ASSUME UNCHANGED vars PROVE FlagInv'
    BY <1>18 DEF vars, FlagInv, LastRow, NotAfter
<1>19. QED
    BY <1>1, <1>2, <1>3, <1>4, <1>5, <1>6, <1>7, <1>8, <1>9, <1>10, <1>11, <1>12, <1>13,
       <1>14, <1>16, <1>17, <1>18, <1>12p DEF Next, Bounded

LEMMA FlagHolds == Spec => []FlagInv
<1>1. Init => FlagInv
    BY DEF Init, FlagInv
<1>2. TypeOK /\ FollowInv /\ FlagInv /\ [Next]_vars => FlagInv'
    BY FlagStep
<1>3. QED BY <1>1, <1>2, ArtifactsTypeCorrect, RunsHold, PTL DEF Spec

\* Through every crash, failed write and unreadable journal of either program:
\* schema_mismatch FALSE means the artifacts' columns; TRUE means others, unless
\* the journal's last row is newer than the health file that says so.
THEOREM FlagsAreTrue == Spec => []MismatchFlagIsTrue
<1>1. FlagInv => MismatchFlagIsTrue
    BY DEF FlagInv, MismatchFlagIsTrue
<1>2. QED BY <1>1, FlagHolds, PTL

------------------------------------------------------------------------------
\* Nothing but the runner's write renews the health file.
LEMMA HealthRenewed ==
    ASSUME TypeOK, [Next]_vars, files'["own"].health # files["own"].health
    PROVE  WriteHealth
<1> DEFINE health == files["own"]["health"]
<1> USE DEF OwnFilesStay
<1>a. FilesOK /\ files["own"]["journal"] \in JournalFile \cup {Absent}
    BY DEF TypeOK, FilesOK, Dirs
<1>1. ASSUME NEW readable \in BOOLEAN, WriteJournal(readable) PROVE health' = health
  <2> DEFINE content == [header |-> KeptHeader(readable), whole |-> TRUE,
                         rows |-> Recorded(KeptHeader(readable), Newest(rows))]
  <2>1. content \in JournalFile /\ Write("own", "journal", content)
      BY <1>1, JournalReplaced
  <2> HIDE DEF content
  <2>2. QED BY <1>a, <2>1, JournalWritten
<1>2. ASSUME WriteSummary PROVE health' = health
  <2> DEFINE content == [by |-> "enhanced", run |-> run, turn |-> turn, whole |-> TRUE,
                         reason |-> rows[Len(rows)].reason]
  <2>1. rows[Len(rows)] \in Row
      BY <1>2 DEF WriteSummary, TypeOK, StateOK, Stages
  <2>2. content \in SummaryFile
      BY <2>1 DEF SummaryFile, Row, TypeOK, StateOK
  <2>3. Write("own", "summary", content)
      BY <1>2 DEF WriteSummary
  <2> HIDE DEF content
  <2>4. QED BY <1>a, <2>2, <2>3, SummaryWritten
<1>3. ASSUME OpenJournal PROVE health' = health
  <2>1. [header |-> "none", rows |-> <<>>, whole |-> FALSE] \in JournalFile
      BY DEF JournalFile, Headers
  <2>2. QED BY <1>a, <1>3, <2>1, JournalWritten DEF OpenJournal
<1>4. ASSUME WriteHeader PROVE health' = health
  <2>1. [header |-> "trade", rows |-> <<>>, whole |-> TRUE] \in JournalFile
      BY DEF JournalFile, Headers
  <2>2. QED BY <1>a, <1>4, <2>1, JournalWritten DEF WriteHeader
<1>5. ASSUME AppendRow PROVE health' = health
    BY <1>a, <1>5, AppendIsWrite, JournalWritten
<1>6. CopyBegins \/ CopyPiece \/ CopyEnds => health' = health
    BY ServiceWrites
<1>7. SummaryBegins \/ SummaryEnds => health' = health
    BY ServiceWrites DEF SummaryBegins, SummaryEnds
<1>8. ASSUME NEW p \in {"enhanced", "service"}, Start(p) PROVE health' = health
    BY <1>8 DEF Start
<1>9. ASSUME NEW shock \in BOOLEAN, Decide(shock) PROVE health' = health
    BY <1>9 DEF Decide
<1>10. ASSUME NEW ok \in BOOLEAN, StrategyEnds(ok) PROVE health' = health
    BY <1>10 DEF StrategyEnds
<1>11. Stop \/ ArtifactWriteFails \/ CopyFails => health' = health
    BY DEF Stop, ArtifactWriteFails, CopyFails
<1>12. ASSUME UNCHANGED vars PROVE health' = health
    BY <1>12 DEF vars
<1>13. health' # health
    OBVIOUS
<1> HIDE DEF health
<1>14. QED
    BY <1>1, <1>2, <1>3, <1>4, <1>5, <1>6, <1>7, <1>8, <1>9, <1>10, <1>11, <1>12, <1>13
    DEF Next, Bounded

\* Whenever the health file is renewed, the journal holds exactly the newest rows
\* of the run up to this turn, or blank ones that the file owns up to; a turn
\* that was not written before is told as a failure (write_shadow_artifacts).
THEOREM HealthIsComplete == Spec => HealthMeansComplete
<1> DEFINE journal == files["own"]["journal"]
           last    == files'["own"].health
<1>1. ASSUME TypeOK, FlagInv, FollowInv, WriteHealth
      PROVE  LET written == files'["own"].journal.rows
                 missing == last.turn - Len(written)
             IN  /\ Len(written) = last.turn \/ (Len(written) = MaxRows /\ MaxRows > 0)
                 /\ \A i \in DOMAIN written :
                     \/ written[i].run = run /\ written[i].turn = missing + i
                     \/ last.mismatch /\ files'["own"].journal.header = "row"
                 /\ last.success # last.turn - 1 => last.failed
  <2>1. /\ journal' = journal
        /\ last.turn = turn /\ last.mismatch = mismatch
        /\ last.failed = lastError /\ last.success = lastSuccess
      BY <1>1, HealthWritten
  <2>2. pc = "health"
      BY <1>1 DEF WriteHealth
  <2>3. /\ journal # Absent /\ journal.rows = Recorded(journal.header, Newest(rows))
        /\ mismatch = (journal.header # "artifact")
      BY <1>1, <2>2 DEF FollowInv, JournalInv, FlagInv
  <2>4. journal.header \in Headers
    <3>1. journal \in JournalFile
        BY <1>1, <2>3 DEF TypeOK, FilesOK, Dirs
    <3>2. QED BY <3>1 DEF JournalFile
  <2>5. /\ Len(journal.rows) = turn \/ (Len(journal.rows) = MaxRows /\ MaxRows > 0)
        /\ journal.header # "row" =>
                \A i \in DOMAIN journal.rows :
                    LET at == turn - Len(journal.rows) + i IN
                    /\ journal.rows[i] = rows[at]
                    /\ rows[at].run = run /\ rows[at].turn = at
      BY <1>1, <2>2, <2>3, <2>4, RunnersJournal DEF FollowInv
  <2>6. \A i \in DOMAIN journal.rows :
            \/ /\ journal.rows[i].run = run
               /\ journal.rows[i].turn = turn - Len(journal.rows) + i
            \/ mismatch /\ journal.header = "row"
      BY <2>3, <2>5
  <2>7. lastSuccess # turn - 1 => lastError
      BY <1>1, <2>2 DEF FollowInv, MemoryInv, EnhancedPcs
  <2> HIDE DEF last
  <2>8. QED BY <2>1, <2>5, <2>6, <2>7
<1>2. TypeOK /\ FlagInv /\ FollowInv /\ [Next]_vars =>
        [files'["own"].health # files["own"].health =>
            LET written == files'["own"].journal.rows
                missing == last.turn - Len(written)
            IN  /\ Len(written) = last.turn \/ (Len(written) = MaxRows /\ MaxRows > 0)
                /\ \A i \in DOMAIN written :
                    \/ written[i].run = run /\ written[i].turn = missing + i
                    \/ last.mismatch /\ files'["own"].journal.header = "row"
                /\ last.success # last.turn - 1 => last.failed]_vars
    BY <1>1, HealthRenewed
<1>3. QED BY <1>2, ArtifactsTypeCorrect, FlagHolds, RunsHold, PTL DEF Spec, HealthMeansComplete
==============================================================================
