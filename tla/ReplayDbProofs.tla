---------------------------- MODULE ReplayDbProofs ----------------------------
(***************************************************************************)
(* Theorems about ReplayDb, for any stored rows, page size and table.      *)
(***************************************************************************)
EXTENDS ReplayDb, FiniteSetTheorems, SequenceTheorems, TLAPS

Sorts(S, order) ==
    /\ \A x \in S : <<x, x>> \notin order
    /\ \A x, y, z \in S : <<x, y>> \in order /\ <<y, z>> \in order => <<x, z>> \in order
    /\ \A x, y \in S : x = y \/ <<x, y>> \in order \/ <<y, x>> \in order

LEMMA Interval ==
    ASSUME NEW n \in Nat
    PROVE  IsFiniteSet(1..n) /\ Cardinality(1..n) = n
<1>1. IsFiniteSet(1..n) /\ Cardinality(1..n) = IF 1 > n THEN 0 ELSE n - 1 + 1
    BY FS_Interval
<1>2. (IF 1 > n THEN 0 ELSE n - 1 + 1) = n
    OBVIOUS
<1>3. QED BY <1>1, <1>2

\* A smaller element has a smaller place.
LEMMA PlacesFollow ==
    ASSUME NEW S, IsFiniteSet(S), NEW order, Sorts(S, order)
    PROVE  /\ \A x \in S : Place(S, order, x) \in 1..Cardinality(S)
           /\ \A x, y \in S : <<x, y>> \in order => Place(S, order, x) < Place(S, order, y)
<1>1. Cardinality(S) \in Nat
    BY FS_CardinalityType
<1>2. ASSUME NEW x \in S
      PROVE  /\ IsFiniteSet(Before(S, order, x)) /\ Cardinality(Before(S, order, x)) \in Nat
             /\ Cardinality(Before(S, order, x)) < Cardinality(S)
  <2>1. Before(S, order, x) \in SUBSET S /\ x \notin Before(S, order, x)
      BY DEF Before, Sorts
  <2>2. /\ IsFiniteSet(Before(S, order, x))
        /\ Cardinality(Before(S, order, x)) <= Cardinality(S)
        /\ Cardinality(S) = Cardinality(Before(S, order, x)) => S = Before(S, order, x)
      BY <2>1, FS_Subset
  <2>3. Cardinality(Before(S, order, x)) \in Nat
      BY <2>2, FS_CardinalityType
  <2>4. QED BY <1>1, <2>1, <2>2, <2>3
<1>3. ASSUME NEW x \in S, NEW y \in S, <<x, y>> \in order
      PROVE  Cardinality(Before(S, order, x)) < Cardinality(Before(S, order, y))
  <2>1. Before(S, order, x) \in SUBSET Before(S, order, y)
      BY <1>3 DEF Before, Sorts
  <2>2. x \in Before(S, order, y) /\ x \notin Before(S, order, x)
      BY <1>3 DEF Before, Sorts
  <2>3. /\ Cardinality(Before(S, order, x)) <= Cardinality(Before(S, order, y))
        /\ Cardinality(Before(S, order, y)) = Cardinality(Before(S, order, x)) =>
                Before(S, order, y) = Before(S, order, x)
      BY <1>2, <2>1, FS_Subset
  <2>4. QED BY <1>2, <2>2, <2>3
<1>4. QED BY <1>1, <1>2, <1>3 DEF Place

\* A ranking has every element, at its place, and nothing else.
LEMMA RankingComplete ==
    ASSUME NEW S, IsFiniteSet(S), NEW order, Sorts(S, order)
    PROVE  LET ranking == Ranking(S, order) IN
           /\ DOMAIN ranking = 1..Cardinality(S)
           /\ \A p \in DOMAIN ranking :
                ranking[p] \in S /\ Place(S, order, ranking[p]) = p
           /\ \A x \in S : /\ Place(S, order, x) \in DOMAIN ranking
                           /\ ranking[Place(S, order, x)] = x
<1> DEFINE n == Cardinality(S)
           place == [x \in S |-> Place(S, order, x)]
           ranking == Ranking(S, order)
<1>1. n \in Nat /\ IsFiniteSet(1..n) /\ Cardinality(1..n) = n
    BY FS_CardinalityType, Interval
<1>2. /\ \A x \in S : Place(S, order, x) \in 1..n
      /\ \A x, y \in S : <<x, y>> \in order => Place(S, order, x) < Place(S, order, y)
    BY PlacesFollow
<1>3. \A x, y \in S : Place(S, order, x) = Place(S, order, y) => x = y
  <2>1. ASSUME NEW x \in S, NEW y \in S, Place(S, order, x) = Place(S, order, y)
        PROVE  x = y
    <3>1. Place(S, order, x) \in Int /\ Place(S, order, y) \in Int
        BY <1>2
    <3>2. <<x, y>> \notin order /\ <<y, x>> \notin order
        BY <1>2, <2>1, <3>1
    <3>3. QED BY <3>2 DEF Sorts
  <2>2. QED BY <2>1
<1>4. place \in Injection(S, 1..n)
    BY <1>2, <1>3 DEF Injection, IsInjective
<1>5. place \in Surjection(S, 1..n)
    BY <1>1, <1>4, FS_Injection
<1>6. \A p \in 1..n : \E x \in S : Place(S, order, x) = p
    BY <1>5 DEF Surjection
<1>7. ranking = [p \in 1..n |-> CHOOSE x \in S : Place(S, order, x) = p]
    BY DEF Ranking
<1>8. \A p \in 1..n : ranking[p] \in S /\ Place(S, order, ranking[p]) = p
    BY <1>6, <1>7
<1>9. DOMAIN ranking = 1..n
    BY <1>7
<1> HIDE DEF ranking, n
<1>10. \A x \in S : /\ Place(S, order, x) \in DOMAIN ranking
                    /\ ranking[Place(S, order, x)] = x
    BY <1>2, <1>3, <1>8, <1>9
<1>11. QED BY <1>8, <1>9, <1>10 DEF ranking, n

------------------------------------------------------------------------------
LEMMA RowsSorted ==
    ASSUME NEW stamps \in Seq(Nat)
    PROVE  /\ IsFiniteSet(DOMAIN stamps) /\ Cardinality(DOMAIN stamps) = Len(stamps)
           /\ Len(stamps) \in Nat
           /\ Sorts(DOMAIN stamps, Earlier(stamps))
<1>1. DOMAIN stamps = 1..Len(stamps) /\ Len(stamps) \in Nat
    OBVIOUS
<1>2. \A i \in DOMAIN stamps : stamps[i] \in Nat /\ i \in Nat
    OBVIOUS
<1>3. \A i, j \in DOMAIN stamps :
        <<i, j>> \in Earlier(stamps) <=>
            stamps[i] < stamps[j] \/ (stamps[i] = stamps[j] /\ i < j)
    BY DEF Earlier
<1>4. Sorts(DOMAIN stamps, Earlier(stamps))
  <2>1. \A i \in DOMAIN stamps : <<i, i>> \notin Earlier(stamps)
      BY <1>2, <1>3
  <2>2. ASSUME NEW i \in DOMAIN stamps, NEW j \in DOMAIN stamps, NEW k \in DOMAIN stamps,
               <<i, j>> \in Earlier(stamps), <<j, k>> \in Earlier(stamps)
        PROVE  <<i, k>> \in Earlier(stamps)
      BY <1>2, <1>3, <2>2
  <2>3. ASSUME NEW i \in DOMAIN stamps, NEW j \in DOMAIN stamps
        PROVE  i = j \/ <<i, j>> \in Earlier(stamps) \/ <<j, i>> \in Earlier(stamps)
    <3>1. /\ stamps[i] < stamps[j] \/ stamps[i] = stamps[j] \/ stamps[j] < stamps[i]
          /\ i < j \/ i = j \/ j < i
        BY <1>2
    <3>2. /\ <<i, j>> \in Earlier(stamps) <=>
                stamps[i] < stamps[j] \/ (stamps[i] = stamps[j] /\ i < j)
          /\ <<j, i>> \in Earlier(stamps) <=>
                stamps[j] < stamps[i] \/ (stamps[j] = stamps[i] /\ j < i)
        BY <1>3
    <3>3. QED BY <3>1, <3>2
  <2>4. QED BY <2>1, <2>2, <2>3 DEF Sorts
<1>5. QED BY <1>1, <1>4, Interval
------------------------------------------------------------------------------
(***************************************************************************)
(* What the replay has shown at each point of its loop.  A row written     *)
(* back can only push a stored row to a later place, so a stored row that  *)
(* is still to come stays beyond the offset.                               *)
(***************************************************************************)
PlaceOf(id) == Place(DOMAIN table, Earlier(table), id)

ShownUpTo(last, ids) ==
    \A id \in DOMAIN Original : PlaceOf(id) <= last => id \in ids

TableInv ==
    /\ table \in Seq(Nat) /\ pending \in Seq(Nat)
    /\ Len(Original) <= Len(table)
    /\ \A id \in DOMAIN Original : table[id] = Original[id]

ReplayInv ==
    /\ pc \in {"top", "query", "page", "ended", "failed", "killed"}
    /\ offset \in Nat
    /\ page \in Seq(DOMAIN table) /\ visited \in Seq(DOMAIN table)
    /\ pc \in {"top", "query"} => page = <<>>

CoverInv ==
    shutdown # "received" =>
        /\ pc \in {"top", "query"} => ShownUpTo(offset, Range(visited))
        /\ pc = "page" => ShownUpTo(offset + Limit, Range(visited) \cup Range(page))
        /\ pc = "ended" => DOMAIN Original \subseteq Range(visited)

\* What has been visited and what is left of the page lie, one after the other, in
\* the order of the table, set back by the rows written back at most.  The offset
\* is the number of rows visited, or beyond it when the stored rows have all been.
WrittenBack == Len(table) - Len(Original)

InOrder(ids, from) ==
    \A i \in DOMAIN ids : PlaceOf(ids[i]) \in (from + i) .. (from + i + WrittenBack)

Reaches(shown, last) == shown <= last /\ (shown = last \/ Len(Original) <= shown)

OrderInv ==
    shutdown # "received" =>
        /\ InOrder(visited, 0)
        /\ InOrder(page, Len(visited))
        /\ pc \in {"top", "query"} => Reaches(Len(visited), offset)
        /\ pc = "page" => Reaches(Len(visited) + Len(page), offset + Limit)

Inv == TableInv /\ ReplayInv /\ CoverInv /\ OrderInv
------------------------------------------------------------------------------
(* The rows in their order, and the page cut out of them. *)

LEMMA OrderedRows ==
    ASSUME NEW stamps \in Seq(Nat)
    PROVE  /\ DOMAIN Ordered(stamps) = 1..Len(stamps)
           /\ \A p \in 1..Len(stamps) :
                /\ Ordered(stamps)[p] \in DOMAIN stamps
                /\ Place(DOMAIN stamps, Earlier(stamps), Ordered(stamps)[p]) = p
           /\ \A id \in DOMAIN stamps :
                /\ Place(DOMAIN stamps, Earlier(stamps), id) \in 1..Len(stamps)
                /\ Ordered(stamps)[Place(DOMAIN stamps, Earlier(stamps), id)] = id
           /\ \A id, other \in DOMAIN stamps :
                <<id, other>> \in Earlier(stamps) =>
                    Place(DOMAIN stamps, Earlier(stamps), id)
                        < Place(DOMAIN stamps, Earlier(stamps), other)
<1> DEFINE S == DOMAIN stamps
           order == Earlier(stamps)
<1>1. /\ IsFiniteSet(S) /\ Sorts(S, order)
      /\ Cardinality(S) = Len(stamps)
    BY RowsSorted
<1> HIDE DEF S, order
<1>2. LET ranking == Ranking(S, order) IN
      /\ DOMAIN ranking = 1..Cardinality(S)
      /\ \A p \in DOMAIN ranking :
            ranking[p] \in S /\ Place(S, order, ranking[p]) = p
      /\ \A x \in S : /\ Place(S, order, x) \in DOMAIN ranking
                      /\ ranking[Place(S, order, x)] = x
    BY <1>1, RankingComplete
<1>3. \A x, y \in S : <<x, y>> \in order => Place(S, order, x) < Place(S, order, y)
    BY <1>1, PlacesFollow
<1>4. Ordered(stamps) = Ranking(S, order)
    BY DEF Ordered, S, order
<1>5. QED BY <1>1, <1>2, <1>3, <1>4 DEF S, order

\* A page holds the rows of the places from + 1 to from + Limit, as far as
\* there are any.
LEMMA PageRows ==
    ASSUME NEW stamps \in Seq(Nat), NEW from \in Nat
    PROVE  /\ PageOf(stamps, from) \in Seq(DOMAIN stamps)
           /\ \/ /\ Len(stamps) <= from /\ Len(PageOf(stamps, from)) = 0
              \/ /\ from < Len(stamps) /\ Len(stamps) <= from + Limit
                 /\ Len(PageOf(stamps, from)) = Len(stamps) - from
              \/ /\ from + Limit < Len(stamps)
                 /\ Len(PageOf(stamps, from)) = Limit
           /\ \A i \in DOMAIN PageOf(stamps, from) :
                PageOf(stamps, from)[i] = Ordered(stamps)[from + i]
<1> DEFINE n == Len(stamps)
           order == Ordered(stamps)
           last == IF from + Limit < n THEN from + Limit ELSE n
           rows == PageOf(stamps, from)
<1>1. n \in Nat /\ last \in Nat /\ Limit \in Nat \ {0}
    BY ReplayAssumption
<1>2. last <= n
    BY <1>1
<1>3. \A p \in 1..n : order[p] \in DOMAIN stamps
    BY OrderedRows
<1>4. rows = SubSeq(order, from + 1, last)
    BY DEF PageOf
<1> HIDE DEF order, rows
<1>5. \A p \in (from + 1)..last : order[p] \in DOMAIN stamps
  <2>1. \A p \in (from + 1)..last : p \in 1..n
      BY <1>1, <1>2
  <2>2. QED BY <1>3, <2>1
<1>6. /\ rows \in Seq(DOMAIN stamps)
      /\ Len(rows) = IF from + 1 <= last THEN last - (from + 1) + 1 ELSE 0
      /\ \A i \in 1..(last - (from + 1) + 1) : rows[i] = order[from + 1 + i - 1]
  <2>1. from + 1 \in Int /\ last \in Int
      BY <1>1
  <2> HIDE DEF last
  <2>2. QED BY <1>4, <1>5, <2>1, SubSeqProperties
<1>7. \/ n <= from /\ Len(rows) = 0
      \/ from < n /\ n <= from + Limit /\ Len(rows) = n - from
      \/ from + Limit < n /\ Len(rows) = Limit
    BY <1>1, <1>6
<1>8. DOMAIN rows = 1..Len(rows)
    BY <1>6
<1>9. ASSUME NEW i \in DOMAIN rows
      PROVE  rows[i] = order[from + i]
  <2>1. i \in 1..(last - (from + 1) + 1) /\ from + 1 + i - 1 = from + i
      BY <1>1, <1>6, <1>8
  <2>2. QED BY <1>6, <2>1
<1>10. QED BY <1>6, <1>7, <1>9 DEF rows, order

\* A row stored later does not bring an earlier one forward, and pushes it back
\* by one place at most.
LEMMA PlacesGrow ==
    ASSUME NEW stamps \in Seq(Nat), NEW stamp \in Nat, NEW id \in DOMAIN stamps
    PROVE  LET before == Place(DOMAIN stamps, Earlier(stamps), id)
               after  == Place(DOMAIN Append(stamps, stamp), Earlier(Append(stamps, stamp)), id)
           IN  before \in Nat /\ after \in {before, before + 1}
<1> DEFINE more == Append(stamps, stamp)
           last == Len(stamps) + 1
           few == Before(DOMAIN stamps, Earlier(stamps), id)
           many == Before(DOMAIN more, Earlier(more), id)
<1>1. /\ more \in Seq(Nat) /\ DOMAIN more = DOMAIN stamps \cup {last}
      /\ last \notin DOMAIN stamps
      /\ \A i \in DOMAIN stamps : more[i] = stamps[i]
    OBVIOUS
<1> HIDE DEF more, last
<1>2. IsFiniteSet(DOMAIN stamps)
    BY RowsSorted
<1>3. few \in SUBSET DOMAIN stamps
    BY DEF Before
<1>4. IsFiniteSet(few) /\ Cardinality(few) \in Nat
    BY <1>2, <1>3, FS_Subset, FS_CardinalityType
<1>5. many = few \/ many = few \cup {last}
    BY <1>1 DEF Before, Earlier
<1>6. last \notin few
    BY <1>1, <1>3
<1>7. Cardinality(few \cup {last}) = Cardinality(few) + 1
    BY <1>4, <1>6, FS_AddElement
<1>8. Cardinality(many) \in {Cardinality(few), Cardinality(few) + 1}
    BY <1>5, <1>7
<1> HIDE DEF few, many
<1>9. QED BY <1>4, <1>8 DEF Place, few, many, more
------------------------------------------------------------------------------
(* The invariants, one action after the other. *)

LEMMA InitInv == Init => Inv
<1> SUFFICES ASSUME Init PROVE Inv
    OBVIOUS
<1>1. /\ table = Original /\ pc = "top" /\ offset = 0 /\ page = <<>>
      /\ pending = <<>> /\ shutdown = "none" /\ visited = <<>>
    BY DEF Init
<1>2. TableInv
    BY <1>1, ReplayAssumption DEF TableInv
<1>3. ReplayInv
    BY <1>1 DEF ReplayInv
<1>4. CoverInv
  <2>1. ASSUME NEW id \in DOMAIN Original
        PROVE  1 <= PlaceOf(id)
      BY <1>1, ReplayAssumption, OrderedRows DEF PlaceOf
  <2>2. ASSUME NEW id \in DOMAIN Original
        PROVE  PlaceOf(id) \in Int
      BY <1>1, ReplayAssumption, OrderedRows DEF PlaceOf
  <2>3. ShownUpTo(0, Range(visited))
      BY <2>1, <2>2 DEF ShownUpTo
  <2>4. QED BY <1>1, <2>3 DEF CoverInv
<1>5. OrderInv
    BY <1>1, ReplayAssumption DEF OrderInv, InOrder, Reaches
<1>6. QED BY <1>2, <1>3, <1>4, <1>5 DEF Inv

\* Only the persist task changes the table.
LEMMA PlacesKept ==
    ASSUME UNCHANGED table
    PROVE  /\ \A id : PlaceOf(id)' = PlaceOf(id)
           /\ \A last, ids : ShownUpTo(last, ids) =>
                \A id \in DOMAIN Original : PlaceOf(id)' <= last => id \in ids
<1>1. \A id : PlaceOf(id)' = PlaceOf(id)
    BY DEF PlaceOf
<1>2. QED BY <1>1 DEF ShownUpTo

LEMMA FetchHolds == Inv /\ Fetch => Inv'
<1> SUFFICES ASSUME Inv, Fetch PROVE Inv'
    OBVIOUS
<1>1. /\ pc = "query" /\ page' = PageOf(table, offset)
      /\ pc' = IF page' = <<>> THEN "ended" ELSE "page"
      /\ UNCHANGED <<table, offset, sequence, pending, shutdown, visited>>
    BY DEF Fetch
<1>2. /\ table \in Seq(Nat) /\ Len(Original) <= Len(table)
      /\ offset \in Nat /\ visited \in Seq(DOMAIN table) /\ Limit \in Nat \ {0}
      /\ Original \in Seq(Nat) /\ Len(table) \in Nat /\ Len(Original) \in Nat
    BY ReplayAssumption DEF Inv, TableInv, ReplayInv
<1>3. /\ page' \in Seq(DOMAIN table)
      /\ \/ Len(table) <= offset /\ Len(page') = 0
         \/ /\ offset < Len(table) /\ Len(table) <= offset + Limit
            /\ Len(page') = Len(table) - offset
         \/ offset + Limit < Len(table) /\ Len(page') = Limit
      /\ \A i \in DOMAIN page' : page'[i] = Ordered(table)[offset + i]
    BY <1>1, <1>2, PageRows
<1>4. DOMAIN page' = 1..Len(page') /\ (page' = <<>> <=> Len(page') = 0)
    BY <1>3
<1>5. TableInv'
    BY <1>1 DEF Inv, TableInv
<1>6. ReplayInv'
    BY <1>1, <1>2, <1>3 DEF ReplayInv
<1>7. CoverInv'
  <2> SUFFICES ASSUME shutdown # "received" PROVE CoverInv'
      BY <1>1 DEF CoverInv
  <2>1. \A id \in DOMAIN Original : PlaceOf(id) <= offset => id \in Range(visited)
      BY <1>1 DEF Inv, CoverInv, ShownUpTo
  <2>2. \A id \in DOMAIN Original :
            /\ PlaceOf(id) \in 1..Len(table)
            /\ Ordered(table)[PlaceOf(id)] = id
    <3>1. DOMAIN Original \subseteq DOMAIN table
        BY <1>2
    <3>2. QED BY <1>2, <3>1, OrderedRows DEF PlaceOf
  <2>3. CASE page' = <<>>
    <3>1. Len(table) <= offset
        BY <1>2, <1>3, <1>4, <2>3
    <3>2. \A id \in DOMAIN Original : id \in Range(visited)
        BY <1>2, <2>1, <2>2, <3>1
    <3>3. QED BY <1>1, <2>3, <3>2 DEF CoverInv
  <2>4. CASE page' # <<>>
    <3>1. ASSUME NEW id \in DOMAIN Original, PlaceOf(id) <= offset + Limit,
                 offset < PlaceOf(id)
          PROVE  id \in Range(page')
      <4> DEFINE place == PlaceOf(id)
                 length == Len(page')
      <4> HIDE DEF place, length
      <4>3. place \in 1..Len(table) /\ place <= offset + Limit /\ offset < place
          BY <2>2, <3>1 DEF place
      <4>4. \/ Len(table) <= offset /\ length = 0
            \/ offset < Len(table) /\ Len(table) <= offset + Limit /\ length = Len(table) - offset
            \/ offset + Limit < Len(table) /\ length = Limit
          BY <1>3 DEF length
      <4>5. place - offset \in 1..length /\ offset + (place - offset) = place
          BY <1>2, <4>3, <4>4
      <4>6. place - offset \in DOMAIN page' /\ offset + (place - offset) = place
          BY <1>4, <4>5 DEF length
      <4>7. page'[place - offset] = id
          BY <1>3, <2>2, <4>6 DEF place
      <4>8. QED BY <4>6, <4>7 DEF Range
    <3>2. \A id \in DOMAIN Original :
              PlaceOf(id) <= offset + Limit => id \in Range(visited) \cup Range(page')
        BY <1>2, <2>1, <2>2, <3>1
    <3>3. (ShownUpTo(offset + Limit, Range(visited) \cup Range(page)))'
        BY <1>1, <3>2, PlacesKept DEF ShownUpTo
    <3>4. QED BY <1>1, <2>4, <3>3 DEF CoverInv
  <2>5. QED BY <2>3, <2>4
<1>8. OrderInv'
  <2> SUFFICES ASSUME shutdown # "received" PROVE OrderInv'
      BY <1>1 DEF OrderInv
  <2> DEFINE seen == Len(visited)
             length == Len(page')
             stored == Len(Original)
             rows == Len(table)
  <2>1. /\ InOrder(visited, 0) /\ seen <= offset
        /\ seen = offset \/ stored <= seen
      BY <1>1 DEF Inv, OrderInv, Reaches
  <2>2. /\ seen \in Nat /\ stored \in Nat /\ rows \in Nat /\ stored <= rows
        /\ offset \in Nat /\ Limit \in Nat \ {0}
        /\ \/ rows <= offset /\ length = 0
           \/ offset < rows /\ rows <= offset + Limit /\ length = rows - offset
           \/ offset + Limit < rows /\ length = Limit
      BY <1>2, <1>3
  <2>3. InOrder(visited, 0)'
      BY <1>1, <2>1, PlacesKept DEF InOrder, WrittenBack
  <2>4. InOrder(page, Len(visited))'
    <3>1. ASSUME NEW i \in DOMAIN page'
          PROVE  Place(DOMAIN table, Earlier(table), page'[i])
                    \in (seen + i) .. (seen + i + (rows - stored))
      <4>1. i \in 1..length /\ page'[i] = Ordered(table)[offset + i]
          BY <1>3, <1>4
      <4>2. offset + i \in 1..rows
          BY <2>2, <4>1
      <4>3. Place(DOMAIN table, Earlier(table), page'[i]) = offset + i
          BY <1>2, <4>1, <4>2, OrderedRows
      <4> HIDE DEF seen, length, stored, rows
      <4>4. offset + i \in (seen + i) .. (seen + i + (rows - stored))
          BY <2>1, <2>2, <4>1, <4>2
      <4>5. QED BY <4>3, <4>4
    <3>2. QED BY <1>1, <3>1 DEF InOrder, PlaceOf, WrittenBack
  <2>5. page' # <<>> => Reaches(seen + length, offset + Limit)
    <3>1. page' # <<>> => length # 0
        BY <1>4
    <3> HIDE DEF seen, length, rows
    <3>2. length # 0 => Reaches(seen + length, offset + Limit)
        BY <2>1, <2>2 DEF Reaches, stored
    <3>3. QED BY <3>1, <3>2
  <2>6. pc' \notin {"top", "query"} /\ (pc' = "page" => page' # <<>>)
      BY <1>1
  <2>7. (Reaches(Len(visited) + Len(page), offset + Limit))'
            <=> Reaches(seen + length, offset + Limit)
      BY <1>1 DEF Reaches
  <2> HIDE DEF seen, length
  <2>8. QED BY <2>3, <2>4, <2>5, <2>6, <2>7 DEF OrderInv
<1>9. QED BY <1>5, <1>6, <1>7, <1>8 DEF Inv

LEMMA VisitRowHolds == Inv /\ VisitRow => Inv'
<1> SUFFICES ASSUME Inv, VisitRow PROVE Inv'
    OBVIOUS
<1>1. /\ pc = "page" /\ page # <<>> /\ shutdown # "sent"
      /\ page' = Tail(page) /\ visited' = Append(visited, Head(page))
      /\ UNCHANGED <<table, offset, shutdown>>
    BY DEF VisitRow
<1>2. /\ pc' \in {"page", "killed"}
      /\ pending' \in {pending, Append(pending, table[Head(page)])}
    BY <1>1 DEF VisitRow
<1>3. /\ table \in Seq(Nat) /\ pending \in Seq(Nat) /\ offset \in Nat
      /\ page \in Seq(DOMAIN table) /\ visited \in Seq(DOMAIN table)
      /\ Limit \in Nat \ {0} /\ Original \in Seq(Nat) /\ Len(Original) \in Nat
    BY ReplayAssumption DEF Inv, TableInv, ReplayInv
<1>4. /\ Head(page) \in DOMAIN table /\ Tail(page) \in Seq(DOMAIN table)
      /\ Len(page) \in Nat /\ Len(page) >= 1 /\ Head(page) = page[1]
      /\ Len(Tail(page)) = Len(page) - 1
      /\ DOMAIN page = 1..Len(page) /\ DOMAIN Tail(page) = 1..(Len(page) - 1)
      /\ \A i \in DOMAIN Tail(page) : Tail(page)[i] = page[i + 1]
    BY <1>1, <1>3
<1>5. Head(page) \in Nat /\ table[Head(page)] \in Nat
    BY <1>3, <1>4
<1>6. /\ visited' \in Seq(DOMAIN table) /\ Len(visited') = Len(visited) + 1
      /\ Len(visited) \in Nat
      /\ DOMAIN visited' = 1..(Len(visited) + 1) /\ DOMAIN visited = 1..Len(visited)
      /\ \A i \in DOMAIN visited : visited'[i] = visited[i]
      /\ visited'[Len(visited) + 1] = page[1]
  <2> DEFINE ids == DOMAIN table
             first == page[1]
  <2>1. visited \in Seq(ids) /\ first \in ids /\ visited' = Append(visited, first)
      BY <1>1, <1>3, <1>4
  <2> HIDE DEF ids, first
  <2>2. /\ visited' \in Seq(ids) /\ Len(visited') = Len(visited) + 1
        /\ Len(visited) \in Nat
        /\ DOMAIN visited' = 1..(Len(visited) + 1) /\ DOMAIN visited = 1..Len(visited)
        /\ \A i \in DOMAIN visited : visited'[i] = visited[i]
        /\ visited'[Len(visited) + 1] = first
      BY <2>1
  <2>3. QED BY <2>2 DEF ids, first
<1>7. TableInv'
  <2>1. \A stamps \in Seq(Nat), stamp \in Nat : Append(stamps, stamp) \in Seq(Nat)
      OBVIOUS
  <2>2. pending' \in Seq(Nat)
      BY <1>2, <1>3, <1>5, <2>1
  <2>3. QED BY <1>1, <2>2 DEF Inv, TableInv
<1>8. ReplayInv'
    BY <1>1, <1>2, <1>3, <1>4, <1>6 DEF ReplayInv
<1>9. CoverInv'
  <2> SUFFICES ASSUME shutdown # "received", pc' = "page" PROVE CoverInv'
      BY <1>1, <1>2 DEF CoverInv
  <2>1. \A id \in DOMAIN Original :
            PlaceOf(id) <= offset + Limit => id \in Range(visited) \cup Range(page)
      BY <1>1 DEF Inv, CoverInv, ShownUpTo
  <2>2. Range(visited) \subseteq Range(visited')
    <3>1. DOMAIN visited \subseteq DOMAIN visited'
        BY <1>6
    <3>2. QED BY <1>6, <3>1 DEF Range
  <2>3. ASSUME NEW i \in DOMAIN page
        PROVE  page[i] \in Range(visited') \cup Range(page')
    <3>1. CASE i = 1
      <4>1. Len(visited) + 1 \in DOMAIN visited'
          BY <1>6
      <4>2. QED BY <1>6, <3>1, <4>1 DEF Range
    <3>2. CASE i # 1
      <4>1. i - 1 \in DOMAIN Tail(page) /\ (i - 1) + 1 = i
          BY <1>4, <3>2
      <4>2. Tail(page)[i - 1] = page[i]
          BY <1>4, <4>1
      <4>3. QED BY <1>1, <4>1, <4>2 DEF Range
    <3>3. QED BY <3>1, <3>2
  <2>4. Range(visited) \cup Range(page) \subseteq Range(visited') \cup Range(page')
      BY <2>2, <2>3 DEF Range
  <2>5. \A id \in DOMAIN Original :
            PlaceOf(id) <= offset + Limit => id \in Range(visited') \cup Range(page')
      BY <2>1, <2>4
  <2>6. (ShownUpTo(offset + Limit, Range(visited) \cup Range(page)))'
      BY <1>1, <2>5, PlacesKept DEF ShownUpTo
  <2>7. QED BY <2>6 DEF CoverInv
<1>10. OrderInv'
  <2> SUFFICES ASSUME shutdown # "received" PROVE OrderInv'
      BY <1>1 DEF OrderInv
  <2> DEFINE seen == Len(visited)
             wb == WrittenBack
  <2>1. /\ \A i \in DOMAIN visited : PlaceOf(visited[i]) \in (0 + i) .. (0 + i + wb)
        /\ \A i \in DOMAIN page : PlaceOf(page[i]) \in (seen + i) .. (seen + i + wb)
        /\ Reaches(seen + Len(page), offset + Limit)
      BY <1>1 DEF Inv, OrderInv, InOrder
  <2>2. /\ Len(visited') = seen + 1 /\ Len(page') = Len(page) - 1
        /\ seen \in Nat /\ Len(page) \in Nat /\ wb \in Int
    <3>1. wb \in Int
        BY <1>3 DEF WrittenBack
    <3>2. QED BY <1>1, <1>4, <1>6, <3>1
  <2>3. ASSUME NEW i \in DOMAIN visited'
        PROVE  PlaceOf(visited'[i]) \in (0 + i) .. (0 + i + wb)
    <3>1. CASE i \in DOMAIN visited
        BY <1>6, <2>1, <3>1
    <3>2. CASE i \notin DOMAIN visited
      <4>1. i = seen + 1 /\ 1 \in DOMAIN page /\ visited'[i] = page[1]
          BY <1>4, <1>6, <3>2
      <4>2. PlaceOf(visited'[i]) \in (seen + 1) .. (seen + 1 + wb)
          BY <2>1, <4>1
      <4>3. 0 + i = seen + 1
          BY <2>2, <4>1
      <4>4. QED BY <4>2, <4>3
    <3>3. QED BY <3>1, <3>2
  <2>4. ASSUME NEW i \in DOMAIN page'
        PROVE  PlaceOf(page'[i]) \in (Len(visited') + i) .. (Len(visited') + i + wb)
    <3>1. i \in 1..(Len(page) - 1) /\ page'[i] = page[i + 1]
        BY <1>1, <1>4
    <3>2. i + 1 \in DOMAIN page /\ seen + (i + 1) = Len(visited') + i
        BY <1>4, <2>2, <3>1
    <3>3. PlaceOf(page[i + 1]) \in (seen + (i + 1)) .. (seen + (i + 1) + wb)
        BY <2>1, <3>2
    <3>4. QED BY <3>1, <3>2, <3>3
  <2>5. WrittenBack' = wb
        /\ \A id : PlaceOf(id)' = PlaceOf(id)
      BY <1>1, PlacesKept DEF WrittenBack
  <2>6. InOrder(visited, 0)' /\ InOrder(page, Len(visited))'
      BY <1>1, <2>3, <2>4, <2>5 DEF InOrder, PlaceOf, WrittenBack
  <2>7. (Reaches(Len(visited) + Len(page), offset + Limit))'
    <3>1. Len(visited') + Len(page') = seen + Len(page)
        BY <2>2
    <3>2. QED BY <1>1, <2>1, <3>1 DEF Reaches
  <2>8. pc' \notin {"top", "query"}
      BY <1>2
  <2>9. QED BY <2>6, <2>7, <2>8 DEF OrderInv
<1>11. QED BY <1>7, <1>8, <1>9, <1>10 DEF Inv

LEMMA PageDoneHolds == Inv /\ PageDone => Inv'
<1> SUFFICES ASSUME Inv, PageDone PROVE Inv'
    OBVIOUS
<1>1. /\ pc = "page" /\ page = <<>> /\ offset' = offset + Limit /\ pc' = "top"
      /\ UNCHANGED <<table, page, sequence, pending, shutdown, visited>>
    BY DEF PageDone, NextOffset
<1>2. /\ offset \in Nat /\ Limit \in Nat /\ visited \in Seq(DOMAIN table)
      /\ Original \in Seq(Nat)
    BY ReplayAssumption DEF Inv, ReplayInv
<1>3. Len(page) = 0 /\ Len(visited) \in Nat /\ Len(Original) \in Nat /\ offset' \in Nat
    BY <1>1, <1>2
<1>4. TableInv' /\ ReplayInv'
    BY <1>1, <1>3 DEF Inv, TableInv, ReplayInv
<1>5. CoverInv'
  <2> SUFFICES ASSUME shutdown # "received" PROVE CoverInv'
      BY <1>1 DEF CoverInv
  <2>1. Range(page) = {}
      BY <1>1 DEF Range
  <2>2. \A id \in DOMAIN Original : PlaceOf(id) <= offset' => id \in Range(visited)
      BY <1>1, <2>1 DEF Inv, CoverInv, ShownUpTo
  <2>3. (ShownUpTo(offset, Range(visited)))'
      BY <1>1, <2>2, PlacesKept DEF ShownUpTo
  <2>4. QED BY <1>1, <2>3 DEF CoverInv
<1>6. OrderInv'
  <2> SUFFICES ASSUME shutdown # "received" PROVE OrderInv'
      BY <1>1 DEF OrderInv
  <2>1. /\ InOrder(visited, 0) /\ InOrder(page, Len(visited))
        /\ Reaches(Len(visited) + Len(page), offset + Limit)
      BY <1>1 DEF Inv, OrderInv
  <2>2. InOrder(visited, 0)' /\ InOrder(page, Len(visited))'
      BY <1>1, <2>1, PlacesKept DEF InOrder, WrittenBack
  <2>3. Len(visited) + Len(page) = Len(visited)
      BY <1>3
  <2>4. Reaches(Len(visited), offset)'
      BY <1>1, <2>1, <2>3 DEF Reaches
  <2>5. QED BY <1>1, <2>2, <2>4 DEF OrderInv
<1>7. QED BY <1>4, <1>5, <1>6 DEF Inv

\* A row written back is the last of the table: no place goes down, and none goes
\* up by more than one.
LEMMA WriteBackHolds == Inv /\ WriteBack => Inv'
<1> SUFFICES ASSUME Inv, WriteBack PROVE Inv'
    OBVIOUS
<1>1. /\ pending # <<>> /\ pending' = Tail(pending)
      /\ table' \in {table, Append(table, StoredStamp(Head(pending)))}
      /\ UNCHANGED <<pc, offset, page, sequence, shutdown, visited>>
    BY DEF WriteBack
<1>2. /\ table \in Seq(Nat) /\ pending \in Seq(Nat) /\ Len(Original) <= Len(table)
      /\ page \in Seq(DOMAIN table) /\ visited \in Seq(DOMAIN table)
      /\ Original \in Seq(Nat)
      /\ \A id \in DOMAIN Original : table[id] = Original[id]
    BY ReplayAssumption DEF Inv, TableInv, ReplayInv
<1>3. StoredStamp(Head(pending)) \in Nat /\ pending' \in Seq(Nat)
  <2>1. Head(pending) \in Nat
      BY <1>1, <1>2
  <2>2. \A ts \in Nat : ts \div 1000 \in Nat
      OBVIOUS
  <2>3. QED BY <1>1, <1>2, <2>1, <2>2 DEF StoredStamp
<1>4. CASE table' = table
  <2>1. TableInv' /\ ReplayInv'
      BY <1>1, <1>3, <1>4 DEF Inv, TableInv, ReplayInv
  <2>2. \A id : PlaceOf(id)' = PlaceOf(id)
      BY <1>4, PlacesKept
  <2>3. CoverInv'
      BY <1>1, <2>2 DEF Inv, CoverInv, ShownUpTo
  <2>4. OrderInv'
      BY <1>1, <1>4, <2>2 DEF Inv, OrderInv, InOrder, WrittenBack, Reaches
  <2>5. QED BY <2>1, <2>3, <2>4 DEF Inv
<1>5. CASE table' # table
  <2>1. table' = Append(table, StoredStamp(Head(pending)))
      BY <1>1, <1>5
  <2>2. /\ table' \in Seq(Nat) /\ Len(table') = Len(table) + 1
        /\ Len(table) \in Nat /\ Len(Original) \in Nat
        /\ DOMAIN Original \subseteq DOMAIN table
        /\ DOMAIN table \subseteq DOMAIN table'
        /\ \A id \in DOMAIN table : table'[id] = table[id]
      BY <1>2, <1>3, <2>1
  <2>3. TableInv'
    <3>1. Len(Original) <= Len(table')
        BY <1>2, <2>2
    <3>2. \A id \in DOMAIN Original : table'[id] = Original[id]
        BY <1>2, <2>2
    <3>3. QED BY <1>3, <2>2, <3>1, <3>2 DEF TableInv
  <2>4. ReplayInv'
    <3>1. page \in Seq(DOMAIN table') /\ visited \in Seq(DOMAIN table')
        BY <1>2, <2>2, SeqMonotonic
    <3>2. QED BY <1>1, <3>1 DEF Inv, ReplayInv
  <2>5. ASSUME NEW id \in DOMAIN table
        PROVE  PlaceOf(id) \in Nat /\ PlaceOf(id)' \in {PlaceOf(id), PlaceOf(id) + 1}
      BY <1>2, <1>3, <2>1, PlacesGrow DEF PlaceOf
  <2>6. CoverInv'
    <3>1. ASSUME NEW id \in DOMAIN Original
          PROVE  PlaceOf(id) <= PlaceOf(id)'
        BY <2>2, <2>5
    <3>2. ASSUME NEW id \in DOMAIN Original
          PROVE  PlaceOf(id) \in Int /\ PlaceOf(id)' \in Int
        BY <2>2, <2>5
    <3>3. ASSUME NEW last \in Int, NEW ids, ShownUpTo(last, ids),
                 NEW id \in DOMAIN Original, PlaceOf(id)' <= last
          PROVE  id \in ids
      <4>1. PlaceOf(id) <= last
          BY <3>1, <3>2, <3>3
      <4>2. QED BY <3>3, <4>1 DEF ShownUpTo
    <3>4. offset \in Int /\ offset + Limit \in Int
        BY ReplayAssumption DEF Inv, ReplayInv
    <3>5. ShownUpTo(offset, Range(visited)) => (ShownUpTo(offset, Range(visited)))'
        BY <1>1, <3>3, <3>4 DEF ShownUpTo
    <3>6. ShownUpTo(offset + Limit, Range(visited) \cup Range(page))
            => (ShownUpTo(offset + Limit, Range(visited) \cup Range(page)))'
        BY <1>1, <3>3, <3>4 DEF ShownUpTo
    <3>7. QED BY <1>1, <3>5, <3>6 DEF Inv, CoverInv
  <2>7. OrderInv'
    <3>1. WrittenBack \in Int /\ WrittenBack' = WrittenBack + 1
        BY <1>2, <2>2 DEF WrittenBack
    <3>2. ASSUME NEW ids \in Seq(DOMAIN table), NEW from \in Nat, InOrder(ids, from),
                 NEW i \in DOMAIN ids
          PROVE  PlaceOf(ids[i])' \in (from + i) .. (from + i + WrittenBack')
      <4>1. /\ ids[i] \in DOMAIN table /\ i \in Nat
            /\ PlaceOf(ids[i]) \in (from + i) .. (from + i + WrittenBack)
          BY <3>2 DEF InOrder
      <4>2. PlaceOf(ids[i])' \in {PlaceOf(ids[i]), PlaceOf(ids[i]) + 1}
          BY <2>5, <4>1
      <4>3. QED BY <3>1, <4>1, <4>2
    <3>3. ASSUME InOrder(visited, 0) PROVE InOrder(visited, 0)'
        BY <1>1, <1>2, <3>2, <3>3 DEF InOrder
    <3>4. ASSUME InOrder(page, Len(visited)) PROVE InOrder(page, Len(visited))'
      <4>1. Len(visited) \in Nat
          BY <1>2
      <4>2. QED BY <1>1, <1>2, <3>2, <3>4, <4>1 DEF InOrder
    <3>5. QED BY <1>1, <3>3, <3>4 DEF Inv, OrderInv, Reaches
  <2>8. QED BY <2>3, <2>4, <2>6, <2>7 DEF Inv
<1>6. QED BY <1>4, <1>5

LEMMA NextInv == Inv /\ [Next]_replayVars => Inv'
<1> SUFFICES ASSUME Inv, [Next]_replayVars PROVE Inv'
    OBVIOUS
<1> USE DEF Inv
<1>1. CASE StopAtPage
    BY <1>1 DEF StopAtPage, TableInv, ReplayInv, CoverInv, OrderInv
<1>2. CASE StartQuery
  <2>1. \A id : PlaceOf(id)' = PlaceOf(id)
      BY <1>2, PlacesKept DEF StartQuery
  <2>2. QED BY <1>2, <2>1
        DEF StartQuery, TableInv, ReplayInv, CoverInv, OrderInv, ShownUpTo, InOrder,
            WrittenBack, Reaches
<1>3. CASE Fetch
    BY <1>3, FetchHolds
<1>4. CASE FetchFails
  <2>1. \A id : PlaceOf(id)' = PlaceOf(id)
      BY <1>4, PlacesKept DEF FetchFails
  <2>2. QED BY <1>4, <2>1
        DEF FetchFails, TableInv, ReplayInv, CoverInv, OrderInv, InOrder, WrittenBack
<1>5. CASE StopAtRow
    BY <1>5 DEF StopAtRow, TableInv, ReplayInv, CoverInv, OrderInv
<1>6. CASE VisitRow
    BY <1>6, VisitRowHolds
<1>7. CASE PageDone
    BY <1>7, PageDoneHolds
<1>8. CASE WriteBack
    BY <1>8, WriteBackHolds
<1>9. CASE Broadcast
  <2>1. \A id : PlaceOf(id)' = PlaceOf(id)
      BY <1>9, PlacesKept DEF Broadcast
  <2>2. QED BY <1>9, <2>1
        DEF Broadcast, TableInv, ReplayInv, CoverInv, OrderInv, ShownUpTo, InOrder,
            WrittenBack, Reaches
<1>10. CASE UNCHANGED replayVars
  <2>1. \A id : PlaceOf(id)' = PlaceOf(id)
      BY <1>10, PlacesKept DEF replayVars
  <2>2. QED BY <1>10, <2>1
        DEF replayVars, TableInv, ReplayInv, CoverInv, OrderInv, ShownUpTo, InOrder,
            WrittenBack, Reaches
<1>11. QED BY <1>1, <1>2, <1>3, <1>4, <1>5, <1>6, <1>7, <1>8, <1>9, <1>10 DEF Next

LEMMA Invariance == Spec => []Inv
BY InitInv, NextInv, PTL DEF Spec
------------------------------------------------------------------------------
(***************************************************************************)
(* The theorems.                                                           *)
(***************************************************************************)

\* Whatever is written back and whenever, the i-th row that run_replay_db shows is
\* at the i-th place of the sorted table or beyond it by the rows written back.
THEOREM PagesKeepTheOrder == Spec => []ReplaysInOrder
<1>1. ASSUME Inv, shutdown # "received", NEW i \in DOMAIN visited
      PROVE  Place(DOMAIN table, Earlier(table), visited[i])
                \in i .. (i + (Len(table) - Len(Original)))
  <2>1. Place(DOMAIN table, Earlier(table), visited[i])
            \in (0 + i) .. (0 + i + (Len(table) - Len(Original)))
      BY <1>1 DEF Inv, OrderInv, InOrder, PlaceOf, WrittenBack
  <2>2. 0 + i = i
      BY <1>1 DEF Inv, ReplayInv
  <2>3. QED BY <2>1, <2>2
<1>2. Inv => ReplaysInOrder
    BY <1>1 DEF ReplaysInOrder
<1>3. QED BY <1>2, Invariance, PTL

\* Hence, until a row is written back, run_replay_db visits the stored rows by their
\* stamps and none twice, however the pages cut rows of equal stamps.
COROLLARY OrderedUntilWrittenBack ==
    Spec => [](table = Original /\ shutdown # "received" =>
                  /\ IsInjective(visited)
                  /\ \A i \in DOMAIN visited, id \in DOMAIN table :
                        table[id] < table[visited[i]] =>
                            \E k \in 1..(i - 1) : visited[k] = id)
<1>1. ASSUME Inv, ReplaysInOrder, table = Original, shutdown # "received"
      PROVE  /\ IsInjective(visited)
             /\ \A i \in DOMAIN visited, id \in DOMAIN table :
                   table[id] < table[visited[i]] =>
                       \E k \in 1..(i - 1) : visited[k] = id
  <2> USE <1>1
  <2> DEFINE place(id) == Place(DOMAIN Original, Earlier(Original), id)
  <2>1. /\ DOMAIN visited = 1..Len(visited) /\ Len(visited) \in Nat
        /\ \A i \in DOMAIN visited : visited[i] \in DOMAIN Original
        /\ Original \in Seq(Nat) /\ Len(Original) \in Nat
      BY ReplayAssumption DEF Inv, ReplayInv
  <2>2. ASSUME NEW i \in DOMAIN visited PROVE place(visited[i]) = i
    <3>1. place(visited[i]) \in i .. (i + (Len(Original) - Len(Original)))
        BY DEF ReplaysInOrder
    <3>2. i + (Len(Original) - Len(Original)) = i /\ i \in Nat
        BY <2>1
    <3>3. QED BY <3>1, <3>2
  <2>3. /\ \A id \in DOMAIN Original :
                place(id) \in 1..Len(Original) /\ Ordered(Original)[place(id)] = id
        /\ \A id, other \in DOMAIN Original :
                <<id, other>> \in Earlier(Original) => place(id) < place(other)
      BY <2>1, OrderedRows
  <2> HIDE DEF place
  <2>4. IsInjective(visited)
      BY <2>2 DEF IsInjective
  <2>5. ASSUME NEW i \in DOMAIN visited, NEW id \in DOMAIN Original,
               Original[id] < Original[visited[i]]
        PROVE  \E k \in 1..(i - 1) : visited[k] = id
    <3>1. <<id, visited[i]>> \in Earlier(Original)
        BY <2>1, <2>5 DEF Earlier
    <3>2. place(id) < i
        BY <2>1, <2>2, <2>3, <2>5, <3>1
    <3>3. place(id) \in 1..(i - 1) /\ place(id) \in DOMAIN visited
        BY <2>1, <2>3, <3>2
    <3>4. place(visited[place(id)]) = place(id) /\ visited[place(id)] \in DOMAIN Original
        BY <2>1, <2>2, <3>3
    <3>5. visited[place(id)] = id
        BY <2>3, <3>4
    <3>6. QED BY <3>3, <3>5
  <2>6. QED BY <2>4, <2>5
<1>2. QED BY <1>1, Invariance, PagesKeepTheOrder, PTL

\* "replay finished": every row that was stored before the run has been visited,
\* whatever stamps the persist task writes back and whenever it does.
THEOREM NoStoredRowIsSkipped == Spec => []EveryStoredRowReplayed
<1>1. Inv => EveryStoredRowReplayed
    BY DEF Inv, CoverInv, EveryStoredRowReplayed
<1>2. QED BY <1>1, Invariance, PTL

==============================================================================
