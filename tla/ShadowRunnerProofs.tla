------------------------- MODULE ShadowRunnerProofs -------------------------
(***************************************************************************)
(* Theorems about ShadowRunner, for every feed, book, duration and limit:  *)
(* the abort latch, the end of the market, the exposure caps, the rate     *)
(* limits and the span of the returns.                                     *)
(***************************************************************************)
EXTENDS ShadowRunner, FiniteSetTheorems, WellFoundedInduction, TLAPS

\* What the arguments need to know of the types; the clock goes forward.
Core ==
    /\ now \in Nat
    /\ lastOfficialOk \in 0..now
    /\ silence \in Nat
    /\ exposure \in [total : Int, market : Int]
    /\ exposure.total = exposure.market
    /\ orders \in Seq(Nat) /\ \A i \in DOMAIN orders : orders[i] <= now
    /\ cancels \in Seq(Nat) /\ \A j \in DOMAIN cancels : cancels[j] <= now

LEMMA Constants ==
    /\ \A d \in Durations : d \in Nat /\ d > 0
    /\ FeedStaleAbort \in Nat /\ Cutoff \in Nat /\ MarketEnd \in Nat
    /\ MaxTotal \in Nat /\ MaxPerMarket \in Nat /\ TradeSize \in Nat
BY RunnerAssumption DEF RunnerAssumption

\* The first half of a turn moves the clock forward and measures the silence.
LEMMA TurnStarts ==
    ASSUME Core, NEW d \in Durations, NEW feed, StartTurn(now + d, feed)
    PROVE  /\ now' = now + d /\ now' \in Nat /\ now' > now
           /\ lastOfficialOk' \in 0..now'
           /\ silence' \in Nat
           /\ now' - lastOfficialOk' <= silence' /\ silence <= silence'
           /\ silence' = silence \/ silence' = now' - lastOfficialOk'
           /\ feedAbort' <=> feedAbort \/ now' - lastOfficialOk' > FeedStaleAbort
<1>1. d \in Nat /\ d > 0
    BY Constants
<1>2. now' = now + d /\ now' \in Nat /\ now' > now
    BY <1>1 DEF StartTurn, Core
<1>3. lastOfficialOk' \in 0..now'
    BY <1>1, <1>2 DEF StartTurn, Core
<1>4. silence' = IF now' - lastOfficialOk' > silence THEN now' - lastOfficialOk' ELSE silence
    BY <1>2 DEF StartTurn
<1>5. feedAbort' = (feedAbort \/ now' - lastOfficialOk' > FeedStaleAbort)
    BY <1>2 DEF StartTurn, Aborts
<1>6. feedAbort' <=> feedAbort \/ now' - lastOfficialOk' > FeedStaleAbort
    BY <1>5
<1>7. /\ silence' \in Nat
      /\ now' - lastOfficialOk' <= silence' /\ silence <= silence'
      /\ silence' = silence \/ silence' = now' - lastOfficialOk'
    BY <1>2, <1>3, <1>4 DEF Core
<1>8. QED BY <1>2, <1>3, <1>6, <1>7

\* History sequences grow by a stamp that is not in the future.
LEMMA StampAppended ==
    ASSUME NEW stamps \in Seq(Nat), NEW old \in Nat, NEW t \in Nat, old <= t,
           \A i \in DOMAIN stamps : stamps[i] <= old
    PROVE  /\ Append(stamps, t) \in Seq(Nat)
           /\ Len(Append(stamps, t)) = Len(stamps) + 1
           /\ DOMAIN Append(stamps, t) = 1..(Len(stamps) + 1)
           /\ \A i \in DOMAIN stamps : Append(stamps, t)[i] = stamps[i]
           /\ Append(stamps, t)[Len(stamps) + 1] = t
           /\ \A i \in DOMAIN Append(stamps, t) : Append(stamps, t)[i] <= t
OBVIOUS

\* A turn that decides nothing leaves orders, cancels and exposure alone.
LEMMA CoreKept ==
    ASSUME Core, NEW d \in Durations, NEW feed, StartTurn(now + d, feed),
           UNCHANGED <<exposure, orders, cancels>>
    PROVE  Core'
BY TurnStarts DEF Core

LEMMA CoreStep == Core /\ [Next]_vars => Core'
<1> SUFFICES ASSUME Core, [Next]_vars PROVE Core'
    OBVIOUS
<1>1. ASSUME NEW d \in Durations, NEW feed, NEW book, Refuse(now + d, feed, book)
      PROVE  Core'
    BY <1>1, CoreKept DEF Refuse
<1>2. ASSUME NEW d \in Durations, NEW feed, NEW book, Pass(now + d, feed, book)
      PROVE  Core'
    BY <1>2, CoreKept DEF Pass
<1>3. ASSUME NEW d \in Durations, NEW feed, NEW book, Cancel(now + d, feed, book)
      PROVE  Core'
  <2>1. StartTurn(now + d, feed) /\ orders' = orders
    BY <1>3 DEF Cancel
  <2>2. CASE UNCHANGED <<exposure, cancels>>
    BY <2>1, <2>2, CoreKept
  <2>3. CASE exposure' = Reset /\ cancels' = Append(cancels, now + d)
    <3>1. cancels' \in Seq(Nat) /\ \A j \in DOMAIN cancels' : cancels'[j] <= now'
      <4>1. now + d \in Nat /\ now <= now + d /\ now' = now + d
        BY <2>1, TurnStarts DEF Core
      <4>2. cancels \in Seq(Nat) /\ now \in Nat /\ \A j \in DOMAIN cancels : cancels[j] <= now
        BY DEF Core
      <4>3. /\ Append(cancels, now + d) \in Seq(Nat)
            /\ \A j \in DOMAIN Append(cancels, now + d) : Append(cancels, now + d)[j] <= now + d
        BY <4>1, <4>2, StampAppended
      <4>4. QED BY <2>3, <4>1, <4>3
    <3>2. orders' \in Seq(Nat) /\ \A i \in DOMAIN orders' : orders'[i] <= now'
      BY <2>1, TurnStarts DEF Core
    <3>3. exposure' \in [total : Int, market : Int] /\ exposure'.total = exposure'.market
      <4>1. exposure' = [total |-> exposure.total - exposure.market, market |-> 0]
        BY <2>3 DEF Reset
      <4>2. exposure.total \in Int /\ exposure.market \in Int
            /\ exposure.total = exposure.market
        BY DEF Core
      <4>3. exposure' = [total |-> 0, market |-> 0]
        BY <4>1, <4>2
      <4>4. QED BY <4>3
    <3>4. QED BY <2>1, <3>1, <3>2, <3>3, TurnStarts DEF Core
  <2>4. QED BY <1>3, <2>2, <2>3 DEF Cancel
<1>4. ASSUME NEW d \in Durations, NEW feed, NEW book, Trade(now + d, feed, book)
      PROVE  Core'
  <2>1. StartTurn(now + d, feed) /\ cancels' = cancels
    BY <1>4 DEF Trade
  <2>2. CASE UNCHANGED <<exposure, orders>>
    BY <2>1, <2>2, CoreKept
  <2>3. CASE exposure' = Added /\ orders' = Append(orders, now + d)
    <3>1. orders' \in Seq(Nat) /\ \A i \in DOMAIN orders' : orders'[i] <= now'
      <4>1. now + d \in Nat /\ now <= now + d /\ now' = now + d
        BY <2>1, TurnStarts DEF Core
      <4>2. orders \in Seq(Nat) /\ now \in Nat /\ \A i \in DOMAIN orders : orders[i] <= now
        BY DEF Core
      <4>3. /\ Append(orders, now + d) \in Seq(Nat)
            /\ \A i \in DOMAIN Append(orders, now + d) : Append(orders, now + d)[i] <= now + d
        BY <4>1, <4>2, StampAppended
      <4>4. QED BY <2>3, <4>1, <4>3
    <3>2. cancels' \in Seq(Nat) /\ \A j \in DOMAIN cancels' : cancels'[j] <= now'
      BY <2>1, TurnStarts DEF Core
    <3>3. exposure' \in [total : Int, market : Int] /\ exposure'.total = exposure'.market
      <4>1. exposure' = [total  |-> exposure.total + TradeSize,
                         market |-> exposure.market + TradeSize]
        BY <2>3 DEF Added
      <4>2. exposure.total \in Int /\ exposure.market \in Int
            /\ exposure.total = exposure.market
        BY DEF Core
      <4>3. exposure.total + TradeSize \in Int /\ exposure.market + TradeSize \in Int
        BY <4>2, Constants
      <4>4. QED BY <4>1, <4>2, <4>3
    <3>4. QED BY <2>1, <3>1, <3>2, <3>3, TurnStarts DEF Core
  <2>4. QED BY <1>4, <2>2, <2>3 DEF Trade
<1>5. CASE Done \/ UNCHANGED vars
    BY <1>5 DEF Done, vars, Core
<1>6. QED BY <1>1, <1>2, <1>3, <1>4, <1>5 DEF Next

LEMMA CoreHolds == Spec => []Core
<1>1. Init => Core
    BY DEF Init, Core
<1>2. QED BY <1>1, CoreStep, PTL DEF Spec

------------------------------------------------------------------------------
\* While the latch is open no turn has seen a silence beyond the limit.
Patient == ~ feedAbort => silence <= FeedStaleAbort

LEMMA PatientTurn ==
    ASSUME Core, Patient, NEW d \in Durations, NEW feed, StartTurn(now + d, feed)
    PROVE  Patient'
<1>1. CASE feedAbort
    BY <1>1, TurnStarts DEF Patient
<1>2. CASE ~ feedAbort
    BY <1>2, TurnStarts, Constants DEF Patient
<1>3. QED BY <1>1, <1>2

LEMMA PatientHolds == Spec => []Patient
<1>1. Init => Patient
    BY Constants DEF Init, Patient
<1>2. ASSUME Core, Patient, [Next]_vars PROVE Patient'
  <2>1. CASE Done \/ UNCHANGED vars
    BY <1>2, <2>1 DEF Done, vars, Patient
  <2>2. QED BY <1>2, <2>1, PatientTurn DEF Next, Refuse, Cancel, Pass, Trade
<1>3. QED BY <1>1, <1>2, CoreHolds, PTL DEF Spec

\* Once a turn has seen the feeds silent for longer than feed_stale_abort_sec,
\* no order is placed any more (feed_abort of main is latched).
THEOREM SilenceEndsTrading == Spec => SilenceIsFinal
<1>1. ASSUME Core, Patient, [Next]_vars, orders' # orders
      PROVE  silence' <= FeedStaleAbort
  <2>1. PICK d \in Durations, feed \in Feeds \cup {Absent}, book \in Books \cup {Absent} :
            Trade(now + d, feed, book)
    BY <1>1 DEF Next, Refuse, Cancel, Pass, Done, vars
  <2>2. ~ feedAbort' /\ StartTurn(now + d, feed)
    BY <2>1 DEF Trade, Evaluated
  <2>3. QED BY <1>1, <2>2, PatientTurn DEF Patient
<1>2. Core /\ Patient /\ [Next]_vars => [orders' # orders => silence' <= FeedStaleAbort]_vars
    BY <1>1
<1>3. QED BY <1>2, CoreHolds, PatientHolds, PTL DEF Spec, SilenceIsFinal

------------------------------------------------------------------------------
\* A cancellation happens after the end of the market, where no order is placed.
EndInv == EndIsFinal /\ (cancels # <<>> => now >= MarketEnd)

LEMMA EndKept ==
    ASSUME Core, EndInv, NEW d \in Durations, NEW feed, StartTurn(now + d, feed),
           UNCHANGED <<exposure, orders, cancels>>
    PROVE  EndInv'
BY TurnStarts, Constants DEF EndInv, EndIsFinal, Core

LEMMA EndStep == Core /\ EndInv /\ [Next]_vars => EndInv'
<1> SUFFICES ASSUME Core, EndInv, [Next]_vars PROVE EndInv'
    OBVIOUS
<1>1. ASSUME NEW d \in Durations, NEW feed, NEW book, Refuse(now + d, feed, book)
      PROVE  EndInv'
    BY <1>1, EndKept DEF Refuse
<1>2. ASSUME NEW d \in Durations, NEW feed, NEW book, Pass(now + d, feed, book)
      PROVE  EndInv'
    BY <1>2, EndKept DEF Pass
<1>3. ASSUME NEW d \in Durations, NEW feed, NEW book, Cancel(now + d, feed, book)
      PROVE  EndInv'
  <2>1. StartTurn(now + d, feed) /\ orders' = orders /\ now + d >= MarketEnd
    BY <1>3 DEF Cancel, Ended
  <2>2. CASE UNCHANGED <<exposure, cancels>>
    BY <2>1, <2>2, EndKept
  <2>3. CASE exposure' = Reset /\ cancels' = Append(cancels, now + d)
    BY <2>1, <2>3, TurnStarts DEF Core, Reset, EndInv, EndIsFinal
  <2>4. QED BY <1>3, <2>2, <2>3 DEF Cancel
<1>4. ASSUME NEW d \in Durations, NEW feed, NEW book, Trade(now + d, feed, book)
      PROVE  EndInv'
  <2>1. StartTurn(now + d, feed) /\ cancels' = cancels
    BY <1>4 DEF Trade
  <2>2. CASE UNCHANGED <<exposure, orders>>
    BY <2>1, <2>2, EndKept
  <2>3. CASE exposure' = Added /\ orders' = Append(orders, now + d)
    <3>1. now + d < MarketEnd /\ now + d + Cutoff <= MarketEnd
      BY <1>4, Constants DEF Trade, Tradable, Ended, Core
    <3>2. cancels = <<>>
      BY <2>1, <3>1, TurnStarts, Constants DEF EndInv, Core
    <3>3. \A i \in DOMAIN orders' : orders'[i] + Cutoff <= MarketEnd
      <4>1. /\ DOMAIN orders' = 1..(Len(orders) + 1) /\ orders'[Len(orders) + 1] = now + d
            /\ \A i \in DOMAIN orders : orders'[i] = orders[i]
        BY <2>1, <2>3, TurnStarts, StampAppended DEF Core
      <4>2. DOMAIN orders = 1..Len(orders) /\ Len(orders) \in Nat
        BY DEF Core
      <4>3. \A i \in DOMAIN orders' : i \in DOMAIN orders \/ i = Len(orders) + 1
        BY <4>1, <4>2
      <4>4. QED BY <3>1, <4>1, <4>3 DEF EndInv, EndIsFinal
    <3>4. QED BY <2>1, <3>2, <3>3 DEF EndInv, EndIsFinal
  <2>4. QED BY <1>4, <2>2, <2>3 DEF Trade
<1>5. CASE Done \/ UNCHANGED vars
    BY <1>5 DEF Done, vars, EndInv, EndIsFinal
<1>6. QED BY <1>1, <1>2, <1>3, <1>4, <1>5 DEF Next

\* No order comes within the cut-off before the market's end or after it, and
\* what a cancellation has released stays released.
THEOREM CancellationIsLast == Spec => []EndIsFinal
<1>1. Init => EndInv
    BY DEF Init, EndInv, EndIsFinal
<1>2. EndInv => EndIsFinal
    BY DEF EndInv
<1>3. QED BY <1>1, <1>2, EndStep, CoreHolds, PTL DEF Spec

------------------------------------------------------------------------------
ExposureInv == IsFiniteSet(OpenOrders) /\ ExposureIsOpenOrders

LEMMA ExposureStep == Core /\ ExposureInv /\ [Next]_vars => ExposureInv'
<1> SUFFICES ASSUME Core, ExposureInv, [Next]_vars PROVE ExposureInv'
    OBVIOUS
<1>1. CASE UNCHANGED <<exposure, orders, cancels>>
  <2>1. OpenOrders' = OpenOrders
    BY <1>1 DEF OpenOrders
  <2>2. QED BY <1>1, <2>1 DEF ExposureInv, ExposureIsOpenOrders
<1>2. ASSUME NEW d \in Durations, NEW feed, StartTurn(now + d, feed), orders' = orders,
             exposure' = Reset, cancels' = Append(cancels, now + d)
      PROVE  ExposureInv'
  <2>1. now + d \in Nat /\ now < now + d
    BY <1>2, TurnStarts DEF Core
  <2>2. /\ Len(cancels) + 1 \in DOMAIN cancels'
        /\ cancels'[Len(cancels) + 1] = now + d
    BY <1>2, <2>1 DEF Core
  <2>3. \A i \in DOMAIN orders' : ~ (now + d < orders'[i])
    BY <1>2, <2>1 DEF Core
  <2>4. OpenOrders' = {}
    BY <2>2, <2>3 DEF OpenOrders
  <2>5. IsFiniteSet({}) /\ Cardinality({}) = 0
    BY FS_EmptySet
  <2>6. exposure'.total = 0 /\ exposure'.market = 0
    BY <1>2 DEF Core, Reset
  <2>7. QED BY <2>4, <2>5, <2>6, Constants DEF ExposureInv, ExposureIsOpenOrders
<1>3. ASSUME NEW d \in Durations, NEW feed, StartTurn(now + d, feed), cancels' = cancels,
             CanAdd, exposure' = Added, orders' = Append(orders, now + d)
      PROVE  ExposureInv'
  <2> DEFINE k == Len(orders) + 1
  <2>1. now + d \in Nat /\ now < now + d
    BY <1>3, TurnStarts DEF Core
  <2>2. \A j \in DOMAIN cancels : cancels[j] < now + d
    BY <2>1 DEF Core
  <2>3. /\ DOMAIN orders' = DOMAIN orders \cup {k} /\ k \notin DOMAIN orders
        /\ orders'[k] = now + d
        /\ \A i \in DOMAIN orders : orders'[i] = orders[i]
    BY <1>3, <2>1 DEF Core
  <2>4. OpenOrders' = OpenOrders \cup {k} /\ k \notin OpenOrders
    BY <1>3, <2>2, <2>3 DEF OpenOrders
  <2>5. /\ IsFiniteSet(OpenOrders')
        /\ Cardinality(OpenOrders') = Cardinality(OpenOrders) + 1
    BY <2>4, FS_AddElement DEF ExposureInv
  <2>6. Cardinality(OpenOrders) \in Nat
    BY FS_CardinalityType DEF ExposureInv
  <2>7. TradeSize * (Cardinality(OpenOrders) + 1)
           = TradeSize * Cardinality(OpenOrders) + TradeSize
    BY <2>6, Constants
  <2>8. /\ exposure'.total = exposure.total + TradeSize
        /\ exposure'.market = exposure.market + TradeSize
    BY <1>3 DEF Added
  <2>9. exposure'.total <= MaxTotal /\ exposure'.market <= MaxPerMarket
    BY <1>3, <2>8 DEF CanAdd
  <2>10. QED BY <2>5, <2>7, <2>8, <2>9 DEF ExposureInv, ExposureIsOpenOrders
<1>4. QED BY <1>1, <1>2, <1>3 DEF Next, Refuse, Cancel, Pass, Trade, Done, vars

\* Whatever limiter, caps and cancellation let through, the tracker's sums are
\* the orders placed and not cancelled, and both caps hold.
THEOREM ExposureIsExact == Spec => []ExposureIsOpenOrders
<1>1. Init => ExposureInv
  <2>1. ASSUME Init PROVE OpenOrders = {}
    BY <2>1 DEF Init, OpenOrders
  <2>2. IsFiniteSet({}) /\ Cardinality({}) = 0
    BY FS_EmptySet
  <2>3. TradeSize * 0 = 0 /\ 0 <= MaxTotal /\ 0 <= MaxPerMarket
    BY Constants
  <2>4. ASSUME Init PROVE IsFiniteSet(OpenOrders) /\ Cardinality(OpenOrders) = 0
    BY <2>1, <2>2, <2>4
  <2>5. ASSUME Init PROVE exposure.total = 0 /\ exposure.market = 0
    BY <2>5 DEF Init
  <2>6. QED BY <2>3, <2>4, <2>5 DEF ExposureInv, ExposureIsOpenOrders
<1>2. ExposureInv => ExposureIsOpenOrders
    BY DEF ExposureInv
<1>3. QED BY <1>1, <1>2, ExposureStep, CoreHolds, PTL DEF Spec

------------------------------------------------------------------------------
LEMMA LeastExists ==
    ASSUME NEW these, these \subseteq Nat, these # {}
    PROVE  \E n \in these : \A m \in these : n <= m
<1> DEFINE R == {p \in Nat \X Nat : p[1] < p[2]}
<1>1. IsWellFoundedOn(R, Nat)
    BY NatLessThanWellFounded DEF OpToRel
<1>2. \A m, n \in Nat : <<m, n>> \in R <=> m < n
    OBVIOUS
<1> HIDE DEF R
<1>3. PICK n \in these : \A m \in these : ~ (<<m, n>> \in R)
    BY <1>1, WFMin
<1>4. \A m \in these : m \in Nat /\ n \in Nat /\ ~ (m < n)
    BY <1>2, <1>3
<1>5. QED BY <1>3, <1>4

LEMMA GreatestExists ==
    ASSUME NEW n \in Nat, NEW these, these \subseteq 1..n, these # {}
    PROVE  \E i \in these : \A j \in these : j <= i
<1> DEFINE gaps == {n - i : i \in these}
<1>1. gaps \subseteq Nat /\ gaps # {}
  <2>1. \A i \in these : i \in Nat /\ n - i \in Nat
      OBVIOUS
  <2>2. QED BY <2>1
<1>2. PICK g \in gaps : \A h \in gaps : g <= h
    BY <1>1, LeastExists
<1>3. PICK i \in these : g = n - i
    BY <1>2
<1>4. \A j \in these : n - j \in gaps
    OBVIOUS
<1>5. \A j \in these : n - i <= n - j /\ i \in 1..n /\ j \in 1..n
    BY <1>2, <1>3, <1>4
<1>6. QED BY <1>5

\* Popping leaves a suffix of the queue that starts with a fresh element and
\* holds all of them.
LEMMA PoppedSuffix ==
    ASSUME NEW S, NEW queue \in Seq(S), NEW fresh, fresh \subseteq DOMAIN queue
    PROVE  LET left == Popped(queue, fresh) IN
           /\ left \in Seq(S)
           /\ \E k \in 0..Len(queue) :
                /\ Len(left) = Len(queue) - k
                /\ \A i \in DOMAIN left : left[i] = queue[k + i]
                /\ \A i \in fresh : k < i
                /\ fresh # {} => k + 1 \in fresh
                /\ fresh = {} => left = <<>>
<1>1. CASE fresh = {}
  <2>1. Popped(queue, fresh) = <<>>
      BY <1>1 DEF Popped
  <2>2. /\ <<>> \in Seq(S) /\ Len(<<>>) = Len(queue) - Len(queue) /\ DOMAIN <<>> = {}
        /\ Len(queue) \in 0..Len(queue)
      OBVIOUS
  <2>3. QED BY <1>1, <2>1, <2>2
<1>2. CASE fresh # {}
  <2> DEFINE first == CHOOSE i \in fresh : \A j \in fresh : i <= j
  <2>1. DOMAIN queue = 1..Len(queue) /\ Len(queue) \in Nat /\ fresh \subseteq Nat
      OBVIOUS
  <2>2. first \in fresh /\ \A j \in fresh : first <= j
      BY <1>2, <2>1, LeastExists
  <2> HIDE DEF first
  <2>3. first \in 1..Len(queue)
      BY <2>1, <2>2
  <2>4. Popped(queue, fresh) = SubSeq(queue, first, Len(queue))
      BY <1>2 DEF Popped, first
  <2> DEFINE left == SubSeq(queue, first, Len(queue))
             k == first - 1
  <2>5. left \in Seq(S) /\ Len(left) = Len(queue) - k /\ DOMAIN left = 1..(Len(queue) - k)
      BY <2>3
  <2>6. \A i \in DOMAIN left : left[i] = queue[k + i]
      BY <2>3, <2>5
  <2>7. k \in 0..Len(queue) /\ k + 1 = first /\ \A i \in fresh : k < i
      BY <2>1, <2>2, <2>3
  <2> HIDE DEF left, k
  <2>8. QED BY <1>2, <2>2, <2>4, <2>5, <2>6, <2>7 DEF left
<1>3. QED BY <1>1, <1>2

------------------------------------------------------------------------------
\* A history of admitted actions and the stamps of its limiter at a time: the
\* limiter remembers whatever can share a window with the time.
Limited(history, stamps, max, time) ==
    /\ history \in Seq(Nat) /\ stamps \in Seq(Nat)
    /\ \A i \in DOMAIN history : history[i] <= time
    /\ \A i, j \in DOMAIN history : i < j => history[i] < history[j]
    /\ \A i \in DOMAIN history :
            time <= history[i] + RateWindow => \E k \in DOMAIN stamps : stamps[k] = history[i]
    /\ \A t \in Nat : InWindow(history, t) <= max

LEMMA LimitedLater ==
    ASSUME NEW history, NEW stamps, NEW max \in Nat, NEW time \in Nat, NEW later \in Nat,
           Limited(history, stamps, max, time), time <= later
    PROVE  Limited(history, stamps, max, later)
<1>1. RateWindow \in Nat
    BY RunnerAssumption
<1>2. QED BY <1>1 DEF Limited

\* Forgetting what has left the window loses nothing that counts.
LEMMA RecentSuffices ==
    ASSUME NEW history, NEW stamps, NEW max \in Nat, NEW time \in Nat, NEW later \in Nat,
           Limited(history, stamps, max, time), time <= later
    PROVE  Limited(history, Recent(stamps, later), max, later)
<1> DEFINE fresh == {i \in DOMAIN stamps : later - stamps[i] <= RateWindow}
           left == Popped(stamps, fresh)
<1>1. RateWindow \in Nat /\ stamps \in Seq(Nat)
    BY RunnerAssumption DEF Limited
<1>2. /\ left \in Seq(Nat)
      /\ \E k \in 0..Len(stamps) :
            /\ Len(left) = Len(stamps) - k
            /\ \A i \in DOMAIN left : left[i] = stamps[k + i]
            /\ \A i \in fresh : k < i
    BY <1>1, PoppedSuffix
<1>3. left = Recent(stamps, later)
    BY DEF Recent
<1> HIDE DEF left
<1>4. PICK k \in 0..Len(stamps) :
            /\ Len(left) = Len(stamps) - k
            /\ \A i \in DOMAIN left : left[i] = stamps[k + i]
            /\ \A i \in fresh : k < i
    BY <1>2
<1>5. ASSUME NEW i \in DOMAIN history, later <= history[i] + RateWindow
      PROVE  \E m \in DOMAIN left : left[m] = history[i]
  <2>1. history[i] \in Nat
      BY DEF Limited
  <2>2. PICK m \in DOMAIN stamps : stamps[m] = history[i]
      BY <1>1, <1>5, <2>1 DEF Limited
  <2>3. m \in fresh
      BY <1>1, <1>5, <2>1, <2>2
  <2>4. k < m /\ m \in 1..Len(stamps)
      BY <1>1, <1>4, <2>2, <2>3
  <2>5. m - k \in DOMAIN left /\ left[m - k] = stamps[m]
      BY <1>2, <1>4, <2>4
  <2>6. QED BY <2>2, <2>5
<1>6. QED BY <1>2, <1>3, <1>5, <1>1 DEF Limited

LEMMA Interval ==
    ASSUME NEW n \in Nat
    PROVE  IsFiniteSet(1..n) /\ Cardinality(1..n) = n
<1>1. IsFiniteSet(1..n) /\ Cardinality(1..n) = IF 1 > n THEN 0 ELSE n - 1 + 1
    BY FS_Interval
<1>2. (IF 1 > n THEN 0 ELSE n - 1 + 1) = n
    OBVIOUS
<1>3. QED BY <1>1, <1>2

\* A window's actions that the limiter remembers are no more than it remembers.
LEMMA WindowRemembered ==
    ASSUME NEW history \in Seq(Nat), NEW stamps \in Seq(Nat), NEW t \in Nat,
           \A i, j \in DOMAIN history : i < j => history[i] < history[j],
           \A i \in DOMAIN history : history[i] \in t..(t + RateWindow) =>
                \E k \in DOMAIN stamps : stamps[k] = history[i]
    PROVE  InWindow(history, t) <= Len(stamps)
<1> DEFINE inside == {i \in DOMAIN history : history[i] \in t..(t + RateWindow)}
           f == [i \in inside |-> CHOOSE k \in DOMAIN stamps : stamps[k] = history[i]]
<1>1. \A i \in inside : f[i] \in DOMAIN stamps /\ stamps[f[i]] = history[i]
    OBVIOUS
<1>2. DOMAIN history = 1..Len(history) /\ Len(history) \in Nat
      /\ DOMAIN stamps = 1..Len(stamps) /\ Len(stamps) \in Nat
      /\ inside \subseteq DOMAIN history
    OBVIOUS
<1>3. f \in [inside -> 1..Len(stamps)]
    BY <1>1, <1>2
<1> HIDE DEF f
<1>4. \A i, j \in inside : f[i] = f[j] => i = j
  <2>1. ASSUME NEW i \in inside, NEW j \in inside, f[i] = f[j]
        PROVE  i = j
    <3>1. history[i] = history[j] /\ history[i] \in Nat /\ i \in Nat /\ j \in Nat
        BY <1>1, <1>2, <2>1
    <3>2. i \in DOMAIN history /\ j \in DOMAIN history
        BY <1>2
    <3>3. ~ (history[i] < history[j]) /\ ~ (history[j] < history[i])
        BY <3>1
    <3>4. ~ (i < j) /\ ~ (j < i)
        BY <3>2, <3>3
    <3>5. QED BY <3>1, <3>4
  <2>2. QED BY <2>1
<1>5. f \in Injection(inside, 1..Len(stamps))
    BY <1>3, <1>4 DEF Injection, IsInjective
<1>6. IsFiniteSet(1..Len(stamps)) /\ Cardinality(1..Len(stamps)) = Len(stamps)
    BY <1>2, Interval
<1>7. Cardinality(inside) <= Len(stamps)
    BY <1>5, <1>6, FS_Injection
<1>8. QED BY <1>7 DEF InWindow

\* What the limiter admits keeps every window within its maximum.
LEMMA AdmittedIsLimited ==
    ASSUME NEW history, NEW stamps, NEW max \in Nat, NEW time \in Nat, NEW later \in Nat,
           Limited(history, stamps, max, time), time < later, Allows(stamps, later, max)
    PROVE  LET stamped == Append(Recent(stamps, later), later) IN
           /\ Limited(history, stamped, max, later)
           /\ Limited(Append(history, later), stamped, max, later)
<1> DEFINE recent == Recent(stamps, later)
           stamped == Append(recent, later)
           longer == Append(history, later)
<1>1. RateWindow \in Nat
    BY RunnerAssumption
<1>2. Limited(history, recent, max, later) /\ Len(recent) < max
    BY RecentSuffices DEF Allows
<1> HIDE DEF recent
<1>3. history \in Seq(Nat) /\ recent \in Seq(Nat)
    BY <1>2 DEF Limited
<1>4. /\ stamped \in Seq(Nat) /\ Len(stamped) <= max /\ Len(stamped) \in Nat
      /\ DOMAIN stamped = 1..(Len(recent) + 1)
      /\ stamped[Len(recent) + 1] = later
      /\ \A k \in DOMAIN recent : k \in DOMAIN stamped /\ stamped[k] = recent[k]
    BY <1>2, <1>3
<1>5. /\ longer \in Seq(Nat)
      /\ DOMAIN longer = 1..(Len(history) + 1)
      /\ longer[Len(history) + 1] = later
      /\ \A i \in DOMAIN history : longer[i] = history[i]
      /\ \A i \in DOMAIN longer : i \in DOMAIN history \/ i = Len(history) + 1
      /\ DOMAIN history = 1..Len(history) /\ Len(history) \in Nat
    BY <1>3
<1> HIDE DEF stamped, longer
<1>6. Limited(history, stamped, max, later)
    BY <1>2, <1>4 DEF Limited
<1>7. \A i \in DOMAIN longer : longer[i] <= later
  <2>1. \A i \in DOMAIN history : history[i] <= later
      BY <1>6 DEF Limited
  <2>2. later <= later
      OBVIOUS
  <2>3. QED BY <1>5, <2>1, <2>2
<1>8. \A i, j \in DOMAIN longer : i < j => longer[i] < longer[j]
  <2>1. \A i \in DOMAIN history : history[i] < later
    <3>1. \A i \in DOMAIN history : history[i] \in Nat /\ history[i] <= time
        BY <1>3 DEF Limited
    <3>2. QED BY <3>1
  <2>2. \A i, j \in DOMAIN history : i < j => history[i] < history[j]
      BY DEF Limited
  <2>3. ASSUME NEW i \in DOMAIN longer, NEW j \in DOMAIN longer, i < j
        PROVE  longer[i] < longer[j]
    <3>1. i \in DOMAIN history
        BY <1>5, <2>3
    <3>2. QED BY <1>5, <2>1, <2>2, <2>3, <3>1
  <2>4. QED BY <2>3
<1>9. \A i \in DOMAIN longer :
          later <= longer[i] + RateWindow => \E k \in DOMAIN stamped : stamped[k] = longer[i]
  <2>1. Len(recent) + 1 \in DOMAIN stamped
      BY <1>3, <1>4
  <2>2. QED BY <1>4, <1>5, <1>6, <2>1 DEF Limited
<1>10. ASSUME NEW t \in Nat PROVE InWindow(longer, t) <= max
  <2>1. CASE later \in t..(t + RateWindow)
    <3>1. \A i \in DOMAIN longer : longer[i] \in t..(t + RateWindow) =>
                later <= longer[i] + RateWindow
        BY <1>1, <1>5, <2>1
    <3>2. \A i \in DOMAIN longer : longer[i] \in t..(t + RateWindow) =>
                \E k \in DOMAIN stamped : stamped[k] = longer[i]
        BY <1>9, <3>1
    <3>3. InWindow(longer, t) <= Len(stamped)
        BY <1>4, <1>5, <1>8, <3>2, WindowRemembered
    <3>4. InWindow(longer, t) \in Int
      <4>1. {i \in DOMAIN longer : longer[i] \in t..(t + RateWindow)} \in SUBSET (1..(Len(history) + 1))
          BY <1>5
      <4>2. IsFiniteSet(1..(Len(history) + 1))
          BY <1>5, FS_Interval
      <4>3. QED BY <4>1, <4>2, FS_Subset, FS_CardinalityType DEF InWindow
    <3>5. QED BY <1>4, <3>3, <3>4
  <2>2. CASE later \notin t..(t + RateWindow)
    <3>1. {i \in DOMAIN longer : longer[i] \in t..(t + RateWindow)}
              = {i \in DOMAIN history : history[i] \in t..(t + RateWindow)}
        BY <1>5, <2>2
    <3>2. QED BY <3>1, <1>2 DEF InWindow, Limited
  <2>3. QED BY <2>1, <2>2
<1>11. Limited(longer, stamped, max, later)
    BY <1>4, <1>5, <1>7, <1>8, <1>9, <1>10 DEF Limited
<1>12. QED BY <1>6, <1>11 DEF stamped, longer, recent

RatesInv ==
    /\ Limited(orders, orderStamps, MaxOrders, now)
    /\ Limited(cancels, cancelStamps, MaxCancels, now)

\* The limiter was asked: what it forgets and what it admits keep the limit.
LEMMA AskedIsLimited ==
    ASSUME NEW history, NEW stamps, NEW max \in Nat, NEW time \in Nat, NEW later \in Nat,
           Limited(history, stamps, max, time), time < later
    PROVE  /\ Limited(history, Stamped(stamps, later, max), max, later)
           /\ Allows(stamps, later, max) =>
                 Limited(Append(history, later), Stamped(stamps, later, max), max, later)
<1>1. CASE Allows(stamps, later, max)
    BY <1>1, AdmittedIsLimited DEF Stamped
<1>2. CASE ~ Allows(stamps, later, max)
    BY <1>2, RecentSuffices DEF Stamped
<1>3. QED BY <1>1, <1>2

LEMMA RatesStep == Core /\ RatesInv /\ [Next]_vars => RatesInv'
<1> SUFFICES ASSUME Core, RatesInv, [Next]_vars PROVE RatesInv'
    OBVIOUS
<1>1. MaxOrders \in Nat /\ MaxCancels \in Nat /\ now \in Nat
    BY RunnerAssumption DEF Core
<1>2. CASE Done \/ UNCHANGED vars
    BY <1>2 DEF Done, vars, RatesInv
<1>3. ASSUME NEW d \in Durations, NEW feed, NEW book,
             \/ Refuse(now + d, feed, book)
             \/ Cancel(now + d, feed, book)
             \/ Pass(now + d, feed, book)
             \/ Trade(now + d, feed, book)
      PROVE  RatesInv'
  <2>1. StartTurn(now + d, feed)
      BY <1>3 DEF Refuse, Cancel, Pass, Trade
  <2>2. now' = now + d /\ now' \in Nat /\ now < now'
      BY <2>1, TurnStarts
  <2>3. /\ Limited(orders, orderStamps, MaxOrders, now')
        /\ Limited(cancels, cancelStamps, MaxCancels, now')
      BY <1>1, <2>2, LimitedLater DEF RatesInv
  <2>4. /\ Limited(orders, Stamped(orderStamps, now', MaxOrders), MaxOrders, now')
        /\ Allows(orderStamps, now', MaxOrders) =>
              Limited(Append(orders, now'), Stamped(orderStamps, now', MaxOrders), MaxOrders, now')
      BY <1>1, <2>2, AskedIsLimited DEF RatesInv
  <2>5. /\ Limited(cancels, Stamped(cancelStamps, now', MaxCancels), MaxCancels, now')
        /\ Allows(cancelStamps, now', MaxCancels) =>
              Limited(Append(cancels, now'), Stamped(cancelStamps, now', MaxCancels), MaxCancels, now')
      BY <1>1, <2>2, AskedIsLimited DEF RatesInv
  <2>6. CASE Refuse(now + d, feed, book) \/ Pass(now + d, feed, book)
      BY <2>3, <2>6 DEF Refuse, Pass, RatesInv
  <2>7. CASE Cancel(now + d, feed, book)
      BY <2>2, <2>3, <2>5, <2>7 DEF Cancel, RatesInv
  <2>8. CASE Trade(now + d, feed, book)
      BY <2>2, <2>3, <2>4, <2>8 DEF Trade, RatesInv
  <2>9. QED BY <1>3, <2>6, <2>7, <2>8
<1>4. QED BY <1>2, <1>3 DEF Next

\* No stretch of one window, wherever it starts, holds more orders or more
\* cancellations than the limiter's maximum, although the limiter forgets stamps
\* as it is asked and an order the cap refuses has used its slot
\* (RateLimiter.allow, called by main for each order and each cancellation).
THEOREM RatesAreHeld == Spec => []RatesHold
<1>1. Init => RatesInv
  <2>1. ASSUME Init PROVE /\ orders = <<>> /\ orderStamps = <<>>
                          /\ cancels = <<>> /\ cancelStamps = <<>>
      BY <2>1 DEF Init
  <2>2. /\ <<>> \in Seq(Nat) /\ DOMAIN <<>> = {}
        /\ MaxOrders \in Nat /\ MaxCancels \in Nat
      BY RunnerAssumption
  <2>3. ASSUME NEW t \in Nat PROVE InWindow(<<>>, t) = 0
    <3>1. {i \in DOMAIN <<>> : <<>>[i] \in t..(t + RateWindow)} = {}
        BY <2>2
    <3>2. QED BY <3>1, FS_EmptySet DEF InWindow
  <2>4. ASSUME NEW max \in Nat PROVE Limited(<<>>, <<>>, max, now)
    <3>1. \A t \in Nat : InWindow(<<>>, t) <= max
        BY <2>3
    <3>2. QED BY <2>2, <3>1 DEF Limited
  <2>5. QED BY <2>1, <2>2, <2>4 DEF RatesInv
<1>2. Core /\ RatesInv => RatesHold
    BY DEF Core, RatesInv, Limited, RatesHold
<1>3. QED BY <1>1, <1>2, RatesStep, CoreHolds, PTL DEF Spec

------------------------------------------------------------------------------
LEMMA MinLagHolds ==
    ASSUME NEW feed \in Feeds
    PROVE  MinLag \in Int /\ \A f \in Feeds : MinLag <= f.lag
<1> DEFINE lags == {f.lag : f \in Feeds}
<1>1. PICK f \in Feeds : \A g \in Feeds : f.lag <= g.lag
    BY LagAssumption
<1>2. f.lag \in lags /\ \A g \in Feeds : f.lag <= g.lag
    BY <1>1
<1>3. MinLag \in lags /\ \A g \in Feeds : MinLag <= g.lag
    BY <1>2 DEF MinLag
<1>4. \A l \in lags : l \in Int
    BY RunnerAssumption
<1>5. QED BY <1>3, <1>4

Samples == [ts : Int, price : Nat]

LEMMA SampleTyped ==
    ASSUME NEW samples \in Seq(Samples), NEW i \in DOMAIN samples
    PROVE  samples[i].ts \in Int /\ samples[i].price \in Nat
<1>1. samples[i] \in Samples
    OBVIOUS
<1> DEFINE sample == samples[i]
<1>2. sample \in [ts : Int, price : Nat]
    BY <1>1 DEF Samples
<1> HIDE DEF sample
<1>3. sample.ts \in Int /\ sample.price \in Nat
    BY <1>2
<1>4. QED BY <1>3 DEF sample

\* Stamps are never further apart against their arrival than lags can differ.
Timely(samples, time) ==
    /\ samples \in Seq(Samples)
    /\ \A i \in DOMAIN samples : samples[i].ts + MinLag <= time
    /\ \A i, j \in DOMAIN samples :
            i < j => samples[i].ts + MinLag <= samples[j].ts + MaxLag

Spans == [up : BOOLEAN, span : Horizon..(2 * Horizon + MaxLag - MinLag)]

SampleInv ==
    /\ Timely(prices, now)
    /\ returns \in Seq(Spans)
    /\ Feeds = {} => prices = <<>>

LEMMA TimelyLater ==
    ASSUME NEW samples, NEW time \in Nat, NEW later \in Nat, NEW feed \in Feeds,
           Timely(samples, time), time <= later
    PROVE  Timely(samples, later)
<1>1. \A i \in DOMAIN samples : samples[i].ts \in Int
    BY SampleTyped DEF Timely
<1>2. QED BY <1>1, MinLagHolds DEF Timely

LEMMA TimelyAppended ==
    ASSUME NEW samples, NEW time \in Nat, NEW later \in Nat, NEW feed \in Feeds,
           Timely(samples, time), time <= later, feed.lag <= OfficialStale
    PROVE  Timely(Append(samples, [ts |-> later - feed.lag, price |-> feed.price]), later)
<1> DEFINE sample == [ts |-> later - feed.lag, price |-> feed.price]
           longer == Append(samples, sample)
<1>1. /\ feed.lag \in Int /\ feed.price \in Nat /\ MinLag \in Int /\ MaxLag \in Nat
      /\ MinLag <= feed.lag /\ feed.lag <= MaxLag
    BY RunnerAssumption, MinLagHolds DEF MaxLag
<1>2. sample \in Samples /\ sample.ts + MinLag <= later /\ later <= sample.ts + MaxLag
    BY <1>1 DEF Samples
<1>3. samples \in Seq(Samples) /\ \A i \in DOMAIN samples : samples[i].ts \in Int
    BY SampleTyped DEF Timely
<1> HIDE DEF sample
<1>4. /\ longer \in Seq(Samples)
      /\ DOMAIN longer = 1..(Len(samples) + 1)
      /\ longer[Len(samples) + 1] = sample
      /\ \A i \in DOMAIN samples : longer[i] = samples[i]
      /\ DOMAIN samples = 1..Len(samples) /\ Len(samples) \in Nat
    BY <1>2, <1>3
<1> HIDE DEF longer
<1>5. \A i \in DOMAIN samples : samples[i].ts + MinLag <= later
    BY <1>1, <1>3 DEF Timely
<1>6. \A i \in DOMAIN longer : i \in DOMAIN samples \/ i = Len(samples) + 1
    BY <1>4
<1>7. \A i \in DOMAIN longer : longer[i].ts + MinLag <= later
    BY <1>2, <1>4, <1>5, <1>6
<1>8. ASSUME NEW i \in DOMAIN longer, NEW j \in DOMAIN longer, i < j
      PROVE  longer[i].ts + MinLag <= longer[j].ts + MaxLag
  <2>1. i \in DOMAIN samples
      BY <1>4, <1>8
  <2>2. CASE j \in DOMAIN samples
      BY <1>4, <1>8, <2>1, <2>2 DEF Timely
  <2>3. CASE j = Len(samples) + 1
    <3>1. longer[i].ts = samples[i].ts /\ longer[j].ts = sample.ts
        BY <1>4, <2>1, <2>3
    <3>2. samples[i].ts \in Int /\ sample.ts \in Int
        BY <1>2, <1>3, <2>1 DEF Samples
    <3>3. QED BY <1>1, <1>2, <1>5, <2>1, <3>1, <3>2
  <2>4. QED BY <1>6, <2>2, <2>3
<1>9. QED BY <1>4, <1>7, <1>8 DEF Timely, longer, sample

\* What update leaves in the queue, and what it measures against.
LEMMA ModelUpdated ==
    ASSUME NEW feed \in Feeds, NEW later \in Nat, now \in Nat, now <= later, SampleInv,
           feed.lag <= OfficialStale, UpdateModel(later - feed.lag, feed.price)
    PROVE  Timely(prices', later) /\ returns' \in Seq(Spans)
<1> DEFINE ts == later - feed.lag
           sample == [ts |-> ts, price |-> feed.price]
           longer == Append(prices, sample)
           cutoff == ts - 2 * Horizon
           fresh == {i \in DOMAIN longer : longer[i].ts >= cutoff}
           kept == Popped(longer, fresh)
           refs == References(kept, ts)
           at == CHOOSE i \in refs : \A j \in refs : j <= i
<1>1. /\ feed.lag \in Int /\ feed.price \in Nat /\ ts \in Int
      /\ MinLag \in Int /\ MaxLag \in Nat /\ MinLag <= feed.lag /\ feed.lag <= MaxLag
      /\ Horizon \in Nat /\ Horizon > 0
    BY RunnerAssumption, MinLagHolds DEF MaxLag
<1>2. Timely(longer, later)
    BY TimelyAppended DEF SampleInv
<1>3. prices' = kept
    BY DEF UpdateModel, Pruned
<1>4. returns' = IF refs = {} THEN returns
                 ELSE Bounded(Append(returns, [up   |-> feed.price > kept[at].price,
                                               span |-> ts - kept[at].ts]))
    BY DEF UpdateModel, Pruned
<1> HIDE DEF longer, ts
<1>5. longer \in Seq(Samples) /\ fresh \subseteq DOMAIN longer
    BY <1>2 DEF Timely
<1> HIDE DEF fresh
<1>6. /\ kept \in Seq(Samples)
      /\ \E k \in 0..Len(longer) :
            /\ Len(kept) = Len(longer) - k
            /\ \A i \in DOMAIN kept : kept[i] = longer[k + i]
            /\ fresh # {} => k + 1 \in fresh
            /\ fresh = {} => kept = <<>>
    BY <1>5, PoppedSuffix
<1> HIDE DEF kept
<1>7. PICK k \in 0..Len(longer) :
            /\ Len(kept) = Len(longer) - k
            /\ \A i \in DOMAIN kept : kept[i] = longer[k + i]
            /\ fresh # {} => k + 1 \in fresh
            /\ fresh = {} => kept = <<>>
    BY <1>6
<1>8. /\ DOMAIN kept = 1..Len(kept) /\ Len(kept) \in Nat
      /\ DOMAIN longer = 1..Len(longer) /\ Len(longer) \in Nat
    BY <1>5, <1>6
<1>9. \A i \in DOMAIN kept : k + i \in DOMAIN longer /\ kept[i] = longer[k + i]
    BY <1>7, <1>8
<1>10. Timely(kept, later)
  <2>1. \A i \in DOMAIN kept : kept[i].ts + MinLag <= later
      BY <1>2, <1>9 DEF Timely
  <2>2. ASSUME NEW i \in DOMAIN kept, NEW j \in DOMAIN kept, i < j
        PROVE  kept[i].ts + MinLag <= kept[j].ts + MaxLag
    <3>1. k + i < k + j
        BY <1>7, <1>8, <2>2
    <3>2. QED BY <1>2, <1>9, <3>1 DEF Timely
  <2>3. QED BY <1>6, <2>1, <2>2 DEF Timely
<1>11. CASE refs = {}
    BY <1>3, <1>4, <1>10, <1>11 DEF SampleInv
<1>12. CASE refs # {}
  <2>1. refs \subseteq DOMAIN kept /\ \A i \in refs : kept[i].ts <= ts - Horizon
      BY DEF References
  <2>2. at \in refs
      BY <1>8, <1>12, <2>1, GreatestExists
  <2> HIDE DEF refs, at
  <2>3. at \in DOMAIN kept /\ kept[at].ts <= ts - Horizon /\ kept[at].ts \in Int
        /\ kept[at].price \in Nat
      BY <1>6, <2>1, <2>2, SampleTyped
  <2>4. fresh # {} /\ 1 \in DOMAIN kept /\ kept[1].ts >= cutoff /\ kept[1].ts \in Int
    <3>1. fresh # {}
        BY <1>7, <2>3
    <3>2. 1 \in DOMAIN kept
        BY <1>8, <2>3
    <3>3. k + 1 \in fresh /\ kept[1] = longer[k + 1]
        BY <1>7, <3>1, <3>2
    <3>4. longer[k + 1].ts >= cutoff
        BY <3>3 DEF fresh
    <3>5. QED BY <1>6, <3>1, <3>2, <3>3, <3>4, SampleTyped
  <2>5. kept[1].ts + MinLag <= kept[at].ts + MaxLag
    <3>1. CASE at = 1
        BY <1>1, <2>3, <3>1
    <3>2. CASE 1 < at
        BY <1>10, <2>3, <2>4, <3>2 DEF Timely
    <3>3. QED BY <1>8, <2>3, <3>1, <3>2
  <2>6. ts - kept[at].ts \in Horizon..(2 * Horizon + MaxLag - MinLag)
    <3>1. \A h, m, l, s, r, x \in Int :
              r <= s - h /\ x >= s - 2 * h /\ x + l <= r + m =>
                  s - r \in h..(2 * h + m - l)
        OBVIOUS
    <3>2. Horizon \in Int /\ MaxLag \in Int
        BY <1>1
    <3> HIDE DEF kept
    <3>3. QED BY <1>1, <2>3, <2>4, <2>5, <3>1, <3>2
  <2> DEFINE return == [up |-> feed.price > kept[at].price, span |-> ts - kept[at].ts]
  <2>7. return \in Spans
    <3>1. (feed.price > kept[at].price) \in BOOLEAN
        OBVIOUS
    <3>2. QED BY <2>6, <3>1 DEF Spans
  <2>8. returns' = Bounded(Append(returns, return))
      BY <1>4, <1>12
  <2> HIDE DEF return
  <2>9. Append(returns, return) \in Seq(Spans) /\ Append(returns, return) # <<>>
      BY <2>7 DEF SampleInv
  <2>10. Tail(Append(returns, return)) \in Seq(Spans)
      BY <2>9
  <2>11. QED BY <1>3, <1>10, <2>8, <2>9, <2>10 DEF Bounded
<1>13. QED BY <1>11, <1>12

LEMMA SampleStep == Core /\ SampleInv /\ [Next]_vars => SampleInv'
<1> SUFFICES ASSUME Core, SampleInv, [Next]_vars PROVE SampleInv'
    OBVIOUS
<1>1. CASE Done \/ UNCHANGED vars
    BY <1>1 DEF Done, vars, SampleInv, Timely
<1>2. ASSUME NEW d \in Durations, NEW feed \in Feeds \cup {Absent}, NEW book,
             \/ Refuse(now + d, feed, book)
             \/ Cancel(now + d, feed, book)
      PROVE  SampleInv'
  <2>1. StartTurn(now + d, feed) /\ prices' = prices /\ returns' = returns
      BY <1>2 DEF Refuse, Cancel
  <2>2. now \in Nat /\ now' \in Nat /\ now <= now'
      BY <2>1, TurnStarts DEF Core
  <2>3. CASE Feeds = {}
      BY <2>1, <2>3 DEF SampleInv, Timely
  <2>4. QED BY <2>1, <2>2, <2>3, TimelyLater DEF SampleInv
<1>3. ASSUME NEW d \in Durations, NEW feed \in Feeds \cup {Absent}, NEW book,
             \/ Pass(now + d, feed, book)
             \/ Trade(now + d, feed, book)
      PROVE  SampleInv'
  <2>1. /\ StartTurn(now + d, feed)
        /\ feed # Absent /\ feed.lag <= OfficialStale
        /\ UpdateModel((now + d) - feed.lag, feed.price)
    <3>1. StartTurn(now + d, feed) /\ Tradable(now + d, feed)
        BY <1>3 DEF Pass, Trade
    <3>2. feed # Absent /\ feed.lag <= OfficialStale
        BY <3>1 DEF Tradable
    <3>3. UpdateModel((now + d) - feed.lag, feed.price)
        BY <1>3 DEF Pass, Trade
    <3>4. QED BY <3>1, <3>2, <3>3
  <2>2. now \in Nat /\ now' = now + d /\ now' \in Nat /\ now <= now'
      BY <2>1, TurnStarts DEF Core
  <2>3. feed \in Feeds
      BY <2>1
  <2>4. Timely(prices', now + d) /\ returns' \in Seq(Spans)
      BY <2>1, <2>2, <2>3, ModelUpdated
  <2>5. QED BY <2>2, <2>3, <2>4 DEF SampleInv
<1>4. QED BY <1>1, <1>2, <1>3 DEF Next

\* Whatever order stamps arrive in, a return compares prices that are at least
\* one horizon apart and at most two horizons and the range of the lags, although
\* only the head of the queue is pruned (RollingReturnModel.update).
THEOREM ReturnsAreSpanned == Spec => []ReturnsSpanTheHorizon
<1>1. Init => SampleInv
    BY DEF Init, SampleInv, Timely
<1>2. SampleInv => ReturnsSpanTheHorizon
  <2>1. ASSUME SampleInv, NEW i \in DOMAIN returns
        PROVE  returns[i].span \in Horizon..(2 * Horizon + MaxLag - MinLag)
    <3> DEFINE return == returns[i]
    <3>1. return \in Spans
        BY <2>1 DEF SampleInv
    <3> HIDE DEF return
    <3>2. return.span \in Horizon..(2 * Horizon + MaxLag - MinLag)
        BY <3>1 DEF Spans
    <3>3. QED BY <3>2 DEF return
  <2>2. QED BY <2>1 DEF ReturnsSpanTheHorizon
<1>3. QED BY <1>1, <1>2, SampleStep, CoreHolds, PTL DEF Spec
==============================================================================
