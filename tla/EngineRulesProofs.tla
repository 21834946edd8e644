-------------------------- MODULE EngineRulesProofs --------------------------
(***************************************************************************)
(* Theorems about the two rules that the trading tasks apply: the risk     *)
(* caps of ExposureTracker, for every set of orders and all caps, and the  *)
(* crossover of SmaStrategy, for all windows and prices.  Both keep sums   *)
(* that the code updates and the specification defines by a fold.          *)
(***************************************************************************)
EXTENDS ExposureTracker, SmaStrategy,
        FiniteSetTheorems, SequenceTheorems, WellFoundedInduction, TLAPS

------------------------------------------------------------------------------
(* What a fold over a finite set adds up to. *)

First(s) == CHOOSE x \in s : TRUE

\* g is the function by which the library's sum of w over T recurs.
Recurs(g, w, T) ==
    g = [s \in SUBSET T |-> IF s = {} THEN 0 ELSE w[First(s)] + g[s \ {First(s)}]]

LEMMA FirstIsMember == ASSUME NEW s, s # {} PROVE First(s) \in s
BY DEF First

LEMMA SumByRecursion ==
    ASSUME NEW w, NEW T
    PROVE  SumFunctionOnSet(w, T) = (CHOOSE g : Recurs(g, w, T))[T]
BY DEF SumFunctionOnSet, FoldFunctionOnSet, MapThenFoldSet, Recurs, First

\* A family of finite sets that is not empty has a member of which no proper
\* subset belongs to it.
LEMMA MinimalSet ==
    ASSUME NEW family, family # {}, \A T \in family : IsFiniteSet(T)
    PROVE  \E T \in family : \A U \in family : U \subseteq T => U = T
<1> DEFINE S == UNION family
<1>1. family \subseteq FiniteSubsetsOf(S)
    BY DEF FiniteSubsetsOf
<1>2. PICK T \in family : \A U \in family : ~ (<<U, T>> \in StrictSubsetOrdering(S))
    BY <1>1, FS_StrictSubsetOrderingWellFounded, WFMin
<1>3. ASSUME NEW U \in family, U \subseteq T PROVE U = T
  <2>1. <<U, T>> \notin StrictSubsetOrdering(S)
      BY <1>2
  <2>2. U \in SUBSET S /\ T \in SUBSET S
      OBVIOUS
  <2>3. QED BY <1>3, <2>1, <2>2 DEF StrictSubsetOrdering
<1>4. QED BY <1>3

LEMMA RecursionUnique ==
    ASSUME NEW w, NEW T, NEW U, IsFiniteSet(T), T \subseteq U,
           NEW g, NEW h, Recurs(g, w, T), Recurs(h, w, U)
    PROVE  \A s \in SUBSET T : g[s] = h[s]
<1> DEFINE differ == {s \in SUBSET T : g[s] # h[s]}
<1> SUFFICES ASSUME differ # {} PROVE FALSE
    OBVIOUS
<1>1. \A s \in differ : IsFiniteSet(s)
    BY FS_Subset
<1> HIDE DEF differ
<1>2. PICK s \in differ : \A r \in differ : r \subseteq s => r = s
    BY <1>1, MinimalSet
<1>3. s \in SUBSET T /\ s \in SUBSET U /\ g[s] # h[s]
    BY DEF differ
<1>4. s # {}
    BY <1>3 DEF Recurs
<1>5. First(s) \in s
    BY <1>4, FirstIsMember
<1>6. g[s \ {First(s)}] = h[s \ {First(s)}]
    BY <1>2, <1>3, <1>5 DEF differ
<1>7. /\ g[s] = w[First(s)] + g[s \ {First(s)}]
      /\ h[s] = w[First(s)] + h[s \ {First(s)}]
    BY <1>3, <1>4 DEF Recurs
<1>8. QED BY <1>3, <1>6, <1>7

LEMMA RecursionExists ==
    ASSUME NEW w, NEW T, IsFiniteSet(T)
    PROVE  \E g : Recurs(g, w, T)
<1> DEFINE lacking == {U \in SUBSET T : ~ \E g : Recurs(g, w, U)}
<1> SUFFICES ASSUME lacking # {} PROVE FALSE
    OBVIOUS
<1>1. \A U \in lacking : IsFiniteSet(U)
    BY FS_Subset
<1> HIDE DEF lacking
<1>2. PICK U \in lacking : \A V \in lacking : V \subseteq U => V = U
    BY <1>1, MinimalSet
<1>3. \A V \in SUBSET U : V # U => \E g : Recurs(g, w, V)
    BY <1>2 DEF lacking
<1> DEFINE Chosen(V) == CHOOSE g : Recurs(g, w, V)
           Sum(V) == Chosen(V)[V]
           Step(V) == IF V = {} THEN 0 ELSE w[First(V)] + Sum(V \ {First(V)})
           whole == [s \in SUBSET U |-> Step(s)]
<1>4. \A V \in SUBSET U : V # U => Recurs(Chosen(V), w, V)
    BY <1>3
<1>5. ASSUME NEW V \in SUBSET U, V # U PROVE Sum(V) = Step(V)
  <2>1. Recurs(Chosen(V), w, V)
      BY <1>4, <1>5
  <2>2. CASE V = {}
      BY <2>1, <2>2 DEF Recurs
  <2>3. CASE V # {}
    <3>1. First(V) \in V
        BY <2>3, FirstIsMember
    <3> DEFINE rest == V \ {First(V)}
    <3>2. rest \in SUBSET U /\ rest # U /\ rest \subseteq V /\ IsFiniteSet(rest)
        BY <1>1, <3>1, FS_Subset
    <3>3. Recurs(Chosen(rest), w, rest)
        BY <1>4, <3>2
    <3>4. Chosen(rest)[rest] = Chosen(V)[rest]
      <4>1. rest \in SUBSET rest
          OBVIOUS
      <4> HIDE DEF Chosen, rest
      <4>2. QED BY <2>1, <3>2, <3>3, <4>1, RecursionUnique
    <3>5. Chosen(V)[V] = w[First(V)] + Chosen(V)[rest]
      <4> HIDE DEF Chosen
      <4>1. QED BY <2>1, <2>3 DEF Recurs
    <3>6. QED BY <2>3, <3>4, <3>5
  <2>4. QED BY <2>2, <2>3
<1> HIDE DEF Sum, Step
<1>6. Recurs(whole, w, U)
  <2> SUFFICES ASSUME NEW s \in SUBSET U
               PROVE  Step(s) = IF s = {} THEN 0 ELSE w[First(s)] + whole[s \ {First(s)}]
      BY DEF Recurs
  <2>1. CASE s = {}
      BY <2>1 DEF Step
  <2>2. CASE s # {}
    <3>1. First(s) \in s
        BY <2>2, FirstIsMember
    <3>2. s \ {First(s)} \in SUBSET U /\ s \ {First(s)} # U
        BY <3>1
    <3>3. whole[s \ {First(s)}] = Sum(s \ {First(s)})
      <4> DEFINE rest == s \ {First(s)}
      <4>1. Sum(rest) = Step(rest) /\ rest \in SUBSET U
          BY <1>5, <3>2
      <4> HIDE DEF rest
      <4>2. whole[rest] = Step(rest)
          BY <4>1
      <4>3. QED BY <4>1, <4>2 DEF rest
    <3>4. QED BY <2>2, <3>3 DEF Step
  <2>3. QED BY <2>1, <2>2
<1>7. QED BY <1>2, <1>6 DEF lacking

\* The library's sum, unfolded once.
LEMMA SumUnfolded ==
    ASSUME NEW w, NEW T, IsFiniteSet(T)
    PROVE  SumFunctionOnSet(w, T) =
              IF T = {} THEN 0
              ELSE w[First(T)] + SumFunctionOnSet(w, T \ {First(T)})
<1> DEFINE rest == T \ {First(T)}
           g == CHOOSE f : Recurs(f, w, T)
           h == CHOOSE f : Recurs(f, w, rest)
<1>1. rest \subseteq T /\ IsFiniteSet(rest)
    BY FS_Subset
<1>2. Recurs(g, w, T)
    BY RecursionExists
<1>3. Recurs(h, w, rest)
    BY <1>1, RecursionExists
<1>4. SumFunctionOnSet(w, T) = g[T] /\ SumFunctionOnSet(w, rest) = h[rest]
    BY SumByRecursion
<1> HIDE DEF g, h
<1>5. h[rest] = g[rest]
    BY <1>1, <1>2, <1>3, RecursionUnique
<1>6. g[T] = IF T = {} THEN 0 ELSE w[First(T)] + g[rest]
    BY <1>2 DEF Recurs
<1>7. QED BY <1>4, <1>5, <1>6

\* A sum of integers is one.
LEMMA SumIsInteger ==
    ASSUME NEW w, NEW T, IsFiniteSet(T), \A x \in T : w[x] \in Int
    PROVE  SumFunctionOnSet(w, T) \in Int
<1> DEFINE bad == {U \in SUBSET T : SumFunctionOnSet(w, U) \notin Int}
<1> SUFFICES ASSUME bad # {} PROVE FALSE
    OBVIOUS
<1>1. \A U \in bad : IsFiniteSet(U)
    BY FS_Subset
<1> HIDE DEF bad
<1>2. PICK U \in bad : \A V \in bad : V \subseteq U => V = U
    BY <1>1, MinimalSet
<1>3. U \in SUBSET T /\ SumFunctionOnSet(w, U) \notin Int /\ IsFiniteSet(U)
    BY <1>1 DEF bad
<1>4. U # {}
  <2>1. U = {} => SumFunctionOnSet(w, U) = 0
      BY <1>3, SumUnfolded
  <2>2. QED BY <1>3, <2>1
<1>5. First(U) \in U
    BY <1>4, FirstIsMember
<1> DEFINE rest == U \ {First(U)}
<1>6. SumFunctionOnSet(w, rest) \in Int
    BY <1>2, <1>3, <1>5 DEF bad
<1>7. SumFunctionOnSet(w, U) = w[First(U)] + SumFunctionOnSet(w, rest)
    BY <1>3, <1>4, SumUnfolded
<1>8. QED BY <1>3, <1>5, <1>6, <1>7

\* The order of the summands does not matter.
LEMMA SumWithout ==
    ASSUME NEW w, NEW T, IsFiniteSet(T), \A x \in T : w[x] \in Int, NEW x \in T
    PROVE  SumFunctionOnSet(w, T) = w[x] + SumFunctionOnSet(w, T \ {x})
<1> DEFINE Splits(U, y) == SumFunctionOnSet(w, U) = w[y] + SumFunctionOnSet(w, U \ {y})
           bad == {U \in SUBSET T : \E y \in U : ~ Splits(U, y)}
<1> SUFFICES ASSUME bad # {} PROVE FALSE
    OBVIOUS
<1>1. \A U \in bad : IsFiniteSet(U)
    BY FS_Subset
<1> HIDE DEF bad
<1>2. PICK U \in bad : \A V \in bad : V \subseteq U => V = U
    BY <1>1, MinimalSet
<1>3. U \in SUBSET T /\ IsFiniteSet(U)
    BY <1>1 DEF bad
<1>4. PICK y \in U : ~ Splits(U, y)
    BY <1>2 DEF bad
<1> DEFINE z == First(U)
<1>5. z \in U
    BY <1>4, FirstIsMember
<1>6. Splits(U, z)
    BY <1>3, <1>4, SumUnfolded
<1> HIDE DEF z, Splits
<1>7. y # z
    BY <1>4, <1>6
<1>8. Splits(U \ {z}, y) /\ Splits(U \ {y}, z)
    BY <1>2, <1>3, <1>4, <1>5, <1>7 DEF bad
<1> DEFINE both == SumFunctionOnSet(w, (U \ {z}) \ {y})
<1>9. (U \ {y}) \ {z} = (U \ {z}) \ {y}
    OBVIOUS
<1>10. both \in Int
    BY <1>3, FS_Subset, SumIsInteger
<1>11. w[y] \in Int /\ w[z] \in Int
    BY <1>3, <1>4, <1>5
<1>12. SumFunctionOnSet(w, U) = w[z] + (w[y] + both)
    BY <1>6, <1>8 DEF Splits
<1>13. SumFunctionOnSet(w, U \ {y}) = w[z] + both
    BY <1>8, <1>9 DEF Splits
<1> HIDE DEF both
<1>14. SumFunctionOnSet(w, U) = w[y] + SumFunctionOnSet(w, U \ {y})
    BY <1>10, <1>11, <1>12, <1>13
<1>15. QED BY <1>4, <1>14 DEF Splits

\* What one more summand adds.
LEMMA SumWith ==
    ASSUME NEW w, NEW T, IsFiniteSet(T), NEW x, x \notin T, \A y \in T \cup {x} : w[y] \in Int
    PROVE  SumFunctionOnSet(w, T \cup {x}) = w[x] + SumFunctionOnSet(w, T)
<1>1. IsFiniteSet(T \cup {x}) /\ (T \cup {x}) \ {x} = T
    BY FS_AddElement
<1>2. QED BY <1>1, SumWithout

------------------------------------------------------------------------------
(* The tracker. *)

\* Admission and release keep the tracker's fields well typed.
THEOREM TrackerTypeCorrect == Spec => []TypeOK
<1>1. Init => TypeOK
  BY DEF Init, TypeOK
<1>2. TypeOK /\ [Next]_trackerVars => TypeOK'
  <2> SUFFICES ASSUME TypeOK, [Next]_trackerVars PROVE TypeOK'
    OBVIOUS
  <2>1. ASSUME NEW o \in Orders, CheckAndUpdate(o) PROVE TypeOK'
    BY <2>1, CapsAssumption
    DEF CheckAndUpdate, Reserved, SymbolExposure, TypeOK, Symbols
  <2>2. ASSUME NEW o \in Orders, Release(o) PROVE TypeOK'
    BY <2>2, CapsAssumption DEF Release, Released, TypeOK, Symbols
  <2>3. CASE UNCHANGED trackerVars
    BY <2>3 DEF trackerVars, TypeOK, Symbols
  <2>4. QED BY <2>1, <2>2, <2>3 DEF Next
<1>3. QED BY <1>1, <1>2, PTL DEF Spec

\* Contract I2: no sequence of admissions and releases exceeds a cap.
THEOREM CapsNeverExceeded == Spec => []CapsHold
<1>1. Init => CapsHold
  BY CapsAssumption DEF Init, CapsHold
<1>2. TypeOK /\ CapsHold /\ [Next]_trackerVars => CapsHold'
  <2> SUFFICES ASSUME TypeOK, CapsHold, [Next]_trackerVars PROVE CapsHold'
    OBVIOUS
  <2>1. ASSUME NEW o \in Orders, CheckAndUpdate(o) PROVE CapsHold'
    BY <2>1, CapsAssumption
    DEF CheckAndUpdate, WithinCaps, Reserved, SymbolExposure, TypeOK, CapsHold
  <2>2. ASSUME NEW o \in Orders, Release(o) PROVE CapsHold'
    BY <2>2, CapsAssumption DEF Release, Released, TypeOK, CapsHold
  <2>3. CASE UNCHANGED trackerVars
    BY <2>3 DEF trackerVars, CapsHold
  <2>4. QED BY <2>1, <2>2, <2>3 DEF Next
<1>3. QED BY <1>1, <1>2, TrackerTypeCorrect, PTL DEF Spec

\* What is outstanding, and of which symbol.
OfSymbol(s) == {o \in outstanding : o.symbol = s}

CountersInv ==
    /\ IsFiniteSet(outstanding)
    /\ \A o \in outstanding : o.symbol \in DOMAIN exposure.symbol
    /\ CountersMatchOutstanding

\* One order more or less in a set of orders.
LEMMA AmountChanges ==
    ASSUME NEW S, S \subseteq Orders, IsFiniteSet(S), NEW o \in Orders
    PROVE  /\ AmountOf(S) \in Int /\ Cardinality(S) \in Nat
           /\ o \notin S => /\ AmountOf(S \cup {o}) = AmountOf(S) + o.amount
                            /\ Cardinality(S \cup {o}) = Cardinality(S) + 1
           /\ o \in S => /\ AmountOf(S \ {o}) = AmountOf(S) - o.amount
                         /\ Cardinality(S) > 0
                         /\ Cardinality(S \ {o}) = Cardinality(S) - 1
<1> DEFINE w == [p \in Orders |-> p.amount]
<1>1. \A p \in Orders : w[p] = p.amount /\ w[p] \in Int
    BY CapsAssumption
<1> HIDE DEF w
<1>2. AmountOf(S) \in Int /\ Cardinality(S) \in Nat
    BY <1>1, SumIsInteger, FS_CardinalityType DEF AmountOf, w
<1>3. ASSUME o \notin S
      PROVE  /\ AmountOf(S \cup {o}) = AmountOf(S) + o.amount
             /\ Cardinality(S \cup {o}) = Cardinality(S) + 1
  <2>1. SumFunctionOnSet(w, S \cup {o}) = w[o] + SumFunctionOnSet(w, S)
      BY <1>1, <1>3, SumWith
  <2>2. AmountOf(S \cup {o}) = o.amount + AmountOf(S) /\ o.amount \in Int
      BY <1>1, <2>1 DEF AmountOf, w
  <2>3. Cardinality(S \cup {o}) = Cardinality(S) + 1
      BY <1>3, FS_AddElement
  <2>4. QED BY <1>2, <2>2, <2>3
<1>4. ASSUME o \in S
      PROVE  /\ AmountOf(S \ {o}) = AmountOf(S) - o.amount
             /\ Cardinality(S) > 0
             /\ Cardinality(S \ {o}) = Cardinality(S) - 1
  <2>1. SumFunctionOnSet(w, S) = w[o] + SumFunctionOnSet(w, S \ {o})
      BY <1>1, <1>4, SumWithout
  <2>2. IsFiniteSet(S \ {o}) /\ SumFunctionOnSet(w, S \ {o}) \in Int
      BY <1>1, FS_Subset, SumIsInteger
  <2>3. AmountOf(S) = o.amount + AmountOf(S \ {o}) /\ o.amount \in Int /\ AmountOf(S \ {o}) \in Int
      BY <1>1, <2>1, <2>2 DEF AmountOf, w
  <2>4. Cardinality(S \ {o}) = Cardinality(S) - 1 /\ Cardinality(S \ {o}) \in Nat
      BY <1>4, <2>2, FS_RemoveElement, FS_CardinalityType
  <2>5. QED BY <1>2, <2>3, <2>4
<1>5. QED BY <1>2, <1>3, <1>4

LEMMA NothingAmounts == AmountOf({}) = 0 /\ Cardinality({}) = 0
BY SumUnfolded, FS_EmptySet DEF AmountOf

LEMMA CountersInit == Init => CountersInv
<1> SUFFICES ASSUME Init PROVE CountersInv
    OBVIOUS
<1>1. IsFiniteSet(outstanding) /\ outstanding = {}
    BY FS_EmptySet DEF Init
<1>2. \A s : SymbolExposure(s) = 0 /\ {o \in outstanding : o.symbol = s} = {}
    BY DEF Init, SymbolExposure
<1>3. exposure.total = 0 /\ exposure.open = 0
    BY DEF Init
<1>4. CountersMatchOutstanding
    BY <1>1, <1>2, <1>3, NothingAmounts DEF CountersMatchOutstanding
<1>5. QED BY <1>1, <1>4 DEF CountersInv

LEMMA CheckKeepsCounters ==
    ASSUME TypeOK, CountersInv, NEW o \in Orders, CheckAndUpdate(o)
    PROVE  CountersInv'
<1>1. /\ o \notin outstanding /\ outstanding' = outstanding \cup {o}
      /\ exposure' = Reserved(o)
      /\ outstanding \subseteq Orders /\ IsFiniteSet(outstanding) /\ CountersMatchOutstanding
    BY DEF CheckAndUpdate, TypeOK, CountersInv
<1>2. IsFiniteSet(outstanding')
    BY <1>1, FS_AddElement
<1>3. \A p \in outstanding' : p.symbol \in DOMAIN exposure'.symbol
    BY <1>1 DEF CountersInv, Reserved
<1>4. exposure'.total = AmountOf(outstanding') /\ exposure'.open = Cardinality(outstanding')
  <2>1. exposure'.total = exposure.total + o.amount /\ exposure'.open = exposure.open + 1
      BY <1>1 DEF Reserved
  <2>2. /\ AmountOf(outstanding') = AmountOf(outstanding) + o.amount
        /\ Cardinality(outstanding') = Cardinality(outstanding) + 1
      BY <1>1, AmountChanges
  <2>3. exposure.total = AmountOf(outstanding) /\ exposure.open = Cardinality(outstanding)
      BY <1>1 DEF CountersMatchOutstanding
  <2>4. QED BY <2>1, <2>2, <2>3
<1>5. ASSUME NEW s \in Symbols
      PROVE  SymbolExposure(s)' = AmountOf({p \in outstanding' : p.symbol = s})
  <2>1. SymbolExposure(s) = AmountOf(OfSymbol(s)) /\ OfSymbol(s) \subseteq Orders
            /\ IsFiniteSet(OfSymbol(s)) /\ o \notin OfSymbol(s)
      BY <1>1, FS_Subset DEF CountersMatchOutstanding, OfSymbol
  <2>2. CASE s = o.symbol
    <3>1. {p \in outstanding' : p.symbol = s} = OfSymbol(s) \cup {o}
        BY <1>1, <2>2 DEF OfSymbol
    <3>2. SymbolExposure(s)' = SymbolExposure(s) + o.amount
        BY <1>1, <2>2 DEF SymbolExposure, Reserved
    <3>3. QED BY <2>1, <3>1, <3>2, AmountChanges
  <2>3. CASE s # o.symbol
    <3>1. {p \in outstanding' : p.symbol = s} = OfSymbol(s)
        BY <1>1, <2>3 DEF OfSymbol
    <3>2. SymbolExposure(s)' = SymbolExposure(s)
        BY <1>1, <2>3 DEF SymbolExposure, Reserved
    <3>3. QED BY <2>1, <3>1, <3>2
  <2>4. QED BY <2>2, <2>3
<1>6. CountersMatchOutstanding'
    BY <1>4, <1>5 DEF CountersMatchOutstanding, Symbols
<1>7. QED BY <1>2, <1>3, <1>6 DEF CountersInv

LEMMA ReleaseKeepsCounters ==
    ASSUME TypeOK, CountersInv, NEW o \in Orders, Release(o)
    PROVE  CountersInv'
<1>1. /\ o \in outstanding /\ outstanding' = outstanding \ {o}
      /\ exposure' = Released(o)
      /\ outstanding \subseteq Orders /\ IsFiniteSet(outstanding) /\ CountersMatchOutstanding
    BY DEF Release, TypeOK, CountersInv
<1>2. IsFiniteSet(outstanding')
    BY <1>1, FS_Subset
<1>3. \A p \in outstanding' : p.symbol \in DOMAIN exposure'.symbol
    BY <1>1 DEF CountersInv, Released
<1>4. exposure'.total = AmountOf(outstanding') /\ exposure'.open = Cardinality(outstanding')
  <2>1. /\ exposure'.total = exposure.total - o.amount
        /\ exposure.open > 0 => exposure'.open = exposure.open - 1
      BY <1>1 DEF Released
  <2>2. /\ AmountOf(outstanding') = AmountOf(outstanding) - o.amount
        /\ Cardinality(outstanding) > 0
        /\ Cardinality(outstanding') = Cardinality(outstanding) - 1
      BY <1>1, AmountChanges
  <2>3. exposure.total = AmountOf(outstanding) /\ exposure.open = Cardinality(outstanding)
      BY <1>1 DEF CountersMatchOutstanding
  <2>4. QED BY <2>1, <2>2, <2>3
<1>5. ASSUME NEW s \in Symbols
      PROVE  SymbolExposure(s)' = AmountOf({p \in outstanding' : p.symbol = s})
  <2>1. SymbolExposure(s) = AmountOf(OfSymbol(s)) /\ OfSymbol(s) \subseteq Orders
            /\ IsFiniteSet(OfSymbol(s))
      BY <1>1, FS_Subset DEF CountersMatchOutstanding, OfSymbol
  <2>2. CASE s = o.symbol
    <3>1. {p \in outstanding' : p.symbol = s} = OfSymbol(s) \ {o} /\ o \in OfSymbol(s)
        BY <1>1, <2>2 DEF OfSymbol
    <3>2. SymbolExposure(s)' = SymbolExposure(s) - o.amount
        BY <1>1, <2>2 DEF SymbolExposure, Released, CountersInv
    <3>3. QED BY <2>1, <3>1, <3>2, AmountChanges
  <2>3. CASE s # o.symbol
    <3>1. {p \in outstanding' : p.symbol = s} = OfSymbol(s)
        BY <1>1, <2>3 DEF OfSymbol
    <3>2. SymbolExposure(s)' = SymbolExposure(s)
        BY <1>1, <2>3 DEF SymbolExposure, Released
    <3>3. QED BY <2>1, <3>1, <3>2
  <2>4. QED BY <2>2, <2>3
<1>6. CountersMatchOutstanding'
    BY <1>4, <1>5 DEF CountersMatchOutstanding, Symbols
<1>7. QED BY <1>2, <1>3, <1>6 DEF CountersInv

\* Contract I2 again: what the counters say is what is outstanding, after any
\* sequence of admissions and releases (check_and_update, release).
THEOREM CountersAreExact == Spec => []CountersMatchOutstanding
<1>1. TypeOK /\ CountersInv /\ [Next]_trackerVars => CountersInv'
  <2> SUFFICES ASSUME TypeOK, CountersInv, [Next]_trackerVars PROVE CountersInv'
    OBVIOUS
  <2>1. ASSUME NEW o \in Orders, CheckAndUpdate(o) PROVE CountersInv'
    BY <2>1, CheckKeepsCounters
  <2>2. ASSUME NEW o \in Orders, Release(o) PROVE CountersInv'
    BY <2>2, ReleaseKeepsCounters
  <2>3. CASE UNCHANGED trackerVars
    BY <2>3 DEF trackerVars, CountersInv, CountersMatchOutstanding, SymbolExposure
  <2>4. QED BY <2>1, <2>2, <2>3 DEF Next
<1>2. CountersInv => CountersMatchOutstanding
  BY DEF CountersInv
<1>3. QED BY <1>1, <1>2, CountersInit, TrackerTypeCorrect, PTL DEF Spec

------------------------------------------------------------------------------
(* The crossover rule. *)

\* The window that ends with the n-th price.
Window(h, n) == SubSeq(h, n - LongWindow + 1, n)

LEMMA WindowHas ==
    ASSUME NEW h \in Seq(Prices), NEW n \in LongWindow..Len(h)
    PROVE  /\ Window(h, n) \in Seq(Prices) /\ Len(Window(h, n)) = LongWindow
           /\ \A i \in 1..LongWindow : Window(h, n)[i] = h[n - LongWindow + i]
<1>1. LongWindow \in Nat \ {0, 1} /\ Len(h) \in Nat /\ n \in Nat
    BY SmaAssumption DEF SmaAssumption
<1> DEFINE first == n - LongWindow + 1
<1>2. first \in 1..(Len(h) + 1) /\ n \in (first - 1)..Len(h) /\ n - first + 1 = LongWindow
    BY <1>1
<1>3. /\ SubSeq(h, first, n) \in Seq(Prices)
      /\ Len(SubSeq(h, first, n)) = LongWindow
      /\ \A i \in 1..LongWindow : SubSeq(h, first, n)[i] = h[first + i - 1]
    BY <1>1, <1>2, SubSeqProperties
<1>4. \A i \in 1..LongWindow : first + i - 1 = n - LongWindow + i
    BY <1>1
<1>5. QED BY <1>3, <1>4 DEF Window

LEMMA WindowKept ==
    ASSUME NEW h \in Seq(Prices), NEW p \in Prices, NEW n \in LongWindow..Len(h)
    PROVE  Window(Append(h, p), n) = Window(h, n)
<1>1. LongWindow \in Nat \ {0, 1} /\ Len(h) \in Nat /\ n \in Nat
    BY SmaAssumption DEF SmaAssumption
<1> DEFINE longer == Append(h, p)
<1>2. /\ longer \in Seq(Prices) /\ Len(longer) = Len(h) + 1
      /\ \A i \in 1..Len(h) : longer[i] = h[i]
    BY <1>1
<1> HIDE DEF longer
<1>3. n \in LongWindow..Len(longer)
    BY <1>1, <1>2
<1>4. \A i \in 1..LongWindow : n - LongWindow + i \in 1..Len(h)
    BY <1>1
<1>5. \A i \in 1..LongWindow : Window(longer, n)[i] = Window(h, n)[i]
    BY <1>2, <1>3, <1>4, WindowHas
<1>6. /\ Window(longer, n) \in Seq(Prices) /\ Len(Window(longer, n)) = LongWindow
      /\ Window(h, n) \in Seq(Prices) /\ Len(Window(h, n)) = LongWindow
    BY <1>2, <1>3, WindowHas
<1>7. Window(longer, n) = Window(h, n)
    BY <1>5, <1>6, SeqEqual
<1>8. QED BY <1>7 DEF longer

LEMMA WindowMoves ==
    ASSUME NEW h \in Seq(Prices), NEW p \in Prices, LongWindow <= Len(h)
    PROVE  /\ Len(Append(Window(h, Len(h)), p)) > LongWindow
           /\ Tail(Append(Window(h, Len(h)), p)) = Window(Append(h, p), Len(h) + 1)
<1>1. LongWindow \in Nat \ {0, 1} /\ Len(h) \in Nat /\ Len(h) \in LongWindow..Len(h)
    BY SmaAssumption DEF SmaAssumption
<1> DEFINE longer == Append(h, p)
           window == Window(h, Len(h))
           pushed == Append(window, p)
           moved == Tail(pushed)
           next == Window(longer, Len(h) + 1)
<1>2. /\ longer \in Seq(Prices) /\ Len(longer) = Len(h) + 1 /\ longer[Len(h) + 1] = p
      /\ \A i \in 1..Len(h) : longer[i] = h[i]
    BY <1>1
<1>3. /\ window \in Seq(Prices) /\ Len(window) = LongWindow
      /\ \A i \in 1..LongWindow : window[i] = h[Len(h) - LongWindow + i]
    BY <1>1, WindowHas
<1> HIDE DEF longer, window
<1>4. /\ pushed \in Seq(Prices) /\ Len(pushed) = LongWindow + 1 /\ pushed[LongWindow + 1] = p
      /\ \A i \in 1..LongWindow : pushed[i] = window[i]
    BY <1>1, <1>3
<1> HIDE DEF pushed
<1>5. /\ moved \in Seq(Prices) /\ Len(moved) = LongWindow
      /\ \A i \in 1..LongWindow : moved[i] = pushed[i + 1]
  <2>1. pushed # <<>>
      BY <1>1, <1>4
  <2>2. QED BY <1>1, <1>4, <2>1, HeadTailProperties
<1> HIDE DEF moved
<1>6. Len(h) + 1 \in LongWindow..Len(longer)
    BY <1>1, <1>2
<1>7. /\ next \in Seq(Prices) /\ Len(next) = LongWindow
      /\ \A i \in 1..LongWindow : next[i] = longer[(Len(h) + 1) - LongWindow + i]
    BY <1>2, <1>6, WindowHas
<1> HIDE DEF next
<1>8. \A i \in 1..LongWindow : moved[i] = next[i]
  <2> TAKE i \in 1..LongWindow
  <2>1. CASE i = LongWindow
    <3>1. (Len(h) + 1) - LongWindow + i = Len(h) + 1
        BY <1>1, <2>1
    <3>2. QED BY <1>2, <1>4, <1>5, <1>7, <2>1, <3>1
  <2>2. CASE i # LongWindow
    <3>1. i + 1 \in 1..LongWindow /\ (Len(h) + 1) - LongWindow + i \in 1..Len(h)
              /\ (Len(h) + 1) - LongWindow + i = Len(h) - LongWindow + (i + 1)
        BY <1>1, <2>2
    <3>2. moved[i] = pushed[i + 1] /\ pushed[i + 1] = window[i + 1]
        BY <1>4, <1>5, <3>1
    <3>3. window[i + 1] = h[Len(h) - LongWindow + (i + 1)]
        BY <1>3, <3>1
    <3>4. next[i] = longer[(Len(h) + 1) - LongWindow + i]
        BY <1>7
    <3>5. longer[(Len(h) + 1) - LongWindow + i] = h[(Len(h) + 1) - LongWindow + i]
        BY <1>2, <3>1
    <3>6. QED BY <3>1, <3>2, <3>3, <3>4, <3>5
  <2>3. QED BY <2>1, <2>2
<1>9. moved = next
    BY <1>5, <1>7, <1>8, SeqEqual
<1>10. Len(pushed) > LongWindow
    BY <1>1, <1>4
<1>11. QED BY <1>9, <1>10 DEF moved, next, pushed, window, longer

LEMMA WindowWhole ==
    ASSUME NEW h \in Seq(Prices), Len(h) = LongWindow
    PROVE  Window(h, Len(h)) = h
<1>1. LongWindow \in Nat /\ Len(h) \in LongWindow..Len(h)
    BY SmaAssumption DEF SmaAssumption
<1>2. \A i \in 1..LongWindow : Len(h) - LongWindow + i = i
    BY <1>1
<1>3. /\ Window(h, Len(h)) \in Seq(Prices) /\ Len(Window(h, Len(h))) = Len(h)
      /\ \A i \in 1..Len(h) : Window(h, Len(h))[i] = h[i]
    BY <1>1, <1>2, WindowHas
<1>4. QED BY <1>3, SeqEqual

LEMMA SumOfPrices ==
    ASSUME NEW s \in Seq(Prices)
    PROVE  SumFunction(s) \in Int
<1>1. IsFiniteSet(DOMAIN s)
  <2>1. DOMAIN s = 1..Len(s) /\ Len(s) \in Nat
      OBVIOUS
  <2>2. QED BY <2>1, FS_Interval
<1>2. \A i \in DOMAIN s : s[i] \in Int
  <2>1. \A i \in DOMAIN s : s[i] \in Prices
      OBVIOUS
  <2>2. QED BY <2>1, SmaAssumption DEF SmaAssumption
<1>3. SumFunction(s) = SumFunctionOnSet(s, DOMAIN s)
    BY DEF SumFunction, SumFunctionOnSet, FoldFunctionOnSet, MapThenFoldSet,
           SumFunctionOnSet, FoldFunctionOnSet, MapThenFoldSet
<1>4. QED BY <1>1, <1>2, <1>3, SumIsInteger

LEMMA DifferenceIsInteger ==
    ASSUME NEW s \in Seq(Prices), Len(s) = LongWindow
    PROVE  Difference(s) \in Int
<1>1. LongWindow \in Nat /\ ShortWindow \in Nat /\ ShortWindow < LongWindow /\ ShortWindow # 0
    BY SmaAssumption DEF SmaAssumption
<1> DEFINE first == Len(s) - ShortWindow + 1
<1>2. first \in 1..(Len(s) + 1) /\ Len(s) \in (first - 1)..Len(s)
    BY <1>1
<1>3. Recent(s, ShortWindow) \in Seq(Prices)
    BY <1>2, SubSeqProperties DEF Recent
<1>4. SumFunction(Recent(s, ShortWindow)) \in Int /\ SumFunction(s) \in Int
    BY <1>3, SumOfPrices
<1>5. QED BY <1>1, <1>4 DEF Difference

\* The difference after the n-th tick of a history, and the crossings there.
Gap(h, n) == Difference(Window(h, n))
Buys(h, n) == n > LongWindow /\ Gap(h, n - 1) <= 0 /\ Gap(h, n) > 0
Sells(h, n) == n > LongWindow /\ Gap(h, n - 1) >= 0 /\ Gap(h, n) < 0

Sides == {"BUY", "SELL"}
Crosses(h, n, s) == (s = "BUY" /\ Buys(h, n)) \/ (s = "SELL" /\ Sells(h, n))
Says(list, n, s) == \E i \in DOMAIN list : list[i] = [n |-> n, side |-> s]
Exact(h, list) == \A n \in DOMAIN h : \A s \in Sides : Crosses(h, n, s) <=> Says(list, n, s)

\* The bounded window is the end of the whole history, and the remembered
\* difference the one of the latest tick.
RuleInv ==
    /\ history \in Seq(Prices)
    /\ prices = IF Len(history) < LongWindow THEN history ELSE Window(history, Len(history))
    /\ prevDiff = IF Len(history) < LongWindow THEN <<>> ELSE <<Gap(history, Len(history))>>
    /\ signals \in Seq([n : Nat, side : Sides])
    /\ \A i \in DOMAIN signals : signals[i].n \in DOMAIN history
    /\ Exact(history, signals)

LEMMA WindowPushed ==
    ASSUME RuleInv, NEW p \in Prices, Receive(p)
    PROVE  /\ history' \in Seq(Prices) /\ history' = Append(history, p)
           /\ Len(history') = Len(history) + 1 /\ Len(history) \in Nat
           /\ prices' = IF Len(history') < LongWindow THEN history'
                                                      ELSE Window(history', Len(history'))
           /\ Len(prices') < LongWindow <=> Len(history') < LongWindow
           /\ Len(prices') >= LongWindow <=> Len(history') >= LongWindow
<1>1. /\ LongWindow \in Nat \ {0, 1} /\ Len(history) \in Nat
      /\ history \in Seq(Prices) /\ history' = Append(history, p)
      /\ prices' = Pushed(p)
    BY SmaAssumption DEF SmaAssumption, RuleInv, Receive
<1>2. history' \in Seq(Prices) /\ Len(history') = Len(history) + 1
    BY <1>1
<1>3. CASE Len(history) < LongWindow
  <2>1. prices' = history'
    <3>1. Pushed(p) = history'
        BY <1>1, <1>2, <1>3 DEF Pushed, RuleInv
    <3>2. QED BY <1>1, <3>1
  <2>2. CASE Len(history') < LongWindow
      BY <1>1, <1>2, <2>1, <2>2
  <2>3. CASE Len(history') = LongWindow
      BY <1>1, <1>2, <2>1, <2>3, WindowWhole
  <2>4. QED BY <1>1, <1>2, <1>3, <2>2, <2>3
<1>4. CASE LongWindow <= Len(history)
  <2>1. prices = Window(history, Len(history))
      BY <1>1, <1>4 DEF RuleInv
  <2>2. prices' = Window(history', Len(history'))
      BY <1>1, <1>2, <1>4, <2>1, WindowMoves DEF Pushed
  <2>3. Len(history') \in LongWindow..Len(history')
      BY <1>1, <1>2, <1>4
  <2>4. Len(prices') = LongWindow
      BY <1>2, <2>2, <2>3, WindowHas
  <2>5. QED BY <1>1, <1>2, <1>4, <2>2, <2>4
<1>5. QED BY <1>1, <1>3, <1>4

LEMMA GapIsInteger ==
    ASSUME NEW h \in Seq(Prices), NEW n \in LongWindow..Len(h)
    PROVE  Gap(h, n) \in Int
BY WindowHas, DifferenceIsInteger DEF Gap

\* A tick leaves the crossings of the ticks before it.
LEMMA PastStays ==
    ASSUME NEW h \in Seq(Prices), NEW p \in Prices, NEW n \in DOMAIN h, NEW s
    PROVE  Crosses(Append(h, p), n, s) <=> Crosses(h, n, s)
<1>1. LongWindow \in Nat /\ Len(h) \in Nat /\ n \in 1..Len(h)
    BY SmaAssumption DEF SmaAssumption
<1>2. CASE n > LongWindow
  <2>1. n \in LongWindow..Len(h) /\ n - 1 \in LongWindow..Len(h)
      BY <1>1, <1>2
  <2>2. Gap(Append(h, p), n) = Gap(h, n) /\ Gap(Append(h, p), n - 1) = Gap(h, n - 1)
      BY <2>1, WindowKept DEF Gap
  <2>3. QED BY <2>2 DEF Crosses, Buys, Sells
<1>3. CASE ~ (n > LongWindow)
    BY <1>3 DEF Crosses, Buys, Sells
<1>4. QED BY <1>2, <1>3

\* The signals stay, and the latest tick adds the one of its crossing, if any.
LEMMA TickDecided ==
    ASSUME NEW h \in Seq(Prices), NEW p \in Prices,
           NEW list \in Seq([n : Nat, side : Sides]), NEW more, NEW due, due \subseteq Sides,
           \A i \in DOMAIN list : list[i].n \in DOMAIN h, Exact(h, list),
           \A s \in Sides : s \in due <=> Crosses(Append(h, p), Len(h) + 1, s),
           \/ due = {} /\ more = list
           \/ \E s \in due : due = {s} /\ more = Append(list, [n |-> Len(h) + 1, side |-> s])
    PROVE  /\ more \in Seq([n : Nat, side : Sides])
           /\ \A i \in DOMAIN more : more[i].n \in DOMAIN Append(h, p)
           /\ Exact(Append(h, p), more)
<1> DEFINE n == Len(h) + 1
           longer == Append(h, p)
<1>1. /\ DOMAIN h = 1..Len(h) /\ DOMAIN longer = 1..n /\ n \in Nat
      /\ n \in DOMAIN longer /\ n \notin DOMAIN h
      /\ \A m \in DOMAIN longer : m \in DOMAIN h \/ m = n
      /\ \A m \in DOMAIN h : m \in DOMAIN longer
  <2>1. Len(h) \in Nat /\ DOMAIN h = 1..Len(h) /\ DOMAIN longer = 1..n
      OBVIOUS
  <2>2. QED BY <2>1
<1>2. \A s : ~ Says(list, n, s)
  <2> SUFFICES ASSUME NEW s, NEW i \in DOMAIN list, list[i] = [n |-> n, side |-> s] PROVE FALSE
      BY DEF Says
  <2>1. list[i].n = n
      OBVIOUS
  <2>2. QED BY <1>1, <2>1
<1>3. \A m \in DOMAIN h : \A s \in Sides : Crosses(longer, m, s) <=> Says(list, m, s)
    BY PastStays DEF Exact
<1>4. \A s \in Sides : Crosses(longer, n, s) <=> s \in due
    OBVIOUS
<1> HIDE DEF n, longer
<1>5. /\ more \in Seq([n : Nat, side : Sides])
      /\ \A i \in DOMAIN more : more[i].n \in DOMAIN longer
      /\ \A m \in DOMAIN h : \A s \in Sides : Says(more, m, s) <=> Says(list, m, s)
      /\ \A s \in Sides : Says(more, n, s) <=> s \in due
  <2>1. CASE due = {} /\ more = list
      BY <1>1, <1>2, <2>1
  <2>2. ASSUME NEW s \in Sides, due = {s}, more = Append(list, [n |-> n, side |-> s])
        PROVE  <1>5!1 /\ <1>5!2 /\ <1>5!3 /\ <1>5!4
    <3> DEFINE signal == [n |-> n, side |-> s]
               last == Len(list) + 1
    <3>1. signal \in [n : Nat, side : Sides] /\ signal.n = n /\ signal.side = s
        BY <1>1
    <3> HIDE DEF signal
    <3>2. /\ more \in Seq([n : Nat, side : Sides])
          /\ DOMAIN list = 1..Len(list) /\ Len(list) \in Nat
          /\ DOMAIN more = 1..last
          /\ more[last] = signal
          /\ \A i \in DOMAIN list : more[i] = list[i]
        BY <2>2, <3>1 DEF signal
    <3>3. /\ \A i \in DOMAIN more : i \in DOMAIN list \/ i = last
          /\ \A i \in DOMAIN list : i \in DOMAIN more
          /\ last \in DOMAIN more
        BY <3>2
    <3> HIDE DEF last
    <3>4. \A i \in DOMAIN more : more[i].n \in DOMAIN longer
        BY <1>1, <3>1, <3>2, <3>3
    <3>5. ASSUME NEW m, NEW t, signal # [n |-> m, side |-> t]
          PROVE  Says(more, m, t) <=> Says(list, m, t)
        BY <3>2, <3>3, <3>5 DEF Says
    <3>6. ASSUME NEW m \in DOMAIN h, NEW t
          PROVE  Says(more, m, t) <=> Says(list, m, t)
      <4>1. [n |-> m, side |-> t].n # n
          BY <1>1
      <4>2. QED BY <3>1, <3>5, <4>1
    <3>7. ASSUME NEW t \in Sides PROVE Says(more, n, t) <=> t \in due
      <4>1. CASE t = s
          BY <2>2, <3>2, <3>3, <4>1 DEF Says, signal
      <4>2. CASE t # s
        <5>1. [n |-> n, side |-> t].side # s
            BY <4>2
        <5>2. Says(more, n, t) <=> Says(list, n, t)
            BY <3>1, <3>5, <5>1
        <5>3. QED BY <1>2, <2>2, <4>2, <5>2
      <4>3. QED BY <4>1, <4>2
    <3>8. QED BY <3>2, <3>4, <3>6, <3>7
  <2>3. QED BY <2>1, <2>2 DEF n
<1>6. Exact(longer, more)
    BY <1>1, <1>3, <1>4, <1>5 DEF Exact
<1>7. QED BY <1>5, <1>6 DEF longer

LEMMA RuleStep ==
    ASSUME RuleInv, [SmaNext]_smaVars
    PROVE  RuleInv'
<1>1. CASE UNCHANGED smaVars
    BY <1>1 DEF smaVars, RuleInv
<1> DEFINE n == Len(history) + 1
<1>2. ASSUME NEW p \in Prices, Receive(p), NEW due, due \subseteq Sides,
             \A s \in Sides : s \in due <=> Crosses(history', n, s),
             \/ due = {} /\ signals' = signals
             \/ \E s \in due : due = {s} /\ signals' = Append(signals, [n |-> n, side |-> s]),
             prevDiff' = IF Len(prices') < LongWindow THEN <<>> ELSE <<Difference(prices')>>
      PROVE  RuleInv'
  <2>1. /\ history \in Seq(Prices) /\ signals \in Seq([n : Nat, side : Sides])
        /\ \A i \in DOMAIN signals : signals[i].n \in DOMAIN history
        /\ Exact(history, signals)
      BY DEF RuleInv
  <2>2. /\ history' \in Seq(Prices) /\ history' = Append(history, p)
        /\ prices' = IF Len(history') < LongWindow THEN history'
                                                   ELSE Window(history', Len(history'))
        /\ Len(prices') < LongWindow <=> Len(history') < LongWindow
      BY <1>2, WindowPushed
  <2>3. /\ signals' \in Seq([n : Nat, side : Sides])
        /\ \A i \in DOMAIN signals' : signals'[i].n \in DOMAIN history'
        /\ Exact(history', signals')
      BY <1>2, <2>1, <2>2, TickDecided
  <2>4. prevDiff' = IF Len(history') < LongWindow THEN <<>>
                                                  ELSE <<Gap(history', Len(history'))>>
      BY <1>2, <2>2 DEF Gap
  <2>5. QED BY <2>2, <2>3, <2>4 DEF RuleInv
<1>3. ASSUME NEW p \in Prices, Warmup(p) \/ FirstDifference(p) PROVE RuleInv'
  <2>1. Receive(p) /\ signals' = signals
      BY <1>3 DEF Warmup, FirstDifference
  <2>2. LongWindow \in Nat /\ Len(history) \in Nat /\ Len(history') = n
      BY <2>1, WindowPushed, SmaAssumption DEF SmaAssumption
  <2>3. prevDiff' = IF Len(prices') < LongWindow THEN <<>> ELSE <<Difference(prices')>>
    <3>1. CASE Warmup(p)
      <4>1. Len(prices') < LongWindow /\ Len(history) < LongWindow
          BY <2>1, <2>2, <3>1, WindowPushed DEF Warmup
      <4>2. QED BY <3>1, <4>1 DEF Warmup, RuleInv
    <3>2. CASE FirstDifference(p)
      <4>1. ~ (Len(prices') < LongWindow)
          BY <2>1, <2>2, <3>2, WindowPushed DEF FirstDifference
      <4>2. QED BY <3>2, <4>1 DEF FirstDifference
    <3>3. QED BY <1>3, <3>1, <3>2
  <2>4. n <= LongWindow
    <3>1. CASE Warmup(p)
        BY <2>1, <2>2, <3>1, WindowPushed DEF Warmup
    <3>2. CASE FirstDifference(p)
      <4>1. prevDiff = <<>>
          BY <3>2 DEF FirstDifference
      <4>2. Len(history) < LongWindow
          BY <4>1 DEF RuleInv
      <4>3. QED BY <2>2, <4>2
    <3>3. QED BY <1>3, <3>1, <3>2
  <2>5. \A s \in Sides : s \in {} <=> Crosses(history', n, s)
      BY <2>2, <2>4 DEF Crosses, Buys, Sells
  <2>6. QED BY <1>2, <2>1, <2>3, <2>5
<1>4. ASSUME NEW p \in Prices, Compare(p) PROVE RuleInv'
  <2> DEFINE before == Gap(history', n - 1)
             now == Gap(history', n)
  <2>1. /\ Receive(p) /\ Len(prices') >= LongWindow /\ prevDiff # <<>>
        /\ prevDiff' = <<Difference(prices')>>
      BY <1>4 DEF Compare
  <2>2. /\ LongWindow \in Nat /\ Len(history) \in Nat /\ Len(history') = n /\ n - 1 = Len(history)
        /\ history \in Seq(Prices) /\ history' \in Seq(Prices) /\ history' = Append(history, p)
        /\ ~ (Len(prices') < LongWindow) /\ Len(history') >= LongWindow
      BY <2>1, WindowPushed, SmaAssumption DEF SmaAssumption, RuleInv
  <2>3. ~ (Len(history) < LongWindow) /\ prevDiff = <<Gap(history, Len(history))>>
      BY <2>1 DEF RuleInv
  <2>4. n > LongWindow /\ n \in LongWindow..Len(history') /\ n - 1 \in LongWindow..Len(history')
            /\ n - 1 \in LongWindow..Len(history)
      BY <2>2, <2>3
  <2>5. now \in Int /\ before \in Int
      BY <2>2, <2>4, GapIsInteger
  <2>6. prevDiff[1] = before /\ prevDiff'[1] = now
    <3>1. Gap(history, n - 1) = Gap(history', n - 1)
        BY <2>2, <2>4, WindowKept DEF Gap
    <3>2. prices' = Window(history', n)
        BY <2>1, <2>2, WindowPushed
    <3>3. QED BY <2>1, <2>2, <2>3, <3>1, <3>2 DEF Gap
  <2> DEFINE due == {s \in Sides : Crosses(history', n, s)}
  <2>7. /\ "BUY" \in due <=> before <= 0 /\ now > 0
        /\ "SELL" \in due <=> before >= 0 /\ now < 0
      BY <2>4 DEF Crosses, Buys, Sells, Sides
  <2>8. due \subseteq Sides /\ \A s \in Sides : s \in due <=> Crosses(history', n, s)
      OBVIOUS
  <2> HIDE DEF before, now, due
  <2>9. /\ Emitted(prevDiff[1], prevDiff'[1]) = due
        /\ due = {} \/ due = {"BUY"} \/ due = {"SELL"}
    <3>1. CASE before <= 0 /\ now > 0
      <4>1. due = {"BUY"}
        <5>1. "BUY" \in due /\ "SELL" \notin due
            BY <2>5, <2>7, <3>1
        <5>2. QED BY <2>8, <5>1 DEF Sides
      <4>2. Emitted(before, now) = {"BUY"}
          BY <2>5, <3>1 DEF Emitted
      <4>3. QED BY <2>6, <4>1, <4>2
    <3>2. CASE before >= 0 /\ now < 0
      <4>1. due = {"SELL"}
        <5>1. "SELL" \in due /\ "BUY" \notin due
            BY <2>5, <2>7, <3>2
        <5>2. QED BY <2>8, <5>1 DEF Sides
      <4>2. Emitted(before, now) = {"SELL"}
          BY <2>5, <3>2 DEF Emitted
      <4>3. QED BY <2>6, <4>1, <4>2
    <3>3. CASE ~ (before <= 0 /\ now > 0) /\ ~ (before >= 0 /\ now < 0)
      <4>1. due = {}
          BY <2>5, <2>7, <2>8, <3>3 DEF Sides
      <4>2. Emitted(before, now) = {}
          BY <2>5, <3>3 DEF Emitted
      <4>3. QED BY <2>6, <4>1, <4>2
    <3>4. QED BY <3>1, <3>2, <3>3
  <2>10. \/ due = {} /\ signals' = signals
         \/ \E s \in due : due = {s} /\ signals' = Append(signals, [n |-> n, side |-> s])
    <3>1. \/ due = {} /\ signals' = signals
          \/ \E s \in due : signals' = Append(signals, [n |-> n, side |-> s])
        BY <1>4, <2>2, <2>9 DEF Compare
    <3>2. QED BY <2>9, <3>1
  <2>11. QED BY <1>2, <2>1, <2>2, <2>8, <2>10
<1>5. QED BY <1>1, <1>3, <1>4 DEF SmaNext

LEMMA RuleStarts == ASSUME SmaInit PROVE RuleInv
<1>1. /\ history = <<>> /\ Len(history) = 0 /\ DOMAIN history = {} /\ history \in Seq(Prices)
      /\ prices = <<>> /\ prevDiff = <<>>
      /\ signals = <<>> /\ signals \in Seq([n : Nat, side : Sides]) /\ DOMAIN signals = {}
    BY DEF SmaInit
<1>2. 0 < LongWindow
    BY SmaAssumption DEF SmaAssumption
<1>3. QED BY <1>1, <1>2 DEF RuleInv, Exact

LEMMA RuleSignals == RuleInv => SignalsAreTheCrossings
BY DEF RuleInv, Exact, Sides, Crosses, Says, Buys, Sells, Gap, Window,
       SignalsAreTheCrossings, BuyAt, SellAt, DifferenceAt

\* S8: for all windows and any prices, the signals are exactly the crossings of
\* the two averages over the whole history (run_strategy_task).
THEOREM SignalsAreExact == SmaSpec => []SignalsAreTheCrossings
BY RuleStarts, RuleStep, RuleSignals, PTL DEF SmaSpec
==============================================================================
