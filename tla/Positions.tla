------------------------------- MODULE Positions -------------------------------
(***************************************************************************)
(* Facts about the positions 0..n of a sequence of n elements, for proofs   *)
(* that go along one.                                                       *)
(***************************************************************************)
EXTENDS Naturals, FiniteSetTheorems, TLAPS

\* A set of positions that is not empty has a last one: of the sets of members
\* from a member on, one has no smaller one.
LEMMA LastOne ==
    ASSUME NEW n \in Nat, NEW I \in SUBSET (0..n), I # {}
    PROVE  \E m \in I : \A k \in I : k <= m
<1> DEFINE From(i) == {j \in I : i <= j}
           T == {From(i) : i \in I}
<1>1. IsFiniteSet(I)
    <2>1. IsFiniteSet(0..n)
        BY FS_Interval
    <2> QED BY <2>1, FS_Subset
<1>2. IsWellFoundedOn(StrictSubsetOrdering(I), SUBSET I)
    <2>1. FiniteSubsetsOf(I) = SUBSET I
        BY <1>1, FS_FiniteSubsetsOfFinite
    <2> QED BY <2>1, FS_StrictSubsetOrderingWellFounded
<1>3. T \subseteq SUBSET I /\ T # {}
    OBVIOUS
<1>4. PICK X \in T : \A Y \in T : ~ (<<Y, X>> \in StrictSubsetOrdering(I))
    <2> HIDE DEF T
    <2> QED BY <1>2, <1>3, WFMin
<1>5. PICK m \in I : X = From(m)
    OBVIOUS
<1>6. ASSUME NEW k \in I, ~(k <= m) PROVE FALSE
    <2>1. m < k /\ m \in Nat /\ k \in Nat /\ I \subseteq Nat
        BY <1>6
    <2>2. From(k) \subseteq From(m)
        <3>1. ASSUME NEW j \in I, k <= j PROVE m <= j
            BY <2>1, <3>1
        <3> QED BY <3>1
    <2>3. m \in From(m) /\ m \notin From(k)
        BY <2>1
    <2>4. From(k) \in T
        OBVIOUS
    <2>5. <<From(k), From(m)>> \in StrictSubsetOrdering(I)
        BY <2>2, <2>3 DEF StrictSubsetOrdering
    <2> QED BY <1>4, <1>5, <2>4, <2>5
<1> QED BY <1>6

\* What holds at 0 and passes from a position to the next holds at all of them:
\* otherwise there is a last one before which it always held.
LEMMA StepByStep ==
    ASSUME NEW n \in Nat, NEW T, 0 \in T,
           \A i \in 0..n : i \in T /\ i < n => i + 1 \in T
    PROVE  0..n \subseteq T
<1> DEFINE I == {i \in 0..n : 0..i \subseteq T}
<1>1. 0 \in I
    <2>1. 0..0 = {0}
        OBVIOUS
    <2> QED BY <2>1
<1>2. PICK m \in I : \A k \in I : k <= m
    <2> HIDE DEF I
    <2>1. I \in SUBSET (0..n)
        BY DEF I
    <2> QED BY <1>1, <2>1, LastOne
<1>3. ~(m < n)
    <2> SUFFICES ASSUME m < n PROVE FALSE
        OBVIOUS
    <2>1. m + 1 \in T /\ m + 1 \in 0..n
        OBVIOUS
    <2>2. 0..(m + 1) \subseteq T
        <3>1. 0..(m + 1) = (0..m) \cup {m + 1}
            OBVIOUS
        <3> QED BY <2>1, <3>1
    <2>3. m + 1 \in I
        BY <2>1, <2>2
    <2> QED BY <1>2, <2>3
<1> QED BY <1>3

\* So has it a first one: the last one counted from the end.
LEMMA FirstOne ==
    ASSUME NEW n \in Nat, NEW I \in SUBSET (0..n), I # {}
    PROVE  \E m \in I : \A k \in I : m <= k
<1> DEFINE J == {n - k : k \in I}
<1>1. J \in SUBSET (0..n) /\ J # {}
    <2>1. \A k \in I : k \in Nat /\ n - k \in 0..n
        OBVIOUS
    <2> QED BY <2>1
<1>2. PICK j \in J : \A k \in J : k <= j
    <2> HIDE DEF J
    <2> QED BY <1>1, LastOne
<1>3. PICK m \in I : j = n - m
    OBVIOUS
<1>4. ASSUME NEW k \in I PROVE m <= k
    <2>1. n - k \in J /\ k \in Nat /\ m \in Nat
        OBVIOUS
    <2>2. n - k <= n - m
        BY <1>2, <1>3, <2>1
    <2> QED BY <2>1, <2>2
<1> QED BY <1>4

\* A function defined from its start on: F[i] gives its value at i from the last one.
Steps(F, n, A) == F \in [1..n -> [A -> A]]

Follows(f, base, F, n, A) ==
    /\ f \in [0..n -> A]
    /\ f[0] = base
    /\ \A i \in 1..n : f[i] = F[i][f[i - 1]]

\* It exists.
LEMMA Recursion ==
    ASSUME NEW n \in Nat, NEW A, NEW base \in A, NEW F, Steps(F, n, A)
    PROVE  \E f : Follows(f, base, F, n, A)
<1> USE DEF Follows, Steps
<1> DEFINE T == {m \in 0..n : \E g : Follows(g, base, F, m, A)}
<1>1. 0 \in T
    <2> DEFINE g == [i \in 0..0 |-> base]
    <2>1. 0 \in 0..0 /\ 1..0 = {}
        OBVIOUS
    <2>2. Follows(g, base, F, 0, A)
        BY <2>1
    <2> HIDE DEF g, Follows
    <2> QED BY <2>2
<1>2. ASSUME NEW m \in 0..n, m \in T, m < n PROVE m + 1 \in T
    <2>1. PICK g : Follows(g, base, F, m, A)
        BY <1>2
    <2> DEFINE h == [i \in 0..(m + 1) |-> IF i = m + 1 THEN F[m + 1][g[m]] ELSE g[i]]
    <2>2. m + 1 \in 1..n /\ g[m] \in A
        BY <1>2, <2>1
    <2>3. h \in [0..(m + 1) -> A]
        BY <2>1, <2>2
    <2>4. h[0] = base
        BY <2>1, <2>2
    <2>5. ASSUME NEW i \in 1..(m + 1) PROVE h[i] = F[i][h[i - 1]]
        <3>1. h[i - 1] = g[i - 1]
            OBVIOUS
        <3>2. CASE i = m + 1
            BY <3>1, <3>2
        <3>3. CASE i \in 1..m
            BY <2>1, <3>1, <3>3
        <3> QED BY <3>2, <3>3
    <2>6. Follows(h, base, F, m + 1, A)
        BY <2>3, <2>4, <2>5
    <2> HIDE DEF h, Follows
    <2> QED BY <2>2, <2>6
<1>3. n \in T
    <2> HIDE DEF T
    <2>1. \A m \in 0..n : m \in T /\ m < n => m + 1 \in T
        BY <1>2
    <2>2. 0..n \subseteq T
        BY <1>1, <2>1, StepByStep
    <2> QED BY <2>2
<1> QED BY <1>3

\* It is the only one, so that its values are in A, whoever defined it.
LEMMA OneRecursion ==
    ASSUME NEW n \in Nat, NEW A, NEW base \in A, NEW F, Steps(F, n, A),
           NEW f, f = [i \in 0..n |-> f[i]], f[0] = base,
           \A i \in 1..n : f[i - 1] \in A => f[i] = F[i][f[i - 1]]
    PROVE  Follows(f, base, F, n, A)
<1> DEFINE T == {i \in 0..n : f[i] \in A}
<1>1. 0 \in T
    OBVIOUS
<1>2. \A i \in 0..n : i \in T /\ i < n => i + 1 \in T
    <2> SUFFICES ASSUME NEW i \in 0..n, f[i] \in A, i < n PROVE f[i + 1] \in A
        OBVIOUS
    <2>1. i + 1 \in 1..n /\ (i + 1) - 1 = i
        OBVIOUS
    <2>2. f[i + 1] = F[i + 1][f[i]]
        BY <2>1
    <2>3. F[i + 1] \in [A -> A]
        BY <2>1 DEF Steps
    <2> QED BY <2>2, <2>3
<1>3. 0..n \subseteq T
    <2> HIDE DEF T
    <2> QED BY <1>1, <1>2, StepByStep
<1>4. f \in [0..n -> A]
    BY <1>3
<1>5. \A i \in 1..n : i - 1 \in 0..n
    OBVIOUS
<1> QED BY <1>4, <1>5 DEF Follows

-----------------------------------------------------------------------------
(* Streaks: hits between which nothing breaks. *)

\* The hits of the streak that goes on at i.
Streak(Hits, Breaks, i) == {k \in Hits \cap (1..i) : \A m \in k..i : m \notin Breaks}

\* How the streak changes at a position.
LEMMA StreakStep ==
    ASSUME NEW n \in Nat, NEW Hits \in SUBSET (1..n), NEW Breaks, NEW i \in 1..n
    PROVE  /\ i \in Breaks => Streak(Hits, Breaks, i) = {}
           /\ i \in Hits \ Breaks =>
                 Streak(Hits, Breaks, i) = Streak(Hits, Breaks, i - 1) \cup {i}
           /\ i \notin Hits \cup Breaks =>
                 Streak(Hits, Breaks, i) = Streak(Hits, Breaks, i - 1)
<1>1. \A k \in 1..i : i \in k..i
    OBVIOUS
<1>2. \A k \in 1..(i - 1) : k..i = (k..(i - 1)) \cup {i}
    OBVIOUS
<1>3. 1..i = (1..(i - 1)) \cup {i} /\ i..i = {i}
    OBVIOUS
<1> QED BY <1>1, <1>2, <1>3 DEF Streak

\* Streaks are finite.
LEMMA StreakFinite ==
    ASSUME NEW n \in Nat, NEW Hits \in SUBSET (1..n), NEW Breaks, NEW i \in 0..n
    PROVE  IsFiniteSet(Streak(Hits, Breaks, i)) /\ Cardinality(Streak(Hits, Breaks, i)) \in Nat
<1>1. IsFiniteSet(1..n)
    BY FS_Interval
<1>2. Streak(Hits, Breaks, i) \subseteq 1..n
    BY DEF Streak
<1> QED BY <1>1, <1>2, FS_Subset, FS_CardinalityType

\* How long it is, from one position to the next.
LEMMA StreakLength ==
    ASSUME NEW n \in Nat, NEW Hits \in SUBSET (1..n), NEW Breaks
    PROVE  /\ Cardinality(Streak(Hits, Breaks, 0)) = 0
           /\ \A i \in 1..n :
                /\ i \in Breaks => Cardinality(Streak(Hits, Breaks, i)) = 0
                /\ i \in Hits \ Breaks =>
                      Cardinality(Streak(Hits, Breaks, i)) =
                          Cardinality(Streak(Hits, Breaks, i - 1)) + 1
                /\ i \notin Hits \cup Breaks =>
                      Cardinality(Streak(Hits, Breaks, i)) =
                          Cardinality(Streak(Hits, Breaks, i - 1))
<1>1. Streak(Hits, Breaks, 0) = {}
    <2>1. 1..0 = {}
        OBVIOUS
    <2>2. \A k : k \notin Streak(Hits, Breaks, 0)
        BY <2>1 DEF Streak
    <2> QED BY <2>2
<1>2. ASSUME NEW i \in 1..n, i \in Hits \ Breaks
      PROVE  Cardinality(Streak(Hits, Breaks, i)) = Cardinality(Streak(Hits, Breaks, i - 1)) + 1
    <2> DEFINE S == Streak(Hits, Breaks, i - 1)
    <2>1. IsFiniteSet(S)
        <3>1. i - 1 \in 0..n
            OBVIOUS
        <3> QED BY <3>1, StreakFinite
    <2>2. i \notin S
        BY DEF Streak
    <2>3. Streak(Hits, Breaks, i) = S \cup {i}
        BY <1>2, StreakStep
    <2> HIDE DEF S
    <2>4. Cardinality(S \cup {i}) = Cardinality(S) + 1
        BY <2>1, <2>2, FS_AddElement
    <2> QED BY <2>3, <2>4 DEF S
<1>3. Cardinality({}) = 0
    BY FS_EmptySet
<1>4. ASSUME NEW i \in 1..n
      PROVE  /\ i \in Breaks => Cardinality(Streak(Hits, Breaks, i)) = 0
             /\ i \notin Hits \cup Breaks =>
                   Cardinality(Streak(Hits, Breaks, i)) = Cardinality(Streak(Hits, Breaks, i - 1))
    BY <1>3, StreakStep
<1> QED BY <1>1, <1>2, <1>3, <1>4

\* A counter that goes up at a hit and back to 0 at a break.
Counts(count, Hits, Breaks, n) ==
    /\ count \in [0..n -> Nat]
    /\ count[0] = 0
    /\ \A i \in 1..n : /\ i \in Breaks => count[i] = 0
                       /\ i \in Hits => count[i] = count[i - 1] + 1
                       /\ i \notin Hits \cup Breaks => count[i] = count[i - 1]

\* It counts the streak.
LEMMA StreakCounted ==
    ASSUME NEW n \in Nat, NEW Hits \in SUBSET (1..n), NEW Breaks, Hits \cap Breaks = {},
           NEW count, Counts(count, Hits, Breaks, n)
    PROVE  \A i \in 0..n : count[i] = Cardinality(Streak(Hits, Breaks, i))
<1> DEFINE long == [i \in 0..n |-> Cardinality(Streak(Hits, Breaks, i))]
           T == {i \in 0..n : count[i] = long[i]}
<1>1. /\ long[0] = 0
      /\ \A i \in 1..n : /\ i \in Breaks => long[i] = 0
                         /\ i \in Hits => long[i] = long[i - 1] + 1
                         /\ i \notin Hits \cup Breaks => long[i] = long[i - 1]
    <2>1. long[0] = 0
        BY StreakLength
    <2>2. ASSUME NEW i \in 1..n
          PROVE  /\ i \in Breaks => long[i] = 0
                 /\ i \in Hits => long[i] = long[i - 1] + 1
                 /\ i \notin Hits \cup Breaks => long[i] = long[i - 1]
        <3>1. /\ i \in 0..n /\ i - 1 \in 0..n
              /\ i \in Hits => i \in Hits \ Breaks
            OBVIOUS
        <3>2. /\ i \in Breaks => Cardinality(Streak(Hits, Breaks, i)) = 0
              /\ i \in Hits \ Breaks =>
                    Cardinality(Streak(Hits, Breaks, i)) =
                        Cardinality(Streak(Hits, Breaks, i - 1)) + 1
              /\ i \notin Hits \cup Breaks =>
                    Cardinality(Streak(Hits, Breaks, i)) =
                        Cardinality(Streak(Hits, Breaks, i - 1))
            BY StreakLength
        <3> QED BY <3>1, <3>2
    <2> QED BY <2>1, <2>2
<1> HIDE DEF long
<1>2. 0 \in T
    BY <1>1 DEF Counts
<1>3. \A i \in 0..n : i \in T /\ i < n => i + 1 \in T
    <2> SUFFICES ASSUME NEW i \in 0..n, i \in T, i < n PROVE count[i + 1] = long[i + 1]
        OBVIOUS
    <2>1. i + 1 \in 1..n /\ (i + 1) - 1 = i
        OBVIOUS
    <2> QED BY <1>1, <2>1 DEF Counts
<1>4. 0..n \subseteq T
    <2> HIDE DEF T
    <2> QED BY <1>2, <1>3, StepByStep
<1> QED BY <1>4 DEF long

\* So many hits from one hit to another, with no break in between.
InVain(Hits, Breaks, threshold) ==
    \E i, j \in Hits : /\ Cardinality(Hits \cap (i..j)) >= threshold
                        /\ \A k \in i..j : k \notin Breaks

\* The counter of a streak meets the threshold at a hit iff there are.
LEMMA StreakFound ==
    ASSUME NEW n \in Nat, NEW Hits \in SUBSET (1..n), NEW Breaks,
           Hits \cap Breaks = {}, NEW count, Counts(count, Hits, Breaks, n),
           NEW threshold \in Nat \ {0}
    PROVE  (\E i \in Hits : count[i] = threshold) <=> InVain(Hits, Breaks, threshold)
<1>1. \A i \in 0..n : count[i] = Cardinality(Streak(Hits, Breaks, i))
    BY StreakCounted
<1>2. IsFiniteSet(Hits)
    <2>1. IsFiniteSet(1..n)
        BY FS_Interval
    <2> QED BY <2>1, FS_Subset
<1>3. ASSUME NEW j \in Hits, count[j] = threshold
      PROVE  \E i \in Hits : /\ Cardinality(Hits \cap (i..j)) >= threshold
                             /\ \A k \in i..j : k \notin Breaks
    <2> DEFINE S == Streak(Hits, Breaks, j)
    <2>1. IsFiniteSet(S) /\ Cardinality(S) = threshold
        <3>1. j \in 0..n
            OBVIOUS
        <3> QED BY <1>1, <1>3, <3>1, StreakFinite
    <2>2. S # {}
        BY <2>1, FS_EmptySet
    <2>3. PICK i \in S : \A k \in S : i <= k
        <3>1. S \in SUBSET (0..n)
            BY DEF Streak
        <3> HIDE DEF S
        <3> QED BY <2>2, <3>1, FirstOne
    <2>4. S \subseteq Hits \cap (i..j)
        BY <2>3 DEF Streak
    <2>5. Cardinality(S) <= Cardinality(Hits \cap (i..j))
        <3>1. IsFiniteSet(Hits \cap (i..j))
            BY <1>2, FS_Subset
        <3> HIDE DEF S
        <3> QED BY <2>4, <3>1, FS_Subset
    <2>6. Cardinality(Hits \cap (i..j)) \in Nat
        BY <1>2, FS_Subset, FS_CardinalityType
    <2>7. i \in Hits /\ \A k \in i..j : k \notin Breaks
        BY <2>3 DEF Streak
    <2> HIDE DEF S
    <2> QED BY <2>1, <2>5, <2>6, <2>7
<1>4. ASSUME NEW i \in Hits, NEW j \in Hits,
             Cardinality(Hits \cap (i..j)) >= threshold,
             \A k \in i..j : k \notin Breaks
      PROVE  \E m \in Hits : count[m] = threshold
    <2> DEFINE S == Streak(Hits, Breaks, j)
    <2>1. Hits \cap (i..j) \subseteq S
        <3>1. ASSUME NEW k \in Hits \cap (i..j) PROVE k \in S
            <4>1. \A m \in k..j : m \in i..j
                OBVIOUS
            <4> QED BY <1>4, <4>1 DEF Streak
        <3> QED BY <3>1
    <2>2. IsFiniteSet(S) /\ Cardinality(S) \in Nat /\ count[j] = Cardinality(S)
        <3>1. j \in 0..n
            OBVIOUS
        <3> QED BY <1>1, <3>1, StreakFinite
    <2>3. Cardinality(Hits \cap (i..j)) \in Nat /\ Cardinality(Hits \cap (i..j)) <= Cardinality(S)
        <3> HIDE DEF S
        <3> QED BY <2>1, <2>2, FS_Subset, FS_CardinalityType
    <2>4. count[j] >= threshold
        BY <2>2, <2>3, <1>4
    <2> DEFINE Over == {m \in 0..n : count[m] >= threshold}
    <2>5. PICK m \in Over : \A k \in Over : m <= k
        <3>1. Over \in SUBSET (0..n) /\ j \in Over
            BY <2>4
        <3> HIDE DEF Over
        <3> QED BY <3>1, FirstOne
    <2>6. m # 0 /\ m \in 1..n /\ m - 1 \in 0..n
        BY DEF Counts
    <2>7. m - 1 \notin Over
        <3>1. ~(m <= m - 1)
            BY <2>6
        <3> HIDE DEF Over
        <3> QED BY <2>5, <3>1
    <2>8. /\ count[m - 1] < threshold /\ count[m] >= threshold
          /\ count[m] \in Nat /\ count[m - 1] \in Nat
        BY <2>6, <2>7 DEF Counts
    <2>9. /\ m \in Breaks => count[m] = 0
          /\ m \in Hits => count[m] = count[m - 1] + 1
          /\ m \notin Hits \cup Breaks => count[m] = count[m - 1]
        BY <2>6 DEF Counts
    <2>10. m \in Hits /\ count[m] = threshold
        <3> HIDE DEF Over
        <3>1. m \notin Breaks
            BY <2>8, <2>9
        <3>2. m \in Hits
            BY <3>1, <2>8, <2>9
        <3> QED BY <3>2, <2>8, <2>9
    <2> HIDE DEF Over
    <2> QED BY <2>10
<1> DEFINE Apart(i, j) == /\ Cardinality(Hits \cap (i..j)) >= threshold
                          /\ \A k \in i..j : k \notin Breaks
<1>5. \A j \in Hits : count[j] = threshold => \E i \in Hits : Apart(i, j)
    BY <1>3
<1>6. \A i, j \in Hits : Apart(i, j) => \E m \in Hits : count[m] = threshold
    BY <1>4
<1> HIDE DEF Apart
<1>7. (\E i \in Hits : count[i] = threshold) <=> \E i, j \in Hits : Apart(i, j)
    BY <1>5, <1>6
<1> QED BY <1>7 DEF Apart, InVain
================================================================================
