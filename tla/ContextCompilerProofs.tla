------------------------- MODULE ContextCompilerProofs -------------------------
(***************************************************************************)
(* What compile and localize may tell, whatever symbols, scores, budgets,   *)
(* caps and call graph: the budget and what it is spent on by an inductive  *)
(* invariant of the loop, the tiers by the order that localize lists in.    *)
(***************************************************************************)
EXTENDS ContextCompiler, Positions

-----------------------------------------------------------------------------
\* The greatest of two integers is one of them, and not less than either.
LEMMA MaxOfTwo ==
    ASSUME NEW a \in Int, NEW b \in Int
    PROVE  Max({a, b}) \in {a, b} /\ Max({a, b}) >= a /\ Max({a, b}) >= b
<1>1. \E x \in {a, b} : \A y \in {a, b} : x >= y
  <2>1. CASE a >= b
    BY <2>1
  <2>2. CASE ~ (a >= b)
    BY <2>2
  <2> QED BY <2>1, <2>2
<1>2. Max({a, b}) \in {a, b} /\ \A y \in {a, b} : Max({a, b}) >= y
  BY <1>1 DEF Max
<1> QED BY <1>2

\* So is the least.
LEMMA MinOfTwo ==
    ASSUME NEW a \in Int, NEW b \in Int
    PROVE  Min({a, b}) \in {a, b} /\ Min({a, b}) <= a /\ Min({a, b}) <= b
<1>1. \E x \in {a, b} : \A y \in {a, b} : x =< y
  <2>1. CASE a <= b
    BY <2>1
  <2>2. CASE ~ (a <= b)
    BY <2>2
  <2> QED BY <2>1, <2>2
<1>2. Min({a, b}) \in {a, b} /\ \A y \in {a, b} : Min({a, b}) =< y
  BY <1>1 DEF Min
<1> QED BY <1>2

\* R is a strict order of S in which no two members are equal.
StrictOrder(R, S) ==
    /\ \A x \in S : <<x, x>> \notin R
    /\ \A x, y, z \in S : <<x, y>> \in R /\ <<y, z>> \in R => <<x, z>> \in R
    /\ \A x, y \in S : x # y => <<x, y>> \in R \/ <<y, x>> \in R

\* A finite set that is ordered and not empty has a least member.
LEMMA LeastOne ==
    ASSUME NEW S, IsFiniteSet(S), S # {}, NEW R, StrictOrder(R, S)
    PROVE  \E m \in S : \A x \in S \ {m} : <<m, x>> \in R
<1> DEFINE Below(x) == {y \in S : <<y, x>> \in R}
           T == {Below(x) : x \in S}
<1>1. IsWellFoundedOn(StrictSubsetOrdering(S), SUBSET S)
  <2>1. FiniteSubsetsOf(S) = SUBSET S
    BY FS_FiniteSubsetsOfFinite
  <2> QED BY <2>1, FS_StrictSubsetOrderingWellFounded
<1>2. T \subseteq SUBSET S /\ T # {}
  OBVIOUS
<1>3. PICK X \in T : \A Y \in T : ~ (<<Y, X>> \in StrictSubsetOrdering(S))
  <2> HIDE DEF T
  <2> QED BY <1>1, <1>2, WFMin
<1>4. PICK m \in S : X = Below(m)
  OBVIOUS
<1>5. ASSUME NEW y \in Below(m) PROVE FALSE
  <2>1. Below(y) \subseteq Below(m)
    BY DEF StrictOrder
  <2>2. y \notin Below(y)
    BY DEF StrictOrder
  <2>3. Below(y) \in T
    OBVIOUS
  <2>4. <<Below(y), Below(m)>> \in StrictSubsetOrdering(S)
    BY <2>1, <2>2 DEF StrictSubsetOrdering
  <2> QED BY <1>3, <1>4, <2>3, <2>4
<1>6. \A x \in S \ {m} : <<m, x>> \in R
  BY <1>5 DEF StrictOrder
<1> QED BY <1>6

\* A finite set of integers that is not empty has a greatest one.
LEMMA MaxOfFinite ==
    ASSUME NEW S \in SUBSET Int, IsFiniteSet(S), S # {}
    PROVE  Max(S) \in S /\ \A y \in S : Max(S) >= y
<1> DEFINE R == {p \in S \X S : p[1] > p[2]}
<1>1. \A x, y \in S : <<x, y>> \in R <=> x > y
  OBVIOUS
<1> HIDE DEF R
<1>2. StrictOrder(R, S)
  BY <1>1 DEF StrictOrder
<1>3. PICK m \in S : \A x \in S \ {m} : <<m, x>> \in R
  BY <1>2, LeastOne
<1>4. ASSUME NEW y \in S PROVE m >= y
  <2>1. m \in Int /\ y \in Int
    OBVIOUS
  <2>2. CASE y = m
    BY <2>1, <2>2
  <2>3. CASE y # m
    <3>1. m > y
      BY <1>1, <1>3, <2>3
    <3> QED BY <2>1, <3>1
  <2> QED BY <2>2, <2>3
<1> QED BY <1>4 DEF Max

-----------------------------------------------------------------------------
\* Keys are compared like tuples: of two different ones of a length one is before the
\* other, and Before is a strict order of them.
LEMMA BeforeIrreflexive ==
    ASSUME NEW n \in Nat, NEW a \in [1..n -> Int]
    PROVE  ~ Before(a, a)
BY DEF Before

\* It is transitive.
LEMMA BeforeTransitive ==
    ASSUME NEW n \in Nat, NEW a \in [1..n -> Int], NEW b \in [1..n -> Int],
           NEW c \in [1..n -> Int], Before(a, b), Before(b, c)
    PROVE  Before(a, c)
<1>1. PICK i \in 1..n : a[i] < b[i] /\ \A j \in 1..(i - 1) : a[j] = b[j]
  BY DEF Before
<1>2. PICK k \in 1..n : b[k] < c[k] /\ \A j \in 1..(k - 1) : b[j] = c[j]
  BY DEF Before
<1>3. CASE i < k
  <2>1. a[i] < c[i] /\ \A j \in 1..(i - 1) : a[j] = c[j]
    BY <1>1, <1>2, <1>3
  <2> QED BY <2>1 DEF Before
<1>4. CASE k < i
  <2>1. a[k] < c[k] /\ \A j \in 1..(k - 1) : a[j] = c[j]
    BY <1>1, <1>2, <1>4
  <2> QED BY <2>1 DEF Before
<1>5. CASE i = k
  <2>1. a[i] < c[i] /\ \A j \in 1..(i - 1) : a[j] = c[j]
    BY <1>1, <1>2, <1>5
  <2> QED BY <2>1 DEF Before
<1> QED BY <1>3, <1>4, <1>5

\* Of two different keys one is before the other: at the first place where they differ.
LEMMA BeforeTotal ==
    ASSUME NEW n \in Nat, NEW a \in [1..n -> Int], NEW b \in [1..n -> Int], a # b
    PROVE  Before(a, b) \/ Before(b, a)
<1> DEFINE D == {i \in 1..n : a[i] # b[i]}
<1>1. D # {} /\ D \in SUBSET (0..n)
  OBVIOUS
<1>2. PICK m \in D : \A k \in D : m <= k
  <2> HIDE DEF D
  <2> QED BY <1>1, FirstOne
<1>3. m \in 1..n /\ a[m] # b[m] /\ a[m] \in Int /\ b[m] \in Int
  OBVIOUS
<1>4. \A j \in 1..(m - 1) : a[j] = b[j]
  <2> SUFFICES ASSUME NEW j \in 1..(m - 1), a[j] # b[j] PROVE FALSE
    OBVIOUS
  <2>1. j \in 1..n /\ j < m
    BY <1>3
  <2> QED BY <1>2, <2>1
<1>5. DOMAIN a = 1..n /\ DOMAIN b = 1..n
  OBVIOUS
<1> HIDE DEF D
<1>6. CASE a[m] < b[m]
  BY <1>3, <1>4, <1>5, <1>6 DEF Before
<1>7. CASE b[m] < a[m]
  BY <1>3, <1>4, <1>5, <1>7 DEF Before
<1> QED BY <1>3, <1>6, <1>7

\* What the assumptions say of a symbol.
LEMMA SymbolTyped ==
    ASSUME NEW s \in Symbols
    PROVE  /\ s \in SymbolType
           /\ s.name \in STRING /\ s.file \in Nat /\ s.line \in Nat
           /\ s.relevance \in 0..10 /\ s.header \in Nat /\ s.body \in Nat
           /\ s.identity \subseteq STRING /\ IsFiniteSet(s.identity)
<1>1. s \in SymbolType
  BY SymbolsAssumption
<1>2. IsFiniteSet(s.identity)
  BY WordsAssumption
<1> QED BY <1>1, <1>2 DEF SymbolType

\* No text is free.
LEMMA TokensTyped ==
    ASSUME NEW c \in Nat
    PROVE  /\ Tokens(c) \in Nat \ {0}
           /\ Tokens(c) = IF (c + 3) \div 4 = 0 THEN 1 ELSE (c + 3) \div 4
<1>1. (c + 3) \div 4 \in Nat /\ (c + 3) \div 4 \in Int /\ 1 \in Int
  OBVIOUS
<1>2. Max({1, (c + 3) \div 4}) \in {1, (c + 3) \div 4}
      /\ Max({1, (c + 3) \div 4}) >= 1 /\ Max({1, (c + 3) \div 4}) >= (c + 3) \div 4
  BY <1>1, MaxOfTwo
<1> QED BY <1>1, <1>2 DEF Tokens

\* What a symbol costs, and what its header alone does.
LEMMA CostTyped ==
    ASSUME NEW s \in SymbolType
    PROVE  /\ Rendered(s) \in Nat \ {0}
           /\ Cost(s) = (Rendered(s) + 3) \div 4
           /\ Cost(s) \in Nat \ {0}
<1>1. s.header \in Nat /\ s.body \in Nat
  BY DEF SymbolType
<1>2. Rendered(s) \in Nat \ {0}
  BY <1>1 DEF Rendered, Placeholder
<1>3. Cost(s) = IF (Rendered(s) + 3) \div 4 = 0 THEN 1 ELSE (Rendered(s) + 3) \div 4
  BY <1>2, TokensTyped DEF Cost
<1>4. (Rendered(s) + 3) \div 4 \in Nat \ {0}
  BY <1>2
<1> QED BY <1>2, <1>3, <1>4

\* Relevances are bounded.
LEMMA LexicalTyped ==
    ASSUME NEW s
    PROVE  Lexical(s) \in Nat
<1>1. IsFiniteSet(Concepts)
  BY WordsAssumption
<1>2. Cardinality(Concepts) \in Nat /\ Cardinality(Concepts) \in Int /\ 1 \in Int
  BY <1>1, FS_CardinalityType
<1>3. Cardinality(Concepts \intersect Haystack(s)) \in Nat
  <2>1. IsFiniteSet(Concepts \intersect Haystack(s))
    BY <1>1, FS_Intersection
  <2> QED BY <2>1, FS_CardinalityType
<1>4. Max({1, Cardinality(Concepts)}) \in Nat \ {0}
  <2>1. Max({1, Cardinality(Concepts)}) \in {1, Cardinality(Concepts)}
        /\ Max({1, Cardinality(Concepts)}) >= 1
    BY <1>2, MaxOfTwo
  <2> QED BY <1>2, <2>1
<1> DEFINE a == Cardinality(Concepts \intersect Haystack(s))
           b == Max({1, Cardinality(Concepts)})
<1>5. a \in Nat /\ b \in Nat \ {0}
  BY <1>3, <1>4
<1> HIDE DEF a, b
<1>6. (10 * a) \div b \in Nat
  BY <1>5
<1> QED BY <1>6 DEF Lexical, a, b

\* So is the greater of both.
LEMMA SemanticTyped ==
    ASSUME NEW s \in Symbols
    PROVE  Semantic(s) \in 0..10
<1> DEFINE m == Max({s.relevance, Lexical(s)})
<1>1. s.relevance \in Int /\ s.relevance >= 0 /\ Lexical(s) \in Nat /\ Lexical(s) \in Int
  BY SymbolTyped, LexicalTyped
<1>2. m \in {s.relevance, Lexical(s)}
  BY <1>1, MaxOfTwo
<1>3. m \in Int /\ m >= 0
  BY <1>1, <1>2
<1> HIDE DEF m
<1>4. Min({10, m}) \in {10, m} /\ Min({10, m}) <= 10
  BY <1>3, MinOfTwo
<1>5. Min({10, m}) \in 0..10
  BY <1>3, <1>4
<1> QED BY <1>5 DEF Semantic, m

\* Scores are integers, whatever the task and the symbol.
LEMMA ScoreTyped ==
    ASSUME NEW s \in Symbols, phase \in Phases
    PROVE  Score(s) \in Int
<1>1. Semantic(s) \in Int
  BY SemanticTyped
<1>2. /\ Weights(phase)[1] \in Int /\ Weights(phase)[2] \in Int
      /\ Weights(phase)[3] \in Int /\ Weights(phase)[4] \in Int
  BY PhasesAssumption DEF Weights
<1> DEFINE w == Weights(phase)
           d == IF s.body > 0 THEN 5 ELSE 2
           t == IF s.file \in TestFiles THEN 10 ELSE 0
           r == IF RiskTerms \intersect Haystack(s) # {} THEN 10 ELSE 0
<1>3. d \in Int /\ t \in Int /\ r \in Int
  OBVIOUS
<1>4. Score(s) = w[1] * Semantic(s) + w[2] * d + w[3] * t + w[4] * r
  BY DEF Score
<1> HIDE DEF w, d, t, r
<1>5. w[1] \in Int /\ w[2] \in Int /\ w[3] \in Int /\ w[4] \in Int
  BY <1>2 DEF w
<1>6. /\ w[1] * Semantic(s) \in Int /\ w[2] * d \in Int
      /\ w[3] * t \in Int /\ w[4] * r \in Int
  BY <1>1, <1>3, <1>5
<1> QED BY <1>4, <1>6

\* Symbols of one file are alike, those that are not related are not, and no two are
\* more than alike.
LEMMA SimilarityTyped ==
    ASSUME NEW s \in Symbols, NEW t \in Symbols
    PROVE  /\ Similarity(s, t) \in 0..100
           /\ s.file = t.file => Similarity(s, t) = 100
           /\ s.file # t.file /\ ~ Related(t, s) => Similarity(s, t) = 0
<1> DEFINE I == s.identity \intersect t.identity
           U == s.identity \union t.identity
           n == Cardinality(I)
           m == Max({1, Cardinality(U)})
           q == (100 * n) \div m
           d == IF Directory[s.file] = Directory[t.file] THEN 35 ELSE 0
<1>1. IsFiniteSet(s.identity) /\ IsFiniteSet(t.identity)
  BY SymbolTyped
<1>2. IsFiniteSet(U) /\ I \in SUBSET U
  BY <1>1, FS_Union
<1>3. IsFiniteSet(I) /\ n <= Cardinality(U)
  <2> HIDE DEF I, U
  <2> QED BY <1>2, FS_Subset
<1>4. n \in Nat /\ Cardinality(U) \in Nat /\ Cardinality(U) \in Int /\ 1 \in Int
  BY <1>2, <1>3, FS_CardinalityType
<1>5. m \in {1, Cardinality(U)} /\ m >= 1 /\ m >= Cardinality(U)
  BY <1>4, MaxOfTwo
<1>6. m \in Nat \ {0} /\ n <= m
  BY <1>3, <1>4, <1>5
<1>7. q \in 0..100
  <2> HIDE DEF n, m
  <2>1. 100 * n <= 100 * m
    BY <1>4, <1>6
  <2>2. 100 * n \in Nat /\ q \in Nat /\ 100 * n >= m * q
    BY <1>4, <1>6
  <2>3. q <= 100
    <3> SUFFICES ASSUME q >= 101 PROVE FALSE
      BY <2>2
    <3>1. m * q >= m * 101
      BY <1>6, <2>2
    <3> QED BY <1>6, <2>1, <2>2, <3>1
  <2> QED BY <2>2, <2>3
<1>8. d \in {0, 35}
  OBVIOUS
<1>9. Max({q, d}) \in {q, d}
  <2>1. q \in Int /\ d \in Int
    BY <1>7, <1>8
  <2> HIDE DEF q, d
  <2> QED BY <2>1, MaxOfTwo
<1>10. Similarity(s, t) = IF s.file = t.file THEN 100 ELSE Max({q, d})
  BY DEF Similarity
<1>11. Similarity(s, t) \in 0..100
  <2> HIDE DEF q, d
  <2> QED BY <1>7, <1>8, <1>9, <1>10
<1>12. ASSUME s.file # t.file, ~ Related(t, s) PROVE Similarity(s, t) = 0
  <2>1. d = 0 /\ I = {}
    BY <1>12 DEF Related
  <2>2. n = 0
    BY <2>1, FS_EmptySet
  <2>3. q = 0
    <3> HIDE DEF n, m
    <3> QED BY <1>6, <2>2
  <2> HIDE DEF q, d
  <2> QED BY <1>9, <1>10, <1>12, <2>1, <2>3
<1> QED BY <1>10, <1>11, <1>12

\* The redundancy of a symbol with those that are told already.
Redundancy(s, chosen) == Max({ Similarity(s, other) : other \in chosen })

\* A symbol is redundant by what it has in common with the one most like it.
LEMMA RedundancyTyped ==
    ASSUME NEW s \in Symbols, NEW chosen \in SUBSET Symbols, chosen # {}
    PROVE  /\ Redundancy(s, chosen) \in 0..100
           /\ (\E t \in chosen : t.file = s.file) => Redundancy(s, chosen) = 100
           /\ (\A t \in chosen : t.file # s.file /\ ~ Related(t, s)) => Redundancy(s, chosen) = 0
<1> DEFINE M == { Similarity(s, t) : t \in chosen }
<1>1. M \in SUBSET (0..100) /\ M # {}
  BY SimilarityTyped
<1>2. IsFiniteSet(M)
  <2>1. 0 \in Int /\ 100 \in Int
    OBVIOUS
  <2>2. IsFiniteSet(0..100)
    BY <2>1, FS_Interval
  <2> HIDE DEF M
  <2> QED BY <1>1, <2>2, FS_Subset
<1>3. M \in SUBSET Int
  <2> HIDE DEF M
  <2> QED BY <1>1
<1>4. Max(M) \in M /\ \A y \in M : Max(M) >= y
  <2> HIDE DEF M
  <2> QED BY <1>1, <1>2, <1>3, MaxOfFinite
<1>5. Redundancy(s, chosen) = Max(M)
  BY DEF Redundancy
<1>6. Max(M) \in 0..100
  <2> HIDE DEF M
  <2> QED BY <1>1, <1>4
<1>7. ASSUME NEW t \in chosen, t.file = s.file PROVE Max(M) = 100
  <2>1. Similarity(s, t) = 100
    BY <1>7, SimilarityTyped
  <2>2. 100 \in M
    BY <2>1
  <2>3. Max(M) >= 100
    <3> HIDE DEF M
    <3> QED BY <1>4, <2>2
  <2> HIDE DEF M
  <2> QED BY <1>6, <2>3
<1>8. ASSUME \A t \in chosen : t.file # s.file /\ ~ Related(t, s) PROVE Max(M) = 0
  <2>1. \A t \in chosen : Similarity(s, t) = 0
    BY <1>8, SimilarityTyped
  <2>2. M = {0}
    BY <1>1, <2>1
  <2> HIDE DEF M
  <2> QED BY <1>4, <2>2
<1> HIDE DEF M
<1> QED BY <1>5, <1>7, <1>8, <1>6

\* What a symbol adds is a number.
LEMMA MarginalTyped ==
    ASSUME NEW s \in Symbols, NEW chosen \in SUBSET Symbols, chosen # {}, phase \in Phases
    PROVE  /\ Marginal(s, chosen) = 4 * Score(s) - 10 * Redundancy(s, chosen)
           /\ Marginal(s, chosen) \in Int
<1>1. Marginal(s, chosen) = 4 * Score(s) - 10 * Redundancy(s, chosen)
  BY DEF Marginal, Redundancy
<1>2. Redundancy(s, chosen) \in Int
  BY RedundancyTyped
<1> QED BY <1>1, <1>2, ScoreTyped

-----------------------------------------------------------------------------
\* The keys of symbols are comparable, and those of two symbols differ.
LEMMA RankKeyTyped ==
    ASSUME NEW s \in Symbols, phase \in Phases
    PROVE  /\ RankKey(s) \in [1..4 -> Int]
           /\ RankKey(s)[1] = - Score(s) /\ RankKey(s)[3] = s.file /\ RankKey(s)[4] = s.line
<1>1. Score(s) \in Int /\ Cost(s) \in Int /\ s.file \in Int /\ s.line \in Int
  BY ScoreTyped, CostTyped, SymbolTyped
<1>2. - Score(s) \in Int
  BY <1>1
<1> QED BY <1>1, <1>2 DEF RankKey

\* Those of localize.
LEMMA LocalizeKeyTyped ==
    ASSUME NEW s \in Symbols, phase \in Phases
    PROVE  /\ LocalizeKey(s) \in [1..3 -> Int]
           /\ LocalizeKey(s)[1] = - Score(s)
           /\ LocalizeKey(s)[2] = s.file /\ LocalizeKey(s)[3] = s.line
<1>1. Score(s) \in Int /\ s.file \in Int /\ s.line \in Int
  BY ScoreTyped, SymbolTyped
<1>2. - Score(s) \in Int
  BY <1>1
<1> QED BY <1>1, <1>2 DEF LocalizeKey

\* Those of a turn of the loop.
LEMMA ChoiceKeyTyped ==
    ASSUME NEW s \in Symbols, Range(selected) \in SUBSET Symbols, Range(selected) # {},
           phase \in Phases
    PROVE  /\ ChoiceKey(s) \in [1..5 -> Int]
           /\ ChoiceKey(s)[1] = - Marginal(s, Range(selected))
           /\ ChoiceKey(s)[4] = - s.file /\ ChoiceKey(s)[5] = s.line
<1>1. /\ Score(s) \in Int /\ Cost(s) \in Int /\ s.file \in Int /\ s.line \in Int
      /\ Marginal(s, Range(selected)) \in Int
  BY ScoreTyped, CostTyped, SymbolTyped, MarginalTyped
<1>2. - Score(s) \in Int /\ - s.file \in Int
  BY <1>1
<1>3. - Marginal(s, Range(selected)) \in Int
  <2> DEFINE m == Marginal(s, Range(selected))
  <2>1. m \in Int
    BY <1>1
  <2> HIDE DEF m
  <2>2. - m \in Int
    BY <2>1
  <2> QED BY <2>2 DEF m
<1> QED BY <1>1, <1>2, <1>3 DEF ChoiceKey

\* Any order by keys that tell symbols apart is strict.
Ordered(K, S) == { p \in S \X S : Before(K[p[1]], K[p[2]]) }

\* They order a set strictly.
LEMMA KeysOrder ==
    ASSUME NEW S, NEW n \in Nat, NEW K \in [S -> [1..n -> Int]],
           \A s, t \in S : K[s] = K[t] => s = t
    PROVE  /\ StrictOrder(Ordered(K, S), S)
           /\ \A s, t \in S : <<s, t>> \in Ordered(K, S) <=> Before(K[s], K[t])
<1>1. \A s, t \in S : <<s, t>> \in Ordered(K, S) <=> Before(K[s], K[t])
  BY DEF Ordered
<1>2. \A s \in S : <<s, s>> \notin Ordered(K, S)
  BY <1>1, BeforeIrreflexive
<1>3. ASSUME NEW x \in S, NEW y \in S, NEW z \in S,
             <<x, y>> \in Ordered(K, S), <<y, z>> \in Ordered(K, S)
      PROVE  <<x, z>> \in Ordered(K, S)
  <2>1. K[x] \in [1..n -> Int] /\ K[y] \in [1..n -> Int] /\ K[z] \in [1..n -> Int]
    OBVIOUS
  <2>2. Before(K[x], K[y]) /\ Before(K[y], K[z])
    BY <1>1, <1>3
  <2>3. Before(K[x], K[z])
    BY <2>1, <2>2, BeforeTransitive
  <2> QED BY <1>1, <2>3
<1>4. ASSUME NEW x \in S, NEW y \in S, x # y
      PROVE  <<x, y>> \in Ordered(K, S) \/ <<y, x>> \in Ordered(K, S)
  <2>1. K[x] \in [1..n -> Int] /\ K[y] \in [1..n -> Int] /\ K[x] # K[y]
    BY <1>4
  <2>2. Before(K[x], K[y]) \/ Before(K[y], K[x])
    BY <2>1, BeforeTotal
  <2> QED BY <1>1, <2>2
<1> QED BY <1>1, <1>2, <1>3, <1>4 DEF StrictOrder

\* Two symbols are never at one place.
LEMMA SymbolsDiffer ==
    ASSUME NEW s \in Symbols, NEW t \in Symbols, s.file = t.file, s.line = t.line
    PROVE  s = t
BY PlacesDiffer

\* The best of a set by rank, and by what it adds to the choice.
LEMMA FirstByRank ==
    ASSUME NEW S \in SUBSET Symbols, IsFiniteSet(S), S # {}, phase \in Phases
    PROVE  /\ First(S, RankKey) \in S
           /\ \A t \in S \ {First(S, RankKey)} : Before(RankKey(First(S, RankKey)), RankKey(t))
<1> DEFINE K == [s \in S |-> RankKey(s)]
<1>1. K \in [S -> [1..4 -> Int]]
  BY RankKeyTyped
<1>2. ASSUME NEW s \in S, NEW t \in S, K[s] = K[t] PROVE s = t
  BY <1>2, RankKeyTyped, SymbolsDiffer
<1>3. \A s \in S : K[s] = RankKey(s)
  OBVIOUS
<1> HIDE DEF K
<1>4. /\ StrictOrder(Ordered(K, S), S)
      /\ \A s, t \in S : <<s, t>> \in Ordered(K, S) <=> Before(K[s], K[t])
  <2>1. 4 \in Nat
    OBVIOUS
  <2> QED BY <1>1, <1>2, <2>1, KeysOrder
<1>5. PICK m \in S : \A t \in S \ {m} : <<m, t>> \in Ordered(K, S)
  BY <1>4, LeastOne
<1>6. \A t \in S \ {m} : Before(RankKey(m), RankKey(t))
  BY <1>3, <1>4, <1>5
<1>7. \E s \in S : \A t \in S \ {s} : Before(RankKey(s), RankKey(t))
  BY <1>6
<1> QED BY <1>7 DEF First

\* After the first one, it is the one that adds most.
LEMMA FirstByChoice ==
    ASSUME NEW S \in SUBSET Symbols, IsFiniteSet(S), S # {}, phase \in Phases,
           Range(selected) \in SUBSET Symbols, Range(selected) # {}
    PROVE  /\ First(S, ChoiceKey) \in S
           /\ \A t \in S \ {First(S, ChoiceKey)} :
                 Before(ChoiceKey(First(S, ChoiceKey)), ChoiceKey(t))
<1> DEFINE K == [s \in S |-> ChoiceKey(s)]
<1>1. K \in [S -> [1..5 -> Int]]
  BY ChoiceKeyTyped
<1>2. ASSUME NEW s \in S, NEW t \in S, K[s] = K[t] PROVE s = t
  <2>1. - s.file = - t.file /\ s.line = t.line
    BY <1>2, ChoiceKeyTyped
  <2>2. s.file = t.file /\ s.line = t.line
    BY <2>1, SymbolTyped
  <2> QED BY <2>2, SymbolsDiffer
<1>3. \A s \in S : K[s] = ChoiceKey(s)
  OBVIOUS
<1> HIDE DEF K
<1>4. /\ StrictOrder(Ordered(K, S), S)
      /\ \A s, t \in S : <<s, t>> \in Ordered(K, S) <=> Before(K[s], K[t])
  <2>1. 5 \in Nat
    OBVIOUS
  <2> QED BY <1>1, <1>2, <2>1, KeysOrder
<1>5. PICK m \in S : \A t \in S \ {m} : <<m, t>> \in Ordered(K, S)
  BY <1>4, LeastOne
<1>6. \A t \in S \ {m} : Before(ChoiceKey(m), ChoiceKey(t))
  BY <1>3, <1>4, <1>5
<1>7. \E s \in S : \A t \in S \ {s} : Before(ChoiceKey(s), ChoiceKey(t))
  BY <1>6
<1> QED BY <1>7 DEF First

\* A turn of the loop takes a symbol that fits, and no other that fits adds more.
LEMMA ChoiceMade ==
    ASSUME phase \in Phases, Fitting \in SUBSET Symbols, IsFiniteSet(Fitting), Fitting # {},
           Range(selected) \in SUBSET Symbols, selected # << >> => Range(selected) # {}
    PROVE  /\ Choice \in Fitting
           /\ selected # << >> =>
                \A t \in Fitting : Marginal(Choice, Range(selected)) >= Marginal(t, Range(selected))
<1>1. CASE selected = << >>
  BY <1>1, FirstByRank DEF Choice
<1>2. CASE selected # << >>
  <2> DEFINE c == First(Fitting, ChoiceKey)
  <2>1. c \in Fitting /\ \A t \in Fitting \ {c} : Before(ChoiceKey(c), ChoiceKey(t))
    BY <1>2, FirstByChoice
  <2>2. Choice = c
    BY <1>2 DEF Choice
  <2> HIDE DEF c
  <2>3. ASSUME NEW t \in Fitting
        PROVE  Marginal(c, Range(selected)) >= Marginal(t, Range(selected))
    <3>1. Marginal(c, Range(selected)) \in Int /\ Marginal(t, Range(selected)) \in Int
      BY <1>2, <2>1, MarginalTyped
    <3>2. CASE t = c
      BY <3>1, <3>2
    <3>3. CASE t # c
      <4>1. Before(ChoiceKey(c), ChoiceKey(t))
        BY <2>1, <3>3
      <4>2. PICK i \in DOMAIN ChoiceKey(c) :
                /\ ChoiceKey(c)[i] < ChoiceKey(t)[i]
                /\ \A j \in 1..(i - 1) : ChoiceKey(c)[j] = ChoiceKey(t)[j]
        BY <4>1 DEF Before
      <4>3. i \in 1..5 /\ ChoiceKey(c)[1] = - Marginal(c, Range(selected))
            /\ ChoiceKey(t)[1] = - Marginal(t, Range(selected))
        BY <1>2, <2>1, <4>2, ChoiceKeyTyped
      <4>4. CASE i = 1
        BY <3>1, <4>2, <4>3, <4>4
      <4>5. CASE i # 1
        <5>1. 1 \in 1..(i - 1)
          BY <4>3, <4>5
        <5>2. - Marginal(c, Range(selected)) = - Marginal(t, Range(selected))
          BY <4>2, <4>3, <5>1
        <5> QED BY <3>1, <5>2
      <4> QED BY <4>4, <4>5
    <3> QED BY <3>2, <3>3
  <2> QED BY <1>2, <2>1, <2>2, <2>3
<1> QED BY <1>1, <1>2

\* What was told before the i-th symbol.
Earlier(i) == { selected[j] : j \in 1..(i - 1) }

\* The best candidate, cut to the budget.
Shortened(s) == [s EXCEPT !.body = Truncated(s.body, budget - Cost([s EXCEPT !.body = 0]))]

\* Whole symbols are told: each once, what they cost is what is gone of the budget, and
\* each after the first added more than those would have that are left and cost no more.
Whole ==
    /\ Range(selected) \subseteq snapshot
    /\ candidates = snapshot \ Range(selected)
    /\ IsFiniteSet(Told)
    /\ remaining = budget - Spent
    /\ Cardinality(Range(selected)) = Len(selected)
    /\ \A i \in DOMAIN selected, other \in candidates :
          i > 1 /\ Cost(other) <= Cost(selected[i])
             => Marginal(selected[i], Earlier(i)) >= Marginal(other, Earlier(i))

\* Nothing fitted, and one symbol is told in part.
Cut ==
    /\ call = "compiled"
    /\ \A s \in snapshot : Cost(s) > budget
    /\ \E first \in snapshot : selected = <<Shortened(first)>>

CInv ==
    /\ TypeOK
    /\ IsFiniteSet(snapshot)
    /\ Whole \/ Cut
    /\ call = "compiled" =>
          Cut \/ (Fitting = {} /\ (selected = << >> => snapshot = {}))

-----------------------------------------------------------------------------
\* The types of a state.
LEMMA TypedNow ==
    ASSUME TypeOK
    PROVE  /\ phase \in Phases /\ budget \in Nat /\ budget >= 64 /\ remaining \in Nat
           /\ snapshot \in SUBSET Symbols /\ candidates \in SUBSET Symbols
           /\ selected \in Seq(SymbolType) /\ DOMAIN selected = 1..Len(selected)
           /\ Len(selected) \in Nat
<1>1. budget \in Nat /\ budget >= 64
  BY BudgetsAssumption DEF TypeOK
<1> QED BY <1>1 DEF TypeOK

\* Scores, and with them what a symbol adds, depend on the phase alone.
LEMMA ScoresStay ==
    ASSUME phase' = phase
    PROVE  /\ \A s : Score(s)' = Score(s)
           /\ \A s, chosen : Marginal(s, chosen)' = Marginal(s, chosen)
<1>1. \A s : Score(s)' = Score(s)
  BY DEF Score
<1>2. \A s, chosen : Marginal(s, chosen)' = Marginal(s, chosen)
  BY <1>1 DEF Marginal
<1> QED BY <1>1, <1>2

\* A symbol that was not told adds its cost.
LEMMA OneMore ==
    ASSUME NEW S, NEW x \in SymbolType, x \notin S,
           IsFiniteSet(UNION { {s} \X (1..Cost(s)) : s \in S })
    PROVE  /\ IsFiniteSet(UNION { {s} \X (1..Cost(s)) : s \in S \union {x} })
           /\ Cardinality(UNION { {s} \X (1..Cost(s)) : s \in S \union {x} })
                 = Cardinality(UNION { {s} \X (1..Cost(s)) : s \in S }) + Cost(x)
<1> DEFINE A == UNION { {s} \X (1..Cost(s)) : s \in S }
           B == {x} \X (1..Cost(x))
           C == UNION { {s} \X (1..Cost(s)) : s \in S \union {x} }
<1>1. C = A \union B
  OBVIOUS
<1>2. A \intersect B = {}
  OBVIOUS
<1>3. IsFiniteSet(B) /\ Cardinality(B) = Cost(x)
  <2>1. Cost(x) \in Nat /\ Cost(x) \in Int /\ 1 \in Int
    BY CostTyped
  <2>2. IsFiniteSet(1..Cost(x)) /\ Cardinality(1..Cost(x)) = Cost(x)
    BY <2>1, FS_Interval
  <2>3. IsFiniteSet({x}) /\ Cardinality({x}) = 1
    BY FS_Singleton
  <2>4. IsFiniteSet(B) /\ Cardinality(B) = 1 * Cost(x)
    BY <2>2, <2>3, FS_Product
  <2> HIDE DEF B
  <2> QED BY <2>1, <2>4
<1> HIDE DEF A, B, C
<1>4. IsFiniteSet(A)
  BY DEF A
<1>5. IsFiniteSet(A \union B)
      /\ Cardinality(A \union B) = Cardinality(A) + Cardinality(B) - Cardinality(A \intersect B)
  BY <1>3, <1>4, FS_Union
<1>6. Cardinality(A \intersect B) = 0 /\ Cardinality(A) \in Nat /\ Cost(x) \in Nat
  BY <1>2, <1>4, FS_EmptySet, FS_CardinalityType, CostTyped
<1>7. IsFiniteSet(C) /\ Cardinality(C) = Cardinality(A) + Cost(x)
  BY <1>1, <1>3, <1>5, <1>6
<1> QED BY <1>7 DEF A, C

\* What fits is among the candidates.
LEMMA FittingFinite ==
    ASSUME CInv
    PROVE  IsFiniteSet(Fitting) /\ Fitting \in SUBSET Symbols /\ Fitting \in SUBSET candidates
<1>1. Fitting \in SUBSET candidates
  BY DEF Fitting
<1>2. Fitting \in SUBSET snapshot
  BY <1>1 DEF CInv, TypeOK
<1>3. IsFiniteSet(Fitting)
  BY <1>2, FS_Subset DEF CInv
<1>4. snapshot \in SUBSET Symbols
  BY TypedNow DEF CInv
<1> QED BY <1>1, <1>2, <1>3, <1>4

\* A call begins with everything to choose from, and nothing chosen.
LEMMA InitBegins == Init => CInv
<1> SUFFICES ASSUME Init PROVE CInv
  OBVIOUS
<1>1. /\ candidates = snapshot /\ selected = << >> /\ remaining = budget
      /\ snapshot \subseteq Symbols /\ IsFiniteSet(snapshot) /\ budget \in Budgets
      /\ call \in {"compile", "localize"} /\ phase \in Phases /\ tiers = NoTiers
  BY DEF Init
<1>2. budget \in Nat /\ budget >= 64
  BY <1>1, BudgetsAssumption
<1>3. TypeOK
  BY <1>1, <1>2 DEF TypeOK, NoTiers
<1>4. Range(selected) = {}
  BY <1>1 DEF Range
<1>5. Told = {}
  BY <1>4 DEF Told
<1>6. IsFiniteSet(Told) /\ Spent = 0
  BY <1>5, FS_EmptySet DEF Spent
<1>7. Cardinality(Range(selected)) = Len(selected)
  BY <1>1, <1>4, FS_EmptySet
<1>8. Whole
  BY <1>1, <1>2, <1>4, <1>6, <1>7 DEF Whole
<1> QED BY <1>1, <1>3, <1>8 DEF CInv

\* A turn of the loop: the token count, and the choice that adds most.
LEMMA SelectKeeps ==
    ASSUME CInv, Select
    PROVE  CInv'
<1>1. /\ call = "compile" /\ Fitting # {}
      /\ selected' = Append(selected, Choice)
      /\ candidates' = candidates \ {Choice}
      /\ remaining' = remaining - Cost(Choice)
      /\ UNCHANGED <<call, phase, budget, snapshot, tiers>>
  BY DEF Select
<1>2. TypeOK /\ IsFiniteSet(snapshot) /\ Whole
  BY <1>1 DEF CInv, Cut
<1>3. /\ phase \in Phases /\ budget \in Nat /\ remaining \in Nat
      /\ snapshot \in SUBSET Symbols /\ candidates \in SUBSET Symbols
      /\ selected \in Seq(SymbolType) /\ DOMAIN selected = 1..Len(selected) /\ Len(selected) \in Nat
  BY <1>2, TypedNow
<1>4. /\ Range(selected) \subseteq snapshot /\ candidates = snapshot \ Range(selected)
      /\ IsFiniteSet(Told) /\ remaining = budget - Spent
      /\ Cardinality(Range(selected)) = Len(selected)
  BY <1>2 DEF Whole
<1>5. selected # << >> => Range(selected) # {}
  <2>1. ASSUME selected # << >> PROVE selected[1] \in Range(selected)
    <3>1. 1 \in DOMAIN selected
      BY <1>3, <2>1
    <3> QED BY <3>1 DEF Range
  <2> QED BY <2>1
<1>6. /\ Choice \in Fitting
      /\ selected # << >> =>
           \A t \in Fitting : Marginal(Choice, Range(selected)) >= Marginal(t, Range(selected))
  <2>1. Range(selected) \in SUBSET Symbols
    BY <1>3, <1>4
  <2>2. IsFiniteSet(Fitting) /\ Fitting \in SUBSET Symbols
    BY FittingFinite
  <2> QED BY <1>1, <1>3, <1>5, <2>1, <2>2, ChoiceMade
<1> DEFINE c == Choice
<1>7. c \in candidates /\ Cost(c) <= remaining /\ c \in Symbols /\ c \in SymbolType
      /\ Cost(c) \in Nat
  <2>1. c \in candidates /\ Cost(c) <= remaining
    BY <1>6 DEF Fitting
  <2>2. c \in Symbols
    BY <1>3, <2>1
  <2>3. c \in SymbolType
    BY <2>2, SymbolTyped
  <2> QED BY <2>1, <2>2, <2>3, CostTyped
<1>8. selected' = Append(selected, c) /\ candidates' = candidates \ {c}
      /\ remaining' = remaining - Cost(c)
  BY <1>1
<1>9. selected # << >> =>
         \A t \in Fitting : Marginal(c, Range(selected)) >= Marginal(t, Range(selected))
  BY <1>6
<1> HIDE DEF c
<1>10. /\ selected' \in Seq(SymbolType) /\ Len(selected') = Len(selected) + 1
       /\ DOMAIN selected' = 1..(Len(selected) + 1)
       /\ \A i \in 1..Len(selected) : selected'[i] = selected[i]
       /\ selected'[Len(selected) + 1] = c
  BY <1>3, <1>7, <1>8
<1>11. Range(selected') = Range(selected) \union {c}
  <2>1. 1..(Len(selected) + 1) = (1..Len(selected)) \union {Len(selected) + 1}
    BY <1>3
  <2> QED BY <1>3, <1>10, <2>1 DEF Range
<1>12. c \notin Range(selected) /\ c \in snapshot
  BY <1>4, <1>7
<1>13. IsFiniteSet(Told') /\ Spent' = Spent + Cost(c)
  <2>1. IsFiniteSet(UNION { {s} \X (1..Cost(s)) : s \in Range(selected) })
    BY <1>4 DEF Told
  <2>2. Told' = UNION { {s} \X (1..Cost(s)) : s \in Range(selected) \union {c} }
    BY <1>11 DEF Told
  <2> QED BY <1>7, <1>12, <2>1, <2>2, OneMore DEF Spent, Told
<1>14. Cardinality(Range(selected')) = Len(selected')
  <2>1. IsFiniteSet(Range(selected))
    BY <1>2, <1>4, FS_Subset
  <2>2. Cardinality(Range(selected) \union {c}) = Cardinality(Range(selected)) + 1
    BY <1>12, <2>1, FS_AddElement
  <2> QED BY <1>4, <1>10, <1>11, <2>2
<1>15. remaining' = budget' - Spent' /\ remaining' \in 0..budget'
  <2>1. Spent \in Nat
    BY <1>4, FS_CardinalityType DEF Spent
  <2> QED BY <1>1, <1>3, <1>4, <1>7, <1>8, <1>13, <2>1
<1>16. TypeOK'
  <2>1. candidates' \subseteq snapshot'
    BY <1>1, <1>2 DEF TypeOK
  <2> QED BY <1>1, <1>2, <1>10, <1>15, <2>1 DEF TypeOK
<1>17. ASSUME NEW i \in DOMAIN selected', NEW other \in candidates', i > 1,
              Cost(other) <= Cost(selected'[i])
       PROVE  Marginal(selected[i], Earlier(i))' >= Marginal(other, Earlier(i))'
  <2>1. i \in 1..(Len(selected) + 1) /\ other \in candidates /\ other # c
    BY <1>8, <1>10, <1>17
  <2>2. Earlier(i)' = Earlier(i)
    <3>1. \A j \in 1..(i - 1) : selected'[j] = selected[j]
      BY <1>3, <1>10, <2>1
    <3> QED BY <3>1 DEF Earlier
  <2>3. \A s, chosen : Marginal(s, chosen)' = Marginal(s, chosen)
    BY <1>1, ScoresStay
  <2>4. Marginal(selected'[i], Earlier(i)) >= Marginal(other, Earlier(i))
    <3>1. CASE i \in 1..Len(selected)
      BY <1>2, <1>3, <1>10, <1>17, <2>1, <3>1 DEF Whole
    <3>2. CASE i = Len(selected) + 1
      <4>1. Earlier(i) = Range(selected)
        BY <1>3, <3>2 DEF Earlier, Range
      <4>2. selected # << >>
        BY <1>3, <1>17, <3>2
      <4>3. other \in Fitting
        <5>1. Cost(other) \in Nat
          BY <1>3, <2>1, SymbolTyped, CostTyped
        <5>2. Cost(other) <= remaining
          BY <1>3, <1>7, <1>10, <1>17, <3>2, <5>1
        <5> QED BY <2>1, <5>2 DEF Fitting
      <4> QED BY <1>9, <1>10, <3>2, <4>1, <4>2, <4>3
    <3> QED BY <1>3, <2>1, <3>1, <3>2
  <2> QED BY <2>2, <2>3, <2>4
<1>18. Whole'
  <2>1. Range(selected') \subseteq snapshot' /\ candidates' = snapshot' \ Range(selected')
    BY <1>1, <1>4, <1>8, <1>11, <1>12
  <2> QED BY <1>13, <1>14, <1>15, <1>17, <2>1 DEF Whole
<1> QED BY <1>1, <1>2, <1>16, <1>18 DEF CInv

\* A text cut to some tokens is a text, and it is whole if the tokens suffice.
LEMMA TruncatedTyped ==
    ASSUME NEW n \in Nat, NEW r \in Int
    PROVE  /\ Truncated(n, r) \in Nat
           /\ r <= 0 => Truncated(n, r) = 0
           /\ r > 0 /\ n <= 4 * r => Truncated(n, r) = n
           /\ r > 0 /\ n > 4 * r =>
                 Truncated(n, r) = IF 4 * r < 35 THEN 35 ELSE 4 * r
<1>1. 0 \in Int /\ 4 * r - 35 \in Int
  OBVIOUS
<1>2. /\ Max({0, 4 * r - 35}) \in {0, 4 * r - 35}
      /\ Max({0, 4 * r - 35}) >= 0 /\ Max({0, 4 * r - 35}) >= 4 * r - 35
  BY <1>1, MaxOfTwo
<1> DEFINE m == Max({0, 4 * r - 35})
<1>3. m \in Int /\ m = IF 4 * r < 35 THEN 0 ELSE 4 * r - 35
  BY <1>1, <1>2
<1>4. Truncated(n, r) = IF r <= 0 THEN 0 ELSE IF n <= 4 * r THEN n ELSE m + 35
  BY DEF Truncated, Marker
<1> HIDE DEF m
<1> QED BY <1>3, <1>4

\* What is left of a symbol that does not fit, and what it costs.
LEMMA ShortenedCost ==
    ASSUME NEW s \in Symbols, budget \in Nat, budget >= 64, Cost(s) > budget
    PROVE  /\ Shortened(s) \in SymbolType
           /\ Shortened(s).header = s.header
           /\ Cost(Shortened(s)) > budget =>
                 /\ Tokens(s.header + Placeholder + 1 + Marker) > budget
                 /\ Cost(Shortened(s)) <= budget + 2 \/ Shortened(s).body = 0
<1> DEFINE h == s.header
           b == s.body
           bare == [s EXCEPT !.body = 0]
           room == budget - Cost(bare)
           kept == Truncated(b, room)
           cut == [s EXCEPT !.body = kept]
<1>1. s \in SymbolType /\ h \in Nat /\ b \in Nat
  BY SymbolTyped
<1>2. bare \in SymbolType /\ bare.header = h /\ bare.body = 0
  BY <1>1 DEF SymbolType
<1>3. Cost(bare) = (h + 29) \div 4
  <2>1. Rendered(bare) = h + 26
    BY <1>1, <1>2 DEF Rendered, Placeholder
  <2>2. Cost(bare) = (Rendered(bare) + 3) \div 4
    BY <1>2, CostTyped
  <2> QED BY <1>1, <2>1, <2>2
<1>4. room \in Int /\ room = budget - ((h + 29) \div 4)
  BY <1>1, <1>3
<1>5. /\ kept \in Nat
      /\ room <= 0 => kept = 0
      /\ room > 0 /\ b <= 4 * room => kept = b
      /\ room > 0 /\ b > 4 * room => kept = IF 4 * room < 35 THEN 35 ELSE 4 * room
  <2> HIDE DEF room
  <2> QED BY <1>1, <1>4, TruncatedTyped
<1> HIDE DEF kept
<1>6. cut \in SymbolType /\ cut.header = h /\ cut.body = kept
  BY <1>1, <1>5 DEF SymbolType
<1>7. Shortened(s) = cut
  BY DEF Shortened, kept
<1> HIDE DEF bare, room, cut
<1>8. Cost(cut) = ((IF kept = 0 THEN h + 26 ELSE h + kept + 1) + 3) \div 4
  <2>1. Rendered(cut) = IF kept = 0 THEN h + 26 ELSE h + kept + 1
    BY <1>1, <1>5, <1>6 DEF Rendered, Placeholder
  <2> QED BY <1>6, <2>1, CostTyped
<1>9. (h + 61) + 3 \in Nat /\ Tokens(h + Placeholder + 1 + Marker) >= (h + 64) \div 4
  <2>1. h + 61 \in Nat /\ h + Placeholder + 1 + Marker = h + 61
    BY <1>1 DEF Placeholder, Marker
  <2>2. Tokens(h + 61) = IF (h + 61 + 3) \div 4 = 0 THEN 1 ELSE (h + 61 + 3) \div 4
    BY <2>1, TokensTyped
  <2>3. (h + 61 + 3) \div 4 = (h + 64) \div 4 /\ (h + 64) \div 4 \in Nat
    BY <1>1
  <2> QED BY <1>1, <2>1, <2>2, <2>3
<1>10. /\ Tokens(h + Placeholder + 1 + Marker) \in Nat
  <2>1. h + Placeholder + 1 + Marker \in Nat
    BY <1>1 DEF Placeholder, Marker
  <2> QED BY <2>1, TokensTyped
<1> DEFINE t == Tokens(h + Placeholder + 1 + Marker)
<1> HIDE DEF t
<1>11. t \in Nat /\ t >= (h + 64) \div 4
  BY <1>9, <1>10 DEF t
<1>12. ASSUME Cost(cut) > budget PROVE t > budget /\ (Cost(cut) <= budget + 2 \/ kept = 0)
  <2>1. CASE kept = 0
    <3>1. Cost(cut) = (h + 29) \div 4
      BY <1>1, <1>8, <2>1
    <3> HIDE DEF h
    <3> QED BY <1>1, <1>11, <1>12, <2>1, <3>1
  <2>2. CASE kept # 0
    <3>1. Cost(cut) = (h + kept + 4) \div 4 /\ room > 0
      BY <1>1, <1>4, <1>5, <1>8, <2>2
    <3> HIDE DEF h, b
    <3>2. CASE kept <= 4 * room
      <4>1. h + kept + 4 < 4 * budget
        BY <1>1, <1>4, <1>5, <3>1, <3>2
      <4> QED BY <1>1, <1>5, <1>12, <3>1, <4>1
    <3>3. CASE kept = 35 /\ 4 * room < 35
      <4>1. Cost(cut) = (h + 39) \div 4
        BY <1>1, <3>1, <3>3
      <4>2. t > budget
        BY <1>1, <1>11, <1>12, <4>1
      <4>3. Cost(cut) <= budget + 2
        BY <1>1, <1>4, <3>1, <4>1
      <4> QED BY <4>2, <4>3
    <3> QED BY <1>1, <1>4, <1>5, <3>1, <3>2, <3>3
  <2> QED BY <2>1, <2>2
<1> QED BY <1>6, <1>7, <1>12 DEF t

\* The cut: it is made when nothing fits in the whole budget.
LEMMA SelectTruncatedKeeps ==
    ASSUME CInv, SelectTruncated
    PROVE  CInv'
<1>1. /\ call = "compile" /\ Fitting = {} /\ selected = << >> /\ snapshot # {}
      /\ call' = "compiled"
      /\ UNCHANGED <<phase, budget, snapshot, candidates, remaining, tiers>>
  BY DEF SelectTruncated
<1>2. selected' = <<Shortened(First(snapshot, RankKey))>>
  BY DEF SelectTruncated, Shortened
<1>3. TypeOK /\ IsFiniteSet(snapshot) /\ Whole
  BY <1>1 DEF CInv, Cut
<1>4. /\ phase \in Phases /\ snapshot \in SUBSET Symbols /\ budget \in Nat /\ budget >= 64
  BY <1>3, TypedNow
<1>5. PICK first \in snapshot : first = First(snapshot, RankKey)
  BY <1>1, <1>3, <1>4, FirstByRank
<1>6. \A s \in snapshot : Cost(s) > budget
  <2>1. Range(selected) = {}
    BY <1>1 DEF Range
  <2>2. candidates = snapshot
    BY <1>3, <2>1 DEF Whole
  <2>3. Told = {}
    BY <2>1 DEF Told
  <2>4. Spent = 0
    BY <2>3, FS_EmptySet DEF Spent
  <2>5. remaining = budget
    BY <1>3, <1>4, <2>4 DEF Whole
  <2>6. \A s \in snapshot : ~ (Cost(s) <= budget)
    BY <1>1, <2>2, <2>5 DEF Fitting
  <2>7. \A s \in snapshot : Cost(s) \in Nat
    BY <1>4, SymbolTyped, CostTyped
  <2> QED BY <1>4, <2>6, <2>7
<1>7. Shortened(first) \in SymbolType
  BY <1>4, <1>5, <1>6, ShortenedCost
<1>8. TypeOK'
  BY <1>1, <1>2, <1>3, <1>5, <1>7 DEF TypeOK
<1>9. Shortened(first)' = Shortened(first)
  BY <1>1 DEF Shortened
<1>10. Cut'
  <2>1. \E s \in snapshot' : (selected = <<Shortened(s)>>)'
    BY <1>1, <1>2, <1>5, <1>9
  <2> QED BY <1>1, <1>6, <2>1 DEF Cut
<1> QED BY <1>1, <1>3, <1>8, <1>10 DEF CInv

\* What the other steps leave alone.
LEMMA WholeStays ==
    ASSUME UNCHANGED <<phase, budget, snapshot, candidates, selected, remaining>>, Whole
    PROVE  Whole'
<1>1. Told' = Told /\ Spent' = Spent
  BY DEF Told, Spent
<1>2. \A i : Earlier(i)' = Earlier(i)
  BY DEF Earlier
<1>3. \A s, chosen : Marginal(s, chosen)' = Marginal(s, chosen)
  BY ScoresStay
<1>4. ASSUME NEW i \in DOMAIN selected', NEW other \in candidates', i > 1,
             Cost(other) <= Cost(selected'[i])
      PROVE  Marginal(selected[i], Earlier(i))' >= Marginal(other, Earlier(i))'
  <2>1. Marginal(selected[i], Earlier(i)) >= Marginal(other, Earlier(i))
    BY <1>4 DEF Whole
  <2>2. Earlier(i)' = Earlier(i) /\ selected'[i] = selected[i]
    BY <1>2
  <2> QED BY <1>3, <2>1, <2>2
<1> QED BY <1>1, <1>4 DEF Whole

\* The end of the loop.
LEMMA CompiledKeeps ==
    ASSUME CInv, Compiled
    PROVE  CInv'
<1>1. /\ call = "compile"
      /\ Fitting = {}
      /\ selected # << >> \/ snapshot = {}
      /\ call' = "compiled"
      /\ UNCHANGED <<phase, budget, snapshot, candidates, selected, remaining, tiers>>
  BY DEF Compiled
<1>2. Whole'
  BY <1>1, WholeStays DEF CInv, Cut
<1>3. Fitting' = {}
  BY DEF Compiled, Fitting
<1>4. TypeOK'
  BY <1>1 DEF CInv, TypeOK
<1>5. (call' = "compiled" /\ selected' = << >>) => snapshot' = {}
  BY DEF Compiled
<1> QED BY <1>1, <1>2, <1>3, <1>4, <1>5 DEF CInv

\* localize leaves what compile keeps alone.
LEMMA LocalizeKeeps ==
    ASSUME CInv, Localize
    PROVE  CInv'
<1>1. /\ call = "localize" /\ call' = "localized"
      /\ tiers' = IF snapshot = {} THEN NoTiers
                  ELSE [high |-> High, medium |-> Medium, risk |-> Risk]
      /\ UNCHANGED <<phase, budget, snapshot, candidates, selected, remaining>>
  BY DEF Localize
<1>2. Whole'
  BY <1>1, WholeStays DEF CInv, Cut
<1>3. High \subseteq snapshot /\ Medium \subseteq snapshot
  BY DEF High, Medium, Top
<1>4. tiers'.high \union tiers'.medium \subseteq snapshot
  BY <1>1, <1>3 DEF NoTiers
<1>5. TypeOK'
  BY <1>1, <1>4 DEF CInv, TypeOK
<1> QED BY <1>1, <1>2, <1>5 DEF CInv

\* The inductive invariant.
THEOREM Inductive == Spec => []CInv
<1>1. Init => CInv
  BY InitBegins
<1>2. CInv /\ [Next]_vars => CInv'
  <2> SUFFICES ASSUME CInv, [Next]_vars PROVE CInv'
    OBVIOUS
  <2>1. CASE Select
    BY <2>1, SelectKeeps
  <2>2. CASE SelectTruncated
    BY <2>2, SelectTruncatedKeeps
  <2>3. CASE Compiled
    BY <2>3, CompiledKeeps
  <2>4. CASE Localize
    BY <2>4, LocalizeKeeps
  <2>5. CASE UNCHANGED vars
    <3>1. UNCHANGED <<call, phase, budget, snapshot, candidates, selected, remaining, tiers>>
      BY <2>5 DEF vars
    <3>2. Whole => Whole'
      BY <3>1, WholeStays
    <3>3. Cut => Cut'
      BY <3>1 DEF Cut, Shortened
    <3>4. TypeOK' /\ Fitting' = Fitting
      BY <3>1 DEF CInv, TypeOK, Fitting
    <3> QED BY <3>1, <3>2, <3>3, <3>4 DEF CInv
  <2> QED BY <2>1, <2>2, <2>3, <2>4, <2>5 DEF Next
<1> QED BY <1>1, <1>2, PTL DEF Spec

\* Every variable keeps its type, and the budget is never overdrawn on the way.
THEOREM TypeCorrect == Spec => []TypeOK
<1>1. CInv => TypeOK
  BY DEF CInv
<1> QED BY <1>1, Inductive, PTL

\* An answer that was cut is one symbol, and costs what is left of it.
LEMMA CutCosts ==
    ASSUME TypeOK, Cut
    PROVE  /\ Len(selected) = 1 /\ Range(selected) = {selected[1]} /\ selected # << >>
           /\ selected[1] \in SymbolType
           /\ Spent = Cost(selected[1])
           /\ \E first \in snapshot : selected[1] = Shortened(first)
<1>1. PICK first \in snapshot : selected = <<Shortened(first)>>
  BY DEF Cut
<1>2. Len(selected) = 1 /\ Range(selected) = {selected[1]} /\ selected # << >>
  BY <1>1 DEF Range
<1>3. selected[1] \in SymbolType
  BY <1>1, <1>2, TypedNow
<1> DEFINE c == selected[1]
<1>4. IsFiniteSet(UNION { {s} \X (1..Cost(s)) : s \in {} })
      /\ Cardinality(UNION { {s} \X (1..Cost(s)) : s \in {} }) = 0
  <2>1. UNION { {s} \X (1..Cost(s)) : s \in {} } = {}
    OBVIOUS
  <2> QED BY <2>1, FS_EmptySet
<1>5. Cardinality(UNION { {s} \X (1..Cost(s)) : s \in {} \union {c} }) = 0 + Cost(c)
  <2>1. c \in SymbolType /\ c \notin {}
    BY <1>3
  <2> HIDE DEF c
  <2> QED BY <1>4, <2>1, OneMore
<1>6. Told = UNION { {s} \X (1..Cost(s)) : s \in {} \union {c} }
  <2>1. {} \union {c} = Range(selected)
    BY <1>2
  <2> HIDE DEF c
  <2> QED BY <2>1 DEF Told
<1>7. Spent = Cost(c)
  <2>1. Cost(c) \in Nat
    BY <1>3, CostTyped
  <2> QED BY <1>5, <1>6, <2>1 DEF Spent
<1> QED BY <1>1, <1>2, <1>3, <1>7

\* The budget of an answer is kept, but for the one exception.
THEOREM BudgetIsHeld == Spec => []BudgetHeld
<1>1. CInv => BudgetHeld
  <2> SUFFICES ASSUME CInv, Spent > budget
               PROVE  /\ Len(selected) = 1
                      /\ \A symbol \in snapshot : Cost(symbol) > budget
                      /\ Tokens(selected[1].header + Placeholder + 1 + Marker) > budget
                      /\ Spent <= budget + 2 \/ selected[1].body = 0
    BY DEF BudgetHeld
  <2>1. TypeOK /\ budget \in Nat /\ budget >= 64 /\ remaining \in Nat /\ snapshot \in SUBSET Symbols
    BY TypedNow DEF CInv
  <2>2. ~ Whole
    <3> SUFFICES ASSUME Whole PROVE FALSE
      OBVIOUS
    <3>1. Spent \in Nat
      BY FS_CardinalityType DEF Whole, Spent
    <3>2. remaining = budget - Spent
      BY DEF Whole
    <3> QED BY <2>1, <3>1, <3>2
  <2>3. Cut
    BY <2>2 DEF CInv
  <2>4. PICK first \in snapshot : selected[1] = Shortened(first)
    BY <2>1, <2>3, CutCosts
  <2>5. Len(selected) = 1 /\ Spent = Cost(Shortened(first))
    BY <2>1, <2>3, <2>4, CutCosts
  <2>6. \A s \in snapshot : Cost(s) > budget
    BY <2>3 DEF Cut
  <2>7. /\ Shortened(first).header = first.header
        /\ Cost(Shortened(first)) > budget =>
              /\ Tokens(first.header + Placeholder + 1 + Marker) > budget
              /\ Cost(Shortened(first)) <= budget + 2 \/ Shortened(first).body = 0
    BY <2>1, <2>6, ShortenedCost
  <2> QED BY <2>4, <2>5, <2>6, <2>7
<1> QED BY <1>1, Inductive, PTL

\* No room is wasted and nothing is told twice.
THEOREM NoRoomWasted == Spec => []NothingFittingLeft
<1>1. CInv => NothingFittingLeft
  <2> SUFFICES ASSUME CInv, call = "compiled"
               PROVE  /\ \A symbol \in snapshot \ Range(selected) : Cost(symbol) > budget - Spent
                      /\ Cardinality(Range(selected)) = Len(selected)
                      /\ selected = << >> => snapshot = {}
    BY DEF NothingFittingLeft
  <2>1. TypeOK /\ budget \in Nat /\ snapshot \in SUBSET Symbols
    BY TypedNow DEF CInv
  <2>2. \A symbol \in snapshot : Cost(symbol) \in Nat
    BY <2>1, SymbolTyped, CostTyped
  <2>3. CASE Cut
    <3>1. Cardinality(Range(selected)) = 1
      <4>1. Range(selected) = {selected[1]}
        BY <2>1, <2>3, CutCosts
      <4> QED BY <4>1, FS_Singleton
    <3>2. Spent \in Nat
      <4>1. Spent = Cost(selected[1]) /\ selected[1] \in SymbolType
        BY <2>1, <2>3, CutCosts
      <4> QED BY <4>1, CostTyped
    <3>3. \A symbol \in snapshot : Cost(symbol) > budget
      BY <2>3 DEF Cut
    <3>4. Len(selected) = 1 /\ selected # << >>
      BY <2>1, <2>3, CutCosts
    <3> QED BY <2>1, <2>2, <3>1, <3>2, <3>3, <3>4
  <2>4. CASE ~ Cut
    <3>1. Whole /\ Fitting = {} /\ (selected = << >> => snapshot = {})
      BY <2>4 DEF CInv
    <3>2. Spent \in Nat
      BY <3>1, FS_CardinalityType DEF Whole, Spent
    <3>3. ASSUME NEW symbol \in snapshot \ Range(selected) PROVE Cost(symbol) > budget - Spent
      <4>1. symbol \in candidates /\ symbol \notin Fitting
        BY <3>1 DEF Whole
      <4>2. ~ (Cost(symbol) <= budget - Spent)
        BY <3>1, <4>1 DEF Fitting, Whole
      <4> QED BY <2>1, <2>2, <3>2, <4>2
    <3> QED BY <3>1, <3>3 DEF Whole
  <2> QED BY <2>3, <2>4
<1> QED BY <1>1, Inductive, PTL

\* A crowded file does not consume the budget.
THEOREM CrowdedFilesYield == Spec => []CrowdedFileYields
<1>1. CInv => CrowdedFileYields
  <2> SUFFICES ASSUME CInv, NEW i \in DOMAIN selected, NEW other \in candidates,
                      \E symbol \in Earlier(i) : symbol.file = selected[i].file,
                      \A symbol \in Earlier(i) : ~ Related(symbol, other),
                      Cost(other) <= Cost(selected[i])
               PROVE  Score(selected[i]) >= Score(other) + 250
    BY DEF CrowdedFileYields, Earlier
  <2>1. /\ TypeOK /\ phase \in Phases /\ snapshot \in SUBSET Symbols /\ candidates \in SUBSET Symbols
        /\ DOMAIN selected = 1..Len(selected) /\ Len(selected) \in Nat
    BY TypedNow DEF CInv
  <2>2. i > 1
    <3> SUFFICES ASSUME ~ (i > 1) PROVE FALSE
      OBVIOUS
    <3>1. 1..(i - 1) = {}
      BY <2>1
    <3> QED BY <3>1 DEF Earlier
  <2>3. Whole
    <3> SUFFICES ASSUME Cut PROVE FALSE
      BY DEF CInv
    <3>1. Len(selected) = 1
      BY <2>1, CutCosts
    <3> QED BY <2>1, <2>2, <3>1
  <2>4. Earlier(i) \in SUBSET Symbols /\ selected[i] \in Symbols
    <3>1. \A j \in 1..i : selected[j] \in Range(selected)
      BY <2>1 DEF Range
    <3>2. Range(selected) \subseteq Symbols
      BY <2>1, <2>3 DEF Whole
    <3> QED BY <2>1, <3>1, <3>2 DEF Earlier
  <2>5. Marginal(selected[i], Earlier(i)) >= Marginal(other, Earlier(i))
    BY <2>2, <2>3 DEF Whole
  <2>6. Redundancy(selected[i], Earlier(i)) = 100
    BY <2>4, RedundancyTyped
  <2>7. Redundancy(other, Earlier(i)) = 0
    <3>1. \A t \in Earlier(i) : t.file # other.file /\ ~ Related(t, other)
      BY DEF Related
    <3> QED BY <2>1, <2>4, <3>1, RedundancyTyped
  <2>8. /\ Marginal(selected[i], Earlier(i)) = 4 * Score(selected[i]) - 10 * 100
        /\ Marginal(other, Earlier(i)) = 4 * Score(other) - 10 * 0
    BY <2>1, <2>4, <2>6, <2>7, MarginalTyped
  <2>9. Score(selected[i]) \in Int /\ Score(other) \in Int
    BY <2>1, <2>4, ScoreTyped
  <2> QED BY <2>5, <2>8, <2>9
<1> QED BY <1>1, Inductive, PTL

\* Those of a set that are listed before one of them.
Ahead(s, S) == { t \in S : Before(LocalizeKey(t), LocalizeKey(s)) }

\* The order of localize: by score, and no two symbols are level.
LEMMA ListedBefore ==
    ASSUME phase \in Phases, NEW s \in Symbols, NEW t \in Symbols
    PROVE  /\ ~ Before(LocalizeKey(s), LocalizeKey(s))
           /\ s # t => Before(LocalizeKey(s), LocalizeKey(t)) \/ Before(LocalizeKey(t), LocalizeKey(s))
           /\ Before(LocalizeKey(s), LocalizeKey(t)) => Score(s) >= Score(t)
           /\ Score(s) > Score(t) => Before(LocalizeKey(s), LocalizeKey(t))
<1>1. LocalizeKey(s) \in [1..3 -> Int] /\ LocalizeKey(t) \in [1..3 -> Int] /\ 3 \in Nat
  BY LocalizeKeyTyped
<1>2. ~ Before(LocalizeKey(s), LocalizeKey(s))
  BY <1>1, BeforeIrreflexive
<1>3. ASSUME s # t
      PROVE  Before(LocalizeKey(s), LocalizeKey(t)) \/ Before(LocalizeKey(t), LocalizeKey(s))
  <2>1. LocalizeKey(s) # LocalizeKey(t)
    <3>1. ~ (s.file = t.file /\ s.line = t.line)
      BY <1>3, SymbolsDiffer
    <3> QED BY <3>1, LocalizeKeyTyped
  <2> QED BY <1>1, <2>1, BeforeTotal
<1>4. /\ LocalizeKey(s)[1] = - Score(s) /\ LocalizeKey(t)[1] = - Score(t)
      /\ Score(s) \in Int /\ Score(t) \in Int
  BY LocalizeKeyTyped, ScoreTyped
<1>5. ASSUME Before(LocalizeKey(s), LocalizeKey(t)) PROVE Score(s) >= Score(t)
  <2>1. PICK i \in 1..3 : /\ LocalizeKey(s)[i] < LocalizeKey(t)[i]
                          /\ \A j \in 1..(i - 1) : LocalizeKey(s)[j] = LocalizeKey(t)[j]
    BY <1>1, <1>5 DEF Before
  <2>2. CASE i = 1
    BY <1>4, <2>1, <2>2
  <2>3. CASE i # 1
    <3>1. 1 \in 1..(i - 1)
      BY <2>3
    <3>2. - Score(s) = - Score(t)
      BY <1>4, <2>1, <3>1
    <3> QED BY <1>4, <3>2
  <2> QED BY <2>2, <2>3
<1>6. ASSUME Score(s) > Score(t) PROVE Before(LocalizeKey(s), LocalizeKey(t))
  <2>1. LocalizeKey(s)[1] < LocalizeKey(t)[1]
    BY <1>4, <1>6
  <2>2. 1 \in DOMAIN LocalizeKey(s) /\ 1..(1 - 1) = {}
    BY <1>1
  <2> QED BY <2>1, <2>2 DEF Before
<1> QED BY <1>2, <1>3, <1>5, <1>6

\* Who is listed before another has fewer before it.
LEMMA AheadSmaller ==
    ASSUME phase \in Phases, NEW S \in SUBSET Symbols, IsFiniteSet(S),
           NEW s \in S, NEW t \in S
    PROVE  /\ IsFiniteSet(Ahead(s, S)) /\ Cardinality(Ahead(s, S)) \in Nat
           /\ Cardinality(Ahead(s, S)) < Cardinality(S)
           /\ Before(LocalizeKey(s), LocalizeKey(t))
                => Cardinality(Ahead(s, S)) < Cardinality(Ahead(t, S))
<1>1. \A u \in S : Ahead(u, S) \in SUBSET S /\ u \notin Ahead(u, S)
  BY ListedBefore DEF Ahead
<1>2. IsFiniteSet(Ahead(s, S)) /\ IsFiniteSet(Ahead(t, S))
  BY <1>1, FS_Subset
<1>3. /\ Cardinality(Ahead(s, S)) \in Nat /\ Cardinality(Ahead(t, S)) \in Nat
      /\ Cardinality(S) \in Nat
  BY <1>2, FS_CardinalityType
<1>4. Cardinality(Ahead(s, S) \union {s}) = Cardinality(Ahead(s, S)) + 1
      /\ IsFiniteSet(Ahead(s, S) \union {s})
  BY <1>1, <1>2, FS_AddElement
<1>5. Cardinality(Ahead(s, S)) < Cardinality(S)
  <2>1. Ahead(s, S) \union {s} \in SUBSET S
    BY <1>1
  <2>2. Cardinality(Ahead(s, S) \union {s}) <= Cardinality(S)
    BY <2>1, FS_Subset
  <2> QED BY <1>3, <1>4, <2>2
<1>6. ASSUME Before(LocalizeKey(s), LocalizeKey(t))
      PROVE  Cardinality(Ahead(s, S)) < Cardinality(Ahead(t, S))
  <2>1. ASSUME NEW u \in Ahead(s, S) PROVE u \in Ahead(t, S)
    <3>1. u \in S /\ Before(LocalizeKey(u), LocalizeKey(s))
      BY DEF Ahead
    <3>2. /\ LocalizeKey(u) \in [1..3 -> Int] /\ LocalizeKey(s) \in [1..3 -> Int]
          /\ LocalizeKey(t) \in [1..3 -> Int] /\ 3 \in Nat
      BY <3>1, LocalizeKeyTyped
    <3>3. Before(LocalizeKey(u), LocalizeKey(t))
      BY <1>6, <3>1, <3>2, BeforeTransitive
    <3> QED BY <3>1, <3>3 DEF Ahead
  <2>2. s \in Ahead(t, S)
    BY <1>6 DEF Ahead
  <2>3. Ahead(s, S) \union {s} \in SUBSET Ahead(t, S)
    BY <2>1, <2>2
  <2>4. Cardinality(Ahead(s, S) \union {s}) <= Cardinality(Ahead(t, S))
    BY <1>2, <2>3, FS_Subset
  <2> QED BY <1>3, <1>4, <2>4
<1> QED BY <1>2, <1>3, <1>5, <1>6

\* A list that is cut keeps as many as its cap allows, and those that it keeps are
\* listed before those that it drops.
LEMMA TopFull ==
    ASSUME phase \in Phases, NEW S \in SUBSET Symbols, IsFiniteSet(S), NEW n \in Nat,
           NEW s \in S \ Top(S, n, LocalizeKey)
    PROVE  /\ Cardinality(Top(S, n, LocalizeKey)) = n
           /\ \A t \in Top(S, n, LocalizeKey) : Before(LocalizeKey(t), LocalizeKey(s))
<1> DEFINE T == Top(S, n, LocalizeKey)
           rank == [u \in S |-> Cardinality(Ahead(u, S))]
           N == Cardinality(S)
<1>1. T = { u \in S : Cardinality(Ahead(u, S)) < n }
  BY DEF Top, Ahead
<1>2. \A u \in S : rank[u] = Cardinality(Ahead(u, S))
  OBVIOUS
<1>3. N \in Nat /\ \A u \in S : rank[u] \in Nat /\ rank[u] < N
  BY <1>2, AheadSmaller, FS_CardinalityType
<1>4. \A u, v \in S : Before(LocalizeKey(u), LocalizeKey(v)) => rank[u] < rank[v]
  BY <1>2, AheadSmaller
<1>5. rank \in [S -> 0..(N - 1)]
  <2>1. \A u \in S : Cardinality(Ahead(u, S)) \in 0..(N - 1)
    <3> HIDE DEF N, rank
    <3> QED BY <1>2, <1>3
  <2> QED BY <2>1
<1>6. T = { u \in S : rank[u] < n } /\ DOMAIN rank = S
  BY <1>1, <1>2
<1> HIDE DEF T, rank, N
<1>7. ASSUME NEW u \in S, NEW v \in S, u # v PROVE rank[u] # rank[v]
  <2>1. Before(LocalizeKey(u), LocalizeKey(v)) \/ Before(LocalizeKey(v), LocalizeKey(u))
    BY <1>7, ListedBefore
  <2>2. rank[u] < rank[v] \/ rank[v] < rank[u]
    BY <1>4, <2>1
  <2> QED BY <1>3, <2>2
<1>8. s \in S /\ n <= rank[s] /\ n <= N
  BY <1>3, <1>6 DEF T
<1>9. ASSUME NEW t \in T PROVE Before(LocalizeKey(t), LocalizeKey(s))
  <2>1. t \in S /\ rank[t] < n /\ t # s
    BY <1>6, <1>8, <1>3
  <2>2. ~ Before(LocalizeKey(s), LocalizeKey(t))
    BY <1>3, <1>4, <1>8, <2>1
  <2> QED BY <1>8, <2>1, <2>2, ListedBefore
<1>10. rank \in Surjection(S, 0..(N - 1))
  <2>1. rank \in Injection(S, 0..(N - 1))
    BY <1>5, <1>7 DEF Injection, IsInjective
  <2>2. 0 \in Int /\ N - 1 \in Int
    BY <1>3
  <2>3. IsFiniteSet(0..(N - 1)) /\ Cardinality(0..(N - 1)) = N
    BY <1>3, <2>2, FS_Interval
  <2>4. Cardinality(S) = Cardinality(0..(N - 1))
    BY <2>3 DEF N
  <2> QED BY <2>1, <2>3, <2>4, FS_Injection
<1> DEFINE place == [u \in T |-> rank[u]]
<1>11. place \in Injection(T, 0..(n - 1)) /\ place \in Surjection(T, 0..(n - 1))
  <2>1. \A u \in T : u \in S /\ rank[u] \in 0..(n - 1)
    BY <1>3, <1>6
  <2>2. place \in [T -> 0..(n - 1)] /\ \A u \in T : place[u] = rank[u]
    BY <2>1
  <2>3. ASSUME NEW i \in 0..(n - 1) PROVE \E u \in T : place[u] = i
    <3>1. i \in 0..(N - 1) /\ i < n
      BY <1>3, <1>8
    <3>2. PICK u \in S : rank[u] = i
      BY <1>10, <3>1 DEF Surjection
    <3> QED BY <1>6, <2>2, <3>1, <3>2
  <2> HIDE DEF place
  <2>4. place \in Injection(T, 0..(n - 1))
    BY <1>7, <2>1, <2>2 DEF Injection, IsInjective
  <2> QED BY <2>2, <2>3, <2>4 DEF Surjection
<1> HIDE DEF place
<1>12. IsFiniteSet(T)
  <2>1. T \in SUBSET S
    BY <1>6
  <2> QED BY <2>1, FS_Subset
<1>13. Cardinality(T) = n
  <2>1. 0 \in Int /\ n - 1 \in Int
    OBVIOUS
  <2>2. Cardinality(0..(n - 1)) = n
    BY <2>1, FS_Interval
  <2> QED BY <1>11, <1>12, <2>2, FS_Surjection
<1> QED BY <1>9, <1>13 DEF T

\* The cuts are fractions of an integer.
LEMMA BestTyped ==
    ASSUME TypeOK, IsFiniteSet(snapshot), snapshot # {}
    PROVE  Best \in Int
<1> DEFINE M == { Score(symbol) : symbol \in snapshot }
           score == [symbol \in snapshot |-> Score(symbol)]
<1>1. \A symbol \in snapshot : Score(symbol) \in Int
  BY TypedNow, ScoreTyped
<1>2. M \in SUBSET Int /\ M # {}
  BY <1>1
<1>3. score \in Surjection(snapshot, M)
  BY DEF Surjection
<1>4. IsFiniteSet(M)
  <2> HIDE DEF M, score
  <2> QED BY <1>3, FS_Surjection
<1>5. Max(M) \in M
  <2> HIDE DEF M
  <2> QED BY <1>2, <1>4, MaxOfFinite
<1>6. Best = Max(M)
  BY DEF Best
<1> HIDE DEF M
<1> QED BY <1>2, <1>5, <1>6

\* Who has the higher score is above a cut that the other is above.
LEMMA CutsAreLevels ==
    ASSUME TypeOK, IsFiniteSet(snapshot), NEW s \in snapshot, NEW t \in snapshot,
           Score(s) > Score(t)
    PROVE  /\ AboveHighCut(t) => AboveHighCut(s)
           /\ AboveMediumCut(t) => AboveMediumCut(s)
<1>1. Score(s) \in Int /\ Score(t) \in Int /\ Best \in Int
  BY TypedNow, ScoreTyped, BestTyped
<1> DEFINE b == Best
<1>2. b \in Int
  BY <1>1
<1> HIDE DEF b
<1>3. /\ 100 * Score(t) >= 70 * b => 100 * Score(s) >= 70 * b
      /\ 100 * Score(t) >= 35 * b => 100 * Score(s) >= 35 * b
  BY <1>1, <1>2
<1> QED BY <1>3 DEF AboveHighCut, AboveMediumCut, b

\* What an answer leaves out.
LEMMA LocalizeDrops ==
    ASSUME TypeOK, IsFiniteSet(snapshot), NEW symbol \in snapshot, NEW shown \in High \union Medium,
           Named(symbol) \notin Names(High \union Medium), Score(symbol) > Score(shown)
    PROVE  /\ Cardinality(High) = MaxHigh
           /\ \A best \in High : Score(best) >= Score(symbol)
           /\ shown \in Medium
<1> DEFINE H == { s \in snapshot : AboveHighCut(s) }
           M == { s \in snapshot : /\ AboveMediumCut(s)
                                   /\ ~ AboveHighCut(s)
                                   /\ Named(s) \notin Names(High) }
<1>1. phase \in Phases /\ snapshot \in SUBSET Symbols /\ MaxHigh \in Nat /\ MaxPerTier \in Nat
  BY TypedNow, CapsAssumption
<1>2. H \in SUBSET Symbols /\ M \in SUBSET Symbols /\ H \in SUBSET snapshot /\ M \in SUBSET snapshot
  BY <1>1
<1>3. IsFiniteSet(H) /\ IsFiniteSet(M)
  <2> HIDE DEF H, M
  <2> QED BY <1>2, FS_Subset
<1>4. High = Top(H, MaxHigh, LocalizeKey) /\ Medium = Top(M, MaxPerTier, LocalizeKey)
  BY DEF High, Medium
<1>5. High \subseteq H /\ Medium \subseteq M
  BY <1>4 DEF Top
<1>6. symbol \notin High /\ symbol \notin Medium /\ Named(symbol) \notin Names(High)
  BY DEF Names
<1>7. shown \in snapshot
  BY <1>2, <1>5
<1>8. CASE AboveHighCut(symbol)
  <2>1. symbol \in H \ Top(H, MaxHigh, LocalizeKey)
    BY <1>4, <1>6, <1>8
  <2>2. /\ Cardinality(High) = MaxHigh
        /\ \A best \in High : Before(LocalizeKey(best), LocalizeKey(symbol))
    <3> HIDE DEF H
    <3> QED BY <1>1, <1>2, <1>3, <1>4, <2>1, TopFull
  <2>3. \A best \in High : Score(best) >= Score(symbol)
    <3>1. \A best \in High : best \in Symbols
      BY <1>2, <1>5
    <3> QED BY <1>1, <2>2, <3>1, ListedBefore
  <2>4. shown \notin High
    <3>1. Score(symbol) \in Int /\ Score(shown) \in Int
      BY <1>1, <1>7, ScoreTyped
    <3> QED BY <2>3, <3>1
  <2> QED BY <2>2, <2>3, <2>4
<1>9. CASE ~ AboveHighCut(symbol)
  <2>1. ~ AboveHighCut(shown)
    BY <1>7, <1>9, CutsAreLevels
  <2>2. shown \in Medium
    BY <1>5, <2>1
  <2>3. AboveMediumCut(symbol)
    BY <1>5, <1>7, <2>2, CutsAreLevels
  <2>4. symbol \in M \ Top(M, MaxPerTier, LocalizeKey)
    BY <1>4, <1>6, <1>9, <2>3
  <2>5. Before(LocalizeKey(shown), LocalizeKey(symbol))
    <3> HIDE DEF M
    <3> QED BY <1>1, <1>2, <1>3, <1>4, <2>2, <2>4, TopFull
  <2>6. Score(shown) >= Score(symbol) /\ Score(shown) \in Int /\ Score(symbol) \in Int
    BY <1>1, <1>7, <2>5, ListedBefore, ScoreTyped
  <2> QED BY <2>6
<1> QED BY <1>8, <1>9

\* What is left out is outranked by what is not, but for the full HIGH tier.
THEOREM DropsAreOutranked == Spec => []DroppedOnlyWhenFull
<1>1. Init => DroppedOnlyWhenFull
  BY DEF Init, NoTiers, DroppedOnlyWhenFull
<1>2. CInv /\ DroppedOnlyWhenFull /\ [Next]_vars => DroppedOnlyWhenFull'
  <2> SUFFICES ASSUME CInv, DroppedOnlyWhenFull, [Next]_vars
               PROVE  DroppedOnlyWhenFull'
    OBVIOUS
  <2>1. phase' = phase /\ snapshot' = snapshot
    BY DEF Next, Select, SelectTruncated, Compiled, Localize, vars
  <2>2. \A s : Score(s)' = Score(s)
    BY <2>1, ScoresStay
  <2>3. CASE tiers' = tiers
    BY <2>1, <2>2, <2>3 DEF DroppedOnlyWhenFull, Surfaced
  <2>4. CASE Localize
    <3>1. CASE snapshot = {}
      BY <2>1, <3>1 DEF DroppedOnlyWhenFull
    <3>2. CASE snapshot # {}
      <4>1. tiers' = [high |-> High, medium |-> Medium, risk |-> Risk]
        BY <2>4, <3>2 DEF Localize
      <4>2. tiers'.high = High /\ tiers'.medium = Medium /\ tiers'.risk = Risk
        BY <4>1
      <4> SUFFICES ASSUME NEW symbol \in snapshot, NEW shown \in High \union Medium,
                          Named(symbol) \notin Names(High \union Medium) \union Risk,
                          Score(symbol) > Score(shown)
                   PROVE  /\ Cardinality(High) = MaxHigh
                          /\ \A best \in High : Score(best) >= Score(symbol)
                          /\ shown \in Medium
        BY <2>1, <2>2, <4>2 DEF DroppedOnlyWhenFull, Surfaced
      <4> QED BY LocalizeDrops DEF CInv
    <3> QED BY <3>1, <3>2
  <2> QED BY <2>3, <2>4 DEF Next, Select, SelectTruncated, Compiled, vars
<1> QED BY <1>1, <1>2, Inductive, PTL DEF Spec

--------------------------------------------------------------------------------
\* The tiers of an answer: no name of MEDIUM is one of HIGH, no name of RISK is in
\* either, and every caller of a HIGH symbol is in one of them.
LEMMA TiersApart ==
    /\ Names(High) \intersect Names(Medium) = {}
    /\ Risk \intersect (Names(High) \union Names(Medium)) = {}
    /\ \A symbol \in High : CallersOf[symbol.name] \subseteq Names(High) \union Names(Medium) \union Risk
<1>1. \A s \in Medium : Named(s) \notin Names(High)
  BY DEF Medium, Top
<1>2. Names(High) \intersect Names(Medium) = {}
  BY <1>1 DEF Names
<1>3. Names(High \union Medium) = Names(High) \union Names(Medium)
  BY DEF Names
<1>4. Risk \intersect (Names(High) \union Names(Medium)) = {}
  BY <1>3 DEF Risk
<1>5. ASSUME NEW symbol \in High, NEW caller \in CallersOf[symbol.name]
      PROVE  caller \in Names(High) \union Names(Medium) \union Risk
  <2>1. caller \in UNION { CallersOf[s.name] : s \in High }
    OBVIOUS
  <2>2. QED
    BY <1>3, <2>1 DEF Risk
<1>6. QED
  BY <1>2, <1>4, <1>5

\* Each caller of a HIGH symbol of an answer is in exactly one tier.
LEMMA LocalizeSurfaces ==
    ASSUME NEW symbol \in High, NEW caller \in CallersOf[symbol.name]
    PROVE  Cardinality({ tier \in {"high", "medium", "risk"} :
               caller \in IF tier = "risk" THEN Risk
                          ELSE Names([high |-> High, medium |-> Medium, risk |-> Risk][tier]) }) = 1
<1> DEFINE answer == [high |-> High, medium |-> Medium, risk |-> Risk]
           In(tier) == caller \in IF tier = "risk" THEN Risk ELSE Names(answer[tier])
           found == { tier \in {"high", "medium", "risk"} : In(tier) }
<1>1. /\ answer["high"] = High
      /\ answer["medium"] = Medium
  OBVIOUS
<1>2. /\ In("high") <=> caller \in Names(High)
      /\ In("medium") <=> caller \in Names(Medium)
      /\ In("risk") <=> caller \in Risk
  BY <1>1
<1>3. caller \in Names(High) \union Names(Medium) \union Risk
  BY TiersApart
<1>4. PICK tier \in {"high", "medium", "risk"} : In(tier)
  <2>1. In("high") \/ In("medium") \/ In("risk")
    BY <1>2, <1>3
  <2>2. QED
    BY <2>1
<1>5. \A t, u \in {"high", "medium", "risk"} : In(t) /\ In(u) => t = u
  <2>1. ~ (In("high") /\ In("medium")) /\ ~ (In("risk") /\ (In("high") \/ In("medium")))
    BY <1>2, TiersApart
  <2>2. QED
    BY <2>1
<1> HIDE DEF In
<1>6. found = {tier}
  BY <1>4, <1>5
<1>7. Cardinality({tier}) = 1
  BY FS_Singleton
<1>8. Cardinality(found) = 1
  BY <1>6, <1>7
<1>9. QED
  BY <1>8 DEF In

\* CallersSurfaced of every reachable state, for every value of the constants: the
\* tiers are written by Localize alone, from an empty answer.
THEOREM CallersAreSurfaced == Spec => []CallersSurfaced
<1>1. Init => CallersSurfaced
  BY DEF Init, NoTiers, CallersSurfaced
<1>2. CallersSurfaced /\ [Next]_vars => CallersSurfaced'
  <2> SUFFICES ASSUME CallersSurfaced, [Next]_vars
               PROVE  CallersSurfaced'
    OBVIOUS
  <2>1. CASE tiers' = tiers
    BY <2>1 DEF CallersSurfaced
  <2>2. CASE Localize
    <3>1. CASE snapshot = {}
      BY <2>2, <3>1 DEF Localize, NoTiers, CallersSurfaced
    <3>2. CASE snapshot # {}
      <4>1. tiers' = [high |-> High, medium |-> Medium, risk |-> Risk]
        BY <2>2, <3>2 DEF Localize
      <4>2. tiers'.high = High /\ tiers'.risk = Risk
        BY <4>1
      <4> SUFFICES ASSUME NEW symbol \in High, NEW caller \in CallersOf[symbol.name]
                   PROVE  Cardinality({ tier \in {"high", "medium", "risk"} :
                              caller \in IF tier = "risk" THEN Risk ELSE Names(tiers'[tier]) }) = 1
        BY <4>2 DEF CallersSurfaced, Names, Named
      <4>3. QED
        BY <4>1, LocalizeSurfaces
    <3>3. QED
      BY <3>1, <3>2
  <2>3. QED
    BY <2>1, <2>2 DEF Next, Select, SelectTruncated, Compiled, vars
<1>3. QED
  BY <1>1, <1>2, PTL DEF Spec
================================================================================
