---------------------------- MODULE ContextCompiler ----------------------------
(***************************************************************************)
(* What an agent is told to look at: ContextCompiler.compile, which packs   *)
(* ranked symbols into a token budget (context/compiler.py, budget.py,      *)
(* ranking.py), and Localizer.localize, which sorts the same symbols into   *)
(* tiers (localizer.py).  Both are calls on one snapshot of the repository, *)
(* which the analyzer answers and the module takes as given.                *)
(*                                                                          *)
(* Texts are their lengths in characters, names the words in them, files    *)
(* numbers in the order of their paths.  Relevances are in tenths, weights  *)
(* in hundredths and scores in thousandths, where the code has floats.      *)
(***************************************************************************)
EXTENDS Integers, FiniteSets, FiniteSetsExt, Functions, Sequences

CONSTANTS
    Symbols,     \* what discover may answer
    MaxSymbols,  \* bound: symbols in an answer
    Budgets,     \* token budgets
    Phases,      \* phases asked for
    Concepts,    \* words of the task
    RiskTerms,   \* words of _RISK_TERMS
    TestFiles,   \* files _is_test_path recognises
    Directory,   \* of each file; a file outside every directory is its own
    CallersOf,   \* of each name, as <<name, file>> pairs
    MaxHigh,     \* _MAX_HIGH
    MaxPerTier   \* _MAX_PER_TIER

SymbolType ==
    [ name : STRING,
      file : Nat,
      line : Nat,
      identity : SUBSET STRING,  \* words of name and path
      mentions : SUBSET STRING,  \* words of the content
      relevance : 0..10,
      header : Nat,              \* "## name - file:line-end", the newline included
      body : Nat ]               \* 0: the analyzer has no content

ASSUME SymbolsAssumption == Symbols \subseteq SymbolType
\* An answer of the analyzer names no place twice: discover passes its code blocks on
\* as they come, and compile does not look for duplicates.
ASSUME PlacesDiffer ==
    \A s, t \in Symbols : s.file = t.file /\ s.line = t.line => s = t
ASSUME WordsAssumption ==
    /\ IsFiniteSet(Concepts)
    /\ \A s \in Symbols : IsFiniteSet(s.identity)
ASSUME PhasesAssumption ==
    Phases \subseteq {"UNDERSTAND", "INVESTIGATE", "PLAN", "IMPLEMENT", "VERIFY", "REVIEW", "DONE"}
ASSUME CapsAssumption == MaxHigh \in Nat /\ MaxPerTier \in Nat
ASSUME BudgetsAssumption == \A b \in Budgets : b \in Nat /\ b >= 64

VARIABLES
    call,       \* "compile" or "localize", until it is "compiled" or "localized"
    phase,
    budget,
    snapshot,   \* symbols discover answered
    candidates, \* of compile
    selected,   \* of compile, in order
    remaining,  \* of the budget
    tiers       \* of localize

vars == <<call, phase, budget, snapshot, candidates, selected, remaining, tiers>>

--------------------------------------------------------------------------------
(***************************************************************************)
(* Tokens.                                                                  *)
(***************************************************************************)
Placeholder == 25  \* "(source body unavailable)"
Marker == 35       \* "\n# ... truncated by Sogi token budget"

Tokens(characters) == Max({1, (characters + 3) \div 4})

Rendered(symbol) ==
    symbol.header + (IF symbol.body = 0 THEN Placeholder ELSE symbol.body) + 1

Cost(symbol) == Tokens(Rendered(symbol))

\* Mutant: the marker is added to a full text.
TruncatedBesideMarker(characters, tokens) ==
    IF tokens <= 0 THEN 0
    ELSE IF characters <= 4 * tokens THEN characters
    ELSE 4 * tokens + Marker

\* The marker stays whole, also where it does not fit.
Truncated(characters, tokens) ==
    IF tokens <= 0 THEN 0
    ELSE IF characters <= 4 * tokens THEN characters
    ELSE Max({0, 4 * tokens - Marker}) + Marker

--------------------------------------------------------------------------------
(***************************************************************************)
(* Ranking.                                                                 *)
(***************************************************************************)
Weights(p) ==  \* of semantic, dependency, test and risk relevance
    CASE p = "UNDERSTAND"  -> <<50, 25, 10, 15>>
      [] p = "INVESTIGATE" -> <<40, 25, 20, 15>>
      [] p = "PLAN"        -> <<35, 35, 15, 15>>
      [] p = "IMPLEMENT"   -> <<45, 30, 10, 15>>
      [] p = "VERIFY"      -> <<25, 15, 50, 10>>
      [] p \in {"REVIEW", "DONE"} -> <<20, 15, 35, 30>>

Haystack(symbol) == symbol.identity \union symbol.mentions

Lexical(symbol) ==
    (10 * Cardinality(Concepts \intersect Haystack(symbol))) \div Max({1, Cardinality(Concepts)})

Semantic(symbol) == Min({10, Max({symbol.relevance, Lexical(symbol)})})

Score(symbol) ==
    LET weights == Weights(phase)
    IN weights[1] * Semantic(symbol)
       + weights[2] * (IF symbol.body > 0 THEN 5 ELSE 2)
       + weights[3] * (IF symbol.file \in TestFiles THEN 10 ELSE 0)
       + weights[4] * (IF RiskTerms \intersect Haystack(symbol) # {} THEN 10 ELSE 0)

\* Sort keys: the first of a set is the one with the least key.
Before(key, other) ==
    \E i \in DOMAIN key :
        /\ key[i] < other[i]
        /\ \A j \in 1..(i - 1) : key[j] = other[j]

First(set, Key(_)) == CHOOSE s \in set : \A t \in set \ {s} : Before(Key(s), Key(t))

\* set[:n] of a sorted list
Top(set, n, Key(_)) ==
    { s \in set : Cardinality({ t \in set : Before(Key(t), Key(s)) }) < n }

RankKey(symbol) == <<- Score(symbol), Cost(symbol), symbol.file, symbol.line>>
\* Mutant: the worst candidates first.
LocalizeKeyAscending(symbol) == <<Score(symbol), symbol.file, symbol.line>>
LocalizeKey(symbol) == <<- Score(symbol), symbol.file, symbol.line>>

--------------------------------------------------------------------------------
(***************************************************************************)
(* compile: maximal marginal relevance under the budget.                    *)
(***************************************************************************)
Similarity(left, right) ==  \* in hundredths
    IF left.file = right.file THEN 100
    ELSE Max({ (100 * Cardinality(left.identity \intersect right.identity))
                   \div Max({1, Cardinality(left.identity \union right.identity)}),
               IF Directory[left.file] = Directory[right.file] THEN 35 ELSE 0 })

\* Mutant: redundancy with the last symbol told only.
MarginalToLast(symbol, chosen) ==
    4 * Score(symbol) - 10 * Similarity(symbol, selected[Len(selected)])

\* 0.80 * score - 0.20 * redundancy, in units of a five-thousandth
Marginal(symbol, chosen) ==
    4 * Score(symbol) - 10 * Max({ Similarity(symbol, other) : other \in chosen })

ChoiceKey(symbol) ==
    << - Marginal(symbol, Range(selected)), - Score(symbol), Cost(symbol),
       - symbol.file, symbol.line >>

\* Mutants: the header is not counted; the loop ends at the first that does not fit.
FittingByBody == { symbol \in candidates : Tokens(symbol.body) <= remaining }
FittingInOrder ==
    IF selected # << >> /\ candidates # {} /\ Cost(First(candidates, RankKey)) > remaining THEN {}
    ELSE { symbol \in candidates : Cost(symbol) <= remaining }

Fitting == { symbol \in candidates : Cost(symbol) <= remaining }

Choice ==
    IF selected = << >> THEN First(Fitting, RankKey) ELSE First(Fitting, ChoiceKey)

NoTiers == [high |-> {}, medium |-> {}, risk |-> {}]

Init ==
    /\ call \in {"compile", "localize"}
    /\ phase \in Phases
    /\ budget \in Budgets
    /\ snapshot \in { s \in SUBSET Symbols : IsFiniteSet(s) /\ Cardinality(s) <= MaxSymbols }
    /\ candidates = snapshot
    /\ selected = << >>
    /\ remaining = budget
    /\ tiers = NoTiers

\* One turn of the loop of _select_under_budget.
Select ==
    /\ call = "compile"
    /\ Fitting # {}
    /\ selected' = Append(selected, Choice)
    /\ candidates' = candidates \ {Choice}
    /\ remaining' = remaining - Cost(Choice)
    /\ UNCHANGED <<call, phase, budget, snapshot, tiers>>

\* Nothing fits from the start: the best candidate is cut.
SelectTruncated ==
    /\ call = "compile"
    /\ Fitting = {}
    /\ selected = << >>
    /\ snapshot # {}
    /\ LET first == First(snapshot, RankKey)
           room == budget - Cost([first EXCEPT !.body = 0])
       IN selected' = << [first EXCEPT !.body = Truncated(first.body, room)] >>
    /\ call' = "compiled"
    /\ UNCHANGED <<phase, budget, snapshot, candidates, remaining, tiers>>

Compiled ==
    /\ call = "compile"
    /\ Fitting = {}
    /\ selected # << >> \/ snapshot = {}
    /\ call' = "compiled"
    /\ UNCHANGED <<phase, budget, snapshot, candidates, selected, remaining, tiers>>

--------------------------------------------------------------------------------
(***************************************************************************)
(* localize: tiers by the score of the best candidate, and the callers.     *)
(***************************************************************************)
Best == Max({ Score(symbol) : symbol \in snapshot })
AboveHighCut(symbol) == 100 * Score(symbol) >= 70 * Best
AboveMediumCut(symbol) == 100 * Score(symbol) >= 35 * Best

Named(symbol) == <<symbol.name, symbol.file>>
Names(set) == { Named(symbol) : symbol \in set }

High == Top({ s \in snapshot : AboveHighCut(s) }, MaxHigh, LocalizeKey)

Medium ==
    Top({ s \in snapshot : /\ AboveMediumCut(s)
                           /\ ~ AboveHighCut(s)
                           /\ Named(s) \notin Names(High) }, MaxPerTier, LocalizeKey)

\* Mutant: selected_names is not updated with the MEDIUM tier.
RiskBesideMedium == (UNION { CallersOf[symbol.name] : symbol \in High }) \ Names(High)

\* Callers are asked for by name: those of another symbol of that name come along.
Risk == (UNION { CallersOf[symbol.name] : symbol \in High }) \ Names(High \union Medium)

Localize ==
    /\ call = "localize"
    /\ tiers' = IF snapshot = {} THEN NoTiers
                ELSE [high |-> High, medium |-> Medium, risk |-> Risk]
    /\ call' = "localized"
    /\ UNCHANGED <<phase, budget, snapshot, candidates, selected, remaining>>

Next == Select \/ SelectTruncated \/ Compiled \/ Localize

Spec == Init /\ [][Next]_vars

--------------------------------------------------------------------------------
(***************************************************************************)
(* Properties.                                                              *)
(***************************************************************************)
\* The type invariant: the budget is never overdrawn on the way.
TypeOK ==
    /\ call \in {"compile", "localize", "compiled", "localized"}
    /\ phase \in Phases
    /\ budget \in Budgets
    /\ snapshot \subseteq Symbols
    /\ candidates \subseteq snapshot
    /\ selected \in Seq(SymbolType)
    /\ remaining \in 0..budget
    /\ tiers.high \union tiers.medium \subseteq snapshot

\* Every token of the answer, as the one of its symbol it is.
Told == UNION { {symbol} \X (1..Cost(symbol)) : symbol \in Range(selected) }
Spent == Cardinality(Told)

\* The budget of an answer is kept, with one exception the code has: when nothing
\* fits, and the header of the best candidate leaves no room for the marker of the
\* cut, the answer exceeds it, by two tokens at most if the marker is in it, and by
\* as much as the header does if it is not.
BudgetHeld ==
    Spent > budget =>
        /\ Len(selected) = 1
        /\ \A symbol \in snapshot : Cost(symbol) > budget
        /\ Tokens(selected[1].header + Placeholder + 1 + Marker) > budget
        /\ Spent <= budget + 2 \/ selected[1].body = 0

\* No room is wasted and nothing is told twice: a whole symbol that was left out does
\* not fit in what is left, and an answer is empty only if there was nothing to tell.
NothingFittingLeft ==
    call = "compiled" =>
        /\ \A symbol \in snapshot \ Range(selected) : Cost(symbol) > budget - Spent
        /\ Cardinality(Range(selected)) = Len(selected)
        /\ selected = << >> => snapshot = {}

Related(symbol, other) ==
    \/ Directory[symbol.file] = Directory[other.file]
    \/ symbol.identity \intersect other.identity # {}

\* A crowded file does not consume the budget (the docstring of _select_under_budget):
\* a second symbol of a file is told before a symbol that has nothing in common with
\* anything told so far, and needs no more room, only if its score is higher by what
\* the redundancy costs, a quarter of the scale.
CrowdedFileYields ==
    \A i \in DOMAIN selected :
        LET told == { selected[j] : j \in 1..(i - 1) }
        IN \A other \in candidates :
               /\ call \in {"compile", "compiled"}
               /\ \E symbol \in told : symbol.file = selected[i].file
               /\ \A symbol \in told : ~ Related(symbol, other)
               /\ Cost(other) <= Cost(selected[i])
               => Score(selected[i]) >= Score(other) + 250

Surfaced == Names(tiers.high \union tiers.medium) \union tiers.risk

\* "What must not be broken": each caller of a HIGH symbol is in one tier, and in one
\* only, whatever its own score.
CallersSurfaced ==
    \A symbol \in tiers.high : \A caller \in CallersOf[symbol.name] :
        Cardinality({ tier \in {"high", "medium", "risk"} :
            caller \in IF tier = "risk" THEN tiers.risk ELSE Names(tiers[tier]) }) = 1

\* A candidate that is left out is outranked by all that is not, with one exception:
\* when HIGH is full, those that would belong there are dropped while MEDIUM ones stay.
DroppedOnlyWhenFull ==
    \A symbol \in snapshot : \A shown \in tiers.high \union tiers.medium :
        Named(symbol) \notin Surfaced /\ Score(symbol) > Score(shown) =>
            /\ Cardinality(tiers.high) = MaxHigh
            /\ \A best \in tiers.high : Score(best) >= Score(symbol)
            /\ shown \in tiers.medium

================================================================================
