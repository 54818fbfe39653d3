---------------------------- MODULE EvidenceProofs ----------------------------
(***************************************************************************)
(* What a verification may conclude, for every repository, configuration,   *)
(* task, context and report.                                                *)
(***************************************************************************)
EXTENDS Evidence, SequenceTheorems, TLAPS

\* The checks there are: of those that were discovered, the suites are the tests.
Declared ==
    {check \in Checks : check.configured \/ (check.kind = "test" <=> check.command \in Suites)}

\* A test that ran to success has no failed test in its report, only a test that was
\* run has a report, and only a suite or a configured command is a test.
Sound(r) ==
    /\ ~r.configured /\ r.command \notin Suites => r.kind # "test"
    /\ DOMAIN r.tests # {} => r.kind = "test" /\ r.success # None
    /\ r.success = TRUE => \A t \in DOMAIN r.tests : r.tests[t] \notin {"failed", "error"}

Concluded ==
    /\ criteria # None => criteria = [c \in record.criteria |-> MapCriterion(c, results)]
    /\ outcome # None => outcome = OutcomeOf(results)

EInv ==
    /\ TypeOK
    /\ todo \in Seq(Declared)
    /\ \A i \in DOMAIN results : Sound(results[i])
    /\ Concluded
    /\ criteria # None \/ outcome # None => todo = << >>

LEMMA NoneTyped == None # TRUE /\ None # FALSE
BY NoneAssumption

LEMMA ChecksTyped ==
    /\ << >> \in Seq(Declared)
    /\ Check("pytest", "test") \in Seq(Declared)
    /\ Check("ruff", "lint") \in Seq(Declared)
    /\ Check("mypy", "typecheck") \in Seq(Declared)
    /\ Check("npm test", "test") \in Seq(Declared)
    /\ Check("npm typecheck", "typecheck") \in Seq(Declared)
    /\ Check("npm lint", "lint") \in Seq(Declared)
    /\ Check("npm build", "build") \in Seq(Declared)
    /\ Check("make test", "test") \in Seq(Declared)
    /\ Check("make check", "test") \in Seq(Declared)
    /\ Check("cargo test", "test") \in Seq(Declared)
<1>1. ASSUME NEW command \in KnownCommands, NEW kind \in Kinds, kind = "test" <=> command \in Suites
      PROVE  Check(command, kind) \in Seq(Declared)
  <2>1. [command |-> command, kind |-> kind, configured |-> FALSE] \in Declared
    BY <1>1 DEF Declared, Checks
  <2> QED BY <2>1 DEF Check
<1>2. "test" \in Kinds /\ "lint" \in Kinds /\ "typecheck" \in Kinds /\ "build" \in Kinds
  BY DEF Kinds
<1>3. /\ Check("pytest", "test") \in Seq(Declared)
      /\ Check("npm test", "test") \in Seq(Declared)
      /\ Check("make test", "test") \in Seq(Declared)
      /\ Check("make check", "test") \in Seq(Declared)
      /\ Check("cargo test", "test") \in Seq(Declared)
  BY <1>1, <1>2 DEF KnownCommands, Suites
<1>4. /\ Check("ruff", "lint") \in Seq(Declared)
      /\ Check("mypy", "typecheck") \in Seq(Declared)
      /\ Check("npm typecheck", "typecheck") \in Seq(Declared)
      /\ Check("npm lint", "lint") \in Seq(Declared)
      /\ Check("npm build", "build") \in Seq(Declared)
  BY <1>1, <1>2 DEF KnownCommands, Suites
<1>5. << >> \in Seq(Declared)
  OBVIOUS
<1> QED BY <1>3, <1>4, <1>5

LEMMA DiscoveryTyped ==
    ASSUME NEW root
    PROVE  DiscoverChecks(root) \in Seq(Declared)
<1>1. ASSUME NEW s \in Seq(Declared), NEW t \in Seq(Declared) PROVE s \o t \in Seq(Declared)
  BY <1>1, ConcatProperties
<1>2. FromPyproject(root) \in Seq(Declared)
  <2> DEFINE P == When(root \cap {"[tool.pytest", "pytest.ini", "tests/"} # {}, Check("pytest", "test"))
             R == When(root \cap {"[tool.ruff", "ruff.toml"} # {}, Check("ruff", "lint"))
             M == When(root \cap {"[tool.mypy", "mypy.ini"} # {}, Check("mypy", "typecheck"))
  <2>1. P \in Seq(Declared)
    BY ChecksTyped DEF When
  <2>2. R \in Seq(Declared)
    BY ChecksTyped DEF When
  <2>3. M \in Seq(Declared)
    BY ChecksTyped DEF When
  <2>4. P \o R \in Seq(Declared)
    <3> HIDE DEF P, R
    <3> QED BY <1>1, <2>1, <2>2
  <2>5. (P \o R) \o M \in Seq(Declared)
    <3> HIDE DEF P, R, M
    <3> QED BY <1>1, <2>3, <2>4
  <2> QED BY <2>5, ChecksTyped DEF When, FromPyproject
<1>3. FromPytestIni(root) \in Seq(Declared)
  BY ChecksTyped DEF When, FromPytestIni
<1>4. FromPackageJson(root) \in Seq(Declared)
  <2> DEFINE T == When("npm test" \in root, Check("npm test", "test"))
             Y == When("npm typecheck" \in root, Check("npm typecheck", "typecheck"))
             L == When("npm lint" \in root, Check("npm lint", "lint"))
             B == When("npm build" \in root, Check("npm build", "build"))
  <2>1. T \in Seq(Declared)
    BY ChecksTyped DEF When
  <2>2. Y \in Seq(Declared)
    BY ChecksTyped DEF When
  <2>3. L \in Seq(Declared)
    BY ChecksTyped DEF When
  <2>4. B \in Seq(Declared)
    BY ChecksTyped DEF When
  <2>5. T \o Y \in Seq(Declared)
    <3> HIDE DEF T, Y
    <3> QED BY <1>1, <2>1, <2>2
  <2>6. (T \o Y) \o L \in Seq(Declared)
    <3> HIDE DEF T, Y, L
    <3> QED BY <1>1, <2>5, <2>3
  <2>7. ((T \o Y) \o L) \o B \in Seq(Declared)
    <3> HIDE DEF T, Y, L, B
    <3> QED BY <1>1, <2>6, <2>4
  <2> QED BY <2>7 DEF FromPackageJson
<1>5. FromMakefile(root) \in Seq(Declared)
  BY ChecksTyped DEF When, FromMakefile
<1>6. FromCargo(root) \in Seq(Declared)
  BY ChecksTyped DEF When, FromCargo
<1> QED BY <1>1, <1>2, <1>3, <1>4, <1>5, <1>6 DEF DiscoverChecks

LEMMA ConfiguredTyped ==
    ASSUME NEW config \in Configs
    PROVE  Configured(config) \in Seq(Declared)
<1>1. config \in Seq(Commands)
  BY ConfigsAssumption
<1>2. \A i \in 1 .. Len(config) : config[i] \in Commands
  BY <1>1
<1>3. "test" \in Kinds
  BY DEF Kinds
<1>4. /\ DOMAIN config = 1 .. Len(config)
      /\ Len(config) \in Nat
  BY <1>1
<1>5. Configured(config) \in [1 .. Len(config) -> Declared]
  BY <1>2, <1>3, <1>4 DEF Configured, Declared, Checks
<1> QED BY <1>4, <1>5

\* A verdict is one of the three.
LEMMA VerdictTyped ==
    ASSUME NEW c, NEW rs
    PROVE  MapCriterion(c, rs) \in {"SATISFIED", "VIOLATED", "UNVERIFIED"}
BY DEF MapCriterion, ByNodes, ByFiles

LEMMA ReportTyped ==
    ASSUME NEW fate \in Fates, NEW report \in Written(fate) \cup {NoTests}
    PROVE  /\ report \in Reports
           /\ Success(Execute(fate)) \in BOOLEAN \cup {None}
           /\ DOMAIN report # {} => Success(Execute(fate)) # None
           /\ Success(Execute(fate)) = TRUE
                => \A t \in DOMAIN report : report[t] \notin {"failed", "error"}
<1>1. NoTests \in Reports /\ DOMAIN NoTests = {}
  BY DEF NoTests, Reports, TestOutcomes
<1>2. report \in Reports
  BY <1>1 DEF Written
<1>3. Success(Execute(fate)) \in BOOLEAN \cup {None}
  BY DEF Success
<1>4. CASE fate = "exit 0"
  BY <1>1, <1>2, <1>3, <1>4, NoneTyped DEF Written, Execute, Success
<1>5. CASE fate = "exit 1"
  BY <1>1, <1>2, <1>3, <1>5, NoneTyped DEF Written, Execute, Success
<1>6. CASE fate = "timeout"
  BY <1>1, <1>2, <1>3, <1>6, NoneTyped DEF Written, Execute, Success
<1>7. CASE fate \notin {"exit 0", "exit 1", "timeout"}
  <2>1. report = NoTests
    BY <1>7 DEF Written, Fates
  <2> QED BY <1>1, <1>2, <1>3, <2>1
<1> QED BY <1>4, <1>5, <1>6, <1>7

LEMMA InitEstablishes == Init => EInv
<1> SUFFICES ASSUME Init PROVE EInv
  OBVIOUS
<1>1. todo \in Seq(Declared) /\ Seq(Declared) \subseteq Seq(Checks)
  BY DiscoveryTyped, ConfiguredTyped DEF Init, Declared
<1>2. results = << >> /\ criteria = None /\ outcome = None /\ record \in [criteria : SUBSET Criteria, context : Contexts \cup {None}]
  BY DEF Init
<1>3. TypeOK
  BY <1>1, <1>2 DEF TypeOK
<1> QED BY <1>1, <1>2, <1>3 DEF EInv, Concluded

LEMMA RunCheckKeeps ==
    ASSUME EInv, NEW fate \in Fates, NEW report \in Reports, RunCheck(fate, report)
    PROVE  EInv'
<1> DEFINE check == Head(todo)
           r == [command |-> check.command, kind |-> check.kind, configured |-> check.configured,
                 success |-> Success(Execute(fate)), tests |-> report]
<1>1. /\ todo # << >>
      /\ todo' = Tail(todo)
      /\ results' = Append(results, r)
      /\ UNCHANGED <<record, criteria, outcome>>
      /\ report \in IF WantsReport(Head(todo)) THEN Written(fate) ELSE {NoTests}
  BY DEF RunCheck
<1>2. todo \in Seq(Declared) /\ results \in Seq(Results)
  BY DEF EInv, TypeOK
<1>3. check \in Declared /\ Tail(todo) \in Seq(Declared) /\ Seq(Declared) \subseteq Seq(Checks)
  BY <1>1, <1>2, HeadTailProperties DEF Declared
<1>4. report \in Written(fate) \cup {NoTests}
  BY <1>1
<1>5. r \in Results
  BY <1>3, <1>4, ReportTyped DEF Results, Declared, Checks
<1>6. Sound(r)
  <2>1. ~r.configured /\ r.command \notin Suites => r.kind # "test"
    BY <1>3 DEF Declared
  <2>2. CASE WantsReport(Head(todo))
    BY <1>4, <2>1, <2>2, ReportTyped DEF WantsReport, Sound
  <2>3. CASE ~WantsReport(Head(todo))
    BY <1>1, <2>1, <2>3 DEF Sound, NoTests
  <2> QED BY <2>2, <2>3
<1> HIDE DEF r, check
<1>7. results' \in Seq(Results)
  BY <1>1, <1>2, <1>5, AppendProperties
<1>8. \A i \in DOMAIN results' : Sound(results'[i])
  <2> SUFFICES ASSUME NEW i \in DOMAIN results' PROVE Sound(results'[i])
    OBVIOUS
  <2>1. CASE i \in DOMAIN results
    <3>1. results'[i] = results[i]
      BY <1>1, <1>2, <1>5, <2>1, AppendProperties
    <3> QED BY <2>1, <3>1 DEF EInv
  <2>2. CASE i \notin DOMAIN results
    <3>1. results'[i] = r
      BY <1>1, <1>2, <1>5, <2>2, AppendProperties
    <3> QED BY <1>6, <3>1
  <2> QED BY <2>1, <2>2
<1> QED BY <1>1, <1>3, <1>7, <1>8 DEF EInv, TypeOK, Concluded

LEMMA ConcludeKeeps ==
    ASSUME EInv, Conclude
    PROVE  EInv'
<1>1. /\ todo = << >>
      /\ criteria' = [c \in record.criteria |-> MapCriterion(c, results)]
      /\ outcome' = OutcomeOf(results)
      /\ UNCHANGED <<record, todo, results>>
  BY DEF Conclude
<1>2. criteria' \in [record.criteria -> {"SATISFIED", "VIOLATED", "UNVERIFIED"}]
  BY <1>1, VerdictTyped
<1>3. outcome' \in {"PASS", "PASS_WITH_UNVERIFIED", "FAIL", "INCONCLUSIVE"}
  BY <1>1 DEF OutcomeOf
<1>4. TypeOK'
  BY <1>1, <1>2, <1>3 DEF EInv, TypeOK
<1>5. UNCHANGED <<record, results>>
  BY <1>1
<1>6. OutcomeOf(results)' = OutcomeOf(results)
  BY <1>5 DEF OutcomeOf, Statuses, MapCriterion, NodeOutcomes, ByFiles, Executed,
        MatchingEvidence, CandidateTests
<1>7. \A c \in record.criteria : MapCriterion(c, results)' = MapCriterion(c, results)
  BY <1>5 DEF MapCriterion, NodeOutcomes, ByFiles, Executed,
        MatchingEvidence, CandidateTests
<1>8. criteria' = [c \in record.criteria |-> MapCriterion(c, results)]'
  BY <1>1, <1>5, <1>7
<1> QED BY <1>1, <1>4, <1>5, <1>6, <1>8 DEF EInv, Concluded

\* The inductive invariant holds in every reachable state: every report is one that
\* pytest can have written, and the conclusion is the one drawn from the results.
THEOREM Inductive == Spec => []EInv
<1>1. Init => EInv
  BY InitEstablishes
<1>2. EInv /\ [Next]_vars => EInv'
  <2> SUFFICES ASSUME EInv, [Next]_vars PROVE EInv'
    OBVIOUS
  <2>1. CASE UNCHANGED vars
    <3>1. UNCHANGED <<record, todo, results, criteria, outcome>>
      BY <2>1 DEF vars
    <3>2. TypeOK'
      BY <3>1 DEF EInv, TypeOK
    <3>3. OutcomeOf(results)' = OutcomeOf(results)
      BY <3>1 DEF OutcomeOf, Statuses, MapCriterion, NodeOutcomes, ByFiles, Executed,
        MatchingEvidence, CandidateTests
    <3>4. \A c \in record.criteria : MapCriterion(c, results)' = MapCriterion(c, results)
      BY <3>1 DEF MapCriterion, NodeOutcomes, ByFiles, Executed,
        MatchingEvidence, CandidateTests
    <3>5. [c \in record.criteria |-> MapCriterion(c, results)]'
            = [c \in record.criteria |-> MapCriterion(c, results)]
      BY <3>1, <3>4
    <3> QED BY <3>1, <3>2, <3>3, <3>5 DEF EInv, Concluded
  <2>2. ASSUME NEW fate \in Fates, NEW report \in Reports, RunCheck(fate, report) PROVE EInv'
    BY <2>2, RunCheckKeeps
  <2>3. CASE Conclude
    BY <2>3, ConcludeKeeps
  <2> QED BY <2>1, <2>2, <2>3 DEF Next
<1> QED BY <1>1, <1>2, PTL DEF Spec

\* Every variable keeps its type.
THEOREM TypeCorrect == Spec => []TypeOK
<1>1. EInv => TypeOK
  BY DEF EInv
<1> QED BY <1>1, Inductive, PTL

-----------------------------------------------------------------------------
\* A matching test that was executed ran in a check of kind test with an exit code.
LEMMA NodesRan ==
    ASSUME EInv, NEW c, NodeOutcomes(c, results) # {}
    PROVE  \E i \in DOMAIN results : results[i].kind = "test" /\ results[i].success # None
<1>1. PICK i \in DOMAIN results : \E t \in MatchTests[c] \cap DOMAIN results[i].tests : TRUE
  BY DEF NodeOutcomes
<1>2. Sound(results[i])
  BY DEF EInv
<1> QED BY <1>1, <1>2 DEF Sound

\* An outcome of PASS: nothing that ran failed, and no criterion is in doubt.
LEMMA PassMeans ==
    ASSUME OutcomeOf(results) = "PASS"
    PROVE  /\ \A i \in DOMAIN results : results[i].success # FALSE
           /\ \A c \in record.criteria : MapCriterion(c, results) \notin {"VIOLATED", "UNVERIFIED"}
BY DEF OutcomeOf, Statuses

\* PASS is earned, whatever the repository declares and the reports say.
THEOREM PassesAreEarned == Spec => []PassIsEarned
<1>1. EInv => PassIsEarned
  <2> SUFFICES ASSUME EInv, outcome = "PASS" PROVE PassIsEarned
    BY DEF PassIsEarned
  <2>1. OutcomeOf(results) = "PASS"
    BY NoneAssumption DEF EInv, Concluded
  <2>2. \A i \in DOMAIN results : results[i].success # FALSE
    BY <2>1, PassMeans
  <2>3. \A i \in DOMAIN results : results[i] \in Results
    BY DEF EInv, TypeOK
  <2>4. ASSUME NEW c \in record.criteria
        PROVE  LET found == NodeOutcomes(c, results)
               IN  /\ \E i \in DOMAIN results : results[i].kind = "test" /\ results[i].success = TRUE
                   /\ found \cap {"failed", "error"} = {}
                   /\ "passed" \in found \/ (found = {} /\ MatchingEvidence(c) # {})
    <3>1. MapCriterion(c, results) \notin {"VIOLATED", "UNVERIFIED"}
      BY <2>1, PassMeans
    <3>2. CASE NodeOutcomes(c, results) # {}
      <4>1. ByNodes(NodeOutcomes(c, results)) \notin {"VIOLATED", "UNVERIFIED"}
        BY <3>1, <3>2 DEF MapCriterion
      <4>2. /\ NodeOutcomes(c, results) \cap {"failed", "error"} = {}
            /\ NodeOutcomes(c, results) # {"skipped"}
        BY <4>1 DEF ByNodes
      <4>3. NodeOutcomes(c, results) \subseteq {"passed", "failed", "error", "skipped"}
        BY DEF NodeOutcomes, TestOutcomes
      <4>4. "passed" \in NodeOutcomes(c, results)
        BY <3>2, <4>2, <4>3
      <4> QED BY <2>2, <2>3, <3>2, <4>2, <4>4, NodesRan DEF Results
    <3>3. CASE NodeOutcomes(c, results) = {}
      <4>1. ByFiles(c, results) \notin {"VIOLATED", "UNVERIFIED"}
        BY <3>1, <3>3 DEF MapCriterion
      <4>2. MatchingEvidence(c) # {} /\ Executed(results) # {}
        BY <4>1 DEF ByFiles
      <4> QED BY <2>2, <2>3, <3>3, <4>2 DEF Executed, Results
    <3> QED BY <3>2, <3>3
  <2> QED BY <2>2, <2>4 DEF PassIsEarned
<1> QED BY <1>1, Inductive, PTL

\* No verdict without ground.
THEOREM VerdictsAreGrounded == Spec => []VerdictsGrounded
<1>1. EInv => VerdictsGrounded
  <2> SUFFICES ASSUME EInv, criteria # None, NEW c \in record.criteria
               PROVE  LET found == NodeOutcomes(c, results)
                      IN  /\ criteria[c] = "SATISFIED" => found \cap {"failed", "error"} = {}
                          /\ criteria[c] = "VIOLATED" =>
                                \/ found \cap {"failed", "error"} # {}
                                \/ \E i \in DOMAIN results :
                                      results[i].kind = "test" /\ results[i].success = FALSE
                          /\ criteria[c] = "UNVERIFIED" => "passed" \notin found
    BY DEF VerdictsGrounded
  <2>1. criteria[c] = MapCriterion(c, results)
    BY DEF EInv, Concluded
  <2>2. CASE NodeOutcomes(c, results) # {}
    BY <2>1, <2>2 DEF MapCriterion, ByNodes
  <2>3. CASE NodeOutcomes(c, results) = {}
    <3>1. criteria[c] = ByFiles(c, results)
      BY <2>1, <2>3 DEF MapCriterion
    <3>2. \A i \in DOMAIN results : results[i] \in Results
      BY DEF EInv, TypeOK
    <3>3. criteria[c] = "VIOLATED" => \E i \in Executed(results) : results[i].success # TRUE
      BY <3>1 DEF ByFiles
    <3> QED BY <2>3, <3>2, <3>3 DEF Executed, Results
  <2> QED BY <2>2, <2>3
<1> QED BY <1>1, Inductive, PTL

\* What a linter, a type checker or a build of the repository reports has no influence
\* on any criterion.
THEOREM OnlyTestsAreEvidence == Spec => []OnlyTestsCount
<1>1. EInv => OnlyTestsCount
  <2> SUFFICES ASSUME EInv, NEW i \in DOMAIN results, ~results[i].configured,
                      results[i].command \notin Suites
               PROVE  /\ results[i].tests = NoTests
                      /\ \A c \in Criteria, s \in BOOLEAN \cup {None} :
                            MapCriterion(c, [results EXCEPT ![i].success = s])
                               = MapCriterion(c, results)
    BY DEF OnlyTestsCount
  <2>1. Sound(results[i]) /\ results[i] \in Results
    BY DEF EInv, TypeOK
  <2>2. results[i].kind # "test" /\ DOMAIN results[i].tests = {}
    BY <2>1 DEF Sound
  <2>3. results[i].tests = NoTests
    <3>1. results[i].tests \in Reports
      BY <2>1 DEF Results
    <3>2. PICK S \in SUBSET Tests : results[i].tests \in [S -> TestOutcomes]
      BY <3>1 DEF Reports
    <3>3. results[i].tests \in [{} -> TestOutcomes] /\ NoTests \in [{} -> TestOutcomes]
      BY <2>2, <3>2 DEF NoTests
    <3> QED BY <3>3
  <2>4. ASSUME NEW c \in Criteria, NEW s \in BOOLEAN \cup {None}
        PROVE  MapCriterion(c, [results EXCEPT ![i].success = s]) = MapCriterion(c, results)
    <3> DEFINE other == [results EXCEPT ![i].success = s]
    <3>1. /\ DOMAIN other = DOMAIN results
          /\ \A j \in DOMAIN results : /\ other[j].tests = results[j].tests
                                       /\ other[j].kind = results[j].kind
                                       /\ j # i => other[j] = results[j]
      BY DEF EInv, TypeOK, Results
    <3> HIDE DEF other
    <3>2. NodeOutcomes(c, other) = NodeOutcomes(c, results)
      BY <3>1 DEF NodeOutcomes
    <3>3. Executed(other) \subseteq Executed(results) /\ Executed(results) \subseteq Executed(other)
      BY <2>2, <3>1 DEF Executed
    <3>4. ByFiles(c, other) = ByFiles(c, results)
      BY <2>2, <3>1, <3>3 DEF ByFiles, Executed
    <3>5. MapCriterion(c, other) = MapCriterion(c, results)
      BY <3>2, <3>4 DEF MapCriterion
    <3> QED BY <3>5 DEF other
  <2> QED BY <2>3, <2>4
<1> QED BY <1>1, Inductive, PTL

-----------------------------------------------------------------------------
\* Running one more check leaves the results before it where they are.
LEMMA RunCheckAppends ==
    ASSUME EInv, NEW fate \in Fates, NEW report \in Reports, RunCheck(fate, report)
    PROVE  /\ UNCHANGED record
           /\ DOMAIN results \subseteq DOMAIN results'
           /\ \A i \in DOMAIN results : results'[i] = results[i]
<1>1. PICK r : results' = Append(results, r) /\ UNCHANGED record
  BY DEF RunCheck
<1>2. results \in Seq(Results)
  BY DEF EInv, TypeOK
<1>3. /\ Len(results) \in Nat /\ DOMAIN results = 1..Len(results)
      /\ DOMAIN results' = 1..(Len(results) + 1)
      /\ \A i \in 1..Len(results) : results'[i] = results[i]
  BY <1>1, <1>2
<1> QED BY <1>1, <1>3

\* More results, more outcomes; and a failed one among them decides.
LEMMA FailedNodesDecide ==
    ASSUME NEW c, NEW rs, NEW more, DOMAIN rs \subseteq DOMAIN more,
           \A i \in DOMAIN rs : more[i] = rs[i],
           NodeOutcomes(c, rs) \cap {"failed", "error"} # {}
    PROVE  MapCriterion(c, more) = "VIOLATED"
<1>1. NodeOutcomes(c, rs) \subseteq NodeOutcomes(c, more)
  BY DEF NodeOutcomes
<1>2. NodeOutcomes(c, more) # {} /\ NodeOutcomes(c, more) \cap {"failed", "error"} # {}
  BY <1>1
<1> QED BY <1>2 DEF MapCriterion, ByNodes

\* A violated criterion has a failed test, or stands on a check that failed.
LEMMA ViolatedMeans ==
    ASSUME EInv, NEW c, MapCriterion(c, results) = "VIOLATED"
    PROVE  \/ NodeOutcomes(c, results) \cap {"failed", "error"} # {}
           \/ \E i \in DOMAIN results : results[i].success = FALSE
<1>1. CASE NodeOutcomes(c, results) # {}
  BY <1>1 DEF MapCriterion, ByNodes
<1>2. CASE NodeOutcomes(c, results) = {}
  <2>1. ByFiles(c, results) = "VIOLATED"
    BY <1>2 DEF MapCriterion
  <2>2. PICK i \in Executed(results) : results[i].success # TRUE
    BY <2>1 DEF ByFiles
  <2>3. results[i] \in Results
    BY <2>2 DEF EInv, TypeOK, Executed
  <2> QED BY <2>2, <2>3 DEF Executed, Results
<1> QED BY <1>1, <1>2

\* A failed test or a failed check is never undone by a check that runs later, the
\* same suite included.
THEOREM FailuresAreKept == Spec => FailuresStand
<1> DEFINE Stand ==
        /\ OutcomeOf(results) = "FAIL" => OutcomeOf(results') = "FAIL"
        /\ \A c \in Criteria :
              NodeOutcomes(c, results) \cap {"failed", "error"} # {}
                  => MapCriterion(c, results') = "VIOLATED"
<1>1. ASSUME EInv, UNCHANGED record, DOMAIN results \subseteq DOMAIN results',
             \A i \in DOMAIN results : results'[i] = results[i]
      PROVE  Stand
  <2>1. \A c : NodeOutcomes(c, results) \cap {"failed", "error"} # {}
                  => MapCriterion(c, results') = "VIOLATED"
    BY <1>1, FailedNodesDecide
  <2>2. ASSUME OutcomeOf(results) = "FAIL" PROVE OutcomeOf(results') = "FAIL"
    <3>1. \E i \in DOMAIN results' : results'[i].success # None
      BY <1>1, <2>2 DEF OutcomeOf
    <3>2. CASE \E i \in DOMAIN results : results[i].success = FALSE
      <4>1. \E i \in DOMAIN results' : results'[i].success = FALSE
        BY <1>1, <3>2
      <4> QED BY <3>1, <4>1 DEF OutcomeOf
    <3>3. CASE ~\E i \in DOMAIN results : results[i].success = FALSE
      <4>1. PICK c \in record.criteria : MapCriterion(c, results) = "VIOLATED"
        BY <2>2, <3>3 DEF OutcomeOf, Statuses
      <4>2. NodeOutcomes(c, results) \cap {"failed", "error"} # {}
        BY <1>1, <3>3, <4>1, ViolatedMeans
      <4>3. "VIOLATED" \in Statuses(results')
        BY <2>1, <4>1, <4>2 DEF Statuses
      <4> QED BY <3>1, <4>3 DEF OutcomeOf
    <3> QED BY <3>2, <3>3
  <2> QED BY <2>1, <2>2
<1>2. EInv /\ [Next]_vars => [Stand]_vars
  <2> SUFFICES ASSUME EInv, Next PROVE Stand
    OBVIOUS
  <2>1. ASSUME NEW fate \in Fates, NEW report \in Reports, RunCheck(fate, report) PROVE Stand
    <3> HIDE DEF Stand
    <3> QED BY <1>1, <2>1, RunCheckAppends
  <2>2. CASE Conclude
    <3>1. UNCHANGED record /\ results' = results
      BY <2>2 DEF Conclude
    <3> HIDE DEF Stand
    <3> QED BY <1>1, <3>1
  <2> QED BY <2>1, <2>2 DEF Next
<1>3. Spec => [][Stand]_vars
  <2> HIDE DEF Stand
  <2> QED BY <1>2, Inductive, PTL DEF Spec
<1> QED BY <1>3 DEF FailuresStand

-----------------------------------------------------------------------------
\* W is rs with the test t of the i-th result at o: what Degraded makes of it.
Worsened(W, rs, i, t, o) ==
    /\ DOMAIN W = DOMAIN rs
    /\ \A j \in DOMAIN rs :
          /\ W[j].kind = rs[j].kind
          /\ DOMAIN W[j].tests = DOMAIN rs[j].tests
          /\ j # i => W[j].success = rs[j].success
          /\ \A u \in DOMAIN rs[j].tests : j # i \/ u # t => W[j].tests[u] = rs[j].tests[u]
    /\ W[i].tests[t] = o
    /\ W[i].success = IF o = "skipped" THEN rs[i].success ELSE FALSE

\* It does: field by field, of the one result, at the one test.
LEMMA DegradedWorsens ==
    ASSUME NEW rs \in Seq(Results), NEW i \in DOMAIN rs, NEW t \in DOMAIN rs[i].tests, NEW o
    PROVE  Worsened(Degraded(rs, i, t, o), rs, i, t, o)
<1> DEFINE e == [rs[i] EXCEPT !.tests[t] = o]
           d == [e EXCEPT !.success = IF o = "skipped" THEN @ ELSE FALSE]
           W == Degraded(rs, i, t, o)
<1>1. rs[i] \in Results
  OBVIOUS
<1>2. /\ rs[i] = [command |-> rs[i].command, kind |-> rs[i].kind, configured |-> rs[i].configured,
               success |-> rs[i].success, tests |-> rs[i].tests]
  BY <1>1 DEF Results
<1>3. /\ DOMAIN W = DOMAIN rs
      /\ W[i] = d
      /\ \A j \in DOMAIN rs : j # i => W[j] = rs[j]
  BY DEF Degraded
<1>4. /\ e.kind = rs[i].kind /\ e.success = rs[i].success
      /\ e.tests = [rs[i].tests EXCEPT ![t] = o]
      /\ DOMAIN e = {"command", "kind", "configured", "success", "tests"}
  BY <1>2
<1> HIDE DEF e
<1>5. /\ d.kind = e.kind /\ d.tests = e.tests
      /\ d.success = IF o = "skipped" THEN e.success ELSE FALSE
  BY <1>4
<1> HIDE DEF d, W
<1>6. /\ DOMAIN e.tests = DOMAIN rs[i].tests /\ e.tests[t] = o
      /\ \A u \in DOMAIN rs[i].tests : u # t => e.tests[u] = rs[i].tests[u]
  BY <1>4
<1>7. Worsened(W, rs, i, t, o)
  BY <1>3, <1>4, <1>5, <1>6 DEF Worsened
<1> QED BY <1>7 DEF W

\* Verdicts and outcomes in order.
LEMMA RankTyped ==
    ASSUME NEW v \in {"SATISFIED", "VIOLATED", "UNVERIFIED", "PASS", "PASS_WITH_UNVERIFIED",
                      "FAIL", "INCONCLUSIVE"}
    PROVE  /\ Rank(v) = IF v \in {"VIOLATED", "FAIL"} THEN 0
                        ELSE IF v \in {"SATISFIED", "PASS"} THEN 2 ELSE 1
           /\ Rank(v) \in 0..2
BY DEF Rank

\* The outcomes of the tests that match a criterion: of the worsened report they are
\* those of the other tests, and o if the test is one of them.
LEMMA NodesWorse ==
    ASSUME NEW c, NEW rs, NEW W, NEW i \in DOMAIN rs, NEW t \in DOMAIN rs[i].tests,
           NEW o \in TestOutcomes, Worsened(W, rs, i, t, o), rs[i].tests[t] \in TestOutcomes
    PROVE  /\ t \notin MatchTests[c] => NodeOutcomes(c, W) = NodeOutcomes(c, rs)
           /\ t \in MatchTests[c] =>
                 /\ o \in NodeOutcomes(c, W) /\ rs[i].tests[t] \in NodeOutcomes(c, rs)
                 /\ NodeOutcomes(c, rs) \subseteq NodeOutcomes(c, W) \cup {rs[i].tests[t]}
<1>1. /\ DOMAIN W = DOMAIN rs
      /\ \A j \in DOMAIN rs : DOMAIN W[j].tests = DOMAIN rs[j].tests
      /\ \A j \in DOMAIN rs : \A u \in DOMAIN rs[j].tests :
            j # i \/ u # t => W[j].tests[u] = rs[j].tests[u]
      /\ W[i].tests[t] = o
  BY DEF Worsened
<1>2. ASSUME t \notin MatchTests[c] PROVE NodeOutcomes(c, W) = NodeOutcomes(c, rs)
  <2>1. \A j \in DOMAIN rs : \A u \in MatchTests[c] \cap DOMAIN rs[j].tests :
           W[j].tests[u] = rs[j].tests[u]
    BY <1>1, <1>2
  <2> QED BY <1>1, <2>1 DEF NodeOutcomes
<1>3. ASSUME t \in MatchTests[c]
      PROVE  o \in NodeOutcomes(c, W) /\ rs[i].tests[t] \in NodeOutcomes(c, rs)
  BY <1>1, <1>3 DEF NodeOutcomes
<1>4. ASSUME NEW p \in NodeOutcomes(c, rs), p # rs[i].tests[t] PROVE p \in NodeOutcomes(c, W)
  <2>1. PICK j \in DOMAIN rs : \E u \in MatchTests[c] \cap DOMAIN rs[j].tests : rs[j].tests[u] = p
    BY DEF NodeOutcomes
  <2>2. PICK u \in MatchTests[c] \cap DOMAIN rs[j].tests : rs[j].tests[u] = p
    BY <2>1
  <2>3. W[j].tests[u] = p
    BY <1>1, <1>4, <2>2
  <2>4. p \in TestOutcomes
    BY DEF NodeOutcomes
  <2> QED BY <1>1, <2>2, <2>3, <2>4 DEF NodeOutcomes
<1> QED BY <1>2, <1>3, <1>4

\* No criterion is better for it.
LEMMA CriterionWorse ==
    ASSUME NEW c, NEW rs \in Seq(Results), NEW W, NEW i \in DOMAIN rs, NEW t \in DOMAIN rs[i].tests,
           NEW o \in {"skipped", "failed", "error"}, Worsened(W, rs, i, t, o), Sound(rs[i]),
           rs[i].tests[t] = "passed" \/ (rs[i].tests[t] = "skipped" /\ o # "skipped")
    PROVE  Rank(MapCriterion(c, W)) <= Rank(MapCriterion(c, rs))
<1> DEFINE new == MapCriterion(c, W)
           old == MapCriterion(c, rs)
<1>1. new \in {"SATISFIED", "VIOLATED", "UNVERIFIED"} /\ old \in {"SATISFIED", "VIOLATED", "UNVERIFIED"}
  BY VerdictTyped
<1>2. o \in TestOutcomes /\ rs[i].tests[t] \in TestOutcomes
  BY DEF TestOutcomes
<1>3. /\ t \notin MatchTests[c] => NodeOutcomes(c, W) = NodeOutcomes(c, rs)
      /\ t \in MatchTests[c] =>
            /\ o \in NodeOutcomes(c, W) /\ rs[i].tests[t] \in NodeOutcomes(c, rs)
            /\ NodeOutcomes(c, rs) \subseteq NodeOutcomes(c, W) \cup {rs[i].tests[t]}
  BY <1>2, NodesWorse
<1>4. new = "VIOLATED" \/ old = "SATISFIED" \/ new = old
  <2>1. CASE t \in MatchTests[c]
    <3>1. CASE o \in {"failed", "error"}
      <4>1. NodeOutcomes(c, W) # {} /\ NodeOutcomes(c, W) \cap {"failed", "error"} # {}
        BY <1>3, <2>1, <3>1
      <4> QED BY <4>1 DEF MapCriterion, ByNodes
    <3>2. CASE o = "skipped"
      <4>1. /\ NodeOutcomes(c, W) # {} /\ "passed" \in NodeOutcomes(c, rs)
            /\ NodeOutcomes(c, rs) \subseteq NodeOutcomes(c, W) \cup {"passed"}
        BY <1>3, <2>1, <3>2
      <4>2. CASE NodeOutcomes(c, rs) \cap {"failed", "error"} # {}
        <5>1. NodeOutcomes(c, W) \cap {"failed", "error"} # {}
          BY <4>1, <4>2
        <5> QED BY <4>1, <5>1 DEF MapCriterion, ByNodes
      <4>3. CASE NodeOutcomes(c, rs) \cap {"failed", "error"} = {}
        <5>1. NodeOutcomes(c, rs) # {} /\ NodeOutcomes(c, rs) # {"skipped"}
          BY <4>1
        <5> QED BY <4>3, <5>1 DEF MapCriterion, ByNodes
      <4> QED BY <4>2, <4>3
    <3> QED BY <3>1, <3>2
  <2>2. CASE t \notin MatchTests[c]
    <3>1. NodeOutcomes(c, W) = NodeOutcomes(c, rs)
      BY <1>3, <2>2
    <3>2. CASE NodeOutcomes(c, rs) # {}
      BY <3>1, <3>2 DEF MapCriterion
    <3>3. CASE NodeOutcomes(c, rs) = {}
      <4>1. new = ByFiles(c, W) /\ old = ByFiles(c, rs)
        BY <3>1, <3>3 DEF MapCriterion
      <4>2. rs[i].kind = "test" /\ rs[i].success # None
        BY DEF Sound
      <4>3. /\ DOMAIN W = DOMAIN rs
            /\ \A j \in DOMAIN rs : W[j].kind = rs[j].kind
            /\ \A j \in DOMAIN rs : j # i => W[j].success = rs[j].success
            /\ W[i].success = IF o = "skipped" THEN rs[i].success ELSE FALSE
        BY DEF Worsened
      <4>4. CASE o = "skipped"
        <5>1. \A j \in DOMAIN rs : W[j].success = rs[j].success
          BY <4>3, <4>4
        <5>2. Executed(W) = Executed(rs)
          BY <4>3, <5>1 DEF Executed
        <5>3. \A j \in Executed(rs) : W[j].success = rs[j].success
          BY <5>1 DEF Executed
        <5> QED BY <4>1, <5>2, <5>3 DEF ByFiles
      <4>5. CASE o # "skipped"
        <5>1. i \in Executed(W) /\ i \in Executed(rs) /\ W[i].success # TRUE
          BY <4>2, <4>3, <4>5, NoneTyped DEF Executed
        <5>2. CASE MatchingEvidence(c) = {}
          BY <4>1, <5>2 DEF ByFiles
        <5>3. CASE MatchingEvidence(c) # {}
          BY <4>1, <5>1, <5>3 DEF ByFiles
        <5> QED BY <5>2, <5>3
      <4> QED BY <4>4, <4>5
    <3> QED BY <3>2, <3>3
  <2> QED BY <2>1, <2>2
<1> HIDE DEF new, old
<1>5. Rank(new) <= Rank(old)
  BY <1>1, <1>4, RankTyped
<1> QED BY <1>5 DEF new, old

\* Nor is the outcome.
LEMMA OutcomeWorse ==
    ASSUME NEW rs \in Seq(Results), NEW W, NEW i \in DOMAIN rs, NEW t \in DOMAIN rs[i].tests,
           NEW o \in {"skipped", "failed", "error"}, Worsened(W, rs, i, t, o), Sound(rs[i]),
           rs[i].tests[t] = "passed" \/ (rs[i].tests[t] = "skipped" /\ o # "skipped")
    PROVE  Rank(OutcomeOf(W)) <= Rank(OutcomeOf(rs))
<1>1. /\ DOMAIN W = DOMAIN rs
      /\ \A j \in DOMAIN rs : j # i => W[j].success = rs[j].success
      /\ W[i].success = IF o = "skipped" THEN rs[i].success ELSE FALSE
  BY DEF Worsened
<1>2. rs[i].success # None /\ W[i].success # None
  BY <1>1, NoneTyped DEF Sound
<1>3. /\ OutcomeOf(W) \in {"FAIL", "PASS_WITH_UNVERIFIED", "PASS"}
      /\ OutcomeOf(rs) \in {"FAIL", "PASS_WITH_UNVERIFIED", "PASS"}
  BY <1>1, <1>2 DEF OutcomeOf
<1>4. \A c \in record.criteria :
         /\ MapCriterion(c, rs) = "VIOLATED" => MapCriterion(c, W) = "VIOLATED"
         /\ MapCriterion(c, rs) = "UNVERIFIED" => MapCriterion(c, W) \in {"VIOLATED", "UNVERIFIED"}
  <2> SUFFICES ASSUME NEW c \in record.criteria
               PROVE  /\ MapCriterion(c, rs) = "VIOLATED" => MapCriterion(c, W) = "VIOLATED"
                      /\ MapCriterion(c, rs) = "UNVERIFIED"
                            => MapCriterion(c, W) \in {"VIOLATED", "UNVERIFIED"}
    OBVIOUS
  <2> DEFINE new == MapCriterion(c, W)
             old == MapCriterion(c, rs)
  <2>1. new \in {"SATISFIED", "VIOLATED", "UNVERIFIED"} /\ old \in {"SATISFIED", "VIOLATED", "UNVERIFIED"}
    BY VerdictTyped
  <2>2. Rank(new) <= Rank(old)
    BY CriterionWorse
  <2> HIDE DEF new, old
  <2>3. /\ Rank(new) = IF new = "VIOLATED" THEN 0 ELSE IF new = "SATISFIED" THEN 2 ELSE 1
        /\ Rank(old) = IF old = "VIOLATED" THEN 0 ELSE IF old = "SATISFIED" THEN 2 ELSE 1
    BY <2>1, RankTyped
  <2>4. /\ old = "VIOLATED" => new = "VIOLATED"
        /\ old = "UNVERIFIED" => new \in {"VIOLATED", "UNVERIFIED"}
    BY <2>1, <2>2, <2>3
  <2> QED BY <2>4 DEF new, old
<1>5. ASSUME OutcomeOf(rs) = "FAIL" PROVE OutcomeOf(W) = "FAIL"
  <2>1. CASE \E j \in DOMAIN rs : rs[j].success = FALSE
    <3>1. PICK j \in DOMAIN rs : rs[j].success = FALSE
      BY <2>1
    <3>2. W[j].success = FALSE
      BY <1>1, <3>1
    <3> QED BY <1>1, <1>2, <3>2 DEF OutcomeOf
  <2>2. CASE "VIOLATED" \in Statuses(rs)
    <3>1. "VIOLATED" \in Statuses(W)
      BY <1>4, <2>2 DEF Statuses
    <3> QED BY <1>1, <1>2, <3>1 DEF OutcomeOf
  <2> QED BY <1>5, <2>1, <2>2 DEF OutcomeOf
<1>6. ASSUME OutcomeOf(rs) = "PASS_WITH_UNVERIFIED" PROVE OutcomeOf(W) # "PASS"
  <2>1. "UNVERIFIED" \in Statuses(rs)
    BY <1>6 DEF OutcomeOf
  <2>2. "UNVERIFIED" \in Statuses(W) \/ "VIOLATED" \in Statuses(W)
    BY <1>4, <2>1 DEF Statuses
  <2> QED BY <2>2 DEF OutcomeOf
<1> DEFINE new == OutcomeOf(W)
           old == OutcomeOf(rs)
<1>7. /\ new \in {"FAIL", "PASS_WITH_UNVERIFIED", "PASS"} /\ old \in {"FAIL", "PASS_WITH_UNVERIFIED", "PASS"}
      /\ old = "FAIL" => new = "FAIL"
      /\ old = "PASS_WITH_UNVERIFIED" => new # "PASS"
  BY <1>3, <1>5, <1>6
<1> HIDE DEF new, old
<1>8. Rank(new) <= Rank(old)
  BY <1>7, RankTyped
<1> QED BY <1>8 DEF new, old

\* A test that does worse never makes a criterion or the outcome better.
THEOREM WorseHelpsNothing == Spec => []WorseNeverHelps
<1>1. EInv => WorseNeverHelps
  <2> SUFFICES ASSUME EInv, NEW i \in DOMAIN results, NEW t \in DOMAIN results[i].tests,
                      NEW o \in {"skipped", "failed", "error"},
                      results[i].tests[t] = "passed"
                         \/ (results[i].tests[t] = "skipped" /\ o # "skipped")
               PROVE  /\ \A c \in Criteria :
                            Rank(MapCriterion(c, Degraded(results, i, t, o)))
                               <= Rank(MapCriterion(c, results))
                      /\ Rank(OutcomeOf(Degraded(results, i, t, o))) <= Rank(OutcomeOf(results))
    BY DEF WorseNeverHelps
  <2>1. results \in Seq(Results) /\ Sound(results[i])
    BY DEF EInv, TypeOK
  <2>2. Worsened(Degraded(results, i, t, o), results, i, t, o)
    BY <2>1, DegradedWorsens
  <2> QED BY <2>1, <2>2, CriterionWorse, OutcomeWorse
<1> QED BY <1>1, Inductive, PTL
=============================================================================
