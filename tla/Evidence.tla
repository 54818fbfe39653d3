------------------------------- MODULE Evidence -------------------------------
(***************************************************************************)
(* What a verification proves: discover_checks (verification/discovery.py), *)
(* ExecutionPolicy.run (execution.py), the JUnit report of a pytest run     *)
(* (evidence_providers.py), map_criteria (evidence.py) and Verifier.verify  *)
(* (verifier.py).  CompletionGate takes the outcome as a constant of the    *)
(* worktree; here it is computed, one check after the other.                *)
(*                                                                          *)
(* Names are abstracted to which of them contain a term of a criterion.     *)
(***************************************************************************)
EXTENDS Naturals, Sequences

CONSTANTS
    Roots,      \* sets of marks of a repository: what discovery looks for
    Commands,   \* commands a configuration may name
    Configs,    \* verification_commands of the configuration
    PytestLike, \* commands that are instrumented to write a report
    Criteria,
    Files,
    TestLike,   \* those that look like tests
    Contexts,   \* compiled contexts: related tests and files
    Tests,
    MatchFiles, \* files and tests whose name contains a term of the criterion
    MatchTests,
    None

ASSUME MatchAssumption ==
    /\ MatchFiles \in [Criteria -> SUBSET Files]
    /\ MatchTests \in [Criteria -> SUBSET Tests]
    /\ Contexts \subseteq [tests : SUBSET Files, files : SUBSET Files]
ASSUME ConfigsAssumption == \A config \in Configs : config \in Seq(Commands)
ASSUME NoneAssumption ==
    /\ None \notin BOOLEAN
    /\ None \notin {"PASS", "PASS_WITH_UNVERIFIED", "FAIL", "INCONCLUSIVE"}
    /\ None \notin Contexts

VARIABLES
    record,   \* of the run: its acceptance criteria and its context, or None
    todo,     \* checks to be run, in order
    results,  \* CheckResult of those that were
    criteria, \* None, or the status of each criterion
    outcome   \* None, or the outcome of the report

vars == <<record, todo, results, criteria, outcome>>

-----------------------------------------------------------------------------
Check(command, kind) == <<[command |-> command, kind |-> kind, configured |-> FALSE]>>
When(found, checks) == IF found THEN checks ELSE << >>

FromPyproject(root) ==
    When("pyproject" \in root,
         When(root \cap {"[tool.pytest", "pytest.ini", "tests/"} # {}, Check("pytest", "test"))
         \o When(root \cap {"[tool.ruff", "ruff.toml"} # {}, Check("ruff", "lint"))
         \o When(root \cap {"[tool.mypy", "mypy.ini"} # {}, Check("mypy", "typecheck")))

FromPytestIni(root) ==
    When("pytest.ini" \in root /\ "pyproject" \notin root, Check("pytest", "test"))

\* A package.json that is no UTF-8, or whose scripts are no object, raises out of
\* verify with nothing stored: such repositories are left out.
FromPackageJson(root) ==
    When("npm test" \in root, Check("npm test", "test"))
    \o When("npm typecheck" \in root, Check("npm typecheck", "typecheck"))
    \o When("npm lint" \in root, Check("npm lint", "lint"))
    \o When("npm build" \in root, Check("npm build", "build"))

FromMakefile(root) ==
    IF "make test" \in root THEN Check("make test", "test")
    ELSE When("make check" \in root, Check("make check", "test"))

FromCargo(root) == When("cargo" \in root, Check("cargo test", "test"))

DiscoverChecks(root) ==
    FromPyproject(root) \o FromPytestIni(root) \o FromPackageJson(root)
        \o FromMakefile(root) \o FromCargo(root)

\* Configured commands are authoritative, and all of them are tests.
Configured(config) ==
    [i \in DOMAIN config |-> [command |-> config[i], kind |-> "test", configured |-> TRUE]]

Init ==
    /\ record \in [criteria : SUBSET Criteria, context : Contexts \cup {None}]
    /\ \E root \in Roots, config \in Configs :
          todo = IF config # << >> THEN Configured(config) ELSE DiscoverChecks(root)
    /\ results = << >>
    /\ criteria = None
    /\ outcome = None

-----------------------------------------------------------------------------
\* What can become of a command: refused by the policy, not found, not launched,
\* killed at the timeout, or its exit code.
Fates == {"syntax", "operator", "not allowed", "not found", "not launched",
          "timeout", "exit 126", "exit 0", "exit 1"}

Execute(fate) ==
    CASE fate \in {"syntax", "operator", "not allowed"} -> "blocked"
      [] fate \in {"not found", "exit 126"} -> "unavailable"
      [] fate \in {"not launched", "exit 1"} -> "failed"
      [] fate = "timeout" -> "timed_out"
      [] fate = "exit 0" -> "passed"

Success(status) ==
    IF status = "passed" THEN TRUE
    ELSE IF status \in {"failed", "timed_out"} THEN FALSE
    ELSE None

TestOutcomes == {"passed", "failed", "error", "skipped"}
Reports == UNION {[S -> TestOutcomes] : S \in SUBSET Tests}
NoTests == [t \in {} |-> "passed"]

\* pytest writes its report when the tests are over, and exits 0 only if nothing
\* failed and something was collected; it may hang after that and be killed.  A
\* report that does not parse has no tests.
Written(fate) ==
    CASE fate = "exit 0" -> {r \in Reports : \A t \in DOMAIN r : r[t] \in {"passed", "skipped"}}
      [] fate \in {"exit 1", "timeout"} -> Reports
      [] OTHER -> {NoTests}

WantsReport(check) == check.kind = "test" /\ check.command \in PytestLike

RunCheck(fate, report) ==
    /\ todo # << >>
    /\ report \in (IF WantsReport(Head(todo)) THEN Written(fate) ELSE {NoTests})
    /\ todo' = Tail(todo)
    /\ LET check == Head(todo)
       IN  results' = Append(results,
                         [command |-> check.command, kind |-> check.kind,
                          configured |-> check.configured,
                          success |-> Success(Execute(fate)), tests |-> report])
    /\ UNCHANGED <<record, criteria, outcome>>

-----------------------------------------------------------------------------
CandidateTests ==
    IF record.context = None THEN {}
    ELSE IF record.context.tests # {} THEN record.context.tests
    ELSE record.context.files \cap TestLike

MatchingEvidence(c) == CandidateTests \cap MatchFiles[c]

\* Mutant: the last report replaces the ones before it.
LastNodeOutcomes(c, rs) ==
    {o \in TestOutcomes :
        \E i \in DOMAIN rs : /\ \E t \in MatchTests[c] \cap DOMAIN rs[i].tests : rs[i].tests[t] = o
                            /\ \A j \in DOMAIN rs : DOMAIN rs[j].tests # {} => j <= i}

\* _matching_nodes: the outcomes of the executed tests that match, in any report.
NodeOutcomes(c, rs) ==
    {o \in TestOutcomes :
        \E i \in DOMAIN rs : \E t \in MatchTests[c] \cap DOMAIN rs[i].tests : rs[i].tests[t] = o}

\* Mutant: every check is evidence.
AnyExecuted(rs) == {i \in DOMAIN rs : rs[i].success # None}

Executed(rs) == {i \in DOMAIN rs : rs[i].kind = "test" /\ rs[i].success # None}

\* Mutant: an error is not a failure.
ByNodesNoError(found) ==
    IF "failed" \in found THEN "VIOLATED"
    ELSE IF found = {"skipped"} THEN "UNVERIFIED"
    ELSE "SATISFIED"

\* Mutant: one test that passed is enough.
ByNodesOptimist(found) ==
    IF "passed" \in found THEN "SATISFIED"
    ELSE IF found = {"skipped"} THEN "UNVERIFIED"
    ELSE "VIOLATED"

ByNodes(found) ==
    IF found \cap {"failed", "error"} # {} THEN "VIOLATED"
    ELSE IF found = {"skipped"} THEN "UNVERIFIED"
    ELSE "SATISFIED"

\* Mutant: tests that did not run did not fail.
ByFilesVacuous(c, rs) ==
    IF MatchingEvidence(c) = {} THEN "UNVERIFIED"
    ELSE IF \A i \in Executed(rs) : rs[i].success = TRUE THEN "SATISFIED"
    ELSE "VIOLATED"

\* Without test identities: the test files of the context and the exit codes.
ByFiles(c, rs) ==
    IF MatchingEvidence(c) = {} \/ Executed(rs) = {} THEN "UNVERIFIED"
    ELSE IF \A i \in Executed(rs) : rs[i].success = TRUE THEN "SATISFIED"
    ELSE "VIOLATED"

\* map_criteria, for one criterion.
MapCriterion(c, rs) ==
    IF NodeOutcomes(c, rs) # {} THEN ByNodes(NodeOutcomes(c, rs)) ELSE ByFiles(c, rs)

Statuses(rs) == {MapCriterion(c, rs) : c \in record.criteria}

OutcomeOf(rs) ==
    IF \A i \in DOMAIN rs : rs[i].success = None THEN "INCONCLUSIVE"
    ELSE IF (\E i \in DOMAIN rs : rs[i].success = FALSE) \/ "VIOLATED" \in Statuses(rs)
      THEN "FAIL"
    ELSE IF "UNVERIFIED" \in Statuses(rs) THEN "PASS_WITH_UNVERIFIED"
    ELSE "PASS"

\* Mutant: a criterion without evidence is passed over.
ConcludeKnown ==
    /\ todo = << >>
    /\ criteria = None
    /\ criteria' = [c \in {d \in record.criteria : MatchingEvidence(d) # {}} |-> MapCriterion(c, results)]
    /\ outcome' = OutcomeOf(results)
    /\ UNCHANGED <<record, todo, results>>

Conclude ==
    /\ todo = << >>
    /\ criteria = None
    /\ criteria' = [c \in record.criteria |-> MapCriterion(c, results)]
    /\ outcome' = OutcomeOf(results)
    /\ UNCHANGED <<record, todo, results>>

Next ==
    \/ \E fate \in Fates, report \in Reports : RunCheck(fate, report)
    \/ Conclude

Spec == Init /\ [][Next]_vars

-----------------------------------------------------------------------------
Kinds == {"test", "lint", "typecheck", "build"}
KnownCommands == {"pytest", "ruff", "mypy", "npm test", "npm typecheck", "npm lint", "npm build",
                  "make test", "make check", "cargo test"}
Checks == [command : KnownCommands \cup Commands, kind : Kinds, configured : BOOLEAN]
Results == [command : KnownCommands \cup Commands, kind : Kinds, configured : BOOLEAN,
            success : BOOLEAN \cup {None}, tests : Reports]

TypeOK ==
    /\ record \in [criteria : SUBSET Criteria, context : Contexts \cup {None}]
    /\ todo \in Seq(Checks)
    /\ results \in Seq(Results)
    /\ criteria \in [record.criteria -> {"SATISFIED", "VIOLATED", "UNVERIFIED"}] \cup {None}
    /\ outcome \in {"PASS", "PASS_WITH_UNVERIFIED", "FAIL", "INCONCLUSIVE", None}

\* PASS is earned: nothing that ran failed; and for every criterion a check of kind
\* test ran to success, no executed test that matches failed, and one that matches
\* passed or, if none was executed, the context names a file of them.
PassIsEarned ==
    outcome = "PASS" =>
        /\ \A i \in DOMAIN results : results[i].success # FALSE
        /\ \A c \in record.criteria :
              LET found == NodeOutcomes(c, results)
              IN  /\ \E i \in DOMAIN results : results[i].kind = "test" /\ results[i].success = TRUE
                  /\ found \cap {"failed", "error"} = {}
                  /\ "passed" \in found \/ (found = {} /\ MatchingEvidence(c) # {})

\* No verdict without ground: a satisfied criterion has no failed test that matches
\* it, a violated one has, or stands on a suite that failed, and an unverified one
\* has no test that passed.
VerdictsGrounded ==
    criteria # None =>
        \A c \in record.criteria :
            LET found == NodeOutcomes(c, results)
            IN  /\ criteria[c] = "SATISFIED" => found \cap {"failed", "error"} = {}
                /\ criteria[c] = "VIOLATED" =>
                      \/ found \cap {"failed", "error"} # {}
                      \/ \E i \in DOMAIN results :
                            results[i].kind = "test" /\ results[i].success = FALSE
                /\ criteria[c] = "UNVERIFIED" => "passed" \notin found

\* The commands discovery knows that run tests.
Suites == {"pytest", "npm test", "make test", "make check", "cargo test"}

\* A linter, a type checker or a build that discovery found says nothing of a
\* criterion, failing or passing: it reports no tests, and the criteria are what
\* they are whatever its success.  A command of the configuration is a test whatever
\* it runs (service.py), so that a configured linter that passes counts: the property
\* excepts those.
OnlyTestsCount ==
    \A i \in DOMAIN results :
        ~results[i].configured /\ results[i].command \notin Suites =>
            /\ results[i].tests = NoTests
            /\ \A c \in Criteria, s \in BOOLEAN \cup {None} :
                  MapCriterion(c, [results EXCEPT ![i].success = s]) = MapCriterion(c, results)

\* What failed stays failed.  Checks are not compared with each other, so a suite may
\* run twice (as pytest and as make test, or by a command that is configured twice);
\* and a later run, however it ends, repairs neither a failed outcome nor a criterion
\* with a failed test.
FailuresStand ==
    [][/\ OutcomeOf(results) = "FAIL" => OutcomeOf(results') = "FAIL"
       /\ \A c \in Criteria :
             NodeOutcomes(c, results) \cap {"failed", "error"} # {}
                 => MapCriterion(c, results') = "VIOLATED"]_vars

Rank(status) == CASE status \in {"VIOLATED", "FAIL"} -> 0
                  [] status \in {"UNVERIFIED", "INCONCLUSIVE", "PASS_WITH_UNVERIFIED"} -> 1
                  [] status \in {"SATISFIED", "PASS"} -> 2

Degraded(rs, i, t, o) ==
    [rs EXCEPT ![i].tests[t] = o, ![i].success = IF o = "skipped" THEN @ ELSE FALSE]

\* A test that is skipped instead of passing, or fails instead of either, never
\* makes a criterion or the outcome better.
WorseNeverHelps ==
    \A i \in DOMAIN results : \A t \in DOMAIN results[i].tests, o \in {"skipped", "failed", "error"} :
        LET worse == Degraded(results, i, t, o)
        IN  (results[i].tests[t] = "passed" \/ (results[i].tests[t] = "skipped" /\ o # "skipped"))
              => /\ \A c \in Criteria :
                       Rank(MapCriterion(c, worse)) <= Rank(MapCriterion(c, results))
                 /\ Rank(OutcomeOf(worse)) <= Rank(OutcomeOf(results))

\* map_criteria: "when structured reports captured executed test identities, a
\* criterion is SATISFIED only if a matching test actually executed and passed".
UncollectedProvesNothing ==
    (criteria # None /\ \E i \in DOMAIN results : DOMAIN results[i].tests # {}) =>
        \A c \in record.criteria : criteria[c] = "SATISFIED" => "passed" \in NodeOutcomes(c, results)
=============================================================================
