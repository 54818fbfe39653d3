---------------------------- MODULE CompletionGate ----------------------------
(***************************************************************************)
(* Whether a run may be called done: RunService.verify, assess_patch,       *)
(* acknowledge, raise_warning, compile_context, transition_phase and        *)
(* complete with _check_gate (runs/service.py), over the fingerprint        *)
(* (repository/worktree.py).  Agents and people edit the same worktree at   *)
(* any time, and verify reads it in three steps without a lock: it runs the *)
(* checks, then captures the fingerprint, then assesses the diff, against   *)
(* the scope of the record it read first; only what it stores is one        *)
(* transaction (RunStore).                                                  *)
(*                                                                          *)
(* A worktree is a member of Contents.  What the repository's own checks    *)
(* say of a content, and which findings the assessment of its diff raises,  *)
(* are constants.  Event sequence numbers are counted in file_modified      *)
(* events: the gate reads nothing but their order against the watermark.    *)
(***************************************************************************)
EXTENDS Naturals

CONSTANTS
    Contents,     \* contents of the worktree
    Initial,      \* the content at HEAD when the run starts
    OutcomesOf,   \* OutcomesOf[c]: the outcomes Verifier.verify may reach on c
    Scopes,       \* scopes a compiled context may give the run
    FlagsOf,      \* FlagsOf[s][c]: HIGH and CRITICAL findings on a diff giving c,
                  \* in the scope s, or in none
    Signatures,   \* kind:subject of such findings
    Verifiers,    \* calls of verify that may overlap
    Sights,       \* how much of a repository git may tell capture_fingerprint
    MaxEdits,     \* bound on edits and commits
    MaxReports,   \* bound on file_modified events
    None

\* git answers; it names HEAD and fails on the rest (a timeout); it names nothing
\* (no repository).
AllSights == {"all", "head", "none"}

Outcomes == {"PASS", "PASS_WITH_UNVERIFIED", "FAIL", "INCONCLUSIVE"}

ASSUME ContentsAssumption ==
    /\ Initial \in Contents
    /\ OutcomesOf \in [Contents -> SUBSET Outcomes]
    /\ FlagsOf \in [Scopes \cup {None} -> [Contents -> SUBSET Signatures]]
ASSUME SightsAssumption == Sights \subseteq AllSights
ASSUME BoundsAssumption == MaxEdits \in Nat /\ MaxReports \in Nat
ASSUME NoneAssumption ==
    /\ None \notin [head : Nat, content : Contents]
    /\ None \notin [watermark : Nat,
                    print : [head : Nat, content : Contents] \cup {None},
                    outcome : Outcomes, checked : Contents, sight : AllSights,
                    scope : Scopes \cup {None}, missed : BOOLEAN, disturbed : BOOLEAN]
    /\ None \notin Scopes

VARIABLES
    tree,      \* content of the worktree
    base,      \* content at HEAD
    head,      \* number of commits: the identity of HEAD
    edits,
    unreported,\* history: edits no file_modified event has followed yet
    scope,     \* of record.context, None before it is compiled
    phase,     \* "working" stands for every phase before review
    outcome,   \* telemetry.outcome
    snapshot,  \* telemetry.verification_snapshot and last_verification_outcome
    warnings,  \* signatures of recorded HIGH and CRITICAL warnings
    acked,     \* state.acknowledged
    reports,   \* sequence of the last file_modified event
    vpc,       \* where each call of verify is
    report     \* what each call of verify has gathered

repo == <<tree, base, head, edits, unreported>>
run == <<scope, phase, outcome, snapshot, warnings, acked, reports>>
vars == <<repo, run, vpc, report>>

Prints == [head : Nat, content : Contents]

\* capture_fingerprint: HEAD and the contents of the diff.  A diff that fails is
\* taken for an empty one, so the worktree looks like HEAD.
Capture(sight) ==
    CASE sight = "all"  -> [head |-> head, content |-> tree]
      [] sight = "head" -> [head |-> head, content |-> base]
      [] sight = "none" -> None

\* analyze_patch against HEAD: an unchanged worktree has no findings.
Assess(c, b, s) == IF c = b THEN {} ELSE FlagsOf[s][c]

\* It asks git four times, and takes a failure for an empty answer.
Assessments(s, sight) ==
    IF sight = "all" THEN {Assess(tree, base, s)} ELSE SUBSET Assess(tree, base, s)

NoReport == [outcome |-> "INCONCLUSIVE", print |-> None, checked |-> Initial,
             sight |-> "none", scope |-> None, missed |-> FALSE, disturbed |-> FALSE,
             flags |-> {}]

Init ==
    /\ tree = Initial
    /\ base = Initial
    /\ head = 0
    /\ edits = 0
    /\ unreported = 0
    /\ scope = None
    /\ phase = "working"
    /\ outcome = None
    /\ snapshot = None
    /\ warnings = {}
    /\ acked = {}
    /\ reports = 0
    /\ vpc = [v \in Verifiers |-> "idle"]
    /\ report = [v \in Verifiers |-> NoReport]

-----------------------------------------------------------------------------
\* The worktree moves under whoever is verifying (history: disturbed).
Disturb ==
    report' = [v \in Verifiers |->
                 IF vpc[v] = "idle" THEN report[v]
                 ELSE [report[v] EXCEPT !.disturbed = TRUE]]

Edit(c) ==
    /\ edits < MaxEdits
    /\ c # tree
    /\ tree' = c
    /\ edits' = edits + 1
    /\ unreported' = unreported + 1
    /\ Disturb
    /\ UNCHANGED <<base, head, run, vpc>>

GitCommit ==
    /\ edits < MaxEdits
    /\ base # tree
    /\ base' = tree
    /\ head' = head + 1
    /\ edits' = edits + 1
    /\ Disturb
    /\ UNCHANGED <<tree, unreported, run, vpc>>

\* record_file_modified: an agent or a hook reports an edit.  The governor may
\* find the path out of scope; it is silent once the run is done.
RecordFileModified(found) ==
    /\ reports < MaxReports
    /\ reports' = reports + 1
    /\ unreported' = IF unreported = 0 THEN 0 ELSE unreported - 1
    /\ warnings' = IF phase = "done" THEN warnings ELSE warnings \cup found
    /\ UNCHANGED <<tree, base, head, edits, scope, phase, outcome, snapshot, acked, vpc,
                   report>>

\* compile_context: the scope is now the new one, and the governor looks again.
CompileContext(s, found) ==
    /\ scope' = s
    /\ warnings' = IF phase = "done" THEN warnings ELSE warnings \cup found
    /\ UNCHANGED <<repo, phase, outcome, snapshot, acked, reports, vpc, report>>

-----------------------------------------------------------------------------
\* verify: get the record, then run the discovered checks on the worktree.
StartVerify(v) ==
    /\ vpc[v] = "idle"
    /\ vpc' = [vpc EXCEPT ![v] = "checks"]
    /\ report' = [report EXCEPT ![v].scope = scope]
    /\ UNCHANGED <<repo, run>>

RunChecks(v, result) ==
    /\ vpc[v] = "checks"
    /\ result \in OutcomesOf[tree]
    /\ report' = [report EXCEPT ![v].outcome = result, ![v].checked = tree]
    /\ vpc' = [vpc EXCEPT ![v] = "fingerprint"]
    /\ UNCHANGED <<repo, run>>

Fingerprint(v, sight) ==
    /\ vpc[v] = "fingerprint"
    /\ report' = [report EXCEPT ![v].print = Capture(sight), ![v].sight = sight]
    /\ vpc' = [vpc EXCEPT ![v] = "assess"]
    /\ UNCHANGED <<repo, run>>

\* Mutant: whether there is a scope is read from the record, the scope is not.
AssessDiffUnscoped(v, found) ==
    /\ vpc[v] = "assess"
    /\ found \subseteq Assess(tree, base, None)
    /\ report' = [report EXCEPT ![v].flags = found,
                               ![v].missed = found # Assess(tree, base, None)]
    /\ vpc' = [vpc EXCEPT ![v] = "store"]
    /\ UNCHANGED <<repo, run>>

\* _analyze_patch_safe with the scope of the record (history: missed).
AssessDiff(v, found) ==
    /\ vpc[v] = "assess"
    /\ \E sight \in Sights : found \in Assessments(report[v].scope, sight)
    /\ report' = [report EXCEPT ![v].flags = found,
                               ![v].missed = found # Assess(tree, base, report[v].scope)]
    /\ vpc' = [vpc EXCEPT ![v] = "store"]
    /\ UNCHANGED <<repo, run>>

\* A git that does not answer in time: analyze_patch lets it through, and nothing is
\* stored.
VerifyFails(v) ==
    /\ vpc[v] = "assess"
    /\ Sights # {"all"}
    /\ vpc' = [vpc EXCEPT ![v] = "idle"]
    /\ report' = [report EXCEPT ![v] = NoReport]
    /\ UNCHANGED <<repo, run>>

\* Mutant: the watermark is not taken.
StoreWithoutWatermark(v) ==
    /\ vpc[v] = "store"
    /\ snapshot' = [watermark |-> 0,
                    print |-> report[v].print,
                    outcome |-> report[v].outcome,
                    checked |-> report[v].checked,
                    sight |-> report[v].sight,
                    scope |-> report[v].scope,
                    missed |-> report[v].missed,
                    disturbed |-> report[v].disturbed]
    /\ warnings' = warnings \cup report[v].flags
    /\ vpc' = [vpc EXCEPT ![v] = "idle"]
    /\ report' = [report EXCEPT ![v] = NoReport]
    /\ UNCHANGED <<repo, scope, phase, outcome, acked, reports>>

\* The closure _mutate runs: the watermark is max_sequence now.
StoreEvidence(v) ==
    /\ vpc[v] = "store"
    /\ snapshot' = [watermark |-> reports,
                    print |-> report[v].print,
                    outcome |-> report[v].outcome,
                    checked |-> report[v].checked,
                    sight |-> report[v].sight,
                    scope |-> report[v].scope,
                    missed |-> report[v].missed,
                    disturbed |-> report[v].disturbed]
    /\ warnings' = warnings \cup report[v].flags
    /\ vpc' = [vpc EXCEPT ![v] = "idle"]
    /\ report' = [report EXCEPT ![v] = NoReport]
    /\ UNCHANGED <<repo, scope, phase, outcome, acked, reports>>

\* assess_patch: the same findings, on demand.
AssessPatch(found) ==
    /\ \E sight \in Sights : found \in Assessments(scope, sight)
    /\ ~(found \subseteq warnings)
    /\ warnings' = warnings \cup found
    /\ UNCHANGED <<repo, scope, phase, outcome, snapshot, acked, reports, vpc, report>>

\* acknowledge: any signature, whether or not it was found yet.
Acknowledge(f) ==
    /\ f \notin acked
    /\ acked' = acked \cup {f}
    /\ UNCHANGED <<repo, scope, phase, outcome, snapshot, warnings, reports, vpc, report>>

\* transition_phase: to the next phase only.
TransitionPhase ==
    /\ phase # "done"
    /\ phase' = IF phase = "working" THEN "review" ELSE "done"
    /\ UNCHANGED <<repo, scope, outcome, snapshot, warnings, acked, reports, vpc, report>>

-----------------------------------------------------------------------------
\* Mutants: only HEAD is compared; the watermark is off by one.
FreshHead(print) ==
    /\ reports <= snapshot.watermark
    /\ (print # None /\ snapshot.print # None) => print.head = snapshot.print.head

FreshByOne(print) ==
    /\ reports <= snapshot.watermark + 1
    /\ (print # None /\ snapshot.print # None) => print = snapshot.print

\* _check_stale: a print is compared only when both sides could be captured.
Fresh(print) ==
    /\ reports <= snapshot.watermark
    /\ (print # None /\ snapshot.print # None) => print = snapshot.print

Unresolved == warnings \ acked

\* Mutant: findings do not block.
GateIgnoringFindings(allowUnverified, print) ==
    /\ snapshot # None
    /\ Fresh(print)
    /\ snapshot.outcome \notin {"FAIL", "INCONCLUSIVE"}
    /\ snapshot.outcome = "PASS_WITH_UNVERIFIED" => allowUnverified

\* _check_gate.
GateOpen(allowUnverified, print) ==
    /\ snapshot # None
    /\ Fresh(print)
    /\ Unresolved = {}
    /\ snapshot.outcome \notin {"FAIL", "INCONCLUSIVE"}
    /\ snapshot.outcome = "PASS_WITH_UNVERIFIED" => allowUnverified

\* Mutant: the outcome of the verification is stored as that of the run.
CompleteAsVerified(allowUnverified, sight) ==
    /\ GateOpen(allowUnverified, Capture(sight))
    /\ outcome' = snapshot.outcome
    /\ phase' = "done"
    /\ UNCHANGED <<repo, scope, snapshot, warnings, acked, reports, vpc, report>>

\* complete through the gate.
Complete(allowUnverified, sight) ==
    /\ GateOpen(allowUnverified, Capture(sight))
    /\ outcome' = IF snapshot.outcome = "PASS" THEN "completed"
                  ELSE "completed_with_unverified"
    /\ phase' = "done"
    /\ UNCHANGED <<repo, scope, snapshot, warnings, acked, reports, vpc, report>>

\* complete(force=True).
CompleteForced ==
    /\ outcome' = "completion_forced"
    /\ phase' = "done"
    /\ UNCHANGED <<repo, scope, snapshot, warnings, acked, reports, vpc, report>>

VerifyStep(v) ==
    \/ StartVerify(v)
    \/ \E result \in Outcomes : RunChecks(v, result)
    \/ \E sight \in Sights : Fingerprint(v, sight)
    \/ \E found \in SUBSET Signatures : AssessDiff(v, found)
    \/ StoreEvidence(v)

Next ==
    \/ \E c \in Contents : Edit(c)
    \/ GitCommit
    \/ \E found \in SUBSET Signatures : RecordFileModified(found)
    \/ \E s \in Scopes, found \in SUBSET Signatures : CompileContext(s, found)
    \/ \E v \in Verifiers : VerifyStep(v) \/ VerifyFails(v)
    \/ \E found \in SUBSET Signatures : AssessPatch(found)
    \/ \E f \in Signatures : Acknowledge(f)
    \/ TransitionPhase
    \/ \E allow \in BOOLEAN, sight \in Sights : Complete(allow, sight)
    \/ CompleteForced

Spec == Init /\ [][Next]_vars

\* An agent that follows the remediation each rejection names: it verifies
\* again, acknowledges, and completes accepting unverified criteria.
FairSpec ==
    /\ Spec
    /\ \A v \in Verifiers : WF_vars(VerifyStep(v))
    /\ \A f \in Signatures : WF_vars(Acknowledge(f))
    /\ WF_vars(phase # "done" /\ \E sight \in Sights : Complete(TRUE, sight))

-----------------------------------------------------------------------------
Snapshots == [watermark : Nat, print : Prints \cup {None}, outcome : Outcomes,
              checked : Contents, sight : AllSights, scope : Scopes \cup {None},
              missed : BOOLEAN, disturbed : BOOLEAN]

TypeOK ==
    /\ tree \in Contents
    /\ base \in Contents
    /\ head \in Nat
    /\ edits \in Nat
    /\ unreported \in Nat
    /\ scope \in Scopes \cup {None}
    /\ phase \in {"working", "review", "done"}
    /\ outcome \in {None, "completed", "completed_with_unverified", "completion_forced"}
    /\ snapshot \in Snapshots \cup {None}
    /\ warnings \in SUBSET Signatures
    /\ acked \in SUBSET Signatures
    /\ reports \in Nat
    /\ vpc \in [Verifiers -> {"idle", "checks", "fingerprint", "assess", "store"}]
    /\ report \in [Verifiers -> [outcome : Outcomes, print : Prints \cup {None},
                                 checked : Contents, sight : AllSights,
                                 scope : Scopes \cup {None}, missed : BOOLEAN,
                                 disturbed : BOOLEAN,
                                 flags : SUBSET Signatures]]

\* The content the gate lets through is the content the evidence is about, an
\* outcome the checks can reach on it, and every finding on its diff, in the scope
\* verify knew of and unless git hid it from verify, has been acknowledged.
Covered ==
    /\ tree = snapshot.checked
    /\ snapshot.outcome \in OutcomesOf[tree] \ {"FAIL", "INCONCLUSIVE"}
    /\ ~snapshot.missed => Assess(tree, base, snapshot.scope) \subseteq acked

\* An accepted completion is covered by its evidence when nobody moved the
\* worktree during the verify that stored it and git answered both times,
\* whatever was edited, committed, reverted or verified concurrently since.
GateSound ==
    [][\A allow \in BOOLEAN :
         (Complete(allow, "all") /\ snapshot.sight = "all" /\ ~snapshot.disturbed)
            => Covered]_vars

\* Without git, or with one that fails, the gate still holds as far as it can: if
\* every edit has been reported, what completes is what an undisturbed verify
\* checked.
ReportedEditsCaught ==
    [][\A allow \in BOOLEAN, sight \in Sights :
         (Complete(allow, sight) /\ ~snapshot.disturbed /\ unreported = 0)
            => tree = snapshot.checked]_vars

\* README: the watermark rejects stale verify, edit, complete sequences.  The
\* same without asking that nobody edited during the verify.
EvidenceMatchesTree ==
    [][\A allow \in BOOLEAN :
         (Complete(allow, "all") /\ snapshot.sight = "all")
            => tree = snapshot.checked]_vars

\* The gate never wedges: once edits and reports stop, an agent that follows
\* the remediations gets its run completed, unless the checks fail on what is
\* in the worktree.
RemediationWorks ==
    \/ <>(phase = "done")
    \/ []<>(OutcomesOf[tree] \cap {"FAIL", "INCONCLUSIVE"} # {})
=============================================================================
