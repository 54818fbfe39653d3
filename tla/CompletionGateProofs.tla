-------------------------- MODULE CompletionGateProofs --------------------------
(***************************************************************************)
(* Proofs about CompletionGate: what the gate lets through is covered by    *)
(* the evidence it relies on, whatever the contents, the checks, the        *)
(* findings, the number of overlapping verifies and the number of edits.    *)
(***************************************************************************)
EXTENDS CompletionGate, TLAPS

-----------------------------------------------------------------------------
\* A verify nobody disturbed has gathered facts about the tree as it is now.
Gathered(v) ==
    /\ vpc[v] \in {"fingerprint", "assess", "store"} =>
           /\ report[v].checked = tree
           /\ report[v].outcome \in OutcomesOf[tree]
    /\ vpc[v] \in {"assess", "store"} /\ report[v].sight = "all" =>
           report[v].print = [head |-> head, content |-> tree]
    /\ vpc[v] = "store" /\ ~report[v].missed =>
           report[v].flags = Assess(tree, base, report[v].scope)

ReportsSound == \A v \in Verifiers : ~report[v].disturbed => Gathered(v)

\* Stored evidence stays what it was about: a content, an outcome of its checks
\* and, as long as HEAD is the same, the findings on its diff, unless git hid some.
Evidence ==
    /\ snapshot.outcome \in OutcomesOf[snapshot.checked]
    /\ snapshot.sight = "all" =>
           /\ snapshot.print # None
           /\ snapshot.print.content = snapshot.checked
           /\ snapshot.print.head <= head
           /\ snapshot.print.head = head /\ ~snapshot.missed =>
                  Assess(snapshot.checked, base, snapshot.scope) \subseteq warnings

SnapshotSound == snapshot # None /\ ~snapshot.disturbed => Evidence

\* A tree that differs from the one checked has an edit nobody reported, or one
\* whose report is past the watermark.
WatermarkSound ==
    snapshot # None =>
        /\ snapshot.watermark <= reports
        /\ (~snapshot.disturbed /\ tree # snapshot.checked /\ snapshot.watermark = reports)
               => unreported > 0

GInv == TypeOK /\ ReportsSound /\ SnapshotSound /\ WatermarkSound

-----------------------------------------------------------------------------
\* None is no fingerprint and no snapshot.
LEMMA NoneDistinct == None \notin Prints /\ None \notin Snapshots
BY NoneAssumption DEF Prints, Snapshots

\* What a capture can be.
LEMMA CaptureType ==
    ASSUME TypeOK, NEW sight \in Sights
    PROVE  Capture(sight) \in Prints \cup {None} /\ sight \in AllSights
BY SightsAssumption DEF TypeOK, Capture, Prints, AllSights

\* The findings on a diff are findings.
LEMMA AssessType ==
    ASSUME NEW c \in Contents, NEW b \in Contents, NEW s \in Scopes \cup {None}
    PROVE  Assess(c, b, s) \in SUBSET Signatures
BY ContentsAssumption DEF Assess

Reports == [outcome : Outcomes, print : Prints \cup {None}, checked : Contents,
            sight : AllSights, scope : Scopes \cup {None}, missed : BOOLEAN,
            disturbed : BOOLEAN, flags : SUBSET Signatures]

\* Moving the worktree leaves what was gathered, and marks it.
LEMMA Disturbed ==
    ASSUME TypeOK, Disturb
    PROVE  /\ report' \in [Verifiers -> Reports]
           /\ \A v \in Verifiers :
                  vpc[v] \in {"fingerprint", "assess", "store"} => report'[v].disturbed
BY DEF TypeOK, Disturb, Reports

\* Every step keeps every variable in its type.
LEMMA TypeStep ==
    ASSUME TypeOK, [Next]_vars
    PROVE  TypeOK'
<1> USE ContentsAssumption DEF TypeOK, repo, run
<1>0. NoReport \in Reports /\ report \in [Verifiers -> Reports]
  BY DEF NoReport, Reports, Outcomes, AllSights
<1>1. ASSUME NEW c \in Contents, Edit(c) PROVE TypeOK'
  BY <1>1, Disturbed DEF Edit, Reports
<1>2. ASSUME GitCommit PROVE TypeOK'
  BY <1>2, Disturbed DEF GitCommit, Reports
<1>3. ASSUME NEW found \in SUBSET Signatures, RecordFileModified(found) PROVE TypeOK'
  BY <1>3 DEF RecordFileModified
<1>4. ASSUME NEW v \in Verifiers, VerifyStep(v) PROVE TypeOK'
  <2>1. ASSUME StartVerify(v) PROVE TypeOK'
    BY <2>1 DEF StartVerify
  <2>2. ASSUME NEW result \in Outcomes, RunChecks(v, result) PROVE TypeOK'
    <3>1. report' \in [Verifiers -> Reports]
      BY <1>0, <2>2 DEF RunChecks, Reports
    <3>2. QED
      BY <2>2, <3>1 DEF RunChecks, Reports
  <2>3. ASSUME NEW sight \in Sights, Fingerprint(v, sight) PROVE TypeOK'
    <3>1. report' \in [Verifiers -> Reports]
      BY <1>0, <2>3, CaptureType DEF Fingerprint, Reports
    <3>2. QED
      BY <2>3, <3>1 DEF Fingerprint, Reports
  <2>4. ASSUME NEW found \in SUBSET Signatures, AssessDiff(v, found) PROVE TypeOK'
    <3>1. report' \in [Verifiers -> Reports]
      BY <1>0, <2>4 DEF AssessDiff, Reports
    <3>2. QED
      BY <2>4, <3>1 DEF AssessDiff, Reports
  <2>5. ASSUME StoreEvidence(v) PROVE TypeOK'
    <3>1. snapshot' \in Snapshots
      BY <2>5 DEF StoreEvidence, Snapshots
    <3>2. report' \in [Verifiers -> Reports]
      BY <1>0, <2>5 DEF StoreEvidence
    <3>3. warnings' \in SUBSET Signatures
      BY <2>5 DEF StoreEvidence
    <3>4. QED
      BY <2>5, <3>1, <3>2, <3>3 DEF StoreEvidence, Reports
  <2>6. QED
    BY <1>4, <2>1, <2>2, <2>3, <2>4, <2>5 DEF VerifyStep
<1>5. ASSUME NEW found \in SUBSET Signatures, AssessPatch(found) PROVE TypeOK'
  BY <1>5 DEF AssessPatch
<1>6. ASSUME NEW f \in Signatures, Acknowledge(f) PROVE TypeOK'
  BY <1>6 DEF Acknowledge
<1>7. ASSUME TransitionPhase PROVE TypeOK'
  BY <1>7 DEF TransitionPhase
<1>8. ASSUME NEW allow \in BOOLEAN, NEW sight \in Sights, Complete(allow, sight)
      PROVE  TypeOK'
  BY <1>8 DEF Complete
<1>9. ASSUME CompleteForced PROVE TypeOK'
  BY <1>9 DEF CompleteForced
<1>10. ASSUME NEW s \in Scopes, NEW found \in SUBSET Signatures, CompileContext(s, found)
       PROVE  TypeOK'
  BY <1>10 DEF CompileContext
<1>11. ASSUME NEW v \in Verifiers, VerifyFails(v) PROVE TypeOK'
  BY <1>0, <1>11 DEF VerifyFails, Reports
<1>12. CASE UNCHANGED vars
  BY <1>12 DEF vars
<1>13. QED
  BY <1>1, <1>2, <1>3, <1>4, <1>5, <1>6, <1>7, <1>8, <1>9, <1>10, <1>11, <1>12 DEF Next

-----------------------------------------------------------------------------
\* The worktree moves: what is under way is disturbed, and so is said to be.
LEMMA MoveStep ==
    ASSUME GInv, TypeOK', Disturb, vpc' = vpc, run' = run,
           \/ /\ tree' \in Contents /\ unreported' = unreported + 1
              /\ base' = base /\ head' = head
           \/ /\ tree' = tree /\ unreported' = unreported
              /\ head' = head + 1
    PROVE  GInv'
<1> USE DEF GInv, TypeOK, run
<1>1. ReportsSound'
  BY Disturbed DEF ReportsSound, Gathered
<1>2. SnapshotSound'
  <2> SUFFICES ASSUME snapshot # None, ~snapshot.disturbed PROVE Evidence'
    BY DEF SnapshotSound
  <2>1. Evidence
    BY DEF SnapshotSound
  <2>2. snapshot.sight = "all" => snapshot.print \in Prints
    BY <2>1 DEF Evidence, Snapshots
  <2>3. QED
    BY <2>1, <2>2 DEF Evidence, Prints
<1>3. WatermarkSound'
  BY DEF WatermarkSound
<1>4. QED
  BY <1>1, <1>2, <1>3

\* A step of a verify before it stores anything.
LEMMA VerifyingStep ==
    ASSUME GInv, TypeOK', NEW v \in Verifiers, UNCHANGED <<repo, run>>,
           \A u \in Verifiers : u # v => vpc'[u] = vpc[u] /\ report'[u] = report[u],
           ~report'[v].disturbed => Gathered(v)'
    PROVE  GInv'
<1> USE DEF GInv, repo, run
<1>1. ReportsSound'
  BY DEF ReportsSound, Gathered
<1>2. SnapshotSound' /\ WatermarkSound'
  BY DEF SnapshotSound, Evidence, WatermarkSound
<1>3. QED
  BY <1>1, <1>2

\* The evidence is stored, with a watermark that covers every report so far.
LEMMA StoreStep ==
    ASSUME GInv, TypeOK', NEW v \in Verifiers, StoreEvidence(v)
    PROVE  GInv'
<1> USE DEF GInv, TypeOK, repo
<1>1. /\ vpc[v] = "store" /\ report \in [Verifiers -> Reports]
      /\ UNCHANGED <<tree, base, head, unreported, reports>>
      /\ vpc'[v] = "idle"
      /\ \A u \in Verifiers : u # v => vpc'[u] = vpc[u] /\ report'[u] = report[u]
      /\ warnings' = warnings \cup report[v].flags
  BY DEF StoreEvidence, Reports
<1>2. snapshot' = [watermark |-> reports, print |-> report[v].print,
                   outcome |-> report[v].outcome, checked |-> report[v].checked,
                   sight |-> report[v].sight, scope |-> report[v].scope,
                   missed |-> report[v].missed, disturbed |-> report[v].disturbed]
  BY DEF StoreEvidence
<1>3. ~report[v].disturbed => Gathered(v)
  BY DEF ReportsSound
<1>4. ReportsSound'
  BY <1>1 DEF ReportsSound, Gathered
<1>5. SnapshotSound'
  <2> SUFFICES ASSUME ~report[v].disturbed PROVE Evidence'
    BY <1>2 DEF SnapshotSound
  <2>1. /\ report[v].checked = tree /\ report[v].outcome \in OutcomesOf[tree]
        /\ report[v].sight = "all" => report[v].print = [head |-> head, content |-> tree]
        /\ ~report[v].missed => report[v].flags = Assess(tree, base, report[v].scope)
    BY <1>1, <1>3 DEF Gathered
  <2>2. [head |-> head, content |-> tree] # None
    BY NoneDistinct DEF Prints
  <2>3. ~snapshot'.missed =>
            Assess(snapshot'.checked, base', snapshot'.scope) \subseteq warnings'
    BY <1>1, <1>2, <2>1 DEF Assess
  <2>4. QED
    BY <1>1, <1>2, <2>1, <2>2, <2>3 DEF Evidence
<1>6. WatermarkSound'
  BY <1>1, <1>2, <1>3 DEF WatermarkSound, Gathered
<1>7. QED
  BY <1>4, <1>5, <1>6

\* A step of the run itself: findings and reports may only be added.
LEMMA RunStep ==
    ASSUME GInv, TypeOK',
           UNCHANGED <<tree, base, head, snapshot, vpc, report>>,
           warnings \subseteq warnings',
           \/ reports' = reports /\ unreported' = unreported
           \/ reports' = reports + 1
    PROVE  GInv'
<1> USE DEF GInv, TypeOK
<1>1. ReportsSound'
  BY DEF ReportsSound, Gathered
<1>2. SnapshotSound'
  BY DEF SnapshotSound, Evidence
<1>3. WatermarkSound'
  BY DEF WatermarkSound, Snapshots
<1>4. QED
  BY <1>1, <1>2, <1>3

\* A run starts with nothing verified.
LEMMA InitInv == Init => GInv
<1> SUFFICES ASSUME Init PROVE GInv
  OBVIOUS
<1>1. TypeOK
  BY ContentsAssumption DEF Init, TypeOK, NoReport, Outcomes, AllSights
<1>2. ReportsSound /\ SnapshotSound /\ WatermarkSound
  BY DEF Init, ReportsSound, Gathered, SnapshotSound, WatermarkSound
<1>3. QED
  BY <1>1, <1>2 DEF GInv

\* Every step preserves the invariant.
LEMMA NextInv == ASSUME GInv, [Next]_vars PROVE GInv'
<1>0. TypeOK /\ TypeOK'
  BY TypeStep DEF GInv
<1>1. ASSUME NEW c \in Contents, Edit(c) PROVE GInv'
  BY <1>0, <1>1, MoveStep DEF Edit
<1>2. ASSUME GitCommit PROVE GInv'
  BY <1>0, <1>2, MoveStep DEF GitCommit
<1>3. ASSUME NEW found \in SUBSET Signatures, RecordFileModified(found) PROVE GInv'
  BY <1>0, <1>3, RunStep DEF RecordFileModified
<1>4. ASSUME NEW v \in Verifiers, VerifyStep(v) PROVE GInv'
  <2> USE DEF TypeOK
  <2>0. report \in [Verifiers -> Reports]
    BY <1>0 DEF Reports
  <2>1. ASSUME StartVerify(v) PROVE GInv'
    BY <1>0, <2>1, VerifyingStep DEF StartVerify, Gathered
  <2>2. ASSUME NEW result \in Outcomes, RunChecks(v, result) PROVE GInv'
    <3>1. Gathered(v)'
      BY <1>0, <2>0, <2>2 DEF RunChecks, Gathered, Reports, repo
    <3>2. QED
      BY <1>0, <2>2, <3>1, VerifyingStep DEF RunChecks
  <2>3. ASSUME NEW sight \in Sights, Fingerprint(v, sight) PROVE GInv'
    <3>1. ASSUME ~report'[v].disturbed PROVE Gathered(v)'
      <4>1. ~report[v].disturbed
        BY <2>0, <2>3, <3>1 DEF Fingerprint, Reports
      <4>2. Gathered(v) /\ vpc[v] = "fingerprint"
        BY <2>3, <4>1 DEF Fingerprint, GInv, ReportsSound
      <4>3. /\ report'[v].checked = report[v].checked
            /\ report'[v].outcome = report[v].outcome
            /\ report'[v].sight = sight
            /\ report'[v].print = Capture(sight)
            /\ vpc'[v] = "assess" /\ UNCHANGED <<tree, base, head>>
        BY <1>0, <2>0, <2>3 DEF Fingerprint, Reports, repo
      <4>4. Capture("all") = [head |-> head, content |-> tree]
        BY DEF Capture
      <4>5. QED
        BY <4>2, <4>3, <4>4 DEF Gathered
    <3>2. QED
      BY <1>0, <2>3, <3>1, VerifyingStep DEF Fingerprint
  <2>4. ASSUME NEW found \in SUBSET Signatures, AssessDiff(v, found) PROVE GInv'
    <3>1. ASSUME ~report'[v].disturbed PROVE Gathered(v)'
      <4>1. ~report[v].disturbed
        BY <2>0, <2>4, <3>1 DEF AssessDiff, Reports
      <4>2. Gathered(v) /\ vpc[v] = "assess"
        BY <2>4, <4>1 DEF AssessDiff, GInv, ReportsSound
      <4>3. /\ report'[v].checked = report[v].checked
            /\ report'[v].outcome = report[v].outcome
            /\ report'[v].sight = report[v].sight
            /\ report'[v].print = report[v].print
            /\ report'[v].scope = report[v].scope
            /\ report'[v].flags = found
            /\ report'[v].missed = (found # Assess(tree, base, report[v].scope))
            /\ vpc'[v] = "store" /\ UNCHANGED <<tree, base, head>>
        BY <1>0, <2>0, <2>4 DEF AssessDiff, Reports, repo
      <4>4. QED
        BY <4>2, <4>3 DEF Gathered, Assess
    <3>2. QED
      BY <1>0, <2>4, <3>1, VerifyingStep DEF AssessDiff
  <2>5. ASSUME StoreEvidence(v) PROVE GInv'
    BY <1>0, <2>5, StoreStep
  <2>6. QED
    BY <1>4, <2>1, <2>2, <2>3, <2>4, <2>5 DEF VerifyStep
<1>5. ASSUME NEW found \in SUBSET Signatures, AssessPatch(found) PROVE GInv'
  BY <1>0, <1>5, RunStep DEF AssessPatch, repo
<1>6. ASSUME NEW f \in Signatures, Acknowledge(f) PROVE GInv'
  BY <1>0, <1>6, RunStep DEF Acknowledge, repo
<1>7. ASSUME TransitionPhase PROVE GInv'
  BY <1>0, <1>7, RunStep DEF TransitionPhase, repo
<1>8. ASSUME NEW allow \in BOOLEAN, NEW sight \in Sights, Complete(allow, sight)
      PROVE  GInv'
  BY <1>0, <1>8, RunStep DEF Complete, repo
<1>9. ASSUME CompleteForced PROVE GInv'
  BY <1>0, <1>9, RunStep DEF CompleteForced, repo
<1>10. ASSUME NEW s \in Scopes, NEW found \in SUBSET Signatures, CompileContext(s, found)
       PROVE  GInv'
  BY <1>0, <1>10, RunStep DEF CompileContext, repo
<1>11. ASSUME NEW v \in Verifiers, VerifyFails(v) PROVE GInv'
  BY <1>0, <1>11, VerifyingStep DEF VerifyFails, Gathered, TypeOK
<1>12. CASE UNCHANGED vars
  BY <1>0, <1>12, RunStep DEF vars, repo, run
<1>13. QED
  BY <1>1, <1>2, <1>3, <1>4, <1>5, <1>6, <1>7, <1>8, <1>9, <1>10, <1>11, <1>12 DEF Next

\* What is gathered, stored and counted agrees with the worktree as GInv says.
THEOREM Inductive == Spec => []GInv
<1>1. GInv /\ [Next]_vars => GInv'
  BY NextInv
<1>2. QED
  BY InitInv, <1>1, PTL DEF Spec

\* Every variable keeps its type.
THEOREM TypeCorrect == Spec => []TypeOK
<1>1. GInv => TypeOK
  BY DEF GInv
<1>2. QED
  BY <1>1, Inductive, PTL

\* An accepted completion is covered by evidence about the very content of the
\* worktree: its checks reached an outcome that allows it and each of its
\* findings, in the scope the run had, was acknowledged.
THEOREM GateIsSound == Spec => GateSound
<1>1. ASSUME GInv, NEW allow \in BOOLEAN, Complete(allow, "all"),
             snapshot.sight = "all", ~snapshot.disturbed
      PROVE  Covered
  <2>1. /\ snapshot # None /\ Fresh([head |-> head, content |-> tree])
        /\ Unresolved = {} /\ snapshot.outcome \notin {"FAIL", "INCONCLUSIVE"}
    BY <1>1 DEF Complete, GateOpen, Capture
  <2>2. Evidence
    BY <1>1, <2>1 DEF GInv, SnapshotSound
  <2>3. [head |-> head, content |-> tree] # None
    BY <1>1, NoneDistinct DEF GInv, TypeOK, Prints
  <2>4. snapshot.print = [head |-> head, content |-> tree]
    BY <1>1, <2>1, <2>2, <2>3 DEF Fresh, Evidence
  <2>5. /\ tree = snapshot.checked
        /\ ~snapshot.missed => Assess(tree, base, snapshot.scope) \subseteq warnings
    BY <1>1, <2>2, <2>4 DEF Evidence
  <2>6. warnings \subseteq acked
    BY <2>1 DEF Unresolved
  <2>7. QED
    BY <2>1, <2>2, <2>5, <2>6 DEF Covered, Evidence
<1>2. GInv => [\A allow \in BOOLEAN :
                 (Complete(allow, "all") /\ snapshot.sight = "all" /\ ~snapshot.disturbed)
                    => Covered]_vars
  BY <1>1
<1>3. QED
  BY <1>2, Inductive, PTL DEF GateSound

\* When every edit has been reported, what completes is what was checked, even
\* where git tells nothing.
THEOREM ReportsAreEnough == Spec => ReportedEditsCaught
<1>1. ASSUME GInv, NEW allow \in BOOLEAN, NEW sight \in Sights, Complete(allow, sight),
             ~snapshot.disturbed, unreported = 0
      PROVE  tree = snapshot.checked
  <2>1. snapshot # None /\ reports <= snapshot.watermark
    BY <1>1 DEF Complete, GateOpen, Fresh
  <2>2. snapshot.watermark = reports
    BY <1>1, <2>1 DEF GInv, TypeOK, WatermarkSound, Snapshots
  <2>3. QED
    BY <1>1, <2>1, <2>2 DEF GInv, WatermarkSound
<1>2. GInv => [\A allow \in BOOLEAN, sight \in Sights :
                 (Complete(allow, sight) /\ ~snapshot.disturbed /\ unreported = 0)
                    => tree = snapshot.checked]_vars
  BY <1>1
<1>3. QED
  BY <1>2, Inductive, PTL DEF ReportedEditsCaught
=============================================================================
