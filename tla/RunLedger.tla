------------------------------ MODULE RunLedger ------------------------------
(***************************************************************************)
(* What the operations of RunService write: each changes the stored record  *)
(* of a run and appends events, in one transaction (RunStore shows that the *)
(* transactions of one run are serial).  events/replay.py computes a record *)
(* from the events alone, and check-integrity compares the two; the event   *)
(* log is the source of truth.  The governor reads the same stream.         *)
(*                                                                          *)
(* Texts (messages, evidence, diffs, provenance) are left out: the events   *)
(* copy them, and what replay does with them is what it does with the rest. *)
(* Timestamps are the number of the transaction.  Whether verify is passed, *)
(* a patch still applies or the worktree moved is nondeterministic here.    *)
(***************************************************************************)
EXTENDS Governor, Integers, FiniteSets

CONSTANTS
    Checks,          \* the commands verify runs, in order
    Success,         \* results of commands: TRUE, FALSE, or None (no verdict)
    Criteria,        \* acceptance criteria
    Statuses,        \* of criteria
    Decisions,       \* texts of decisions and of failed approaches
    PatchIds,
    PatchScope,      \* related files and tests of the context
    Usage,           \* token counts a host reports
    MaxTransactions  \* bound on the length of a behaviour

ASSUME ChecksAssumption == Checks \in Seq(Commands)
ASSUME ResultsAssumption ==
    /\ Success \subseteq {TRUE, FALSE, None}
    /\ Statuses \subseteq {"SATISFIED", "VIOLATED", "UNVERIFIED"}
    /\ IsFiniteSet(Criteria)
    /\ Usage \subseteq Int
ASSUME BoundAssumption == MaxTransactions \in Nat
\* The missing value is no path, command or time, and no kind of decision.
ASSUME NoneAssumption ==
    None \notin Paths \cup Commands \cup Nat
                    \cup {"failed_approach", "acknowledge", "patch_assessment"}

VARIABLES
    record,  \* RunRecord: state and telemetry
    stream,  \* its events
    clock    \* transactions so far: the timestamp of the next one

vars == <<record, stream, clock>>

Phases == <<"understand", "investigate", "plan", "implement", "verify", "review", "done">>

\* What start stores, and what replay makes of task_created.
Created ==
    [phase |-> "understand", reads |-> << >>, modified |-> << >>, decisions |-> << >>,
     failed |-> << >>, acked |-> {}, commands |-> << >>, warnings |-> << >>,
     compilations |-> 0, verification |-> << >>, patches |-> << >>, tokens |-> 0,
     verified |-> FALSE]

Init ==
    /\ record = Created
    /\ stream = <<[type |-> "task_created", at |-> 0]>>
    /\ clock = 1

-----------------------------------------------------------------------------
\* Records and the events that carry them.
Warning(f) == [kind |-> f.kind, subject |-> f.subject, severity |-> f.severity, at |-> clock]

\* Mutant: the event does not carry the subject.
RaisedBare(f) == [type |-> "warning_raised", kind |-> f.kind, subject |-> None,
                  severity |-> f.severity, at |-> clock]

Raised(f) == [type |-> "warning_raised", kind |-> f.kind, subject |-> f.subject,
              severity |-> f.severity, at |-> clock]
Event(type) == [type |-> type, at |-> clock]
OnPath(type, p) == [type |-> type, path |-> p, at |-> clock]
Decided(kind, text) == [type |-> "decision_recorded", kind |-> kind, text |-> text, at |-> clock]
PhaseChanged(to) == [type |-> "phase_changed", to |-> to, at |-> clock]
Finished(c, success) ==
    [type |-> "command_finished", command |-> c, success |-> success, at |-> clock]
Result(k, status) ==
    [type |-> "verification_result", criterion |-> k, status |-> status, at |-> clock]

AddNew(seq, x) == IF x \in ToSet(seq) THEN seq ELSE Append(seq, x)

\* Mutant: only the new findings are compared with each other.
UnwarnedAnew(rec, findings) == Along(AddNew, << >>, findings)

\* The findings no warning is about yet, each once: _govern, _apply_patch_warnings.
Unwarned(rec, findings) ==
    LET warned == {Signature(w) : w \in {v \in ToSet(rec.warnings) : v.subject # None}}
        Fresh(acc, f) == IF Signature(f) \in warned THEN acc ELSE AddNew(acc, f)
    IN  Along(Fresh, << >>, findings)

WithWarnings(rec, findings) ==
    [rec EXCEPT !.warnings = @ \o [i \in DOMAIN findings |-> Warning(findings[i])]]
Raising(findings) == [i \in DOMAIN findings |-> Raised(findings[i])]

\* Mutant: the governor sees the stored events only.
GovernedLate(rec, past, new) ==
    LET found == Unwarned(rec, Inspect(rec.phase, rec.compilations > 0, past))
        all == new \o Raising(found)
    IN  [record |-> WithWarnings(rec, found), stream |-> past \o all, events |-> all]

\* What is stored once the governor has seen rec and the events: record, stream,
\* and the list of events as _govern leaves it.
Governed(rec, past, new) ==
    LET found == Unwarned(rec, Inspect(rec.phase, rec.compilations > 0, past \o new))
        all == new \o Raising(found)
    IN  [record |-> WithWarnings(rec, found), stream |-> past \o all, events |-> all]

\* _mutate: govern, then save row and events.
Save(rec, new) ==
    /\ clock <= MaxTransactions
    /\ clock' = clock + 1
    /\ LET saved == Governed(rec, stream, new)
       IN  record' = saved.record /\ stream' = saved.stream

-----------------------------------------------------------------------------
RecordFileRead(p) ==
    Save([record EXCEPT !.reads = Append(@, p)], <<OnPath("file_read", p)>>)

RecordFileModified(p) ==
    Save([record EXCEPT !.modified = AddNew(@, p)], <<OnPath("file_modified", p)>>)

RecordDecision(d) ==
    Save([record EXCEPT !.decisions = Append(@, d)], <<Decided(None, d)>>)

RecordFailedApproach(d) ==
    Save([record EXCEPT !.failed = Append(@, d)], <<Decided("failed_approach", d)>>)

Acknowledge(kind, p) ==
    Save([record EXCEPT !.acked = @ \cup {<<kind, p>>}],
         <<Decided("acknowledge", <<kind, p>>)>>)

RecordUsage(n) ==
    Save([record EXCEPT !.tokens = @ + n],
         <<[type |-> "usage_recorded", tokens |-> n, at |-> clock]>>)

\* raise_warning: the only caller is start, whose context did not compile.
RaiseWarning ==
    LET f == Finding("context_compile_failed", None)
    IN  Save(WithWarnings(record, <<f>>), Raising(<<f>>))

\* Mutant: a refresh goes back to investigating.
CompileContextAnew ==
    Save([record EXCEPT !.compilations = @ + 1, !.phase = "investigate"],
         <<Event("context_compiled"), PhaseChanged("investigate")>>)

CompileContext ==
    LET early == record.phase = "understand"
    IN  Save([record EXCEPT !.compilations = @ + 1,
                            !.phase = IF early THEN "investigate" ELSE @],
             <<Event("context_compiled")>>
                 \o IF early THEN <<PhaseChanged("investigate")>> ELSE << >>)

TransitionPhase ==
    \E i \in 1 .. Len(Phases) - 1 :
        /\ record.phase = Phases[i]
        /\ Save([record EXCEPT !.phase = Phases[i + 1]], <<PhaseChanged(Phases[i + 1])>>)

-----------------------------------------------------------------------------
Command(c, started, finished, success) ==
    [command |-> c, started |-> started, finished |-> finished, success |-> success]

CommandStarted(c) ==
    Save([record EXCEPT !.commands = Append(@, Command(c, clock, None, None))],
         <<[type |-> "command_started", command |-> c, at |-> clock]>>)

\* The earliest open instance of c is taken out and appended, finished; with
\* none, a new one.  command_finished and replay's _apply_command_finish.
Finish(commands, c, success, at) ==
    LET Open(item) == item.command = c /\ item.finished = None
        i == SelectInSeq(commands, Open)
    IN  IF i # 0
        THEN Append(RemoveAt(commands, i),
                    [commands[i] EXCEPT !.finished = at, !.success = success])
        ELSE Append(commands, Command(c, at, at, success))

CommandFinished(c, success) ==
    Save([record EXCEPT !.commands = Finish(@, c, success, clock)], <<Finished(c, success)>>)

-----------------------------------------------------------------------------
VerificationStarted(k) ==
    Save(record, <<[type |-> "verification_started", criterion |-> k, at |-> clock]>>)

Verdict(k, status) == [criterion |-> k, status |-> status, at |-> clock]

RecordVerification(k, status) ==
    Save([record EXCEPT !.verification = Append(@, Verdict(k, status))], <<Result(k, status)>>)

\* _patch_warning_specs: what an assessment of the diff may find.  Nothing is
\* out of scope before a context says what the scope is.
Assessments ==
    {<< >>} \cup {<<Finding("test_tampering", p)>> : p \in Paths}
            \cup {<<Finding("scope_expansion", p)>> :
                     p \in IF record.compilations > 0 THEN Paths \ PatchScope ELSE {}}

AssessPatch(specs) ==
    LET found == Unwarned(record, specs)
    IN  /\ specs \in Assessments
        /\ Save(WithWarnings(record, found),
                Raising(found) \o <<Decided("patch_assessment", None)>>)

\* verify: executed checks are appended as finished commands, and go out as a
\* start and a finish each.
Verify(results, statuses, specs) ==
    LET found == Unwarned(record, specs)
        done == [i \in DOMAIN Checks |-> Command(Checks[i], clock, clock, results[i])]
        ran == [i \in DOMAIN Checks |->
                  <<[type |-> "command_started", command |-> Checks[i], at |-> clock],
                    Finished(Checks[i], results[i])>>]
        order == SetToSeq(Criteria)
    IN  /\ specs \in Assessments
        /\ Save(WithWarnings(
                  [record EXCEPT
                     !.verified = TRUE,
                     !.commands = @ \o done,
                     !.verification = @ \o [i \in DOMAIN order |-> Verdict(order[i], statuses[order[i]])]],
                  found),
                <<[type |-> "verification_started", criterion |-> "*", at |-> clock]>>
                  \o Along(LAMBDA events, pair : events \o pair, << >>, ran)
                  \o [i \in DOMAIN order |-> Result(order[i], statuses[order[i]])]
                  \o Raising(found)
                  \o <<Decided("patch_assessment", None)>>)

-----------------------------------------------------------------------------
\* propose_patch.  The id is drawn from the patches of an earlier read, so two
\* proposals that race may share one.
ProposePatch(id, p) ==
    LET patch == [id |-> id, path |-> p, status |-> "proposed", at |-> clock, applied |-> None]
    IN  Save([record EXCEPT !.patches = Append(@, patch)],
             <<[type |-> "patch_proposed", patch |-> patch, at |-> clock]>>)

\* The first patch with this id moves to the end, applied.
MarkApplied(patches, id, at) ==
    LET Named(patch) == patch.id = id
        i == SelectInSeq(patches, Named)
    IN  IF i = 0 THEN patches
        ELSE Append(RemoveAt(patches, i), [patches[i] EXCEPT !.status = "applied", !.applied = at])

Target(id) == SelectInSeq(record.patches, LAMBDA patch : patch.id = id)
OutOfScope(p) == record.compilations > 0 /\ p \notin PatchScope

\* apply_patch on a path out of scope that nobody acknowledged: the refusal is
\* stored.
RefusePatch(id) ==
    /\ Target(id) # 0
    /\ record.patches[Target(id)].status = "proposed"
    /\ LET p == record.patches[Target(id)].path
           found == Unwarned(record, <<Finding("scope_expansion", p)>>)
       IN  /\ OutOfScope(p)
           /\ <<"scope_expansion", p>> \notin record.acked
           /\ Save(WithWarnings(record, found), Raising(found))

\* apply_patch that edits the file.  Out of an acknowledged scope, what the
\* governor says first is saved, and saved again with the edit.
ApplyPatch(id) ==
    /\ clock <= MaxTransactions
    /\ Target(id) # 0
    /\ record.patches[Target(id)].status = "proposed"
    /\ LET p == record.patches[Target(id)].path
           first == IF OutOfScope(p) THEN Governed(record, stream, << >>)
                    ELSE [record |-> record, stream |-> stream, events |-> << >>]
           applied == [first.record EXCEPT !.patches = MarkApplied(@, id, clock),
                                           !.modified = AddNew(@, p)]
           saved == Governed(applied, first.stream,
                        first.events \o <<OnPath("file_modified", p),
                            [type |-> "patch_applied", id |-> id, at |-> clock]>>)
       IN  /\ OutOfScope(p) => <<"scope_expansion", p>> \in record.acked
           /\ record' = saved.record
           /\ stream' = saved.stream
    /\ clock' = clock + 1

-----------------------------------------------------------------------------
Ended == (IF record.phase = "done" THEN << >> ELSE <<PhaseChanged("done")>>)
             \o <<Event("run_completed")>>

Blocking == {w \in ToSet(record.warnings) :
                w.severity \in {"HIGH", "CRITICAL"} /\ Signature(w) \notin record.acked}

\* Mutant: the outcome is stored as the phase.
CompleteAsOutcome ==
    /\ record.verified
    /\ Blocking = {}
    /\ Save([record EXCEPT !.phase = "completed"], Ended)

\* complete through the gate (the rest of it: CompletionGate).
Complete ==
    /\ record.verified
    /\ Blocking = {}
    /\ Save([record EXCEPT !.phase = "done"], Ended)

\* complete(force=True): the warning is about the run, its event about nothing,
\* and both have the severity a warning has by default.
ForcedWarning(subject) ==
    [kind |-> "completion_forced", subject |-> subject, severity |-> "WARNING"]

CompleteForced ==
    Save([WithWarnings(record, <<ForcedWarning("run")>>) EXCEPT !.phase = "done"],
         Raising(<<ForcedWarning(None)>>) \o Ended)

Next ==
    \/ \E p \in Paths : RecordFileRead(p) \/ RecordFileModified(p)
    \/ \E d \in Decisions : RecordDecision(d) \/ RecordFailedApproach(d)
    \/ \E kind \in {"scope_expansion", "test_tampering"}, p \in Paths : Acknowledge(kind, p)
    \/ \E n \in Usage : RecordUsage(n)
    \/ RaiseWarning
    \/ CompileContext
    \/ TransitionPhase
    \/ \E c \in Commands : CommandStarted(c)
    \/ \E c \in Commands, success \in Success : CommandFinished(c, success)
    \/ \E k \in Criteria : VerificationStarted(k)
    \/ \E k \in Criteria, status \in Statuses : RecordVerification(k, status)
    \/ \E specs \in Assessments : AssessPatch(specs)
    \/ \E results \in [DOMAIN Checks -> Success], statuses \in [Criteria -> Statuses],
          specs \in Assessments : Verify(results, statuses, specs)
    \/ \E id \in PatchIds, p \in Paths : ProposePatch(id, p)
    \/ \E id \in PatchIds : RefusePatch(id) \/ ApplyPatch(id)
    \/ Complete
    \/ CompleteForced

Spec == Init /\ [][Next]_vars

-----------------------------------------------------------------------------
\* reduce_event
ReduceDecision(rec, e) ==
    CASE e.kind = "failed_approach"  -> [rec EXCEPT !.failed = Append(@, e.text)]
      [] e.kind = "acknowledge"      -> [rec EXCEPT !.acked = @ \cup {e.text}]
      [] e.kind = "patch_assessment" -> rec
      [] OTHER                       -> [rec EXCEPT !.decisions = Append(@, e.text)]

Reduce(rec, e) ==
    CASE e.type = "task_created" -> Created
      [] e.type = "file_read" -> [rec EXCEPT !.reads = Append(@, e.path)]
      [] e.type = "file_modified" -> [rec EXCEPT !.modified = AddNew(@, e.path)]
      [] e.type = "decision_recorded" -> ReduceDecision(rec, e)
      [] e.type = "warning_raised" ->
            [rec EXCEPT !.warnings = Append(@, [kind |-> e.kind, subject |-> e.subject,
                                                severity |-> e.severity, at |-> e.at])]
      [] e.type = "command_started" ->
            [rec EXCEPT !.commands = Append(@, Command(e.command, e.at, None, None))]
      [] e.type = "command_finished" ->
            [rec EXCEPT !.commands = Finish(@, e.command, e.success, e.at)]
      [] e.type = "context_compiled" -> [rec EXCEPT !.compilations = @ + 1]
      [] e.type = "phase_changed" -> [rec EXCEPT !.phase = e.to]
      [] e.type = "verification_started" -> rec
      [] e.type = "usage_recorded" -> [rec EXCEPT !.tokens = @ + e.tokens]
      [] e.type = "verification_result" ->
            [rec EXCEPT !.verification =
                Append(@, [criterion |-> e.criterion, status |-> e.status, at |-> e.at])]
      [] e.type = "patch_proposed" -> [rec EXCEPT !.patches = Append(@, e.patch)]
      [] e.type = "patch_applied" -> [rec EXCEPT !.patches = MarkApplied(@, e.id, e.at)]
      [] e.type = "run_completed" -> [rec EXCEPT !.phase = "done"]

Replay == Along(Reduce, Created, stream)

\* compare_with_snapshot, and the token counts, which it does not compare.
Compared == {"phase", "decisions", "failed", "modified", "acked", "reads", "commands",
             "warnings", "compilations", "verification", "patches"}
Mismatches ==
    LET replayed == Replay
    IN  {f \in Compared \cup {"tokens"} : replayed[f] # record[f]}

-----------------------------------------------------------------------------
EventTypes ==
    {"task_created", "context_compiled", "file_read", "file_modified", "command_started",
     "command_finished", "decision_recorded", "phase_changed", "warning_raised",
     "verification_started", "verification_result", "usage_recorded", "patch_proposed",
     "patch_applied", "run_completed"}

TypeOK ==
    /\ record.phase \in ToSet(Phases)
    /\ ToSet(record.reads) \cup ToSet(record.modified) \subseteq Paths
    /\ record.acked \subseteq {"scope_expansion", "test_tampering"} \X Paths
    /\ \A item \in ToSet(record.commands) :
           item.command \in Commands /\ item.success \in Success \cup {None}
    /\ \A w \in ToSet(record.warnings) : w.severity \in {"WARNING", "HIGH", "CRITICAL"}
    /\ \A patch \in ToSet(record.patches) : patch.id \in PatchIds
    /\ \A e \in ToSet(stream) : e.type \in EventTypes
    /\ clock \in 1 .. MaxTransactions + 1

Forced == \E w \in ToSet(record.warnings) : w.kind = "completion_forced"

\* verify ran a command that somebody had reported started and not finished.
RanWhileOpen ==
    \E item \in ToSet(record.commands) :
        /\ item.command \in ToSet(Checks)
        /\ \/ item.finished = None
           \/ item.started < item.finished
        /\ \E e \in ToSet(stream) :
               /\ e.type = "verification_started"
               /\ e.criterion = "*"
               /\ item.started <= e.at
               /\ item.finished # None => e.at < item.finished

\* The event log is the source of truth: whatever was done in whatever order,
\* replaying the events of a run yields the stored record, field by field, but
\* for two cases this development found (see the next two properties).
IntegrityHolds ==
    Mismatches \subseteq (IF Forced THEN {"warnings"} ELSE {})
                         \cup (IF RanWhileOpen THEN {"commands"} ELSE {})

\* Warning events carry subjects so that replay matches the projection.
WarningsReplay == "warnings" \notin Mismatches

\* e deals with what a warning is about: a change ends repeated reads of its path
\* and every failure loop, a success the loop of its command, and the rest is for
\* the user to acknowledge.
Addresses(e, kind, x) ==
    \/ kind = "repeated_read" /\ Modifies(e, x)
    \/ /\ kind = "failure_loop"
       /\ e.type = "file_modified" \/ (Ends(e, x) /\ e.success = TRUE)
    \/ /\ kind \in {"scope_expansion", "test_tampering"}
       /\ e.type = "decision_recorded" /\ e.kind = "acknowledge" /\ e.text = <<kind, x>>

\* Between two warnings somebody dealt with what the first is about.
Addressed(w, v) ==
    \E e \in ToSet(stream) : w.at < e.at /\ e.at <= v.at /\ Addresses(e, w.kind, w.subject)

\* WarningRecord: "one intervention per kind+subject unless the situation recurs
\* after being addressed".  The checks of the governor, of verify, assess_patch and
\* apply_patch all look at the same warnings, so no two of them, and no later
\* transaction, warn of the same thing twice while nothing was done about it.
OneWarningEach ==
    \A i, j \in DOMAIN record.warnings :
        LET w == record.warnings[i]
            v == record.warnings[j]
        IN  i < j /\ w.subject \notin {None, "run"} /\ Signature(w) = Signature(v)
                => Addressed(w, v)

Warned(kind, x) == <<kind, x>> \in {Signature(w) : w \in ToSet(record.warnings)}

\* No run that is still open has a situation the governor stands for and no
\* warning of it, though the events of one transaction may hold several, and
\* the scope may become known after the fact.  A scope that names nothing is none.
NothingEscapes ==
    record.phase # "done" =>
        /\ \A p \in Paths : ReadInVain(stream, p) => Warned("repeated_read", p)
        /\ \A c \in Commands : FailingInVain(stream, c) => Warned("failure_loop", c)
        /\ record.compilations > 0 /\ Scope # {} =>
               \A p \in Paths : Strays(stream, p) => Warned("scope_expansion", p)

\* Nobody is warned without cause, nor for what happened across a change.
NoFalseAlarm ==
    /\ \A p \in Paths : Warned("repeated_read", p) => ReadInVain(stream, p)
    /\ \A c \in Commands : Warned("failure_loop", c) => FailingInVain(stream, c)

\* A run only moves forward through its phases.
PhaseForward ==
    [][\A i, j \in DOMAIN Phases :
          record.phase = Phases[i] /\ record'.phase = Phases[j] => i <= j]_vars
=============================================================================
