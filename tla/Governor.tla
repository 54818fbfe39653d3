------------------------------- MODULE Governor -------------------------------
(***************************************************************************)
(* The deterministic checks of governor/: functions of the event stream of *)
(* a run, evaluated anew on the whole stream at every transaction.  An      *)
(* event is a record with a type, and the fields of its payload that the    *)
(* checks read: path, command and success.                                  *)
(***************************************************************************)
EXTENDS Naturals, SequencesExt

CONSTANTS
    Paths,
    Commands,
    Scope,            \* paths that are related files of the compiled context,
                      \* lie below one of their directories or name a concept
    ReadThreshold,    \* Governor.read_threshold
    FailureThreshold, \* Governor.failure_threshold
    None

ASSUME ThresholdsAssumption == {ReadThreshold, FailureThreshold} \subseteq Nat \ {0}

\* SequencesExt!FoldLeft, one step per element: the streams are long for TLC.
Along(op(_, _), base, seq) ==
    LET upTo[i \in 0..Len(seq)] == IF i = 0 THEN base ELSE op(upTo[i - 1], seq[i])
    IN  upTo[Len(seq)]

\* finding.py
KindSeverity(kind) ==
    IF kind \in {"test_tampering", "completion_forced"} THEN "CRITICAL"
    ELSE IF kind \in {"scope_expansion", "dependency_change"} THEN "HIGH"
    ELSE "WARNING"

Finding(kind, subject) ==
    [kind |-> kind, subject |-> subject, severity |-> KindSeverity(kind)]

Signature(f) == <<f.kind, f.subject>>

\* One more of x: a finding when the count reaches its threshold.
CountUp(acc, x, threshold, kind) ==
    [counts |-> [acc.counts EXCEPT ![x] = @ + 1],
     found  |-> IF acc.counts[x] + 1 = threshold
                THEN Append(acc.found, Finding(kind, x)) ELSE acc.found]

\* Mutant: a modification resets nothing.
CountReadForever(acc, e) ==
    IF e.type = "file_read" THEN CountUp(acc, e.path, ReadThreshold, "repeated_read")
    ELSE acc

\* check_repeated_reads
CountRead(acc, e) ==
    IF e.type = "file_modified" THEN [acc EXCEPT !.counts[e.path] = 0]
    ELSE IF e.type = "file_read" THEN CountUp(acc, e.path, ReadThreshold, "repeated_read")
    ELSE acc

RepeatedReads(stream) ==
    Along(CountRead, [counts |-> [p \in Paths |-> 0], found |-> << >>], stream).found

\* check_failure_loops: any modification ends every streak, a success that of
\* its command; a command that was not run to a verdict does neither.
CountFailure(acc, e) ==
    IF e.type = "file_modified" THEN [acc EXCEPT !.counts = [c \in Commands |-> 0]]
    ELSE IF e.type = "command_finished" /\ e.success = TRUE
      THEN [acc EXCEPT !.counts[e.command] = 0]
    ELSE IF e.type = "command_finished" /\ e.success = FALSE
      THEN CountUp(acc, e.command, FailureThreshold, "failure_loop")
    ELSE acc

FailureLoops(stream) ==
    Along(CountFailure, [counts |-> [c \in Commands |-> 0], found |-> << >>], stream).found

\* check_scope_expansion: once per path, and only when there is a context.
Stray(found, e) ==
    IF e.type = "file_modified" /\ e.path \notin Scope
       /\ Finding("scope_expansion", e.path) \notin ToSet(found)
      THEN Append(found, Finding("scope_expansion", e.path))
    ELSE found

ScopeExpansion(compiled, stream) ==
    IF compiled /\ Scope # {} THEN Along(Stray, << >>, stream) ELSE << >>

\* Governor.inspect
Inspect(phase, compiled, stream) ==
    IF phase = "done" THEN << >>
    ELSE RepeatedReads(stream) \o FailureLoops(stream) \o ScopeExpansion(compiled, stream)

-----------------------------------------------------------------------------
\* The situations the checks look for, said without counting along the stream.
Reads(e, p) == e.type = "file_read" /\ e.path = p
Modifies(e, p) == e.type = "file_modified" /\ e.path = p
Ends(e, c) == e.type = "command_finished" /\ e.command = c

\* p was read ReadThreshold times with no change of p in between.
ReadInVain(stream, p) ==
    LET reads == {k \in DOMAIN stream : Reads(stream[k], p)}
    IN  \E i, j \in reads :
            /\ Cardinality(reads \cap (i .. j)) >= ReadThreshold
            /\ \A k \in i .. j : ~Modifies(stream[k], p)

\* c failed FailureThreshold times with no change and no success in between.
FailingInVain(stream, c) ==
    LET failures == {k \in DOMAIN stream : Ends(stream[k], c) /\ stream[k].success = FALSE}
    IN  \E i, j \in failures :
            /\ Cardinality(failures \cap (i .. j)) >= FailureThreshold
            /\ \A k \in i .. j :
                   /\ stream[k].type # "file_modified"
                   /\ Ends(stream[k], c) => stream[k].success # TRUE

\* p was changed and lies outside the scope.
Strays(stream, p) == p \notin Scope /\ \E i \in DOMAIN stream : Modifies(stream[i], p)
=============================================================================
