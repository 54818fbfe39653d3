---------------------------- MODULE RunLedgerProofs ----------------------------
(***************************************************************************)
(* Proofs about RunLedger, for any paths, commands, checks, thresholds and  *)
(* length of a run: the types, that a run only moves forward, and that the  *)
(* warnings of a run are what the governor stands for: one for each         *)
(* situation, and none without one.  Then that replaying the events of a    *)
(* run yields the record that is stored.                                    *)
(***************************************************************************)
EXTENDS RunLedger, Positions, SequenceTheorems

-----------------------------------------------------------------------------
(* What is stored. *)

Kinds == {"repeated_read", "failure_loop", "scope_expansion", "test_tampering",
          "context_compile_failed", "completion_forced"}
Severities == {"WARNING", "HIGH", "CRITICAL"}
Subjects == Paths \cup Commands \cup {None}
Patches == [id : PatchIds, path : Paths, status : {"proposed", "applied"},
            at : Nat, applied : Nat \cup {None}]

\* The events a transaction may append.
Events ==
    [type : {"task_created", "context_compiled", "run_completed"}, at : Nat]
    \cup [type : {"file_read", "file_modified"}, path : Paths, at : Nat]
    \cup [type : {"decision_recorded"}, kind : {None, "failed_approach"}, text : Decisions,
          at : Nat]
    \cup [type : {"decision_recorded"}, kind : {"acknowledge"},
          text : {"scope_expansion", "test_tampering"} \X Paths, at : Nat]
    \cup [type : {"decision_recorded"}, kind : {"patch_assessment"}, text : {None}, at : Nat]
    \cup [type : {"phase_changed"}, to : ToSet(Phases), at : Nat]
    \cup [type : {"command_started"}, command : Commands, at : Nat]
    \cup [type : {"command_finished"}, command : Commands, success : Success, at : Nat]
    \cup [type : {"verification_started"}, criterion : Criteria \cup {"*"}, at : Nat]
    \cup [type : {"verification_result"}, criterion : Criteria, status : Statuses, at : Nat]
    \cup [type : {"warning_raised"}, kind : Kinds, subject : Subjects, severity : Severities,
          at : Nat]
    \cup [type : {"usage_recorded"}, tokens : Usage, at : Nat]
    \cup [type : {"patch_proposed"}, patch : Patches, at : Nat]
    \cup [type : {"patch_applied"}, id : PatchIds, at : Nat]

\* What the checks read of an event is there.
LEMMA EventFields ==
    ASSUME NEW e \in Events
    PROVE  /\ e.type \in EventTypes
           /\ e.type \in {"file_read", "file_modified"} => e.path \in Paths
           /\ e.type \in {"command_started", "command_finished"} => e.command \in Commands
           /\ e.type = "command_finished" => e.success \in Success
BY DEF Events, EventTypes

\* The findings of the checks.
Findings == {Finding(kind, x) : kind \in Kinds, x \in Subjects}

\* What a finding is made of.
LEMMA FindingFields ==
    ASSUME NEW f \in Findings
    PROVE  /\ f.kind \in Kinds /\ f.subject \in Subjects /\ f.severity \in Severities
           /\ f = Finding(f.kind, f.subject)
BY DEF Findings, Finding, KindSeverity, Severities

\* The run of a check along a stream.
ReadBase == [counts |-> [p \in Paths |-> 0], found |-> << >>]
ReadType == [counts : [Paths -> Nat], found : Seq(Findings)]

\* One step of check_repeated_reads keeps counts and findings well-typed.
LEMMA CountReadType ==
    ASSUME NEW acc \in ReadType, NEW e \in Events
    PROVE  CountRead(acc, e) \in ReadType
<1>1. CASE e.type = "file_modified"
    BY <1>1, EventFields DEF CountRead, ReadType
<1>2. CASE e.type = "file_read"
    <2>1. e.path \in Paths
        BY <1>2, EventFields
    <2>2. Finding("repeated_read", e.path) \in Findings
        BY <2>1 DEF Findings, Kinds, Subjects
    <2>3. [acc.counts EXCEPT ![e.path] = @ + 1] \in [Paths -> Nat]
        BY <2>1 DEF ReadType
    <2>4. Append(acc.found, Finding("repeated_read", e.path)) \in Seq(Findings)
        BY <2>2 DEF ReadType
    <2> QED BY <1>2, <2>3, <2>4 DEF CountRead, CountUp, ReadType
<1>3. CASE e.type \notin {"file_modified", "file_read"}
    BY <1>3 DEF CountRead
<1> QED BY <1>1, <1>2, <1>3

\* check_repeated_reads as the function of positions it computes.
LEMMA ReadsAlong ==
    ASSUME NEW s \in Seq(Events)
    PROVE  \E f \in [0..Len(s) -> ReadType] :
              /\ f[0] = ReadBase
              /\ \A i \in 1..Len(s) : f[i] = CountRead(f[i - 1], s[i])
              /\ RepeatedReads(s) = f[Len(s)].found
<1> DEFINE n == Len(s)
           F == [i \in 1..n |-> [acc \in ReadType |-> CountRead(acc, s[i])]]
           Is(g) == g = [i \in 0..n |-> IF i = 0 THEN ReadBase ELSE CountRead(g[i - 1], s[i])]
           f == CHOOSE g : Is(g)
<1>1. n \in Nat /\ ReadBase \in ReadType
    BY DEF ReadBase, ReadType
<1>2. Steps(F, n, ReadType)
    BY CountReadType DEF Steps
<1>3. \A i \in 1..n, acc \in ReadType : F[i][acc] = CountRead(acc, s[i])
    OBVIOUS
<1> HIDE DEF F
<1>4. \E g : Is(g)
    <2>1. PICK g : Follows(g, ReadBase, F, n, ReadType)
        BY <1>1, <1>2, Recursion
    <2>2. \A i \in 1..n : i - 1 \in 0..n
        OBVIOUS
    <2>3. \A i \in 0..n : g[i] = IF i = 0 THEN ReadBase ELSE CountRead(g[i - 1], s[i])
        BY <1>3, <2>1, <2>2 DEF Follows
    <2> QED BY <2>1, <2>3 DEF Follows
<1>5. Is(f)
    <2> HIDE DEF Is
    <2> QED BY <1>4
<1>6. RepeatedReads(s) = f[n].found
    BY DEF RepeatedReads, Along, ReadBase
<1> HIDE DEF f
<1>7. /\ f = [i \in 0..n |-> f[i]] /\ f[0] = ReadBase
      /\ \A i \in 1..n : f[i] = CountRead(f[i - 1], s[i])
    BY <1>1, <1>5
<1>8. Follows(f, ReadBase, F, n, ReadType)
    BY <1>1, <1>2, <1>3, <1>7, OneRecursion
<1> QED BY <1>6, <1>7, <1>8 DEF Follows

\* The members of a list with one more.
LEMMA AppendSet ==
    ASSUME NEW S, NEW s \in Seq(S), NEW x \in S
    PROVE  ToSet(Append(s, x)) = ToSet(s) \cup {x}
<1>1. DOMAIN s = 1..Len(s) /\ Len(s) \in Nat
    OBVIOUS
<1>2. /\ DOMAIN Append(s, x) = 1..(Len(s) + 1)
      /\ Append(s, x)[Len(s) + 1] = x
      /\ \A i \in 1..Len(s) : Append(s, x)[i] = s[i]
    OBVIOUS
<1>3. 1..(Len(s) + 1) = (1..Len(s)) \cup {Len(s) + 1}
    BY <1>1
<1> QED BY <1>1, <1>2, <1>3 DEF ToSet

\* The check finds what it looks for, and nothing else.
THEOREM ReadsFound ==
    ASSUME NEW s \in Seq(Events)
    PROVE  /\ RepeatedReads(s) \in Seq(Findings)
           /\ ToSet(RepeatedReads(s)) =
                 {Finding("repeated_read", p) : p \in {q \in Paths : ReadInVain(s, q)}}
<1> DEFINE n == Len(s)
<1>1. PICK f \in [0..n -> ReadType] :
              /\ f[0] = ReadBase
              /\ \A i \in 1..n : f[i] = CountRead(f[i - 1], s[i])
              /\ RepeatedReads(s) = f[n].found
    BY ReadsAlong
<1>2. n \in Nat /\ \A i \in 1..n : i - 1 \in 0..n
    OBVIOUS
<1>3. ASSUME NEW i \in 1..n
      PROVE  f[i] = CountRead(f[i - 1], s[i]) /\ f[i] \in ReadType /\ f[i - 1] \in ReadType
             /\ s[i] \in Events
    BY <1>1, <1>2, <1>3
<1> DEFINE Tells(i, p) == Reads(s[i], p) /\ f[i].counts[p] = ReadThreshold
           Told(i) == {Finding("repeated_read", p) : p \in {q \in Paths : \E j \in 1..i : Tells(j, q)}}
           T == {i \in 0..n : ToSet(f[i].found) = Told(i)}
<1>4. 0 \in T
    <2>1. ToSet(<< >>) = {}
        BY DEF ToSet
    <2>2. f[0].found = << >>
        BY <1>1 DEF ReadBase
    <2>3. Told(0) = {}
        OBVIOUS
    <2> QED BY <1>2, <2>1, <2>2, <2>3
<1>5. ASSUME NEW j \in 0..n, j \in T, j < n PROVE j + 1 \in T
    <2> DEFINE i == j + 1
    <2>1. i \in 1..n /\ i - 1 = j /\ 1..i = (1..j) \cup {i}
        BY <1>5
    <2>2. /\ f[i] = CountRead(f[j], s[i]) /\ f[i] \in ReadType /\ f[j] \in ReadType
          /\ s[i] \in Events
        BY <1>3, <2>1
    <2> HIDE DEF i
    <2>3. CASE s[i].type = "file_read"
        <3> DEFINE p == s[i].path
        <3>1. p \in Paths /\ f[i] = CountUp(f[j], p, ReadThreshold, "repeated_read")
            BY <2>2, <2>3, EventFields DEF CountRead
        <3>2. f[i].counts[p] = f[j].counts[p] + 1
            BY <2>2, <3>1 DEF CountUp, ReadType
        <3>3. f[i].found = IF f[i].counts[p] = ReadThreshold
                           THEN Append(f[j].found, Finding("repeated_read", p)) ELSE f[j].found
            BY <3>1, <3>2 DEF CountUp
        <3>4. \A q \in Paths : Tells(i, q) <=> q = p /\ f[i].counts[p] = ReadThreshold
            BY <2>3 DEF Reads
        <3>5. Told(i) = IF f[i].counts[p] = ReadThreshold
                        THEN Told(j) \cup {Finding("repeated_read", p)} ELSE Told(j)
            <4> HIDE DEF Tells, p
            <4> QED BY <2>1, <3>1, <3>4
        <3>6. ToSet(Append(f[j].found, Finding("repeated_read", p)))
                  = ToSet(f[j].found) \cup {Finding("repeated_read", p)}
            <4>1. Finding("repeated_read", p) \in Findings
                BY <3>1 DEF Findings, Kinds, Subjects
            <4>2. f[j].found \in Seq(Findings)
                BY <2>2 DEF ReadType
            <4> QED BY <4>1, <4>2, AppendSet
        <3>7. ToSet(f[j].found) = Told(j)
            BY <1>5
        <3> HIDE DEF Told, p
        <3>8. ToSet(f[i].found) = Told(i)
            BY <3>3, <3>5, <3>6, <3>7
        <3> QED BY <2>1, <3>8
    <2>4. CASE s[i].type # "file_read"
        <3>1. f[i].found = f[j].found
            BY <2>2, <2>4 DEF CountRead, ReadType
        <3>2. \A q \in Paths : ~Tells(i, q)
            BY <2>4 DEF Reads
        <3>3. Told(i) = Told(j)
            <4> HIDE DEF Tells
            <4> QED BY <2>1, <3>2
        <3>4. ToSet(f[j].found) = Told(j)
            BY <1>5
        <3> HIDE DEF Told
        <3>5. ToSet(f[i].found) = Told(i)
            BY <3>1, <3>3, <3>4
        <3> QED BY <2>1, <3>5
    <2>5. i \in T
        BY <2>3, <2>4
    <2> QED BY <2>5 DEF i
<1>6. ToSet(f[n].found) = Told(n)
    <2>1. \A j \in 0..n : j \in T /\ j < n => j + 1 \in T
        BY <1>5
    <2>2. 0..n \subseteq T
        <3> HIDE DEF T
        <3> QED BY <1>2, <1>4, <2>1, StepByStep
    <2>3. n \in 0..n
        BY <1>2
    <2> HIDE DEF Told
    <2> QED BY <2>2, <2>3
<1>7. ASSUME NEW p \in Paths
      PROVE  (\E j \in 1..n : Tells(j, p)) <=> ReadInVain(s, p)
    <2> DEFINE Hits == {k \in DOMAIN s : Reads(s[k], p)}
               Breaks == {k \in DOMAIN s : Modifies(s[k], p)}
               count == [i \in 0..n |-> f[i].counts[p]]
    <2>1. DOMAIN s = 1..n /\ Hits \in SUBSET (1..n) /\ Hits \cap Breaks = {}
        BY DEF Reads, Modifies
    <2>2. Counts(count, Hits, Breaks, n)
        <3>1. count \in [0..n -> Nat] /\ count[0] = 0
            BY <1>1, <1>2 DEF ReadType, ReadBase
        <3>2. ASSUME NEW i \in 1..n
              PROVE  /\ i \in Breaks => count[i] = 0
                     /\ i \in Hits => count[i] = count[i - 1] + 1
                     /\ i \notin Hits \cup Breaks => count[i] = count[i - 1]
            <4>1. /\ f[i] = CountRead(f[i - 1], s[i]) /\ f[i - 1] \in ReadType
                  /\ s[i] \in Events /\ i \in 0..n /\ i - 1 \in 0..n
                BY <1>2, <1>3
            <4>2. s[i].type \in {"file_read", "file_modified"} => s[i].path \in Paths
                BY <4>1, EventFields
            <4>3. f[i - 1].counts \in [Paths -> Nat]
                BY <4>1 DEF ReadType
            <4>4. i \in Breaks => f[i].counts[p] = 0
                BY <4>1, <4>3 DEF CountRead, Modifies, ReadType
            <4>5. i \in Hits => f[i].counts[p] = f[i - 1].counts[p] + 1
                BY <4>1, <4>3 DEF CountRead, CountUp, Reads
            <4>6. i \notin Hits \cup Breaks => f[i].counts[p] = f[i - 1].counts[p]
                BY <2>1, <4>1, <4>2, <4>3 DEF CountRead, CountUp, Reads, Modifies, ReadType
            <4> QED BY <4>1, <4>4, <4>5, <4>6
        <3> HIDE DEF count, Hits, Breaks
        <3> QED BY <3>1, <3>2 DEF Counts
    <2>3. ReadThreshold \in Nat \ {0}
        BY ThresholdsAssumption
    <2>4. (\E i \in Hits : count[i] = ReadThreshold) <=> InVain(Hits, Breaks, ReadThreshold)
        <3> HIDE DEF count, Hits, Breaks, n
        <3> QED BY <1>2, <2>1, <2>2, <2>3, StreakFound
    <2>5. (\E j \in 1..n : Tells(j, p)) <=> \E i \in Hits : count[i] = ReadThreshold
        <3>1. \A i \in 1..n : (i \in Hits <=> Reads(s[i], p)) /\ count[i] = f[i].counts[p]
            BY <1>2, <2>1
        <3> HIDE DEF count, Hits
        <3> QED BY <2>1, <3>1
    <2>6. \A i, j \in Hits : (\A k \in i..j : k \notin Breaks)
                             <=> \A k \in i..j : ~Modifies(s[k], p)
        BY <2>1
    <2>7. ReadInVain(s, p) <=>
          \E i, j \in Hits : /\ Cardinality(Hits \cap (i..j)) >= ReadThreshold
                             /\ \A k \in i..j : ~Modifies(s[k], p)
        BY DEF ReadInVain
    <2> HIDE DEF Hits, Breaks
    <2> QED BY <2>4, <2>5, <2>6, <2>7 DEF InVain
<1>8. Told(n) = {Finding("repeated_read", p) : p \in {q \in Paths : ReadInVain(s, q)}}
    <2> HIDE DEF Tells
    <2> QED BY <1>7
<1>9. f[n].found \in Seq(Findings)
    BY <1>1, <1>2 DEF ReadType
<1> HIDE DEF Told
<1> QED BY <1>1, <1>6, <1>8, <1>9

FailureBase == [counts |-> [c \in Commands |-> 0], found |-> << >>]
FailureType == [counts : [Commands -> Nat], found : Seq(Findings)]

\* A failure of c, and what ends a streak of them.
Fails(e, c) == Ends(e, c) /\ e.success = FALSE
Heals(e, c) == e.type = "file_modified" \/ (Ends(e, c) /\ e.success = TRUE)

\* One step of check_failure_loops keeps counts and findings well-typed.
LEMMA CountFailureType ==
    ASSUME NEW acc \in FailureType, NEW e \in Events
    PROVE  CountFailure(acc, e) \in FailureType
<1>1. CASE e.type = "file_modified"
    BY <1>1 DEF CountFailure, FailureType
<1>2. CASE e.type = "command_finished" /\ e.success = TRUE
    BY <1>2, EventFields DEF CountFailure, FailureType
<1>3. CASE e.type = "command_finished" /\ e.success = FALSE
    <2>1. e.command \in Commands
        BY <1>3, EventFields
    <2>2. Finding("failure_loop", e.command) \in Findings
        BY <2>1 DEF Findings, Kinds, Subjects
    <2>3. [acc.counts EXCEPT ![e.command] = @ + 1] \in [Commands -> Nat]
        BY <2>1 DEF FailureType
    <2>4. Append(acc.found, Finding("failure_loop", e.command)) \in Seq(Findings)
        BY <2>2 DEF FailureType
    <2>5. CountFailure(acc, e) = CountUp(acc, e.command, FailureThreshold, "failure_loop")
        BY <1>3 DEF CountFailure
    <2> QED BY <2>3, <2>4, <2>5 DEF CountUp, FailureType
<1>4. CASE e.type # "file_modified" /\ (e.type = "command_finished" => e.success \notin BOOLEAN)
    BY <1>4 DEF CountFailure
<1> QED BY <1>1, <1>2, <1>3, <1>4

\* check_failure_loops as the function of positions it computes.
LEMMA FailuresAlong ==
    ASSUME NEW s \in Seq(Events)
    PROVE  \E f \in [0..Len(s) -> FailureType] :
              /\ f[0] = FailureBase
              /\ \A i \in 1..Len(s) : f[i] = CountFailure(f[i - 1], s[i])
              /\ FailureLoops(s) = f[Len(s)].found
<1> DEFINE n == Len(s)
           F == [i \in 1..n |-> [acc \in FailureType |-> CountFailure(acc, s[i])]]
           Is(g) == g = [i \in 0..n |-> IF i = 0 THEN FailureBase ELSE CountFailure(g[i - 1], s[i])]
           f == CHOOSE g : Is(g)
<1>1. n \in Nat /\ FailureBase \in FailureType
    BY DEF FailureBase, FailureType
<1>2. Steps(F, n, FailureType)
    BY CountFailureType DEF Steps
<1>3. \A i \in 1..n, acc \in FailureType : F[i][acc] = CountFailure(acc, s[i])
    OBVIOUS
<1> HIDE DEF F
<1>4. \E g : Is(g)
    <2>1. PICK g : Follows(g, FailureBase, F, n, FailureType)
        BY <1>1, <1>2, Recursion
    <2>2. \A i \in 1..n : i - 1 \in 0..n
        OBVIOUS
    <2>3. \A i \in 0..n : g[i] = IF i = 0 THEN FailureBase ELSE CountFailure(g[i - 1], s[i])
        BY <1>3, <2>1, <2>2 DEF Follows
    <2> QED BY <2>1, <2>3 DEF Follows
<1>5. Is(f)
    <2> HIDE DEF Is
    <2> QED BY <1>4
<1>6. FailureLoops(s) = f[n].found
    BY DEF FailureLoops, Along, FailureBase
<1> HIDE DEF f
<1>7. /\ f = [i \in 0..n |-> f[i]] /\ f[0] = FailureBase
      /\ \A i \in 1..n : f[i] = CountFailure(f[i - 1], s[i])
    BY <1>1, <1>5
<1>8. Follows(f, FailureBase, F, n, FailureType)
    BY <1>1, <1>2, <1>3, <1>7, OneRecursion
<1> QED BY <1>6, <1>7, <1>8 DEF Follows

\* The check finds what it looks for, and nothing else.
THEOREM FailuresFound ==
    ASSUME NEW s \in Seq(Events)
    PROVE  /\ FailureLoops(s) \in Seq(Findings)
           /\ ToSet(FailureLoops(s)) =
                 {Finding("failure_loop", p) : p \in {q \in Commands : FailingInVain(s, q)}}
<1> DEFINE n == Len(s)
<1>1. PICK f \in [0..n -> FailureType] :
              /\ f[0] = FailureBase
              /\ \A i \in 1..n : f[i] = CountFailure(f[i - 1], s[i])
              /\ FailureLoops(s) = f[n].found
    BY FailuresAlong
<1>2. n \in Nat /\ \A i \in 1..n : i - 1 \in 0..n
    OBVIOUS
<1>3. ASSUME NEW i \in 1..n
      PROVE  f[i] = CountFailure(f[i - 1], s[i]) /\ f[i] \in FailureType /\ f[i - 1] \in FailureType
             /\ s[i] \in Events
    BY <1>1, <1>2, <1>3
<1> DEFINE Tells(i, p) == Fails(s[i], p) /\ f[i].counts[p] = FailureThreshold
           Told(i) == {Finding("failure_loop", p) : p \in {q \in Commands : \E j \in 1..i : Tells(j, q)}}
           T == {i \in 0..n : ToSet(f[i].found) = Told(i)}
<1>4. 0 \in T
    <2>1. ToSet(<< >>) = {}
        BY DEF ToSet
    <2>2. f[0].found = << >>
        BY <1>1 DEF FailureBase
    <2>3. Told(0) = {}
        OBVIOUS
    <2> QED BY <1>2, <2>1, <2>2, <2>3
<1>5. ASSUME NEW j \in 0..n, j \in T, j < n PROVE j + 1 \in T
    <2> DEFINE i == j + 1
    <2>1. i \in 1..n /\ i - 1 = j /\ 1..i = (1..j) \cup {i}
        BY <1>5
    <2>2. /\ f[i] = CountFailure(f[j], s[i]) /\ f[i] \in FailureType /\ f[j] \in FailureType
          /\ s[i] \in Events
        BY <1>3, <2>1
    <2> HIDE DEF i
    <2>3. CASE s[i].type = "command_finished" /\ s[i].success = FALSE
        <3> DEFINE p == s[i].command
        <3>1. p \in Commands /\ f[i] = CountUp(f[j], p, FailureThreshold, "failure_loop")
            BY <2>2, <2>3, EventFields DEF CountFailure
        <3>2. f[i].counts[p] = f[j].counts[p] + 1
            BY <2>2, <3>1 DEF CountUp, FailureType
        <3>3. f[i].found = IF f[i].counts[p] = FailureThreshold
                           THEN Append(f[j].found, Finding("failure_loop", p)) ELSE f[j].found
            BY <3>1, <3>2 DEF CountUp
        <3>4. \A q \in Commands : Tells(i, q) <=> q = p /\ f[i].counts[p] = FailureThreshold
            BY <2>3 DEF Fails, Ends
        <3>5. Told(i) = IF f[i].counts[p] = FailureThreshold
                        THEN Told(j) \cup {Finding("failure_loop", p)} ELSE Told(j)
            <4> HIDE DEF Tells, p
            <4> QED BY <2>1, <3>1, <3>4
        <3>6. ToSet(Append(f[j].found, Finding("failure_loop", p)))
                  = ToSet(f[j].found) \cup {Finding("failure_loop", p)}
            <4>1. Finding("failure_loop", p) \in Findings
                BY <3>1 DEF Findings, Kinds, Subjects
            <4>2. f[j].found \in Seq(Findings)
                BY <2>2 DEF FailureType
            <4> QED BY <4>1, <4>2, AppendSet
        <3>7. ToSet(f[j].found) = Told(j)
            BY <1>5
        <3> HIDE DEF Told, p
        <3>8. ToSet(f[i].found) = Told(i)
            BY <3>3, <3>5, <3>6, <3>7
        <3> QED BY <2>1, <3>8
    <2>4. CASE ~(s[i].type = "command_finished" /\ s[i].success = FALSE)
        <3>1. f[i].found = f[j].found
            BY <2>2, <2>4 DEF CountFailure, FailureType
        <3>2. \A q \in Commands : ~Tells(i, q)
            BY <2>4 DEF Fails, Ends
        <3>3. Told(i) = Told(j)
            <4> HIDE DEF Tells
            <4> QED BY <2>1, <3>2
        <3>4. ToSet(f[j].found) = Told(j)
            BY <1>5
        <3> HIDE DEF Told
        <3>5. ToSet(f[i].found) = Told(i)
            BY <3>1, <3>3, <3>4
        <3> QED BY <2>1, <3>5
    <2>5. i \in T
        BY <2>3, <2>4
    <2> QED BY <2>5 DEF i
<1>6. ToSet(f[n].found) = Told(n)
    <2>1. \A j \in 0..n : j \in T /\ j < n => j + 1 \in T
        BY <1>5
    <2>2. 0..n \subseteq T
        <3> HIDE DEF T
        <3> QED BY <1>2, <1>4, <2>1, StepByStep
    <2>3. n \in 0..n
        BY <1>2
    <2> HIDE DEF Told
    <2> QED BY <2>2, <2>3
<1>7. ASSUME NEW p \in Commands
      PROVE  (\E j \in 1..n : Tells(j, p)) <=> FailingInVain(s, p)
    <2> DEFINE Hits == {k \in DOMAIN s : Fails(s[k], p)}
               Breaks == {k \in DOMAIN s : Heals(s[k], p)}
               count == [i \in 0..n |-> f[i].counts[p]]
    <2>1. DOMAIN s = 1..n /\ Hits \in SUBSET (1..n) /\ Hits \cap Breaks = {}
        BY DEF Fails, Heals, Ends
    <2>2. Counts(count, Hits, Breaks, n)
        <3>1. count \in [0..n -> Nat] /\ count[0] = 0
            BY <1>1, <1>2 DEF FailureType, FailureBase
        <3>2. ASSUME NEW i \in 1..n
              PROVE  /\ i \in Breaks => count[i] = 0
                     /\ i \in Hits => count[i] = count[i - 1] + 1
                     /\ i \notin Hits \cup Breaks => count[i] = count[i - 1]
            <4>1. /\ f[i] = CountFailure(f[i - 1], s[i]) /\ f[i - 1] \in FailureType
                  /\ s[i] \in Events /\ i \in 0..n /\ i - 1 \in 0..n
                BY <1>2, <1>3
            <4>2. s[i].type = "command_finished" => s[i].command \in Commands
                BY <4>1, EventFields
            <4>3. f[i - 1].counts \in [Commands -> Nat]
                BY <4>1 DEF FailureType
            <4>4. i \in Breaks => f[i].counts[p] = 0
                BY <4>1, <4>3 DEF CountFailure, CountUp, Heals, Ends, FailureType
            <4>5. i \in Hits => f[i].counts[p] = f[i - 1].counts[p] + 1
                BY <4>1, <4>3 DEF CountFailure, CountUp, Fails, Ends
            <4>6. ASSUME i \notin Hits \cup Breaks PROVE f[i].counts[p] = f[i - 1].counts[p]
                <5>1. ~Fails(s[i], p) /\ ~Heals(s[i], p)
                    BY <2>1, <4>6
                <5>2. CASE s[i].type = "command_finished" /\ s[i].success = TRUE
                    BY <4>1, <4>2, <4>3, <5>1, <5>2 DEF CountFailure, Heals, Ends, FailureType
                <5>3. CASE s[i].type = "command_finished" /\ s[i].success = FALSE
                    BY <4>1, <4>2, <4>3, <5>1, <5>3 DEF CountFailure, CountUp, Fails, Ends
                <5>4. CASE /\ ~(s[i].type = "command_finished" /\ s[i].success = TRUE)
                           /\ ~(s[i].type = "command_finished" /\ s[i].success = FALSE)
                    <6>1. s[i].type # "file_modified"
                        BY <5>1 DEF Heals
                    <6>2. f[i] = f[i - 1]
                        BY <4>1, <5>4, <6>1 DEF CountFailure
                    <6> QED BY <6>2
                <5> QED BY <5>2, <5>3, <5>4
            <4> QED BY <4>1, <4>4, <4>5, <4>6
        <3> HIDE DEF count, Hits, Breaks
        <3> QED BY <3>1, <3>2 DEF Counts
    <2>3. FailureThreshold \in Nat \ {0}
        BY ThresholdsAssumption
    <2>4. (\E i \in Hits : count[i] = FailureThreshold) <=> InVain(Hits, Breaks, FailureThreshold)
        <3> HIDE DEF count, Hits, Breaks, n
        <3> QED BY <1>2, <2>1, <2>2, <2>3, StreakFound
    <2>5. (\E j \in 1..n : Tells(j, p)) <=> \E i \in Hits : count[i] = FailureThreshold
        <3>1. \A i \in 1..n : (i \in Hits <=> Fails(s[i], p)) /\ count[i] = f[i].counts[p]
            BY <1>2, <2>1
        <3> HIDE DEF count, Hits
        <3> QED BY <2>1, <3>1
    <2>6. \A i, j \in Hits : (\A k \in i..j : k \notin Breaks)
                             <=> \A k \in i..j : ~Heals(s[k], p)
        BY <2>1
    <2>7. FailingInVain(s, p) <=>
          \E i, j \in Hits : /\ Cardinality(Hits \cap (i..j)) >= FailureThreshold
                             /\ \A k \in i..j : ~Heals(s[k], p)
        BY <2>1 DEF FailingInVain, Fails, Heals, Ends
    <2> HIDE DEF Hits, Breaks
    <2> QED BY <2>4, <2>5, <2>6, <2>7 DEF InVain
<1>8. Told(n) = {Finding("failure_loop", p) : p \in {q \in Commands : FailingInVain(s, q)}}
    <2> HIDE DEF Tells
    <2> QED BY <1>7
<1>9. f[n].found \in Seq(Findings)
    BY <1>1, <1>2 DEF FailureType
<1> HIDE DEF Told
<1> QED BY <1>1, <1>6, <1>8, <1>9

FoundType == Seq(Findings)

\* One step of check_scope_expansion finds findings.
LEMMA StrayType ==
    ASSUME NEW acc \in FoundType, NEW e \in Events
    PROVE  Stray(acc, e) \in FoundType
<1>1. e.type = "file_modified" => Finding("scope_expansion", e.path) \in Findings
    BY EventFields DEF Findings, Kinds, Subjects
<1> QED BY <1>1 DEF Stray, FoundType

NoneFound == << >>

\* check_scope_expansion as the function of positions it computes.
LEMMA StraysAlong ==
    ASSUME NEW s \in Seq(Events)
    PROVE  \E f \in [0..Len(s) -> FoundType] :
              /\ f[0] = NoneFound
              /\ \A i \in 1..Len(s) : f[i] = Stray(f[i - 1], s[i])
              /\ Scope # {} => ScopeExpansion(TRUE, s) = f[Len(s)]
<1> DEFINE n == Len(s)
           F == [i \in 1..n |-> [acc \in FoundType |-> Stray(acc, s[i])]]
           Is(g) == g = [i \in 0..n |-> IF i = 0 THEN NoneFound ELSE Stray(g[i - 1], s[i])]
           f == CHOOSE g : Is(g)
<1>1. n \in Nat /\ NoneFound \in FoundType
    BY DEF FoundType, NoneFound
<1>2. Steps(F, n, FoundType)
    BY StrayType DEF Steps
<1>3. \A i \in 1..n, acc \in FoundType : F[i][acc] = Stray(acc, s[i])
    OBVIOUS
<1> HIDE DEF F
<1>4. \E g : Is(g)
    <2>1. PICK g : Follows(g, NoneFound, F, n, FoundType)
        BY <1>1, <1>2, Recursion
    <2>2. \A i \in 1..n : i - 1 \in 0..n
        OBVIOUS
    <2>3. \A i \in 0..n : g[i] = IF i = 0 THEN NoneFound ELSE Stray(g[i - 1], s[i])
        BY <1>3, <2>1, <2>2 DEF Follows
    <2> QED BY <2>1, <2>3 DEF Follows
<1>5. Is(f)
    <2> HIDE DEF Is
    <2> QED BY <1>4
<1>6. Scope # {} => ScopeExpansion(TRUE, s) = f[n]
    BY DEF ScopeExpansion, Along, NoneFound
<1> HIDE DEF f
<1>7. /\ f = [i \in 0..n |-> f[i]] /\ f[0] = NoneFound
      /\ \A i \in 1..n : f[i] = Stray(f[i - 1], s[i])
    BY <1>1, <1>5
<1>8. Follows(f, NoneFound, F, n, FoundType)
    BY <1>1, <1>2, <1>3, <1>7, OneRecursion
<1> QED BY <1>6, <1>7, <1>8 DEF Follows

\* With a scope, check_scope_expansion finds the changed paths outside it, and
\* nothing else.
LEMMA StraysFound ==
    ASSUME NEW s \in Seq(Events), Scope # {}
    PROVE  /\ ScopeExpansion(TRUE, s) \in Seq(Findings)
           /\ ToSet(ScopeExpansion(TRUE, s)) =
                 {Finding("scope_expansion", p) : p \in {q \in Paths : Strays(s, q)}}
<1> DEFINE n == Len(s)
<1>1. PICK f \in [0..n -> Seq(Findings)] :
              /\ f[0] = << >>
              /\ \A i \in 1..n : f[i] = Stray(f[i - 1], s[i])
              /\ ScopeExpansion(TRUE, s) = f[n]
    BY StraysAlong DEF FoundType, NoneFound
<1>2. n \in Nat /\ \A i \in 1..n : i - 1 \in 0..n
    OBVIOUS
<1> DEFINE Told(i) == {Finding("scope_expansion", p) :
                          p \in {q \in Paths : q \notin Scope /\ \E j \in 1..i : Modifies(s[j], q)}}
           T == {i \in 0..n : ToSet(f[i]) = Told(i)}
<1>3. 0 \in T
    <2>1. ToSet(<< >>) = {}
        BY DEF ToSet
    <2>2. Told(0) = {}
        OBVIOUS
    <2> QED BY <1>1, <1>2, <2>1, <2>2
<1>4. ASSUME NEW j \in 0..n, j \in T, j < n PROVE j + 1 \in T
    <2> DEFINE i == j + 1
               p == s[i].path
               new == Finding("scope_expansion", p)
    <2>1. i \in 1..n /\ i - 1 = j /\ 1..i = (1..j) \cup {i}
        BY <1>4
    <2>2. /\ f[i] = Stray(f[j], s[i]) /\ f[j] \in Seq(Findings) /\ s[i] \in Events
          /\ ToSet(f[j]) = Told(j)
        BY <1>1, <1>4, <2>1
    <2> HIDE DEF i
    <2>3. \A q : Modifies(s[i], q) <=> s[i].type = "file_modified" /\ q = p
        BY DEF Modifies
    <2>4. s[i].type = "file_modified" => p \in Paths /\ new \in Findings
        BY <2>2, EventFields DEF Findings, Kinds, Subjects
    <2>5. Told(i) = IF s[i].type = "file_modified" /\ p \notin Scope
                    THEN Told(j) \cup {new} ELSE Told(j)
        <3> HIDE DEF p
        <3> QED BY <2>1, <2>3, <2>4
    <2>6. s[i].type = "file_modified" => ToSet(Append(f[j], new)) = ToSet(f[j]) \cup {new}
        <3> HIDE DEF new
        <3> QED BY <2>2, <2>4, AppendSet
    <2>7. f[i] = IF s[i].type = "file_modified" /\ p \notin Scope /\ new \notin ToSet(f[j])
                 THEN Append(f[j], new) ELSE f[j]
        BY <2>2 DEF Stray
    <2>8. ToSet(f[i]) = Told(i)
        <3> HIDE DEF Told, new, p
        <3> QED BY <2>2, <2>5, <2>6, <2>7
    <2> QED BY <2>1, <2>8 DEF i
<1>5. ToSet(f[n]) = Told(n)
    <2>1. \A j \in 0..n : j \in T /\ j < n => j + 1 \in T
        BY <1>4
    <2>2. 0..n \subseteq T
        <3> HIDE DEF T
        <3> QED BY <1>2, <1>3, <2>1, StepByStep
    <2>3. n \in 0..n
        BY <1>2
    <2> HIDE DEF Told
    <2> QED BY <2>2, <2>3
<1>6. Told(n) = {Finding("scope_expansion", p) : p \in {q \in Paths : Strays(s, q)}}
    <2>1. \A q \in Paths : Strays(s, q) <=> q \notin Scope /\ \E j \in 1..n : Modifies(s[j], q)
        BY DEF Strays
    <2> QED BY <2>1
<1>7. f[n] \in Seq(Findings)
    BY <1>1, <1>2
<1> HIDE DEF Told
<1> QED BY <1>1, <1>5, <1>6, <1>7

-----------------------------------------------------------------------------
(* The findings no warning is about yet. *)

\* The signatures of what was warned about.
WarnedOf(rec) == {Signature(w) : w \in {v \in ToSet(rec.warnings) : v.subject # None}}

FreshOne(warned, acc, f) == IF Signature(f) \in warned THEN acc ELSE AddNew(acc, f)

\* One step of the search for findings that are not warned about.
LEMMA FreshType ==
    ASSUME NEW warned, NEW acc \in FoundType, NEW f \in Findings
    PROVE  FreshOne(warned, acc, f) \in FoundType
BY DEF FreshOne, AddNew, FoundType

\* That search as the function of positions it computes.
LEMMA UnwarnedAlong ==
    ASSUME NEW rec, NEW s \in Seq(Findings)
    PROVE  \E f \in [0..Len(s) -> FoundType] :
              /\ f[0] = NoneFound
              /\ \A i \in 1..Len(s) : f[i] = FreshOne(WarnedOf(rec), f[i - 1], s[i])
              /\ Unwarned(rec, s) = f[Len(s)]
<1> DEFINE n == Len(s)
           W == WarnedOf(rec)
           F == [i \in 1..n |-> [acc \in FoundType |-> FreshOne(W, acc, s[i])]]
           Is(g) == g = [i \in 0..n |-> IF i = 0 THEN NoneFound ELSE FreshOne(W, g[i - 1], s[i])]
           f == CHOOSE g : Is(g)
<1>1. n \in Nat /\ NoneFound \in FoundType
    BY DEF FoundType, NoneFound
<1>2. Steps(F, n, FoundType)
    BY FreshType DEF Steps
<1>3. \A i \in 1..n, acc \in FoundType : F[i][acc] = FreshOne(W, acc, s[i])
    OBVIOUS
<1> HIDE DEF F
<1>4. \E g : Is(g)
    <2>1. PICK g : Follows(g, NoneFound, F, n, FoundType)
        BY <1>1, <1>2, Recursion
    <2>2. \A i \in 1..n : i - 1 \in 0..n
        OBVIOUS
    <2>3. \A i \in 0..n : g[i] = IF i = 0 THEN NoneFound ELSE FreshOne(W, g[i - 1], s[i])
        BY <1>3, <2>1, <2>2 DEF Follows
    <2> QED BY <2>1, <2>3 DEF Follows
<1>5. Is(f)
    <2> HIDE DEF Is
    <2> QED BY <1>4
<1>6. Unwarned(rec, s) = f[n]
    BY DEF Unwarned, Along, NoneFound, FreshOne, WarnedOf
<1> HIDE DEF f
<1>7. /\ f = [i \in 0..n |-> f[i]] /\ f[0] = NoneFound
      /\ \A i \in 1..n : f[i] = FreshOne(W, f[i - 1], s[i])
    BY <1>1, <1>5
<1>8. Follows(f, NoneFound, F, n, FoundType)
    BY <1>1, <1>2, <1>3, <1>7, OneRecursion
<1> QED BY <1>6, <1>7, <1>8 DEF Follows

\* No element twice.
Once(seq) == \A i, j \in DOMAIN seq : i # j => seq[i] # seq[j]

\* What is added when new is there once.
LEMMA AddNewOnce ==
    ASSUME NEW S, NEW seq \in Seq(S), NEW x \in S, Once(seq)
    PROVE  Once(AddNew(seq, x)) /\ ToSet(AddNew(seq, x)) = ToSet(seq) \cup {x}
<1>1. CASE x \in ToSet(seq)
    BY <1>1 DEF AddNew
<1>2. CASE x \notin ToSet(seq)
    <2>1. AddNew(seq, x) = Append(seq, x)
        BY <1>2 DEF AddNew
    <2>2. DOMAIN seq = 1..Len(seq) /\ Len(seq) \in Nat
        OBVIOUS
    <2>3. /\ DOMAIN Append(seq, x) = 1..(Len(seq) + 1)
          /\ Append(seq, x)[Len(seq) + 1] = x
          /\ \A i \in 1..Len(seq) : Append(seq, x)[i] = seq[i]
        OBVIOUS
    <2>4. \A i \in 1..Len(seq) : seq[i] # x
        BY <1>2, <2>2 DEF ToSet
    <2>5. Once(Append(seq, x))
        BY <2>2, <2>3, <2>4 DEF Once
    <2> QED BY <2>1, <2>5, AppendSet
<1> QED BY <1>1, <1>2

\* What no warning is about yet, each once.
LEMMA UnwarnedFound ==
    ASSUME NEW rec, NEW s \in Seq(Findings)
    PROVE  /\ Unwarned(rec, s) \in Seq(Findings)
           /\ Once(Unwarned(rec, s))
           /\ ToSet(Unwarned(rec, s)) = {f \in ToSet(s) : Signature(f) \notin WarnedOf(rec)}
<1> DEFINE n == Len(s)
           W == WarnedOf(rec)
<1>1. PICK f \in [0..n -> FoundType] :
              /\ f[0] = NoneFound
              /\ \A i \in 1..n : f[i] = FreshOne(W, f[i - 1], s[i])
              /\ Unwarned(rec, s) = f[n]
    BY UnwarnedAlong
<1>2. n \in Nat /\ \A i \in 1..n : i - 1 \in 0..n
    OBVIOUS
<1> DEFINE Kept(i) == {g \in {s[j] : j \in 1..i} : Signature(g) \notin W}
           T == {i \in 0..n : Once(f[i]) /\ ToSet(f[i]) = Kept(i)}
<1> HIDE DEF W
<1>3. 0 \in T
    <2>1. ToSet(<< >>) = {} /\ Once(<< >>)
        BY DEF ToSet, Once
    <2>2. Kept(0) = {}
        OBVIOUS
    <2> QED BY <1>1, <1>2, <2>1, <2>2 DEF NoneFound
<1>4. ASSUME NEW j \in 0..n, j \in T, j < n PROVE j + 1 \in T
    <2> DEFINE i == j + 1
    <2>1. i \in 1..n /\ i - 1 = j /\ 1..i = (1..j) \cup {i}
        BY <1>4
    <2>2. /\ f[i] = FreshOne(W, f[j], s[i]) /\ f[j] \in Seq(Findings) /\ s[i] \in Findings
          /\ Once(f[j]) /\ ToSet(f[j]) = Kept(j)
        BY <1>1, <1>4, <2>1 DEF FoundType
    <2> HIDE DEF i
    <2>3. Kept(i) = IF Signature(s[i]) \in W THEN Kept(j) ELSE Kept(j) \cup {s[i]}
        BY <2>1
    <2>4. Once(AddNew(f[j], s[i])) /\ ToSet(AddNew(f[j], s[i])) = ToSet(f[j]) \cup {s[i]}
        BY <2>2, AddNewOnce
    <2>5. Once(f[i]) /\ ToSet(f[i]) = Kept(i)
        <3> HIDE DEF Kept
        <3> QED BY <2>2, <2>3, <2>4 DEF FreshOne
    <2> QED BY <2>1, <2>5 DEF i
<1>5. Once(f[n]) /\ ToSet(f[n]) = Kept(n)
    <2>1. \A j \in 0..n : j \in T /\ j < n => j + 1 \in T
        BY <1>4
    <2>2. 0..n \subseteq T
        <3> HIDE DEF T
        <3> QED BY <1>2, <1>3, <2>1, StepByStep
    <2>3. n \in 0..n
        BY <1>2
    <2> HIDE DEF Kept
    <2> QED BY <2>2, <2>3
<1>6. ToSet(s) = {s[j] : j \in 1..n}
    BY DEF ToSet
<1>7. f[n] \in Seq(Findings)
    BY <1>1, <1>2 DEF FoundType
<1> QED BY <1>1, <1>5, <1>6, <1>7 DEF W

-----------------------------------------------------------------------------
(* A stream that grows. *)

\* The members of two lists joined.
LEMMA ConcatSet ==
    ASSUME NEW S, NEW s \in Seq(S), NEW t \in Seq(S)
    PROVE  /\ s \o t \in Seq(S)
           /\ ToSet(s \o t) = ToSet(s) \cup ToSet(t)
<1>1. /\ Len(s) \in Nat /\ Len(t) \in Nat
      /\ DOMAIN s = 1..Len(s) /\ DOMAIN t = 1..Len(t)
      /\ DOMAIN (s \o t) = 1..(Len(s) + Len(t))
      /\ s \o t \in Seq(S)
    OBVIOUS
<1>2. /\ \A i \in 1..Len(s) : (s \o t)[i] = s[i]
      /\ \A i \in 1..Len(t) : (s \o t)[Len(s) + i] = t[i]
    OBVIOUS
<1>3. \A i \in 1..(Len(s) + Len(t)) : i \notin 1..Len(s) => i - Len(s) \in 1..Len(t)
    BY <1>1
<1>4. \A i \in 1..Len(t) : Len(s) + i \in 1..(Len(s) + Len(t))
    BY <1>1
<1>5. ToSet(s \o t) \subseteq ToSet(s) \cup ToSet(t)
    <2> SUFFICES ASSUME NEW i \in 1..(Len(s) + Len(t))
                 PROVE  (s \o t)[i] \in ToSet(s) \cup ToSet(t)
        BY <1>1 DEF ToSet
    <2>1. CASE i \in 1..Len(s)
        BY <1>1, <1>2, <2>1 DEF ToSet
    <2>2. CASE i \notin 1..Len(s)
        <3>1. i - Len(s) \in 1..Len(t) /\ Len(s) + (i - Len(s)) = i
            BY <1>1, <1>3, <2>2
        <3>2. (s \o t)[i] = t[i - Len(s)]
            BY <1>2, <3>1
        <3> QED BY <1>1, <3>1, <3>2 DEF ToSet
    <2> QED BY <2>1, <2>2
<1>6. ToSet(s) \cup ToSet(t) \subseteq ToSet(s \o t)
    <2>1. ASSUME NEW i \in 1..Len(s) PROVE s[i] \in ToSet(s \o t)
        <3>1. i \in 1..(Len(s) + Len(t)) /\ (s \o t)[i] = s[i]
            BY <1>1, <1>2
        <3> QED BY <1>1, <3>1 DEF ToSet
    <2>2. ASSUME NEW i \in 1..Len(t) PROVE t[i] \in ToSet(s \o t)
        <3>1. (s \o t)[Len(s) + i] = t[i]
            BY <1>2
        <3> QED BY <1>1, <1>4, <3>1 DEF ToSet
    <2>3. ToSet(s) = {s[i] : i \in 1..Len(s)} /\ ToSet(t) = {t[i] : i \in 1..Len(t)}
        BY <1>1 DEF ToSet
    <2> QED BY <2>1, <2>2, <2>3
<1> QED BY <1>1, <1>5, <1>6

\* Events that are appended do not undo a situation, and warnings make none.
Silent(t) == \A e \in ToSet(t) : e.type = "warning_raised"

\* A list is where it was when another one follows it.
LEMMA Prefix ==
    ASSUME NEW s \in Seq(Events), NEW t \in Seq(Events)
    PROVE  /\ DOMAIN s = 1..Len(s) /\ Len(s) \in Nat
           /\ DOMAIN s \subseteq DOMAIN (s \o t)
           /\ \A i \in DOMAIN s : (s \o t)[i] = s[i]
           /\ \A i, j \in DOMAIN s : i..j \subseteq DOMAIN s
           /\ Silent(t) => \A i \in DOMAIN (s \o t) \ DOMAIN s : (s \o t)[i].type = "warning_raised"
<1>1. /\ Len(s) \in Nat /\ Len(t) \in Nat
      /\ DOMAIN s = 1..Len(s) /\ DOMAIN t = 1..Len(t)
      /\ DOMAIN (s \o t) = 1..(Len(s) + Len(t))
    OBVIOUS
<1>2. /\ \A i \in 1..Len(s) : (s \o t)[i] = s[i]
      /\ \A i \in 1..Len(t) : (s \o t)[Len(s) + i] = t[i]
    OBVIOUS
<1>3. ASSUME Silent(t), NEW i \in DOMAIN (s \o t) \ DOMAIN s
      PROVE  (s \o t)[i].type = "warning_raised"
    <2>1. i - Len(s) \in 1..Len(t) /\ Len(s) + (i - Len(s)) = i
        BY <1>1
    <2>2. (s \o t)[i] = t[i - Len(s)]
        BY <1>2, <2>1
    <2> QED BY <1>1, <1>3, <2>1, <2>2 DEF Silent, ToSet
<1> QED BY <1>1, <1>2, <1>3

\* More events end no case of repeated reads; warnings alone make none.
LEMMA ReadsKept ==
    ASSUME NEW s \in Seq(Events), NEW t \in Seq(Events), NEW p
    PROVE  /\ ReadInVain(s, p) => ReadInVain(s \o t, p)
           /\ Silent(t) /\ ReadInVain(s \o t, p) => ReadInVain(s, p)
<1> DEFINE old == {k \in DOMAIN s : Reads(s[k], p)}
           all == {k \in DOMAIN (s \o t) : Reads((s \o t)[k], p)}
           Between(hits, i, j) == Cardinality(hits \cap (i..j)) >= ReadThreshold
           Clear(u, i, j) == \A k \in i..j : ~Modifies(u[k], p)
<1>1. old \subseteq all
    BY Prefix
<1>2. \A i, j \in old : old \cap (i..j) = all \cap (i..j) /\ (Clear(s, i, j) <=> Clear(s \o t, i, j))
    <2> SUFFICES ASSUME NEW i \in DOMAIN s, NEW j \in DOMAIN s
                 PROVE  /\ \A k \in i..j : k \in old <=> k \in all
                        /\ Clear(s, i, j) <=> Clear(s \o t, i, j)
        OBVIOUS
    <2>1. \A k \in i..j : k \in DOMAIN s /\ k \in DOMAIN (s \o t) /\ (s \o t)[k] = s[k]
        BY Prefix
    <2> QED BY <2>1
<1>3. Silent(t) => all \subseteq old
    BY Prefix DEF Reads
<1>4. /\ ReadInVain(s, p) <=> \E i, j \in old : Between(old, i, j) /\ Clear(s, i, j)
      /\ ReadInVain(s \o t, p) <=> \E i, j \in all : Between(all, i, j) /\ Clear(s \o t, i, j)
    BY DEF ReadInVain
<1>5. \A i, j \in old : Between(old, i, j) <=> Between(all, i, j)
    BY <1>2
<1> HIDE DEF old, all, Between, Clear
<1> QED BY <1>1, <1>2, <1>3, <1>4, <1>5

\* The situation, in terms of failures and of what heals them.
LEMMA FailingMeans ==
    ASSUME NEW s, NEW c
    PROVE  FailingInVain(s, c) <=>
           \E i, j \in {k \in DOMAIN s : Fails(s[k], c)} :
               /\ Cardinality({k \in DOMAIN s : Fails(s[k], c)} \cap (i..j)) >= FailureThreshold
               /\ \A k \in i..j : ~Heals(s[k], c)
<1> DEFINE A == {k \in DOMAIN s : Fails(s[k], c)}
           B == {k \in DOMAIN s : Ends(s[k], c) /\ s[k].success = FALSE}
           Many(S, i, j) == Cardinality(S \cap (i..j)) >= FailureThreshold
           Clear(e) == e.type # "file_modified" /\ (Ends(e, c) => e.success # TRUE)
<1>1. A = B
    BY DEF Fails
<1>2. ASSUME NEW k PROVE ~Heals(s[k], c) <=> Clear(s[k])
    BY DEF Heals
<1>3. FailingInVain(s, c) <=> \E i, j \in B : Many(B, i, j) /\ \A k \in i..j : Clear(s[k])
    BY DEF FailingInVain
<1> HIDE DEF A, B, Many, Clear
<1>4. FailingInVain(s, c) <=> \E i, j \in A : Many(A, i, j) /\ \A k \in i..j : ~Heals(s[k], c)
    BY <1>1, <1>2, <1>3
<1> QED BY <1>4 DEF A, Many

\* More events end no case of a failing command; warnings alone make none.
LEMMA FailuresKept ==
    ASSUME NEW s \in Seq(Events), NEW t \in Seq(Events), NEW c
    PROVE  /\ FailingInVain(s, c) => FailingInVain(s \o t, c)
           /\ Silent(t) /\ FailingInVain(s \o t, c) => FailingInVain(s, c)
<1> DEFINE old == {k \in DOMAIN s : Fails(s[k], c)}
           all == {k \in DOMAIN (s \o t) : Fails((s \o t)[k], c)}
           Between(hits, i, j) == Cardinality(hits \cap (i..j)) >= FailureThreshold
           Clear(u, i, j) == \A k \in i..j : ~Heals(u[k], c)
<1>1. old \subseteq all
    BY Prefix
<1>2. \A i, j \in old : old \cap (i..j) = all \cap (i..j) /\ (Clear(s, i, j) <=> Clear(s \o t, i, j))
    <2> SUFFICES ASSUME NEW i \in DOMAIN s, NEW j \in DOMAIN s
                 PROVE  /\ \A k \in i..j : k \in old <=> k \in all
                        /\ Clear(s, i, j) <=> Clear(s \o t, i, j)
        OBVIOUS
    <2>1. \A k \in i..j : k \in DOMAIN s /\ k \in DOMAIN (s \o t) /\ (s \o t)[k] = s[k]
        BY Prefix
    <2> QED BY <2>1
<1>3. Silent(t) => all \subseteq old
    BY Prefix DEF Fails, Ends
<1>4. /\ FailingInVain(s, c) <=> \E i, j \in old : Between(old, i, j) /\ Clear(s, i, j)
      /\ FailingInVain(s \o t, c) <=> \E i, j \in all : Between(all, i, j) /\ Clear(s \o t, i, j)
    BY FailingMeans
<1>5. \A i, j \in old : Between(old, i, j) <=> Between(all, i, j)
    BY <1>2
<1> HIDE DEF old, all, Between, Clear
<1> QED BY <1>1, <1>2, <1>3, <1>4, <1>5

\* Warnings alone are no change of a path.
LEMMA StraysKept ==
    ASSUME NEW s \in Seq(Events), NEW t \in Seq(Events), NEW p, Silent(t), Strays(s \o t, p)
    PROVE  Strays(s, p)
BY Prefix DEF Strays, Modifies

\* The findings of the governor are the situations it stands for.
LEMMA Inspected ==
    ASSUME NEW phase, NEW compiled \in BOOLEAN, NEW s \in Seq(Events)
    PROVE  /\ Inspect(phase, compiled, s) \in Seq(Findings)
           /\ \A f \in ToSet(Inspect(phase, compiled, s)) :
                 /\ f.kind \in {"repeated_read", "failure_loop", "scope_expansion"}
                 /\ f.kind = "repeated_read" => ReadInVain(s, f.subject)
                 /\ f.kind = "failure_loop" => FailingInVain(s, f.subject)
                 /\ phase # "done"
                 /\ f.kind = "repeated_read" => f.subject \in Paths
                 /\ f.kind = "failure_loop" => f.subject \in Commands
                 /\ f.kind = "scope_expansion" =>
                       f.subject \in Paths /\ Strays(s, f.subject) /\ compiled /\ Scope # {}
           /\ phase # "done" =>
                 /\ \A p \in Paths : ReadInVain(s, p) =>
                       Finding("repeated_read", p) \in ToSet(Inspect(phase, compiled, s))
                 /\ \A c \in Commands : FailingInVain(s, c) =>
                       Finding("failure_loop", c) \in ToSet(Inspect(phase, compiled, s))
                 /\ compiled /\ Scope # {} => \A p \in Paths : Strays(s, p) =>
                       Finding("scope_expansion", p) \in ToSet(Inspect(phase, compiled, s))
<1> DEFINE R == RepeatedReads(s)
           L == FailureLoops(s)
           E == ScopeExpansion(compiled, s)
<1>1. /\ R \in Seq(Findings)
      /\ ToSet(R) = {Finding("repeated_read", p) : p \in {q \in Paths : ReadInVain(s, q)}}
    BY ReadsFound
<1>2. /\ L \in Seq(Findings)
      /\ ToSet(L) = {Finding("failure_loop", c) : c \in {d \in Commands : FailingInVain(s, d)}}
    BY FailuresFound
<1>3. /\ E \in Seq(Findings)
      /\ ToSet(E) = IF compiled /\ Scope # {}
                    THEN {Finding("scope_expansion", p) : p \in {q \in Paths : Strays(s, q)}}
                    ELSE {}
    <2>1. CASE compiled /\ Scope # {}
        <3>1. E = ScopeExpansion(TRUE, s)
            BY <2>1 DEF ScopeExpansion
        <3> QED BY <2>1, <3>1, StraysFound
    <2>2. CASE ~(compiled /\ Scope # {})
        BY <2>2 DEF ScopeExpansion, ToSet
    <2> QED BY <2>1, <2>2
<1>4. /\ (R \o L) \o E \in Seq(Findings)
      /\ ToSet((R \o L) \o E) = ToSet(R) \cup ToSet(L) \cup ToSet(E)
    <2> HIDE DEF R, L, E
    <2>1. R \in Seq(Findings) /\ L \in Seq(Findings) /\ E \in Seq(Findings)
        BY <1>1, <1>2, <1>3
    <2>2. R \o L \in Seq(Findings) /\ ToSet(R \o L) = ToSet(R) \cup ToSet(L)
        BY <2>1, ConcatSet
    <2> DEFINE RL == R \o L
    <2> HIDE DEF RL
    <2>3. RL \in Seq(Findings) /\ ToSet(RL) = ToSet(R) \cup ToSet(L)
        BY <2>2 DEF RL
    <2>4. RL \o E \in Seq(Findings) /\ ToSet(RL \o E) = ToSet(RL) \cup ToSet(E)
        BY <2>1, <2>3, ConcatSet
    <2> QED BY <2>3, <2>4 DEF RL
<1>5. Inspect(phase, compiled, s) = IF phase = "done" THEN << >> ELSE (R \o L) \o E
    BY DEF Inspect
<1>6. /\ << >> \in Seq(Findings) /\ ToSet(<< >>) = {}
    BY DEF ToSet
<1>7. ASSUME NEW f \in ToSet(R) \cup ToSet(L) \cup ToSet(E)
      PROVE  /\ f.kind \in {"repeated_read", "failure_loop", "scope_expansion"}
             /\ f.kind = "repeated_read" => ReadInVain(s, f.subject)
             /\ f.kind = "failure_loop" => FailingInVain(s, f.subject)
             /\ f.kind = "repeated_read" => f.subject \in Paths
             /\ f.kind = "failure_loop" => f.subject \in Commands
             /\ f.kind = "scope_expansion" =>
                   f.subject \in Paths /\ Strays(s, f.subject) /\ compiled /\ Scope # {}
    <2>1. CASE f \in ToSet(R)
        BY <1>1, <2>1 DEF Finding
    <2>2. CASE f \in ToSet(L)
        BY <1>2, <2>2 DEF Finding
    <2>3. CASE f \in ToSet(E)
        BY <1>3, <2>3 DEF Finding
    <2> QED BY <2>1, <2>2, <2>3
<1> HIDE DEF R, L, E
<1> QED BY <1>1, <1>2, <1>3, <1>4, <1>5, <1>6, <1>7

-----------------------------------------------------------------------------
(* Warnings. *)

Warnings == [kind : Kinds, subject : Subjects \cup {"run"}, severity : Severities, at : Nat]

\* No two warnings about the same thing, dealt with or not: more than OneWarningEach.
Distinct(rec) ==
    \A i, j \in DOMAIN rec.warnings :
        /\ i # j
        /\ rec.warnings[i].subject \notin {None, "run"}
        => Signature(rec.warnings[i]) # Signature(rec.warnings[j])

\* Every warning of a loop or of repeated reads has its cause in s.
Founded(rec, s) ==
    \A w \in ToSet(rec.warnings) :
        /\ w.kind = "repeated_read" => ReadInVain(s, w.subject)
        /\ w.kind = "failure_loop" => FailingInVain(s, w.subject)

\* Every situation of s has its warning.
Covered(rec, s) ==
    LET warned(kind, x) == <<kind, x>> \in {Signature(w) : w \in ToSet(rec.warnings)}
    IN  rec.phase # "done" =>
            /\ \A p \in Paths : ReadInVain(s, p) => warned("repeated_read", p)
            /\ \A c \in Commands : FailingInVain(s, c) => warned("failure_loop", c)
            /\ rec.compilations > 0 /\ Scope # {} =>
                   \A p \in Paths : Strays(s, p) => warned("scope_expansion", p)

WarningsOK(rec, s) ==
    rec.warnings \in Seq(Warnings) /\ Distinct(rec) /\ Founded(rec, s)

\* What WithWarnings leaves, and what it adds.
LEMMA WithWarningsAdds ==
    ASSUME NEW rec, rec = [rec EXCEPT !.phase = rec.phase], "warnings" \in DOMAIN rec,
           rec.warnings \in Seq(Warnings), clock \in Nat, NEW found \in Seq(Findings)
    PROVE  LET new == [i \in DOMAIN found |-> Warning(found[i])]
           IN  /\ new \in Seq(Warnings) /\ Len(new) = Len(found) /\ DOMAIN new = DOMAIN found
               /\ WithWarnings(rec, found).warnings = rec.warnings \o new
               /\ DOMAIN WithWarnings(rec, found) = DOMAIN rec
               /\ \A field \in DOMAIN rec : field # "warnings" =>
                     WithWarnings(rec, found)[field] = rec[field]
<1> DEFINE new == [i \in DOMAIN found |-> Warning(found[i])]
<1>1. DOMAIN found = 1..Len(found) /\ Len(found) \in Nat
    OBVIOUS
<1>2. \A i \in DOMAIN found : Warning(found[i]) \in Warnings
    <2> SUFFICES ASSUME NEW f \in Findings PROVE Warning(f) \in Warnings
        BY <1>1
    <2>1. f.kind \in Kinds /\ f.subject \in Subjects /\ f.severity \in Severities
        BY FindingFields
    <2> QED BY <2>1 DEF Warning, Warnings
<1>3. new \in Seq(Warnings) /\ Len(new) = Len(found) /\ DOMAIN new = DOMAIN found
    BY <1>1, <1>2
<1>4. WithWarnings(rec, found) = [rec EXCEPT !.warnings = @ \o new]
    BY DEF WithWarnings
<1> HIDE DEF new
<1>5. /\ WithWarnings(rec, found).warnings = rec.warnings \o new
      /\ DOMAIN WithWarnings(rec, found) = DOMAIN rec
      /\ \A field \in DOMAIN rec : field # "warnings" =>
            WithWarnings(rec, found)[field] = rec[field]
    BY <1>4
<1> QED BY <1>3, <1>5 DEF new

\* Findings that are new and different are warned about once.
LEMMA UnwarnedDistinct ==
    ASSUME NEW rec, rec = [rec EXCEPT !.phase = rec.phase], "warnings" \in DOMAIN rec,
           rec.warnings \in Seq(Warnings), clock \in Nat, Distinct(rec),
           NEW s \in Seq(Findings)
    PROVE  Distinct(WithWarnings(rec, Unwarned(rec, s)))
<1> DEFINE found == Unwarned(rec, s)
           new == [i \in DOMAIN found |-> Warning(found[i])]
           old == rec.warnings
           n == Len(old)
           all == old \o new
<1>1. found \in Seq(Findings) /\ Once(found) /\ \A f \in ToSet(found) : Signature(f) \notin WarnedOf(rec)
    BY UnwarnedFound
<1> HIDE DEF found
<1>2. /\ new \in Seq(Warnings) /\ Len(new) = Len(found) /\ DOMAIN new = DOMAIN found
      /\ WithWarnings(rec, found).warnings = all
    BY <1>1, WithWarningsAdds
<1>3. /\ n \in Nat /\ Len(new) \in Nat /\ DOMAIN old = 1..n /\ DOMAIN new = 1..Len(new)
      /\ DOMAIN all = 1..(n + Len(new))
      /\ \A i \in 1..n : all[i] = old[i]
      /\ \A i \in 1..Len(new) : all[n + i] = new[i]
    BY <1>2
<1>4. \A i \in DOMAIN new :
          /\ Signature(new[i]) = Signature(found[i]) /\ new[i].subject = found[i].subject
          /\ found[i] \in Findings /\ found[i] \in ToSet(found)
    BY <1>1, <1>2 DEF Warning, Signature, ToSet
<1>5. \A i, j \in DOMAIN new : i # j => Signature(new[i]) # Signature(new[j])
    <2> SUFFICES ASSUME NEW i \in DOMAIN new, NEW j \in DOMAIN new, i # j,
                        Signature(new[i]) = Signature(new[j])
                 PROVE  FALSE
        OBVIOUS
    <2>1. found[i] # found[j]
        BY <1>1, <1>2 DEF Once
    <2>2. Signature(found[i]) = Signature(found[j]) /\ found[i] \in Findings /\ found[j] \in Findings
        BY <1>4
    <2>3. found[i].kind = found[j].kind /\ found[i].subject = found[j].subject
        BY <2>2 DEF Signature
    <2> QED BY <2>1, <2>2, <2>3, FindingFields
<1>6. ASSUME NEW i \in DOMAIN old, NEW j \in DOMAIN new,
             old[i].subject # None \/ new[j].subject # None
      PROVE  Signature(old[i]) # Signature(new[j])
    <2> SUFFICES ASSUME Signature(old[i]) = Signature(new[j]) PROVE FALSE
        OBVIOUS
    <2>1. old[i].subject = new[j].subject
        BY DEF Signature
    <2>2. old[i].subject # None /\ old[i] \in ToSet(old)
        BY <1>6, <2>1 DEF ToSet
    <2>3. Signature(old[i]) \in WarnedOf(rec)
        BY <2>2 DEF WarnedOf
    <2> QED BY <1>1, <1>4, <2>3
<1> HIDE DEF new, old, all, n
<1>7. ASSUME NEW i \in DOMAIN all, NEW j \in DOMAIN all, i # j, all[i].subject \notin {None, "run"}
      PROVE  Signature(all[i]) # Signature(all[j])
    <2>1. ASSUME NEW k \in DOMAIN all
          PROVE  \/ k \in DOMAIN old /\ all[k] = old[k]
                 \/ \E m \in DOMAIN new : k = n + m /\ all[k] = new[m]
        <3>1. CASE k \in 1..n
            BY <1>3, <3>1
        <3>2. CASE k \notin 1..n
            <4>1. k - n \in 1..Len(new) /\ n + (k - n) = k
                BY <1>3, <3>2, <2>1
            <4> QED BY <1>3, <4>1
        <3> QED BY <3>1, <3>2
    <2>2. CASE /\ i \in DOMAIN old /\ all[i] = old[i]
               /\ j \in DOMAIN old /\ all[j] = old[j]
        BY <1>3, <1>7, <2>2 DEF Distinct, old
    <2>3. CASE /\ i \in DOMAIN old /\ all[i] = old[i]
               /\ \E m \in DOMAIN new : j = n + m /\ all[j] = new[m]
        <3>1. PICK m \in DOMAIN new : j = n + m /\ all[j] = new[m]
            BY <2>3
        <3>2. old[i].subject # None
            BY <1>7, <2>3
        <3>3. Signature(old[i]) # Signature(new[m])
            BY <1>6, <2>3, <3>2
        <3> QED BY <2>3, <3>1, <3>3
    <2>4. CASE /\ j \in DOMAIN old /\ all[j] = old[j]
               /\ \E m \in DOMAIN new : i = n + m /\ all[i] = new[m]
        <3>1. PICK m \in DOMAIN new : i = n + m /\ all[i] = new[m]
            BY <2>4
        <3>2. new[m].subject # None
            BY <1>7, <3>1
        <3>3. Signature(old[j]) # Signature(new[m])
            BY <1>6, <2>4, <3>2
        <3> QED BY <2>4, <3>1, <3>3
    <2>5. CASE /\ \E m \in DOMAIN new : i = n + m /\ all[i] = new[m]
               /\ \E m \in DOMAIN new : j = n + m /\ all[j] = new[m]
        <3>1. PICK l \in DOMAIN new : i = n + l /\ all[i] = new[l]
            BY <2>5
        <3>2. PICK m \in DOMAIN new : j = n + m /\ all[j] = new[m]
            BY <2>5
        <3>3. l # m
            BY <1>7, <3>1, <3>2
        <3> QED BY <1>5, <3>1, <3>2, <3>3
    <2> QED BY <2>1, <2>2, <2>3, <2>4, <2>5
<1>8. Distinct(WithWarnings(rec, found))
    BY <1>2, <1>7 DEF Distinct
<1> QED BY <1>8 DEF found

\* What it warns about it has found.
LEMMA WarnedFor ==
    ASSUME NEW rec, rec = [rec EXCEPT !.phase = rec.phase], "warnings" \in DOMAIN rec,
           rec.warnings \in Seq(Warnings), clock \in Nat, NEW found \in Seq(Findings)
    PROVE  /\ ToSet(WithWarnings(rec, found).warnings) =
                  ToSet(rec.warnings) \cup {Warning(f) : f \in ToSet(found)}
           /\ WithWarnings(rec, found).warnings \in Seq(Warnings)
<1> DEFINE new == [i \in DOMAIN found |-> Warning(found[i])]
<1>1. /\ new \in Seq(Warnings)
      /\ WithWarnings(rec, found).warnings = rec.warnings \o new
    BY WithWarningsAdds
<1>2. ToSet(new) = {Warning(f) : f \in ToSet(found)}
    BY DEF ToSet
<1> HIDE DEF new
<1>3. /\ rec.warnings \o new \in Seq(Warnings)
      /\ ToSet(rec.warnings \o new) = ToSet(rec.warnings) \cup ToSet(new)
    BY <1>1, ConcatSet
<1> QED BY <1>1, <1>2, <1>3

\* Findings that have their cause are warned about soundly.
LEMMA UnwarnedOK ==
    ASSUME NEW rec, rec = [rec EXCEPT !.phase = rec.phase], "warnings" \in DOMAIN rec,
           clock \in Nat, NEW s, WarningsOK(rec, s), NEW findings \in Seq(Findings),
           \A f \in ToSet(findings) : /\ f.kind = "repeated_read" => ReadInVain(s, f.subject)
                                      /\ f.kind = "failure_loop" => FailingInVain(s, f.subject)
    PROVE  WarningsOK(WithWarnings(rec, Unwarned(rec, findings)), s)
<1> DEFINE found == Unwarned(rec, findings)
<1>1. found \in Seq(Findings) /\ ToSet(found) \subseteq ToSet(findings)
    BY UnwarnedFound
<1>2. /\ ToSet(WithWarnings(rec, found).warnings) =
             ToSet(rec.warnings) \cup {Warning(f) : f \in ToSet(found)}
      /\ WithWarnings(rec, found).warnings \in Seq(Warnings)
    <2> HIDE DEF found
    <2> QED BY <1>1, WarnedFor DEF WarningsOK
<1>3. Distinct(WithWarnings(rec, found))
    BY UnwarnedDistinct DEF WarningsOK
<1> HIDE DEF found
<1>4. \A f \in ToSet(found) : /\ Warning(f).kind = f.kind /\ Warning(f).subject = f.subject
    BY DEF Warning
<1>5. Founded(WithWarnings(rec, found), s)
    BY <1>1, <1>2, <1>4 DEF Founded, WarningsOK
<1> QED BY <1>2, <1>3, <1>5 DEF WarningsOK, found

-----------------------------------------------------------------------------
(* The governor's step. *)

Acknowledged == {"scope_expansion", "test_tampering"} \X Paths
CommandRecords == [command : Commands, started : Nat, finished : Nat \cup {None},
                   success : Success \cup {None}]
Verdicts == [criterion : Criteria, status : Statuses, at : Nat]
Records ==
    [phase : ToSet(Phases), reads : Seq(Paths), modified : Seq(Paths),
     decisions : Seq(Decisions), failed : Seq(Decisions), acked : SUBSET Acknowledged,
     commands : Seq(CommandRecords), warnings : Seq(Warnings), compilations : Nat,
     verification : Seq(Verdicts), patches : Seq(Patches), tokens : Int,
     verified : BOOLEAN]

\* A finding's event.
LEMMA RaisingType ==
    ASSUME NEW found \in Seq(Findings), clock \in Nat
    PROVE  Raising(found) \in Seq(Events) /\ Silent(Raising(found))
<1>1. DOMAIN found = 1..Len(found) /\ Len(found) \in Nat
    OBVIOUS
<1>2. ASSUME NEW f \in Findings
      PROVE  Raised(f) \in Events /\ Raised(f).type = "warning_raised"
    <2>1. f.kind \in Kinds /\ f.subject \in Subjects /\ f.severity \in Severities
        BY FindingFields
    <2> QED BY <2>1 DEF Raised, Events
<1>3. \A i \in 1..Len(found) : found[i] \in Findings
    OBVIOUS
<1>4. Raising(found) = [i \in 1..Len(found) |-> Raised(found[i])]
    BY <1>1 DEF Raising
<1>5. \A i \in 1..Len(found) : Raised(found[i]) \in Events /\ Raised(found[i]).type = "warning_raised"
    BY <1>2, <1>3
<1> QED BY <1>1, <1>4, <1>5 DEF Silent, ToSet

\* More events take no cause away.
LEMMA StillFounded ==
    ASSUME NEW rec, NEW s \in Seq(Events), NEW t \in Seq(Events), WarningsOK(rec, s)
    PROVE  WarningsOK(rec, s \o t)
BY ReadsKept, FailuresKept DEF WarningsOK, Founded

\* What WithWarnings makes of a record.
LEMMA WarnedType ==
    ASSUME NEW rec \in Records, NEW found \in Seq(Findings), clock \in Nat
    PROVE  /\ WithWarnings(rec, found) \in Records
           /\ \A field \in DOMAIN rec : field # "warnings" =>
                 WithWarnings(rec, found)[field] = rec[field]
           /\ ToSet(WithWarnings(rec, found).warnings) =
                 ToSet(rec.warnings) \cup {Warning(f) : f \in ToSet(found)}
<1>1. rec = [rec EXCEPT !.phase = rec.phase] /\ "warnings" \in DOMAIN rec
      /\ rec.warnings \in Seq(Warnings)
    BY DEF Records
<1> DEFINE new == [i \in DOMAIN found |-> Warning(found[i])]
<1>2. /\ new \in Seq(Warnings)
      /\ \A field \in DOMAIN rec : field # "warnings" =>
            WithWarnings(rec, found)[field] = rec[field]
    BY <1>1, WithWarningsAdds
<1>3. WithWarnings(rec, found) = [rec EXCEPT !.warnings = @ \o new]
    BY DEF WithWarnings
<1> HIDE DEF new
<1>4. WithWarnings(rec, found) \in Records
    <2>1. rec.warnings \o new \in Seq(Warnings)
        BY <1>1, <1>2
    <2> HIDE DEF Warnings
    <2> QED BY <1>3, <2>1 DEF Records
<1> QED BY <1>1, <1>2, <1>4, WarnedFor

\* The governor's step: sound, complete, and nothing but warnings.
LEMMA GovernedOK ==
    ASSUME NEW rec \in Records, NEW past \in Seq(Events), NEW new \in Seq(Events),
           clock \in Nat, WarningsOK(rec, past)
    PROVE  LET saved == Governed(rec, past, new)
           IN  /\ saved.record \in Records
               /\ saved.stream \in Seq(Events) /\ saved.events \in Seq(Events)
               /\ WarningsOK(saved.record, saved.stream)
               /\ Covered(saved.record, saved.stream)
               /\ \A field \in DOMAIN rec : field # "warnings" => saved.record[field] = rec[field]
<1> DEFINE s == past \o new
           findings == Inspect(rec.phase, rec.compilations > 0, s)
           found == Unwarned(rec, findings)
           after == WithWarnings(rec, found)
           t == Raising(found)
<1>1. rec = [rec EXCEPT !.phase = rec.phase] /\ "warnings" \in DOMAIN rec
      /\ rec.warnings \in Seq(Warnings) /\ (rec.compilations > 0) \in BOOLEAN
    BY DEF Records
<1>2. s \in Seq(Events) /\ WarningsOK(rec, s)
    BY StillFounded
<1>3. /\ Governed(rec, past, new).record = after
      /\ Governed(rec, past, new).stream = past \o (new \o t)
      /\ Governed(rec, past, new).events = new \o t
    BY DEF Governed
<1> HIDE DEF s
<1>4. /\ findings \in Seq(Findings)
      /\ \A f \in ToSet(findings) :
            /\ f.kind = "repeated_read" => ReadInVain(s, f.subject)
            /\ f.kind = "failure_loop" => FailingInVain(s, f.subject)
      /\ rec.phase # "done" =>
            /\ \A p \in Paths : ReadInVain(s, p) => Finding("repeated_read", p) \in ToSet(findings)
            /\ \A c \in Commands : FailingInVain(s, c) => Finding("failure_loop", c) \in ToSet(findings)
            /\ rec.compilations > 0 /\ Scope # {} => \A p \in Paths :
                   Strays(s, p) => Finding("scope_expansion", p) \in ToSet(findings)
    <2> DEFINE compiled == rec.compilations > 0
    <2>1. compiled \in BOOLEAN
        BY <1>1
    <2>2. findings = Inspect(rec.phase, compiled, s)
        OBVIOUS
    <2> HIDE DEF compiled, findings
    <2>3. /\ findings \in Seq(Findings)
          /\ \A f \in ToSet(findings) :
                /\ f.kind = "repeated_read" => ReadInVain(s, f.subject)
                /\ f.kind = "failure_loop" => FailingInVain(s, f.subject)
          /\ rec.phase # "done" =>
                /\ \A p \in Paths : ReadInVain(s, p) => Finding("repeated_read", p) \in ToSet(findings)
                /\ \A c \in Commands : FailingInVain(s, c) => Finding("failure_loop", c) \in ToSet(findings)
                /\ compiled /\ Scope # {} => \A p \in Paths :
                       Strays(s, p) => Finding("scope_expansion", p) \in ToSet(findings)
        BY <1>2, <2>1, <2>2, Inspected
    <2> QED BY <2>3 DEF compiled
<1> HIDE DEF findings
<1>5. /\ found \in Seq(Findings)
      /\ \A f \in ToSet(findings) : Signature(f) \in WarnedOf(rec) \/ \E g \in ToSet(found) : Signature(g) = Signature(f)
    BY <1>4, UnwarnedFound
<1>6. WarningsOK(after, s)
    BY <1>1, <1>2, <1>4, UnwarnedOK
<1> HIDE DEF found
<1>7. /\ after \in Records
      /\ \A field \in DOMAIN rec : field # "warnings" => after[field] = rec[field]
      /\ ToSet(after.warnings) = ToSet(rec.warnings) \cup {Warning(f) : f \in ToSet(found)}
    BY <1>5, WarnedType
<1>8. t \in Seq(Events) /\ Silent(t)
    BY <1>5, RaisingType
<1> HIDE DEF t, after
<1>9. /\ past \o (new \o t) = s \o t
      /\ new \o t \in Seq(Events) /\ s \o t \in Seq(Events)
    BY <1>2, <1>8 DEF s
<1>10. WarningsOK(after, s \o t)
    BY <1>2, <1>6, <1>8, StillFounded
<1>11. \A f \in ToSet(findings) : Signature(f) \in {Signature(w) : w \in ToSet(after.warnings)}
    <2> SUFFICES ASSUME NEW f \in ToSet(findings)
                 PROVE  \E w \in ToSet(after.warnings) : Signature(w) = Signature(f)
        OBVIOUS
    <2>1. CASE Signature(f) \in WarnedOf(rec)
        BY <1>7, <2>1 DEF WarnedOf
    <2>2. CASE \E g \in ToSet(found) : Signature(g) = Signature(f)
        <3>1. PICK g \in ToSet(found) : Signature(g) = Signature(f)
            BY <2>2
        <3>2. Signature(Warning(g)) = Signature(g) /\ Warning(g) \in ToSet(after.warnings)
            BY <1>7 DEF Signature, Warning
        <3> QED BY <3>1, <3>2
    <2> QED BY <1>5, <2>1, <2>2
<1>12. Covered(after, s \o t)
    <2>1. \A kind, x : Signature(Finding(kind, x)) = <<kind, x>>
        BY DEF Signature, Finding
    <2>2. after.phase = rec.phase /\ after.compilations = rec.compilations
        BY <1>7 DEF Records
    <2>3. \A x : /\ ReadInVain(s \o t, x) => ReadInVain(s, x)
                 /\ FailingInVain(s \o t, x) => FailingInVain(s, x)
                 /\ Strays(s \o t, x) => Strays(s, x)
        BY <1>2, <1>8, ReadsKept, FailuresKept, StraysKept
    <2>4. \A kind, x : Finding(kind, x) \in ToSet(findings) =>
              <<kind, x>> \in {Signature(w) : w \in ToSet(after.warnings)}
        <3> SUFFICES ASSUME NEW kind, NEW x, Finding(kind, x) \in ToSet(findings)
                     PROVE  <<kind, x>> \in {Signature(w) : w \in ToSet(after.warnings)}
            OBVIOUS
        <3> QED BY <1>11, <2>1
    <2> DEFINE W == {Signature(w) : w \in ToSet(after.warnings)}
    <2> HIDE DEF W
    <2>5. \A kind, x : Finding(kind, x) \in ToSet(findings) => <<kind, x>> \in W
        BY <2>4 DEF W
    <2>6. SUFFICES after.phase # "done" =>
            /\ \A p \in Paths : ReadInVain(s \o t, p) => <<"repeated_read", p>> \in W
            /\ \A c \in Commands : FailingInVain(s \o t, c) => <<"failure_loop", c>> \in W
            /\ after.compilations > 0 /\ Scope # {} =>
                   \A p \in Paths : Strays(s \o t, p) => <<"scope_expansion", p>> \in W
        BY DEF Covered, W
    <2> QED BY <1>4, <2>2, <2>3, <2>5
<1> QED BY <1>3, <1>7, <1>9, <1>10, <1>12

-----------------------------------------------------------------------------
(* The invariant. *)

LInv ==
    /\ record \in Records
    /\ stream \in Seq(Events)
    /\ clock \in 1..(MaxTransactions + 1)
    /\ WarningsOK(record, stream)
    /\ Covered(record, stream)

\* Saving what keeps the warnings.
LEMMA SaveKeeps ==
    ASSUME LInv, NEW rec \in Records, NEW new \in Seq(Events), WarningsOK(rec, stream),
           Save(rec, new)
    PROVE  LInv' /\ record'.phase = rec.phase
<1>1. stream \in Seq(Events) /\ clock \in Nat /\ MaxTransactions \in Nat
    BY BoundAssumption DEF LInv
<1> DEFINE saved == Governed(rec, stream, new)
<1>2. /\ saved.record \in Records
      /\ saved.stream \in Seq(Events)
      /\ WarningsOK(saved.record, saved.stream)
      /\ Covered(saved.record, saved.stream)
      /\ \A field \in DOMAIN rec : field # "warnings" => saved.record[field] = rec[field]
    BY <1>1, GovernedOK
<1>3. record' = saved.record /\ stream' = saved.stream
    BY DEF Save
<1>4. clock' \in 1..(MaxTransactions + 1)
    BY <1>1 DEF Save, LInv
<1> HIDE DEF saved
<1>5. record'.phase = rec.phase
    BY <1>2, <1>3 DEF Records
<1> QED BY <1>2, <1>3, <1>4, <1>5 DEF LInv

\* The operations that raise no warning themselves.
LEMMA SavePlain ==
    ASSUME LInv, NEW rec \in Records, NEW new \in Seq(Events), rec.warnings = record.warnings,
           Save(rec, new)
    PROVE  LInv' /\ record'.phase = rec.phase
<1>1. WarningsOK(rec, stream)
    BY DEF LInv, WarningsOK, Distinct, Founded
<1> QED BY <1>1, SaveKeeps

\* What an assessment finds is no loop and no repeated read.
LEMMA AssessedOK ==
    ASSUME LInv, NEW rec \in Records, rec.warnings = record.warnings,
           NEW findings \in Seq(Findings),
           \A f \in ToSet(findings) : f.kind \in {"scope_expansion", "test_tampering"}
    PROVE  /\ WithWarnings(rec, Unwarned(record, findings)) \in Records
           /\ WarningsOK(WithWarnings(rec, Unwarned(record, findings)), stream)
           /\ WithWarnings(rec, Unwarned(record, findings)).phase = rec.phase
           /\ Raising(Unwarned(record, findings)) \in Seq(Events)
<1> DEFINE found == Unwarned(record, findings)
<1>1. clock \in Nat /\ WarningsOK(rec, stream)
    BY DEF LInv, WarningsOK, Distinct, Founded
<1>2. found = Unwarned(rec, findings)
    BY DEF Unwarned
<1>3. found \in Seq(Findings)
    BY UnwarnedFound
<1>4. rec = [rec EXCEPT !.phase = rec.phase] /\ "warnings" \in DOMAIN rec /\ "phase" \in DOMAIN rec
    BY DEF Records
<1>5. WarningsOK(WithWarnings(rec, Unwarned(rec, findings)), stream)
    BY <1>1, <1>4, UnwarnedOK
<1> HIDE DEF found
<1>6. /\ WithWarnings(rec, found) \in Records
      /\ WithWarnings(rec, found).phase = rec.phase
    BY <1>1, <1>3, <1>4, WarnedType
<1>7. Raising(found) \in Seq(Events)
    BY <1>1, <1>3, RaisingType
<1> QED BY <1>2, <1>5, <1>6, <1>7 DEF found

\* One warning more, about nothing that is counted.
LEMMA OneMore ==
    ASSUME LInv, NEW w \in Warnings, w.subject \in {None, "run"},
           w.kind \notin {"repeated_read", "failure_loop"}
    PROVE  /\ [record EXCEPT !.warnings = Append(@, w)] \in Records
           /\ WarningsOK([record EXCEPT !.warnings = Append(@, w)], stream)
<1> DEFINE rec == [record EXCEPT !.warnings = Append(@, w)]
           old == record.warnings
<1>1. record \in Records /\ old \in Seq(Warnings) /\ Distinct(record) /\ Founded(record, stream)
    BY DEF LInv, WarningsOK
<1>2. Append(old, w) \in Seq(Warnings) /\ ToSet(Append(old, w)) = ToSet(old) \cup {w}
    BY <1>1, AppendSet
<1>3. rec \in Records /\ rec.warnings = Append(old, w)
    <2> HIDE DEF Warnings
    <2> QED BY <1>1, <1>2 DEF Records
<1>4. /\ DOMAIN old = 1..Len(old) /\ Len(old) \in Nat
      /\ DOMAIN Append(old, w) = 1..(Len(old) + 1)
      /\ Append(old, w)[Len(old) + 1] = w
      /\ \A i \in 1..Len(old) : Append(old, w)[i] = old[i]
    BY <1>1
<1> HIDE DEF rec, old
<1>5. Distinct(rec)
    <2> SUFFICES ASSUME NEW i \in 1..(Len(old) + 1), NEW j \in 1..(Len(old) + 1), i # j,
                        Append(old, w)[i].subject \notin {None, "run"}
                 PROVE  Signature(Append(old, w)[i]) # Signature(Append(old, w)[j])
        BY <1>3, <1>4 DEF Distinct
    <2>1. i \in 1..Len(old) /\ Append(old, w)[i] = old[i]
        BY <1>4
    <2>2. CASE j \in 1..Len(old)
        BY <1>1, <1>4, <2>1, <2>2 DEF Distinct, old
    <2>3. CASE j = Len(old) + 1
        BY <1>4, <2>1, <2>3 DEF Signature
    <2> QED BY <1>4, <2>2, <2>3
<1>6. Founded(rec, stream)
    BY <1>1, <1>2, <1>3 DEF Founded, old
<1> QED BY <1>2, <1>3, <1>5, <1>6 DEF WarningsOK, rec

\* The first position a search finds.
LEMMA Earliest ==
    ASSUME NEW n \in Nat, NEW I \in SUBSET (1..n), I # {}
    PROVE  Min(I) \in I
<1>1. I \in SUBSET (0..n)
    OBVIOUS
<1>2. \E m \in I : \A k \in I : m <= k
    BY <1>1, FirstOne
<1> QED BY <1>2 DEF Min

\* Taking an element out.
LEMMA Removed ==
    ASSUME NEW S, NEW s \in Seq(S), NEW i \in 1..Len(s)
    PROVE  RemoveAt(s, i) \in Seq(S) /\ s[i] \in S
<1>1. SubSeq(s, 1, i - 1) \in Seq(S)
    OBVIOUS
<1>2. SubSeq(s, i + 1, Len(s)) \in Seq(S)
    OBVIOUS
<1> QED BY <1>1, <1>2 DEF RemoveAt

\* A finished command is a command, whatever was open.
LEMMA FinishType ==
    ASSUME NEW commands \in Seq(CommandRecords), NEW c \in Commands, NEW success \in Success,
           NEW at \in Nat
    PROVE  Finish(commands, c, success, at) \in Seq(CommandRecords)
<1> DEFINE I == {i \in 1..Len(commands) : commands[i].command = c /\ commands[i].finished = None}
           i == IF I # {} THEN Min(I) ELSE 0
<1>1. Finish(commands, c, success, at) =
         IF i # 0 THEN Append(RemoveAt(commands, i),
                              [commands[i] EXCEPT !.finished = at, !.success = success])
         ELSE Append(commands, Command(c, at, at, success))
    BY DEF Finish, SelectInSeq
<1>2. i # 0 => i \in 1..Len(commands)
    <2>1. Len(commands) \in Nat /\ I \in SUBSET (1..Len(commands))
        OBVIOUS
    <2> HIDE DEF I
    <2> QED BY <2>1, Earliest
<1> HIDE DEF i
<1>3. CASE i # 0
    <2>1. RemoveAt(commands, i) \in Seq(CommandRecords) /\ commands[i] \in CommandRecords
        BY <1>2, <1>3, Removed
    <2>2. [commands[i] EXCEPT !.finished = at, !.success = success] \in CommandRecords
        BY <2>1 DEF CommandRecords
    <2> HIDE DEF CommandRecords
    <2> QED BY <1>1, <1>3, <2>1, <2>2
<1>4. CASE i = 0
    <2>1. Command(c, at, at, success) \in CommandRecords
        BY DEF Command, CommandRecords
    <2> QED BY <1>1, <1>4, <2>1
<1> QED BY <1>3, <1>4

\* Applying a patch leaves patches.
LEMMA MarkAppliedType ==
    ASSUME NEW patches \in Seq(Patches), NEW id, NEW at \in Nat
    PROVE  MarkApplied(patches, id, at) \in Seq(Patches)
<1> DEFINE I == {i \in 1..Len(patches) : patches[i].id = id}
           i == IF I # {} THEN Min(I) ELSE 0
<1>1. MarkApplied(patches, id, at) =
         IF i = 0 THEN patches
         ELSE Append(RemoveAt(patches, i), [patches[i] EXCEPT !.status = "applied", !.applied = at])
    BY DEF MarkApplied, SelectInSeq
<1>2. i # 0 => i \in 1..Len(patches)
    <2>1. Len(patches) \in Nat /\ I \in SUBSET (1..Len(patches))
        OBVIOUS
    <2> HIDE DEF I
    <2> QED BY <2>1, Earliest
<1> HIDE DEF i
<1>3. CASE i # 0
    <2>1. RemoveAt(patches, i) \in Seq(Patches) /\ patches[i] \in Patches
        BY <1>2, <1>3, Removed
    <2>2. [patches[i] EXCEPT !.status = "applied", !.applied = at] \in Patches
        BY <2>1 DEF Patches
    <2> HIDE DEF Patches
    <2> QED BY <1>1, <1>3, <2>1, <2>2
<1> QED BY <1>1, <1>3

-----------------------------------------------------------------------------
(* The operations that append one event. *)

\* The record does not go back.
Onward == \A i, j \in DOMAIN Phases :
    record.phase = Phases[i] /\ record'.phase = Phases[j] => i <= j

\* The phases are seven and differ.
LEMMA PhaseOrder ==
    /\ DOMAIN Phases = 1..7
    /\ \A i, j \in DOMAIN Phases : Phases[i] = Phases[j] => i = j
    /\ \A i \in DOMAIN Phases : Phases[i] \in ToSet(Phases)
    /\ ToSet(Phases) = {"understand", "investigate", "plan", "implement", "verify", "review", "done"}
<1>1. DOMAIN Phases = 1..7
    BY DEF Phases
<1>2. /\ Phases[1] = "understand" /\ Phases[2] = "investigate" /\ Phases[3] = "plan"
      /\ Phases[4] = "implement" /\ Phases[5] = "verify" /\ Phases[6] = "review"
      /\ Phases[7] = "done"
    BY DEF Phases
<1>3. 1..7 = {1, 2, 3, 4, 5, 6, 7}
    OBVIOUS
<1> QED BY <1>1, <1>2, <1>3 DEF ToSet

\* A record that stays in its phase does not go back.
LEMMA Stays == ASSUME record'.phase = record.phase PROVE Onward
BY PhaseOrder DEF Onward

\* Nor does one that is done.
LEMMA EndsDone == ASSUME record'.phase = "done" PROVE Onward
<1>1. Phases[7] = "done"
    BY DEF Phases
<1> QED BY <1>1, PhaseOrder DEF Onward

\* A list of one.
LEMMA One == ASSUME NEW S, NEW x \in S PROVE <<x>> \in Seq(S)
OBVIOUS

\* One event that is no warning, and a record that keeps phase and warnings.
LEMMA PlainStep ==
    ASSUME LInv, NEW rec, NEW e, rec \in Records, e \in Events, rec.warnings = record.warnings,
           rec.phase = record.phase, Save(rec, <<e>>)
    PROVE  LInv' /\ Onward
BY One, SavePlain, Stays

\* The events.
LEMMA EventKinds ==
    ASSUME clock \in Nat
    PROVE  /\ \A type \in {"task_created", "context_compiled", "run_completed"} :
                 Event(type) \in Events
           /\ \A type \in {"file_read", "file_modified"}, p \in Paths : OnPath(type, p) \in Events
           /\ \A kind \in {None, "failed_approach"}, d \in Decisions : Decided(kind, d) \in Events
           /\ \A x \in Acknowledged : Decided("acknowledge", x) \in Events
           /\ Decided("patch_assessment", None) \in Events
           /\ \A to \in ToSet(Phases) : PhaseChanged(to) \in Events
           /\ \A c \in Commands, success \in Success : Finished(c, success) \in Events
           /\ \A c \in Commands :
                 [type |-> "command_started", command |-> c, at |-> clock] \in Events
           /\ \A k \in Criteria \cup {"*"} :
                 [type |-> "verification_started", criterion |-> k, at |-> clock] \in Events
           /\ \A k \in Criteria, status \in Statuses : Result(k, status) \in Events
           /\ \A n \in Usage : [type |-> "usage_recorded", tokens |-> n, at |-> clock] \in Events
           /\ \A x \in Patches : [type |-> "patch_proposed", patch |-> x, at |-> clock] \in Events
           /\ \A id \in PatchIds : [type |-> "patch_applied", id |-> id, at |-> clock] \in Events
<1>1. \A type \in {"task_created", "context_compiled", "run_completed"} : Event(type) \in Events
    BY DEF Event, Events
<1>2. \A type \in {"file_read", "file_modified"}, p \in Paths : OnPath(type, p) \in Events
    BY DEF OnPath, Events
<1>3. \A kind \in {None, "failed_approach"}, d \in Decisions : Decided(kind, d) \in Events
    BY DEF Decided, Events
<1>4. \A x \in Acknowledged : Decided("acknowledge", x) \in Events
    BY DEF Decided, Events, Acknowledged
<1>5. Decided("patch_assessment", None) \in Events
    BY DEF Decided, Events
<1>6. \A to \in ToSet(Phases) : PhaseChanged(to) \in Events
    BY DEF PhaseChanged, Events
<1>7. \A c \in Commands, success \in Success : Finished(c, success) \in Events
    BY DEF Finished, Events
<1>8. \A c \in Commands : [type |-> "command_started", command |-> c, at |-> clock] \in Events
    BY DEF Events
<1>9. \A k \in Criteria \cup {"*"} :
          [type |-> "verification_started", criterion |-> k, at |-> clock] \in Events
    BY DEF Events
<1>10. \A k \in Criteria, status \in Statuses : Result(k, status) \in Events
    BY DEF Result, Events
<1>11. \A n \in Usage : [type |-> "usage_recorded", tokens |-> n, at |-> clock] \in Events
    BY DEF Events
<1>12. \A x \in Patches : [type |-> "patch_proposed", patch |-> x, at |-> clock] \in Events
    BY DEF Events
<1>13. \A id \in PatchIds : [type |-> "patch_applied", id |-> id, at |-> clock] \in Events
    BY DEF Events
<1> QED BY <1>1, <1>2, <1>3, <1>4, <1>5, <1>6, <1>7, <1>8, <1>9, <1>10, <1>11, <1>12, <1>13

\* Adding a new member leaves a list of its kind.
LEMMA AddNewType ==
    ASSUME NEW S, NEW seq \in Seq(S), NEW x \in S
    PROVE  AddNew(seq, x) \in Seq(S)
BY DEF AddNew

\* record_file_read keeps the invariant and the phase.
LEMMA FileReadStep == ASSUME LInv, NEW p \in Paths, RecordFileRead(p) PROVE LInv' /\ Onward
<1> DEFINE rec == [record EXCEPT !.reads = Append(@, p)]
<1>1. OnPath("file_read", p) \in Events
    BY EventKinds DEF LInv
<1>2. rec \in Records /\ rec.warnings = record.warnings /\ rec.phase = record.phase
    <2>1. Append(record.reads, p) \in Seq(Paths)
        BY DEF LInv, Records
    <2> QED BY <2>1 DEF LInv, Records
<1>3. Save(rec, <<OnPath("file_read", p)>>)
    BY DEF RecordFileRead
<1> HIDE DEF rec
<1> QED BY <1>1, <1>2, <1>3, PlainStep

\* record_file_modified keeps the invariant and the phase.
LEMMA FileModifiedStep == ASSUME LInv, NEW p \in Paths, RecordFileModified(p) PROVE LInv' /\ Onward
<1> DEFINE rec == [record EXCEPT !.modified = AddNew(@, p)]
<1>1. OnPath("file_modified", p) \in Events
    BY EventKinds DEF LInv
<1>2. rec \in Records /\ rec.warnings = record.warnings /\ rec.phase = record.phase
    <2>1. AddNew(record.modified, p) \in Seq(Paths)
        BY AddNewType DEF LInv, Records
    <2> QED BY <2>1 DEF LInv, Records
<1>3. Save(rec, <<OnPath("file_modified", p)>>)
    BY DEF RecordFileModified
<1> HIDE DEF rec
<1> QED BY <1>1, <1>2, <1>3, PlainStep

\* record_decision keeps the invariant and the phase.
LEMMA DecisionStep == ASSUME LInv, NEW d \in Decisions, RecordDecision(d) PROVE LInv' /\ Onward
<1> DEFINE rec == [record EXCEPT !.decisions = Append(@, d)]
<1>1. Decided(None, d) \in Events
    BY EventKinds DEF LInv
<1>2. rec \in Records /\ rec.warnings = record.warnings /\ rec.phase = record.phase
    <2>1. Append(record.decisions, d) \in Seq(Decisions)
        BY DEF LInv, Records
    <2> QED BY <2>1 DEF LInv, Records
<1>3. Save(rec, <<Decided(None, d)>>)
    BY DEF RecordDecision
<1> HIDE DEF rec
<1> QED BY <1>1, <1>2, <1>3, PlainStep

\* record_failed_approach keeps the invariant and the phase.
LEMMA FailedApproachStep ==
    ASSUME LInv, NEW d \in Decisions, RecordFailedApproach(d) PROVE LInv' /\ Onward
<1> DEFINE rec == [record EXCEPT !.failed = Append(@, d)]
<1>1. Decided("failed_approach", d) \in Events
    BY EventKinds DEF LInv
<1>2. rec \in Records /\ rec.warnings = record.warnings /\ rec.phase = record.phase
    <2>1. Append(record.failed, d) \in Seq(Decisions)
        BY DEF LInv, Records
    <2> QED BY <2>1 DEF LInv, Records
<1>3. Save(rec, <<Decided("failed_approach", d)>>)
    BY DEF RecordFailedApproach
<1> HIDE DEF rec
<1> QED BY <1>1, <1>2, <1>3, PlainStep

\* acknowledge keeps the invariant and the phase.
LEMMA AcknowledgeStep ==
    ASSUME LInv, NEW kind \in {"scope_expansion", "test_tampering"}, NEW p \in Paths,
           Acknowledge(kind, p)
    PROVE  LInv' /\ Onward
<1> DEFINE rec == [record EXCEPT !.acked = @ \cup {<<kind, p>>}]
<1>1. <<kind, p>> \in Acknowledged
    BY DEF Acknowledged
<1>2. Decided("acknowledge", <<kind, p>>) \in Events
    BY <1>1, EventKinds DEF LInv
<1>3. rec \in Records /\ rec.warnings = record.warnings /\ rec.phase = record.phase
    BY <1>1 DEF LInv, Records
<1>4. Save(rec, <<Decided("acknowledge", <<kind, p>>)>>)
    BY DEF Acknowledge
<1> HIDE DEF rec
<1> QED BY <1>2, <1>3, <1>4, PlainStep

\* record_usage keeps the invariant and the phase.
LEMMA UsageStep == ASSUME LInv, NEW n \in Usage, RecordUsage(n) PROVE LInv' /\ Onward
<1> DEFINE rec == [record EXCEPT !.tokens = @ + n]
           e == [type |-> "usage_recorded", tokens |-> n, at |-> clock]
<1>1. e \in Events
    BY EventKinds DEF LInv
<1>2. rec \in Records /\ rec.warnings = record.warnings /\ rec.phase = record.phase
    <2>1. record.tokens + n \in Int
        BY ResultsAssumption DEF LInv, Records
    <2> QED BY <2>1 DEF LInv, Records
<1>3. Save(rec, <<e>>)
    BY DEF RecordUsage
<1> HIDE DEF rec, e
<1> QED BY <1>1, <1>2, <1>3, PlainStep

\* command_started keeps the invariant and the phase.
LEMMA CommandStartedStep ==
    ASSUME LInv, NEW c \in Commands, CommandStarted(c) PROVE LInv' /\ Onward
<1> DEFINE rec == [record EXCEPT !.commands = Append(@, Command(c, clock, None, None))]
           e == [type |-> "command_started", command |-> c, at |-> clock]
<1>1. e \in Events
    BY EventKinds DEF LInv
<1>2. Command(c, clock, None, None) \in CommandRecords
    BY DEF Command, CommandRecords, LInv
<1>3. rec \in Records /\ rec.warnings = record.warnings /\ rec.phase = record.phase
    <2>1. Append(record.commands, Command(c, clock, None, None)) \in Seq(CommandRecords)
        BY <1>2 DEF LInv, Records
    <2> QED BY <2>1 DEF LInv, Records
<1>4. Save(rec, <<e>>)
    BY DEF CommandStarted
<1> HIDE DEF rec, e
<1> QED BY <1>1, <1>3, <1>4, PlainStep

\* command_finished keeps the invariant and the phase.
LEMMA CommandFinishedStep ==
    ASSUME LInv, NEW c \in Commands, NEW success \in Success, CommandFinished(c, success)
    PROVE  LInv' /\ Onward
<1> DEFINE rec == [record EXCEPT !.commands = Finish(@, c, success, clock)]
<1>1. Finished(c, success) \in Events
    BY EventKinds DEF LInv
<1>2. Finish(record.commands, c, success, clock) \in Seq(CommandRecords)
    BY FinishType DEF LInv, Records
<1>3. rec \in Records /\ rec.warnings = record.warnings /\ rec.phase = record.phase
    BY <1>2 DEF LInv, Records
<1>4. Save(rec, <<Finished(c, success)>>)
    BY DEF CommandFinished
<1> HIDE DEF rec
<1> QED BY <1>1, <1>3, <1>4, PlainStep

\* verification_started keeps the invariant and the phase.
LEMMA VerificationStartedStep ==
    ASSUME LInv, NEW k \in Criteria, VerificationStarted(k) PROVE LInv' /\ Onward
<1> DEFINE e == [type |-> "verification_started", criterion |-> k, at |-> clock]
<1>1. e \in Events
    BY EventKinds DEF LInv
<1>2. Save(record, <<e>>) /\ record \in Records
    BY DEF VerificationStarted, LInv
<1> HIDE DEF e
<1> QED BY <1>1, <1>2, PlainStep

\* record_verification keeps the invariant and the phase.
LEMMA RecordVerificationStep ==
    ASSUME LInv, NEW k \in Criteria, NEW status \in Statuses, RecordVerification(k, status)
    PROVE  LInv' /\ Onward
<1> DEFINE rec == [record EXCEPT !.verification = Append(@, Verdict(k, status))]
<1>1. Result(k, status) \in Events
    BY EventKinds DEF LInv
<1>2. Verdict(k, status) \in Verdicts
    BY DEF Verdict, Verdicts, LInv
<1>3. rec \in Records /\ rec.warnings = record.warnings /\ rec.phase = record.phase
    <2>1. Append(record.verification, Verdict(k, status)) \in Seq(Verdicts)
        BY <1>2 DEF LInv, Records
    <2> QED BY <2>1 DEF LInv, Records
<1>4. Save(rec, <<Result(k, status)>>)
    BY DEF RecordVerification
<1> HIDE DEF rec
<1> QED BY <1>1, <1>3, <1>4, PlainStep

\* propose_patch keeps the invariant and the phase.
LEMMA ProposeStep ==
    ASSUME LInv, NEW id \in PatchIds, NEW p \in Paths, ProposePatch(id, p) PROVE LInv' /\ Onward
<1> DEFINE patch == [id |-> id, path |-> p, status |-> "proposed", at |-> clock, applied |-> None]
           rec == [record EXCEPT !.patches = Append(@, patch)]
           e == [type |-> "patch_proposed", patch |-> patch, at |-> clock]
<1>1. patch \in Patches
    BY DEF Patches, LInv
<1>2. Save(rec, <<e>>)
    BY DEF ProposePatch
<1> HIDE DEF patch
<1>3. e \in Events
    BY <1>1, EventKinds DEF LInv
<1>4. rec \in Records /\ rec.warnings = record.warnings /\ rec.phase = record.phase
    <2>1. Append(record.patches, patch) \in Seq(Patches)
        BY <1>1 DEF LInv, Records
    <2> QED BY <2>1 DEF LInv, Records
<1> HIDE DEF rec, e
<1> QED BY <1>2, <1>3, <1>4, PlainStep

-----------------------------------------------------------------------------
(* The other operations. *)

\* A record with another phase, and the event that tells it.
LEMMA PhaseWritten ==
    ASSUME LInv, NEW rec \in Records, NEW to \in ToSet(Phases)
    PROVE  /\ [rec EXCEPT !.phase = to] \in Records
           /\ [rec EXCEPT !.phase = to].warnings = rec.warnings
           /\ [rec EXCEPT !.phase = to].phase = to
           /\ PhaseChanged(to) \in Events
<1>1. PhaseChanged(to) \in Events
    BY EventKinds DEF LInv
<1> HIDE DEF LInv
<1> QED BY <1>1 DEF Records

\* compile_context keeps the invariant; the first one moves on to investigating.
LEMMA CompileContextStep == ASSUME LInv, CompileContext PROVE LInv' /\ Onward
<1> DEFINE early == record.phase = "understand"
           to == IF early THEN "investigate" ELSE record.phase
           once == [record EXCEPT !.compilations = @ + 1]
           rec == [once EXCEPT !.phase = to]
           new == <<Event("context_compiled")>>
                     \o IF early THEN <<PhaseChanged("investigate")>> ELSE << >>
<1>1. Save(rec, new)
    <2>1. [record EXCEPT !.compilations = @ + 1,
                         !.phase = IF early THEN "investigate" ELSE @] = rec
        BY DEF LInv, Records
    <2> QED BY <2>1 DEF CompileContext
<1>2. to \in ToSet(Phases)
    BY PhaseOrder DEF LInv, Records
<1>3. once \in Records /\ once.warnings = record.warnings
    <2>1. record.compilations + 1 \in Nat
        BY DEF LInv, Records
    <2> QED BY <2>1 DEF LInv, Records
<1>4. Event("context_compiled") \in Events /\ PhaseChanged("investigate") \in Events
    BY PhaseOrder, EventKinds DEF LInv
<1>5. new \in Seq(Events)
    BY <1>4
<1> HIDE DEF once, new
<1>6. rec \in Records /\ rec.warnings = record.warnings /\ rec.phase = to
    BY <1>2, <1>3, PhaseWritten
<1> HIDE DEF rec
<1>7. LInv' /\ record'.phase = to
    BY <1>1, <1>5, <1>6, SavePlain
<1>8. Onward
    <2>1. CASE early
        <3>1. Phases[1] = "understand" /\ Phases[2] = "investigate"
            BY DEF Phases
        <3> QED BY <1>7, <2>1, <3>1, PhaseOrder DEF Onward
    <2>2. CASE ~early
        BY <1>7, <2>2, Stays
    <2> QED BY <2>1, <2>2
<1> QED BY <1>7, <1>8

\* transition_phase keeps the invariant and moves one phase on.
LEMMA TransitionStep == ASSUME LInv, TransitionPhase PROVE LInv' /\ Onward
<1>1. PICK i \in 1..(Len(Phases) - 1) :
          /\ record.phase = Phases[i]
          /\ Save([record EXCEPT !.phase = Phases[i + 1]], <<PhaseChanged(Phases[i + 1])>>)
    BY DEF TransitionPhase
<1> DEFINE to == Phases[i + 1]
           rec == [record EXCEPT !.phase = to]
<1>2. i \in 1..6 /\ i \in DOMAIN Phases /\ i + 1 \in DOMAIN Phases
    <2>1. Len(Phases) = 7
        BY DEF Phases
    <2> QED BY <1>1, <2>1, PhaseOrder
<1>3. to \in ToSet(Phases)
    BY <1>2, PhaseOrder
<1> HIDE DEF to
<1>4. rec \in Records /\ rec.warnings = record.warnings /\ rec.phase = to /\ PhaseChanged(to) \in Events
    BY <1>3, PhaseWritten DEF LInv
<1>5. <<PhaseChanged(to)>> \in Seq(Events)
    BY <1>4, One
<1>6. Save(rec, <<PhaseChanged(to)>>)
    BY <1>1 DEF to
<1> HIDE DEF rec
<1>7. LInv' /\ record'.phase = to
    BY <1>4, <1>5, <1>6, SavePlain
<1>8. Onward
    <2> SUFFICES ASSUME NEW j \in DOMAIN Phases, NEW k \in DOMAIN Phases,
                        record.phase = Phases[j], record'.phase = Phases[k]
                 PROVE  j <= k
        BY DEF Onward
    <2>1. j = i
        BY <1>1, <1>2, PhaseOrder
    <2>2. k = i + 1
        BY <1>2, <1>7, PhaseOrder DEF to
    <2> QED BY <1>2, <2>1, <2>2
<1> QED BY <1>7, <1>8

\* One warning appended.
LEMMA WithOne ==
    ASSUME LInv, NEW f
    PROVE  /\ WithWarnings(record, <<f>>) = [record EXCEPT !.warnings = Append(@, Warning(f))]
           /\ Raising(<<f>>) = <<Raised(f)>>
<1> DEFINE w == Warning(f)
           one == [i \in DOMAIN <<f>> |-> Warning(<<f>>[i])]
<1>1. DOMAIN <<f>> = {1} /\ <<f>>[1] = f
    OBVIOUS
<1>2. one = <<w>>
    <2>1. one = [i \in {1} |-> w]
        BY <1>1
    <2>2. <<w>> = [i \in {1} |-> w]
        OBVIOUS
    <2> QED BY <2>1, <2>2
<1>3. Raising(<<f>>) = <<Raised(f)>>
    <2>1. Raising(<<f>>) = [i \in {1} |-> Raised(f)]
        BY <1>1 DEF Raising
    <2>2. <<Raised(f)>> = [i \in {1} |-> Raised(f)]
        OBVIOUS
    <2> QED BY <2>1, <2>2
<1>4. WithWarnings(record, <<f>>) = [record EXCEPT !.warnings = @ \o one]
    BY DEF WithWarnings
<1> HIDE DEF w, one
<1>5. record.warnings \o <<w>> = Append(record.warnings, w)
    BY DEF LInv, WarningsOK
<1> QED BY <1>2, <1>3, <1>4, <1>5 DEF w

\* raise_warning, for a context that did not compile, keeps the invariant.
LEMMA RaiseWarningStep == ASSUME LInv, RaiseWarning PROVE LInv' /\ Onward
<1> DEFINE f == Finding("context_compile_failed", None)
           rec == [record EXCEPT !.warnings = Append(@, Warning(f))]
<1>1. f.kind = "context_compile_failed" /\ f.subject = None /\ f.severity = "WARNING"
    BY DEF Finding, KindSeverity
<1>2. Warning(f) \in Warnings /\ Warning(f).subject = None
      /\ Warning(f).kind = "context_compile_failed"
    BY <1>1 DEF Warning, Warnings, Kinds, Subjects, Severities, LInv
<1>3. Raised(f) \in Events
    BY <1>1 DEF Raised, Events, Kinds, Subjects, Severities, LInv
<1>4. Save(rec, <<Raised(f)>>)
    BY WithOne DEF RaiseWarning
<1>5. rec.phase = record.phase
    BY DEF LInv, Records
<1> HIDE DEF f
<1>6. rec \in Records /\ WarningsOK(rec, stream)
    BY <1>2, OneMore
<1>7. <<Raised(f)>> \in Seq(Events)
    BY <1>3, One
<1> HIDE DEF rec
<1> QED BY <1>4, <1>5, <1>6, <1>7, SaveKeeps, Stays

\* The events that end a run.
LEMMA EndedType ==
    ASSUME LInv PROVE Ended \in Seq(Events)
<1>1. Event("run_completed") \in Events /\ PhaseChanged("done") \in Events
    BY PhaseOrder, EventKinds DEF LInv
<1> QED BY <1>1 DEF Ended

\* complete keeps the invariant.
LEMMA CompleteStep == ASSUME LInv, Complete PROVE LInv' /\ Onward
<1> DEFINE rec == [record EXCEPT !.phase = "done"]
<1>1. rec \in Records /\ rec.warnings = record.warnings /\ rec.phase = "done"
    BY PhaseOrder, PhaseWritten DEF LInv
<1>2. Save(rec, Ended)
    BY DEF Complete
<1> HIDE DEF rec
<1> QED BY <1>1, <1>2, EndedType, SavePlain, EndsDone

\* complete(force=True) keeps the invariant.
LEMMA CompleteForcedStep == ASSUME LInv, CompleteForced PROVE LInv' /\ Onward
<1> DEFINE w == Warning(ForcedWarning("run"))
           warned == [record EXCEPT !.warnings = Append(@, w)]
           rec == [warned EXCEPT !.phase = "done"]
           new == <<Raised(ForcedWarning(None))>> \o Ended
<1>1. w \in Warnings /\ w.subject = "run" /\ w.kind = "completion_forced"
    BY DEF Warning, Warnings, ForcedWarning, Kinds, Subjects, Severities, LInv
<1>2. Raised(ForcedWarning(None)) \in Events
    BY DEF Raised, ForcedWarning, Events, Kinds, Subjects, Severities, LInv
<1>3. Save(rec, new)
    BY WithOne DEF CompleteForced
<1>4. new \in Seq(Events)
    BY <1>2, EndedType
<1> HIDE DEF w
<1>5. warned \in Records /\ WarningsOK(warned, stream)
    BY <1>1, OneMore
<1> HIDE DEF warned, new
<1>6. rec \in Records /\ rec.warnings = warned.warnings /\ rec.phase = "done"
    BY <1>5, PhaseOrder, PhaseWritten
<1> HIDE DEF rec
<1>7. WarningsOK(rec, stream)
    BY <1>5, <1>6 DEF WarningsOK, Distinct, Founded
<1> QED BY <1>3, <1>4, <1>6, <1>7, SaveKeeps, EndsDone

\* What an assessment finds is findings of its two kinds.
LEMMA AssessmentsType ==
    ASSUME NEW specs \in Assessments
    PROVE  /\ specs \in Seq(Findings)
           /\ \A f \in ToSet(specs) : f.kind \in {"scope_expansion", "test_tampering"}
<1>1. CASE specs = << >>
    BY <1>1 DEF ToSet
<1>2. CASE \E kind \in {"scope_expansion", "test_tampering"}, p \in Paths : specs = <<Finding(kind, p)>>
    <2>1. PICK kind \in {"scope_expansion", "test_tampering"}, p \in Paths :
              specs = <<Finding(kind, p)>>
        BY <1>2
    <2>2. Finding(kind, p) \in Findings
        BY DEF Findings, Kinds, Subjects
    <2>3. Finding(kind, p).kind = kind
        BY DEF Finding
    <2> HIDE DEF Findings
    <2>4. specs \in Seq(Findings) /\ DOMAIN specs = {1} /\ specs[1] = Finding(kind, p)
        BY <2>1, <2>2
    <2> QED BY <2>3, <2>4 DEF ToSet
<1> QED BY <1>1, <1>2 DEF Assessments

\* assess_patch keeps the invariant and the phase.
LEMMA AssessPatchStep ==
    ASSUME LInv, NEW specs \in Assessments, AssessPatch(specs) PROVE LInv' /\ Onward
<1> DEFINE found == Unwarned(record, specs)
           rec == WithWarnings(record, found)
           new == Raising(found) \o <<Decided("patch_assessment", None)>>
<1>1. Save(rec, new)
    BY DEF AssessPatch
<1>2. rec \in Records /\ WarningsOK(rec, stream) /\ rec.phase = record.phase
      /\ Raising(found) \in Seq(Events)
    BY AssessmentsType, AssessedOK DEF LInv
<1>3. new \in Seq(Events)
    <2>1. Decided("patch_assessment", None) \in Events
        BY EventKinds DEF LInv
    <2> HIDE DEF found
    <2> QED BY <1>2, <2>1
<1> HIDE DEF rec, new
<1> QED BY <1>1, <1>2, <1>3, SaveKeeps, Stays

\* The patch that is found has a path.
LEMMA TargetType ==
    ASSUME LInv, NEW id, Target(id) # 0
    PROVE  record.patches[Target(id)].path \in Paths
<1> DEFINE patches == record.patches
           I == {i \in 1..Len(patches) : patches[i].id = id}
<1>1. patches \in Seq(Patches) /\ I \in SUBSET (1..Len(patches)) /\ Len(patches) \in Nat
    BY DEF LInv, Records
<1>2. Target(id) = IF I # {} THEN Min(I) ELSE 0
    BY DEF Target, SelectInSeq
<1> HIDE DEF I
<1>3. I # {} /\ Target(id) = Min(I)
    BY <1>2
<1>4. Min(I) \in I
    BY <1>1, <1>3, Earliest
<1>5. Target(id) \in 1..Len(patches)
    BY <1>3, <1>4 DEF I
<1>6. patches[Target(id)] \in Patches
    BY <1>1, <1>5
<1> QED BY <1>6 DEF Patches

\* apply_patch that is refused keeps the invariant and the phase.
LEMMA RefuseStep ==
    ASSUME LInv, NEW id, RefusePatch(id) PROVE LInv' /\ Onward
<1> DEFINE p == record.patches[Target(id)].path
           specs == <<Finding("scope_expansion", p)>>
           found == Unwarned(record, specs)
           rec == WithWarnings(record, found)
<1>1. Save(rec, Raising(found))
    BY DEF RefusePatch
<1>2. specs \in Seq(Findings) /\ \A f \in ToSet(specs) : f.kind = "scope_expansion"
    <2>1. p \in Paths
        BY TargetType DEF RefusePatch
    <2>2. Finding("scope_expansion", p) \in Findings
        BY <2>1 DEF Findings, Kinds, Subjects
    <2>3. Finding("scope_expansion", p).kind = "scope_expansion"
        BY DEF Finding
    <2> HIDE DEF Findings, p
    <2>4. specs \in Seq(Findings) /\ DOMAIN specs = {1} /\ specs[1] = Finding("scope_expansion", p)
        BY <2>2
    <2> QED BY <2>3, <2>4 DEF ToSet
<1> HIDE DEF specs
<1>3. rec \in Records /\ WarningsOK(rec, stream) /\ rec.phase = record.phase
      /\ Raising(found) \in Seq(Events)
    BY <1>2, AssessedOK DEF LInv
<1> HIDE DEF rec, found
<1> QED BY <1>1, <1>3, SaveKeeps, Stays

\* apply_patch that edits the file keeps the invariant and the phase, though it
\* asks the governor twice.
LEMMA ApplyStep ==
    ASSUME LInv, NEW id \in PatchIds, ApplyPatch(id) PROVE LInv' /\ Onward
<1> DEFINE p == record.patches[Target(id)].path
           first == IF OutOfScope(p) THEN Governed(record, stream, << >>)
                    ELSE [record |-> record, stream |-> stream, events |-> << >>]
           edits == <<OnPath("file_modified", p),
                      [type |-> "patch_applied", id |-> id, at |-> clock]>>
           new == first.events \o edits
           applied == [first.record EXCEPT !.patches = MarkApplied(@, id, clock),
                                           !.modified = AddNew(@, p)]
           saved == Governed(applied, first.stream, new)
<1>1. /\ Target(id) # 0
      /\ clock \in 1..MaxTransactions /\ clock' = clock + 1
      /\ record' = saved.record /\ stream' = saved.stream
    BY BoundAssumption DEF ApplyPatch, LInv
<1>2. p \in Paths
    BY <1>1, TargetType
<1>3. clock \in Nat /\ record \in Records /\ stream \in Seq(Events) /\ WarningsOK(record, stream)
    BY DEF LInv
<1> HIDE DEF p
<1>4. /\ first.record \in Records /\ first.stream \in Seq(Events) /\ first.events \in Seq(Events)
      /\ WarningsOK(first.record, first.stream) /\ first.record.phase = record.phase
    <2>1. CASE OutOfScope(p)
        <3>1. << >> \in Seq(Events) /\ "phase" \in DOMAIN record
            BY <1>3 DEF Records
        <3> DEFINE G == Governed(record, stream, << >>)
        <3>2. /\ G.record \in Records /\ G.stream \in Seq(Events) /\ G.events \in Seq(Events)
              /\ WarningsOK(G.record, G.stream)
              /\ \A field \in DOMAIN record : field # "warnings" => G.record[field] = record[field]
            BY <1>3, <3>1, GovernedOK
        <3>3. first = G
            BY <2>1
        <3> HIDE DEF G, first
        <3> QED BY <3>1, <3>2, <3>3
    <2>2. CASE ~OutOfScope(p)
        <3>1. << >> \in Seq(Events)
            OBVIOUS
        <3>2. first = [record |-> record, stream |-> stream, events |-> << >>]
            BY <2>2
        <3> HIDE DEF first
        <3> QED BY <1>3, <3>1, <3>2
    <2> QED BY <2>1, <2>2
<1> HIDE DEF first
<1>5. new \in Seq(Events)
    <2>1. OnPath("file_modified", p) \in Events
          /\ [type |-> "patch_applied", id |-> id, at |-> clock] \in Events
        BY <1>2, <1>3, EventKinds
    <2> QED BY <1>4, <2>1
<1>6. /\ applied \in Records /\ applied.warnings = first.record.warnings
      /\ applied.phase = first.record.phase
    <2>1. MarkApplied(first.record.patches, id, clock) \in Seq(Patches)
        BY <1>3, <1>4, MarkAppliedType DEF Records
    <2>2. AddNew(first.record.modified, p) \in Seq(Paths)
        BY <1>2, <1>4, AddNewType DEF Records
    <2> QED BY <1>4, <2>1, <2>2 DEF Records
<1> HIDE DEF new, applied
<1>7. WarningsOK(applied, first.stream)
    BY <1>4, <1>6 DEF WarningsOK, Distinct, Founded
<1>8. /\ saved.record \in Records /\ saved.stream \in Seq(Events)
      /\ WarningsOK(saved.record, saved.stream) /\ Covered(saved.record, saved.stream)
      /\ \A field \in DOMAIN applied : field # "warnings" => saved.record[field] = applied[field]
    BY <1>3, <1>4, <1>5, <1>6, <1>7, GovernedOK
<1> HIDE DEF saved
<1>9. LInv'
    <2>1. clock' \in 1..(MaxTransactions + 1)
        BY <1>1, BoundAssumption
    <2> QED BY <1>1, <1>8, <2>1 DEF LInv
<1>10. "phase" \in DOMAIN applied
    BY <1>6 DEF Records
<1>11. record'.phase = record.phase
    BY <1>1, <1>4, <1>6, <1>8, <1>10
<1> QED BY <1>9, <1>11, Stays

\* Lists joined.
Join(acc, list) == acc \o list

\* The lists joined, one after the other.
LEMMA JoinedAlong ==
    ASSUME NEW S, NEW lists \in Seq(Seq(S))
    PROVE  \E f \in [0..Len(lists) -> Seq(S)] :
              /\ f[0] = << >>
              /\ \A i \in 1..Len(lists) : f[i] = Join(f[i - 1], lists[i])
              /\ Along(LAMBDA acc, list : acc \o list, << >>, lists) = f[Len(lists)]
<1> DEFINE n == Len(lists)
           A == Seq(S)
           F == [i \in 1..n |-> [acc \in A |-> Join(acc, lists[i])]]
           none == << >>
           Is(g) == g = [i \in 0..n |-> IF i = 0 THEN none ELSE Join(g[i - 1], lists[i])]
           f == CHOOSE g : Is(g)
<1>1. n \in Nat /\ none \in A /\ \A i \in 1..n : lists[i] \in A
    OBVIOUS
<1>2. Along(LAMBDA acc, list : acc \o list, << >>, lists) = f[n]
    BY DEF Along, Join
<1>3. \A i \in 1..n, acc \in A : Join(acc, lists[i]) \in A
    BY <1>1 DEF Join
<1> HIDE DEF none, A
<1>4. Steps(F, n, A)
    BY <1>3 DEF Steps
<1>5. \A i \in 1..n, acc \in A : F[i][acc] = Join(acc, lists[i])
    OBVIOUS
<1> HIDE DEF F
<1>6. \E g : Is(g)
    <2>1. PICK g : Follows(g, none, F, n, A)
        BY <1>1, <1>4, Recursion
    <2>2. \A i \in 1..n : i - 1 \in 0..n
        OBVIOUS
    <2>3. ASSUME NEW i \in 1..n PROVE g[i] = Join(g[i - 1], lists[i])
        <3>1. g[i - 1] \in A /\ g[i] = F[i][g[i - 1]]
            BY <2>1, <2>2 DEF Follows
        <3> QED BY <1>5, <3>1
    <2>4. \A i \in 0..n : g[i] = IF i = 0 THEN none ELSE Join(g[i - 1], lists[i])
        <3>1. \A i \in 0..n : i = 0 \/ i \in 1..n
            OBVIOUS
        <3>2. g[0] = none
            BY <2>1 DEF Follows
        <3> QED BY <2>3, <3>1, <3>2
    <2> QED BY <2>1, <2>4 DEF Follows
<1>7. Is(f)
    <2> HIDE DEF Is
    <2> QED BY <1>6
<1> HIDE DEF f
<1>8. /\ f = [i \in 0..n |-> f[i]] /\ f[0] = none
      /\ \A i \in 1..n : f[i] = Join(f[i - 1], lists[i])
    BY <1>1, <1>7
<1>9. Follows(f, none, F, n, A)
    BY <1>1, <1>4, <1>5, <1>8, OneRecursion
<1>10. f \in [0..n -> A]
    BY <1>9 DEF Follows
<1> QED BY <1>2, <1>8, <1>10 DEF none, A

\* They are a list.
LEMMA Joined ==
    ASSUME NEW S, NEW lists \in Seq(Seq(S))
    PROVE  Along(LAMBDA acc, list : acc \o list, << >>, lists) \in Seq(S)
<1> DEFINE A == Seq(S)
<1>1. lists \in Seq(A)
    OBVIOUS
<1>2. Len(lists) \in 0..Len(lists)
    <2>1. Len(lists) \in Nat
        <3> HIDE DEF A
        <3> QED BY <1>1
    <2> QED BY <2>1
<1>3. PICK f \in [0..Len(lists) -> A] :
          Along(LAMBDA acc, list : acc \o list, << >>, lists) = f[Len(lists)]
    BY JoinedAlong
<1> QED BY <1>2, <1>3

\* The criteria in some order.
LEMMA Ordered == SetToSeq(Criteria) \in Seq(Criteria)
<1> DEFINE n == Cardinality(Criteria)
<1>1. IsFiniteSet(Criteria) /\ n \in Nat
    BY ResultsAssumption, FS_CardinalityType
<1>2. \E f \in [1..n -> Criteria] : IsInjective(f)
    <2>1. ExistsBijection(1..n, Criteria)
        BY <1>1, FS_CountingElements, FS_NatBijection
    <2>2. PICK f : f \in Bijection(1..n, Criteria)
        BY <2>1 DEF ExistsBijection
    <2> QED BY <2>2 DEF Bijection, Injection, IsInjective
<1>3. SetToSeq(Criteria) \in [1..n -> Criteria]
    BY <1>2 DEF SetToSeq
<1> QED BY <1>1, <1>3

\* What verify appends for the checks and the criteria.
LEMMA VerifiedTypes ==
    ASSUME LInv, NEW results \in [DOMAIN Checks -> Success],
           NEW statuses \in [Criteria -> Statuses]
    PROVE  LET done == [i \in DOMAIN Checks |-> Command(Checks[i], clock, clock, results[i])]
               ran == [i \in DOMAIN Checks |->
                          <<[type |-> "command_started", command |-> Checks[i], at |-> clock],
                            Finished(Checks[i], results[i])>>]
               order == SetToSeq(Criteria)
           IN  /\ done \in Seq(CommandRecords)
               /\ Along(LAMBDA acc, list : acc \o list, << >>, ran) \in Seq(Events)
               /\ [i \in DOMAIN order |-> Verdict(order[i], statuses[order[i]])] \in Seq(Verdicts)
               /\ [i \in DOMAIN order |-> Result(order[i], statuses[order[i]])] \in Seq(Events)
<1> DEFINE done == [i \in DOMAIN Checks |-> Command(Checks[i], clock, clock, results[i])]
           pair(i) == <<[type |-> "command_started", command |-> Checks[i], at |-> clock],
                        Finished(Checks[i], results[i])>>
           ran == [i \in DOMAIN Checks |-> pair(i)]
           order == SetToSeq(Criteria)
<1>1. /\ DOMAIN Checks = 1..Len(Checks) /\ Len(Checks) \in Nat /\ clock \in Nat
      /\ \A i \in DOMAIN Checks : Checks[i] \in Commands /\ results[i] \in Success
    BY ChecksAssumption DEF LInv
<1>2. done \in Seq(CommandRecords)
    <2>1. \A i \in DOMAIN Checks : Command(Checks[i], clock, clock, results[i]) \in CommandRecords
        BY <1>1 DEF Command, CommandRecords
    <2> HIDE DEF CommandRecords
    <2> QED BY <1>1, <2>1
<1>3. ran \in Seq(Seq(Events))
    <2>1. ASSUME NEW i \in DOMAIN Checks PROVE pair(i) \in Seq(Events)
        <3>1. /\ [type |-> "command_started", command |-> Checks[i], at |-> clock] \in Events
              /\ Finished(Checks[i], results[i]) \in Events
            BY <1>1, EventKinds
        <3> QED BY <3>1
    <2> HIDE DEF pair
    <2> QED BY <1>1, <2>1
<1>4. Along(LAMBDA acc, list : acc \o list, << >>, ran) \in Seq(Events)
    <2> HIDE DEF ran
    <2> QED BY <1>3, Joined
<1>5. order \in Seq(Criteria)
    BY Ordered
<1> HIDE DEF order
<1>6. /\ DOMAIN order = 1..Len(order) /\ Len(order) \in Nat
      /\ \A i \in DOMAIN order : order[i] \in Criteria /\ statuses[order[i]] \in Statuses
    BY <1>5
<1>7. [i \in DOMAIN order |-> Verdict(order[i], statuses[order[i]])] \in Seq(Verdicts)
    <2>1. \A i \in DOMAIN order : Verdict(order[i], statuses[order[i]]) \in Verdicts
        BY <1>1, <1>6 DEF Verdict, Verdicts
    <2> HIDE DEF Verdicts
    <2> QED BY <1>6, <2>1
<1>8. [i \in DOMAIN order |-> Result(order[i], statuses[order[i]])] \in Seq(Events)
    <2>1. \A i \in DOMAIN order : Result(order[i], statuses[order[i]]) \in Events
        BY <1>1, <1>6, EventKinds
    <2> QED BY <1>6, <2>1
<1> QED BY <1>2, <1>4, <1>7, <1>8 DEF order

\* verify keeps the invariant and the phase.
LEMMA VerifyStep ==
    ASSUME LInv, NEW results \in [DOMAIN Checks -> Success],
           NEW statuses \in [Criteria -> Statuses], NEW specs \in Assessments,
           Verify(results, statuses, specs)
    PROVE  LInv' /\ Onward
<1> DEFINE found == Unwarned(record, specs)
           done == [i \in DOMAIN Checks |-> Command(Checks[i], clock, clock, results[i])]
           ran == [i \in DOMAIN Checks |->
                     <<[type |-> "command_started", command |-> Checks[i], at |-> clock],
                       Finished(Checks[i], results[i])>>]
           order == SetToSeq(Criteria)
           joined == Along(LAMBDA acc, list : acc \o list, << >>, ran)
           verdicts == [i \in DOMAIN order |-> Verdict(order[i], statuses[order[i]])]
           told == [i \in DOMAIN order |-> Result(order[i], statuses[order[i]])]
           start == [type |-> "verification_started", criterion |-> "*", at |-> clock]
           rec == [record EXCEPT !.verified = TRUE, !.commands = @ \o done,
                                 !.verification = @ \o verdicts]
           assessed == Decided("patch_assessment", None)
           new == <<start>> \o joined \o told \o Raising(found) \o <<assessed>>
<1>1. Save(WithWarnings(rec, found), new)
    BY DEF Verify
<1>2. /\ done \in Seq(CommandRecords) /\ joined \in Seq(Events)
      /\ verdicts \in Seq(Verdicts) /\ told \in Seq(Events)
    BY VerifiedTypes
<1>3. start \in Events /\ assessed \in Events
    BY EventKinds DEF LInv
<1> HIDE DEF done, joined, verdicts, told, start, assessed, ran, order
<1>4. rec \in Records /\ rec.warnings = record.warnings /\ rec.phase = record.phase
    <2>1. record.commands \o done \in Seq(CommandRecords)
        BY <1>2 DEF LInv, Records
    <2>2. record.verification \o verdicts \in Seq(Verdicts)
        BY <1>2 DEF LInv, Records
    <2> QED BY <2>1, <2>2 DEF LInv, Records
<1> HIDE DEF rec
<1>5. /\ WithWarnings(rec, found) \in Records
      /\ WarningsOK(WithWarnings(rec, found), stream)
      /\ WithWarnings(rec, found).phase = rec.phase
      /\ Raising(found) \in Seq(Events)
    BY <1>4, AssessmentsType, AssessedOK
<1> HIDE DEF found
<1>6. new \in Seq(Events)
    BY <1>2, <1>3, <1>5
<1> HIDE DEF new
<1> QED BY <1>1, <1>4, <1>5, <1>6, SaveKeeps, Stays

-----------------------------------------------------------------------------
(* The theorems about warnings and phases. *)

\* A run that was just started satisfies the invariant.
LEMMA InitOK == ASSUME Init PROVE LInv
<1> DEFINE e == [type |-> "task_created", at |-> 0]
<1>1. record = Created /\ stream = <<e>> /\ clock = 1
    BY DEF Init
<1>2. record \in Records /\ record.warnings = << >> /\ record.compilations = 0
    <2>1. "understand" \in ToSet(Phases)
        BY PhaseOrder
    <2>2. << >> \in Seq(CommandRecords) /\ << >> \in Seq(Warnings) /\ << >> \in Seq(Verdicts)
          /\ << >> \in Seq(Patches) /\ << >> \in Seq(Paths) /\ << >> \in Seq(Decisions)
        OBVIOUS
    <2> QED BY <1>1, <2>1, <2>2 DEF Created, Records
<1>3. e \in Events /\ e.type = "task_created"
    BY DEF Events
<1> HIDE DEF e
<1>4. stream \in Seq(Events) /\ DOMAIN stream = {1} /\ stream[1] = e
    BY <1>1, <1>3
<1>5. WarningsOK(record, stream)
    BY <1>2 DEF WarningsOK, Distinct, Founded, ToSet
<1>6. Covered(record, stream)
    <2>1. \A p : ~ReadInVain(stream, p)
        BY <1>3, <1>4 DEF ReadInVain, Reads
    <2>2. \A c : ~FailingInVain(stream, c)
        BY <1>3, <1>4 DEF FailingInVain, Ends
    <2> QED BY <1>2, <2>1, <2>2 DEF Covered
<1>7. clock \in 1..(MaxTransactions + 1)
    BY <1>1, BoundAssumption
<1> QED BY <1>2, <1>4, <1>5, <1>6, <1>7 DEF LInv

\* Every operation keeps the invariant and does not go back a phase.
LEMMA Step == ASSUME LInv, [Next]_vars PROVE LInv' /\ Onward
<1>1. CASE UNCHANGED vars
    <2>1. record' = record /\ stream' = stream /\ clock' = clock
        BY <1>1 DEF vars
    <2> QED BY <2>1, Stays DEF LInv
<1>2. CASE \E p \in Paths : RecordFileRead(p) \/ RecordFileModified(p)
    BY <1>2, FileReadStep, FileModifiedStep
<1>3. CASE \E d \in Decisions : RecordDecision(d) \/ RecordFailedApproach(d)
    BY <1>3, DecisionStep, FailedApproachStep
<1>4. CASE \E kind \in {"scope_expansion", "test_tampering"}, p \in Paths : Acknowledge(kind, p)
    BY <1>4, AcknowledgeStep
<1>5. CASE \E n \in Usage : RecordUsage(n)
    BY <1>5, UsageStep
<1>6. CASE RaiseWarning \/ CompileContext \/ TransitionPhase \/ Complete \/ CompleteForced
    BY <1>6, RaiseWarningStep, CompileContextStep, TransitionStep, CompleteStep, CompleteForcedStep
<1>7. CASE \E c \in Commands : CommandStarted(c)
    BY <1>7, CommandStartedStep
<1>8. CASE \E c \in Commands, success \in Success : CommandFinished(c, success)
    BY <1>8, CommandFinishedStep
<1>9. CASE \E k \in Criteria : VerificationStarted(k)
    BY <1>9, VerificationStartedStep
<1>10. CASE \E k \in Criteria, status \in Statuses : RecordVerification(k, status)
    BY <1>10, RecordVerificationStep
<1>11. CASE \E specs \in Assessments : AssessPatch(specs)
    BY <1>11, AssessPatchStep
<1>12. CASE \E results \in [DOMAIN Checks -> Success], statuses \in [Criteria -> Statuses],
              specs \in Assessments : Verify(results, statuses, specs)
    BY <1>12, VerifyStep
<1>13. CASE \E id \in PatchIds, p \in Paths : ProposePatch(id, p)
    BY <1>13, ProposeStep
<1>14. CASE \E id \in PatchIds : RefusePatch(id) \/ ApplyPatch(id)
    BY <1>14, RefuseStep, ApplyStep
<1> QED BY <1>1, <1>2, <1>3, <1>4, <1>5, <1>6, <1>7, <1>8, <1>9, <1>10, <1>11, <1>12, <1>13,
           <1>14 DEF Next

\* The invariant of the ledger: types, warnings that differ and have their cause,
\* and a warning for every situation.
THEOREM Inductive == Spec => []LInv
<1>1. LInv /\ [Next]_vars => LInv'
    BY Step
<1> QED BY InitOK, <1>1, PTL DEF Spec

\* Record and events have their types, after any operations in any order.
THEOREM TypeCorrect == Spec => []TypeOK
<1>1. ASSUME LInv PROVE TypeOK
    <2> USE <1>1 DEF LInv
    <2>1. record.phase \in ToSet(Phases) /\ record.acked \subseteq Acknowledged
        BY DEF Records
    <2>2. ToSet(record.reads) \cup ToSet(record.modified) \subseteq Paths
        BY DEF Records, ToSet
    <2>3. \A item \in ToSet(record.commands) : item \in CommandRecords
        BY DEF Records, ToSet
    <2>4. \A w \in ToSet(record.warnings) : w \in Warnings
        BY DEF Records, ToSet
    <2>5. \A patch \in ToSet(record.patches) : patch \in Patches
        BY DEF Records, ToSet
    <2>6. \A e \in ToSet(stream) : e.type \in EventTypes
        <3>1. \A e \in ToSet(stream) : e \in Events
            BY DEF ToSet
        <3> QED BY <3>1, EventFields
    <2>7. \A item \in ToSet(record.commands) :
              item.command \in Commands /\ item.success \in Success \cup {None}
        BY <2>3 DEF CommandRecords
    <2>8. \A w \in ToSet(record.warnings) : w.severity \in {"WARNING", "HIGH", "CRITICAL"}
        BY <2>4 DEF Warnings, Severities
    <2>9. \A patch \in ToSet(record.patches) : patch.id \in PatchIds
        BY <2>5 DEF Patches
    <2> QED BY <2>1, <2>2, <2>6, <2>7, <2>8, <2>9 DEF TypeOK, Acknowledged
<1> QED BY <1>1, Inductive, PTL

\* Nobody is warned twice of what was not dealt with in between: governor, verify,
\* assess_patch and apply_patch compare with what was raised.  They do so for good
\* (Distinct), so that what recurs after it was dealt with is not warned of either.
THEOREM WarnedOnce == Spec => []OneWarningEach
<1>1. LInv => OneWarningEach
    BY DEF LInv, WarningsOK, Distinct, OneWarningEach
<1> QED BY <1>1, Inductive, PTL

\* No situation the governor stands for goes without its warning in an open run.
THEOREM AlwaysWarned == Spec => []NothingEscapes
<1>1. LInv => NothingEscapes
    BY DEF LInv, Covered, NothingEscapes, Warned
<1> QED BY <1>1, Inductive, PTL

\* Nobody is warned about a loop or about repeated reads that did not occur.
THEOREM WarnedWithCause == Spec => []NoFalseAlarm
<1>1. ASSUME LInv PROVE NoFalseAlarm
    <2>1. ASSUME NEW kind, NEW x, Warned(kind, x)
          PROVE  \E w \in ToSet(record.warnings) : w.kind = kind /\ w.subject = x
        BY <2>1 DEF Warned, Signature
    <2>2. Founded(record, stream)
        BY <1>1 DEF LInv, WarningsOK
    <2>3. \A p : Warned("repeated_read", p) => ReadInVain(stream, p)
        BY <2>1, <2>2 DEF Founded
    <2>4. \A c : Warned("failure_loop", c) => FailingInVain(stream, c)
        BY <2>1, <2>2 DEF Founded
    <2> QED BY <2>3, <2>4 DEF NoFalseAlarm
<1> QED BY <1>1, Inductive, PTL

\* No operation takes a run back to an earlier phase.
THEOREM OnlyForward == Spec => PhaseForward
<1>1. LInv /\ [Next]_vars =>
          [\A i, j \in DOMAIN Phases :
              record.phase = Phases[i] /\ record'.phase = Phases[j] => i <= j]_vars
    BY Step DEF Onward
<1> QED BY <1>1, Inductive, PTL DEF Spec, PhaseForward

-----------------------------------------------------------------------------
(* Replay: of one event, and of a list of them. *)

\* What replay reads of an event is there.
LEMMA EventShape ==
    ASSUME NEW e \in Events
    PROVE  /\ e.at \in Nat
           /\ e.type = "decision_recorded" =>
                 \/ e.kind \in {None, "failed_approach"} /\ e.text \in Decisions
                 \/ e.kind = "acknowledge" /\ e.text \in Acknowledged
                 \/ e.kind = "patch_assessment"
           /\ e.type = "phase_changed" => e.to \in ToSet(Phases)
           /\ e.type = "verification_result" => e.criterion \in Criteria /\ e.status \in Statuses
           /\ e.type = "warning_raised" =>
                 e.kind \in Kinds /\ e.subject \in Subjects /\ e.severity \in Severities
           /\ e.type = "usage_recorded" => e.tokens \in Usage
           /\ e.type = "patch_proposed" => e.patch \in Patches
           /\ e.type = "patch_applied" => e.id \in PatchIds
BY DEF Events, Acknowledged

\* Replay makes records.
LEMMA ReduceType ==
    ASSUME NEW rec \in Records, NEW e \in Events
    PROVE  Reduce(rec, e) \in Records
<1>0. e.type \in EventTypes /\ e.at \in Nat
    BY EventFields, EventShape
<1>1. CASE e.type = "task_created"
    <2>1. Created \in Records
        <3>1. "understand" \in ToSet(Phases)
            BY PhaseOrder
        <3>2. << >> \in Seq(CommandRecords) /\ << >> \in Seq(Warnings) /\ << >> \in Seq(Verdicts)
              /\ << >> \in Seq(Patches) /\ << >> \in Seq(Paths) /\ << >> \in Seq(Decisions)
            OBVIOUS
        <3> QED BY <3>1, <3>2 DEF Created, Records
    <2> QED BY <1>1, <2>1 DEF Reduce
<1>2. CASE e.type = "file_read"
    <2>1. Append(rec.reads, e.path) \in Seq(Paths)
        BY <1>2, EventFields DEF Records
    <2>2. Reduce(rec, e) = [rec EXCEPT !.reads = Append(@, e.path)]
        BY <1>2 DEF Reduce
    <2> QED BY <2>1, <2>2 DEF Records
<1>3. CASE e.type = "file_modified"
    <2>1. AddNew(rec.modified, e.path) \in Seq(Paths)
        BY <1>3, EventFields, AddNewType DEF Records
    <2>2. Reduce(rec, e) = [rec EXCEPT !.modified = AddNew(@, e.path)]
        BY <1>3 DEF Reduce
    <2> QED BY <2>1, <2>2 DEF Records
<1>4. CASE e.type = "decision_recorded"
    <2>1. Reduce(rec, e) = ReduceDecision(rec, e)
        BY <1>4 DEF Reduce
    <2>2. CASE e.kind \in {None, "failed_approach"} /\ e.text \in Decisions
        <3>1. Append(rec.decisions, e.text) \in Seq(Decisions)
              /\ Append(rec.failed, e.text) \in Seq(Decisions)
            BY <2>2 DEF Records
        <3>2. \/ ReduceDecision(rec, e) = [rec EXCEPT !.failed = Append(@, e.text)]
              \/ ReduceDecision(rec, e) = [rec EXCEPT !.decisions = Append(@, e.text)]
            BY <2>2, NoneAssumption DEF ReduceDecision
        <3>3. Reduce(rec, e) = ReduceDecision(rec, e)
            BY <2>1
        <3>4. CASE ReduceDecision(rec, e) = [rec EXCEPT !.failed = Append(@, e.text)]
            BY ONLY <3>1, <3>3, <3>4, rec \in Records DEF Records
        <3>5. CASE ReduceDecision(rec, e) = [rec EXCEPT !.decisions = Append(@, e.text)]
            BY ONLY <3>1, <3>3, <3>5, rec \in Records DEF Records
        <3> QED BY <3>2, <3>4, <3>5
    <2>3. CASE e.kind = "acknowledge" /\ e.text \in Acknowledged
        <3>1. rec.acked \cup {e.text} \in SUBSET Acknowledged
            BY <2>3 DEF Records
        <3>2. ReduceDecision(rec, e) = [rec EXCEPT !.acked = @ \cup {e.text}]
            BY <2>3 DEF ReduceDecision
        <3> HIDE DEF Acknowledged
        <3> QED BY <2>1, <3>1, <3>2 DEF Records
    <2>4. CASE e.kind = "patch_assessment"
        BY <2>1, <2>4 DEF ReduceDecision
    <2> QED BY <1>4, <2>2, <2>3, <2>4, EventShape
<1>5. CASE e.type = "warning_raised"
    <2> DEFINE w == [kind |-> e.kind, subject |-> e.subject, severity |-> e.severity, at |-> e.at]
    <2>1. w \in Warnings
        BY <1>5, EventShape DEF Warnings
    <2>2. Reduce(rec, e) = [rec EXCEPT !.warnings = Append(@, w)]
        BY <1>5 DEF Reduce
    <2> HIDE DEF w
    <2>3. Append(rec.warnings, w) \in Seq(Warnings)
        BY <2>1 DEF Records
    <2> QED BY <2>2, <2>3 DEF Records
<1>6. CASE e.type = "command_started"
    <2> DEFINE x == Command(e.command, e.at, None, None)
    <2>1. x \in CommandRecords
        BY <1>0, <1>6, EventFields DEF Command, CommandRecords
    <2>2. Reduce(rec, e) = [rec EXCEPT !.commands = Append(@, x)]
        BY <1>6 DEF Reduce
    <2> HIDE DEF x
    <2>3. Append(rec.commands, x) \in Seq(CommandRecords)
        BY <2>1 DEF Records
    <2> QED BY <2>2, <2>3 DEF Records
<1>7. CASE e.type = "command_finished"
    <2>1. Reduce(rec, e) = [rec EXCEPT !.commands = Finish(@, e.command, e.success, e.at)]
        BY <1>7 DEF Reduce
    <2>2. Finish(rec.commands, e.command, e.success, e.at) \in Seq(CommandRecords)
        BY <1>0, <1>7, EventFields, FinishType DEF Records
    <2> QED BY <2>1, <2>2 DEF Records
<1>8. CASE e.type = "context_compiled"
    <2>1. Reduce(rec, e) = [rec EXCEPT !.compilations = @ + 1]
        BY <1>8 DEF Reduce
    <2>2. rec.compilations + 1 \in Nat
        BY DEF Records
    <2> QED BY <2>1, <2>2 DEF Records
<1>9. CASE e.type = "phase_changed"
    <2>1. Reduce(rec, e) = [rec EXCEPT !.phase = e.to]
        BY <1>9 DEF Reduce
    <2> QED BY <1>9, <2>1, EventShape DEF Records
<1>10. CASE e.type = "verification_started"
    BY <1>10 DEF Reduce
<1>11. CASE e.type = "usage_recorded"
    <2>1. Reduce(rec, e) = [rec EXCEPT !.tokens = @ + e.tokens]
        BY <1>11 DEF Reduce
    <2>2. rec.tokens + e.tokens \in Int
        <3>1. e.tokens \in Int
            BY <1>11, EventShape, ResultsAssumption
        <3>2. rec.tokens \in Int
            BY DEF Records
        <3> QED BY <3>1, <3>2
    <2> QED BY <2>1, <2>2 DEF Records
<1>12. CASE e.type = "verification_result"
    <2> DEFINE v == [criterion |-> e.criterion, status |-> e.status, at |-> e.at]
    <2>1. v \in Verdicts
        BY <1>0, <1>12, EventShape DEF Verdicts
    <2>2. Reduce(rec, e) = [rec EXCEPT !.verification = Append(@, v)]
        BY <1>12 DEF Reduce
    <2> HIDE DEF v
    <2>3. Append(rec.verification, v) \in Seq(Verdicts)
        BY <2>1 DEF Records
    <2> QED BY <2>2, <2>3 DEF Records
<1>13. CASE e.type = "patch_proposed"
    <2>1. Reduce(rec, e) = [rec EXCEPT !.patches = Append(@, e.patch)]
        BY <1>13 DEF Reduce
    <2>2. Append(rec.patches, e.patch) \in Seq(Patches)
        BY <1>13, EventShape DEF Records
    <2> QED BY <2>1, <2>2 DEF Records
<1>14. CASE e.type = "patch_applied"
    <2>1. Reduce(rec, e) = [rec EXCEPT !.patches = MarkApplied(@, e.id, e.at)]
        BY <1>14 DEF Reduce
    <2>2. MarkApplied(rec.patches, e.id, e.at) \in Seq(Patches)
        BY <1>0, MarkAppliedType DEF Records
    <2> QED BY <2>1, <2>2 DEF Records
<1>15. CASE e.type = "run_completed"
    <2>1. Reduce(rec, e) = [rec EXCEPT !.phase = "done"]
        BY <1>15 DEF Reduce
    <2> QED BY <2>1, PhaseOrder DEF Records
<1> QED BY <1>0, <1>1, <1>2, <1>3, <1>4, <1>5, <1>6, <1>7, <1>8, <1>9, <1>10, <1>11, <1>12,
           <1>13, <1>14, <1>15 DEF EventTypes

\* Replay from a record on.
After(rec, t) == Along(Reduce, rec, t)

\* Replay as the function of positions it computes.
LEMMA AfterAlong ==
    ASSUME NEW rec \in Records, NEW t \in Seq(Events)
    PROVE  \E f \in [0..Len(t) -> Records] :
              /\ f[0] = rec
              /\ \A i \in 1..Len(t) : f[i] = Reduce(f[i - 1], t[i])
              /\ After(rec, t) = f[Len(t)]
<1> DEFINE n == Len(t)
           F == [i \in 1..n |-> [acc \in Records |-> Reduce(acc, t[i])]]
           Is(g) == g = [i \in 0..n |-> IF i = 0 THEN rec ELSE Reduce(g[i - 1], t[i])]
           f == CHOOSE g : Is(g)
<1>1. n \in Nat /\ \A i \in 1..n : t[i] \in Events
    OBVIOUS
<1>2. Steps(F, n, Records)
    BY <1>1, ReduceType DEF Steps
<1>3. \A i \in 1..n, acc \in Records : F[i][acc] = Reduce(acc, t[i])
    OBVIOUS
<1> HIDE DEF F
<1>4. \E g : Is(g)
    <2>1. PICK g : Follows(g, rec, F, n, Records)
        BY <1>1, <1>2, Recursion
    <2>2. \A i \in 1..n : i - 1 \in 0..n
        OBVIOUS
    <2>3. \A i \in 0..n : g[i] = IF i = 0 THEN rec ELSE Reduce(g[i - 1], t[i])
        BY <1>3, <2>1, <2>2 DEF Follows
    <2> QED BY <2>1, <2>3 DEF Follows
<1>5. Is(f)
    <2> HIDE DEF Is
    <2> QED BY <1>4
<1>6. After(rec, t) = f[n]
    BY DEF After, Along
<1> HIDE DEF f
<1>7. /\ f = [i \in 0..n |-> f[i]] /\ f[0] = rec
      /\ \A i \in 1..n : f[i] = Reduce(f[i - 1], t[i])
    BY <1>1, <1>5
<1>8. Follows(f, rec, F, n, Records)
    BY <1>1, <1>2, <1>3, <1>7, OneRecursion
<1> QED BY <1>6, <1>7, <1>8 DEF Follows

\* No event, one event, more events.
LEMMA AfterNone == ASSUME NEW rec \in Records PROVE After(rec, << >>) = rec
<1> DEFINE none == << >>
<1>1. none \in Seq(Events) /\ DOMAIN none = {}
    OBVIOUS
<1> HIDE DEF none
<1>2. Len(none) = 0
    BY <1>1
<1>3. none \in Seq(Events)
    BY <1>1
<1>4. PICK f \in [0..Len(none) -> Records] :
          /\ f[0] = rec
          /\ \A i \in 1..Len(none) : f[i] = Reduce(f[i - 1], none[i])
          /\ After(rec, none) = f[Len(none)]
    BY ONLY <1>3, rec \in Records, AfterAlong
<1> QED BY <1>2, <1>4 DEF none

\* Replay of one event.
LEMMA AfterOne ==
    ASSUME NEW rec \in Records, NEW e \in Events
    PROVE  After(rec, <<e>>) = Reduce(rec, e)
<1>1. <<e>> \in Seq(Events) /\ Len(<<e>>) = 1 /\ <<e>>[1] = e
    OBVIOUS
<1>2. PICK f \in [0..1 -> Records] :
          /\ f[0] = rec
          /\ \A i \in 1..1 : f[i] = Reduce(f[i - 1], <<e>>[i])
          /\ After(rec, <<e>>) = f[1]
    BY <1>1, AfterAlong
<1>3. 1 \in 1..1 /\ 1 - 1 = 0
    OBVIOUS
<1> QED BY <1>1, <1>2, <1>3

\* Replay from a record on makes a record.
LEMMA AfterType ==
    ASSUME NEW rec \in Records, NEW t \in Seq(Events)
    PROVE  After(rec, t) \in Records
<1>1. Len(t) \in 0..Len(t)
    OBVIOUS
<1> QED BY <1>1, AfterAlong

\* Replay of two lists of events is replay of the second after that of the first.
LEMMA AfterBoth ==
    ASSUME NEW rec \in Records, NEW s \in Seq(Events), NEW t \in Seq(Events)
    PROVE  After(rec, s \o t) = After(After(rec, s), t)
<1> DEFINE m == Len(s)
           n == Len(t)
           mid == After(rec, s)
<1>1. m \in Nat /\ n \in Nat /\ Len(s \o t) = m + n /\ s \o t \in Seq(Events)
    OBVIOUS
<1>2. /\ \A i \in 1..m : (s \o t)[i] = s[i]
      /\ \A i \in 1..n : (s \o t)[m + i] = t[i]
    OBVIOUS
<1>3. PICK f \in [0..(m + n) -> Records] :
          /\ f[0] = rec
          /\ \A i \in 1..(m + n) : f[i] = Reduce(f[i - 1], (s \o t)[i])
          /\ After(rec, s \o t) = f[m + n]
    BY <1>1, AfterAlong
<1>4. PICK g \in [0..m -> Records] :
          /\ g[0] = rec
          /\ \A i \in 1..m : g[i] = Reduce(g[i - 1], s[i])
          /\ mid = g[m]
    BY AfterAlong
<1>5. mid \in Records
    BY AfterType
<1> HIDE DEF mid
<1>6. PICK h \in [0..n -> Records] :
          /\ h[0] = mid
          /\ \A i \in 1..n : h[i] = Reduce(h[i - 1], t[i])
          /\ After(mid, t) = h[n]
    BY <1>5, AfterAlong
<1> HIDE DEF m, n
<1>7. f[m] = g[m]
    <2> DEFINE T == {i \in 0..m : f[i] = g[i]}
    <2>1. 0 \in T
        BY <1>1, <1>3, <1>4
    <2>2. ASSUME NEW i \in 0..m, i \in T, i < m PROVE i + 1 \in T
        <3>1. i + 1 \in 1..m /\ i + 1 \in 1..(m + n) /\ (i + 1) - 1 = i /\ i + 1 \in 0..m
            <4> HIDE DEF T
            <4>1. i \in Nat /\ i < m /\ m \in Nat /\ n \in Nat
                BY <1>1, <2>2
            <4> QED BY <4>1
        <3>2. f[i + 1] = Reduce(f[i], (s \o t)[i + 1])
            BY <1>3, <3>1
        <3>3. (s \o t)[i + 1] = s[i + 1]
            BY <1>2, <3>1
        <3>4. g[i + 1] = Reduce(g[i], s[i + 1])
            BY <1>4, <3>1
        <3> QED BY <2>2, <3>1, <3>2, <3>3, <3>4
    <2>3. 0..m \subseteq T
        <3> HIDE DEF T
        <3> QED BY <1>1, <2>1, <2>2, StepByStep
    <2>4. m \in 0..m
        BY <1>1
    <2> QED BY <2>3, <2>4
<1>8. f[m + n] = h[n]
    <2> DEFINE T == {i \in 0..n : f[m + i] = h[i]}
    <2>1. 0 \in T
        <3>1. m + 0 = m
            BY <1>1
        <3> QED BY <1>1, <1>4, <1>6, <1>7, <3>1
    <2>2. ASSUME NEW i \in 0..n, i \in T, i < n PROVE i + 1 \in T
        <3>1. i + 1 \in 1..n /\ m + (i + 1) \in 1..(m + n) /\ (m + (i + 1)) - 1 = m + i
              /\ (i + 1) - 1 = i /\ i + 1 \in 0..n
            BY <1>1, <2>2
        <3>2. f[m + (i + 1)] = Reduce(f[m + i], (s \o t)[m + (i + 1)])
            BY <1>3, <3>1
        <3>3. (s \o t)[m + (i + 1)] = t[i + 1]
            BY <1>2, <3>1
        <3>4. h[i + 1] = Reduce(h[i], t[i + 1])
            BY <1>6, <3>1
        <3> QED BY <2>2, <3>1, <3>2, <3>3, <3>4
    <2>3. 0..n \subseteq T
        <3> HIDE DEF T
        <3> QED BY <1>1, <2>1, <2>2, StepByStep
    <2>4. n \in 0..n
        BY <1>1
    <2> QED BY <2>3, <2>4
<1> QED BY <1>3, <1>6, <1>8 DEF mid

-----------------------------------------------------------------------------
(* Replay of what verify, assess_patch and the governor append. *)

\* The first i of a function's values, and that n of them are of a kind.
UpTo(F, i) == [k \in 1..i |-> F[k]]
Values(F, n, S) == \A k \in 1..n : F[k] \in S

\* One value more at the end of a list.
LEMMA Longer ==
    ASSUME NEW S, NEW old \in Seq(S), NEW n \in Nat, NEW F, Values(F, n, S),
           NEW i \in 0..n, i < n
    PROVE  /\ Append(old \o UpTo(F, i), F[i + 1]) = old \o UpTo(F, i + 1)
           /\ old \o UpTo(F, i) \in Seq(S)
<1> USE DEF Values, UpTo
<1> DEFINE a == [k \in 1..i |-> F[k]]
           b == [k \in 1..(i + 1) |-> F[k]]
           m == Len(old)
<1>1. i \in Nat /\ i + 1 \in 1..n /\ F[i + 1] \in S /\ m \in Nat
    OBVIOUS
<1>2. a \in Seq(S) /\ Len(a) = i /\ \A k \in 1..i : a[k] = F[k]
    OBVIOUS
<1>3. b \in Seq(S) /\ Len(b) = i + 1 /\ \A k \in 1..(i + 1) : b[k] = F[k]
    <2>1. \A k \in 1..(i + 1) : k \in 1..n
        BY <1>1
    <2> QED BY <1>1, <2>1
<1> HIDE DEF a, b, UpTo
<1> DEFINE x == old \o a
           y == Append(x, F[i + 1])
           z == old \o b
<1>4. /\ x \in Seq(S) /\ Len(x) = m + i
      /\ \A k \in 1..m : x[k] = old[k]
      /\ \A k \in 1..i : x[m + k] = a[k]
    BY <1>2
<1>5. /\ z \in Seq(S) /\ Len(z) = m + (i + 1)
      /\ \A k \in 1..m : z[k] = old[k]
      /\ \A k \in 1..(i + 1) : z[m + k] = b[k]
    BY <1>3
<1> HIDE DEF x, z
<1>6. /\ y \in Seq(S) /\ Len(y) = (m + i) + 1
      /\ \A k \in 1..(m + i) : y[k] = x[k]
      /\ y[(m + i) + 1] = F[i + 1]
    BY <1>1, <1>4
<1> HIDE DEF y, m
<1>7. ASSUME NEW k \in 1..(m + (i + 1)) PROVE y[k] = z[k]
    <2>1. CASE k \in 1..m
        <3>1. k \in 1..(m + i)
            BY <1>1, <2>1
        <3> QED BY <1>4, <1>5, <1>6, <2>1, <3>1
    <2>2. CASE k \notin 1..m /\ k # (m + i) + 1
        <3>1. k - m \in 1..i /\ k - m \in 1..(i + 1) /\ m + (k - m) = k /\ k \in 1..(m + i)
            BY <1>1, <2>2
        <3>2. y[k] = x[k] /\ x[k] = a[k - m] /\ z[k] = b[k - m]
            BY <1>4, <1>5, <1>6, <3>1
        <3> QED BY <1>2, <1>3, <3>1, <3>2
    <2>3. CASE k = (m + i) + 1
        <3>1. k = m + (i + 1) /\ i + 1 \in 1..(i + 1)
            BY <1>1, <2>3
        <3>2. z[k] = b[i + 1] /\ b[i + 1] = F[i + 1]
            BY <1>3, <1>5, <3>1
        <3> QED BY <1>6, <2>3, <3>2
    <2> QED BY <2>1, <2>2, <2>3
<1>8. y = z
    <2>1. Len(y) = Len(z) /\ DOMAIN y = 1..(m + (i + 1)) /\ DOMAIN z = 1..(m + (i + 1))
        BY <1>1, <1>5, <1>6
    <2>2. y = [k \in DOMAIN y |-> y[k]] /\ z = [k \in DOMAIN z |-> z[k]]
        BY <1>5, <1>6
    <2> QED BY <1>7, <2>1, <2>2
<1> QED BY <1>4, <1>8 DEF a, b, x, y, z, UpTo

\* All of the values, and none of them.
LEMMA All ==
    ASSUME NEW n \in Nat, NEW F, F = UpTo(F, n), NEW S, NEW old \in Seq(S)
    PROVE  /\ old \o UpTo(F, n) = old \o F
           /\ old \o UpTo(F, 0) = old
<1>1. 1..0 = {}
    OBVIOUS
<1>2. UpTo(F, 0) = << >>
    BY <1>1 DEF UpTo
<1>3. old \o << >> = old
    OBVIOUS
<1> QED BY <1>2, <1>3 DEF UpTo

\* Replay of warnings appends them.
LEMMA AfterRaising ==
    ASSUME NEW rec \in Records, NEW found \in Seq(Findings), clock \in Nat
    PROVE  After(rec, Raising(found)) = WithWarnings(rec, found)
<1> DEFINE n == Len(found)
           t == Raising(found)
           F == [i \in DOMAIN found |-> Warning(found[i])]
           old == rec.warnings
           Upto(i) == [rec EXCEPT !.warnings = old \o UpTo(F, i)]
<1>1. n \in Nat /\ DOMAIN found = 1..n /\ old \in Seq(Warnings) /\ "warnings" \in DOMAIN rec
    BY DEF Records
<1>2. /\ t \in Seq(Events) /\ Len(t) = n
      /\ \A i \in 1..n : t[i] = Raised(found[i])
    <2>1. t \in Seq(Events)
        BY RaisingType
    <2>2. t = [i \in 1..n |-> Raised(found[i])]
        BY <1>1 DEF Raising
    <2> HIDE DEF t
    <2>3. DOMAIN t = 1..n /\ \A i \in 1..n : t[i] = Raised(found[i])
        BY <2>2
    <2> QED BY <1>1, <2>1, <2>3
<1>3. \A i \in 1..n : F[i] = Warning(found[i]) /\ F[i] \in Warnings
    <2>1. F \in Seq(Warnings) /\ DOMAIN F = 1..n
        BY <1>1, WithWarningsAdds DEF Records
    <2> QED BY <1>1, <2>1
<1>4. F = UpTo(F, n) /\ WithWarnings(rec, found) = [rec EXCEPT !.warnings = old \o F]
    BY <1>1 DEF WithWarnings, UpTo
<1> HIDE DEF t, F
<1>5. PICK f \in [0..n -> Records] :
          /\ f[0] = rec
          /\ \A i \in 1..n : f[i] = Reduce(f[i - 1], t[i])
          /\ After(rec, t) = f[n]
    BY <1>2, AfterAlong
<1> HIDE DEF n
<1> DEFINE T == {i \in 0..n : f[i] = Upto(i)}
<1>6. 0 \in T
    <2>1. [rec EXCEPT !.warnings = old] = rec
        BY DEF Records
    <2>2. old \o UpTo(F, 0) = old
        BY <1>1, <1>4, All
    <2> QED BY <1>1, <1>5, <2>1, <2>2
<1>7. ASSUME NEW i \in 0..n, i \in T, i < n PROVE i + 1 \in T
    <2> DEFINE w == F[i + 1]
               A == old \o UpTo(F, i)
               B == old \o UpTo(F, i + 1)
    <2>1. i + 1 \in 1..n /\ (i + 1) - 1 = i /\ i + 1 \in 0..n
        BY <1>1, <1>7
    <2>2. f[i + 1] = Reduce(f[i], Raised(found[i + 1])) /\ w = Warning(found[i + 1])
        BY <1>2, <1>3, <1>5, <2>1
    <2>3. Reduce(f[i], Raised(found[i + 1])) =
              [f[i] EXCEPT !.warnings = Append(@, Warning(found[i + 1]))]
        BY DEF Reduce, Raised, Warning
    <2>4. Append(A, w) = B
        <3>1. Values(F, n, Warnings)
            BY <1>3 DEF Values
        <3>2. i < n /\ n \in Nat /\ old \in Seq(Warnings)
            BY <1>1, <1>7
        <3> HIDE DEF T, old
        <3> QED BY <3>1, <3>2, Longer
    <2>5. f[i] = [rec EXCEPT !.warnings = A]
        BY <1>7
    <2> HIDE DEF w, A
    <2>6. f[i + 1] = [rec EXCEPT !.warnings = Append(A, w)]
        BY <1>1, <2>2, <2>3, <2>5
    <2> QED BY <2>1, <2>4, <2>6
<1>8. 0..n \subseteq T
    <2> HIDE DEF T
    <2> QED BY <1>1, <1>6, <1>7, StepByStep
<1>9. f[n] = Upto(n)
    <2>1. n \in 0..n
        BY <1>1
    <2> QED BY <1>8, <2>1
<1>10. old \o UpTo(F, n) = old \o F
    BY <1>1, <1>4, All
<1> QED BY <1>4, <1>5, <1>9, <1>10 DEF t

\* Replay of verdicts appends them.
LEMMA AfterTold ==
    ASSUME NEW rec \in Records, clock \in Nat, NEW order \in Seq(Criteria),
           NEW statuses \in [Criteria -> Statuses]
    PROVE  After(rec, [i \in DOMAIN order |-> Result(order[i], statuses[order[i]])]) =
              [rec EXCEPT !.verification =
                  @ \o [i \in DOMAIN order |-> Verdict(order[i], statuses[order[i]])]]
<1> DEFINE n == Len(order)
           t == [i \in DOMAIN order |-> Result(order[i], statuses[order[i]])]
           F == [i \in DOMAIN order |-> Verdict(order[i], statuses[order[i]])]
           old == rec.verification
           Got(i) == [rec EXCEPT !.verification = old \o UpTo(F, i)]
<1>1. n \in Nat /\ DOMAIN order = 1..n /\ old \in Seq(Verdicts) /\ "verification" \in DOMAIN rec
    BY DEF Records
<1>2. \A i \in 1..n : order[i] \in Criteria /\ statuses[order[i]] \in Statuses
    BY <1>1
<1>3. /\ t \in Seq(Events) /\ Len(t) = n
      /\ \A i \in 1..n : t[i] = Result(order[i], statuses[order[i]])
    <2>1. \A i \in 1..n : Result(order[i], statuses[order[i]]) \in Events
        BY <1>2, EventKinds
    <2>2. t = [i \in 1..n |-> Result(order[i], statuses[order[i]])]
        BY <1>1
    <2> QED BY <1>1, <2>1, <2>2
<1>4. \A i \in 1..n : F[i] = Verdict(order[i], statuses[order[i]]) /\ F[i] \in Verdicts
    BY <1>1, <1>2 DEF Verdict, Verdicts
<1>5. F = UpTo(F, n)
    BY <1>1 DEF UpTo
<1>6. Values(F, n, Verdicts)
    BY <1>4 DEF Values
<1> HIDE DEF t, F
<1>7. PICK f \in [0..n -> Records] :
          /\ f[0] = rec
          /\ \A i \in 1..n : f[i] = Reduce(f[i - 1], t[i])
          /\ After(rec, t) = f[n]
    BY <1>3, AfterAlong
<1> HIDE DEF n
<1> DEFINE T == {i \in 0..n : f[i] = Got(i)}
<1>8. 0 \in T
    <2>1. [rec EXCEPT !.verification = old] = rec
        BY DEF Records
    <2>2. old \o UpTo(F, 0) = old
        BY <1>1, <1>5, All
    <2> QED BY <1>1, <1>7, <2>1, <2>2
<1>9. ASSUME NEW i \in 0..n, i \in T, i < n PROVE i + 1 \in T
    <2> DEFINE v == F[i + 1]
               A == old \o UpTo(F, i)
               B == old \o UpTo(F, i + 1)
    <2>1. i + 1 \in 1..n /\ (i + 1) - 1 = i /\ i + 1 \in 0..n
        <3>1. n \in Nat /\ i < n
            BY <1>1, <1>9
        <3> HIDE DEF T
        <3> QED BY <3>1
    <2>2. f[i + 1] = Reduce(f[i], Result(order[i + 1], statuses[order[i + 1]]))
          /\ v = Verdict(order[i + 1], statuses[order[i + 1]])
        BY <1>3, <1>4, <1>7, <2>1
    <2>3. Reduce(f[i], Result(order[i + 1], statuses[order[i + 1]])) =
              [f[i] EXCEPT !.verification =
                  Append(@, Verdict(order[i + 1], statuses[order[i + 1]]))]
        BY DEF Reduce, Result, Verdict
    <2>4. Append(A, v) = B
        <3>1. i < n /\ n \in Nat /\ old \in Seq(Verdicts)
            BY <1>1, <1>9
        <3> HIDE DEF T, old
        <3> QED BY <1>6, <3>1, Longer
    <2>5. f[i] = [rec EXCEPT !.verification = A]
        BY <1>9
    <2> HIDE DEF v, A
    <2>6. f[i + 1] = [rec EXCEPT !.verification = Append(A, v)]
        BY <1>1, <2>2, <2>3, <2>5
    <2> QED BY <2>1, <2>4, <2>6
<1>10. 0..n \subseteq T
    <2> HIDE DEF T
    <2> QED BY <1>1, <1>8, <1>9, StepByStep
<1>11. f[n] = Got(n)
    <2>1. n \in 0..n
        BY <1>1
    <2> QED BY <1>10, <2>1
<1>12. old \o UpTo(F, n) = old \o F
    BY <1>1, <1>5, All
<1> QED BY <1>7, <1>11, <1>12 DEF t, F

\* No instance of c is open.
NoneOpen(commands, c) ==
    \A i \in DOMAIN commands : commands[i].command = c => commands[i].finished # None

\* A command that gets its result.
LEMMA FinishedOne ==
    ASSUME NEW c, NEW at, NEW success
    PROVE  [Command(c, at, None, None) EXCEPT !.finished = at, !.success = success] =
              Command(c, at, at, success)
<1> DEFINE r == [Command(c, at, None, None) EXCEPT !.finished = at, !.success = success]
           y == Command(c, at, at, success)
           D == {"command", "started", "finished", "success"}
<1>1. /\ r = [f \in D |-> r[f]]
      /\ r.command = c /\ r.started = at /\ r.finished = at /\ r.success = success
    BY DEF Command
<1>2. /\ y = [f \in D |-> y[f]]
      /\ y.command = c /\ y.started = at /\ y.finished = at /\ y.success = success
    BY DEF Command
<1> HIDE DEF r, y
<1>3. \A f \in D : r[f] = y[f]
    BY <1>1, <1>2
<1>4. r = y
    BY <1>1, <1>2, <1>3
<1> QED BY <1>4 DEF r, y

\* A command that is started and finished at once stays where it is.
LEMMA Closed ==
    ASSUME NEW commands \in Seq(CommandRecords), NEW c \in Commands, NEW success \in Success,
           NEW at \in Nat, NoneOpen(commands, c)
    PROVE  Finish(Append(commands, Command(c, at, None, None)), c, success, at) =
              Append(commands, Command(c, at, at, success))
<1> DEFINE x == Command(c, at, None, None)
           all == Append(commands, x)
           n == Len(commands) + 1
           I == {i \in 1..Len(all) : all[i].command = c /\ all[i].finished = None}
           i == IF I # {} THEN Min(I) ELSE 0
<1>1. x \in CommandRecords /\ x.command = c /\ x.finished = None
    BY DEF Command, CommandRecords
<1>2. [x EXCEPT !.finished = at, !.success = success] = Command(c, at, at, success)
    BY FinishedOne
<1> HIDE DEF x
<1>3. /\ all \in Seq(CommandRecords) /\ Len(all) = n /\ n \in Nat /\ all[n] = x
      /\ \A k \in 1..Len(commands) : all[k] = commands[k]
      /\ DOMAIN commands = 1..Len(commands) /\ Len(commands) \in Nat
    BY <1>1
<1>4. Finish(all, c, success, at) =
         IF i # 0 THEN Append(RemoveAt(all, i),
                              [all[i] EXCEPT !.finished = at, !.success = success])
         ELSE Append(all, Command(c, at, at, success))
    BY DEF Finish, SelectInSeq
<1>5. RemoveAt(all, n) = commands
    <2>1. SubSeq(all, 1, n - 1) = commands
        BY <1>1
    <2>2. SubSeq(all, n + 1, Len(all)) = << >>
        BY <1>3
    <2> QED BY <2>1, <2>2 DEF RemoveAt
<1> HIDE DEF all
<1>6. I = {n}
    <2>1. n \in I
        BY <1>1, <1>3
    <2>2. ASSUME NEW k \in I, k # n PROVE FALSE
        <3>1. k \in 1..Len(commands) /\ all[k] = commands[k]
            BY <1>3, <2>2
        <3> QED BY <1>3, <2>2, <3>1 DEF NoneOpen
    <2> QED BY <2>1, <2>2
<1>7. i = n /\ n # 0
    <2>1. Min({n}) = n
        BY <1>3 DEF Min
    <2> HIDE DEF I, n
    <2>2. i = n
        BY <1>6, <2>1
    <2> QED BY <1>3, <2>2 DEF n
<1> HIDE DEF i
<1> QED BY <1>2, <1>3, <1>4, <1>5, <1>7 DEF all, x

\* The parts of a concatenation.
LEMMA Parts ==
    ASSUME NEW S, NEW s \in Seq(S), NEW t \in Seq(S)
    PROVE  /\ s \o t \in Seq(S) /\ Len(s \o t) = Len(s) + Len(t)
           /\ Len(s) \in Nat /\ Len(t) \in Nat
           /\ \A i \in 1..Len(s) : (s \o t)[i] = s[i]
           /\ \A i \in 1..Len(t) : (s \o t)[Len(s) + i] = t[i]
  OBVIOUS

\* Two lists of one.
LEMMA TwoLists == ASSUME NEW S, NEW a \in S, NEW b \in S PROVE <<a>> \o <<b>> = <<a, b>>
<1> DEFINE s == <<a>>
           t == <<b>>
           u == <<a, b>>
           v == s \o t
<1>1. s \in Seq(S) /\ Len(s) = 1 /\ s[1] = a
  OBVIOUS
<1>2. t \in Seq(S) /\ Len(t) = 1 /\ t[1] = b
  OBVIOUS
<1>3. u \in Seq(S) /\ Len(u) = 2 /\ u[1] = a /\ u[2] = b
  OBVIOUS
<1> HIDE DEF s, t, u
<1>4. /\ v \in Seq(S) /\ Len(v) = Len(s) + Len(t)
      /\ \A i \in 1..Len(s) : v[i] = s[i]
      /\ \A i \in 1..Len(t) : v[Len(s) + i] = t[i]
  BY <1>1, <1>2, Parts
<1> HIDE DEF v
<1>5. Len(v) = 2 /\ v[1] = a /\ v[2] = b
  <2>1. 1 \in 1..Len(s) /\ 1 \in 1..Len(t) /\ Len(s) + 1 = 2 /\ Len(s) + Len(t) = 2
    BY <1>1, <1>2
  <2> QED BY <1>1, <1>2, <1>4, <2>1
<1>6. \A i \in 1..2 : u[i] = v[i]
  <2>1. 1..2 = {1, 2}
    OBVIOUS
  <2> QED BY <1>3, <1>5, <2>1
<1>7. v = u
  BY <1>3, <1>4, <1>5, <1>6
<1> QED BY <1>7 DEF s, t, u, v

\* Two events.
LEMMA AfterTwo ==
    ASSUME NEW rec \in Records, NEW a \in Events, NEW b \in Events
    PROVE  After(rec, <<a, b>>) = Reduce(Reduce(rec, a), b)
<1> DEFINE s == <<a>>
           t == <<b>>
           mid == Reduce(rec, a)
<1>1. s \in Seq(Events) /\ t \in Seq(Events)
    OBVIOUS
<1>2. <<a, b>> = s \o t
    BY TwoLists
<1>3. mid \in Records
    BY ReduceType
<1>4. After(rec, s) = mid
    BY AfterOne
<1> HIDE DEF mid
<1>5. After(mid, t) = Reduce(mid, b)
    BY <1>3, AfterOne
<1> HIDE DEF s, t
<1>6. After(rec, s \o t) = After(After(rec, s), t)
    BY <1>1, AfterBoth
<1> QED BY <1>2, <1>4, <1>5, <1>6 DEF mid

\* The first of a function's values are a list.
LEMMA UpToType ==
    ASSUME NEW S, NEW n \in Nat, NEW F, Values(F, n, S), NEW i \in 0..n
    PROVE  /\ UpTo(F, i) \in Seq(S) /\ Len(UpTo(F, i)) = i
           /\ \A j \in 1..i : UpTo(F, i)[j] = F[j] /\ j \in 1..n
<1>1. i \in Nat /\ \A j \in 1..i : j \in 1..n
    OBVIOUS
<1>2. \A j \in 1..i : F[j] \in S
    BY <1>1 DEF Values
<1> QED BY <1>1, <1>2 DEF UpTo

\* Lists after each other.
Concat(lists) == Along(LAMBDA acc, list : acc \o list, << >>, lists)

\* The lists joined as the function of positions it computes.
LEMMA ConcatAlong ==
    ASSUME NEW S, NEW lists \in Seq(Seq(S))
    PROVE  \E f \in [0..Len(lists) -> Seq(S)] :
              /\ f[0] = << >>
              /\ \A i \in 1..Len(lists) : f[i] = Join(f[i - 1], lists[i])
              /\ Concat(lists) = f[Len(lists)]
<1>1. PICK f \in [0..Len(lists) -> Seq(S)] :
          /\ f[0] = << >>
          /\ \A i \in 1..Len(lists) : f[i] = Join(f[i - 1], lists[i])
          /\ Along(LAMBDA acc, list : acc \o list, << >>, lists) = f[Len(lists)]
    BY JoinedAlong
<1> QED BY <1>1 DEF Concat

\* Replay of the checks of a verify finishes what it starts, when none of them
\* was open.
LEMMA AfterChecks ==
    ASSUME NEW rec \in Records, clock \in Nat, NEW results \in [DOMAIN Checks -> Success],
           \A c \in ToSet(Checks) : NoneOpen(rec.commands, c)
    PROVE  LET done == [i \in DOMAIN Checks |-> Command(Checks[i], clock, clock, results[i])]
               ran == [i \in DOMAIN Checks |->
                          <<[type |-> "command_started", command |-> Checks[i], at |-> clock],
                            Finished(Checks[i], results[i])>>]
           IN  After(rec, Along(LAMBDA acc, list : acc \o list, << >>, ran)) =
                   [rec EXCEPT !.commands = @ \o done]
<1> DEFINE n == Len(Checks)
           start(i) == [type |-> "command_started", command |-> Checks[i], at |-> clock]
           finish(i) == Finished(Checks[i], results[i])
           pair(i) == <<start(i), finish(i)>>
           ran == [i \in DOMAIN Checks |-> pair(i)]
           F == [i \in DOMAIN Checks |-> Command(Checks[i], clock, clock, results[i])]
           old == rec.commands
           A == Seq(Events)
           Got(i) == [rec EXCEPT !.commands = old \o UpTo(F, i)]
<1>1. /\ n \in Nat /\ DOMAIN Checks = 1..n
      /\ old \in Seq(CommandRecords) /\ "commands" \in DOMAIN rec
      /\ \A i \in 1..n : Checks[i] \in Commands /\ results[i] \in Success
    BY ChecksAssumption DEF Records
<1>2. \A i \in 1..n : start(i) \in Events /\ finish(i) \in Events
    BY <1>1, EventKinds
<1>3. \A i \in 1..n : pair(i) \in A
    <2> HIDE DEF start, finish
    <2> QED BY <1>2
<1>4. ran \in Seq(A) /\ Len(ran) = n /\ \A i \in 1..n : ran[i] = pair(i)
    <2> HIDE DEF pair, A
    <2> QED BY <1>1, <1>3
<1>5. /\ F = UpTo(F, n)
      /\ \A i \in 1..n : F[i] = Command(Checks[i], clock, clock, results[i])
    BY <1>1 DEF UpTo
<1>6. \A i \in 1..n : F[i] \in CommandRecords
    BY <1>1, <1>5 DEF Command, CommandRecords
<1>7. Values(F, n, CommandRecords)
    BY <1>6 DEF Values
<1> HIDE DEF ran, F
<1> HIDE DEF start, finish, pair
<1>8. PICK g \in [0..n -> A] :
          /\ g[0] = << >>
          /\ \A i \in 1..n : g[i] = Join(g[i - 1], ran[i])
          /\ Concat(ran) = g[n]
    <2>1. ran \in Seq(Seq(Events))
        BY <1>4
    <2> QED BY <1>4, <2>1, ConcatAlong
<1> HIDE DEF n
<1> DEFINE T == {i \in 0..n : After(rec, g[i]) = Got(i)}
<1>9. 0 \in T
    <2>1. [rec EXCEPT !.commands = old] = rec
        BY DEF Records
    <2>2. old \o UpTo(F, 0) = old
        BY <1>1, <1>5, All
    <2>3. After(rec, g[0]) = rec
        BY <1>8, AfterNone
    <2> QED BY <1>1, <2>1, <2>2, <2>3
<1>10. ASSUME NEW i \in 0..n, i \in T, i < n PROVE i + 1 \in T
    <2> DEFINE k == i + 1
               c == Checks[k]
               cs == old \o UpTo(F, i)
               mid == [rec EXCEPT !.commands = cs]
               x == Command(c, clock, None, None)
               y == Command(c, clock, clock, results[k])
    <2>1. k \in 1..n /\ k - 1 = i /\ k \in 0..n /\ i \in Nat
        <3>1. n \in Nat /\ i < n
            BY <1>1, <1>10
        <3> HIDE DEF T
        <3> QED BY <3>1
    <2>2. c \in Commands /\ results[k] \in Success
        BY <1>1, <2>1
    <2>3. Append(cs, y) = old \o UpTo(F, k) /\ cs \in Seq(CommandRecords)
        <3>1. i < n /\ n \in Nat /\ old \in Seq(CommandRecords)
            BY <1>1, <1>10
        <3>2. F[i + 1] = y
            <4>1. \A j \in 1..n : F[j] = Command(Checks[j], clock, clock, results[j])
                BY <1>5
            <4> HIDE DEF T
            <4> QED BY <2>1, <4>1
        <3> HIDE DEF T, old, y
        <3>3. Append(old \o UpTo(F, i), F[i + 1]) = old \o UpTo(F, i + 1)
              /\ old \o UpTo(F, i) \in Seq(CommandRecords)
            BY <1>7, <3>1, Longer
        <3> QED BY <3>2, <3>3
    <2>4. NoneOpen(cs, c)
        <3>1. NoneOpen(old, c)
            <4>1. c \in ToSet(Checks)
                BY <1>1, <2>1 DEF ToSet
            <4> QED BY <4>1
        <3>2. /\ UpTo(F, i) \in Seq(CommandRecords) /\ Len(UpTo(F, i)) = i
              /\ \A j \in 1..i : UpTo(F, i)[j] = F[j] /\ j \in 1..n
            <4> HIDE DEF T
            <4>1. n \in Nat
                BY <1>1
            <4> QED BY ONLY <4>1, <1>7, i \in 0..n, UpToType
        <3>3. \A j \in 1..n : F[j].finished = clock
            <4>1. ASSUME NEW j \in 1..n PROVE F[j].finished = clock
                <5>1. F[j] = Command(Checks[j], clock, clock, results[j])
                    BY <1>5
                <5> QED BY ONLY <5>1 DEF Command
            <4> QED BY <4>1
        <3>4. clock # None
            BY NoneAssumption
        <3> DEFINE b == UpTo(F, i)
        <3> HIDE DEF b, old, T
        <3>5. /\ DOMAIN (old \o b) = 1..(Len(old) + i) /\ DOMAIN old = 1..Len(old)
              /\ Len(old) \in Nat
              /\ \A j \in 1..Len(old) : (old \o b)[j] = old[j]
              /\ \A j \in 1..i : (old \o b)[Len(old) + j] = b[j]
            <4>0. Len(b) = i
                BY <3>2 DEF b
            <4>1. b \in Seq(CommandRecords)
                BY <3>2 DEF b
            <4>2. old \in Seq(CommandRecords)
                BY <1>1
            <4>3. /\ old \o b \in Seq(CommandRecords) /\ Len(old \o b) = Len(old) + Len(b)
                  /\ Len(old) \in Nat
                  /\ \A j \in 1..Len(old) : (old \o b)[j] = old[j]
                  /\ \A j \in 1..Len(b) : (old \o b)[Len(old) + j] = b[j]
                BY ONLY <4>1, <4>2, Parts
            <4>4. DOMAIN old = 1..Len(old) /\ DOMAIN (old \o b) = 1..Len(old \o b)
                BY <4>2, <4>3
            <4> QED BY <4>0, <4>3, <4>4
        <3>6. ASSUME NEW j \in 1..(Len(old) + i), (old \o b)[j].command = c
              PROVE  (old \o b)[j].finished # None
            <4>1. CASE j \in 1..Len(old)
                BY <3>1, <3>5, <3>6, <4>1 DEF NoneOpen
            <4>2. CASE j \notin 1..Len(old)
                <5>1. j - Len(old) \in 1..i /\ Len(old) + (j - Len(old)) = j
                    BY <2>1, <3>5, <4>2
                <5>2. (old \o b)[j] = F[j - Len(old)] /\ j - Len(old) \in 1..n
                    BY <3>2, <3>5, <5>1 DEF b
                <5> QED BY <3>3, <3>4, <5>2
            <4> QED BY <4>1, <4>2
        <3> QED BY <3>5, <3>6 DEF NoneOpen, b
    <2> HIDE DEF cs
    <2>5. mid \in Records /\ mid.commands = cs
        BY <2>3 DEF Records
    <2>6. Reduce(mid, start(k)) = [mid EXCEPT !.commands = Append(cs, x)]
        BY <2>5 DEF Reduce, start
    <2>7. Reduce([mid EXCEPT !.commands = Append(cs, x)], finish(k)) =
              [mid EXCEPT !.commands = Finish(Append(cs, x), c, results[k], clock)]
        <3> DEFINE later == [mid EXCEPT !.commands = Append(cs, x)]
        <3>1. Reduce(later, finish(k)) =
                  [later EXCEPT !.commands = Finish(@, c, results[k], clock)]
            BY DEF Reduce, Finished, finish
        <3>2. later.commands = Append(cs, x)
            BY <2>5 DEF Records
        <3> HIDE DEF x, mid, c
        <3> QED BY <2>5, <3>1, <3>2
    <2>8. Finish(Append(cs, x), c, results[k], clock) = Append(cs, y)
        BY <2>2, <2>3, <2>4, Closed
    <2>9. After(mid, pair(k)) = [mid EXCEPT !.commands = Append(cs, y)]
        <3>1. start(k) \in Events /\ finish(k) \in Events
            BY <1>2, <2>1
        <3> HIDE DEF mid, x, y, c
        <3>2. After(mid, pair(k)) = Reduce(Reduce(mid, start(k)), finish(k))
            BY <2>5, <3>1, AfterTwo DEF pair
        <3> QED BY <2>6, <2>7, <2>8, <3>2
    <2>10. After(rec, g[k]) = After(mid, pair(k))
        <3>1. g[k] = g[i] \o pair(k) /\ g[i] \in Seq(Events) /\ pair(k) \in Seq(Events)
            BY <1>3, <1>4, <1>8, <2>1 DEF Join
        <3>2. After(rec, g[i]) = mid
            BY <1>10 DEF cs
        <3> HIDE DEF pair, mid
        <3> QED BY <3>1, <3>2, AfterBoth
    <2>11. [mid EXCEPT !.commands = Append(cs, y)] = [rec EXCEPT !.commands = Append(cs, y)]
        <3> HIDE DEF y
        <3> QED OBVIOUS
    <2>12. After(rec, g[k]) = Got(k)
        <3> HIDE DEF y, mid, pair, k
        <3> QED BY <2>3, <2>9, <2>10, <2>11
    <2> QED BY <2>1, <2>12
<1>11. 0..n \subseteq T
    <2> HIDE DEF T
    <2> QED BY <1>1, <1>9, <1>10, StepByStep
<1>12. After(rec, g[n]) = Got(n)
    <2>1. n \in 0..n
        BY <1>1
    <2> QED BY <1>11, <2>1
<1>13. old \o UpTo(F, n) = old \o F
    <2>1. n \in Nat /\ F = UpTo(F, n) /\ old \in Seq(CommandRecords)
        BY <1>1, <1>5
    <2> HIDE DEF T, old
    <2> QED BY ONLY <2>1, All
<1> QED BY <1>8, <1>12, <1>13 DEF ran, F, Concat, pair, start, finish

-----------------------------------------------------------------------------
(* What replay and the stored record agree on. *)

\* RanWhileOpen of a list of commands and a stream.
RanOpen(commands, s) ==
    \E item \in ToSet(commands) :
        /\ item.command \in ToSet(Checks)
        /\ \/ item.finished = None
           \/ item.started < item.finished
        /\ \E e \in ToSet(s) :
               /\ e.type = "verification_started"
               /\ e.criterion = "*"
               /\ item.started <= e.at
               /\ item.finished # None => e.at < item.finished

\* Forced of a list of warnings.
ForcedIn(warnings) == \E w \in ToSet(warnings) : w.kind = "completion_forced"

\* A replayed and a stored record differ at most where IntegrityHolds says.
Alike(replayed, rec) ==
    /\ replayed.phase = rec.phase
    /\ replayed.reads = rec.reads
    /\ replayed.modified = rec.modified
    /\ replayed.decisions = rec.decisions
    /\ replayed.failed = rec.failed
    /\ replayed.acked = rec.acked
    /\ replayed.compilations = rec.compilations
    /\ replayed.verification = rec.verification
    /\ replayed.patches = rec.patches
    /\ replayed.tokens = rec.tokens

Agrees(replayed, rec, s) ==
    /\ Alike(replayed, rec)
    /\ replayed.warnings = rec.warnings \/ ForcedIn(rec.warnings)
    /\ replayed.commands = rec.commands \/ RanOpen(rec.commands, s)

\* Events and commands are of the time before, or of now.
Before(s, t) == \A e \in ToSet(s) : e.at < t
Begun(commands, t) == \A item \in ToSet(commands) : item.started < t
Now(s) == \A e \in ToSet(s) : e.at = clock

RInv ==
    /\ Before(stream, clock)
    /\ Begun(record.commands, clock)
    /\ Agrees(Replay, record, stream)

\* What was, stays.
LEMMA RanOpenStays ==
    ASSUME NEW C \in Seq(CommandRecords), NEW D \in Seq(CommandRecords),
           NEW s \in Seq(Events), NEW t \in Seq(Events), RanOpen(C, s)
    PROVE  RanOpen(C \o D, s \o t) /\ RanOpen(C, s \o t)
<1>1. ToSet(C) \subseteq ToSet(C \o D) /\ ToSet(s) \subseteq ToSet(s \o t)
    BY ConcatSet
<1> HIDE DEF ToSet
<1> QED BY <1>1 DEF RanOpen

\* A forced completion is in the warnings for good.
LEMMA ForcedStays ==
    ASSUME NEW u \in Seq(Warnings), NEW v \in Seq(Warnings), ForcedIn(u)
    PROVE  ForcedIn(u \o v)
BY ConcatSet DEF ForcedIn

\* What start stores is a record.
LEMMA CreatedType == Created \in Records
<1>1. "understand" \in ToSet(Phases)
    BY PhaseOrder
<1>2. << >> \in Seq(CommandRecords) /\ << >> \in Seq(Warnings) /\ << >> \in Seq(Verdicts)
      /\ << >> \in Seq(Patches) /\ << >> \in Seq(Paths) /\ << >> \in Seq(Decisions)
    OBVIOUS
<1> QED BY <1>1, <1>2 DEF Created, Records

\* What replay makes of a stream is a record.
LEMMA ReplayType == ASSUME LInv PROVE Replay \in Records
<1>1. Replay = After(Created, stream)
    BY DEF Replay, After
<1> QED BY <1>1, CreatedType, AfterType DEF LInv

\* A record with other warnings.
LEMMA OtherWarnings ==
    ASSUME NEW rec \in Records, NEW list
    PROVE  LET new == [rec EXCEPT !.warnings = list]
           IN  Alike(new, rec) /\ new.commands = rec.commands /\ new.warnings = list
BY DEF Alike, Records

\* Warnings are replayed as they are stored.
LEMMA AgreesWarned ==
    ASSUME NEW R \in Records, NEW rec \in Records, NEW s, Agrees(R, rec, s),
           NEW found \in Seq(Findings), clock \in Nat
    PROVE  Agrees(WithWarnings(R, found), WithWarnings(rec, found), s)
<1> DEFINE added == [i \in DOMAIN found |-> Warning(found[i])]
           X == WithWarnings(R, found)
           x == WithWarnings(rec, found)
<1>1. rec.warnings \in Seq(Warnings) /\ "warnings" \in DOMAIN rec
      /\ rec = [rec EXCEPT !.phase = rec.phase]
    BY DEF Records
<1>2. added \in Seq(Warnings)
    BY <1>1, WithWarningsAdds
<1>3. X = [R EXCEPT !.warnings = R.warnings \o added]
      /\ x = [rec EXCEPT !.warnings = rec.warnings \o added]
    BY DEF WithWarnings
<1> HIDE DEF added, X, x
<1>4. Alike(X, R) /\ X.commands = R.commands /\ X.warnings = R.warnings \o added
    <2> DEFINE list == R.warnings \o added
               new == [R EXCEPT !.warnings = list]
    <2> HIDE DEF list
    <2>1. Alike(new, R) /\ new.commands = R.commands /\ new.warnings = list
        BY OtherWarnings
    <2>2. X = new
        BY <1>3 DEF list
    <2> HIDE DEF new
    <2> QED BY <2>1, <2>2 DEF list
<1>5. Alike(x, rec) /\ x.commands = rec.commands /\ x.warnings = rec.warnings \o added
    <2> DEFINE list == rec.warnings \o added
               new == [rec EXCEPT !.warnings = list]
    <2> HIDE DEF list
    <2>1. Alike(new, rec) /\ new.commands = rec.commands /\ new.warnings = list
        BY OtherWarnings
    <2>2. x = new
        BY <1>3 DEF list
    <2> HIDE DEF new
    <2> QED BY <2>1, <2>2 DEF list
<1>6. ForcedIn(rec.warnings) => ForcedIn(x.warnings)
    BY <1>1, <1>2, <1>5, ForcedStays
<1>7. Agrees(R, rec, s)
    OBVIOUS
<1>8. Alike(X, x)
    BY ONLY <1>4, <1>5, <1>7 DEF Agrees, Alike
<1>9. Agrees(X, x, s)
    BY ONLY <1>4, <1>5, <1>6, <1>7, <1>8 DEF Agrees
<1> QED BY <1>9 DEF X, x

\* What Save adds after the new events is replayed as it is stored.
LEMMA SaveReplays ==
    ASSUME LInv, RInv, NEW rec \in Records, NEW new \in Seq(Events), Save(rec, new),
           Now(new), Begun(rec.commands, clock + 1),
           Agrees(After(Replay, new), rec, stream \o new)
    PROVE  RInv'
<1> DEFINE found == Unwarned(rec, Inspect(rec.phase, rec.compilations > 0, stream \o new))
           raised == Raising(found)
           all == new \o raised
           mid == After(Replay, new)
           old == Replay
<1>1. record' = WithWarnings(rec, found) /\ stream' = stream \o all /\ clock' = clock + 1
    BY DEF Save, Governed
<1>2. stream \in Seq(Events) /\ clock \in Nat
    BY BoundAssumption DEF LInv
<1>3. found \in Seq(Findings)
    <2>1. stream \o new \in Seq(Events)
        BY <1>2, ConcatSet
    <2>2. (rec.compilations > 0) \in BOOLEAN
        OBVIOUS
    <2>3. Inspect(rec.phase, rec.compilations > 0, stream \o new) \in Seq(Findings)
        BY <2>1, <2>2, Inspected
    <2> QED BY <2>3, UnwarnedFound
<1> HIDE DEF found
<1>4. raised \in Seq(Events)
    BY <1>2, <1>3, RaisingType
<1>5. \A e \in ToSet(raised) : e.at = clock
    BY <1>3 DEF Raising, Raised, ToSet
<1> HIDE DEF raised
<1>6. /\ all \in Seq(Events)
      /\ ToSet(all) = ToSet(new) \cup ToSet(raised)
      /\ ToSet(stream \o all) = ToSet(stream) \cup ToSet(all)
      /\ ToSet(stream \o new) = ToSet(stream) \cup ToSet(new)
    <2>1. all \in Seq(Events) /\ ToSet(all) = ToSet(new) \cup ToSet(raised)
        BY <1>4, ConcatSet
    <2> HIDE DEF all
    <2>2. stream \in Seq(Events) /\ all \in Seq(Events)
        BY <1>2, <2>1
    <2>3. ToSet(stream \o all) = ToSet(stream) \cup ToSet(all)
        BY <2>2, ConcatSet
    <2>4. ToSet(stream \o new) = ToSet(stream) \cup ToSet(new)
        BY <2>2, ConcatSet
    <2> QED BY <2>1, <2>3, <2>4
<1>7. old \in Records /\ mid \in Records
    BY ReplayType, AfterType
<1>8. Replay' = WithWarnings(mid, found)
    <2>1. Replay' = After(Created, stream')
        BY DEF Replay, After
    <2>2. old = After(Created, stream)
        BY DEF Replay, After
    <2> HIDE DEF old, all
    <2>3. After(Created, stream \o all) = After(After(Created, stream), all)
        BY <1>2, <1>6, CreatedType, AfterBoth
    <2>4. After(old, new \o raised) = After(After(old, new), raised)
        BY <1>4, <1>7, AfterBoth
    <2> HIDE DEF mid
    <2>5. After(mid, raised) = WithWarnings(mid, found)
        BY <1>2, <1>3, <1>7, AfterRaising DEF raised
    <2> QED BY <1>1, <2>1, <2>2, <2>3, <2>4, <2>5 DEF mid, old, all
<1> HIDE DEF mid, old, all
<1>9. Agrees(mid, rec, stream \o all)
    <2>1. Agrees(mid, rec, stream \o new)
        BY DEF mid, old
    <2>2. RanOpen(rec.commands, stream \o new) => RanOpen(rec.commands, stream \o all)
        BY <1>6 DEF RanOpen
    <2> QED BY <2>1, <2>2 DEF Agrees
<1>10. Agrees(WithWarnings(mid, found), WithWarnings(rec, found), stream \o all)
    BY <1>2, <1>3, <1>7, <1>9, AgreesWarned
<1>11. Begun(record'.commands, clock')
    <2>1. "commands" \in DOMAIN rec
        BY DEF Records
    <2>2. WithWarnings(rec, found).commands = rec.commands
        BY <1>2, <1>3, <2>1, WarnedType
    <2> QED BY <1>1, <2>2
<1>12. Before(stream', clock')
    <2>1. \A e \in ToSet(stream \o all) : e \in ToSet(stream) \/ e.at = clock
        BY <1>5, <1>6 DEF Now
    <2>2. \A e \in ToSet(stream) : e.at \in Nat /\ e.at < clock
        <3>1. ToSet(stream) \subseteq Events
            BY <1>2 DEF ToSet
        <3> QED BY <3>1, EventShape DEF RInv, Before
    <2> QED BY <1>1, <1>2, <2>1, <2>2 DEF Before
<1> QED BY <1>1, <1>8, <1>10, <1>11, <1>12 DEF RInv

-----------------------------------------------------------------------------
(* The operations that leave commands and warnings alone. *)

\* Commands and warnings are left alone.
Kept(a, b) == a.commands = b.commands /\ a.warnings = b.warnings

\* An operation that leaves commands and warnings alone is replayed when its events
\* write the rest.
LEMMA KeptReplays ==
    ASSUME LInv, RInv, NEW rec \in Records, NEW new \in Seq(Events), Now(new), Save(rec, new),
           Kept(rec, record), Kept(After(Replay, new), Replay), Alike(After(Replay, new), rec)
    PROVE  RInv'
<1>1. record.commands \in Seq(CommandRecords) /\ stream \in Seq(Events) /\ clock \in Nat
    BY DEF LInv, Records
<1>2. RanOpen(record.commands, stream) => RanOpen(record.commands, stream \o new)
    BY <1>1, RanOpenStays
<1>3. Agrees(After(Replay, new), rec, stream \o new)
    BY <1>2 DEF RInv, Agrees, Kept
<1>4. Begun(rec.commands, clock + 1)
    <2>1. \A item \in ToSet(record.commands) : item.started \in Nat
        <3>1. ToSet(record.commands) \subseteq CommandRecords
            BY <1>1 DEF ToSet
        <3> QED BY <3>1 DEF CommandRecords
    <2> QED BY <1>1, <2>1 DEF RInv, Begun, Kept
<1> QED BY <1>3, <1>4, SaveReplays

\* The same of one event.
LEMMA OneReplays ==
    ASSUME LInv, RInv, NEW rec, NEW e, rec \in Records, e \in Events, e.at = clock,
           Save(rec, <<e>>), Kept(rec, record), Kept(Reduce(Replay, e), Replay),
           Alike(Reduce(Replay, e), rec)
    PROVE  RInv'
<1> DEFINE new == <<e>>
<1>1. new \in Seq(Events) /\ DOMAIN new = {1} /\ new[1] = e
    BY One
<1>2. Now(new)
    BY <1>1 DEF Now, ToSet
<1>3. After(Replay, new) = Reduce(Replay, e)
    BY ReplayType, AfterOne
<1>4. Save(rec, new)
    OBVIOUS
<1> HIDE DEF new
<1> QED BY <1>1, <1>2, <1>3, <1>4, KeptReplays

\* record_file_read is replayed.
LEMMA FileReadReplays ==
    ASSUME LInv, RInv, NEW p \in Paths, RecordFileRead(p) PROVE RInv'
<1> DEFINE rec == [record EXCEPT !.reads = Append(@, p)]
           e == OnPath("file_read", p)
<1>1. Replay \in Records /\ record \in Records /\ clock \in Nat
    BY ReplayType DEF LInv
<1>2. e \in Events /\ e.at = clock
    BY <1>1, EventKinds DEF OnPath
<1>3. Save(rec, <<e>>)
    BY DEF RecordFileRead
<1>4. Append(record.reads, p) \in Seq(Paths)
    BY <1>1 DEF Records
<1>5. Reduce(Replay, e) = [Replay EXCEPT !.reads = Append(@, p)]
    BY DEF Reduce, OnPath
<1> HIDE DEF e
<1>6. rec \in Records /\ Kept(rec, record) /\ Kept(Reduce(Replay, e), Replay)
    BY <1>1, <1>4, <1>5 DEF Records, Kept
<1>7. Alike(Reduce(Replay, e), rec)
    BY <1>1, <1>5 DEF RInv, Agrees, Alike, Records
<1> HIDE DEF rec
<1> QED BY <1>2, <1>3, <1>6, <1>7, OneReplays

\* record_file_modified is replayed.
LEMMA FileModifiedReplays ==
    ASSUME LInv, RInv, NEW p \in Paths, RecordFileModified(p) PROVE RInv'
<1> DEFINE rec == [record EXCEPT !.modified = AddNew(@, p)]
           e == OnPath("file_modified", p)
<1>1. Replay \in Records /\ record \in Records /\ clock \in Nat
    BY ReplayType DEF LInv
<1>2. e \in Events /\ e.at = clock
    BY <1>1, EventKinds DEF OnPath
<1>3. Save(rec, <<e>>)
    BY DEF RecordFileModified
<1>4. AddNew(record.modified, p) \in Seq(Paths)
    BY <1>1, AddNewType DEF Records
<1>5. Reduce(Replay, e) = [Replay EXCEPT !.modified = AddNew(@, p)]
    BY DEF Reduce, OnPath
<1> HIDE DEF e
<1>6. rec \in Records /\ Kept(rec, record) /\ Kept(Reduce(Replay, e), Replay)
    BY <1>1, <1>4, <1>5 DEF Records, Kept
<1>7. Alike(Reduce(Replay, e), rec)
    BY <1>1, <1>5 DEF RInv, Agrees, Alike, Records
<1> HIDE DEF rec
<1> QED BY <1>2, <1>3, <1>6, <1>7, OneReplays

\* record_decision is replayed.
LEMMA DecisionReplays ==
    ASSUME LInv, RInv, NEW d \in Decisions, RecordDecision(d) PROVE RInv'
<1> DEFINE rec == [record EXCEPT !.decisions = Append(@, d)]
           e == Decided(None, d)
<1>1. Replay \in Records /\ record \in Records /\ clock \in Nat
    BY ReplayType DEF LInv
<1>2. e \in Events /\ e.at = clock
    BY <1>1, EventKinds DEF Decided
<1>3. Save(rec, <<e>>)
    BY DEF RecordDecision
<1>4. Append(record.decisions, d) \in Seq(Decisions)
    BY <1>1 DEF Records
<1>5. Reduce(Replay, e) = [Replay EXCEPT !.decisions = Append(@, d)]
    BY NoneAssumption DEF Reduce, ReduceDecision, Decided
<1> HIDE DEF e
<1>6. rec \in Records /\ Kept(rec, record) /\ Kept(Reduce(Replay, e), Replay)
    BY <1>1, <1>4, <1>5 DEF Records, Kept
<1>7. Alike(Reduce(Replay, e), rec)
    BY <1>1, <1>5 DEF RInv, Agrees, Alike, Records
<1> HIDE DEF rec
<1> QED BY <1>2, <1>3, <1>6, <1>7, OneReplays

\* A failed approach is replayed, from an event of decisions.
LEMMA FailedApproachReplays ==
    ASSUME LInv, RInv, NEW d \in Decisions, RecordFailedApproach(d) PROVE RInv'
<1> DEFINE rec == [record EXCEPT !.failed = Append(@, d)]
           e == Decided("failed_approach", d)
<1>1. Replay \in Records /\ record \in Records /\ clock \in Nat
    BY ReplayType DEF LInv
<1>2. e \in Events /\ e.at = clock
    BY <1>1, EventKinds DEF Decided
<1>3. Save(rec, <<e>>)
    BY DEF RecordFailedApproach
<1>4. Append(record.failed, d) \in Seq(Decisions)
    BY <1>1 DEF Records
<1>5. Reduce(Replay, e) = [Replay EXCEPT !.failed = Append(@, d)]
    BY NoneAssumption DEF Reduce, ReduceDecision, Decided
<1> HIDE DEF e
<1>6. rec \in Records /\ Kept(rec, record) /\ Kept(Reduce(Replay, e), Replay)
    BY <1>1, <1>4, <1>5 DEF Records, Kept
<1>7. Alike(Reduce(Replay, e), rec)
    BY <1>1, <1>5 DEF RInv, Agrees, Alike, Records
<1> HIDE DEF rec
<1> QED BY <1>2, <1>3, <1>6, <1>7, OneReplays

\* acknowledge is replayed, from an event of decisions.
LEMMA AcknowledgeReplays ==
    ASSUME LInv, RInv, NEW kind \in {"scope_expansion", "test_tampering"}, NEW p \in Paths,
           Acknowledge(kind, p) PROVE RInv'
<1> DEFINE rec == [record EXCEPT !.acked = @ \cup {<<kind, p>>}]
           e == Decided("acknowledge", <<kind, p>>)
<1>1. Replay \in Records /\ record \in Records /\ clock \in Nat
    BY ReplayType DEF LInv
<1>2. <<kind, p>> \in Acknowledged
    BY DEF Acknowledged
<1>3. e \in Events /\ e.at = clock
    BY <1>1, <1>2, EventKinds DEF Decided
<1>4. Save(rec, <<e>>)
    BY DEF Acknowledge
<1>5. record.acked \cup {<<kind, p>>} \in SUBSET Acknowledged
    BY <1>1, <1>2 DEF Records
<1>6. Reduce(Replay, e) = [Replay EXCEPT !.acked = @ \cup {<<kind, p>>}]
    BY NoneAssumption DEF Reduce, ReduceDecision, Decided
<1> HIDE DEF e
<1>7. rec \in Records /\ Kept(rec, record) /\ Kept(Reduce(Replay, e), Replay)
    BY <1>1, <1>5, <1>6 DEF Records, Kept
<1>8. Alike(Reduce(Replay, e), rec)
    BY <1>1, <1>6 DEF RInv, Agrees, Alike, Records
<1> HIDE DEF rec
<1> QED BY <1>3, <1>4, <1>7, <1>8, OneReplays

\* record_usage is replayed.
LEMMA UsageReplays ==
    ASSUME LInv, RInv, NEW n \in Usage, RecordUsage(n) PROVE RInv'
<1> DEFINE rec == [record EXCEPT !.tokens = @ + n]
           e == [type |-> "usage_recorded", tokens |-> n, at |-> clock]
<1>1. Replay \in Records /\ record \in Records /\ clock \in Nat
    BY ReplayType DEF LInv
<1>2. e \in Events /\ e.at = clock
    BY <1>1, EventKinds
<1>3. Save(rec, <<e>>)
    BY DEF RecordUsage
<1>4. record.tokens + n \in Int
    <2>1. record.tokens \in Int
        BY ONLY <1>1 DEF Records
    <2>2. n \in Int
        BY ResultsAssumption
    <2> QED BY ONLY <2>1, <2>2
<1>5. Reduce(Replay, e) = [Replay EXCEPT !.tokens = @ + n]
    BY DEF Reduce
<1> HIDE DEF e
<1>6. rec \in Records /\ Kept(rec, record) /\ Kept(Reduce(Replay, e), Replay)
    BY <1>1, <1>4, <1>5 DEF Records, Kept
<1>7. Alike(Reduce(Replay, e), rec)
    BY <1>1, <1>5 DEF RInv, Agrees, Alike, Records
<1> HIDE DEF rec
<1> QED BY <1>2, <1>3, <1>6, <1>7, OneReplays

\* record_verification is replayed.
LEMMA RecordVerificationReplays ==
    ASSUME LInv, RInv, NEW k \in Criteria, NEW status \in Statuses,
           RecordVerification(k, status) PROVE RInv'
<1> DEFINE rec == [record EXCEPT !.verification = Append(@, Verdict(k, status))]
           e == Result(k, status)
<1>1. Replay \in Records /\ record \in Records /\ clock \in Nat
    BY ReplayType DEF LInv
<1>2. Verdict(k, status) \in Verdicts
    BY <1>1 DEF Verdict, Verdicts
<1>3. e \in Events /\ e.at = clock
    BY <1>1, <1>2, EventKinds DEF Result, Verdict
<1>4. Save(rec, <<e>>)
    BY DEF RecordVerification
<1>5. Append(record.verification, Verdict(k, status)) \in Seq(Verdicts)
    BY <1>1, <1>2 DEF Records
<1>6. Reduce(Replay, e) = [Replay EXCEPT !.verification = Append(@, Verdict(k, status))]
    BY DEF Reduce, Result, Verdict
<1> HIDE DEF e
<1>7. rec \in Records /\ Kept(rec, record) /\ Kept(Reduce(Replay, e), Replay)
    BY <1>1, <1>5, <1>6 DEF Records, Kept
<1>8. Alike(Reduce(Replay, e), rec)
    BY <1>1, <1>6 DEF RInv, Agrees, Alike, Records
<1> HIDE DEF rec
<1> QED BY <1>3, <1>4, <1>7, <1>8, OneReplays

\* propose_patch is replayed.
LEMMA ProposeReplays ==
    ASSUME LInv, RInv, NEW id \in PatchIds, NEW p \in Paths, ProposePatch(id, p) PROVE RInv'
<1> DEFINE patch == [id |-> id, path |-> p, status |-> "proposed", at |-> clock, applied |-> None]
           rec == [record EXCEPT !.patches = Append(@, patch)]
           e == [type |-> "patch_proposed", patch |-> patch, at |-> clock]
<1>1. Replay \in Records /\ record \in Records /\ clock \in Nat
    BY ReplayType DEF LInv
<1>2. patch \in Patches
    BY <1>1 DEF Patches
<1>3. e \in Events /\ e.at = clock
    BY <1>1, <1>2, EventKinds
<1>4. Save(rec, <<e>>)
    BY DEF ProposePatch
<1>5. Append(record.patches, patch) \in Seq(Patches)
    BY <1>1, <1>2 DEF Records
<1>6. Reduce(Replay, e) = [Replay EXCEPT !.patches = Append(@, patch)]
    BY DEF Reduce
<1> HIDE DEF e
<1>7. rec \in Records /\ Kept(rec, record) /\ Kept(Reduce(Replay, e), Replay)
    BY <1>1, <1>5, <1>6 DEF Records, Kept
<1>8. Alike(Reduce(Replay, e), rec)
    BY <1>1, <1>6 DEF RInv, Agrees, Alike, Records
<1> HIDE DEF rec
<1> QED BY <1>3, <1>4, <1>7, <1>8, OneReplays

\* The start of a verification changes nothing, here and there.
LEMMA VerificationStartedReplays ==
    ASSUME LInv, RInv, NEW k \in Criteria, VerificationStarted(k) PROVE RInv'
<1> DEFINE e == [type |-> "verification_started", criterion |-> k, at |-> clock]
<1>1. e \in Events /\ e.at = clock
    BY EventKinds DEF LInv
<1>2. Save(record, <<e>>) /\ record \in Records
    BY DEF VerificationStarted, LInv
<1>3. Reduce(Replay, e) = Replay
    BY DEF Reduce
<1> HIDE DEF e
<1>4. Kept(record, record) /\ Kept(Reduce(Replay, e), Replay)
    BY <1>3 DEF Kept
<1>5. Alike(Reduce(Replay, e), record)
    BY <1>3 DEF RInv, Agrees
<1> QED BY <1>1, <1>2, <1>4, <1>5, OneReplays

-----------------------------------------------------------------------------
(* Commands, and what is assessed. *)

\* Commands that are there started before, and are in the list of commands.
LEMMA CommandsTyped ==
    ASSUME LInv
    PROVE  /\ record.commands \in Seq(CommandRecords) /\ ToSet(record.commands) \subseteq CommandRecords
           /\ stream \in Seq(Events) /\ ToSet(stream) \subseteq Events /\ clock \in Nat
<1>1. record.commands \in Seq(CommandRecords) /\ stream \in Seq(Events) /\ clock \in Nat
    BY DEF LInv, Records
<1> QED BY <1>1 DEF ToSet

\* command_started is replayed.
LEMMA CommandStartedReplays ==
    ASSUME LInv, RInv, NEW c \in Commands, CommandStarted(c) PROVE RInv'
<1> DEFINE x == Command(c, clock, None, None)
           rec == [record EXCEPT !.commands = Append(@, x)]
           e == [type |-> "command_started", command |-> c, at |-> clock]
           new == <<e>>
<1>1. Replay \in Records /\ record \in Records /\ clock \in Nat /\ stream \in Seq(Events)
      /\ record.commands \in Seq(CommandRecords)
    BY ReplayType, CommandsTyped DEF LInv
<1>2. e \in Events /\ e.at = clock
    BY <1>1, EventKinds
<1>3. Save(rec, new)
    BY DEF CommandStarted
<1>4. x \in CommandRecords /\ x.started = clock
    BY <1>1 DEF Command, CommandRecords
<1>5. Reduce(Replay, e) = [Replay EXCEPT !.commands = Append(@, x)]
    BY DEF Reduce
<1> HIDE DEF e, x
<1>6. new \in Seq(Events) /\ Now(new)
    <2>1. new \in Seq(Events) /\ DOMAIN new = {1} /\ new[1] = e
        BY <1>2, One
    <2> QED BY <1>2, <2>1 DEF Now, ToSet
<1>7. After(Replay, new) = Reduce(Replay, e)
    BY <1>1, <1>2, AfterOne
<1>8. Append(record.commands, x) \in Seq(CommandRecords)
    BY <1>1, <1>4
<1>9. rec \in Records /\ rec.commands = Append(record.commands, x)
    BY <1>1, <1>8 DEF Records
<1>10. ToSet(Append(record.commands, x)) = ToSet(record.commands) \cup {x}
    BY <1>1, <1>4, AppendSet
<1>11. Begun(rec.commands, clock + 1)
    <2>1. \A item \in ToSet(record.commands) : item.started \in Nat /\ item.started < clock
        BY CommandsTyped DEF RInv, Begun, CommandRecords
    <2> QED BY <1>1, <1>4, <1>9, <1>10, <2>1 DEF Begun
<1> HIDE DEF new
<1>12. RanOpen(record.commands, stream) => RanOpen(rec.commands, stream \o new)
    <2>1. ToSet(stream) \subseteq ToSet(stream \o new)
        BY <1>1, <1>6, ConcatSet
    <2>2. ToSet(record.commands) \subseteq ToSet(rec.commands)
        BY <1>9, <1>10
    <2> HIDE DEF ToSet, rec
    <2> QED BY <2>1, <2>2 DEF RanOpen
<1>13. Agrees(After(Replay, new), rec, stream \o new)
    <2>1. Alike(Reduce(Replay, e), rec)
        BY <1>1, <1>5 DEF RInv, Agrees, Alike, Records
    <2>2. Reduce(Replay, e).warnings = Replay.warnings /\ rec.warnings = record.warnings
        BY <1>1, <1>5 DEF Records
    <2>3. Reduce(Replay, e).commands = Append(Replay.commands, x)
        BY <1>1, <1>5 DEF Records
    <2> HIDE DEF rec
    <2> QED BY <1>7, <1>9, <1>12, <2>1, <2>2, <2>3 DEF RInv, Agrees
<1> HIDE DEF rec
<1> QED BY <1>3, <1>6, <1>9, <1>11, <1>13, SaveReplays

\* What is left when one is removed.
LEMMA RemovedSet ==
    ASSUME NEW S, NEW s \in Seq(S), NEW i \in 1..Len(s)
    PROVE  ToSet(RemoveAt(s, i)) = {s[k] : k \in (1..Len(s)) \ {i}}
<1> DEFINE n == Len(s)
           a == SubSeq(s, 1, i - 1)
           b == SubSeq(s, i + 1, n)
<1>1. n \in Nat /\ i \in 1..n /\ DOMAIN s = 1..n
    OBVIOUS
<1>2. /\ a \in Seq(S) /\ Len(a) = i - 1 /\ \A k \in 1..(i - 1) : a[k] = s[k]
    BY <1>1
<1>3. /\ b \in Seq(S) /\ Len(b) = n - i /\ \A k \in 1..(n - i) : b[k] = s[i + k]
    <2> DEFINE m == i + 1
    <2>2. \A j \in m..n : s[j] \in S
        BY <1>1
    <2>3. m \in Int /\ n \in Int
        BY <1>1
    <2>4. m <= n => n - m + 1 = n - i
        BY <1>1
    <2>5. ~(m <= n) => n - i = 0
        <3>1. n \in Nat /\ i \in Nat /\ i <= n
            BY <1>1
        <3> HIDE DEF n
        <3> QED BY <3>1
    <2>6. n - m + 1 = n - i
        BY <1>1
    <2> HIDE DEF m
    <2>7. /\ SubSeq(s, m, n) \in Seq(S)
          /\ Len(SubSeq(s, m, n)) = IF m <= n THEN n - m + 1 ELSE 0
          /\ \A k \in 1..(n - m + 1) : SubSeq(s, m, n)[k] = s[m + k - 1]
        BY ONLY <2>2, <2>3, SubSeqProperties
    <2>8. \A k \in 1..(n - i) : m + k - 1 = i + k
        BY <1>1 DEF m
    <2>9. b = SubSeq(s, m, n)
        BY DEF m
    <2> HIDE DEF b
    <2>10. n - i = IF m <= n THEN n - m + 1 ELSE 0
        BY <2>3, <2>4, <2>5
    <2> QED BY <2>6, <2>7, <2>8, <2>9, <2>10
<1> HIDE DEF a, b
<1>4. ToSet(a \o b) = ToSet(a) \cup ToSet(b)
    BY <1>2, <1>3, ConcatSet
<1>5. ToSet(a) = {s[k] : k \in 1..(i - 1)}
    <2>1. DOMAIN a = 1..(i - 1)
        BY <1>2
    <2> QED BY <1>2, <2>1 DEF ToSet
<1>6. ToSet(b) = {s[k] : k \in (i + 1)..n}
    <2>1. DOMAIN b = 1..(n - i)
        BY <1>3
    <2>2. \A k \in 1..(n - i) : i + k \in (i + 1)..n
        BY <1>1
    <2>3. \A k \in (i + 1)..n : k - i \in 1..(n - i) /\ i + (k - i) = k
        BY <1>1
    <2>4. \A x : (\E k \in 1..(n - i) : x = b[k]) <=> (\E k \in (i + 1)..n : x = s[k])
        BY <1>3, <2>2, <2>3
    <2> QED BY <2>1, <2>4 DEF ToSet
<1>7. (1..n) \ {i} = (1..(i - 1)) \cup ((i + 1)..n)
    BY <1>1
<1> QED BY <1>4, <1>5, <1>6, <1>7 DEF RemoveAt, a, b

\* A finish changes one instance at most, and that one was open.
LEMMA FinishChanges ==
    ASSUME NEW C \in Seq(CommandRecords), NEW c \in Commands, NEW success \in Success,
           NEW at \in Nat
    PROVE  LET D == ToSet(Finish(C, c, success, at))
               Done(item) == [item EXCEPT !.finished = at, !.success = success]
           IN  /\ \A item \in ToSet(C) :
                     item \in D \/ (item.finished = None /\ Done(item) \in D)
               /\ \A item \in D : item.started = at
                     \/ \E old \in ToSet(C) : item.started = old.started
<1> DEFINE n == Len(C)
           I == {i \in 1..n : C[i].command = c /\ C[i].finished = None}
           i == IF I # {} THEN Min(I) ELSE 0
           Done(item) == [item EXCEPT !.finished = at, !.success = success]
           new == Command(c, at, at, success)
           D == ToSet(Finish(C, c, success, at))
<1>1. Finish(C, c, success, at) = IF i # 0 THEN Append(RemoveAt(C, i), Done(C[i]))
                                  ELSE Append(C, new)
    BY DEF Finish, SelectInSeq
<1>2. n \in Nat /\ DOMAIN C = 1..n /\ \A k \in 1..n : C[k] \in CommandRecords
    OBVIOUS
<1>3. CASE i = 0
    <2>1. new \in CommandRecords /\ new.started = at
        BY DEF Command, CommandRecords
    <2> HIDE DEF new, i
    <2>2. D = ToSet(C) \cup {new}
        BY <1>1, <1>3, <2>1, AppendSet
    <2> HIDE DEF D
    <2> QED BY <2>1, <2>2 DEF D, Done
<1>4. CASE i # 0
    <2>1. I # {} /\ i = Min(I)
        BY <1>4
    <2> HIDE DEF i
    <2>2. i \in I
        BY <1>2, <2>1, Earliest
    <2>3. i \in 1..n /\ C[i].finished = None /\ C[i] \in CommandRecords
        BY <1>2, <2>2
    <2> DEFINE left == RemoveAt(C, i)
    <2>4. left \in Seq(CommandRecords)
        BY <2>3, Removed
    <2>5. ToSet(left) = {C[k] : k \in (1..n) \ {i}}
        BY <1>2, <2>3, RemovedSet
    <2>6. Done(C[i]) \in CommandRecords /\ Done(C[i]).started = C[i].started
        BY <2>3 DEF CommandRecords
    <2>7. D = ToSet(left) \cup {Done(C[i])}
        <3> DEFINE x == Done(C[i])
        <3>1. x \in CommandRecords
            BY <2>6
        <3>2. Finish(C, c, success, at) = Append(left, x)
            BY <1>1, <1>4
        <3> HIDE DEF x, left
        <3>3. ToSet(Append(left, x)) = ToSet(left) \cup {x}
            BY <2>4, <3>1, AppendSet
        <3> QED BY <3>2, <3>3 DEF x
    <2> HIDE DEF D, left
    <2>8. ASSUME NEW item \in ToSet(C)
          PROVE  item \in D \/ (item.finished = None /\ Done(item) \in D)
        <3>1. PICK k \in 1..n : item = C[k]
            BY <1>2 DEF ToSet
        <3> HIDE DEF Done
        <3> QED BY <2>3, <2>5, <2>7, <3>1
    <2>9. ASSUME NEW item \in D PROVE \E old \in ToSet(C) : item.started = old.started
        <3>1. \A k \in 1..n : C[k] \in ToSet(C)
            BY <1>2 DEF ToSet
        <3>2. item = Done(C[i]) \/ \E k \in 1..n : item = C[k]
            BY <2>5, <2>7
        <3> HIDE DEF Done
        <3> QED BY <2>3, <2>6, <3>1, <3>2
    <2> QED BY <2>8, <2>9 DEF D
<1> QED BY <1>3, <1>4

\* command_finished is replayed: what it finds open, replay finds open.
LEMMA CommandFinishedReplays ==
    ASSUME LInv, RInv, NEW c \in Commands, NEW success \in Success, CommandFinished(c, success)
    PROVE  RInv'
<1> DEFINE finished == Finish(record.commands, c, success, clock)
           rec == [record EXCEPT !.commands = Finish(@, c, success, clock)]
           e == Finished(c, success)
           new == <<e>>
           D == ToSet(finished)
           Done(item) == [item EXCEPT !.finished = clock, !.success = success]
<1>1. Replay \in Records /\ record \in Records /\ clock \in Nat /\ stream \in Seq(Events)
      /\ record.commands \in Seq(CommandRecords)
    BY ReplayType, CommandsTyped DEF LInv
<1>2. e \in Events /\ e.at = clock
    BY <1>1, EventKinds DEF Finished
<1>3. Save(rec, new)
    BY DEF CommandFinished
<1>4. Reduce(Replay, e) = [Replay EXCEPT !.commands = Finish(@, c, success, clock)]
    BY DEF Reduce, Finished
<1> HIDE DEF e
<1>5. new \in Seq(Events) /\ Now(new)
    <2>1. new \in Seq(Events) /\ DOMAIN new = {1} /\ new[1] = e
        BY <1>2, One
    <2> QED BY <1>2, <2>1 DEF Now, ToSet
<1>6. After(Replay, new) = Reduce(Replay, e)
    BY <1>1, <1>2, AfterOne
<1>7. finished \in Seq(CommandRecords)
    BY <1>1, FinishType
<1>8. rec \in Records /\ rec.commands = finished
    BY <1>1, <1>7 DEF Records
<1>9. /\ \A item \in ToSet(record.commands) :
             item \in D \/ (item.finished = None /\ Done(item) \in D)
      /\ \A item \in D : item.started = clock
             \/ \E old \in ToSet(record.commands) : item.started = old.started
    BY <1>1, FinishChanges
<1>10. \A item \in ToSet(record.commands) :
           item \in CommandRecords /\ item.started \in Nat /\ item.started < clock
    BY CommandsTyped DEF RInv, Begun, CommandRecords
<1> HIDE DEF finished
<1>11. Begun(rec.commands, clock + 1)
    <2>1. ASSUME NEW item \in D PROVE item.started < clock + 1
        <3>1. CASE item.started = clock
            BY <1>1, <3>1
        <3>2. CASE \E old \in ToSet(record.commands) : item.started = old.started
            <4>1. item.started \in Nat /\ item.started < clock
                BY <1>10, <3>2
            <4> QED BY <1>1, <4>1
        <3> QED BY <1>9, <3>1, <3>2
    <2> QED BY <1>8, <2>1 DEF Begun
<1> HIDE DEF new
<1>12. RanOpen(record.commands, stream) => RanOpen(finished, stream \o new)
    <2> SUFFICES ASSUME RanOpen(record.commands, stream) PROVE RanOpen(finished, stream \o new)
        OBVIOUS
    <2>1. ToSet(stream) \subseteq ToSet(stream \o new)
        BY <1>1, <1>5, ConcatSet
    <2> DEFINE Ran(item, event) ==
                  /\ item.command \in ToSet(Checks)
                  /\ \/ item.finished = None
                     \/ item.started < item.finished
                  /\ event.type = "verification_started"
                  /\ event.criterion = "*"
                  /\ item.started <= event.at
                  /\ item.finished # None => event.at < item.finished
    <2>2. PICK item \in ToSet(record.commands), event \in ToSet(stream) : Ran(item, event)
        BY DEF RanOpen
    <2>3. event \in ToSet(stream \o new)
        BY <2>1
    <2>4. \E x \in D : Ran(x, event)
        <3>1. CASE item \in D
            BY <2>2, <3>1
        <3>2. CASE item.finished = None /\ Done(item) \in D
            <4>1. event.at < clock /\ item.started < clock /\ item \in CommandRecords
                BY <1>10 DEF RInv, Before
            <4>2. /\ Done(item).command = item.command /\ Done(item).started = item.started
                  /\ Done(item).finished = clock
                BY <4>1 DEF CommandRecords
            <4>3. Ran(Done(item), event)
                <5> HIDE DEF Done
                <5> QED BY <2>2, <4>1, <4>2
            <4> HIDE DEF Done, Ran
            <4> QED BY <3>2, <4>3
        <3> QED BY <1>9, <3>1, <3>2
    <2> QED BY <2>3, <2>4 DEF RanOpen
<1>13. Agrees(After(Replay, new), rec, stream \o new)
    <2>1. Alike(Reduce(Replay, e), rec)
        BY <1>1, <1>4 DEF RInv, Agrees, Alike, Records
    <2>2. Reduce(Replay, e).warnings = Replay.warnings /\ rec.warnings = record.warnings
        BY <1>1, <1>4 DEF Records
    <2>3. Reduce(Replay, e).commands = Finish(Replay.commands, c, success, clock)
        BY <1>1, <1>4 DEF Records
    <2> HIDE DEF rec
    <2> QED BY <1>6, <1>8, <1>12, <2>1, <2>2, <2>3 DEF RInv, Agrees, finished
<1> HIDE DEF rec
<1> QED BY <1>3, <1>5, <1>8, <1>11, <1>13, SaveReplays

\* Agreement lasts when events follow.
LEMMA AgreesLater ==
    ASSUME NEW R, NEW rec \in Records, NEW s \in Seq(Events), NEW t \in Seq(Events),
           Agrees(R, rec, s)
    PROVE  Agrees(R, rec, s \o t)
<1>1. rec.commands \in Seq(CommandRecords)
    BY DEF Records
<1> QED BY <1>1, RanOpenStays DEF Agrees

\* Warnings are raised at the time of their transaction.
LEMMA RaisingNow ==
    ASSUME NEW found \in Seq(Findings)
    PROVE  Now(Raising(found))
BY DEF Now, Raising, Raised, ToSet

\* Commands that are left alone started before.
LEMMA StillBegun ==
    ASSUME LInv, RInv, NEW rec, rec.commands = record.commands
    PROVE  Begun(rec.commands, clock + 1)
<1>1. \A item \in ToSet(record.commands) : item.started \in Nat /\ item.started < clock
    BY CommandsTyped DEF RInv, Begun, CommandRecords
<1>2. clock \in Nat
    BY CommandsTyped
<1> QED BY <1>1, <1>2 DEF Begun

\* An operation that only warns is replayed.
LEMMA WarnedReplays ==
    ASSUME LInv, RInv, NEW found \in Seq(Findings),
           Save(WithWarnings(record, found), Raising(found))
    PROVE  RInv'
<1> DEFINE rec == WithWarnings(record, found)
           new == Raising(found)
<1>1. Replay \in Records /\ record \in Records /\ clock \in Nat /\ stream \in Seq(Events)
    BY ReplayType, CommandsTyped DEF LInv
<1>2. new \in Seq(Events) /\ Now(new)
    BY <1>1, RaisingType, RaisingNow
<1>3. rec \in Records /\ rec.commands = record.commands
    <2>1. "commands" \in DOMAIN record
        BY <1>1 DEF Records
    <2> QED BY <1>1, <2>1, WarnedType
<1>4. After(Replay, new) = WithWarnings(Replay, found)
    BY <1>1, AfterRaising
<1>5. Agrees(WithWarnings(Replay, found), rec, stream)
    BY <1>1, AgreesWarned DEF RInv
<1> HIDE DEF rec, new
<1>6. Agrees(After(Replay, new), rec, stream \o new)
    BY <1>1, <1>2, <1>3, <1>4, <1>5, AgreesLater
<1>7. Begun(rec.commands, clock + 1)
    BY <1>3, StillBegun
<1>8. Save(rec, new)
    BY DEF rec, new
<1> QED BY <1>2, <1>3, <1>6, <1>7, <1>8, SaveReplays

\* raise_warning is replayed.
LEMMA RaiseWarningReplays == ASSUME LInv, RInv, RaiseWarning PROVE RInv'
<1> DEFINE f == Finding("context_compile_failed", None)
           found == <<f>>
<1>1. f \in Findings
    BY DEF Findings, Kinds, Subjects
<1>2. Save(WithWarnings(record, found), Raising(found))
    BY DEF RaiseWarning
<1> HIDE DEF f
<1>3. found \in Seq(Findings)
    BY <1>1
<1> HIDE DEF found
<1> QED BY <1>2, <1>3, WarnedReplays

\* assess_patch is replayed.
LEMMA AssessPatchReplays ==
    ASSUME LInv, RInv, NEW specs \in Assessments, AssessPatch(specs) PROVE RInv'
<1> DEFINE found == Unwarned(record, specs)
           rec == WithWarnings(record, found)
           raised == Raising(found)
           e == Decided("patch_assessment", None)
           one == <<e>>
           new == raised \o one
           mid == WithWarnings(Replay, found)
<1>1. Replay \in Records /\ record \in Records /\ clock \in Nat /\ stream \in Seq(Events)
    BY ReplayType, CommandsTyped DEF LInv
<1>2. Save(rec, new)
    BY DEF AssessPatch
<1>3. found \in Seq(Findings)
    BY AssessmentsType, UnwarnedFound
<1> HIDE DEF found
<1>4. raised \in Seq(Events) /\ Now(raised)
    BY <1>1, <1>3, RaisingType, RaisingNow
<1>5. e \in Events /\ e.at = clock
    BY <1>1, EventKinds DEF Decided
<1>6. rec \in Records /\ rec.commands = record.commands /\ mid \in Records
    <2>1. "commands" \in DOMAIN record
        BY <1>1 DEF Records
    <2> QED BY <1>1, <1>3, <2>1, WarnedType
<1>7. After(Replay, raised) = mid
    BY <1>1, <1>3, AfterRaising
<1>8. Agrees(mid, rec, stream)
    BY <1>1, <1>3, AgreesWarned DEF RInv
<1> HIDE DEF raised, rec, mid
<1>9. Reduce(mid, e) = mid
    BY DEF Reduce, ReduceDecision, Decided
<1> HIDE DEF e
<1>10. one \in Seq(Events) /\ ToSet(one) = {e}
    <2>1. one \in Seq(Events) /\ DOMAIN one = {1} /\ one[1] = e
        BY <1>5, One
    <2> QED BY <2>1 DEF ToSet
<1>11. After(mid, one) = mid
    BY <1>5, <1>6, <1>9, AfterOne
<1> HIDE DEF one
<1>12. After(Replay, new) = mid
    BY <1>1, <1>4, <1>7, <1>10, <1>11, AfterBoth
<1>13. new \in Seq(Events) /\ Now(new)
    <2>1. new \in Seq(Events) /\ ToSet(new) = ToSet(raised) \cup ToSet(one)
        BY <1>4, <1>10, ConcatSet
    <2> QED BY <1>4, <1>5, <1>10, <2>1 DEF Now
<1> HIDE DEF new
<1>14. Agrees(After(Replay, new), rec, stream \o new)
    BY <1>1, <1>6, <1>8, <1>12, <1>13, AgreesLater
<1>15. Begun(rec.commands, clock + 1)
    BY <1>6, StillBegun
<1> QED BY <1>2, <1>6, <1>13, <1>14, <1>15, SaveReplays

\* apply_patch that is refused is replayed.
LEMMA RefuseReplays ==
    ASSUME LInv, RInv, NEW id, RefusePatch(id) PROVE RInv'
<1> DEFINE p == record.patches[Target(id)].path
           f == Finding("scope_expansion", p)
           specs == <<f>>
           found == Unwarned(record, specs)
<1>1. Save(WithWarnings(record, found), Raising(found))
    BY DEF RefusePatch
<1>2. p \in Paths
    BY TargetType DEF RefusePatch
<1>3. f \in Findings
    BY <1>2 DEF Findings, Kinds, Subjects
<1> HIDE DEF f
<1>4. specs \in Seq(Findings)
    BY <1>3
<1> HIDE DEF specs
<1>5. found \in Seq(Findings)
    BY <1>4, UnwarnedFound
<1> HIDE DEF found
<1> QED BY <1>1, <1>5, WarnedReplays

-----------------------------------------------------------------------------
(* Phases and ends. *)

\* compile_context is replayed, and the phase it moves to.
LEMMA CompileContextReplays == ASSUME LInv, RInv, CompileContext PROVE RInv'
<1> DEFINE early == record.phase = "understand"
           to == IF early THEN "investigate" ELSE record.phase
           rec == [record EXCEPT !.compilations = @ + 1, !.phase = to]
           a == Event("context_compiled")
           b == PhaseChanged("investigate")
           mid == [Replay EXCEPT !.compilations = @ + 1]
           new == <<a>> \o IF early THEN <<b>> ELSE << >>
<1>1. Replay \in Records /\ record \in Records /\ clock \in Nat /\ stream \in Seq(Events)
    BY ReplayType, CommandsTyped DEF LInv
<1>2. Save(rec, new)
    <2>1. [record EXCEPT !.compilations = @ + 1,
                         !.phase = IF early THEN "investigate" ELSE @] = rec
        BY <1>1 DEF Records
    <2> QED BY <2>1 DEF CompileContext
<1>3. a \in Events /\ b \in Events /\ a.at = clock /\ b.at = clock
    BY <1>1, PhaseOrder, EventKinds DEF Event, PhaseChanged
<1>4. to \in ToSet(Phases)
    BY <1>1, PhaseOrder DEF Records
<1>5. record.compilations + 1 \in Nat
    <2>1. record.compilations \in Nat
        BY ONLY <1>1 DEF Records
    <2> HIDE DEF a, b, to, mid
    <2> QED BY ONLY <2>1
<1>6. rec \in Records /\ Kept(rec, record)
    <2> HIDE DEF to
    <2> QED BY <1>1, <1>4, <1>5 DEF Records, Kept
<1>7. Replay.phase = record.phase /\ Replay.compilations = record.compilations
    BY DEF RInv, Agrees, Alike
<1>8. Reduce(Replay, a) = mid
    BY DEF Reduce, Event
<1>9. Reduce(mid, b) = [mid EXCEPT !.phase = "investigate"]
    BY DEF Reduce, PhaseChanged
<1> HIDE DEF a, b
<1>10. CASE early
    <2>1. new = <<a, b>>
        BY <1>3, <1>10, TwoLists
    <2>2. new \in Seq(Events) /\ DOMAIN new = {1, 2} /\ new[1] = a /\ new[2] = b
        <3>1. <<a, b>> \in Seq(Events) /\ DOMAIN <<a, b>> = {1, 2}
              /\ <<a, b>>[1] = a /\ <<a, b>>[2] = b
            BY <1>3
        <3> HIDE DEF new
        <3> QED BY <2>1, <3>1
    <2>3. Now(new)
        <3> HIDE DEF new
        <3> QED BY <1>3, <2>2 DEF Now, ToSet
    <2>4. After(Replay, new) = [mid EXCEPT !.phase = "investigate"]
        <3>1. After(Replay, <<a, b>>) = Reduce(Reduce(Replay, a), b)
            BY <1>1, <1>3, AfterTwo
        <3> HIDE DEF new, mid
        <3> QED BY <1>8, <1>9, <2>1, <3>1
    <2>5. Kept(After(Replay, new), Replay) /\ Alike(After(Replay, new), rec)
        <3> HIDE DEF new
        <3> QED BY <1>1, <1>7, <1>10, <2>4 DEF RInv, Agrees, Alike, Kept, Records
    <2> HIDE DEF new, rec
    <2> QED BY <1>2, <1>6, <2>2, <2>3, <2>5, KeptReplays
<1>11. CASE ~early
    <2>1. new = <<a>>
        <3>1. <<a>> \in Seq(Events)
            BY <1>3, One
        <3>2. <<a>> \o << >> = <<a>>
            BY <3>1
        <3> QED BY <1>11, <3>2
    <2>2. Kept(Reduce(Replay, a), Replay) /\ Alike(Reduce(Replay, a), rec)
        <3> HIDE DEF new
        <3> QED BY <1>1, <1>7, <1>8, <1>11 DEF RInv, Agrees, Alike, Kept, Records
    <2>3. Save(rec, <<a>>)
        <3> HIDE DEF new, rec
        <3> QED BY <1>2, <2>1
    <2> HIDE DEF new, rec
    <2> QED BY <1>3, <1>6, <2>2, <2>3, OneReplays
<1> QED BY <1>10, <1>11

\* transition_phase is replayed.
LEMMA TransitionReplays == ASSUME LInv, RInv, TransitionPhase PROVE RInv'
<1>1. PICK i \in 1..(Len(Phases) - 1) :
          /\ record.phase = Phases[i]
          /\ Save([record EXCEPT !.phase = Phases[i + 1]], <<PhaseChanged(Phases[i + 1])>>)
    BY DEF TransitionPhase
<1> DEFINE to == Phases[i + 1]
           rec == [record EXCEPT !.phase = to]
           e == PhaseChanged(to)
<1>2. Replay \in Records /\ record \in Records /\ clock \in Nat
    BY ReplayType DEF LInv
<1>3. to \in ToSet(Phases)
    <2>1. Len(Phases) = 7
        BY DEF Phases
    <2>2. i + 1 \in DOMAIN Phases
        BY <2>1, PhaseOrder
    <2> QED BY <2>2, PhaseOrder
<1>4. Save(rec, <<e>>)
    BY <1>1
<1> HIDE DEF to
<1>5. e \in Events /\ e.at = clock
    BY <1>2, <1>3, EventKinds DEF PhaseChanged
<1>6. Reduce(Replay, e) = [Replay EXCEPT !.phase = to]
    BY DEF Reduce, PhaseChanged
<1> HIDE DEF e
<1>7. rec \in Records /\ Kept(rec, record) /\ Kept(Reduce(Replay, e), Replay)
    BY <1>2, <1>3, <1>6 DEF Records, Kept
<1>8. Alike(Reduce(Replay, e), rec)
    BY <1>2, <1>6 DEF RInv, Agrees, Alike, Records
<1> HIDE DEF rec
<1> QED BY <1>4, <1>5, <1>7, <1>8, OneReplays

\* The events of an end make a record ended.
LEMMA AfterEnded ==
    ASSUME LInv, NEW R \in Records, R.phase = record.phase
    PROVE  /\ After(R, Ended) = [R EXCEPT !.phase = "done"]
           /\ Ended \in Seq(Events) /\ Now(Ended)
<1> DEFINE a == PhaseChanged("done")
           b == Event("run_completed")
           one == <<b>>
           done == [R EXCEPT !.phase = "done"]
<1>1. a \in Events /\ b \in Events /\ a.at = clock /\ b.at = clock
    BY CommandsTyped, PhaseOrder, EventKinds DEF Event, PhaseChanged
<1>2. Reduce(R, a) = done
    BY DEF Reduce, PhaseChanged
<1>3. Reduce(R, b) = done
    BY DEF Reduce, Event
<1>4. Reduce(done, b) = done
    BY DEF Reduce, Event, Records
<1>5. Ended = IF record.phase = "done" THEN << >> \o one ELSE <<a>> \o one
    BY DEF Ended
<1> HIDE DEF a, b, done
<1>6. CASE record.phase = "done"
    <2>1. one \in Seq(Events) /\ DOMAIN one = {1} /\ one[1] = b
        BY <1>1, One
    <2>2. << >> \o one = one
        BY <2>1
    <2>3. After(R, one) = Reduce(R, b)
        BY <1>1, AfterOne
    <2>4. Ended = one
        BY <1>5, <1>6, <2>2
    <2> HIDE DEF one
    <2> QED BY <1>1, <1>3, <2>1, <2>3, <2>4 DEF done, Now, ToSet
<1>7. CASE record.phase # "done"
    <2>1. Ended = <<a, b>>
        BY <1>1, <1>5, <1>7, TwoLists
    <2>2. <<a, b>> \in Seq(Events) /\ DOMAIN <<a, b>> = {1, 2}
          /\ <<a, b>>[1] = a /\ <<a, b>>[2] = b
        BY <1>1
    <2>3. Now(<<a, b>>)
        <3> DEFINE s == <<a, b>>
        <3>1. DOMAIN s = {1, 2} /\ s[1] = a /\ s[2] = b
            BY <2>2
        <3> HIDE DEF s
        <3>2. Now(s)
            BY <1>1, <3>1 DEF Now, ToSet
        <3> QED BY <3>2 DEF s
    <2>4. After(R, <<a, b>>) = Reduce(Reduce(R, a), b)
        BY <1>1, AfterTwo
    <2> QED BY <1>2, <1>4, <2>1, <2>2, <2>3, <2>4 DEF done
<1> QED BY <1>6, <1>7

\* complete is replayed.
LEMMA CompleteReplays == ASSUME LInv, RInv, Complete PROVE RInv'
<1> DEFINE rec == [record EXCEPT !.phase = "done"]
<1>1. Replay \in Records /\ record \in Records
    BY ReplayType DEF LInv
<1>2. rec \in Records /\ Kept(rec, record)
    BY <1>1, PhaseOrder DEF Records, Kept
<1>3. Save(rec, Ended)
    BY DEF Complete
<1>4. /\ After(Replay, Ended) = [Replay EXCEPT !.phase = "done"]
      /\ Ended \in Seq(Events) /\ Now(Ended)
    <2>1. Replay.phase = record.phase
        BY DEF RInv, Agrees, Alike
    <2> QED BY <1>1, <2>1, AfterEnded
<1>5. Kept(After(Replay, Ended), Replay) /\ Alike(After(Replay, Ended), rec)
    BY <1>1, <1>4 DEF RInv, Agrees, Alike, Kept, Records
<1> HIDE DEF rec
<1> QED BY <1>2, <1>3, <1>4, <1>5, KeptReplays

\* complete(force=True) is replayed but for the subject of its warning.
LEMMA CompleteForcedReplays == ASSUME LInv, RInv, CompleteForced PROVE RInv'
<1> DEFINE f == ForcedWarning(None)
           e == Raised(f)
           one == <<e>>
           w == Warning(ForcedWarning("run"))
           warned == [record EXCEPT !.warnings = Append(@, w)]
           rec == [warned EXCEPT !.phase = "done"]
           v == [kind |-> "completion_forced", subject |-> None, severity |-> "WARNING", at |-> clock]
           mid == [Replay EXCEPT !.warnings = Append(@, v)]
           new == one \o Ended
<1>1. Replay \in Records /\ record \in Records /\ clock \in Nat /\ stream \in Seq(Events)
    BY ReplayType, CommandsTyped DEF LInv
<1>2. w \in Warnings /\ w.kind = "completion_forced"
    BY <1>1 DEF Warning, Warnings, ForcedWarning, Kinds, Subjects, Severities
<1>3. e \in Events /\ e.at = clock
    BY <1>1 DEF Raised, ForcedWarning, Events, Kinds, Subjects, Severities
<1>4. Save(rec, new)
    BY WithOne DEF CompleteForced
<1>5. Reduce(Replay, e) = mid
    BY DEF Reduce, Raised, ForcedWarning
<1> HIDE DEF e, w, v
<1>6. record.warnings \in Seq(Warnings) /\ Append(record.warnings, w) \in Seq(Warnings)
    BY <1>1, <1>2 DEF Records
<1>7. rec \in Records /\ rec.commands = record.commands
      /\ rec.warnings = Append(record.warnings, w)
    BY <1>1, <1>6, PhaseOrder DEF Records
<1>8. ForcedIn(rec.warnings)
    <2>1. ToSet(Append(record.warnings, w)) = ToSet(record.warnings) \cup {w}
        BY <1>2, <1>6, AppendSet
    <2> HIDE DEF rec
    <2> QED BY <1>2, <1>7, <2>1 DEF ForcedIn
<1>9. one \in Seq(Events) /\ ToSet(one) = {e}
    <2>1. one \in Seq(Events) /\ DOMAIN one = {1} /\ one[1] = e
        BY <1>3, One
    <2> QED BY <2>1 DEF ToSet
<1>10. After(Replay, one) = mid
    BY <1>1, <1>3, <1>5, AfterOne
<1>11. mid \in Records /\ mid.phase = record.phase
    <2>1. mid \in Records
        BY <1>1, <1>3, <1>5, ReduceType
    <2> QED BY <1>1, <2>1 DEF RInv, Agrees, Alike, Records
<1> HIDE DEF one
<1>12. /\ After(mid, Ended) = [mid EXCEPT !.phase = "done"]
       /\ Ended \in Seq(Events) /\ Now(Ended)
    <2> HIDE DEF mid
    <2> QED BY <1>11, AfterEnded
<1>13. After(Replay, new) = [mid EXCEPT !.phase = "done"]
    <2> HIDE DEF mid
    <2> QED BY <1>1, <1>9, <1>10, <1>12, AfterBoth
<1>14. new \in Seq(Events) /\ Now(new)
    <2>1. new \in Seq(Events) /\ ToSet(new) = ToSet(one) \cup ToSet(Ended)
        BY <1>9, <1>12, ConcatSet
    <2> QED BY <1>3, <1>9, <1>12, <2>1 DEF Now
<1> HIDE DEF new
<1>15. Agrees(After(Replay, new), rec, stream \o new)
    <2>1. Alike(After(Replay, new), rec)
        BY <1>1, <1>13 DEF RInv, Agrees, Alike, Records
    <2>2. After(Replay, new).commands = Replay.commands
        BY <1>1, <1>13 DEF Records
    <2>3. RanOpen(record.commands, stream) => RanOpen(record.commands, stream \o new)
        BY <1>1, <1>14, CommandsTyped, RanOpenStays
    <2> HIDE DEF rec
    <2> QED BY <1>7, <1>8, <2>1, <2>2, <2>3 DEF RInv, Agrees
<1>16. Begun(rec.commands, clock + 1)
    BY <1>7, StillBegun
<1> HIDE DEF rec
<1> QED BY <1>4, <1>7, <1>14, <1>15, <1>16, SaveReplays

-----------------------------------------------------------------------------
(* verify. *)

\* The events of the checks of a verify.
CheckEvents == {e \in Events : e.type \in {"command_started", "command_finished"} /\ e.at = clock}

\* verify tells a start and a finish of each check, now.
LEMMA ChecksTold ==
    ASSUME LInv, NEW results \in [DOMAIN Checks -> Success]
    PROVE  LET ran == [i \in DOMAIN Checks |->
                          <<[type |-> "command_started", command |-> Checks[i], at |-> clock],
                            Finished(Checks[i], results[i])>>]
           IN  Along(LAMBDA acc, list : acc \o list, << >>, ran) \in Seq(CheckEvents)
<1> DEFINE start(i) == [type |-> "command_started", command |-> Checks[i], at |-> clock]
           finish(i) == Finished(Checks[i], results[i])
           pair(i) == <<start(i), finish(i)>>
           ran == [i \in DOMAIN Checks |-> pair(i)]
<1>1. /\ DOMAIN Checks = 1..Len(Checks) /\ Len(Checks) \in Nat /\ clock \in Nat
      /\ \A i \in DOMAIN Checks : Checks[i] \in Commands /\ results[i] \in Success
    BY ChecksAssumption DEF LInv
<1>2. ASSUME NEW i \in DOMAIN Checks PROVE pair(i) \in Seq(CheckEvents)
    <2>1. start(i) \in Events /\ finish(i) \in Events
        BY <1>1, EventKinds
    <2>2. /\ start(i).type = "command_started" /\ finish(i).type = "command_finished"
          /\ start(i).at = clock /\ finish(i).at = clock
        BY DEF Finished
    <2> HIDE DEF start, finish
    <2>3. start(i) \in CheckEvents /\ finish(i) \in CheckEvents
        BY <2>1, <2>2 DEF CheckEvents
    <2> QED BY <2>3
<1> HIDE DEF pair
<1>3. ran \in Seq(Seq(CheckEvents))
    BY <1>1, <1>2
<1>4. Along(LAMBDA acc, list : acc \o list, << >>, ran) \in Seq(CheckEvents)
    <2> HIDE DEF ran
    <2> QED BY <1>3, Joined
<1> QED BY <1>4 DEF ran, pair, start, finish

\* Starts and finishes of commands change nothing but commands.
LEMMA OnlyCommands ==
    ASSUME NEW rec \in Records, NEW t \in Seq(CheckEvents)
    PROVE  Alike(After(rec, t), rec) /\ After(rec, t).warnings = rec.warnings
<1> DEFINE n == Len(t)
           Same(x) == Alike(x, rec) /\ x.warnings = rec.warnings
<1>1. n \in Nat /\ \A i \in 1..n : t[i] \in CheckEvents
    OBVIOUS
<1>2. t \in Seq(Events)
    <2>1. \A i \in 1..n : t[i] \in Events
        BY <1>1 DEF CheckEvents
    <2>2. t = [i \in 1..n |-> t[i]]
        OBVIOUS
    <2> HIDE DEF n
    <2> QED BY <1>1, <2>1, <2>2
<1>3. PICK f \in [0..n -> Records] :
          /\ f[0] = rec
          /\ \A i \in 1..n : f[i] = Reduce(f[i - 1], t[i])
          /\ After(rec, t) = f[n]
    BY <1>2, AfterAlong
<1> HIDE DEF n
<1> DEFINE T == {i \in 0..n : Same(f[i])}
<1>4. 0 \in T
    BY <1>1, <1>3 DEF Alike
<1>5. ASSUME NEW i \in 0..n, i \in T, i < n PROVE i + 1 \in T
    <2> DEFINE e == t[i + 1]
               next == f[i + 1]
    <2>1. i + 1 \in 1..n /\ (i + 1) - 1 = i /\ i + 1 \in 0..n /\ f[i] \in Records
        BY <1>1, <1>5
    <2>2. next = Reduce(f[i], e) /\ e.type \in {"command_started", "command_finished"}
        BY <1>1, <1>3, <2>1 DEF CheckEvents
    <2> HIDE DEF e, next
    <2>3. \E C : next = [f[i] EXCEPT !.commands = C]
        BY <2>2 DEF Reduce
    <2>4. Alike(next, f[i]) /\ next.warnings = f[i].warnings
        BY <2>1, <2>3 DEF Alike, Records
    <2>5. Same(f[i])
        BY <1>5
    <2>6. Same(next)
        BY <2>4, <2>5 DEF Alike
    <2> QED BY <2>1, <2>6 DEF next
<1>6. 0..n \subseteq T
    <2> HIDE DEF T
    <2> QED BY <1>1, <1>4, <1>5, StepByStep
<1>7. Same(f[n])
    <2>1. n \in 0..n
        BY <1>1
    <2> HIDE DEF Same
    <2> QED BY <1>6, <2>1
<1> QED BY <1>3, <1>7

\* What replay makes of the checks is what verify stores, unless one of them was open.
LEMMA ChecksReplayed ==
    ASSUME LInv, RInv, NEW results \in [DOMAIN Checks -> Success], NEW new \in Seq(Events),
           NEW start \in ToSet(new), start.type = "verification_started",
           start.criterion = "*", start.at = clock
    PROVE  LET done == [i \in DOMAIN Checks |-> Command(Checks[i], clock, clock, results[i])]
               ran == [i \in DOMAIN Checks |->
                          <<[type |-> "command_started", command |-> Checks[i], at |-> clock],
                            Finished(Checks[i], results[i])>>]
           IN  \/ After(Replay, Along(LAMBDA acc, list : acc \o list, << >>, ran)).commands =
                     record.commands \o done
               \/ RanOpen(record.commands \o done, stream \o new)
<1> DEFINE done == [i \in DOMAIN Checks |-> Command(Checks[i], clock, clock, results[i])]
           ran == [i \in DOMAIN Checks |->
                      <<[type |-> "command_started", command |-> Checks[i], at |-> clock],
                        Finished(Checks[i], results[i])>>]
           joined == Along(LAMBDA acc, list : acc \o list, << >>, ran)
           old == record.commands
<1>1. old \in Seq(CommandRecords) /\ stream \in Seq(Events) /\ clock \in Nat /\ Replay \in Records
    BY CommandsTyped, ReplayType
<1>2. done \in Seq(CommandRecords)
    <2>1. /\ DOMAIN Checks = 1..Len(Checks) /\ Len(Checks) \in Nat
          /\ \A i \in DOMAIN Checks : Checks[i] \in Commands /\ results[i] \in Success
        BY ChecksAssumption
    <2>2. \A i \in DOMAIN Checks : Command(Checks[i], clock, clock, results[i]) \in CommandRecords
        BY <1>1, <2>1 DEF Command, CommandRecords
    <2> HIDE DEF CommandRecords
    <2> QED BY <2>1, <2>2
<1>3. ASSUME ~\A c \in ToSet(Checks) : NoneOpen(old, c)
      PROVE  RanOpen(old \o done, stream \o new)
    <2>1. PICK i \in DOMAIN old : old[i].command \in ToSet(Checks) /\ old[i].finished = None
        BY <1>3 DEF NoneOpen
    <2> DEFINE item == old[i]
    <2>2. item \in ToSet(old)
        BY DEF ToSet
    <2> HIDE DEF item, done, old
    <2>3. item \in ToSet(old \o done) /\ start \in ToSet(stream \o new)
        BY <1>1, <1>2, <2>2, ConcatSet
    <2>4. item.started < clock /\ item.started \in Nat
        BY <2>2, CommandsTyped DEF RInv, Begun, CommandRecords, old
    <2>5. item.started <= start.at
        BY <1>1, <2>4
    <2>6. item.command \in ToSet(Checks) /\ item.finished = None
        BY <2>1 DEF item
    <2> HIDE DEF ToSet
    <2> QED BY <2>3, <2>5, <2>6 DEF RanOpen
<1>4. ASSUME RanOpen(old, stream)
      PROVE  RanOpen(old \o done, stream \o new)
    <2> HIDE DEF done, old
    <2> QED BY <1>1, <1>2, <1>4, RanOpenStays
<1>5. ASSUME \A c \in ToSet(Checks) : NoneOpen(old, c), Replay.commands = old
      PROVE  After(Replay, joined).commands = old \o done
    <2>1. \A c \in ToSet(Checks) : NoneOpen(Replay.commands, c)
        BY <1>5
    <2>2. After(Replay, joined) = [Replay EXCEPT !.commands = @ \o done]
        BY <1>1, <2>1, AfterChecks
    <2> HIDE DEF joined, done, old
    <2> QED BY <1>1, <1>5, <2>2 DEF Records
<1>6. Replay.commands = old \/ RanOpen(old, stream)
    BY DEF RInv, Agrees
<1> HIDE DEF joined, done, old
<1>7. After(Replay, joined).commands = old \o done \/ RanOpen(old \o done, stream \o new)
    BY <1>3, <1>4, <1>5, <1>6
<1> QED BY <1>7 DEF joined, done, old

\* verify is replayed, but for a check that was open.
LEMMA VerifyReplays ==
    ASSUME LInv, RInv, NEW results \in [DOMAIN Checks -> Success],
           NEW statuses \in [Criteria -> Statuses], NEW specs \in Assessments,
           Verify(results, statuses, specs)
    PROVE  RInv'
<1> DEFINE found == Unwarned(record, specs)
           done == [i \in DOMAIN Checks |-> Command(Checks[i], clock, clock, results[i])]
           ran == [i \in DOMAIN Checks |->
                     <<[type |-> "command_started", command |-> Checks[i], at |-> clock],
                       Finished(Checks[i], results[i])>>]
           order == SetToSeq(Criteria)
           joined == Along(LAMBDA acc, list : acc \o list, << >>, ran)
           verdicts == [i \in DOMAIN order |-> Verdict(order[i], statuses[order[i]])]
           told == [i \in DOMAIN order |-> Result(order[i], statuses[order[i]])]
           start == [type |-> "verification_started", criterion |-> "*", at |-> clock]
           rec == [record EXCEPT !.verified = TRUE, !.commands = @ \o done,
                                 !.verification = @ \o verdicts]
           warned == WithWarnings(rec, found)
           assessed == Decided("patch_assessment", None)
           raised == Raising(found)
           first == <<start>>
           last == <<assessed>>
           new == first \o joined \o told \o raised \o last
           B == After(Replay, joined)
           C == After(B, told)
           D == WithWarnings(C, found)
<1>1. Save(warned, new)
    BY DEF Verify
<1>2. Replay \in Records /\ record \in Records /\ clock \in Nat /\ stream \in Seq(Events)
      /\ record.commands \in Seq(CommandRecords) /\ record.verification \in Seq(Verdicts)
    BY ReplayType, CommandsTyped DEF LInv, Records
<1>3. /\ done \in Seq(CommandRecords) /\ joined \in Seq(Events)
      /\ verdicts \in Seq(Verdicts) /\ told \in Seq(Events)
    BY VerifiedTypes
<1>4. joined \in Seq(CheckEvents)
    BY ChecksTold
<1>5. start \in Events /\ assessed \in Events /\ start.at = clock /\ assessed.at = clock
    BY <1>2, EventKinds DEF Decided
<1>6. found \in Seq(Findings)
    BY AssessmentsType, UnwarnedFound
<1>7. raised \in Seq(Events) /\ Now(raised)
    <2> HIDE DEF found
    <2> QED BY <1>2, <1>6, RaisingType, RaisingNow
<1>8. Now(joined)
    <2>1. ToSet(joined) \subseteq CheckEvents
        <3> HIDE DEF joined
        <3> QED BY <1>4 DEF ToSet
    <2> HIDE DEF joined
    <2> QED BY <2>1 DEF Now, CheckEvents
<1>9. Now(told)
    BY DEF Now, ToSet, Result
<1>10. first \in Seq(Events) /\ ToSet(first) = {start}
    <2> HIDE DEF start
    <2>1. first \in Seq(Events) /\ DOMAIN first = {1} /\ first[1] = start
        BY <1>5, One
    <2> QED BY <2>1 DEF ToSet
<1>11. last \in Seq(Events) /\ ToSet(last) = {assessed}
    <2> HIDE DEF assessed
    <2>1. last \in Seq(Events) /\ DOMAIN last = {1} /\ last[1] = assessed
        BY <1>5, One
    <2> QED BY <2>1 DEF ToSet
<1>12. After(Replay, first) = Replay
    <2>1. Reduce(Replay, start) = Replay
        BY DEF Reduce
    <2> HIDE DEF start
    <2> QED BY <1>2, <1>5, <2>1, AfterOne
<1>13. Alike(B, Replay) /\ B.warnings = Replay.warnings /\ B \in Records
    <2> HIDE DEF joined
    <2> QED BY <1>2, <1>3, <1>4, OnlyCommands, AfterType
<1>14. C = [B EXCEPT !.verification = @ \o verdicts] /\ C \in Records
    <2>1. order \in Seq(Criteria)
        BY Ordered
    <2> HIDE DEF order, B
    <2>2. C = [B EXCEPT !.verification = @ \o verdicts]
        <3>1. B \in Records /\ clock \in Nat /\ statuses \in [Criteria -> Statuses]
            BY <1>2, <1>13
        <3> QED BY ONLY <2>1, <3>1, AfterTold
    <2> HIDE DEF told
    <2> QED BY <1>3, <1>13, <2>2, AfterType
<1>15. After(C, raised) = D /\ D \in Records
    <2> HIDE DEF C, found
    <2> QED BY <1>2, <1>6, <1>14, AfterRaising, WarnedType
<1>16. After(D, last) = D
    <2>1. Reduce(D, assessed) = D
        BY DEF Reduce, ReduceDecision, Decided
    <2> HIDE DEF assessed, D
    <2> QED BY <1>5, <1>15, <2>1, AfterOne
<1>17. start.type = "verification_started" /\ start.criterion = "*"
    OBVIOUS
<1>18. ASSUME NEW s \in Seq(Events), start \in ToSet(s)
       PROVE  B.commands = record.commands \o done \/ RanOpen(record.commands \o done, stream \o s)
    <2>1. start.at = clock
        BY <1>5
    <2> HIDE DEF start
    <2> QED BY <1>17, <1>18, <2>1, ChecksReplayed
<1> HIDE DEF start, joined, told, raised, assessed, done, verdicts, ran, order, found, B, C
<1>19. Begun(record.commands \o done, clock + 1)
    <2>1. \A item \in ToSet(done) : item.started = clock
        BY DEF done, ToSet, Command
    <2>2. ToSet(record.commands \o done) = ToSet(record.commands) \cup ToSet(done)
        BY <1>2, <1>3, ConcatSet
    <2>3. \A item \in ToSet(record.commands) : item.started \in Nat /\ item.started < clock
        BY CommandsTyped DEF RInv, Begun, CommandRecords
    <2> QED BY <1>2, <2>1, <2>2, <2>3 DEF Begun
<1>20. /\ rec \in Records /\ rec.commands = record.commands \o done
       /\ rec.verification = record.verification \o verdicts
       /\ rec.warnings = record.warnings
    <2>1. record.commands \o done \in Seq(CommandRecords)
        BY <1>2, <1>3
    <2>2. record.verification \o verdicts \in Seq(Verdicts)
        BY <1>2, <1>3
    <2> QED BY <1>2, <2>1, <2>2 DEF Records
<1> HIDE DEF first, last
<1> DEFINE s1 == first \o joined
           s2 == s1 \o told
           s3 == s2 \o raised
<1>21. s1 \in Seq(Events) /\ Now(s1) /\ start \in ToSet(s1) /\ After(Replay, s1) = B
    <2>1. s1 \in Seq(Events) /\ ToSet(s1) = ToSet(first) \cup ToSet(joined)
        BY <1>3, <1>10, ConcatSet
    <2>2. After(Replay, s1) = After(After(Replay, first), joined)
        BY <1>2, <1>3, <1>10, AfterBoth
    <2> HIDE DEF s1
    <2> QED BY <1>5, <1>8, <1>10, <1>12, <2>1, <2>2 DEF Now, B
<1> HIDE DEF s1
<1>22. s2 \in Seq(Events) /\ Now(s2) /\ start \in ToSet(s2) /\ After(Replay, s2) = C
    <2>1. s2 \in Seq(Events) /\ ToSet(s2) = ToSet(s1) \cup ToSet(told)
        BY <1>3, <1>21, ConcatSet
    <2>2. After(Replay, s2) = After(After(Replay, s1), told)
        BY <1>2, <1>3, <1>21, AfterBoth
    <2> HIDE DEF s2
    <2> QED BY <1>9, <1>21, <2>1, <2>2 DEF Now, C
<1> HIDE DEF s2
<1>23. s3 \in Seq(Events) /\ Now(s3) /\ start \in ToSet(s3) /\ After(Replay, s3) = D
    <2>1. s3 \in Seq(Events) /\ ToSet(s3) = ToSet(s2) \cup ToSet(raised)
        BY <1>7, <1>22, ConcatSet
    <2>2. After(Replay, s3) = After(After(Replay, s2), raised)
        BY <1>2, <1>7, <1>22, AfterBoth
    <2> HIDE DEF s3, D
    <2> QED BY <1>7, <1>15, <1>22, <2>1, <2>2 DEF Now
<1> HIDE DEF s3
<1>24. new \in Seq(Events) /\ Now(new) /\ start \in ToSet(new) /\ After(Replay, new) = D
    <2> DEFINE s4 == s3 \o last
    <2>1. s4 \in Seq(Events) /\ ToSet(s4) = ToSet(s3) \cup ToSet(last)
        BY <1>11, <1>23, ConcatSet
    <2>2. After(Replay, s4) = After(After(Replay, s3), last)
        BY <1>2, <1>11, <1>23, AfterBoth
    <2>3. new = s4
        BY DEF s1, s2, s3
    <2> HIDE DEF s4, D, new
    <2> QED BY <1>5, <1>11, <1>16, <1>23, <2>1, <2>2, <2>3 DEF Now
<1> HIDE DEF new, rec
<1>25. Agrees(C, rec, stream \o new)
    <2>1. B.commands = record.commands \o done \/ RanOpen(record.commands \o done, stream \o new)
        BY <1>18, <1>24
    <2>2. C.commands = B.commands /\ C.warnings = Replay.warnings
          /\ C.verification = B.verification \o verdicts
        BY <1>13, <1>14 DEF Records
    <2>3. Alike(B, record) /\ (Replay.warnings = record.warnings \/ ForcedIn(record.warnings))
        BY <1>13 DEF RInv, Agrees, Alike
    <2>4. Alike(C, rec)
        <3>1. /\ rec.phase = record.phase /\ rec.reads = record.reads
              /\ rec.modified = record.modified /\ rec.decisions = record.decisions
              /\ rec.failed = record.failed /\ rec.acked = record.acked
              /\ rec.compilations = record.compilations /\ rec.patches = record.patches
              /\ rec.tokens = record.tokens
            BY <1>2 DEF rec, Records
        <3>2. /\ C.phase = B.phase /\ C.reads = B.reads
              /\ C.modified = B.modified /\ C.decisions = B.decisions
              /\ C.failed = B.failed /\ C.acked = B.acked
              /\ C.compilations = B.compilations /\ C.patches = B.patches
              /\ C.tokens = B.tokens
            BY <1>13, <1>14 DEF Records
        <3> QED BY <1>20, <2>2, <2>3, <3>1, <3>2 DEF Alike
    <2> QED BY <1>20, <2>1, <2>2, <2>3, <2>4 DEF Agrees
<1>26. Agrees(D, warned, stream \o new)
    BY <1>2, <1>6, <1>14, <1>20, <1>25, AgreesWarned
<1>27. warned \in Records /\ warned.commands = rec.commands
    <2>1. "commands" \in DOMAIN rec
        BY <1>20 DEF Records
    <2> QED BY <1>2, <1>6, <1>20, <2>1, WarnedType
<1> HIDE DEF warned, D
<1>28. Begun(warned.commands, clock + 1)
    BY <1>19, <1>20, <1>27
<1> QED BY <1>1, <1>24, <1>26, <1>27, <1>28, SaveReplays

-----------------------------------------------------------------------------
(* apply_patch, and the theorem. *)

\* A list without members.
LEMMA EmptyList ==
    ASSUME NEW S, NEW s \in Seq(S), ToSet(s) = {}
    PROVE  s = << >>
<1>1. DOMAIN s = 1..Len(s) /\ Len(s) \in Nat
    OBVIOUS
<1>2. ASSUME Len(s) # 0 PROVE FALSE
    <2>1. 1 \in DOMAIN s
        BY <1>1, <1>2
    <2> QED BY <2>1 DEF ToSet
<1> QED BY <1>2

\* Between two transactions the governor has nothing new to say.
LEMMA NothingNew ==
    ASSUME LInv
    PROVE  Unwarned(record, Inspect(record.phase, record.compilations > 0, stream)) = << >>
<1> DEFINE compiled == record.compilations > 0
           all == Inspect(record.phase, compiled, stream)
           found == Unwarned(record, all)
<1>1. compiled \in BOOLEAN /\ stream \in Seq(Events)
    BY DEF LInv
<1> HIDE DEF compiled
<1>2. /\ all \in Seq(Findings)
      /\ \A f \in ToSet(all) :
            /\ f.kind \in {"repeated_read", "failure_loop", "scope_expansion"}
            /\ f.kind = "repeated_read" => ReadInVain(stream, f.subject)
            /\ f.kind = "failure_loop" => FailingInVain(stream, f.subject)
            /\ record.phase # "done"
            /\ f.kind = "repeated_read" => f.subject \in Paths
            /\ f.kind = "failure_loop" => f.subject \in Commands
            /\ f.kind = "scope_expansion" =>
                  f.subject \in Paths /\ Strays(stream, f.subject) /\ compiled /\ Scope # {}
    BY <1>1, Inspected
<1> HIDE DEF all
<1>3. found \in Seq(Findings)
      /\ ToSet(found) = {f \in ToSet(all) : Signature(f) \notin WarnedOf(record)}
    BY <1>2, UnwarnedFound
<1>4. ASSUME NEW f \in ToSet(all) PROVE Signature(f) \in WarnedOf(record)
    <2>1. <<f.kind, f.subject>> \in {Signature(w) : w \in ToSet(record.warnings)}
        BY <1>2 DEF LInv, Covered, compiled
    <2>2. f.subject # None
        BY <1>2, NoneAssumption
    <2>3. PICK w \in ToSet(record.warnings) : <<f.kind, f.subject>> = <<w.kind, w.subject>>
        BY <2>1 DEF Signature
    <2>4. w.subject # None /\ Signature(f) = Signature(w)
        BY <2>2, <2>3 DEF Signature
    <2> QED BY <2>4 DEF WarnedOf
<1>5. ToSet(found) = {}
    BY <1>3, <1>4
<1> HIDE DEF found
<1>6. found = << >>
    BY <1>3, <1>5, EmptyList
<1> QED BY <1>6 DEF found, all, compiled

\* So what apply_patch saves first, out of an acknowledged scope, is what is stored.
LEMMA FirstUnchanged ==
    ASSUME LInv
    PROVE  Governed(record, stream, << >>) =
              [record |-> record, stream |-> stream, events |-> << >>]
<1> DEFINE none == << >>
           found == Unwarned(record, Inspect(record.phase, record.compilations > 0, stream \o none))
<1>1. stream \in Seq(Events) /\ record \in Records
    BY DEF LInv
<1>2. stream \o none = stream
    BY <1>1
<1>3. found = none
    BY <1>2, NothingNew
<1>4. Raising(none) = none
    BY DEF Raising
<1>5. [i \in DOMAIN none |-> Warning(none[i])] = none
    OBVIOUS
<1>6. WithWarnings(record, none) = record
    <2>1. record.warnings \in Seq(Warnings)
        BY <1>1 DEF Records
    <2>2. record.warnings \o none = record.warnings
        BY <2>1
    <2>3. WithWarnings(record, none) = [record EXCEPT !.warnings = @ \o none]
        BY <1>5 DEF WithWarnings
    <2> HIDE DEF none
    <2> QED BY <1>1, <2>2, <2>3 DEF Records
<1>7. none \o none = none
    OBVIOUS
<1>8. Governed(record, stream, none) =
          [record |-> WithWarnings(record, found), stream |-> stream \o (none \o Raising(found)),
           events |-> none \o Raising(found)]
    BY DEF Governed
<1> HIDE DEF none, found
<1>9. Governed(record, stream, none) = [record |-> record, stream |-> stream, events |-> none]
    BY <1>2, <1>3, <1>4, <1>6, <1>7, <1>8
<1> QED BY <1>9 DEF none

\* apply_patch that edits the file is replayed.
LEMMA ApplyReplays ==
    ASSUME LInv, RInv, NEW id \in PatchIds, ApplyPatch(id) PROVE RInv'
<1> DEFINE p == record.patches[Target(id)].path
           plain == [record |-> record, stream |-> stream, events |-> << >>]
           first == IF OutOfScope(p) THEN Governed(record, stream, << >>) ELSE plain
           a == OnPath("file_modified", p)
           b == [type |-> "patch_applied", id |-> id, at |-> clock]
           edits == <<a, b>>
           rec == [record EXCEPT !.patches = MarkApplied(@, id, clock),
                                 !.modified = AddNew(@, p)]
           mid == [Replay EXCEPT !.modified = AddNew(@, p)]
<1>1. Replay \in Records /\ record \in Records /\ clock \in Nat /\ stream \in Seq(Events)
    BY ReplayType, CommandsTyped DEF LInv
<1>2. Target(id) # 0 /\ p \in Paths
    BY TargetType DEF ApplyPatch
<1>3. first = plain
    BY FirstUnchanged
<1>4. a \in Events /\ b \in Events /\ a.at = clock /\ b.at = clock
    BY <1>1, <1>2, EventKinds DEF OnPath
<1>5. edits \in Seq(Events) /\ DOMAIN edits = {1, 2} /\ edits[1] = a /\ edits[2] = b
    <2> HIDE DEF a, b
    <2> QED BY <1>4
<1>6. Save(rec, edits)
    <2> DEFINE new == first.events \o edits
               applied == [first.record EXCEPT !.patches = MarkApplied(@, id, clock),
                                               !.modified = AddNew(@, p)]
               saved == Governed(applied, first.stream, new)
    <2>1. /\ clock <= MaxTransactions /\ clock' = clock + 1
          /\ record' = saved.record /\ stream' = saved.stream
        BY DEF ApplyPatch
    <2>2. first.record = record /\ first.stream = stream /\ first.events = << >>
        <3> HIDE DEF first
        <3> QED BY <1>3
    <2>3. << >> \o edits = edits
        BY <1>5
    <2> HIDE DEF first, edits, p
    <2>4. applied = rec /\ new = edits
        BY <2>2, <2>3
    <2> HIDE DEF applied, new, rec
    <2>5. saved = Governed(rec, stream, edits)
        BY <2>2, <2>4
    <2> HIDE DEF saved
    <2> QED BY <2>1, <2>5 DEF Save
<1>7. Reduce(Replay, a) = mid
    BY DEF Reduce, OnPath
<1>8. Reduce(mid, b) = [mid EXCEPT !.patches = MarkApplied(@, id, clock)]
    BY DEF Reduce
<1> HIDE DEF first, a, b, p
<1>9. Now(edits)
    <2> HIDE DEF edits
    <2> QED BY <1>4, <1>5 DEF Now, ToSet
<1>10. After(Replay, edits) = [mid EXCEPT !.patches = MarkApplied(@, id, clock)]
    <2>1. After(Replay, <<a, b>>) = Reduce(Reduce(Replay, a), b)
        BY <1>1, <1>4, AfterTwo
    <2> HIDE DEF mid
    <2> QED BY <1>7, <1>8, <2>1
<1> HIDE DEF edits
<1>11. rec \in Records /\ Kept(rec, record)
    <2>1. MarkApplied(record.patches, id, clock) \in Seq(Patches)
        BY <1>1, MarkAppliedType DEF Records
    <2>2. AddNew(record.modified, p) \in Seq(Paths)
        BY <1>1, <1>2, AddNewType DEF Records
    <2> QED BY <1>1, <2>1, <2>2 DEF Records, Kept
<1>12. Kept(After(Replay, edits), Replay) /\ Alike(After(Replay, edits), rec)
    BY <1>1, <1>10 DEF RInv, Agrees, Alike, Kept, Records
<1> HIDE DEF rec
<1> QED BY <1>5, <1>6, <1>9, <1>11, <1>12, KeptReplays

-----------------------------------------------------------------------------
\* A run that was just started is replayed.
LEMMA InitReplays == ASSUME Init PROVE RInv
<1> DEFINE e == [type |-> "task_created", at |-> 0]
<1>1. record = Created /\ stream = <<e>> /\ clock = 1
    BY DEF Init
<1>2. e \in Events /\ e.at = 0
    BY DEF Events
<1>3. Reduce(Created, e) = Created
    BY DEF Reduce
<1> HIDE DEF e
<1>4. Replay = Created
    BY <1>1, <1>2, <1>3, CreatedType, AfterOne DEF Replay, After
<1>5. Before(stream, clock)
    <2>1. DOMAIN stream = {1} /\ stream[1] = e
        BY <1>1
    <2> QED BY <1>1, <1>2, <2>1 DEF Before, ToSet
<1>6. Begun(record.commands, clock)
    BY <1>1 DEF Created, Begun, ToSet
<1>7. Agrees(Replay, record, stream)
    BY <1>1, <1>4 DEF Agrees, Alike
<1> QED BY <1>5, <1>6, <1>7 DEF RInv

\* Every operation is replayed.
LEMMA StepReplays == ASSUME LInv, RInv, [Next]_vars PROVE RInv'
<1>1. CASE UNCHANGED vars
    <2>1. record' = record /\ stream' = stream /\ clock' = clock
        BY <1>1 DEF vars
    <2>2. Replay' = Replay
        BY <2>1 DEF Replay
    <2> QED BY <2>1, <2>2 DEF RInv
<1>2. CASE \E p \in Paths : RecordFileRead(p) \/ RecordFileModified(p)
    BY <1>2, FileReadReplays, FileModifiedReplays
<1>3. CASE \E d \in Decisions : RecordDecision(d) \/ RecordFailedApproach(d)
    BY <1>3, DecisionReplays, FailedApproachReplays
<1>4. CASE \E kind \in {"scope_expansion", "test_tampering"}, p \in Paths : Acknowledge(kind, p)
    BY <1>4, AcknowledgeReplays
<1>5. CASE \E n \in Usage : RecordUsage(n)
    BY <1>5, UsageReplays
<1>6. CASE RaiseWarning \/ CompileContext \/ TransitionPhase \/ Complete \/ CompleteForced
    BY <1>6, RaiseWarningReplays, CompileContextReplays, TransitionReplays, CompleteReplays,
       CompleteForcedReplays
<1>7. CASE \E c \in Commands : CommandStarted(c)
    BY <1>7, CommandStartedReplays
<1>8. CASE \E c \in Commands, success \in Success : CommandFinished(c, success)
    BY <1>8, CommandFinishedReplays
<1>9. CASE \E k \in Criteria : VerificationStarted(k)
    BY <1>9, VerificationStartedReplays
<1>10. CASE \E k \in Criteria, status \in Statuses : RecordVerification(k, status)
    BY <1>10, RecordVerificationReplays
<1>11. CASE \E specs \in Assessments : AssessPatch(specs)
    BY <1>11, AssessPatchReplays
<1>12. CASE \E results \in [DOMAIN Checks -> Success], statuses \in [Criteria -> Statuses],
              specs \in Assessments : Verify(results, statuses, specs)
    BY <1>12, VerifyReplays
<1>13. CASE \E id \in PatchIds, p \in Paths : ProposePatch(id, p)
    BY <1>13, ProposeReplays
<1>14. CASE \E id \in PatchIds : RefusePatch(id) \/ ApplyPatch(id)
    BY <1>14, RefuseReplays, ApplyReplays
<1> QED BY <1>1, <1>2, <1>3, <1>4, <1>5, <1>6, <1>7, <1>8, <1>9, <1>10, <1>11, <1>12, <1>13,
           <1>14 DEF Next

\* What replay and the record agree on, and that events and commands are not of the
\* future.
THEOREM Replayed == Spec => []RInv
<1>1. LInv /\ RInv /\ [Next]_vars => RInv'
    BY StepReplays
<1> QED BY InitReplays, <1>1, Inductive, PTL DEF Spec

\* Replay yields the stored record.
THEOREM LogIsTruth == Spec => []IntegrityHolds
<1>1. ASSUME RInv PROVE IntegrityHolds
    <2>1. Forced <=> ForcedIn(record.warnings)
        BY DEF Forced, ForcedIn
    <2>2. RanWhileOpen <=> RanOpen(record.commands, stream)
        BY DEF RanWhileOpen, RanOpen
    <2>3. Alike(Replay, record)
        BY <1>1 DEF RInv, Agrees
    <2>4. /\ Replay.warnings = record.warnings \/ Forced
          /\ Replay.commands = record.commands \/ RanWhileOpen
        BY <1>1, <2>1, <2>2 DEF RInv, Agrees
    <2> DEFINE R == Replay
    <2>5. Mismatches = {f \in Compared \cup {"tokens"} : R[f] # record[f]}
        BY DEF Mismatches
    <2>6. Alike(R, record) /\ (R.warnings = record.warnings \/ Forced)
          /\ (R.commands = record.commands \/ RanWhileOpen)
        BY <2>3, <2>4
    <2> HIDE DEF R
    <2> QED BY <2>5, <2>6 DEF IntegrityHolds, Compared, Alike
<1> QED BY <1>1, Replayed, PTL
=============================================================================
