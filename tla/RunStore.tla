------------------------------- MODULE RunStore -------------------------------
(***************************************************************************)
(* How operations on runs reach .sogi/: RunService._file_lock, _mutate,    *)
(* start, complete (runs/service.py) over SogiDatabase.save_run_with_events *)
(* (storage/db.py).  Several processes, each with one RunService instance   *)
(* and several threads, serve the same repository.  A call takes the        *)
(* instance's threading.Lock, then the flock on .sogi/lock, loads the run,  *)
(* changes it in memory, commits row and events in one transaction, renames *)
(* a JSON mirror into place, and lets go.  Processes may die anywhere.      *)
(*                                                                          *)
(* A row is abstracted to the operations it reflects, the events of a run   *)
(* to the operations that wrote them: what each operation writes is the     *)
(* subject of RunLedger, whether it may be refused that of CompletionGate.  *)
(***************************************************************************)
EXTENDS Naturals, Sequences, SequencesExt

CONSTANTS
    Ops,           \* the calls made; each is made once
    Starts,        \* those that are RunService.start
    Completes,     \* those that are RunService.complete; the rest is _mutate
    RunIds,        \* values of secrets.token_hex(3)
    Threads,
    Services,      \* RunService instances, one per process
    ServiceOf,     \* the instance each thread calls
    MaxCrashes,    \* bound on process deaths
    TokensCollide, \* whether two calls of start may draw the same id at once
    None           \* no thread, no call, no run

ASSUME OpsAssumption == Starts \subseteq Ops /\ Completes \subseteq Ops \ Starts
ASSUME ThreadsAssumption == ServiceOf \in [Threads -> Services]
ASSUME BoundAssumption == MaxCrashes \in Nat
ASSUME NoneAssumption == None \notin Ops \cup RunIds \cup Threads

VARIABLES
    row,     \* table runs: the operations the stored payload reflects; << >> no row
    events,  \* table events, the rows of each run in sequence order
    mirror,  \* .sogi/runs/<id>.json
    marker,  \* .sogi/active_run
    lock,    \* RunService._lock of each instance: its holder
    flock,   \* the holder of the flock on .sogi/lock
    pc,      \* where each thread is in its call
    job,     \* the call each thread is executing
    target,  \* the run each call is about
    rec,     \* the record each thread has in memory
    status,  \* what the caller of each call knows
    crashes

vars == <<row, events, mirror, marker, lock, flock, pc, job, target, rec,
          status, crashes>>
db == <<row, events>>
files == <<mirror, marker>>

NeedsLock == {"flock", "load", "commit", "mirror", "marker", "unflock", "unlock"}
NeedsFlock == {"load", "commit", "mirror", "marker", "unflock"}
Labels == {"idle", "token", "lock", "reply"} \cup NeedsLock

Touches(o, seq) == \E i \in DOMAIN seq : seq[i] = o

Init ==
    /\ row = [r \in RunIds |-> << >>]
    /\ events = [r \in RunIds |-> << >>]
    /\ mirror = [r \in RunIds |-> << >>]
    /\ marker = None
    /\ lock = [s \in Services |-> None]
    /\ flock = None
    /\ pc = [t \in Threads |-> "idle"]
    /\ job = [t \in Threads |-> None]
    /\ target = [o \in Ops |-> None]
    /\ rec = [t \in Threads |-> << >>]
    /\ status = [o \in Ops |-> "new"]
    /\ crashes = 0

Goto(t, label) == pc' = [pc EXCEPT ![t] = label]

\* An exception leaves the with-blocks; the caller will be told.
Raise(t) == status' = [status EXCEPT ![job[t]] = "failed"]

\* A client asks for an operation: on a run it names, or start.
Call(t, o, r) ==
    /\ pc[t] = "idle"
    /\ status[o] = "new"
    /\ IF o \in Starts
         THEN r = None /\ Goto(t, "token")
         ELSE r \in RunIds /\ Goto(t, "lock")
    /\ job' = [job EXCEPT ![t] = o]
    /\ target' = [target EXCEPT ![o] = r]
    /\ status' = [status EXCEPT ![o] = "called"]
    /\ UNCHANGED <<db, files, lock, flock, rec, crashes>>

Drawn(r) == \E u \in Threads : job[u] \in Starts /\ target[job[u]] = r

\* _new_run_id: the id is checked against the table before any lock is held.
NewRunId(t, r) ==
    /\ pc[t] = "token"
    /\ row[r] = << >>
    /\ ~TokensCollide => ~Drawn(r)
    /\ target' = [target EXCEPT ![job[t]] = r]
    /\ Goto(t, "lock")
    /\ UNCHANGED <<db, files, lock, flock, job, rec, status, crashes>>

\* Ten draws in a row named stored runs.
NoRunId(t) ==
    /\ pc[t] = "token"
    /\ \E r \in RunIds : row[r] # << >>
    /\ Raise(t)
    /\ Goto(t, "reply")
    /\ UNCHANGED <<db, files, lock, flock, job, target, rec, crashes>>

\* with self._lock
AcquireLock(t) ==
    /\ pc[t] = "lock"
    /\ lock[ServiceOf[t]] = None
    /\ lock' = [lock EXCEPT ![ServiceOf[t]] = t]
    /\ Goto(t, "flock")
    /\ UNCHANGED <<db, files, flock, job, target, rec, status, crashes>>

\* Mutant: a shared flock.
AcquireSharedFlock(t) ==
    /\ pc[t] = "flock"
    /\ flock' = t
    /\ IF job[t] \in Starts
         THEN rec' = [rec EXCEPT ![t] = <<job[t]>>] /\ Goto(t, "commit")
         ELSE UNCHANGED rec /\ Goto(t, "load")
    /\ UNCHANGED <<db, files, lock, job, target, status, crashes>>

\* fcntl.flock(LOCK_EX).  start has built its record by now; the others load.
AcquireFlock(t) ==
    /\ pc[t] = "flock"
    /\ flock = None
    /\ flock' = t
    /\ IF job[t] \in Starts
         THEN rec' = [rec EXCEPT ![t] = <<job[t]>>] /\ Goto(t, "commit")
         ELSE UNCHANGED rec /\ Goto(t, "load")
    /\ UNCHANGED <<db, files, lock, job, target, status, crashes>>

\* Mutant: the record is loaded from the JSON mirror.
LoadMirror(t) ==
    /\ pc[t] = "load"
    /\ row[target[job[t]]] # << >>
    /\ rec' = [rec EXCEPT ![t] = Append(mirror[target[job[t]]], job[t])]
    /\ Goto(t, "commit")
    /\ UNCHANGED <<db, files, lock, flock, job, target, status, crashes>>

\* record = self.get(run_id); events = fn(record, now), plus _govern's.
Load(t) ==
    /\ pc[t] = "load"
    /\ row[target[job[t]]] # << >>
    /\ rec' = [rec EXCEPT ![t] = Append(row[target[job[t]]], job[t])]
    /\ Goto(t, "commit")
    /\ UNCHANGED <<db, files, lock, flock, job, target, status, crashes>>

\* RunNotFoundError, or fn raises: a closed gate, an unknown patch, a bad phase.
Refuse(t) ==
    /\ pc[t] = "load"
    /\ Raise(t)
    /\ Goto(t, "unflock")
    /\ UNCHANGED <<db, files, lock, flock, job, target, rec, crashes>>

\* Mutant: save_run, the events in a transaction of their own that is lost.
CommitRowOnly(t) ==
    /\ pc[t] = "commit"
    /\ row' = [row EXCEPT ![target[job[t]]] = rec[t]]
    /\ Goto(t, "mirror")
    /\ UNCHANGED <<events, files, lock, flock, job, target, rec, status, crashes>>

\* save_run_with_events: the payload is overwritten and the events inserted in
\* one transaction; both are there or neither is.
Commit(t) ==
    LET r == target[job[t]] IN
    /\ pc[t] = "commit"
    /\ row' = [row EXCEPT ![r] = rec[t]]
    /\ events' = [events EXCEPT ![r] = Append(@, job[t])]
    /\ Goto(t, "mirror")
    /\ UNCHANGED <<files, lock, flock, job, target, rec, status, crashes>>

\* Mutants: the exception is swallowed, before or after the mirror is written.
RollbackSilently(t) ==
    /\ pc[t] = "commit"
    /\ Goto(t, "unflock")
    /\ UNCHANGED <<db, files, lock, flock, job, target, rec, status, crashes>>

RollbackThenMirror(t) ==
    /\ pc[t] = "commit"
    /\ Goto(t, "mirror")
    /\ UNCHANGED <<db, files, lock, flock, job, target, rec, status, crashes>>

\* SQLite raises (busy, disk full): rollback.
Rollback(t) ==
    /\ pc[t] = "commit"
    /\ Raise(t)
    /\ Goto(t, "unflock")
    /\ UNCHANGED <<db, files, lock, flock, job, target, rec, crashes>>

\* Mutant: complete leaves the mirror to the next writer.
WriteMirrorUnlessDone(t) ==
    /\ pc[t] = "mirror"
    /\ mirror' = IF job[t] \in Completes THEN mirror
                 ELSE [mirror EXCEPT ![target[job[t]]] = rec[t]]
    /\ Goto(t, IF job[t] \in Starts \cup Completes THEN "marker" ELSE "unflock")
    /\ UNCHANGED <<db, marker, lock, flock, job, target, rec, status, crashes>>

\* _write_snapshot: a temporary file renamed over the mirror.
WriteMirror(t) ==
    /\ pc[t] = "mirror"
    /\ mirror' = [mirror EXCEPT ![target[job[t]]] = rec[t]]
    /\ Goto(t, IF job[t] \in Starts \cup Completes THEN "marker" ELSE "unflock")
    /\ UNCHANGED <<db, marker, lock, flock, job, target, rec, status, crashes>>

\* _write_snapshot raises after the commit; the caller sees the exception.
MirrorFails(t) ==
    /\ pc[t] = "mirror"
    /\ Raise(t)
    /\ Goto(t, "unflock")
    /\ UNCHANGED <<db, files, lock, flock, job, target, rec, crashes>>

\* Mutants: the call is written in place of the run; complete clears nothing.
MoveMarkerToCall(t) ==
    /\ pc[t] = "marker"
    /\ marker' = job[t]
    /\ Goto(t, "unflock")
    /\ UNCHANGED <<db, mirror, lock, flock, job, target, rec, status, crashes>>

MoveMarkerByStart(t) ==
    /\ pc[t] = "marker"
    /\ marker' = IF job[t] \in Starts THEN target[job[t]] ELSE marker
    /\ Goto(t, "unflock")
    /\ UNCHANGED <<db, mirror, lock, flock, job, target, rec, status, crashes>>

\* _write_active_run (start), _clear_active_run (complete).
MoveMarker(t) ==
    LET r == target[job[t]] IN
    /\ pc[t] = "marker"
    /\ marker' = IF job[t] \in Starts THEN r
                 ELSE IF marker = r THEN None ELSE marker
    /\ Goto(t, "unflock")
    /\ UNCHANGED <<db, mirror, lock, flock, job, target, rec, status, crashes>>

\* _write_active_run truncates the marker before it writes the id; a write cut
\* short leaves a marker that names no run.
Torn(writer) == IF job[writer] \in Starts THEN {marker, None} ELSE {marker}

\* _write_active_run or _clear_active_run raises after the commit.
MarkerFails(t) ==
    /\ pc[t] = "marker"
    /\ marker' \in Torn(t)
    /\ Raise(t)
    /\ Goto(t, "unflock")
    /\ UNCHANGED <<db, mirror, lock, flock, job, target, rec, crashes>>

\* Mutant: no finally around the yield, and the handle kept open.
ReleaseFlockOnSuccess(t) ==
    /\ pc[t] = "unflock"
    /\ flock' = IF status[job[t]] = "failed" THEN flock ELSE None
    /\ rec' = [rec EXCEPT ![t] = << >>]
    /\ Goto(t, "unlock")
    /\ UNCHANGED <<db, files, lock, job, target, status, crashes>>

ReleaseFlock(t) ==
    /\ pc[t] = "unflock"
    /\ flock' = None
    /\ rec' = [rec EXCEPT ![t] = << >>]
    /\ Goto(t, "unlock")
    /\ UNCHANGED <<db, files, lock, job, target, status, crashes>>

ReleaseLock(t) ==
    /\ pc[t] = "unlock"
    /\ lock' = [lock EXCEPT ![ServiceOf[t]] = None]
    /\ Goto(t, "reply")
    /\ UNCHANGED <<db, files, flock, job, target, rec, status, crashes>>

\* The call returns, or its exception reaches the caller.
Reply(t) ==
    /\ pc[t] = "reply"
    /\ Goto(t, "idle")
    /\ job' = [job EXCEPT ![t] = None]
    /\ status' = [status EXCEPT ![job[t]] = IF @ = "called" THEN "ok" ELSE @]
    /\ UNCHANGED <<db, files, lock, flock, target, rec, crashes>>

Step(t) ==
    \/ \E r \in RunIds : NewRunId(t, r)
    \/ NoRunId(t)
    \/ AcquireLock(t)
    \/ AcquireFlock(t)
    \/ Load(t)
    \/ Refuse(t)
    \/ Commit(t)
    \/ Rollback(t)
    \/ WriteMirror(t)
    \/ MirrorFails(t)
    \/ MoveMarker(t)
    \/ MarkerFails(t)
    \/ ReleaseFlock(t)
    \/ ReleaseLock(t)
    \/ Reply(t)

\* A process dies: its threads and locks go, and with them a marker it was
\* writing; nothing else does.
Crash(s) ==
    LET dead == {t \in Threads : ServiceOf[t] = s} IN
    /\ crashes < MaxCrashes
    /\ \E t \in dead : pc[t] # "idle"
    /\ pc' = [t \in Threads |-> IF t \in dead THEN "idle" ELSE pc[t]]
    /\ job' = [t \in Threads |-> IF t \in dead THEN None ELSE job[t]]
    /\ status' = [o \in Ops |-> IF \E t \in dead : job[t] = o THEN "failed"
                                ELSE status[o]]
    /\ lock' = [lock EXCEPT ![s] = None]
    /\ flock' = IF flock \in dead THEN None ELSE flock
    /\ rec' = [t \in Threads |-> IF t \in dead THEN << >> ELSE rec[t]]
    /\ marker' \in {marker} \cup UNION {Torn(t) : t \in {u \in dead : pc[u] = "marker"}}
    /\ crashes' = crashes + 1
    /\ UNCHANGED <<db, mirror, target>>

\* Every call was made and answered.
Quiet ==
    /\ \A t \in Threads : pc[t] = "idle"
    /\ \A o \in Ops : status[o] # "new"
    /\ UNCHANGED vars

Next ==
    \/ \E t \in Threads, o \in Ops, r \in RunIds \cup {None} : Call(t, o, r)
    \/ \E t \in Threads : Step(t)
    \/ \E s \in Services : Crash(s)
    \/ Quiet

Spec == Init /\ [][Next]_vars

\* A thread that can move does: the interpreter and the kernel schedule it.
Fairness == \A t \in Threads : WF_vars(Step(t))
FairSpec == Spec /\ Fairness

-----------------------------------------------------------------------------
TypeOK ==
    /\ row \in [RunIds -> Seq(Ops)]
    /\ events \in [RunIds -> Seq(Ops)]
    /\ mirror \in [RunIds -> Seq(Ops)]
    /\ marker \in RunIds \cup {None}
    /\ lock \in [Services -> Threads \cup {None}]
    /\ flock \in Threads \cup {None}
    /\ pc \in [Threads -> Labels]
    /\ job \in [Threads -> Ops \cup {None}]
    /\ target \in [Ops -> RunIds \cup {None}]
    /\ rec \in [Threads -> Seq(Ops)]
    /\ status \in [Ops -> {"new", "called", "ok", "failed"}]
    /\ crashes \in Nat

\* No update is lost and no event is orphaned: the stored projection of every
\* run reflects exactly the operations whose events are in the stream, in the
\* same order, whatever the interleaving of threads, processes and deaths.
Consistent == row = events

\* An answered operation is durable: no later writer, crash or error removes
\* it from the projection.
AnsweredIsStored ==
    \A o \in Ops : status[o] = "ok" => Touches(o, row[target[o]])

\* A stored mirror lags the row and never contradicts it: it always shows a
\* state the run has been in.
MirrorLags == \A r \in RunIds : IsPrefix(mirror[r], row[r])

\* The mirror of a run differs from its row only while a writer that has
\* committed is on its way to it, or because that writer failed or died there.
MirrorFresh ==
    \A r \in RunIds : mirror[r] # row[r] =>
        status[Last(row[r])] \in {"called", "failed"}

\* A mirror never goes back to an older state, so no two writers may rename
\* their files in the order opposite to their commits.
MirrorForward == [][\A r \in RunIds : IsPrefix(mirror[r], mirror'[r])]_vars

\* The marker hooks attach to names a stored run, and not one whose completion
\* was answered: a start racing a completion cannot resurrect a finished run.
MarkerSound ==
    marker # None =>
        /\ row[marker] # << >>
        /\ \A o \in Completes : status[o] = "ok" => ~Touches(o, row[marker])

\* Every call is answered or its process dies: the two locks, always taken in
\* the same order and released on every path, never leave a caller waiting.
CallsReturn ==
    \A o \in Ops : status[o] = "called" ~> status[o] \in {"ok", "failed"}

\* RunService implements atomic operations on run logs.
Abs == INSTANCE AtomicRuns WITH log <- row
Atomic == Abs!ASpec
=============================================================================
