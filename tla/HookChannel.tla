------------------------------ MODULE HookChannel ------------------------------
(***************************************************************************)
(* What host hooks observe: integrations/hooks.py and the command that runs *)
(* it, cli._cmd_hook, with RunService.active_run_id.  Around each tool call *)
(* the host runs two processes.  The first stores the content hash of every *)
(* path git calls dirty in the file of its session; the second hashes them  *)
(* again, consumes the file, and records each difference as a file_modified *)
(* event of the run in progress.  Sessions work side by side; the calls of  *)
(* one session may overlap; a call may be denied after its first hook.      *)
(*                                                                          *)
(* Only mutation-capable tools (Edit, Bash, ...) are modelled: a read is    *)
(* recorded and changes nothing.  What is recorded, RunLedger says.         *)
(***************************************************************************)
EXTENDS Naturals, Sequences, FiniteSets, TLC

CONSTANTS
    Calls,      \* tool calls
    Sessions,
    SessionOf,  \* the session of each call
    DirectOf,   \* the paths its payload names: one for an edit, none for a command
    Paths,
    Contents,   \* of a path, absence among them
    Initial,    \* the content of every path at HEAD when everything starts
    Runs,
    MaxChanges, \* bound on writes and commits
    None,
    Torn,       \* a snapshot file that does not parse
    Legacy      \* what stands for the hash in a snapshot that is a list of names

ASSUME CallsAssumption ==
    SessionOf \in [Calls -> Sessions] /\ DirectOf \in [Calls -> SUBSET Paths]
ASSUME InitialAssumption == Initial \in Contents
ASSUME BoundAssumption == MaxChanges \in Nat

Snapshots == UNION {[S -> Contents \cup {Legacy}] : S \in SUBSET Paths}

ASSUME NoneAssumption ==
    /\ None \notin Runs
    /\ Legacy \notin Contents
    /\ {None, Torn} \cap Snapshots = {}
    /\ None # Torn

VARIABLES
    tree,     \* content of each path in the worktree
    head,     \* content of each path at HEAD
    changes,
    begun,    \* stored runs, in the order of their creation
    done,     \* those that are DONE
    marker,   \* .sogi/active_run
    file,     \* .sogi/hook-state: the snapshot of each session
    pc,       \* where each call is
    run,      \* the run its second hook attaches to
    paths,    \* what git status last told one of its hooks
    before,   \* the snapshot its second hook has read
    todo,     \* observations still to be recorded
    recorded, \* file_modified events: run and path
    base,     \* history: the tree its first hook hashed, and what was dirty
    due,      \* history: paths its second hook still owes a record
    touched,  \* history: paths anyone changed since its first hook looked
    blind     \* history: calls whose hooks could not see

world == <<tree, head, changes>>
runs == <<begun, done, marker>>
history == <<base, due, touched, blind>>
vars == <<world, runs, file, pc, run, paths, before, todo, recorded, history>>

Dirty == {p \in Paths : tree[p] # head[p]}
Hashes(S) == [p \in S |-> tree[p]]

InProgress == {r \in Runs : \E i \in DOMAIN begun : begun[i] = r} \ done

\* active_run_id: the marked run, or the newest that is not DONE.
Active ==
    IF marker \in InProgress THEN marker
    ELSE IF InProgress = {} THEN None
    ELSE begun[CHOOSE i \in DOMAIN begun :
                  /\ begun[i] \in InProgress
                  /\ \A j \in DOMAIN begun : begun[j] \in InProgress => j <= i]

NoLook == [tree |-> [p \in Paths |-> Initial], dirty |-> {}]

\* An earlier version may have left a list of the paths that were dirty.
Init ==
    /\ tree = [p \in Paths |-> Initial]
    /\ head = tree
    /\ changes = 0
    /\ begun = << >>
    /\ done = {}
    /\ marker = None
    /\ file \in [Sessions -> {None} \cup {[p \in S |-> Legacy] : S \in SUBSET Paths}]
    /\ pc = [c \in Calls |-> "new"]
    /\ run = [c \in Calls |-> None]
    /\ paths = [c \in Calls |-> {}]
    /\ before = [c \in Calls |-> None]
    /\ todo = [c \in Calls |-> {}]
    /\ recorded = {}
    /\ base = [c \in Calls |-> NoLook]
    /\ due = [c \in Calls |-> {}]
    /\ touched = [c \in Calls |-> {}]
    /\ blind = {}

Open == {"status", "capture", "working", "resolve", "read", "compare", "reconcile"}

Goto(c, label) == pc' = [pc EXCEPT ![c] = label]
Blind(S) == blind' = blind \cup S

\* The second hook is gone, and what is remembered of the call with it.
Forget(c) ==
    /\ Goto(c, "new")
    /\ run' = [run EXCEPT ![c] = None]
    /\ paths' = [paths EXCEPT ![c] = {}]
    /\ before' = [before EXCEPT ![c] = None]
    /\ todo' = [todo EXCEPT ![c] = {}]
    /\ base' = [base EXCEPT ![c] = NoLook]
    /\ due' = [due EXCEPT ![c] = {}]
    /\ touched' = [touched EXCEPT ![c] = {}]
    /\ blind' = blind \ {c}

-----------------------------------------------------------------------------
\* RunStore: a run is stored, then marked; completed, then unmarked; the marker
\* may be left behind.
StartRun(r) ==
    /\ \A i \in DOMAIN begun : begun[i] # r
    /\ begun' = Append(begun, r)
    /\ marker' \in {marker, None, r}
    /\ UNCHANGED <<world, done, file, pc, run, paths, before, todo, recorded, history>>

CompleteRun(r) ==
    /\ r \in InProgress
    /\ done' = done \cup {r}
    /\ marker' \in {marker, IF marker = r THEN None ELSE marker}
    /\ UNCHANGED <<world, begun, file, pc, run, paths, before, todo, recorded, history>>

\* Tools and people at work, at any time.
Change(S) ==
    /\ changes < MaxChanges
    /\ changes' = changes + 1
    /\ touched' = [c \in Calls |-> IF pc[c] \in Open THEN touched[c] \cup S ELSE touched[c]]
    /\ UNCHANGED <<runs, file, pc, run, paths, before, todo, recorded, base, due, blind>>

Write(p, v) ==
    /\ v # tree[p]
    /\ tree' = [tree EXCEPT ![p] = v]
    /\ UNCHANGED head
    /\ Change({p})

Commit ==
    /\ Dirty # {}
    /\ head' = tree
    /\ UNCHANGED tree
    /\ Change(Dirty)

-----------------------------------------------------------------------------
\* PreToolUse.  Calls of a session that overlap are blind to each other.
PreHook(c) ==
    LET lapping == {u \in Calls \ {c} : SessionOf[u] = SessionOf[c] /\ pc[u] \in Open}
    IN  /\ pc[c] = "new"
        /\ Goto(c, IF Active # None THEN "status" ELSE "working")
        /\ touched' = [touched EXCEPT ![c] = {}]
        /\ Blind(IF lapping # {} THEN lapping \cup {c}
                 ELSE IF InProgress = {} THEN {c} ELSE {})
        /\ UNCHANGED <<world, runs, file, run, paths, before, todo, recorded, base, due>>

\* _porcelain: no path at all when git fails.
Status(c, answers, next) ==
    /\ paths' = [paths EXCEPT ![c] = IF answers THEN Dirty ELSE {}]
    /\ Goto(c, next)
    /\ Blind(IF answers THEN {} ELSE {c})
    /\ UNCHANGED <<world, runs, file, run, before, todo, recorded, base, due, touched>>

StatusBefore(c, answers) ==
    /\ pc[c] = "status"
    /\ Status(c, answers, "capture")

\* capture_worktree
Capture(c) ==
    /\ pc[c] = "capture"
    /\ file' = [file EXCEPT ![SessionOf[c]] = Hashes(paths[c])]
    /\ base' = [base EXCEPT ![c] = [tree |-> tree, dirty |-> paths[c]]]
    /\ Goto(c, "working")
    /\ UNCHANGED <<world, runs, run, paths, before, todo, recorded, due, touched, blind>>

\* The hook fails or is killed; it exits 0 and the tool runs.
PreHookFails(c) ==
    /\ pc[c] \in {"status", "capture"}
    /\ file' \in {file} \cup (IF pc[c] = "capture"
                              THEN {[file EXCEPT ![SessionOf[c]] = Torn]} ELSE {})
    /\ Goto(c, "working")
    /\ Blind({c})
    /\ UNCHANGED <<world, runs, run, paths, before, todo, recorded, base, due, touched>>

\* The host does not let the tool run: there is no second hook.
Deny(c) ==
    /\ pc[c] = "working"
    /\ Forget(c)
    /\ UNCHANGED <<world, runs, file, recorded>>

ToolEnds(c) ==
    /\ pc[c] = "working"
    /\ Goto(c, "resolve")
    /\ UNCHANGED <<world, runs, file, run, paths, before, todo, recorded, history>>

-----------------------------------------------------------------------------
\* PostToolUse.
PostHook(c) ==
    /\ pc[c] = "resolve"
    /\ run' = [run EXCEPT ![c] = Active]
    /\ Goto(c, "read")
    /\ Active # None
    /\ UNCHANGED <<world, runs, file, paths, before, todo, recorded, history>>

\* Nothing to do without a run.
PostHookIdle(c) ==
    /\ pc[c] = "resolve"
    /\ Active = None
    /\ Forget(c)
    /\ UNCHANGED <<world, runs, file, recorded>>

\* What changed between the two looks, but for what was clean in both: such a
\* change was committed on the way, and git status does not tell.
Due(c, now) == {p \in base[c].dirty \cup now : tree[p] # base[c].tree[p]}

\* Mutant: a file that is there is read.
ReadSnapshotUnparsed(c) ==
    LET s == SessionOf[c] IN
    /\ pc[c] = "read"
    /\ file[s] # None
    /\ Goto(c, "compare")
    /\ before' = [before EXCEPT ![c] = file[s]]
    /\ UNCHANGED <<file, todo, due>>
    /\ UNCHANGED <<world, runs, run, paths, recorded, base, touched, blind>>

\* reconcile_worktree: no snapshot, or none that parses, is no difference; of a
\* legacy list every path is one, as Legacy is no hash.
ReadSnapshot(c) ==
    LET s == SessionOf[c] IN
    /\ pc[c] = "read"
    /\ IF file[s] \in {None, Torn}
         THEN /\ Goto(c, "record")
              /\ file' = [file EXCEPT ![s] = None]
              /\ todo' = [todo EXCEPT ![c] = DirectOf[c]]
              /\ due' = [due EXCEPT ![c] = Due(c, Dirty)]
              /\ UNCHANGED before
         ELSE /\ Goto(c, "compare")
              /\ before' = [before EXCEPT ![c] = file[s]]
              /\ UNCHANGED <<file, todo, due>>
    /\ UNCHANGED <<world, runs, run, paths, recorded, base, touched, blind>>

StatusAfter(c, answers) ==
    /\ pc[c] = "compare"
    /\ Status(c, answers, "reconcile")

\* Mutant: git status before and after, as it was without hashes.
DifferByStatus(old, new) ==
    {p \in DOMAIN old \cup DOMAIN new : p \notin DOMAIN old \/ p \notin DOMAIN new}

\* Mutant: a path that was dirty has changed.
DifferIfDirty(old, new) == DOMAIN old \cup DOMAIN new

Differ(old, new) ==
    {p \in DOMAIN old \cup DOMAIN new :
        p \notin DOMAIN old \/ p \notin DOMAIN new \/ old[p] # new[p]}

Reconcile(c) ==
    LET found == Differ(before[c], Hashes(paths[c])) IN
    /\ pc[c] = "reconcile"
    /\ todo' = [todo EXCEPT ![c] = DirectOf[c] \cup found]
    /\ file' = [file EXCEPT ![SessionOf[c]] = None]
    /\ due' = [due EXCEPT ![c] = Due(c, paths[c])]
    /\ Goto(c, "record")
    /\ UNCHANGED <<world, runs, run, paths, before, recorded, base, touched, blind>>

\* apply_to_service: one transaction for each observation.
Record(c, p) ==
    /\ pc[c] = "record"
    /\ p \in todo[c]
    /\ recorded' = recorded \cup {[run |-> run[c], path |-> p]}
    /\ todo' = [todo EXCEPT ![c] = @ \ {p}]
    /\ due' = [due EXCEPT ![c] = @ \ {p}]
    /\ UNCHANGED <<world, runs, file, pc, run, paths, before, base, touched, blind>>

\* An exception while recording, or the host kills the hook.
PostHookFails(c) ==
    /\ pc[c] \in {"resolve", "read", "compare", "reconcile", "record"}
    /\ Forget(c)
    /\ UNCHANGED <<world, runs, file, recorded>>

PostHookEnds(c) ==
    /\ pc[c] = "record"
    /\ todo[c] = {}
    /\ Forget(c)
    /\ UNCHANGED <<world, runs, file, recorded>>

Hook(c) ==
    \/ PreHook(c)
    \/ \E answers \in BOOLEAN : StatusBefore(c, answers)
    \/ Capture(c)
    \/ PreHookFails(c)
    \/ PostHook(c)
    \/ PostHookIdle(c)
    \/ ReadSnapshot(c)
    \/ \E answers \in BOOLEAN : StatusAfter(c, answers)
    \/ Reconcile(c)
    \/ \E p \in Paths : Record(c, p)
    \/ PostHookFails(c)
    \/ PostHookEnds(c)

Next ==
    \/ \E r \in Runs : StartRun(r) \/ CompleteRun(r)
    \/ \E p \in Paths, v \in Contents : Write(p, v)
    \/ Commit
    \/ \E c \in Calls : Hook(c) \/ Deny(c) \/ ToolEnds(c)

Spec == Init /\ [][Next]_vars

-----------------------------------------------------------------------------
TypeOK ==
    /\ tree \in [Paths -> Contents]
    /\ head \in [Paths -> Contents]
    /\ changes \in Nat
    /\ begun \in Seq(Runs)
    /\ done \in SUBSET Runs
    /\ marker \in Runs \cup {None}
    /\ file \in [Sessions -> Snapshots \cup {None, Torn}]
    /\ pc \in [Calls -> Open \cup {"new", "record"}]
    /\ run \in [Calls -> Runs \cup {None}]
    /\ paths \in [Calls -> SUBSET Paths]
    /\ before \in [Calls -> Snapshots \cup {None}]
    /\ todo \in [Calls -> SUBSET Paths]
    /\ recorded \in SUBSET [run : Runs, path : Paths]
    /\ base \in [Calls -> [tree : [Paths -> Contents], dirty : SUBSET Paths]]
    /\ due \in [Calls -> SUBSET Paths]
    /\ touched \in [Calls -> SUBSET Paths]
    /\ blind \in SUBSET Calls

\* Files changed by a command are recorded from actual git state, whatever other
\* sessions do, denied calls leave behind, or runs start and finish meanwhile: a
\* second hook that ends owes no path, if both hooks of the call could see and no
\* call of its session overlapped it; and it does nothing only without a run.
ChangesRecorded ==
    [][\A c \in Calls :
          /\ PostHookEnds(c) /\ c \notin blind => due[c] = {}
          /\ PostHookIdle(c) => InProgress = {}]_vars

\* What it records is what its payload names or what somebody changed since its
\* first hook looked, never what is left of an older snapshot: of a call that is
\* not blind, for the second hook of one whose first hook stored nothing compares
\* with whatever snapshot its session has.
NothingInvented ==
    [][\A c \in Calls, p \in Paths :
          Record(c, p) /\ c \notin blind => p \in DirectOf[c] \cup touched[c]]_vars
=============================================================================
