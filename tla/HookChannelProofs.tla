---------------------------- MODULE HookChannelProofs ----------------------------
(***************************************************************************)
(* Proofs about HookChannel: what changed around a tool call is recorded,   *)
(* and nothing else is, for any number of calls, sessions, paths, contents, *)
(* runs and changes.                                                        *)
(***************************************************************************)
EXTENDS HookChannel, Positions

-----------------------------------------------------------------------------
(* The run in progress. *)

\* There is an active run whenever one is in progress, and it is in progress.
LEMMA ActiveInProgress ==
    ASSUME begun \in Seq(Runs), marker \in Runs \cup {None}
    PROVE  /\ InProgress \subseteq Runs
           /\ InProgress = {} => Active = None
           /\ InProgress # {} => Active \in InProgress
<1> DEFINE I == {i \in DOMAIN begun : begun[i] \in InProgress}
           Last(i) == /\ begun[i] \in InProgress
                      /\ \A j \in DOMAIN begun : begun[j] \in InProgress => j <= i
<1>1. InProgress \subseteq Runs /\ \A r \in InProgress : \E i \in I : begun[i] = r
    BY DEF InProgress
<1>2. ASSUME InProgress # {}, marker \notin InProgress PROVE Active \in InProgress
    <2>1. I # {} /\ Len(begun) \in Nat /\ I \in SUBSET (1..Len(begun))
        BY <1>1, <1>2
    <2>2. PICK m \in I : \A k \in I : k <= m
        <3> HIDE DEF I
        <3>1. I \in SUBSET (0..Len(begun))
            BY <2>1
        <3> QED BY <2>1, <3>1, LastOne
    <2>3. m \in DOMAIN begun /\ Last(m)
        BY <2>2
    <2>4. (CHOOSE i \in DOMAIN begun : Last(i)) \in DOMAIN begun /\ Last(CHOOSE i \in DOMAIN begun : Last(i))
        <3> HIDE DEF Last
        <3> QED BY <2>3
    <2>5. Active = begun[CHOOSE i \in DOMAIN begun : Last(i)]
        BY <1>2 DEF Active
    <2> QED BY <2>4, <2>5
<1>3. InProgress = {} => Active = None
    BY DEF Active
<1>4. marker \in InProgress => Active \in InProgress
    BY DEF Active
<1> QED BY <1>1, <1>2, <1>3, <1>4

\* So it is a run, or there is none.
LEMMA ActiveType ==
    ASSUME begun \in Seq(Runs), marker \in Runs \cup {None}
    PROVE  /\ Active \in Runs \cup {None}
           /\ Active = None <=> InProgress = {}
BY ActiveInProgress, NoneAssumption

-----------------------------------------------------------------------------
(* The invariant. *)

\* A second hook that reads, compares or records has a run to record in.
RunsResolved ==
    \A c \in Calls : pc[c] \in {"read", "compare", "reconcile", "record"} => run[c] \in Runs

\* What it compares with is a snapshot that parsed.
SnapshotsRead ==
    \A c \in Calls : pc[c] \in {"compare", "reconcile"} => before[c] \in Snapshots

\* The snapshot file of a session belongs to one call, or to calls that are blind.
Alone ==
    \A c, u \in Calls :
        /\ c # u /\ SessionOf[c] = SessionOf[u]
        /\ pc[c] \in Open /\ pc[u] \in Open
        => c \in blind

\* What the first hook of a call stored.
Looked(c) == [p \in base[c].dirty |-> base[c].tree[p]]

\* A path nobody touched is as the first hook saw it.
Untouched(c) ==
    \A p \in Paths \ touched[c] :
        /\ p \in base[c].dirty <=> p \in Dirty
        /\ tree[p] = base[c].tree[p]

\* What a call that is not blind knows.
Sees(c) ==
    /\ pc[c] = "capture" => \A p \in Paths \ touched[c] : p \in paths[c] <=> p \in Dirty
    /\ pc[c] \in {"working", "resolve", "read", "compare", "reconcile"} =>
           file[SessionOf[c]] = Looked(c)
    /\ pc[c] \in {"working", "resolve", "read", "compare"} => Untouched(c)
    /\ pc[c] \in {"compare", "reconcile"} => before[c] = Looked(c)
    /\ pc[c] = "reconcile" =>
           \A p \in Paths \ touched[c] :
               /\ p \in base[c].dirty <=> p \in paths[c]
               /\ tree[p] = base[c].tree[p]
    /\ pc[c] = "record" =>
           /\ due[c] \subseteq todo[c]
           /\ todo[c] \subseteq DirectOf[c] \cup touched[c]

Sighted == \A c \in Calls \ blind : Sees(c)

HInv == TypeOK /\ RunsResolved /\ SnapshotsRead /\ Alone /\ Sighted

-----------------------------------------------------------------------------
(* Types. *)

\* What a first hook stores is a snapshot.
LEMMA HashesType ==
    ASSUME TypeOK, NEW S \in SUBSET Paths
    PROVE  Hashes(S) \in Snapshots
<1>1. Hashes(S) \in [S -> Contents]
    BY DEF Hashes, TypeOK
<1> QED BY <1>1 DEF Snapshots

\* Its paths are paths.
LEMMA SnapshotPaths ==
    ASSUME NEW f \in Snapshots
    PROVE  DOMAIN f \subseteq Paths /\ f \notin {None, Torn}
<1>1. PICK S \in SUBSET Paths : f \in [S -> Contents \cup {Legacy}]
    BY DEF Snapshots
<1> QED BY <1>1, NoneAssumption

LEMMA NoLookType == NoLook \in [tree : [Paths -> Contents], dirty : SUBSET Paths]
BY InitialAssumption DEF NoLook

LEMMA InitType == Init => TypeOK
BY InitialAssumption, NoLookType DEF Init, TypeOK, Snapshots

\* The call that ends leaves nothing.
LEMMA ForgetType ==
    ASSUME TypeOK, NEW c \in Calls, Forget(c), UNCHANGED <<world, runs, file, recorded>>
    PROVE  TypeOK'
<1> USE DEF TypeOK, world, runs
<1>1. base' \in [Calls -> [tree : [Paths -> Contents], dirty : SUBSET Paths]]
    BY NoLookType DEF Forget
<1>2. /\ pc' \in [Calls -> Open \cup {"new", "record"}]
      /\ run' \in [Calls -> Runs \cup {None}]
      /\ before' \in [Calls -> Snapshots \cup {None}]
    BY DEF Forget, Goto
<1>3. /\ paths' \in [Calls -> SUBSET Paths]
      /\ todo' \in [Calls -> SUBSET Paths]
      /\ due' \in [Calls -> SUBSET Paths]
      /\ touched' \in [Calls -> SUBSET Paths]
      /\ blind' \in SUBSET Calls
    BY DEF Forget
<1> QED BY <1>1, <1>2, <1>3

\* So does the call whose git was asked.
LEMMA StatusType ==
    ASSUME TypeOK, NEW c \in Calls, NEW answers \in BOOLEAN, NEW next \in Open,
           Status(c, answers, next)
    PROVE  TypeOK'
<1>1. Dirty \in SUBSET Paths
    BY DEF Dirty
<1> QED BY <1>1 DEF Status, Goto, Blind, TypeOK, world, runs

LEMMA ChangeType ==
    ASSUME TypeOK, NEW S \in SUBSET Paths, Change(S),
           tree' \in [Paths -> Contents], head' \in [Paths -> Contents]
    PROVE  TypeOK'
<1>1. touched' \in [Calls -> SUBSET Paths]
    BY DEF Change, TypeOK
<1> QED BY <1>1, BoundAssumption DEF Change, TypeOK, runs

\* Every step keeps every variable in its type.
LEMMA TypeStep ==
    ASSUME HInv, [Next]_vars
    PROVE  TypeOK'
<1> USE DEF HInv, TypeOK
<1>0. Active \in Runs \cup {None} /\ (Active = None <=> InProgress = {}) /\ InProgress \subseteq Runs
    BY ActiveType, ActiveInProgress
<1>1. ASSUME NEW r \in Runs, StartRun(r) PROVE TypeOK'
    BY <1>1 DEF StartRun, world, history
<1>2. ASSUME NEW r \in Runs, CompleteRun(r) PROVE TypeOK'
    BY <1>2 DEF CompleteRun, world, history
<1>3. ASSUME NEW p \in Paths, NEW v \in Contents, Write(p, v) PROVE TypeOK'
    <2>1. tree' \in [Paths -> Contents] /\ head' \in [Paths -> Contents] /\ Change({p})
        BY <1>3 DEF Write
    <2> QED BY <2>1, ChangeType
<1>4. ASSUME Commit PROVE TypeOK'
    <2>1. /\ tree' \in [Paths -> Contents] /\ head' \in [Paths -> Contents]
          /\ Dirty \in SUBSET Paths /\ Change(Dirty)
        BY <1>4 DEF Commit, Dirty
    <2> QED BY <2>1, ChangeType
<1>5. ASSUME NEW c \in Calls, Hook(c) PROVE TypeOK'
    <2>1. ASSUME PreHook(c) PROVE TypeOK'
        <3>1. blind' \subseteq Calls
            BY <2>1 DEF PreHook, Blind
        <3>2. /\ pc' \in [Calls -> Open \cup {"new", "record"}]
              /\ touched' \in [Calls -> SUBSET Paths]
            BY <2>1 DEF PreHook, Goto, Open
        <3> QED BY <2>1, <3>1, <3>2 DEF PreHook, world, runs
    <2>2. ASSUME NEW answers \in BOOLEAN, StatusBefore(c, answers) PROVE TypeOK'
        <3>1. "capture" \in Open
            BY DEF Open
        <3> QED BY <2>2, <3>1, StatusType DEF StatusBefore
    <2>3. ASSUME Capture(c) PROVE TypeOK'
        <3>1. paths[c] \in SUBSET Paths /\ Hashes(paths[c]) \in Snapshots
            BY HashesType
        <3>2. /\ file' \in [Sessions -> Snapshots \cup {None, Torn}]
              /\ base' \in [Calls -> [tree : [Paths -> Contents], dirty : SUBSET Paths]]
              /\ pc' \in [Calls -> Open \cup {"new", "record"}]
            BY <2>3, <3>1 DEF Capture, Goto, Open
        <3> QED BY <2>3, <3>2 DEF Capture, world, runs
    <2>4. ASSUME PreHookFails(c) PROVE TypeOK'
        <3>1. file' \in [Sessions -> Snapshots \cup {None, Torn}]
            BY <2>4 DEF PreHookFails
        <3> QED BY <2>4, <3>1 DEF PreHookFails, Goto, Blind, Open, world, runs
    <2>5. ASSUME PostHook(c) PROVE TypeOK'
        BY <1>0, <2>5 DEF PostHook, Goto, Open, world, runs, history
    <2>6. ASSUME PostHookIdle(c) PROVE TypeOK'
        BY <2>6, ForgetType DEF PostHookIdle
    <2>7. ASSUME ReadSnapshot(c) PROVE TypeOK'
        <3>1. DirectOf[c] \in SUBSET Paths /\ Due(c, Dirty) \in SUBSET Paths
            BY CallsAssumption DEF Due, Dirty
        <3>2. file[SessionOf[c]] \notin {None, Torn} => file[SessionOf[c]] \in Snapshots
            BY CallsAssumption
        <3>3. /\ file' \in [Sessions -> Snapshots \cup {None, Torn}]
              /\ before' \in [Calls -> Snapshots \cup {None}]
            BY <2>7, <3>2 DEF ReadSnapshot
        <3>4. /\ todo' \in [Calls -> SUBSET Paths]
              /\ due' \in [Calls -> SUBSET Paths]
            BY <2>7, <3>1 DEF ReadSnapshot
        <3>5. pc' \in [Calls -> Open \cup {"new", "record"}]
            BY <2>7 DEF ReadSnapshot, Goto, Open
        <3> QED BY <2>7, <3>3, <3>4, <3>5 DEF ReadSnapshot, world, runs
    <2>8. ASSUME NEW answers \in BOOLEAN, StatusAfter(c, answers) PROVE TypeOK'
        <3>1. "reconcile" \in Open
            BY DEF Open
        <3> QED BY <2>8, <3>1, StatusType DEF StatusAfter
    <2>9. ASSUME Reconcile(c) PROVE TypeOK'
        <3>1. DirectOf[c] \in SUBSET Paths /\ Due(c, paths[c]) \in SUBSET Paths
            BY CallsAssumption DEF Due
        <3>2. Differ(before[c], Hashes(paths[c])) \in SUBSET Paths
            <4>1. before[c] \in Snapshots /\ Hashes(paths[c]) \in Snapshots
                BY <2>9, HashesType DEF Reconcile, SnapshotsRead
            <4> QED BY <4>1, SnapshotPaths DEF Differ
        <3>3. /\ todo' \in [Calls -> SUBSET Paths]
              /\ due' \in [Calls -> SUBSET Paths]
            BY <2>9, <3>1, <3>2 DEF Reconcile
        <3>4. /\ file' \in [Sessions -> Snapshots \cup {None, Torn}]
              /\ pc' \in [Calls -> Open \cup {"new", "record"}]
            BY <2>9 DEF Reconcile, Goto
        <3> QED BY <2>9, <3>3, <3>4 DEF Reconcile, world, runs
    <2>10. ASSUME NEW p \in Paths, Record(c, p) PROVE TypeOK'
        <3>1. run[c] \in Runs
            BY <2>10 DEF Record, RunsResolved
        <3>2. /\ todo' \in [Calls -> SUBSET Paths]
              /\ due' \in [Calls -> SUBSET Paths]
              /\ recorded' \in SUBSET [run : Runs, path : Paths]
            BY <2>10, <3>1 DEF Record
        <3> QED BY <2>10, <3>2 DEF Record, world, runs
    <2>11. ASSUME PostHookFails(c) PROVE TypeOK'
        BY <2>11, ForgetType DEF PostHookFails
    <2>12. ASSUME PostHookEnds(c) PROVE TypeOK'
        BY <2>12, ForgetType DEF PostHookEnds
    <2> QED BY <1>5, <2>1, <2>2, <2>3, <2>4, <2>5, <2>6, <2>7, <2>8, <2>9, <2>10, <2>11, <2>12
            DEF Hook
<1>6. ASSUME NEW c \in Calls, Deny(c) PROVE TypeOK'
    BY <1>6, ForgetType DEF Deny
<1>7. ASSUME NEW c \in Calls, ToolEnds(c) PROVE TypeOK'
    BY <1>7 DEF ToolEnds, Goto, Open, world, runs, history
<1>8. CASE UNCHANGED vars
    BY <1>8 DEF vars, world, runs, history
<1> QED BY <1>1, <1>2, <1>3, <1>4, <1>5, <1>6, <1>7, <1>8 DEF Next

-----------------------------------------------------------------------------
(* Steps of the world and of the runs. *)

\* Nothing a call knows is about the runs.
LEMMA RunsStep ==
    ASSUME HInv, TypeOK', UNCHANGED <<world, file, pc, run, paths, before, todo, history>>
    PROVE  HInv'
<1> USE DEF HInv, world, history
<1>1. RunsResolved' /\ SnapshotsRead' /\ Alone'
    BY DEF RunsResolved, SnapshotsRead, Alone
<1>2. Sighted'
    BY DEF Sighted, Sees, Untouched, Looked, Dirty
<1> QED BY <1>1, <1>2

\* What moves is touched.
LEMMA ChangeStep ==
    ASSUME HInv, TypeOK', NEW S \in SUBSET Paths, Change(S),
           \A p \in Paths \ S : tree'[p] = tree[p] /\ (p \in Dirty' <=> p \in Dirty)
    PROVE  HInv'
<1> USE DEF HInv, TypeOK
<1>1. /\ UNCHANGED <<runs, file, pc, run, paths, before, todo, recorded, base, due, blind>>
      /\ \A c \in Calls : touched'[c] = IF pc[c] \in Open THEN touched[c] \cup S ELSE touched[c]
    BY DEF Change
<1>2. RunsResolved' /\ SnapshotsRead' /\ Alone'
    BY <1>1 DEF RunsResolved, SnapshotsRead, Alone
<1>3. ASSUME NEW c \in Calls, c \notin blind PROVE Sees(c)'
    <2>1. Sees(c)
        BY <1>3 DEF Sighted
    <2>2. Looked(c)' = Looked(c)
        BY <1>1 DEF Looked
    <2>3. ASSUME pc[c] = "capture"
          PROVE  \A p \in Paths \ touched'[c] : p \in paths'[c] <=> p \in Dirty'
        BY <1>1, <2>1, <2>3 DEF Sees, Open
    <2>4. ASSUME pc[c] \in {"working", "resolve", "read", "compare"} PROVE Untouched(c)'
        <3>1. Untouched(c)
            BY <2>1, <2>4 DEF Sees
        <3>2. touched'[c] = touched[c] \cup S
            BY <1>1, <2>4 DEF Open
        <3> QED BY <1>1, <3>1, <3>2 DEF Untouched
    <2>5. ASSUME pc[c] = "reconcile"
          PROVE  \A p \in Paths \ touched'[c] :
                     /\ p \in base'[c].dirty <=> p \in paths'[c]
                     /\ tree'[p] = base'[c].tree[p]
        <3>1. touched'[c] = touched[c] \cup S
            BY <1>1, <2>5 DEF Open
        <3> QED BY <1>1, <2>1, <2>5, <3>1 DEF Sees
    <2>6. ASSUME pc[c] = "record" PROVE touched'[c] = touched[c]
        BY <1>1, <2>6 DEF Open
    <2> QED BY <1>1, <2>1, <2>2, <2>3, <2>4, <2>5, <2>6 DEF Sees
<1> QED BY <1>1, <1>2, <1>3 DEF Sighted

-----------------------------------------------------------------------------
(* Steps of one call. *)

\* A call that was open, and forgets no blindness, adds nobody to its session.
LEMMA AloneStays ==
    ASSUME HInv, NEW c \in Calls,
           \A u \in Calls \ {c} : pc'[u] = pc[u],
           pc'[c] \in Open => pc[c] \in Open /\ (c \in blind => c \in blind'),
           blind \ {c} \subseteq blind'
    PROVE  Alone'
BY DEF HInv, Alone

\* What the others know stays true: they keep their fields, and a call that writes
\* the file of its session shares it with blind calls only.
LEMMA HookStep ==
    ASSUME HInv, TypeOK', NEW c \in Calls,
           tree' = tree, head' = head,
           \A u \in Calls \ {c} :
               /\ pc'[u] = pc[u] /\ run'[u] = run[u]
               /\ paths'[u] = paths[u] /\ before'[u] = before[u]
               /\ todo'[u] = todo[u] /\ base'[u] = base[u]
               /\ due'[u] = due[u] /\ touched'[u] = touched[u],
           blind \ {c} \subseteq blind',
           \/ file' = file
           \/ pc[c] \in Open /\ \A s \in Sessions \ {SessionOf[c]} : file'[s] = file[s],
           pc'[c] \in {"read", "compare", "reconcile", "record"} => run'[c] \in Runs,
           pc'[c] \in {"compare", "reconcile"} => before'[c] \in Snapshots,
           Alone',
           c \notin blind' => Sees(c)'
    PROVE  HInv'
<1> USE DEF HInv
<1>1. RunsResolved' /\ SnapshotsRead'
    BY DEF RunsResolved, SnapshotsRead, Snapshots
<1>2. ASSUME NEW u \in Calls \ {c}, u \notin blind' PROVE Sees(u)'
    <2>1. Sees(u) /\ u \notin blind
        BY <1>2 DEF Sighted
    <2>2. /\ pc'[u] = pc[u]
          /\ paths'[u] = paths[u] /\ before'[u] = before[u]
          /\ todo'[u] = todo[u] /\ base'[u] = base[u]
          /\ due'[u] = due[u] /\ touched'[u] = touched[u]
        BY <1>2
    <2>3. Looked(u)' = Looked(u) /\ Dirty' = Dirty
        BY <2>2 DEF Looked, Dirty
    <2>4. Untouched(u)' <=> Untouched(u)
        BY <2>2, <2>3 DEF Untouched
    <2>5. pc[u] \in Open => file'[SessionOf[u]] = file[SessionOf[u]]
        <3>1. pc[u] \in Open /\ pc[c] \in Open => SessionOf[u] # SessionOf[c]
            BY <1>2, <2>1 DEF Alone
        <3> QED BY <3>1, CallsAssumption
    <2> QED BY <2>1, <2>2, <2>3, <2>4, <2>5 DEF Sees, Open
<1> QED BY <1>1, <1>2 DEF Sighted

\* The call that ends knows nothing.
LEMMA ForgetStep ==
    ASSUME HInv, TypeOK', NEW c \in Calls, Forget(c),
           UNCHANGED <<world, runs, file, recorded>>
    PROVE  HInv'
<1>1. pc'[c] = "new"
    BY DEF Forget, Goto, HInv, TypeOK
<1>2. /\ \A u \in Calls \ {c} :
             /\ pc'[u] = pc[u] /\ run'[u] = run[u]
             /\ paths'[u] = paths[u] /\ before'[u] = before[u]
             /\ todo'[u] = todo[u] /\ base'[u] = base[u]
             /\ due'[u] = due[u] /\ touched'[u] = touched[u]
      /\ blind \ {c} \subseteq blind'
    BY DEF Forget, Goto, HInv, TypeOK
<1>3. Alone'
    BY <1>1, <1>2, AloneStays DEF Open
<1>4. Sees(c)'
    BY <1>1 DEF Sees
<1> QED BY <1>1, <1>2, <1>3, <1>4, HookStep DEF world

LEMMA PreHookStep ==
    ASSUME HInv, TypeOK', NEW c \in Calls, PreHook(c)
    PROVE  HInv'
<1> USE DEF HInv, TypeOK
<1>1. pc[c] = "new" /\ pc'[c] \in {"status", "working"}
    BY DEF PreHook, Goto
<1>2. /\ tree' = tree /\ head' = head /\ file' = file
      /\ \A u \in Calls \ {c} :
             /\ pc'[u] = pc[u] /\ run'[u] = run[u]
             /\ paths'[u] = paths[u] /\ before'[u] = before[u]
             /\ todo'[u] = todo[u] /\ base'[u] = base[u]
             /\ due'[u] = due[u] /\ touched'[u] = touched[u]
      /\ blind \subseteq blind'
    BY DEF PreHook, Goto, Blind, world
<1>3. Alone'
    <2> SUFFICES ASSUME NEW a \in Calls, NEW u \in Calls, a # u,
                        SessionOf[a] = SessionOf[u],
                        pc'[a] \in Open, pc'[u] \in Open
                 PROVE  a \in blind'
        BY DEF Alone
    <2>1. CASE a # c /\ u # c
        BY <1>2, <2>1 DEF Alone
    <2>2. CASE a = c
        <3>1. u \in {w \in Calls \ {c} : SessionOf[w] = SessionOf[c] /\ pc[w] \in Open}
            BY <1>2, <2>2
        <3> QED BY <2>2, <3>1 DEF PreHook, Blind
    <2>3. CASE u = c
        <3>1. a \in {w \in Calls \ {c} : SessionOf[w] = SessionOf[c] /\ pc[w] \in Open}
            BY <1>2, <2>3
        <3> QED BY <3>1 DEF PreHook, Blind
    <2> QED BY <2>1, <2>2, <2>3
<1>4. c \notin blind' => Sees(c)'
    <2>1. InProgress = {} => c \in blind'
        BY DEF PreHook, Blind
    <2>2. InProgress # {} => pc'[c] = "status"
        <3>1. InProgress # {} => Active # None
            BY ActiveType
        <3> QED BY <3>1 DEF PreHook, Goto
    <2> QED BY <2>1, <2>2 DEF Sees
<1> QED BY <1>1, <1>2, <1>3, <1>4, HookStep

\* What both looks at git need: the paths are the dirty ones, or the call is blind.
LEMMA StatusStep ==
    ASSUME HInv, TypeOK', NEW c \in Calls, NEW answers \in BOOLEAN, NEW next \in Open,
           Status(c, answers, next),
           \/ pc[c] = "status" /\ next = "capture"
           \/ pc[c] = "compare" /\ next = "reconcile"
    PROVE  HInv'
<1> USE DEF HInv, TypeOK
<1>1. /\ pc'[c] = next
      /\ paths'[c] = IF answers THEN Dirty ELSE {}
      /\ tree' = tree /\ head' = head /\ file' = file
      /\ run' = run /\ before' = before /\ todo' = todo
      /\ base' = base /\ due' = due /\ touched' = touched
      /\ \A u \in Calls \ {c} : pc'[u] = pc[u] /\ paths'[u] = paths[u]
      /\ blind \subseteq blind'
      /\ ~answers => c \in blind'
    BY DEF Status, Goto, Blind, world
<1>2. Alone'
    BY <1>1, AloneStays DEF Open
<1>3. ASSUME c \notin blind' PROVE Sees(c)'
    <2>1. Sees(c) /\ paths'[c] = Dirty /\ Dirty' = Dirty
        BY <1>1, <1>3 DEF Sighted, Dirty
    <2>2. Looked(c)' = Looked(c)
        BY <1>1 DEF Looked
    <2>3. CASE next = "capture"
        BY <1>1, <2>1, <2>3 DEF Sees
    <2>4. CASE next = "reconcile"
        BY <1>1, <2>1, <2>2, <2>4 DEF Sees, Untouched
    <2> QED BY <2>3, <2>4
<1>4. /\ pc'[c] \in {"read", "compare", "reconcile", "record"} => run'[c] \in Runs
      /\ pc'[c] \in {"compare", "reconcile"} => before'[c] \in Snapshots
    BY <1>1 DEF RunsResolved, SnapshotsRead
<1> QED BY <1>1, <1>2, <1>3, <1>4, HookStep

LEMMA CaptureStep ==
    ASSUME HInv, TypeOK', NEW c \in Calls, Capture(c)
    PROVE  HInv'
<1> USE DEF HInv, TypeOK
<1>1. /\ pc[c] = "capture" /\ pc'[c] = "working"
      /\ tree' = tree /\ head' = head /\ blind' = blind
      /\ run' = run /\ before' = before /\ todo' = todo
      /\ paths' = paths /\ due' = due /\ touched' = touched
      /\ \A u \in Calls \ {c} : pc'[u] = pc[u] /\ base'[u] = base[u]
      /\ base'[c] = [tree |-> tree, dirty |-> paths[c]]
      /\ file'[SessionOf[c]] = Hashes(paths[c])
      /\ \A s \in Sessions \ {SessionOf[c]} : file'[s] = file[s]
    BY CallsAssumption DEF Capture, Goto, world
<1>2. Alone'
    BY <1>1, AloneStays DEF Open
<1>3. ASSUME c \notin blind' PROVE Sees(c)'
    <2>1. Sees(c) /\ Dirty' = Dirty
        BY <1>1, <1>3 DEF Sighted, Dirty
    <2>2. Looked(c)' = Hashes(paths[c])
        BY <1>1 DEF Looked, Hashes
    <2>3. Untouched(c)'
        BY <1>1, <2>1 DEF Untouched, Sees
    <2> QED BY <1>1, <2>2, <2>3 DEF Sees
<1>4. pc[c] \in Open
    BY <1>1 DEF Open
<1> QED BY <1>1, <1>2, <1>3, <1>4, HookStep

LEMMA PreHookFailsStep ==
    ASSUME HInv, TypeOK', NEW c \in Calls, PreHookFails(c)
    PROVE  HInv'
<1> USE DEF HInv, TypeOK
<1>1. /\ pc[c] \in Open /\ pc'[c] = "working"
      /\ tree' = tree /\ head' = head
      /\ run' = run /\ before' = before /\ todo' = todo
      /\ paths' = paths /\ due' = due /\ touched' = touched /\ base' = base
      /\ \A u \in Calls \ {c} : pc'[u] = pc[u]
      /\ blind \subseteq blind' /\ c \in blind'
      /\ \A s \in Sessions \ {SessionOf[c]} : file'[s] = file[s]
    BY DEF PreHookFails, Goto, Blind, Open, world
<1>2. Alone'
    BY <1>1, AloneStays
<1> QED BY <1>1, <1>2, HookStep

\* The tool ends, or the second hook finds its run: it knows what it knew.
LEMMA WaitStep ==
    ASSUME HInv, TypeOK', NEW c \in Calls,
           \/ ToolEnds(c)
           \/ PostHook(c)
    PROVE  HInv'
<1> USE DEF HInv, TypeOK
<1>1. /\ pc[c] \in {"working", "resolve"} /\ pc'[c] \in {"resolve", "read"}
      /\ tree' = tree /\ head' = head /\ file' = file /\ blind' = blind
      /\ before' = before /\ todo' = todo /\ paths' = paths
      /\ due' = due /\ touched' = touched /\ base' = base
      /\ \A u \in Calls \ {c} : pc'[u] = pc[u] /\ run'[u] = run[u]
    BY DEF ToolEnds, PostHook, Goto, world, history
<1>2. pc'[c] = "read" => run'[c] \in Runs
    <2>1. Active # None => Active \in Runs
        BY ActiveType
    <2>2. pc'[c] = "read" => PostHook(c)
        BY DEF ToolEnds, Goto
    <2> QED BY <2>1, <2>2 DEF PostHook
<1>3. Alone'
    BY <1>1, AloneStays DEF Open
<1>4. ASSUME c \notin blind' PROVE Sees(c)'
    <2>1. Sees(c)
        BY <1>1, <1>4 DEF Sighted
    <2>2. Looked(c)' = Looked(c) /\ (Untouched(c)' <=> Untouched(c))
        BY <1>1 DEF Looked, Untouched, Dirty
    <2> QED BY <1>1, <2>1, <2>2 DEF Sees
<1> QED BY <1>1, <1>2, <1>3, <1>4, HookStep

\* A call that is not blind finds its snapshot, as its first hook stored it.
LEMMA ReadSnapshotStep ==
    ASSUME HInv, TypeOK', NEW c \in Calls, ReadSnapshot(c)
    PROVE  HInv'
<1> USE DEF HInv, TypeOK
<1>1. /\ pc[c] = "read" /\ pc'[c] \in {"compare", "record"}
      /\ tree' = tree /\ head' = head /\ blind' = blind
      /\ run' = run /\ paths' = paths /\ touched' = touched /\ base' = base
      /\ \A u \in Calls \ {c} :
             pc'[u] = pc[u] /\ before'[u] = before[u] /\ todo'[u] = todo[u] /\ due'[u] = due[u]
      /\ \A s \in Sessions \ {SessionOf[c]} : file'[s] = file[s]
    BY DEF ReadSnapshot, Goto, world
<1>2. file[SessionOf[c]] \in Snapshots \cup {None, Torn}
    BY CallsAssumption
<1>3. pc'[c] \in {"compare", "reconcile"} => before'[c] \in Snapshots
    BY <1>2 DEF ReadSnapshot, Goto
<1>4. Alone'
    BY <1>1, AloneStays DEF Open
<1>5. ASSUME c \notin blind' PROVE Sees(c)'
    <2>1. Sees(c)
        BY <1>1, <1>5 DEF Sighted
    <2>2. Looked(c) \in Snapshots
        <3>1. base[c].dirty \in SUBSET Paths /\ base[c].tree \in [Paths -> Contents]
            OBVIOUS
        <3>2. Looked(c) \in [base[c].dirty -> Contents]
            BY <3>1 DEF Looked
        <3> QED BY <3>1, <3>2 DEF Snapshots
    <2>3. file[SessionOf[c]] = Looked(c) /\ Untouched(c)
        BY <1>1, <2>1 DEF Sees
    <2>4. file[SessionOf[c]] \notin {None, Torn}
        BY <2>2, <2>3, SnapshotPaths
    <2>5. /\ pc'[c] = "compare" /\ before'[c] = file[SessionOf[c]]
          /\ file' = file
        BY <2>4 DEF ReadSnapshot, Goto
    <2>6. Looked(c)' = Looked(c) /\ (Untouched(c)' <=> Untouched(c))
        BY <1>1 DEF Looked, Untouched, Dirty
    <2> QED BY <2>3, <2>5, <2>6 DEF Sees
<1>6. pc[c] \in Open
    BY <1>1 DEF Open
<1>7. run'[c] \in Runs
    BY <1>1 DEF RunsResolved
<1> QED BY <1>1, <1>3, <1>4, <1>5, <1>6, <1>7, HookStep

\* What it compares tells every path it owes, and only paths that were touched.
LEMMA Compared ==
    ASSUME HInv, NEW c \in Calls, c \notin blind, pc[c] = "reconcile"
    PROVE  /\ Due(c, paths[c]) \subseteq Differ(before[c], Hashes(paths[c]))
           /\ Differ(before[c], Hashes(paths[c])) \subseteq touched[c]
<1> USE DEF HInv, TypeOK
<1>1. /\ before[c] = Looked(c)
      /\ \A p \in Paths \ touched[c] :
             /\ p \in base[c].dirty <=> p \in paths[c]
             /\ tree[p] = base[c].tree[p]
    BY DEF Sighted, Sees
<1>2. base[c].dirty \subseteq Paths /\ paths[c] \subseteq Paths
    OBVIOUS
<1>3. /\ DOMAIN Looked(c) = base[c].dirty
      /\ \A p \in base[c].dirty : Looked(c)[p] = base[c].tree[p]
      /\ DOMAIN Hashes(paths[c]) = paths[c]
      /\ \A p \in paths[c] : Hashes(paths[c])[p] = tree[p]
    BY DEF Looked, Hashes
<1>4. Differ(before[c], Hashes(paths[c])) =
          {p \in base[c].dirty \cup paths[c] :
              \/ p \notin base[c].dirty \/ p \notin paths[c]
              \/ base[c].tree[p] # tree[p]}
    BY <1>1, <1>3 DEF Differ
<1>5. Due(c, paths[c]) \subseteq Differ(before[c], Hashes(paths[c]))
    BY <1>4 DEF Due
<1>6. Differ(before[c], Hashes(paths[c])) \subseteq touched[c]
    BY <1>1, <1>2, <1>4
<1> QED BY <1>5, <1>6

LEMMA ReconcileStep ==
    ASSUME HInv, TypeOK', NEW c \in Calls, Reconcile(c)
    PROVE  HInv'
<1> USE DEF HInv, TypeOK
<1>1. /\ pc[c] = "reconcile" /\ pc'[c] = "record"
      /\ tree' = tree /\ head' = head /\ blind' = blind
      /\ run' = run /\ paths' = paths /\ before' = before
      /\ touched' = touched /\ base' = base
      /\ \A u \in Calls \ {c} : pc'[u] = pc[u] /\ todo'[u] = todo[u] /\ due'[u] = due[u]
      /\ todo'[c] = DirectOf[c] \cup Differ(before[c], Hashes(paths[c]))
      /\ due'[c] = Due(c, paths[c])
      /\ \A s \in Sessions \ {SessionOf[c]} : file'[s] = file[s]
    BY DEF Reconcile, Goto, world
<1>2. Alone'
    BY <1>1, AloneStays DEF Open
<1>3. ASSUME c \notin blind' PROVE Sees(c)'
    <2>1. /\ Due(c, paths[c]) \subseteq Differ(before[c], Hashes(paths[c]))
          /\ Differ(before[c], Hashes(paths[c])) \subseteq touched[c]
        BY <1>1, <1>3, Compared
    <2>2. /\ due'[c] \subseteq todo'[c]
          /\ todo'[c] \subseteq DirectOf[c] \cup touched'[c]
        BY <1>1, <2>1
    <2> QED BY <1>1, <2>2 DEF Sees
<1>4. pc[c] \in Open
    BY <1>1 DEF Open
<1>5. run'[c] \in Runs
    BY <1>1 DEF RunsResolved
<1> QED BY <1>1, <1>2, <1>3, <1>4, <1>5, HookStep

LEMMA RecordStep ==
    ASSUME HInv, TypeOK', NEW c \in Calls, NEW p \in Paths, Record(c, p)
    PROVE  HInv'
<1> USE DEF HInv, TypeOK
<1>1. /\ pc[c] = "record" /\ pc' = pc
      /\ tree' = tree /\ head' = head /\ file' = file /\ blind' = blind
      /\ run' = run /\ paths' = paths /\ before' = before
      /\ touched' = touched /\ base' = base
      /\ \A u \in Calls \ {c} : todo'[u] = todo[u] /\ due'[u] = due[u]
      /\ todo'[c] = todo[c] \ {p}
      /\ due'[c] = due[c] \ {p}
    BY DEF Record, world
<1>2. Alone'
    BY <1>1, AloneStays DEF Open
<1>3. ASSUME c \notin blind' PROVE Sees(c)'
    <2>1. due[c] \subseteq todo[c] /\ todo[c] \subseteq DirectOf[c] \cup touched[c]
        BY <1>1, <1>3 DEF Sighted, Sees
    <2>2. due'[c] \subseteq todo'[c] /\ todo'[c] \subseteq DirectOf[c] \cup touched'[c]
        BY <1>1, <2>1
    <2> QED BY <1>1, <2>2 DEF Sees
<1>4. run'[c] \in Runs
    BY <1>1 DEF RunsResolved
<1> QED BY <1>1, <1>2, <1>3, <1>4, HookStep

-----------------------------------------------------------------------------
(* The theorems. *)

\* Nobody has looked yet.
LEMMA InitInv == Init => HInv
<1> SUFFICES ASSUME Init PROVE HInv
    OBVIOUS
<1>1. TypeOK
    BY InitType
<1>2. \A c \in Calls : pc[c] = "new"
    BY DEF Init
<1>3. RunsResolved /\ SnapshotsRead /\ Alone
    BY <1>2 DEF RunsResolved, SnapshotsRead, Alone, Open
<1>4. Sighted
    BY <1>2 DEF Sighted, Sees
<1> QED BY <1>1, <1>3, <1>4 DEF HInv

\* Every step keeps the invariant.
LEMMA NextInv == HInv /\ [Next]_vars => HInv'
<1> SUFFICES ASSUME HInv, [Next]_vars PROVE HInv'
    OBVIOUS
<1>0. TypeOK'
    BY TypeStep
<1>1. ASSUME NEW r \in Runs, StartRun(r) \/ CompleteRun(r) PROVE HInv'
    <2>1. UNCHANGED <<world, file, pc, run, paths, before, todo, history>>
        BY <1>1 DEF StartRun, CompleteRun
    <2> QED BY <1>0, <2>1, RunsStep
<1>2. ASSUME NEW p \in Paths, NEW v \in Contents, Write(p, v) PROVE HInv'
    <2>1. Change({p})
        BY <1>2 DEF Write
    <2>2. \A q \in Paths \ {p} : tree'[q] = tree[q] /\ (q \in Dirty' <=> q \in Dirty)
        BY <1>2 DEF Write, Dirty, HInv, TypeOK
    <2> QED BY <1>0, <2>1, <2>2, ChangeStep
<1>3. ASSUME Commit PROVE HInv'
    <2>1. Change(Dirty) /\ Dirty \in SUBSET Paths
        BY <1>3 DEF Commit, Dirty
    <2>2. \A q \in Paths \ Dirty : tree'[q] = tree[q] /\ (q \in Dirty' <=> q \in Dirty)
        BY <1>3 DEF Commit, Dirty
    <2> QED BY <1>0, <2>1, <2>2, ChangeStep
<1>4. ASSUME NEW c \in Calls, Hook(c) PROVE HInv'
    <2>1. ASSUME NEW answers \in BOOLEAN, StatusBefore(c, answers) PROVE HInv'
        <3>1. "capture" \in Open
            BY DEF Open
        <3> QED BY <1>0, <2>1, <3>1, StatusStep DEF StatusBefore
    <2>2. ASSUME NEW answers \in BOOLEAN, StatusAfter(c, answers) PROVE HInv'
        <3>1. "reconcile" \in Open
            BY DEF Open
        <3> QED BY <1>0, <2>2, <3>1, StatusStep DEF StatusAfter
    <2>3. ASSUME PostHookIdle(c) \/ PostHookFails(c) \/ PostHookEnds(c) PROVE HInv'
        BY <1>0, <2>3, ForgetStep DEF PostHookIdle, PostHookFails, PostHookEnds
    <2>4. ASSUME NEW p \in Paths, Record(c, p) PROVE HInv'
        BY <1>0, <2>4, RecordStep
    <2> QED BY <1>0, <1>4, <2>1, <2>2, <2>3, <2>4, PreHookStep, CaptureStep, PreHookFailsStep,
               WaitStep, ReadSnapshotStep, ReconcileStep
            DEF Hook
<1>5. ASSUME NEW c \in Calls, Deny(c) PROVE HInv'
    BY <1>0, <1>5, ForgetStep DEF Deny
<1>6. ASSUME NEW c \in Calls, ToolEnds(c) PROVE HInv'
    BY <1>0, <1>6, WaitStep
<1>7. CASE UNCHANGED vars
    <2>1. UNCHANGED <<world, file, pc, run, paths, before, todo, history>>
        BY <1>7 DEF vars
    <2> QED BY <1>0, <2>1, RunsStep
<1> QED BY <1>1, <1>2, <1>3, <1>4, <1>5, <1>6, <1>7 DEF Next

\* The invariant holds for any calls, sessions, paths, contents, runs and changes.
THEOREM Inductive == Spec => []HInv
BY InitInv, NextInv, PTL DEF Spec

\* Every variable of the hooks keeps its type (integrations/hooks.py).
THEOREM TypeCorrect == Spec => []TypeOK
<1>1. HInv => TypeOK
    BY DEF HInv
<1> QED BY <1>1, Inductive, PTL

\* A second hook that ends owes no path if both hooks of the call could see and no
\* call of its session overlapped it, whatever the other sessions, denied calls,
\* commits and runs do; and it does nothing only without a run in progress.
THEOREM ChangesAreRecorded == Spec => ChangesRecorded
<1>1. HInv /\ [Next]_vars =>
          [\A c \in Calls :
              /\ PostHookEnds(c) /\ c \notin blind => due[c] = {}
              /\ PostHookIdle(c) => InProgress = {}]_vars
    <2> SUFFICES ASSUME HInv, NEW c \in Calls
                 PROVE  /\ PostHookEnds(c) /\ c \notin blind => due[c] = {}
                        /\ PostHookIdle(c) => InProgress = {}
        OBVIOUS
    <2>1. ASSUME PostHookEnds(c), c \notin blind PROVE due[c] = {}
        <3>1. pc[c] = "record" /\ todo[c] = {} /\ Sees(c)
            BY <2>1 DEF PostHookEnds, HInv, Sighted
        <3> QED BY <3>1 DEF Sees
    <2>2. ASSUME PostHookIdle(c) PROVE InProgress = {}
        BY <2>2, ActiveType DEF PostHookIdle, HInv, TypeOK
    <2> QED BY <2>1, <2>2
<1> QED BY <1>1, Inductive, PTL DEF Spec, ChangesRecorded

\* What a second hook records is named in its payload or was changed by somebody
\* since its first hook looked, never what is left of an older snapshot, unless the
\* hooks of the call could not see.
THEOREM NothingIsInvented == Spec => NothingInvented
<1>1. HInv /\ [Next]_vars =>
          [\A c \in Calls, p \in Paths :
              Record(c, p) /\ c \notin blind => p \in DirectOf[c] \cup touched[c]]_vars
    <2> SUFFICES ASSUME HInv, NEW c \in Calls, NEW p \in Paths, Record(c, p), c \notin blind
                 PROVE  p \in DirectOf[c] \cup touched[c]
        OBVIOUS
    <2>1. pc[c] = "record" /\ p \in todo[c] /\ Sees(c)
        BY DEF Record, HInv, Sighted
    <2> QED BY <2>1 DEF Sees
<1> QED BY <1>1, Inductive, PTL DEF Spec, NothingInvented

=============================================================================
