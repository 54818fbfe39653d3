---------------------------- MODULE RunStoreProofs ----------------------------
(***************************************************************************)
(* Proofs about RunStore: its safety properties hold, and it implements     *)
(* AtomicRuns, for any number of threads, processes, runs, calls and        *)
(* crashes, provided two starts never draw the same id at once.             *)
(***************************************************************************)
EXTENDS RunStore, SequenceTheorems, TLAPS

-----------------------------------------------------------------------------
\* The inductive invariant, by subject.

\* A thread past an acquisition holds the lock: the code between the two
\* with-statements runs alone.
LocksHeld ==
    \A t \in Threads :
        /\ pc[t] \in NeedsLock => lock[ServiceOf[t]] = t
        /\ pc[t] \in NeedsFlock => flock = t

Drawing == {"lock", "flock", "load", "commit"}
Placed == {"lock"} \cup NeedsLock

\* Each call is executed by one thread; it is unanswered while it runs, and
\* has failed only when it is on its way out.
ThreadsBusy == \A t \in Threads : pc[t] = "idle" <=> job[t] = None

JobsDistinct ==
    \A t, u \in Threads : job[t] = job[u] /\ job[t] # None => t = u

JobsOpen ==
    \A t \in Threads :
        /\ job[t] # None => status[job[t]] \in {"called", "failed"}
        /\ pc[t] \notin {"idle", "unflock", "unlock", "reply"} =>
               status[job[t]] = "called"

JobsAimed ==
    \A t \in Threads :
        /\ pc[t] \in Placed => target[job[t]] \in RunIds
        /\ pc[t] = "token" => job[t] \in Starts

JobsSound == ThreadsBusy /\ JobsDistinct /\ JobsOpen /\ JobsAimed

\* A run being created has no row yet and no second creator.
StartsFresh ==
    \A t \in Threads : job[t] \in Starts =>
        /\ pc[t] \in Drawing => row[target[job[t]]] = << >>
        /\ pc[t] # "load"

StartsDistinct ==
    \A t, u \in Threads :
        /\ job[t] \in Starts
        /\ job[u] \in Starts
        /\ target[job[t]] = target[job[u]]
        /\ target[job[t]] # None
        => u = t

StartsAlone == StartsFresh /\ StartsDistinct

\* Under the flock, the record in memory is the row plus this call, then the row.
RecordsCurrent ==
    \A t \in Threads :
        /\ pc[t] = "commit" =>
               /\ rec[t] = Append(row[target[job[t]]], job[t])
               /\ job[t] \in Starts <=> row[target[job[t]]] = << >>
        /\ pc[t] \in {"mirror", "marker"} => rec[t] = row[target[job[t]]]
        /\ pc[t] \in {"mirror", "marker"} /\ job[t] \in Starts =>
               row[target[job[t]]] = <<job[t]>>

\* Where the effect of a call can be found: in the run it is about, from its
\* commit on, and nowhere before.
LogsSound ==
    \A r \in RunIds : \A i \in DOMAIN row[r] :
        status[row[r][i]] # "new" /\ target[row[r][i]] = r

EffectsPending ==
    \A t \in Threads : pc[t] \in {"token"} \cup Drawing =>
        \A r \in RunIds : ~Touches(job[t], row[r])

Stored(o) == target[o] \in RunIds /\ Touches(o, row[target[o]])

EffectsDone ==
    /\ \A t \in Threads :
           /\ pc[t] \in {"mirror", "marker", "unflock", "unlock", "reply"}
           /\ status[job[t]] = "called"
           => Stored(job[t])
    /\ \A o \in Ops : status[o] = "ok" => Stored(o)

EffectsPlaced == LogsSound /\ EffectsPending /\ EffectsDone

\* A mirror behind its row waits for a thread, or for ever for one that failed.
MirrorsExplained ==
    \A r \in RunIds :
        /\ IsPrefix(mirror[r], row[r])
        /\ mirror[r] # row[r] =>
               /\ row[r] # << >>
               /\ \/ status[Last(row[r])] = "failed"
                  \/ \E t \in Threads : pc[t] = "mirror" /\ job[t] = Last(row[r])

\* The marker, and the threads that have moved it or are past doing so.
MarkersExplained ==
    /\ MarkerSound
    /\ \A t \in Threads :
           /\ pc[t] \in {"unflock", "unlock", "reply"}
           /\ status[job[t]] = "called"
           /\ job[t] \in Completes
           => marker # target[job[t]]

IInv ==
    /\ TypeOK
    /\ LocksHeld
    /\ JobsSound
    /\ StartsAlone
    /\ Consistent
    /\ RecordsCurrent
    /\ EffectsPlaced
    /\ MirrorsExplained
    /\ MarkersExplained

-----------------------------------------------------------------------------
\* Appending to a log: what it contains, and where it ends.
LEMMA AppendLog ==
    ASSUME NEW S, NEW s \in Seq(S), NEW e \in S
    PROVE  /\ Append(s, e) \in Seq(S)
           /\ Append(s, e) # << >>
           /\ Last(Append(s, e)) = e
           /\ \A i \in DOMAIN Append(s, e) :
                  (i \in DOMAIN s /\ Append(s, e)[i] = s[i]) \/ Append(s, e)[i] = e
           /\ \A o : Touches(o, Append(s, e)) <=> Touches(o, s) \/ o = e
<1>1. /\ Append(s, e) \in Seq(S)
      /\ Len(Append(s, e)) = Len(s) + 1
      /\ Append(s, e)[Len(s) + 1] = e
      /\ \A i \in 1 .. Len(s) : Append(s, e)[i] = s[i]
  OBVIOUS
<1>2. /\ Len(s) \in Nat
      /\ DOMAIN s = 1 .. Len(s)
      /\ DOMAIN Append(s, e) = 1 .. Len(s) + 1
  BY <1>1, LenProperties
<1>3. Append(s, e) # << >>
  <2>1. Append(s, e) \in Seq(S) /\ Len(Append(s, e)) # 0
    BY <1>1, <1>2
  <2>2. Append(s, e) = << >> => Len(Append(s, e)) = 0
    BY EmptySeq
  <2>3. QED
    BY <2>1, <2>2
<1>4. Last(Append(s, e)) = e
  BY <1>1 DEF Last
<1>5. \A i \in DOMAIN Append(s, e) :
          (i \in DOMAIN s /\ Append(s, e)[i] = s[i]) \/ Append(s, e)[i] = e
  BY <1>1, <1>2
<1>6. \A o : Touches(o, Append(s, e)) <=> Touches(o, s) \/ o = e
  BY <1>1, <1>2 DEF Touches
<1>7. QED
  BY <1>1, <1>3, <1>4, <1>5, <1>6

\* A log of one call.
LEMMA SingletonLog ==
    ASSUME NEW S, NEW e \in S
    PROVE  /\ <<e>> \in Seq(S)
           /\ <<e>> = Append(<< >>, e)
           /\ \A o : Touches(o, <<e>>) <=> o = e
           /\ \A o : ~Touches(o, << >>)
<1>1. /\ <<e>> \in Seq(S) /\ Len(<<e>>) = 1 /\ <<e>>[1] = e
      /\ << >> \in Seq(S) /\ Len(<< >>) = 0
  OBVIOUS
<1>2. DOMAIN <<e>> = 1 .. 1 /\ DOMAIN << >> = 1 .. 0
  BY <1>1, LenProperties
<1>3. <<e>> = Append(<< >>, e)
  OBVIOUS
<1>4. (\A o : Touches(o, <<e>>) <=> o = e) /\ (\A o : ~Touches(o, << >>))
  BY <1>1, <1>2 DEF Touches
<1>5. QED
  BY <1>1, <1>3, <1>4

\* Prefixes, pointwise.
LEMMA PrefixPointwise ==
    ASSUME NEW S, NEW s \in Seq(S), NEW t \in Seq(S)
    PROVE  IsPrefix(s, t) <=>
               Len(s) <= Len(t) /\ \A i \in 1 .. Len(s) : s[i] = t[i]
<1>1. /\ Len(s) \in Nat /\ Len(t) \in Nat
      /\ SubSeq(s, 1, Len(s)) = s
  BY LenProperties, SubSeqFull
<1>2. ASSUME Len(s) <= Len(t)
      PROVE  SubSeq(s, 1, Len(s)) = SubSeq(t, 1, Len(s)) <=>
                 \A i \in 1 .. Len(s) : s[i] = t[i]
  <2>1. \A i \in 1 .. Len(s) : t[i] \in S
    BY <1>1, <1>2
  <2>2. /\ SubSeq(t, 1, Len(s)) \in Seq(S)
        /\ Len(SubSeq(t, 1, Len(s))) = Len(s)
        /\ \A i \in 1 .. Len(s) : SubSeq(t, 1, Len(s))[i] = t[i]
    <3>1. /\ SubSeq(t, 1, Len(s)) \in Seq(S)
          /\ Len(SubSeq(t, 1, Len(s))) = IF 1 <= Len(s) THEN Len(s) - 1 + 1 ELSE 0
          /\ \A i \in 1 .. Len(s) - 1 + 1 : SubSeq(t, 1, Len(s))[i] = t[1 + i - 1]
      BY <1>1, <2>1, SubSeqProperties
    <3>2. QED
      BY <3>1, <1>1
  <2>3. (\A i \in 1 .. Len(s) : s[i] = SubSeq(t, 1, Len(s))[i])
            => s = SubSeq(t, 1, Len(s))
    BY <2>2, SeqEqual
  <2>4. QED
    BY <1>1, <2>2, <2>3
<1>3. QED
  BY <1>1, <1>2 DEF IsPrefix

\* A log is a prefix of itself and of the log with one more call.
LEMMA PrefixFacts ==
    ASSUME NEW S, NEW s \in Seq(S), NEW t \in Seq(S)
    PROVE  /\ IsPrefix(<< >>, s)
           /\ IsPrefix(s, s)
           /\ \A e \in S : IsPrefix(s, t) => IsPrefix(s, Append(t, e))
<1>1. IsPrefix(<< >>, s)
  <2>1. << >> \in Seq(S) /\ Len(<< >>) = 0 /\ Len(s) \in Nat
    BY EmptySeq, LenProperties
  <2>2. \A i \in 1 .. Len(<< >>) : << >>[i] = s[i]
    BY <2>1
  <2>3. DEFINE e == << >>
  <2>4. e \in Seq(S) /\ Len(e) <= Len(s) /\ \A i \in 1 .. Len(e) : e[i] = s[i]
    BY <2>1, <2>2
  <2>5. IsPrefix(e, s)
    <3> HIDE DEF e
    <3>1. QED
      BY <2>4, PrefixPointwise
  <2>6. QED
    BY <2>5
<1>2. IsPrefix(s, s)
  BY PrefixPointwise, LenProperties
<1>3. ASSUME NEW e \in S, IsPrefix(s, t)
      PROVE  IsPrefix(s, Append(t, e))
  <2>1. Len(s) <= Len(t) /\ \A i \in 1 .. Len(s) : s[i] = t[i]
    BY <1>3, PrefixPointwise
  <2>2. /\ Append(t, e) \in Seq(S)
        /\ Len(s) <= Len(Append(t, e))
        /\ \A i \in 1 .. Len(s) : s[i] = Append(t, e)[i]
    BY <2>1, LenProperties
  <2>3. QED
    BY <2>2, PrefixPointwise
<1>4. QED
  BY <1>1, <1>2, <1>3

-----------------------------------------------------------------------------
\* What a thread past "token" works with.
LEMMA Working ==
    ASSUME TypeOK, JobsSound, NEW t \in Threads, pc[t] # "idle"
    PROVE  job[t] \in Ops /\ (pc[t] \in Placed => target[job[t]] \in RunIds)
BY DEF TypeOK, JobsSound, ThreadsBusy, JobsDistinct, JobsOpen, JobsAimed

\* Every action keeps every variable in its type.
LEMMA TypeStep ==
    ASSUME TypeOK, JobsSound, [Next]_vars
    PROVE  TypeOK'
<1> USE OpsAssumption, ThreadsAssumption, BoundAssumption, NoneAssumption
<1> USE DEF TypeOK, Labels, NeedsLock, Goto, Raise, db, files
<1>1. ASSUME NEW t \in Threads, NEW o \in Ops, NEW r \in RunIds \cup {None}, Call(t, o, r)
      PROVE  TypeOK'
  BY <1>1 DEF Call
<1>2. ASSUME NEW t \in Threads, Step(t)
      PROVE  TypeOK'
  <2>0. pc[t] # "idle" => job[t] \in Ops /\ (pc[t] \in Placed => target[job[t]] \in RunIds)
    BY Working
  <2>1. ASSUME NEW r \in RunIds, NewRunId(t, r) PROVE TypeOK'
    BY <2>0, <2>1 DEF NewRunId, Placed
  <2>2. ASSUME NoRunId(t) PROVE TypeOK'
    BY <2>0, <2>2 DEF NoRunId, Placed
  <2>3. ASSUME AcquireLock(t) PROVE TypeOK'
    BY <2>0, <2>3 DEF AcquireLock, Placed
  <2>4. ASSUME AcquireFlock(t) PROVE TypeOK'
    <3>1. /\ flock' \in Threads \cup {None}
          /\ pc' \in [Threads -> Labels]
          /\ UNCHANGED <<row, events, mirror, marker, lock, job, target, status, crashes>>
      BY <2>4 DEF AcquireFlock
    <3>2. <<job[t]>> \in Seq(Ops)
      BY <2>0, <2>4, SingletonLog DEF AcquireFlock
    <3>3. rec' \in [Threads -> Seq(Ops)]
      BY <2>4, <3>2 DEF AcquireFlock
    <3>4. QED
      BY <3>1, <3>3
  <2>5. ASSUME Load(t) PROVE TypeOK'
    BY <2>0, <2>5, AppendLog DEF Load, Placed
  <2>6. ASSUME Refuse(t) PROVE TypeOK'
    BY <2>0, <2>6 DEF Refuse, Placed
  <2>7. ASSUME Commit(t) PROVE TypeOK'
    BY <2>0, <2>7, AppendLog DEF Commit, Placed
  <2>8. ASSUME Rollback(t) PROVE TypeOK'
    BY <2>0, <2>8 DEF Rollback, Placed
  <2>9. ASSUME WriteMirror(t) PROVE TypeOK'
    BY <2>0, <2>9 DEF WriteMirror, Placed
  <2>10. ASSUME MirrorFails(t) PROVE TypeOK'
    BY <2>0, <2>10 DEF MirrorFails, Placed
  <2>11. ASSUME MoveMarker(t) PROVE TypeOK'
    BY <2>0, <2>11 DEF MoveMarker, Placed
  <2>12. ASSUME MarkerFails(t) PROVE TypeOK'
    BY <2>0, <2>12 DEF MarkerFails, Torn, Placed
  <2>13. ASSUME ReleaseFlock(t) PROVE TypeOK'
    BY <2>0, <2>13 DEF ReleaseFlock, Placed
  <2>14. ASSUME ReleaseLock(t) PROVE TypeOK'
    BY <2>0, <2>14 DEF ReleaseLock, Placed
  <2>15. ASSUME Reply(t) PROVE TypeOK'
    BY <2>0, <2>15 DEF Reply, Placed
  <2>16. QED
    BY <1>2, <2>1, <2>2, <2>3, <2>4, <2>5, <2>6, <2>7, <2>8, <2>9, <2>10, <2>11, <2>12, <2>13, <2>14, <2>15 DEF Step
<1>3. ASSUME NEW s \in Services, Crash(s)
      PROVE  TypeOK'
  BY <1>3 DEF Crash, Torn
<1>4. CASE UNCHANGED vars
  BY <1>4 DEF vars
<1>5. QED
  BY <1>1, <1>2, <1>3, <1>4 DEF Next, Quiet

-----------------------------------------------------------------------------
\* None is nobody.
LEMMA NoneDistinct == None \notin Ops /\ None \notin RunIds /\ None \notin Threads
BY NoneAssumption

\* What the invariant says of a thread inside a call.
LEMMA AtWork ==
    ASSUME IInv, NEW t \in Threads, pc[t] # "idle"
    PROVE  /\ job[t] \in Ops
           /\ pc[t] \notin {"unflock", "unlock", "reply"} => status[job[t]] = "called"
           /\ pc[t] \in Placed => target[job[t]] \in RunIds
           /\ \A u \in Threads : u # t => job[u] # job[t]
           /\ pc[t] \in NeedsFlock =>
                  flock = t /\ \A u \in Threads : u # t => pc[u] \notin NeedsFlock
<1>1. job[t] # None /\ job[t] \in Ops
  BY DEF IInv, TypeOK, JobsSound, ThreadsBusy
<1>2. \A u \in Threads : u # t => job[u] # job[t]
  BY <1>1 DEF IInv, JobsSound, JobsDistinct
<1>3. pc[t] \notin {"unflock", "unlock", "reply"} => status[job[t]] = "called"
  BY DEF IInv, JobsSound, JobsOpen
<1>4. pc[t] \in Placed => target[job[t]] \in RunIds
  BY DEF IInv, JobsSound, JobsAimed
<1>5. pc[t] \in NeedsFlock =>
          flock = t /\ \A u \in Threads : u # t => pc[u] \notin NeedsFlock
  BY DEF IInv, LocksHeld
<1>6. QED
  BY <1>1, <1>2, <1>3, <1>4, <1>5

\* A client asks: nothing is held, drawn or stored for the call yet.
LEMMA CallStep ==
    ASSUME IInv, TypeOK', NEW t \in Threads, NEW o \in Ops,
           NEW r \in RunIds \cup {None}, Call(t, o, r)
    PROVE  IInv'
<1> USE OpsAssumption, ThreadsAssumption, NoneDistinct
<1> USE DEF NeedsLock, NeedsFlock, Placed, Drawing
<1>0. /\ \A u \in Threads : job[u] # None => job[u] \in Ops
      /\ \A q \in RunIds : row[q] \in Seq(Ops)
  BY DEF IInv, TypeOK
\* The call is new: no thread has it and no run shows it.
<1>1. status[o] = "new" /\ pc[t] = "idle" /\ job[t] = None
  BY DEF IInv, TypeOK, Call, JobsSound, ThreadsBusy
<1>2. ASSUME NEW u \in Threads PROVE job[u] # o
  <2>1. o # None
    OBVIOUS
  <2>2. job[u] # None => status[job[u]] \in {"called", "failed"}
    BY DEF IInv, JobsSound, JobsOpen
  <2>3. QED
    BY <1>1, <2>1, <2>2
<1>3. \A q \in RunIds : ~Touches(o, row[q])
  BY <1>0, <1>1 DEF IInv, EffectsPlaced, LogsSound, Touches
<1>4. /\ UNCHANGED <<row, events, mirror, marker, lock, flock, rec>>
      /\ pc'[t] \in {"token", "lock"}
      /\ pc'[t] = "token" <=> o \in Starts
      /\ pc'[t] = "lock" => r \in RunIds
      /\ o \in Starts => r = None
      /\ job'[t] = o /\ target'[o] = r /\ status'[o] = "called"
      /\ \A u \in Threads : u # t => pc'[u] = pc[u] /\ job'[u] = job[u]
      /\ \A p \in Ops : p # o => target'[p] = target[p] /\ status'[p] = status[p]
  BY DEF IInv, TypeOK, Call, Goto, db, files
<1>50. ASSUME NEW u \in Threads, job[u] # None
       PROVE  target'[job[u]] = target[job[u]] /\ status'[job[u]] = status[job[u]]
  BY <1>0, <1>2, <1>4, <1>50
<1>5. LocksHeld'
  BY <1>1, <1>4 DEF IInv, LocksHeld
<1>6. JobsSound'
  <2>1. ThreadsBusy'
    BY <1>1, <1>4 DEF IInv, JobsSound, ThreadsBusy
  <2>2. ASSUME NEW u \in Threads, NEW v \in Threads, job'[u] = job'[v], job'[u] # None
        PROVE  u = v
    BY <2>2, <1>2, <1>4 DEF IInv, JobsSound, JobsDistinct
  <2>3. ASSUME NEW u \in Threads
        PROVE  /\ job'[u] # None => status'[job'[u]] \in {"called", "failed"}
               /\ pc'[u] \notin {"idle", "unflock", "unlock", "reply"} =>
                      status'[job'[u]] = "called"
               /\ pc'[u] \in Placed => target'[job'[u]] \in RunIds
               /\ pc'[u] = "token" => job'[u] \in Starts
    <3>1. CASE u = t
      BY <3>1, <1>1, <1>4
    <3>2. CASE u # t /\ job[u] = None
      BY <3>2, <1>4 DEF IInv, JobsSound, ThreadsBusy
    <3>3. CASE u # t /\ job[u] # None
      BY <3>3, <1>4, <1>50 DEF IInv, JobsSound, JobsOpen, JobsAimed
    <3>4. QED
      BY <3>1, <3>2, <3>3
  <2>4. JobsOpen' /\ JobsAimed'
    BY <2>3 DEF JobsOpen, JobsAimed
  <2>5. QED
    BY <2>1, <2>2, <2>4 DEF JobsSound, JobsDistinct
<1>7. StartsAlone'
  <2>1. ASSUME NEW u \in Threads, job'[u] \in Starts
        PROVE  /\ pc'[u] \in Drawing => row'[target'[job'[u]]] = << >>
               /\ pc'[u] # "load"
    <3>1. CASE u = t
      BY <2>1, <3>1, <1>4
    <3>2. CASE u # t
      BY <2>1, <3>2, <1>4, <1>50 DEF IInv, StartsAlone, StartsFresh
    <3>3. QED
      BY <3>1, <3>2
  <2>2. ASSUME NEW u \in Threads, NEW v \in Threads,
               job'[u] \in Starts, job'[v] \in Starts,
               target'[job'[u]] = target'[job'[v]], target'[job'[u]] # None
        PROVE  v = u
    <3>1. u # t /\ v # t
      BY <2>2, <1>4
    <3>2. QED
      BY <2>2, <3>1, <1>4, <1>50 DEF IInv, StartsAlone, StartsDistinct
  <2>3. QED
    BY <2>1, <2>2 DEF StartsAlone, StartsFresh, StartsDistinct
<1>8. Consistent'
  BY <1>4 DEF IInv, Consistent
<1>9. RecordsCurrent'
  <2>1. ASSUME NEW u \in Threads
        PROVE  /\ pc'[u] = "commit" =>
                      /\ rec'[u] = Append(row'[target'[job'[u]]], job'[u])
                      /\ job'[u] \in Starts <=> row'[target'[job'[u]]] = << >>
               /\ pc'[u] \in {"mirror", "marker"} => rec'[u] = row'[target'[job'[u]]]
               /\ pc'[u] \in {"mirror", "marker"} /\ job'[u] \in Starts =>
                      row'[target'[job'[u]]] = <<job'[u]>>
    <3>1. CASE u = t
      BY <3>1, <1>4
    <3>2. CASE u # t /\ job[u] = None
      BY <3>2, <1>4 DEF IInv, JobsSound, ThreadsBusy
    <3>3. CASE u # t /\ job[u] # None
      <4>1. /\ pc'[u] = pc[u] /\ job'[u] = job[u] /\ row' = row /\ rec' = rec
            /\ target'[job'[u]] = target[job[u]]
        BY <3>3, <1>4, <1>50
      <4>2. QED
        BY <4>1 DEF IInv, RecordsCurrent
    <3>4. QED
      BY <3>1, <3>2, <3>3
  <2>2. QED
    BY <2>1 DEF RecordsCurrent
<1>10. EffectsPlaced'
  <2>1. \A q \in RunIds : \A i \in DOMAIN row[q] : row[q][i] \in Ops \ {o}
    BY <1>0, <1>3, LenProperties DEF Touches
  <2>2. LogsSound'
    BY <2>1, <1>4 DEF IInv, EffectsPlaced, LogsSound
  <2>3. \A p \in Ops : Stored(p) /\ p # o => Stored(p)'
    BY <1>4 DEF Stored
  <2>4. \A p \in Ops : status'[p] = "ok" => Stored(p)'
    BY <2>3, <1>1, <1>4 DEF IInv, EffectsPlaced, EffectsDone
  <2>5. ASSUME NEW u \in Threads
        PROVE  /\ pc'[u] \in {"token"} \cup Drawing =>
                      \A q \in RunIds : ~Touches(job'[u], row'[q])
               /\ (/\ pc'[u] \in {"mirror", "marker", "unflock", "unlock", "reply"}
                   /\ status'[job'[u]] = "called") => Stored(job[u])' /\ job'[u] = job[u]
    <3>1. CASE u = t
      BY <3>1, <1>1, <1>3, <1>4
    <3>2. CASE u # t /\ job[u] = None
      BY <3>2, <1>4 DEF IInv, JobsSound, ThreadsBusy
    <3>3. CASE u # t /\ job[u] # None
      <4>1. /\ pc'[u] = pc[u] /\ job'[u] = job[u] /\ row' = row
            /\ target'[job'[u]] = target[job[u]]
            /\ status'[job'[u]] = status[job[u]]
        BY <3>3, <1>4, <1>50
      <4>2. QED
        BY <4>1 DEF IInv, EffectsPlaced, EffectsPending, EffectsDone, Stored
    <3>4. QED
      BY <3>1, <3>2, <3>3
  <2>6. EffectsPending'
    BY <2>5 DEF EffectsPending
  <2>7. EffectsDone'
    BY <2>4, <2>5 DEF EffectsDone, Stored
  <2>8. QED
    BY <2>2, <2>6, <2>7 DEF EffectsPlaced
<1>11. MirrorsExplained'
  <2>1. ASSUME NEW q \in RunIds, row[q] # << >>
        PROVE  Last(row[q]) \in Ops \ {o}
    <3>1. row[q] \in Seq(Ops)
      BY <1>0
    <3>2. Len(row[q]) \in Nat \ {0} /\ DOMAIN row[q] = 1 .. Len(row[q])
      BY <2>1, <3>1, EmptySeq, LenProperties
    <3>3. QED
      BY <3>1, <3>2, <1>3 DEF Touches, Last
  <2>2. \A u \in Threads : pc[u] = "mirror" => pc'[u] = "mirror" /\ job'[u] = job[u]
    BY <1>1, <1>4
  <2>3. QED
    BY <2>1, <2>2, <1>4 DEF IInv, MirrorsExplained
<1>12. MarkersExplained'
  <2>1. MarkerSound'
    BY <1>1, <1>4 DEF IInv, MarkersExplained, MarkerSound
  <2>2. ASSUME NEW u \in Threads,
               pc'[u] \in {"unflock", "unlock", "reply"},
               status'[job'[u]] = "called",
               job'[u] \in Completes
        PROVE  marker' # target'[job'[u]]
    <3>1. u # t /\ job[u] # None
      BY <2>2, <1>4
    <3>2. QED
      BY <2>2, <3>1, <1>4, <1>50 DEF IInv, MarkersExplained
  <2>3. QED
    BY <2>1, <2>2 DEF MarkersExplained
<1>13. QED
  BY <1>5, <1>6, <1>7, <1>8, <1>9, <1>10, <1>11, <1>12 DEF IInv

\* An id is drawn: its run has no row and no other creator.
LEMMA NewRunIdStep ==
    ASSUME IInv, TypeOK', NEW t \in Threads, NEW r \in RunIds, NewRunId(t, r), ~TokensCollide
    PROVE  IInv'
<1> USE OpsAssumption, ThreadsAssumption, NoneDistinct
<1> USE DEF NeedsLock, NeedsFlock, Placed, Drawing
<1>0. /\ \A u \in Threads : job[u] # None => job[u] \in Ops
      /\ \A q \in RunIds : row[q] \in Seq(Ops)
  BY DEF IInv, TypeOK
\* The call has no effect yet, and nobody else is creating r.
<1>1. /\ pc[t] = "token" /\ job[t] \in Starts /\ status[job[t]] = "called"
      /\ row[r] = << >>
  BY DEF IInv, TypeOK, NewRunId, JobsSound, JobsOpen, JobsAimed
<1>2. ASSUME NEW u \in Threads, u # t PROVE job[u] # job[t]
  BY <1>1, <1>2 DEF IInv, JobsSound, JobsDistinct
<1>3. \A q \in RunIds : ~Touches(job[t], row[q])
  BY <1>1 DEF IInv, EffectsPlaced, EffectsPending
<1>31. \A u \in Threads : job[u] \in Starts => target[job[u]] # r
  BY DEF IInv, TypeOK, NewRunId, Drawn
<1>4. /\ UNCHANGED <<row, events, mirror, marker, lock, flock, job, rec, status>>
      /\ pc'[t] = "lock" /\ target'[job[t]] = r
      /\ \A u \in Threads : u # t => pc'[u] = pc[u]
      /\ \A p \in Ops : p # job[t] => target'[p] = target[p]
  BY <1>1 DEF IInv, TypeOK, NewRunId, Goto, db, files
<1>50. ASSUME NEW u \in Threads, u # t, job[u] # None
       PROVE  target'[job[u]] = target[job[u]]
  BY <1>0, <1>2, <1>4, <1>50
<1>5. LocksHeld'
  BY <1>1, <1>4 DEF IInv, LocksHeld
<1>6. JobsSound'
  <2>1. ThreadsBusy'
    BY <1>1, <1>4 DEF IInv, JobsSound, ThreadsBusy
  <2>2. ASSUME NEW u \in Threads, NEW v \in Threads, job'[u] = job'[v], job'[u] # None
        PROVE  u = v
    BY <2>2, <1>2, <1>4 DEF IInv, JobsSound, JobsDistinct
  <2>3. ASSUME NEW u \in Threads
        PROVE  /\ job'[u] # None => status'[job'[u]] \in {"called", "failed"}
               /\ pc'[u] \notin {"idle", "unflock", "unlock", "reply"} =>
                      status'[job'[u]] = "called"
               /\ pc'[u] \in Placed => target'[job'[u]] \in RunIds
               /\ pc'[u] = "token" => job'[u] \in Starts
    <3>1. CASE u = t
      BY <3>1, <1>1, <1>4
    <3>2. CASE u # t /\ job[u] = None
      BY <3>2, <1>4 DEF IInv, JobsSound, ThreadsBusy
    <3>3. CASE u # t /\ job[u] # None
      BY <3>3, <1>4, <1>50 DEF IInv, JobsSound, JobsOpen, JobsAimed
    <3>4. QED
      BY <3>1, <3>2, <3>3
  <2>4. JobsOpen' /\ JobsAimed'
    BY <2>3 DEF JobsOpen, JobsAimed
  <2>5. QED
    BY <2>1, <2>2, <2>4 DEF JobsSound, JobsDistinct
<1>7. StartsAlone'
  <2>1. ASSUME NEW u \in Threads, job'[u] \in Starts
        PROVE  /\ pc'[u] \in Drawing => row'[target'[job'[u]]] = << >>
               /\ pc'[u] # "load"
    <3>1. CASE u = t
      BY <2>1, <3>1, <1>1, <1>4
    <3>2. CASE u # t
      BY <2>1, <3>2, <1>4, <1>50 DEF IInv, StartsAlone, StartsFresh
    <3>3. QED
      BY <3>1, <3>2
  <2>2. ASSUME NEW u \in Threads, NEW v \in Threads,
               job'[u] \in Starts, job'[v] \in Starts,
               target'[job'[u]] = target'[job'[v]], target'[job'[u]] # None
        PROVE  v = u
    <3>1. CASE u = t \/ v = t
      BY <2>2, <3>1, <1>31, <1>4, <1>50
    <3>2. CASE u # t /\ v # t
      BY <2>2, <3>2, <1>4, <1>50 DEF IInv, StartsAlone, StartsDistinct
    <3>3. QED
      BY <3>1, <3>2
  <2>3. QED
    BY <2>1, <2>2 DEF StartsAlone, StartsFresh, StartsDistinct
<1>8. Consistent'
  BY <1>4 DEF IInv, Consistent
<1>9. RecordsCurrent'
  <2>1. ASSUME NEW u \in Threads
        PROVE  /\ pc'[u] = "commit" =>
                      /\ rec'[u] = Append(row'[target'[job'[u]]], job'[u])
                      /\ job'[u] \in Starts <=> row'[target'[job'[u]]] = << >>
               /\ pc'[u] \in {"mirror", "marker"} => rec'[u] = row'[target'[job'[u]]]
               /\ pc'[u] \in {"mirror", "marker"} /\ job'[u] \in Starts =>
                      row'[target'[job'[u]]] = <<job'[u]>>
    <3>1. CASE u = t
      BY <3>1, <1>4
    <3>2. CASE u # t /\ job[u] = None
      BY <3>2, <1>4 DEF IInv, JobsSound, ThreadsBusy
    <3>3. CASE u # t /\ job[u] # None
      <4>1. /\ pc'[u] = pc[u] /\ job'[u] = job[u] /\ row' = row /\ rec' = rec
            /\ target'[job'[u]] = target[job[u]]
        BY <3>3, <1>4, <1>50
      <4>2. QED
        BY <4>1 DEF IInv, RecordsCurrent
    <3>4. QED
      BY <3>1, <3>2, <3>3
  <2>2. QED
    BY <2>1 DEF RecordsCurrent
<1>10. EffectsPlaced'
  <2>1. \A q \in RunIds : \A i \in DOMAIN row[q] : row[q][i] \in Ops \ {job[t]}
    BY <1>0, <1>3, LenProperties DEF Touches
  <2>2. LogsSound'
    BY <2>1, <1>4 DEF IInv, EffectsPlaced, LogsSound
  <2>3. \A p \in Ops : Stored(p) /\ p # job[t] => Stored(p)'
    BY <1>4 DEF Stored
  <2>4. \A p \in Ops : status'[p] = "ok" => Stored(p)'
    BY <2>3, <1>1, <1>4 DEF IInv, EffectsPlaced, EffectsDone
  <2>5. ASSUME NEW u \in Threads
        PROVE  /\ pc'[u] \in {"token"} \cup Drawing =>
                      \A q \in RunIds : ~Touches(job'[u], row'[q])
               /\ (/\ pc'[u] \in {"mirror", "marker", "unflock", "unlock", "reply"}
                   /\ status'[job'[u]] = "called") => Stored(job[u])' /\ job'[u] = job[u]
    <3>1. CASE u = t
      BY <3>1, <1>1, <1>3, <1>4
    <3>2. CASE u # t /\ job[u] = None
      BY <3>2, <1>4 DEF IInv, JobsSound, ThreadsBusy
    <3>3. CASE u # t /\ job[u] # None
      <4>1. /\ pc'[u] = pc[u] /\ job'[u] = job[u] /\ row' = row
            /\ target'[job'[u]] = target[job[u]]
            /\ status'[job'[u]] = status[job[u]]
        BY <3>3, <1>4, <1>50
      <4>2. QED
        BY <4>1 DEF IInv, EffectsPlaced, EffectsPending, EffectsDone, Stored
    <3>4. QED
      BY <3>1, <3>2, <3>3
  <2>6. EffectsPending'
    BY <2>5 DEF EffectsPending
  <2>7. EffectsDone'
    BY <2>4, <2>5 DEF EffectsDone, Stored
  <2>8. QED
    BY <2>2, <2>6, <2>7 DEF EffectsPlaced
<1>11. MirrorsExplained'
  BY <1>1, <1>4 DEF IInv, MirrorsExplained
<1>12. MarkersExplained'
  <2>1. MarkerSound'
    BY <1>1, <1>4 DEF IInv, MarkersExplained, MarkerSound
  <2>2. ASSUME NEW u \in Threads,
               pc'[u] \in {"unflock", "unlock", "reply"},
               status'[job'[u]] = "called",
               job'[u] \in Completes
        PROVE  marker' # target'[job'[u]]
    <3>1. u # t /\ job[u] # None
      BY <2>2, <1>4
    <3>2. QED
      BY <2>2, <3>1, <1>4, <1>50 DEF IInv, MarkersExplained
  <2>3. QED
    BY <2>1, <2>2 DEF MarkersExplained
<1>13. QED
  BY <1>5, <1>6, <1>7, <1>8, <1>9, <1>10, <1>11, <1>12 DEF IInv

\* An exception: the thread is on its way out and what it did is unchanged.
LEMMA FailStep ==
    ASSUME IInv, TypeOK', NEW t \in Threads,
           NoRunId(t) \/ Refuse(t) \/ Rollback(t) \/ MirrorFails(t) \/ MarkerFails(t)
    PROVE  IInv'
<1>1. /\ pc[t] \in {"token", "load", "commit", "mirror", "marker"}
      /\ marker' \in {marker, None}
      /\ pc'[t] = IF pc[t] = "token" THEN "reply" ELSE "unflock"
      /\ \A u \in Threads : u # t => pc'[u] = pc[u]
      /\ UNCHANGED <<row, events, mirror, lock, flock, job, target, rec>>
  BY DEF IInv, TypeOK, NoRunId, Refuse, Rollback, MirrorFails, MarkerFails, Torn, Goto, db, files
<1>2. /\ job[t] \in Ops
      /\ \A u \in Threads : u # t => job[u] # job[t]
      /\ status[job[t]] = "called"
  BY <1>1, AtWork
<1>3. /\ status'[job[t]] = "failed"
      /\ \A o \in Ops : o # job[t] => status'[o] = status[o]
  BY <1>2 DEF IInv, TypeOK, NoRunId, Refuse, Rollback, MirrorFails, MarkerFails, Raise
<1>4. \A u \in Threads : u # t /\ job[u] # None => status'[job[u]] = status[job[u]]
  BY <1>2, <1>3 DEF IInv, TypeOK
<1>5. LocksHeld'
  BY <1>1 DEF IInv, LocksHeld, NeedsLock, NeedsFlock
<1>6. JobsSound'
  <2>1. ThreadsBusy' /\ JobsDistinct'
    BY <1>1, <1>2 DEF IInv, JobsSound, ThreadsBusy, JobsDistinct
  <2>2. JobsOpen'
    BY <1>1, <1>3, <1>4 DEF IInv, JobsSound, JobsOpen, ThreadsBusy
  <2>3. JobsAimed'
    BY <1>1 DEF IInv, JobsSound, JobsAimed, Placed, NeedsLock
  <2>4. QED
    BY <2>1, <2>2, <2>3 DEF JobsSound
<1>7. StartsAlone'
  BY <1>1 DEF IInv, StartsAlone, StartsFresh, StartsDistinct, Drawing
<1>8. Consistent' /\ RecordsCurrent'
  BY <1>1 DEF IInv, Consistent, RecordsCurrent
<1>9. EffectsPlaced'
  <2>1. LogsSound'
    <3>1. ASSUME NEW r \in RunIds, NEW i \in DOMAIN row[r]
          PROVE  status'[row[r][i]] # "new" /\ target[row[r][i]] = r
      <4>1. row[r] \in Seq(Ops)
        BY DEF IInv, TypeOK
      <4>2. row[r][i] \in Ops
        BY <3>1, <4>1
      <4>3. QED
        BY <3>1, <4>2, <1>3 DEF IInv, EffectsPlaced, LogsSound
    <3>2. QED
      BY <1>1, <3>1 DEF LogsSound
  <2>2. EffectsPending'
    BY <1>1 DEF IInv, EffectsPlaced, EffectsPending, Drawing
  <2>3. EffectsDone'
    BY <1>1, <1>3, <1>4 DEF IInv, EffectsPlaced, EffectsDone, Stored, JobsSound, ThreadsBusy
  <2>4. QED
    BY <2>1, <2>2, <2>3 DEF EffectsPlaced
<1>10. MirrorsExplained'
  <2>1. ASSUME NEW r \in RunIds, mirror[r] # row[r]
        PROVE  /\ row[r] # << >>
               /\ \/ status'[Last(row[r])] = "failed"
                  \/ \E u \in Threads : pc'[u] = "mirror" /\ job[u] = Last(row[r])
    <3>1. row[r] # << >> /\ row[r] \in Seq(Ops)
      BY <2>1 DEF IInv, TypeOK, MirrorsExplained
    <3>2. Last(row[r]) \in Ops
      BY <3>1 DEF Last
    <3>3. CASE status[Last(row[r])] = "failed"
      BY <3>1, <3>2, <3>3, <1>3
    <3>4. CASE \E u \in Threads : pc[u] = "mirror" /\ job[u] = Last(row[r])
      BY <3>1, <3>4, <1>1, <1>3
    <3>5. QED
      BY <2>1, <3>3, <3>4 DEF IInv, MirrorsExplained
  <2>2. QED
    BY <1>1, <2>1 DEF IInv, MirrorsExplained
<1>11. MarkersExplained'
  <2>1. MarkerSound'
    BY <1>1, <1>3, OpsAssumption DEF IInv, MarkersExplained, MarkerSound
  <2>2. ASSUME NEW u \in Threads, pc'[u] \in {"unflock", "unlock", "reply"},
               status'[job'[u]] = "called", job'[u] \in Completes
        PROVE  marker' # target'[job'[u]]
    <3>1. /\ pc[u] \in {"unflock", "unlock", "reply"}
          /\ status[job[u]] = "called"
          /\ job'[u] = job[u] /\ target' = target
      BY <2>2, <1>1, <1>2, <1>3, <1>4, NoneDistinct, OpsAssumption DEF IInv, JobsSound, ThreadsBusy
    <3>2. marker # target[job[u]]
      BY <2>2, <3>1 DEF IInv, MarkersExplained
    <3>3. target[job[u]] \in RunIds
      BY <3>1 DEF IInv, EffectsPlaced, EffectsDone, Stored
    <3>4. QED
      BY <1>1, <3>1, <3>2, <3>3, NoneDistinct
  <2>3. QED
    BY <2>1, <2>2 DEF MarkersExplained
<1>12. QED
  BY <1>5, <1>6, <1>7, <1>8, <1>9, <1>10, <1>11 DEF IInv

\* The instance's lock is taken.
LEMMA AcquireLockStep ==
    ASSUME IInv, TypeOK', NEW t \in Threads, AcquireLock(t)
    PROVE  IInv'
<1> USE NoneDistinct
<1> USE DEF AcquireLock, Goto, db, files, TypeOK, Labels, NeedsFlock, Placed, Drawing
<1>1. LocksHeld'
  BY DEF IInv, LocksHeld
<1>2. JobsSound'
  BY DEF IInv, JobsSound, ThreadsBusy, JobsDistinct, JobsOpen, JobsAimed
<1>3. StartsAlone'
  BY DEF IInv, StartsAlone, StartsFresh, StartsDistinct
<1>4. Consistent'
  BY DEF IInv, Consistent
<1>5. RecordsCurrent'
  BY DEF IInv, RecordsCurrent, StartsAlone
<1>6. EffectsPlaced'
  BY DEF IInv, EffectsPlaced, LogsSound, EffectsPending, EffectsDone, Stored
<1>7. MirrorsExplained'
  BY DEF IInv, MirrorsExplained
<1>8. MarkersExplained'
  BY DEF IInv, MarkersExplained, MarkerSound
<1>9. QED
  BY <1>1, <1>2, <1>3, <1>4, <1>5, <1>6, <1>7, <1>8 DEF IInv

\* The flock is taken: a start has its record now.
LEMMA AcquireFlockStep ==
    ASSUME IInv, TypeOK', NEW t \in Threads, AcquireFlock(t)
    PROVE  IInv'
<1> USE OpsAssumption, ThreadsAssumption, NoneDistinct
<1> USE DEF NeedsLock, NeedsFlock, Placed, Drawing
<1>00. pc[t] = "flock" /\ flock = None
  BY DEF AcquireFlock
<1>01. /\ pc[t] = "flock" /\ flock = None /\ job[t] \in Ops
       /\ target[job[t]] \in RunIds /\ status[job[t]] = "called"
  BY <1>00, AtWork
<1>02. /\ UNCHANGED <<row, events, mirror, marker, lock, job, target, status>>
       /\ flock' = t
       /\ IF job[t] \in Starts THEN pc'[t] = "commit" /\ rec'[t] = <<job[t]>>
                               ELSE pc'[t] = "load"
       /\ \A u \in Threads : u # t => pc'[u] = pc[u] /\ rec'[u] = rec[u]
  BY DEF IInv, TypeOK, AcquireFlock, Goto, db, files
<1>03. \A u \in Threads : pc[u] \notin NeedsFlock
  BY <1>00 DEF IInv, LocksHeld
<1>1. LocksHeld'
  BY <1>01, <1>02 DEF IInv, LocksHeld
<1>2. JobsSound'
  BY <1>01, <1>02 DEF IInv, JobsSound, ThreadsBusy, JobsDistinct, JobsOpen, JobsAimed
<1>3. StartsAlone'
  BY <1>01, <1>02 DEF IInv, StartsAlone, StartsFresh, StartsDistinct
<1>4. Consistent'
  BY <1>02 DEF IInv, Consistent
<1>5. RecordsCurrent'
  <2>1. \A u \in Threads : pc'[u] \in {"commit", "mirror", "marker"} =>
            u = t /\ job[t] \in Starts /\ pc'[u] = "commit"
    BY <1>02, <1>03
  <2>2. job[t] \in Starts => row[target[job[t]]] = << >>
    BY <1>01 DEF IInv, StartsAlone, StartsFresh
  <2>3. <<job[t]>> = Append(<< >>, job[t])
    BY <1>01, SingletonLog
  <2>4. QED
    BY <1>02, <2>1, <2>2, <2>3 DEF RecordsCurrent
<1>6. EffectsPlaced'
  <2>1. LogsSound' /\ \A o \in Ops : Stored(o) => Stored(o)'
    BY <1>02 DEF IInv, EffectsPlaced, LogsSound, Stored
  <2>2. EffectsPending'
    BY <1>01, <1>02 DEF IInv, EffectsPlaced, EffectsPending
  <2>3. EffectsDone'
    <3>1. \A u \in Threads :
              pc'[u] \in {"mirror", "marker", "unflock", "unlock", "reply"} =>
                  u # t /\ pc'[u] = pc[u]
      BY <1>02
    <3>2. QED
      BY <1>02, <3>1 DEF IInv, EffectsPlaced, EffectsDone, Stored
  <2>4. QED
    BY <2>1, <2>2, <2>3 DEF EffectsPlaced
<1>7. MirrorsExplained'
  BY <1>01, <1>02, <1>03 DEF IInv, MirrorsExplained
<1>8. MarkersExplained'
  BY <1>01, <1>02 DEF IInv, MarkersExplained, MarkerSound
<1>9. QED
  BY <1>1, <1>2, <1>3, <1>4, <1>5, <1>6, <1>7, <1>8 DEF IInv

\* The record is loaded and changed under both locks.
LEMMA LoadStep ==
    ASSUME IInv, TypeOK', NEW t \in Threads, Load(t)
    PROVE  IInv'
<1> USE DEF Load, Goto, db, files, TypeOK, NeedsLock, NeedsFlock, Placed, Drawing
<1>1. LocksHeld'
  BY DEF IInv, LocksHeld
<1>2. JobsSound'
  BY DEF IInv, JobsSound, ThreadsBusy, JobsDistinct, JobsOpen, JobsAimed
<1>3. StartsAlone'
  BY DEF IInv, StartsAlone, StartsFresh, StartsDistinct
<1>4. Consistent'
  BY DEF IInv, Consistent
<1>5. RecordsCurrent'
  BY DEF IInv, RecordsCurrent, LocksHeld, StartsAlone, StartsFresh
<1>6. EffectsPlaced'
  BY DEF IInv, EffectsPlaced, LogsSound, EffectsPending, EffectsDone, Stored
<1>7. MirrorsExplained'
  BY DEF IInv, MirrorsExplained
<1>8. MarkersExplained'
  BY DEF IInv, MarkersExplained, MarkerSound
<1>9. QED
  BY <1>1, <1>2, <1>3, <1>4, <1>5, <1>6, <1>7, <1>8 DEF IInv

\* Row and event are stored: the call has taken effect, in one run, once.
LEMMA CommitStep ==
    ASSUME IInv, TypeOK', NEW t \in Threads, Commit(t)
    PROVE  IInv'
<1> USE OpsAssumption, ThreadsAssumption, NoneDistinct
<1> USE DEF NeedsLock, NeedsFlock, Placed, Drawing
<1> DEFINE o == job[t]
           r == target[o]
<1>00. pc[t] = "commit"
  BY DEF Commit
<1>01. /\ o \in Ops /\ r \in RunIds /\ status[o] = "called"
       /\ row[r] \in Seq(Ops) /\ mirror[r] \in Seq(Ops)
       /\ \A u \in Threads : u # t => job[u] # o /\ pc[u] \notin NeedsFlock
  BY <1>00, AtWork DEF IInv, TypeOK
<1>02. /\ row'[r] = Append(row[r], o)
       /\ rec[t] = row'[r]
       /\ o \in Starts <=> row[r] = << >>
  BY <1>00, <1>01 DEF IInv, TypeOK, RecordsCurrent, Commit
<1>03. /\ \A q \in RunIds : q # r => row'[q] = row[q]
       /\ UNCHANGED <<mirror, marker, lock, flock, job, target, rec, status>>
       /\ pc'[t] = "mirror"
       /\ \A u \in Threads : u # t => pc'[u] = pc[u]
       /\ events' = [events EXCEPT ![r] = Append(@, o)]
       /\ row' = [row EXCEPT ![r] = rec[t]]
  BY DEF IInv, TypeOK, Commit, Goto, files
\* What the new row contains.
<1>04. /\ row'[r] # << >>
       /\ Last(row'[r]) = o
       /\ \A i \in DOMAIN row'[r] : (i \in DOMAIN row[r] /\ row'[r][i] = row[r][i]) \/ row'[r][i] = o
       /\ \A p : Touches(p, row'[r]) <=> Touches(p, row[r]) \/ p = o
  BY <1>01, <1>02, AppendLog
<1> HIDE DEF o, r
<1>1. LocksHeld'
  BY <1>00, <1>03 DEF IInv, LocksHeld
<1>2. JobsSound'
  <2>1. \A u \in Threads : pc'[u] = pc[u] \/ (u = t /\ pc'[u] = "mirror")
    BY <1>03
  <2>2. QED
    BY <1>00, <1>03, <2>1 DEF IInv, JobsSound, ThreadsBusy, JobsDistinct, JobsOpen, JobsAimed
<1>3. StartsAlone'
  <2>1. ASSUME NEW u \in Threads, job'[u] \in Starts
        PROVE  /\ pc'[u] \in Drawing => row'[target'[job'[u]]] = << >>
               /\ pc'[u] # "load"
    <3>1. CASE u = t
      BY <3>1, <1>03
    <3>2. CASE u # t
      <4>1. target[job[u]] = r /\ pc[u] \in Drawing => FALSE
        <5>1. SUFFICES ASSUME target[job[u]] = r, pc[u] \in Drawing PROVE FALSE
          OBVIOUS
        <5>2. row[r] = << >>
          BY <2>1, <5>1, <1>03 DEF IInv, StartsAlone, StartsFresh
        <5>3. o \in Starts
          BY <5>2, <1>02
        <5>4. QED
          BY <2>1, <3>2, <5>1, <5>3, <1>01, <1>03 DEF IInv, StartsAlone, StartsDistinct, o, r
      <4>2. pc[u] \in Drawing => target[job[u]] \in RunIds
        BY DEF IInv, JobsSound, JobsAimed
      <4>3. QED
        BY <2>1, <3>2, <4>1, <4>2, <1>03 DEF IInv, StartsAlone, StartsFresh
    <3>3. QED
      BY <3>1, <3>2
  <2>2. StartsDistinct'
    BY <1>03 DEF IInv, StartsAlone, StartsDistinct
  <2>3. QED
    BY <2>1, <2>2 DEF StartsAlone, StartsFresh
<1>4. Consistent'
  BY <1>01, <1>02, <1>03 DEF IInv, TypeOK, Consistent
<1>5. RecordsCurrent'
  <2>1. \A u \in Threads : pc'[u] \in {"commit", "mirror", "marker"} =>
            u = t /\ pc'[u] = "mirror"
    BY <1>01, <1>03
  <2>2. o \in Starts => row'[r] = <<o>>
    BY <1>01, <1>02, SingletonLog
  <2>3. QED
    BY <1>02, <1>03, <2>1, <2>2 DEF RecordsCurrent, o, r
<1>6. EffectsPlaced'
  <2>1. LogsSound'
    <3>1. ASSUME NEW q \in RunIds, NEW i \in DOMAIN row'[q]
          PROVE  status[row'[q][i]] # "new" /\ target[row'[q][i]] = q
      <4>1. CASE q # r
        BY <4>1, <3>1, <1>03 DEF IInv, EffectsPlaced, LogsSound
      <4>2. CASE q = r
        BY <4>2, <3>1, <1>01, <1>04 DEF IInv, EffectsPlaced, LogsSound, r
      <4>3. QED
        BY <4>1, <4>2
    <3>2. QED
      BY <3>1, <1>03 DEF LogsSound
  <2>2. ASSUME NEW p, Stored(p)
        PROVE  Stored(p)'
    <3>1. target'[p] = target[p] /\ target[p] \in RunIds /\ Touches(p, row[target[p]])
      BY <2>2, <1>03 DEF Stored
    <3>2. Touches(p, row'[target[p]])
      BY <3>1, <1>03, <1>04
    <3>3. QED
      BY <3>1, <3>2 DEF Stored
  <2>3. target'[o] \in RunIds /\ Touches(o, row'[target'[o]])
    BY <1>01, <1>03, <1>04 DEF r
  <2>4. EffectsPending'
    <3>1. ASSUME NEW u \in Threads, pc'[u] \in {"token"} \cup Drawing, NEW q \in RunIds
          PROVE  ~Touches(job'[u], row'[q])
      <4>1. u # t /\ pc[u] \in {"token"} \cup Drawing /\ job'[u] = job[u]
        BY <3>1, <1>03
      <4>2. ~Touches(job[u], row[q]) /\ job[u] # o
        BY <4>1, <1>01 DEF IInv, EffectsPlaced, EffectsPending
      <4>3. QED
        BY <4>1, <4>2, <1>03, <1>04
    <3>2. QED
      BY <3>1 DEF EffectsPending
  <2>5. EffectsDone'
    <3>1. ASSUME NEW u \in Threads,
                 pc'[u] \in {"mirror", "marker", "unflock", "unlock", "reply"},
                 status'[job'[u]] = "called"
          PROVE  Stored(job[u])'
      <4>1. CASE u = t
        <5>1. job'[u] = o
          BY <4>1, <1>03 DEF o
        <5>2. QED
          BY <5>1, <2>3 DEF Stored
      <4>2. CASE u # t
        <5>1. Stored(job[u])
          BY <3>1, <4>2, <1>03 DEF IInv, EffectsPlaced, EffectsDone
        <5>2. Stored(job[u]) => /\ target[job[u]] \in RunIds
                                /\ Touches(job[u], row[target[job[u]]])
          BY DEF Stored
        <5>3. Touches(job[u], row'[target[job[u]]])
          BY <5>1, <5>2, <1>03, <1>04
        <5>4. QED
          BY <5>1, <5>2, <5>3, <1>03 DEF Stored
      <4>3. QED
        BY <4>1, <4>2
    <3>2. ASSUME NEW p \in Ops, status'[p] = "ok"
          PROVE  Stored(p)'
      <4>1. Stored(p)
        BY <3>2, <1>03 DEF IInv, EffectsPlaced, EffectsDone
      <4>2. QED
        BY <4>1, <2>2
    <3>3. QED
      BY <3>1, <3>2, <1>03 DEF EffectsDone, Stored
  <2>6. QED
    BY <2>1, <2>4, <2>5 DEF EffectsPlaced
<1>7. MirrorsExplained'
  <2>1. ASSUME NEW q \in RunIds
        PROVE  /\ IsPrefix(mirror'[q], row'[q])
               /\ mirror'[q] # row'[q] =>
                      /\ row'[q] # << >>
                      /\ \/ status'[Last(row'[q])] = "failed"
                         \/ \E u \in Threads : pc'[u] = "mirror" /\ job'[u] = Last(row'[q])
    <3>1. CASE q = r
      <4>1. IsPrefix(mirror[r], row'[r])
        BY <1>01, <1>02, PrefixFacts DEF IInv, MirrorsExplained
      <4>2. pc'[t] = "mirror" /\ job'[t] = Last(row'[r])
        BY <1>03, <1>04 DEF o
      <4>3. QED
        BY <3>1, <4>1, <4>2, <1>03, <1>04
    <3>2. CASE q # r
      <4>1. ~\E u \in Threads : pc[u] = "mirror"
        BY <1>00, <1>01
      <4>2. QED
        BY <3>2, <4>1, <1>03 DEF IInv, MirrorsExplained
    <3>3. QED
      BY <3>1, <3>2
  <2>2. QED
    BY <2>1 DEF MirrorsExplained
<1>8. MarkersExplained'
  <2>1. MarkerSound'
    <3>1. ASSUME marker # None
          PROVE  /\ row'[marker] # << >>
                 /\ \A p \in Completes : status[p] = "ok" => ~Touches(p, row'[marker])
      <4>1. /\ marker \in RunIds
            /\ row[marker] # << >>
            /\ \A p \in Completes : status[p] = "ok" => ~Touches(p, row[marker])
        BY <3>1 DEF IInv, TypeOK, MarkersExplained, MarkerSound
      <4>2. QED
        BY <4>1, <1>01, <1>03, <1>04
    <3>2. QED
      BY <3>1, <1>03 DEF MarkerSound
  <2>2. QED
    BY <2>1, <1>03 DEF IInv, MarkersExplained
<1>9. QED
  BY <1>1, <1>2, <1>3, <1>4, <1>5, <1>6, <1>7, <1>8 DEF IInv

\* The mirror is renamed into place.
LEMMA WriteMirrorStep ==
    ASSUME IInv, TypeOK', NEW t \in Threads, WriteMirror(t)
    PROVE  IInv'
<1> USE DEF WriteMirror, Goto, db, TypeOK, NeedsLock, NeedsFlock, Drawing
<1>1. LocksHeld'
  BY DEF IInv, LocksHeld
<1>2. JobsSound'
  BY DEF IInv, JobsSound, ThreadsBusy, JobsDistinct, JobsOpen, JobsAimed
<1>3. StartsAlone'
  BY DEF IInv, StartsAlone, StartsFresh, StartsDistinct
<1>4. Consistent'
  BY DEF IInv, Consistent
<1>5. RecordsCurrent'
  BY DEF IInv, RecordsCurrent, LocksHeld
<1>6. EffectsPlaced'
  BY DEF IInv, EffectsPlaced, LogsSound, EffectsPending, EffectsDone, Stored
\* The record in memory is the row; the other mirrors have no writer on its way.
<1>7. MirrorsExplained'
  <2>1. /\ pc[t] = "mirror" /\ target[job[t]] \in RunIds
        /\ rec[t] = row[target[job[t]]]
        /\ \A u \in Threads : u # t => pc[u] # "mirror"
    BY AtWork DEF IInv, RecordsCurrent
  <2>2. \A q \in RunIds : IsPrefix(mirror'[q], row'[q]) /\
            (mirror'[q] # row'[q] => mirror'[q] = mirror[q] /\ q # target[job[t]])
    BY <2>1, PrefixFacts DEF IInv, MirrorsExplained
  <2>3. ASSUME NEW q \in RunIds, mirror'[q] # row'[q]
        PROVE  row'[q] # << >> /\ status'[Last(row'[q])] = "failed"
    <3>1. /\ mirror[q] # row[q] /\ q # target[job[t]]
          /\ row'[q] = row[q] /\ status' = status
      BY <2>2, <2>3
    <3>2. row[q] # << >> /\ (status[Last(row[q])] = "failed" \/ job[t] = Last(row[q]))
      BY <2>1, <3>1 DEF IInv, MirrorsExplained
    <3>3. job[t] # Last(row[q])
      <4>1. Last(row[q]) = row[q][Len(row[q])] /\ Len(row[q]) \in DOMAIN row[q]
        BY <3>2 DEF Last
      <4>2. target[Last(row[q])] = q
        BY <4>1 DEF IInv, EffectsPlaced, LogsSound
      <4>3. QED
        BY <4>2, <3>1
    <3>4. QED
      BY <3>1, <3>2, <3>3
  <2>4. QED
    BY <2>2, <2>3 DEF MirrorsExplained
<1>8. MarkersExplained'
  BY DEF IInv, MarkersExplained, JobsSound, ThreadsBusy, JobsDistinct, JobsOpen, JobsAimed, RecordsCurrent, EffectsPlaced, LogsSound, EffectsPending, EffectsDone, Stored, MarkerSound
<1>9. QED
  BY <1>1, <1>2, <1>3, <1>4, <1>5, <1>6, <1>7, <1>8 DEF IInv

\* A start moves the marker to its run, a completion away from its run.
LEMMA MoveMarkerStep ==
    ASSUME IInv, TypeOK', NEW t \in Threads, MoveMarker(t)
    PROVE  IInv'
<1> USE OpsAssumption, NoneDistinct
<1> USE DEF MoveMarker, Goto, db, TypeOK, NeedsLock, NeedsFlock, Placed, Drawing
<1>1. LocksHeld'
  BY DEF IInv, LocksHeld
<1>2. JobsSound'
  BY DEF IInv, JobsSound, ThreadsBusy, JobsDistinct, JobsOpen, JobsAimed
<1>3. StartsAlone'
  BY DEF IInv, StartsAlone, StartsFresh, StartsDistinct
<1>4. Consistent'
  BY DEF IInv, Consistent
<1>5. RecordsCurrent'
  BY DEF IInv, RecordsCurrent, LocksHeld
<1>6. EffectsPlaced'
  BY DEF IInv, EffectsPlaced, LogsSound, EffectsPending, EffectsDone, Stored
<1>7. MirrorsExplained'
  BY DEF IInv, MirrorsExplained
<1>8. MarkersExplained'
  <2>01. pc[t] = "marker"
    OBVIOUS
  <2>02. /\ UNCHANGED <<row, job, target, status>>
         /\ pc'[t] = "unflock" /\ \A u \in Threads : u # t => pc'[u] = pc[u]
    BY DEF IInv
  <2>03. /\ job[t] \in Ops /\ target[job[t]] \in RunIds
         /\ status[job[t]] = "called"
         /\ \A u \in Threads : u # t => job[u] # job[t]
    BY <2>01, AtWork
  <2>0. /\ pc[t] = "marker" /\ job[t] \in Ops /\ target[job[t]] \in RunIds
        /\ status[job[t]] = "called"
        /\ \A u \in Threads : u # t => job[u] # job[t]
        /\ UNCHANGED <<row, job, target, status>>
        /\ pc'[t] = "unflock" /\ \A u \in Threads : u # t => pc'[u] = pc[u]
    BY <2>01, <2>02, <2>03
  \* A start: its run holds nothing but itself, so no completion reached it.
  <2>1. CASE job[t] \in Starts
    <3>1. marker' = target[job[t]] /\ row[marker'] = <<job[t]>>
      BY <2>0, <2>1 DEF IInv, RecordsCurrent
    <3>2. \A o : Touches(o, <<job[t]>>) => o = job[t]
      BY <2>03, SingletonLog
    <3>3. row[marker'] # << >>
      <4>1. <<job[t]>> # << >>
        BY <2>03, SingletonLog, AppendLog, EmptySeq
      <4>2. QED
        BY <3>1, <4>1
    <3>4. \A o \in Completes : ~Touches(o, row[marker'])
      <4>1. ASSUME NEW o \in Completes PROVE o # job[t]
        BY <2>1
      <4>2. \A o \in Completes : ~Touches(o, <<job[t]>>)
        BY <3>2, <4>1
      <4>3. row[marker'] = <<job[t]>>
        BY <3>1
      <4>4. QED
        BY <4>2, <4>3 DEF Touches
    <3>5. MarkerSound'
      BY <2>0, <3>3, <3>4 DEF MarkerSound
    <3>6. ASSUME NEW u \in Threads, pc'[u] \in {"unflock", "unlock", "reply"},
                 status'[job'[u]] = "called", job'[u] \in Completes
          PROVE  marker' # target'[job'[u]]
      <4>1. u # t /\ job[u] \in Completes /\ pc[u] \in {"unflock", "unlock", "reply"}
            /\ status[job[u]] = "called"
        BY <2>0, <2>1, <3>6
      <4>2. Stored(job[u])
        BY <4>1 DEF IInv, EffectsPlaced, EffectsDone
      <4>3. QED
        BY <4>1, <4>2, <3>4, <2>0 DEF Stored
    <3>7. QED
      BY <3>5, <3>6 DEF MarkersExplained
  \* A completion: the marker names another run or none.
  <2>2. CASE job[t] \notin Starts
    <3>1. /\ marker' # target[job[t]]
          /\ marker' \in {marker, None}
      BY <2>0, <2>2
    <3>2. MarkerSound'
      BY <2>0, <3>1 DEF IInv, MarkersExplained, MarkerSound
    <3>3. ASSUME NEW u \in Threads, pc'[u] \in {"unflock", "unlock", "reply"},
                 status'[job'[u]] = "called", job'[u] \in Completes
          PROVE  marker' # target'[job'[u]]
      <4>1. CASE u = t
        BY <2>0, <3>1, <4>1
      <4>2. CASE u # t
        <5>1. marker # target[job[u]] /\ target[job[u]] \in RunIds
          BY <2>0, <3>3, <4>2 DEF IInv, MarkersExplained, EffectsPlaced, EffectsDone, Stored
        <5>2. QED
          BY <2>0, <3>1, <5>1
      <4>3. QED
        BY <4>1, <4>2
    <3>4. QED
      BY <3>2, <3>3 DEF MarkersExplained
  <2>3. QED
    BY <2>1, <2>2
<1>9. QED
  BY <1>1, <1>2, <1>3, <1>4, <1>5, <1>6, <1>7, <1>8 DEF IInv

\* The flock is let go.
LEMMA ReleaseFlockStep ==
    ASSUME IInv, TypeOK', NEW t \in Threads, ReleaseFlock(t)
    PROVE  IInv'
<1> USE DEF ReleaseFlock, Goto, db, files, TypeOK, NeedsLock, NeedsFlock, Placed, Drawing
<1>1. LocksHeld'
  BY DEF IInv, LocksHeld
<1>2. JobsSound'
  BY DEF IInv, JobsSound, ThreadsBusy, JobsDistinct, JobsOpen, JobsAimed
<1>3. StartsAlone'
  BY DEF IInv, StartsAlone, StartsFresh, StartsDistinct
<1>4. Consistent'
  BY DEF IInv, Consistent
<1>5. RecordsCurrent'
  BY DEF IInv, RecordsCurrent
<1>6. EffectsPlaced'
  BY DEF IInv, EffectsPlaced, LogsSound, EffectsPending, EffectsDone, Stored
<1>7. MirrorsExplained'
  BY DEF IInv, MirrorsExplained
<1>8. MarkersExplained'
  BY DEF IInv, MarkersExplained, MarkerSound
<1>9. QED
  BY <1>1, <1>2, <1>3, <1>4, <1>5, <1>6, <1>7, <1>8 DEF IInv

\* The instance's lock is let go.
LEMMA ReleaseLockStep ==
    ASSUME IInv, TypeOK', NEW t \in Threads, ReleaseLock(t)
    PROVE  IInv'
<1> USE DEF ReleaseLock, Goto, db, files, TypeOK, NeedsLock, NeedsFlock, Placed, Drawing
<1>1. LocksHeld'
  BY DEF IInv, LocksHeld
<1>2. JobsSound'
  BY DEF IInv, JobsSound, ThreadsBusy, JobsDistinct, JobsOpen, JobsAimed
<1>3. StartsAlone'
  BY DEF IInv, StartsAlone, StartsFresh, StartsDistinct
<1>4. Consistent'
  BY DEF IInv, Consistent
<1>5. RecordsCurrent'
  BY DEF IInv, RecordsCurrent
<1>6. EffectsPlaced'
  BY DEF IInv, EffectsPlaced, LogsSound, EffectsPending, EffectsDone, Stored
<1>7. MirrorsExplained'
  BY DEF IInv, MirrorsExplained
<1>8. MarkersExplained'
  BY DEF IInv, MarkersExplained, MarkerSound
<1>9. QED
  BY <1>1, <1>2, <1>3, <1>4, <1>5, <1>6, <1>7, <1>8 DEF IInv

\* The caller is answered.
LEMMA ReplyStep ==
    ASSUME IInv, TypeOK', NEW t \in Threads, Reply(t)
    PROVE  IInv'
<1> USE OpsAssumption, NoneDistinct
<1> USE DEF Reply, Goto, db, files, TypeOK, NeedsLock, NeedsFlock, Placed, Drawing
<1>1. LocksHeld'
  BY DEF IInv, LocksHeld
<1>2. JobsSound'
  BY DEF IInv, JobsSound, ThreadsBusy, JobsDistinct, JobsOpen, JobsAimed
<1>3. StartsAlone'
  BY DEF IInv, StartsAlone, StartsFresh, StartsDistinct
<1>4. Consistent'
  BY DEF IInv, Consistent
<1>5. RecordsCurrent'
  BY DEF IInv, RecordsCurrent
<1>6. EffectsPlaced'
  BY DEF IInv, EffectsPlaced, LogsSound, EffectsPending, EffectsDone, Stored
<1>7. MirrorsExplained'
  BY DEF IInv, MirrorsExplained
<1>8. MarkersExplained'
  <2>01. pc[t] = "reply"
    OBVIOUS
  <2>02. job[t] \in Ops /\ \A u \in Threads : u # t => job[u] # job[t]
    BY <2>01, AtWork
  <2>0. /\ pc[t] = "reply" /\ job[t] \in Ops
        /\ \A u \in Threads : u # t => job[u] # job[t]
        /\ UNCHANGED <<row, marker, target>>
        /\ pc'[t] = "idle" /\ \A u \in Threads : u # t => pc'[u] = pc[u] /\ job'[u] = job[u]
        /\ \A o \in Ops : o # job[t] => status'[o] = status[o]
        /\ status'[job[t]] = IF status[job[t]] = "called" THEN "ok" ELSE status[job[t]]
    BY <2>01, <2>02 DEF IInv
  <2>1. MarkerSound'
    <3>1. ASSUME marker # None, NEW o \in Completes, status'[o] = "ok"
          PROVE  ~Touches(o, row[marker])
      <4>1. CASE status[o] = "ok"
        BY <3>1, <4>1 DEF IInv, MarkersExplained, MarkerSound
      <4>2. CASE status[o] # "ok"
        <5>1. o = job[t] /\ status[o] = "called"
          BY <2>0, <3>1, <4>2
        <5>2. marker # target[o]
          BY <2>0, <3>1, <5>1 DEF IInv, MarkersExplained
        <5>3. Touches(o, row[marker]) => target[o] = marker
          BY <3>1 DEF IInv, EffectsPlaced, LogsSound, Touches
        <5>4. QED
          BY <5>2, <5>3
      <4>3. QED
        BY <4>1, <4>2
    <3>2. QED
      BY <2>0, <3>1 DEF IInv, MarkersExplained, MarkerSound
  <2>2. ASSUME NEW u \in Threads, pc'[u] \in {"unflock", "unlock", "reply"},
               status'[job'[u]] = "called", job'[u] \in Completes
        PROVE  marker' # target'[job'[u]]
    <3>1. u # t /\ job'[u] = job[u] /\ pc'[u] = pc[u] /\ job[u] # job[t]
      BY <2>0, <2>2
    <3>2. status[job[u]] = "called"
      BY <2>0, <2>2, <3>1
    <3>3. QED
      BY <2>0, <2>2, <3>1, <3>2 DEF IInv, MarkersExplained
  <2>3. QED
    BY <2>1, <2>2 DEF MarkersExplained
<1>9. QED
  BY <1>1, <1>2, <1>3, <1>4, <1>5, <1>6, <1>7, <1>8 DEF IInv

\* A death takes threads, locks and records of one process; what it leaves of
\* their calls is "failed".
LEMMA CrashStep ==
    ASSUME IInv, TypeOK', NEW s \in Services, Crash(s)
    PROVE  IInv'
<1> USE OpsAssumption, ThreadsAssumption, NoneDistinct
<1> USE DEF NeedsLock, NeedsFlock, Placed, Drawing
<1>1. /\ UNCHANGED <<row, events, mirror, target>>
      /\ marker' \in {marker, None}
      /\ \A u \in Threads : ServiceOf[u] = s => pc'[u] = "idle" /\ job'[u] = None
      /\ \A u \in Threads : ServiceOf[u] # s =>
             /\ pc'[u] = pc[u] /\ job'[u] = job[u] /\ rec'[u] = rec[u]
             /\ lock'[ServiceOf[u]] = lock[ServiceOf[u]]
             /\ flock = u => flock' = u
      /\ \A o \in Ops : status'[o] = IF \E u \in Threads : ServiceOf[u] = s /\ job[u] = o
                                    THEN "failed" ELSE status[o]
  BY DEF IInv, TypeOK, Crash, Torn, db
<1>2. /\ \A o \in Ops : status'[o] \in {"failed", status[o]}
      /\ \A u \in Threads : job[u] # None =>
             /\ job[u] \in Ops
             /\ ServiceOf[u] = s => status'[job[u]] = "failed"
             /\ ServiceOf[u] # s => status'[job[u]] = status[job[u]]
  BY <1>1 DEF IInv, TypeOK, JobsSound, JobsDistinct
<1>3. LocksHeld'
  BY <1>1 DEF IInv, LocksHeld
<1>4. JobsSound'
  <2>1. ThreadsBusy'
    BY <1>1 DEF IInv, JobsSound, ThreadsBusy
  <2>2. JobsDistinct'
    BY <1>1 DEF IInv, JobsSound, JobsDistinct
  <2>3. JobsOpen'
    BY <1>1, <1>2 DEF IInv, JobsSound, JobsOpen, ThreadsBusy
  <2>4. JobsAimed'
    BY <1>1 DEF IInv, JobsSound, JobsAimed
  <2>5. QED
    BY <2>1, <2>2, <2>3, <2>4 DEF JobsSound
<1>5. StartsAlone'
  BY <1>1 DEF IInv, StartsAlone, StartsFresh, StartsDistinct
<1>6. Consistent'
  BY <1>1 DEF IInv, Consistent
<1>7. RecordsCurrent'
  <2>1. ASSUME NEW u \in Threads, pc'[u] \in {"commit", "mirror", "marker"}
        PROVE  pc'[u] = pc[u] /\ job'[u] = job[u] /\ rec'[u] = rec[u]
    BY <1>1, <2>1
  <2>2. \A u \in Threads :
            /\ pc'[u] = "commit" =>
                   /\ rec'[u] = Append(row[target[job'[u]]], job'[u])
                   /\ job'[u] \in Starts <=> row[target[job'[u]]] = << >>
            /\ pc'[u] \in {"mirror", "marker"} => rec'[u] = row[target[job'[u]]]
            /\ pc'[u] \in {"mirror", "marker"} /\ job'[u] \in Starts =>
                   row[target[job'[u]]] = <<job'[u]>>
    BY <2>1 DEF IInv, RecordsCurrent
  <2>3. QED
    BY <1>1, <2>2 DEF RecordsCurrent
<1>8. EffectsPlaced'
  <2>1. LogsSound'
    <3>1. ASSUME NEW r \in RunIds, NEW i \in DOMAIN row[r]
          PROVE  status'[row[r][i]] # "new" /\ target[row[r][i]] = r
      <4>1. row[r] \in Seq(Ops)
        BY DEF IInv, TypeOK
      <4>2. row[r][i] \in Ops
        BY <3>1, <4>1
      <4>3. QED
        BY <3>1, <4>2, <1>2 DEF IInv, EffectsPlaced, LogsSound
    <3>2. QED
      BY <1>1, <3>1 DEF LogsSound
  <2>2. EffectsPending'
    BY <1>1 DEF IInv, EffectsPlaced, EffectsPending
  <2>3. EffectsDone'
    <3>1. \A o \in Ops : status'[o] = "ok" => Stored(o)
      BY <1>2 DEF IInv, EffectsPlaced, EffectsDone
    <3>2. \A u \in Threads :
              /\ pc'[u] \in {"mirror", "marker", "unflock", "unlock", "reply"}
              /\ status'[job'[u]] = "called"
              => Stored(job'[u])
      BY <1>1, <1>2 DEF IInv, EffectsPlaced, EffectsDone, JobsSound, ThreadsBusy
    <3>3. QED
      BY <1>1, <3>1, <3>2 DEF EffectsDone, Stored
  <2>4. QED
    BY <2>1, <2>2, <2>3 DEF EffectsPlaced
<1>9. MirrorsExplained'
  <2>1. ASSUME NEW r \in RunIds, mirror[r] # row[r]
        PROVE  /\ row[r] # << >>
               /\ \/ status'[Last(row[r])] = "failed"
                  \/ \E u \in Threads : pc'[u] = "mirror" /\ job'[u] = Last(row[r])
    <3>1. row[r] # << >> /\ row[r] \in Seq(Ops)
      BY <2>1 DEF IInv, TypeOK, MirrorsExplained
    <3>2. Last(row[r]) \in Ops
      BY <3>1 DEF Last
    <3>3. CASE status[Last(row[r])] = "failed"
      BY <3>1, <3>2, <3>3, <1>2
    <3>4. CASE \E u \in Threads : pc[u] = "mirror" /\ job[u] = Last(row[r])
      BY <3>1, <3>2, <3>4, <1>1, <1>2
    <3>5. QED
      BY <2>1, <3>3, <3>4 DEF IInv, MirrorsExplained
  <2>2. QED
    BY <1>1, <2>1 DEF IInv, MirrorsExplained
<1>10. MarkersExplained'
  <2>1. MarkerSound'
    BY <1>1, <1>2 DEF IInv, MarkersExplained, MarkerSound
  <2>2. ASSUME NEW u \in Threads, pc'[u] \in {"unflock", "unlock", "reply"},
               status'[job'[u]] = "called", job'[u] \in Completes
        PROVE  marker' # target'[job'[u]]
    <3>1. /\ pc[u] \in {"unflock", "unlock", "reply"}
          /\ status[job[u]] = "called"
          /\ job'[u] = job[u] /\ target' = target
      BY <2>2, <1>1, <1>2, NoneDistinct, OpsAssumption DEF IInv, JobsSound, ThreadsBusy
    <3>2. marker # target[job[u]]
      BY <2>2, <3>1 DEF IInv, MarkersExplained
    <3>3. target[job[u]] \in RunIds
      BY <3>1 DEF IInv, EffectsPlaced, EffectsDone, Stored
    <3>4. QED
      BY <1>1, <3>1, <3>2, <3>3, NoneDistinct
  <2>3. QED
    BY <2>1, <2>2 DEF MarkersExplained
<1>11. QED
  BY <1>3, <1>4, <1>5, <1>6, <1>7, <1>8, <1>9, <1>10 DEF IInv

\* Everything IInv speaks of is a variable.
LEMMA StutterStep == ASSUME IInv, UNCHANGED vars PROVE IInv'
<1> USE DEF vars
<1>1. TypeOK' /\ LocksHeld' /\ Consistent' /\ RecordsCurrent'
  BY DEF IInv, TypeOK, LocksHeld, Consistent, RecordsCurrent
<1>2. JobsSound' /\ StartsAlone'
  BY DEF IInv, JobsSound, ThreadsBusy, JobsDistinct, JobsOpen, JobsAimed,
         StartsAlone, StartsFresh, StartsDistinct
<1>3. EffectsPlaced'
  BY DEF IInv, EffectsPlaced, LogsSound, EffectsPending, EffectsDone, Stored
<1>4. MirrorsExplained' /\ MarkersExplained'
  BY DEF IInv, MirrorsExplained, MarkersExplained, MarkerSound
<1>5. QED
  BY <1>1, <1>2, <1>3, <1>4 DEF IInv

-----------------------------------------------------------------------------
\* The invariant holds of an empty repository.
LEMMA InitInv == Init => IInv
<1> SUFFICES ASSUME Init PROVE IInv
  OBVIOUS
<1> USE OpsAssumption, ThreadsAssumption, NoneDistinct
<1>1. \A o : ~Touches(o, << >>)
  <2>1. DOMAIN << >> = 1 .. 0
    BY LenProperties, EmptySeq
  <2>2. QED
    BY <2>1 DEF Touches
<1>2. TypeOK
  BY EmptySeq DEF Init, TypeOK, Labels
<1>3. LocksHeld /\ JobsSound /\ StartsAlone /\ Consistent /\ RecordsCurrent
  BY DEF Init, LocksHeld, NeedsLock, NeedsFlock, JobsSound, ThreadsBusy, JobsDistinct,
         JobsOpen, JobsAimed, Placed, StartsAlone, StartsFresh, StartsDistinct, Drawing,
         Consistent, RecordsCurrent
<1>4. EffectsPlaced
  <2>1. LogsSound
    <3>1. DOMAIN << >> = 1 .. 0
      BY LenProperties, EmptySeq
    <3>2. QED
      BY <3>1 DEF Init, LogsSound
  <2>2. QED
    BY <1>1, <2>1 DEF Init, EffectsPlaced, EffectsPending, EffectsDone, Drawing
<1>5. MirrorsExplained
  <2>1. IsPrefix(<< >>, << >>)
    BY PrefixFacts, EmptySeq
  <2>2. QED
    BY <2>1 DEF Init, MirrorsExplained
<1>6. MarkersExplained
  BY DEF Init, MarkersExplained, MarkerSound
<1>7. QED
  BY <1>2, <1>3, <1>4, <1>5, <1>6 DEF IInv

\* Every step of the system preserves the invariant.
LEMMA NextInv == ASSUME ~TokensCollide, IInv, [Next]_vars PROVE IInv'
<1>1. TypeOK'
  BY TypeStep DEF IInv
<1>2. ASSUME NEW t \in Threads, NEW o \in Ops, NEW r \in RunIds \cup {None}, Call(t, o, r)
      PROVE  IInv'
  BY <1>1, <1>2, CallStep
<1>3. ASSUME NEW t \in Threads, Step(t)
      PROVE  IInv'
  <2>1. ASSUME NEW r \in RunIds, NewRunId(t, r) PROVE IInv'
    BY <1>1, <2>1, NewRunIdStep
  <2>2. CASE NoRunId(t)
    BY <1>1, <2>2, FailStep
  <2>3. CASE AcquireLock(t)
    BY <1>1, <2>3, AcquireLockStep
  <2>4. CASE AcquireFlock(t)
    BY <1>1, <2>4, AcquireFlockStep
  <2>5. CASE Load(t)
    BY <1>1, <2>5, LoadStep
  <2>6. CASE Refuse(t)
    BY <1>1, <2>6, FailStep
  <2>7. CASE Commit(t)
    BY <1>1, <2>7, CommitStep
  <2>8. CASE Rollback(t)
    BY <1>1, <2>8, FailStep
  <2>9. CASE WriteMirror(t)
    BY <1>1, <2>9, WriteMirrorStep
  <2>10. CASE MirrorFails(t)
    BY <1>1, <2>10, FailStep
  <2>11. CASE MoveMarker(t)
    BY <1>1, <2>11, MoveMarkerStep
  <2>12. CASE MarkerFails(t)
    BY <1>1, <2>12, FailStep
  <2>13. CASE ReleaseFlock(t)
    BY <1>1, <2>13, ReleaseFlockStep
  <2>14. CASE ReleaseLock(t)
    BY <1>1, <2>14, ReleaseLockStep
  <2>15. CASE Reply(t)
    BY <1>1, <2>15, ReplyStep
  <2>16. QED
    BY <1>3, <2>1, <2>2, <2>3, <2>4, <2>5, <2>6, <2>7, <2>8, <2>9, <2>10,
       <2>11, <2>12, <2>13, <2>14, <2>15 DEF Step
<1>4. ASSUME NEW s \in Services, Crash(s)
      PROVE  IInv'
  BY <1>1, <1>4, CrashStep
<1>5. CASE UNCHANGED vars
  BY <1>5, StutterStep
<1>6. QED
  BY <1>2, <1>3, <1>4, <1>5 DEF Next, Quiet

\* In every state the program reaches, the locks, the calls under way and the
\* stored data agree as IInv says.
THEOREM Inductive == ASSUME ~TokensCollide PROVE Spec => []IInv
<1>1. IInv /\ [Next]_vars => IInv'
  BY NextInv
<1>2. QED
  BY InitInv, <1>1, PTL DEF Spec

\* Every variable keeps its type.
THEOREM TypeCorrect == ASSUME ~TokensCollide PROVE Spec => []TypeOK
<1>1. IInv => TypeOK
  BY DEF IInv
<1>2. QED
  BY <1>1, Inductive, PTL

\* No update is lost: the projection of a run reflects the operations whose
\* events are stored, however many threads and processes write it.
THEOREM NoUpdateIsLost == ASSUME ~TokensCollide PROVE Spec => []Consistent
<1>1. IInv => Consistent
  BY DEF IInv
<1>2. QED
  BY <1>1, Inductive, PTL

\* What was answered stays in the projection, through later writers and deaths.
THEOREM AnswersAreDurable == ASSUME ~TokensCollide PROVE Spec => []AnsweredIsStored
<1>1. IInv => AnsweredIsStored
  BY DEF IInv, EffectsPlaced, EffectsDone, Stored, AnsweredIsStored
<1>2. QED
  BY <1>1, Inductive, PTL

\* The JSON mirror of a run shows a state the run has been in.
THEOREM MirrorsLag == ASSUME ~TokensCollide PROVE Spec => []MirrorLags
<1>1. IInv => MirrorLags
  BY DEF IInv, MirrorsExplained, MirrorLags
<1>2. QED
  BY <1>1, Inductive, PTL

\* The last writer of a run whose mirror is behind is on its way, or failed.
THEOREM MirrorsAreFresh == ASSUME ~TokensCollide PROVE Spec => []MirrorFresh
<1>1. ASSUME IInv PROVE MirrorFresh
  <2>1. \A t \in Threads : pc[t] = "mirror" => status[job[t]] = "called"
    BY <1>1 DEF IInv, JobsSound, JobsOpen
  <2>2. QED
    BY <1>1, <2>1 DEF IInv, MirrorsExplained, MirrorFresh
<1>2. QED
  BY <1>1, Inductive, PTL

\* The marker names a stored run whose completion nobody was told of.
THEOREM MarkersAreSound == ASSUME ~TokensCollide PROVE Spec => []MarkerSound
<1>1. IInv => MarkerSound
  BY DEF IInv, MarkersExplained
<1>2. QED
  BY <1>1, Inductive, PTL

\* Renames happen in the order of the commits: no mirror goes back.
THEOREM MirrorsMoveForward == ASSUME ~TokensCollide PROVE Spec => MirrorForward
<1>1. ASSUME IInv, [Next]_vars
      PROVE  [\A r \in RunIds : IsPrefix(mirror[r], mirror'[r])]_vars
  <2>1. ASSUME NEW t \in Threads, WriteMirror(t), NEW r \in RunIds
        PROVE  IsPrefix(mirror[r], mirror'[r])
    <3>1. pc[t] = "mirror" /\ mirror \in [RunIds -> Seq(Ops)]
      BY <1>1, <2>1 DEF WriteMirror, IInv, TypeOK
    <3>2. rec[t] = row[target[job[t]]]
      BY <1>1, <3>1 DEF IInv, RecordsCurrent
    <3>3. mirror'[r] = IF r = target[job[t]] THEN row[r] ELSE mirror[r]
      BY <2>1, <3>1, <3>2 DEF WriteMirror
    <3>4. IsPrefix(mirror[r], row[r]) /\ IsPrefix(mirror[r], mirror[r])
      BY <1>1, <3>1, PrefixFacts DEF IInv, MirrorsExplained
    <3>5. QED
      BY <3>3, <3>4
  <2>2. ASSUME UNCHANGED mirror, NEW r \in RunIds
        PROVE  IsPrefix(mirror[r], mirror'[r])
    BY <1>1, <2>2, PrefixFacts DEF IInv, TypeOK
  <2>3. UNCHANGED mirror \/ \E t \in Threads : WriteMirror(t)
    BY <1>1 DEF Next, Step, Quiet, vars, Call, NewRunId, NoRunId, AcquireLock, AcquireFlock,
       Load, Refuse, Commit, Rollback, MirrorFails, MoveMarker, MarkerFails, ReleaseFlock, ReleaseLock,
       Reply, Crash, files
  <2>4. QED
    BY <2>1, <2>2, <2>3
<1>2. QED
  BY <1>1, Inductive, PTL DEF Spec, MirrorForward

-----------------------------------------------------------------------------
\* A commit is the instant an operation takes effect, a reply, an exception or a
\* death is its answer, every other step is internal.
LEMMA StepImplements ==
    ASSUME IInv, [Next]_vars
    PROVE  [Abs!ANext \/ \E S \in SUBSET Ops : Abs!ACrash(S)]_(Abs!avars)
<1> DEFINE Goal == [Abs!ANext \/ \E S \in SUBSET Ops : Abs!ACrash(S)]_(Abs!avars)
<1>1. ASSUME row' = row, status' = status PROVE Goal
  BY <1>1 DEF Abs!avars
<1>2. ASSUME NEW t \in Threads, NEW o \in Ops, NEW r \in RunIds \cup {None}, Call(t, o, r)
      PROVE  Goal
  <2>1. Abs!ACall(o)
    BY <1>2 DEF Call, Abs!ACall, db
  <2>2. QED
    BY <2>1 DEF Abs!ANext
<1>3. ASSUME NEW t \in Threads, Raise(t), row' = row, pc[t] # "idle",
             pc[t] \notin {"unflock", "unlock", "reply"}
      PROVE  Goal
  <2>1. job[t] \in Ops /\ status[job[t]] = "called"
    BY <1>3, AtWork
  <2>2. Abs!AFail(job[t])
    BY <1>3, <2>1 DEF Raise, Abs!AFail
  <2>3. QED
    BY <2>1, <2>2 DEF Abs!ANext
<1>4. ASSUME NEW t \in Threads, Commit(t) PROVE Goal
  <2>1. pc[t] = "commit" /\ UNCHANGED status
        /\ row' = [row EXCEPT ![target[job[t]]] = rec[t]]
    BY <1>4 DEF Commit
  <2>2. /\ job[t] \in Ops /\ target[job[t]] \in RunIds
        /\ status[job[t]] = "called"
    BY <2>1, AtWork DEF Placed, NeedsLock
  <2>3. /\ rec[t] = Append(row[target[job[t]]], job[t])
        /\ job[t] \in Starts <=> row[target[job[t]]] = << >>
    BY <2>1 DEF IInv, RecordsCurrent
  <2>4. ~Abs!Applied(job[t])
    BY <2>1 DEF IInv, EffectsPlaced, EffectsPending, Drawing, Touches, Abs!Applied
  <2>5. Abs!AApply(job[t], target[job[t]])
    BY <2>1, <2>2, <2>3, <2>4 DEF Abs!AApply
  <2>6. QED
    BY <2>2, <2>5 DEF Abs!ANext
<1>5. ASSUME NEW t \in Threads, Reply(t) PROVE Goal
  <2>1. /\ pc[t] = "reply" /\ row' = row
        /\ status' = [status EXCEPT ![job[t]] = IF @ = "called" THEN "ok" ELSE @]
    BY <1>5 DEF Reply, db
  <2>2. job[t] \in Ops /\ status \in [Ops -> {"new", "called", "ok", "failed"}]
    BY <2>1, AtWork DEF IInv, TypeOK
  <2>3. CASE status[job[t]] = "called"
    <3>1. Abs!Applied(job[t])
      BY <2>1, <2>3 DEF IInv, EffectsPlaced, EffectsDone, Stored, Touches, Abs!Applied
    <3>2. Abs!AReturn(job[t])
      BY <2>1, <2>3, <3>1 DEF Abs!AReturn
    <3>3. QED
      BY <2>2, <3>2 DEF Abs!ANext
  <2>4. CASE status[job[t]] # "called"
    <3>1. status' = status
      BY <2>1, <2>2, <2>4
    <3>2. QED
      BY <2>1, <3>1, <1>1
  <2>5. QED
    BY <2>3, <2>4
<1>6. ASSUME NEW s \in Services, Crash(s) PROVE Goal
  <2> DEFINE lost == {o \in Ops : status[o] = "called"
                                /\ \E t \in Threads : ServiceOf[t] = s /\ job[t] = o}
  <2>1. \A t \in Threads : job[t] # None => status[job[t]] \in {"called", "failed"}
    BY DEF IInv, JobsSound, JobsOpen
  <2>2. \A o \in Ops : (\E t \in Threads : ServiceOf[t] = s /\ job[t] = o) =>
            status[o] \in {"called", "failed"}
    BY <2>1, NoneDistinct
  <2>3. /\ row' = row
        /\ status' = [o \in Ops |->
               IF \E t \in {u \in Threads : ServiceOf[u] = s} : job[t] = o
               THEN "failed" ELSE status[o]]
    BY <1>6 DEF Crash, db
  <2>4. status' = [o \in Ops |-> IF o \in lost THEN "failed" ELSE status[o]]
    BY <2>2, <2>3
  <2>5. Abs!ACrash(lost)
    BY <2>3, <2>4 DEF Abs!ACrash
  <2>6. QED
    BY <2>5
<1>7. ASSUME NEW t \in Threads, Step(t) PROVE Goal
  <2>1. \/ row' = row /\ status' = status
        \/ Raise(t) /\ row' = row /\ pc[t] \in {"token", "load", "commit", "mirror", "marker"}
        \/ Commit(t)
        \/ Reply(t)
    BY <1>7 DEF Step, NewRunId, NoRunId, AcquireLock, AcquireFlock, Load, Refuse, Rollback,
       WriteMirror, MirrorFails, MoveMarker, MarkerFails, ReleaseFlock, ReleaseLock, db
  <2>2. QED
    BY <2>1, <1>1, <1>3, <1>4, <1>5
<1>8. CASE UNCHANGED vars
  BY <1>8, <1>1 DEF vars
<1>9. QED
  BY <1>2, <1>6, <1>7, <1>8 DEF Next, Quiet

\* RunStore implements AtomicRuns: operations on runs are atomic, take effect at
\* most once, and have done so when they are answered.
THEOREM Implementation == ASSUME ~TokensCollide PROVE Spec => Atomic
<1>1. Init => Abs!AInit
  BY DEF Init, Abs!AInit
<1>2. IInv /\ [Next]_vars => [Abs!ANext \/ \E S \in SUBSET Ops : Abs!ACrash(S)]_(Abs!avars)
  BY StepImplements
<1>3. QED
  BY <1>1, <1>2, Inductive, PTL DEF Spec, Atomic, Abs!ASpec
=============================================================================
