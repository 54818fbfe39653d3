----------------------------- MODULE AtomicRuns -----------------------------
(***************************************************************************)
(* What RunService promises the agents and people that share one           *)
(* repository: every operation on a run takes effect at one instant, at    *)
(* most once, on top of everything that took effect before it; an          *)
(* operation that was answered has taken effect; one that was not answered *)
(* (an exception, a crash) may or may not have.  RunStore shows how locks, *)
(* an SQLite transaction and a mirror file implement this.                 *)
(***************************************************************************)
EXTENDS Naturals, Sequences

CONSTANTS
    Ops,      \* the calls made during one behaviour, each made at most once
    RunIds,   \* run identifiers
    Starts    \* the calls that create a run (the others name an existing one)

VARIABLES
    log,      \* log[r]: the operations that took effect on run r, oldest first
    status    \* status[o]: what the caller of o knows

avars == <<log, status>>

Applied(o) == \E r \in RunIds : \E i \in DOMAIN log[r] : log[r][i] = o

AInit ==
    /\ log = [r \in RunIds |-> << >>]
    /\ status = [o \in Ops |-> "new"]

ACall(o) ==
    /\ status[o] = "new"
    /\ status' = [status EXCEPT ![o] = "called"]
    /\ UNCHANGED log

\* The effect of a call: it extends the log of one run; only a start call
\* makes a run, and only where there is none.
AApply(o, r) ==
    /\ status[o] = "called"
    /\ ~Applied(o)
    /\ o \in Starts <=> log[r] = << >>
    /\ log' = [log EXCEPT ![r] = Append(@, o)]
    /\ UNCHANGED status

AReturn(o) ==
    /\ status[o] = "called"
    /\ Applied(o)
    /\ status' = [status EXCEPT ![o] = "ok"]
    /\ UNCHANGED log

\* An error, or no answer at all, whether or not the call took effect.
\* Nothing happens to the runs on its behalf afterwards.
AFail(o) ==
    /\ status[o] = "called"
    /\ status' = [status EXCEPT ![o] = "failed"]
    /\ UNCHANGED log

ANext ==
    \E o \in Ops :
        \/ ACall(o)
        \/ \E r \in RunIds : AApply(o, r)
        \/ AReturn(o)
        \/ AFail(o)

\* Several calls whose processes die together fail together.
ACrash(S) ==
    /\ \A o \in S : status[o] = "called"
    /\ status' = [o \in Ops |-> IF o \in S THEN "failed" ELSE status[o]]
    /\ UNCHANGED log

ASpec == AInit /\ [][ANext \/ \E S \in SUBSET Ops : ACrash(S)]_avars
=============================================================================
