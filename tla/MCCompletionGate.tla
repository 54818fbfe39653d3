-------------------------- MODULE MCCompletionGate --------------------------
\* Three contents: the one at HEAD, where the checks pass; one that breaks them; one
\* that touches more than the task asks.
EXTENDS CompletionGate, TLC

CONSTANTS original, broken, sprawling, stray, narrow

MCOutcomesOf == (original :> {"PASS_WITH_UNVERIFIED"})
             @@ (broken :> {"FAIL"})
             @@ (sprawling :> {"PASS"})
\* A file outside the scope; and, where no context is compiled, a removed test.
MCFlagsOf == [s \in Scopes \cup {None} |->
    [c \in Contents |-> IF s # None /\ c = sprawling THEN {stray} ELSE {}]]
MCFlagsAnyScope == [s \in Scopes \cup {None} |->
    [c \in Contents |-> IF c = sprawling THEN {stray} ELSE {}]]
=============================================================================
