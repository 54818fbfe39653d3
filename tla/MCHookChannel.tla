---------------------------- MODULE MCHookChannel ----------------------------
\* A session that runs commands and a session that edits.
EXTENDS HookChannel

CONSTANTS bash, edit, s1, s2, p1
MCSessionOf == (bash :> s1) @@ (edit :> s2)
MCDirectOf == (bash :> {}) @@ (edit :> {p1})
=============================================================================
