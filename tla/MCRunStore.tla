----------------------------- MODULE MCRunStore -----------------------------
\* Two processes, one with two threads (an MCP server) and one with a single
\* thread (a CLI call), on one repository.
EXTENDS RunStore, TLC

CONSTANTS t1, t2, t3, mcp, cli
MCServiceOf == (t1 :> mcp) @@ (t2 :> mcp) @@ (t3 :> cli)
Symmetry == Permutations(RunIds) \cup Permutations(Starts) \cup Permutations({t1, t2})
=============================================================================
