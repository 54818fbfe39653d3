----------------------------- MODULE MCRunLedger -----------------------------
\* A run on a repository with one path in the scope of the task and one outside,
\* and one command, which the agent may run and which verify runs.
EXTENDS RunLedger

CONSTANTS test
MCChecks == <<test>>
=============================================================================
