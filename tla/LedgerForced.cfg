\* Every operation, in every order, a few at a time.
CONSTANTS
    test = test
    Commands = {test}
    Checks <- MCChecks
    Paths = {outside}
    Scope = {inside}
    PatchScope = {inside}
    ReadThreshold = 2
    FailureThreshold = 2
    Criteria = {criterion}
    Success = {TRUE, None}
    Statuses = {"SATISFIED", "VIOLATED"}
    Decisions = {decision}
    PatchIds = {patch}
    Usage = {1}
    MaxTransactions = 4
    None = None
SPECIFICATION Spec
INVARIANTS
    WarningsReplay
CHECK_DEADLOCK FALSE
