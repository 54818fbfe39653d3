\* Every operation in every order, on one path inside the scope and one outside.
CONSTANTS
    test = test
    Commands = {test}
    Checks <- MCChecks
    Paths = {inside, outside}
    Scope = {inside}
    PatchScope = {inside}
    ReadThreshold = 2
    FailureThreshold = 2
    Criteria = {criterion}
    Success = {TRUE, FALSE, None}
    Statuses = {"VIOLATED"}
    Decisions = {decision}
    PatchIds = {patch}
    Usage = {1}
    MaxTransactions = 4
    None = None
SPECIFICATION Spec
INVARIANTS
    TypeOK
    IntegrityHolds
    OneWarningEach
    NothingEscapes
    NoFalseAlarm
PROPERTIES
    PhaseForward
CHECK_DEADLOCK FALSE
