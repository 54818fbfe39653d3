\* One verify at a time, in a repository where git answers, fails in part, or fails.
CONSTANTS
    original = original
    broken = broken
    sprawling = sprawling
    stray = stray
    narrow = narrow
    Contents = {original, broken, sprawling}
    Initial = original
    OutcomesOf <- MCOutcomesOf
    Scopes = {narrow}
    FlagsOf <- MCFlagsOf
    Signatures = {stray}
    Verifiers = {v1}
    Sights = {"all", "head", "none"}
    MaxEdits = 3
    MaxReports = 1
    None = None
SPECIFICATION Spec
INVARIANTS
    TypeOK
PROPERTIES
    GateSound
    ReportedEditsCaught
CHECK_DEADLOCK FALSE
