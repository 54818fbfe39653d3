\* One verify, in a repository where git always answers.
CONSTANTS
    original = original
    broken = broken
    sprawling = sprawling
    stray = stray
    narrow = narrow
    Contents = {original, broken, sprawling}
    Initial = original
    OutcomesOf <- MCOutcomesOf
    Scopes = {narrow}
    FlagsOf <- MCFlagsOf
    Signatures = {stray}
    Verifiers = {v1}
    Sights = {"all"}
    MaxEdits = 2
    MaxReports = 1
    None = None
SPECIFICATION Spec
PROPERTIES
    EvidenceMatchesTree
CHECK_DEADLOCK FALSE
