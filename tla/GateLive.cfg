\* Two verifies that overlap, and an agent that follows the remediations.
CONSTANTS
    original = original
    broken = broken
    sprawling = sprawling
    stray = stray
    narrow = narrow
    Contents = {original, broken, sprawling}
    Initial = original
    OutcomesOf <- MCOutcomesOf
    Scopes = {}
    FlagsOf <- MCFlagsAnyScope
    Signatures = {stray}
    Verifiers = {v1, v2}
    Sights = {"all"}
    MaxEdits = 2
    MaxReports = 1
    None = None
SPECIFICATION FairSpec
PROPERTIES
    RemediationWorks
    GateSound
CHECK_DEADLOCK FALSE
