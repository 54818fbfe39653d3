\* Every answer of up to seven of nine symbols, in every phase, under three budgets.
CONSTANTS
    Symbols <- MCSymbols
    MaxSymbols = 7
    Budgets = {64, 110, 160}
    Phases = {"UNDERSTAND", "INVESTIGATE", "PLAN", "IMPLEMENT", "VERIFY", "REVIEW", "DONE"}
    Concepts = {"refresh", "token"}
    RiskTerms = {"token", "session"}
    TestFiles = {4}
    Directory <- MCDirectory
    CallersOf <- MCCallersOf
    MaxHigh = 2
    MaxPerTier = 2
SPECIFICATION Spec
INVARIANTS
    TypeOK
    BudgetHeld
    NothingFittingLeft
    CrowdedFileYields
    CallersSurfaced
    DroppedOnlyWhenFull
CHECK_DEADLOCK FALSE
