\* Every report of two tests, every fate of every check, for six repositories.
CONSTANTS
    session = session
    redirect = redirect
    expiry = expiry
    t1 = t1
    t2 = t2
    f1 = f1
    f2 = f2
    Roots <- MCRoots
    Commands = {"pytest", "ruff", "python -m pytest"}
    Configs <- MCConfigs
    PytestLike = {"pytest", "python -m pytest"}
    Criteria = {session, redirect, expiry}
    Files = {f1, f2}
    TestLike = {f2}
    Contexts <- MCContexts
    Tests = {t1, t2}
    MatchFiles <- MCMatchFiles
    MatchTests <- MCMatchTests
    None = None
SPECIFICATION Spec
INVARIANTS
    TypeOK
    PassIsEarned
    VerdictsGrounded
    OnlyTestsCount
    WorseNeverHelps
PROPERTIES
    FailuresStand
CHECK_DEADLOCK FALSE
