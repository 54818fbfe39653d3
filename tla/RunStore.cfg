\* Two runs may be started; one is changed and completed.
CONSTANTS
    Ops = {s1, s2, m1, c1}
    Starts = {s1, s2}
    Completes = {c1}
    RunIds = {r1, r2}
    t1 = t1
    t2 = t2
    t3 = t3
    mcp = mcp
    cli = cli
    Threads = {t1, t2, t3}
    Services = {mcp, cli}
    ServiceOf <- MCServiceOf
    MaxCrashes = 1
    TokensCollide = FALSE
    None = None
SYMMETRY Symmetry
SPECIFICATION Spec
INVARIANTS
    TypeOK
    Consistent
    AnsweredIsStored
    MirrorLags
    MirrorFresh
    MarkerSound
PROPERTIES
    MirrorForward
    Atomic
