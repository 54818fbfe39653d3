\* One run; the process with two threads and the other one contend for it.
CONSTANTS
    Ops = {s1, m1, c1}
    Starts = {s1}
    Completes = {c1}
    RunIds = {r1}
    t1 = t1
    t2 = t2
    t3 = t3
    mcp = mcp
    cli = cli
    Threads = {t1, t2, t3}
    Services = {mcp, cli}
    ServiceOf <- MCServiceOf
    MaxCrashes = 1
    TokensCollide = FALSE
    None = None
SPECIFICATION FairSpec
PROPERTIES
    CallsReturn
