SPECIFICATION MCFairSpec
CONSTANTS
    r1 = r1
    r2 = r2
    r3 = r3
    r4 = r4
    r5 = r5
    p1 = p1
    p2 = p2
    NoProc = NoProc
    NoBeat = NoBeat
    Run = {r1, r2, r3, r4, r5}
    Process = {p1, p2}
    Path <- MCPaths
    MaxConcurrentRuns = 1
    OrphanThreshold = 2
    MaxCancels = 1
    FaultKinds = {"shutdown", "crash", "db", "deadline"}
    MaxFaults = 1
INVARIANTS RunInv CoordinatorInv
PROPERTIES NoResurrection EveryRunSettles
CHECK_DEADLOCK FALSE
