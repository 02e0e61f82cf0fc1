SPECIFICATION MCSpec
CONSTANTS
    r1 = r1
    r2 = r2
    r3 = r3
    r4 = r4
    r5 = r5
    p1 = p1
    p2 = p2
    NoProc = NoProc
    NoBeat = NoBeat
    Run = {r1, r2}
    Process = {p1, p2}
    Path <- MCScheduled
    MaxConcurrentRuns = 1
    OrphanThreshold = 2
    MaxCancels = 0
    FaultKinds = {}
    MaxFaults = 0
INVARIANTS
    PickedUpHasRow
CHECK_DEADLOCK FALSE
