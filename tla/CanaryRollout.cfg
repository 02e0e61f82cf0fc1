CONSTANTS
    c1 = c1
    c2 = c2
    sw = sw
    op = op
    Rollout = {c1, c2}
    Resolver = {sw, op}
    Sweeper = {sw}
    Base = base
    NoImage = noimage
    HasHistory = TRUE
    Config <- MCConfig
    Probe = {"ready", "unknown"}
    Cascade = TRUE
    Pool = 4
    StartTimeout = 1
    HardDeadline = 1
    StaleAfter = 2
    DefaultWeight = 10
    DefaultWindow = 1
    MaxFaults = 1
SPECIFICATION FairSpec
INVARIANTS CanaryInv ClusterShowsVerdict
PROPERTIES VerdictFinal RolloutSettles
CHECK_DEADLOCK FALSE
