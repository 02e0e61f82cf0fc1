CONSTANTS
    o1 = o1  o2 = o2  i1 = i1  i2 = i2  d1 = d1  d2 = d2  k1 = k1  p1 = p1
    Op = {o1, o2}
    ImageOf <- MCImageOf
    Editor = {e1}
    HostKey = {k1, k2}
    Strict = FALSE
    PinRetries = 2
    MaxConn = 3
    NoKey = NoKey
    NoConn = NoConn
    NoImage = NoImage
    Deployment = {d1, d2}
    WorkImage <- MCWorkImage
    MaxRevisions = 2
    MaxRollbacks = 2
    StaleReads = TRUE
    Call = {c1}
    Tags = 2
    Deploy = {w1, w2}
    Docs = 2
    maxManifestDocs = 64
    Nobody = Nobody
    NoWork = NoWork
    Demands <- MCDemands
    Reader = {r1, r2}
    Refresher = {f1}
    Provider = {p1, p2}
    TTL = 2
    negativeTTL = 1
    MaxChanges = 1
    MaxTime = 1
    MaxGone = 1
    NoSnapshot = NoSnapshot
    NoCall = NoCall
SPECIFICATION MCFairSpec
INVARIANTS KubeInv InventoryInv CloudInv
PROPERTIES HostsCorrect WorkCorrect CallersAnswered
CHECK_DEADLOCK FALSE
