SPECIFICATION FairSpec
CONSTANTS
    r1 = r1
    r2 = r2
    s1 = s1
    s2 = s2
    NoReplica = NoReplica
    NoItem = NoItem
    NoEdit = NoEdit
    Schedule = {s1}
    Replica = {r1, r2}
    Cron = {1, 2}
    NextAfter <- MCNextAfter
    MaxTime = 2
    MaxEdits = 1
    MaxFaults <- MCOneFault
INVARIANTS LeaderInv DuplicatesBounded
PROPERTIES DueIsServed
CHECK_DEADLOCK FALSE
