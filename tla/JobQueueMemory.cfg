SPECIFICATION FairSpec
CONSTANTS
  j1 = j1  j2 = j2  j3 = j3  w1 = w1  w2 = w2  r1 = r1  r2 = r2
  k = k  run = run  other = other  o1 = o1  o2 = o2
  NoKey = NoKey  NoOwner = NoOwner  NoJob = NoJob
  Job = {j1, j2, j3}
  Key = {k}
  KeyOf <- MCKeyOf
  Kind = {run, other}
  KindOf <- MCKindOfDrift
  Registered = {run}
  MaxAttemptsOpt <- MCMaxAttempts
  Delays = {1}
  Replica = {r1}
  Worker = {w1, w2}
  ReplicaOf <- MCOneReplica
  Owner = {o1, o2}
  LockId <- MCOwnLockId
  Backend = "memory"
  MaxShutdowns = 1
  MaxCrashes = 0
  MaxDbErrors = 0
INVARIANTS MemoryQueueInv
PROPERTIES EveryJobFinishes
CHECK_DEADLOCK FALSE
