SPECIFICATION Spec
CONSTANTS
  j1 = j1  j2 = j2  j3 = j3  w1 = w1  w2 = w2  r1 = r1  r2 = r2
  k = k  run = run  other = other  o1 = o1  o2 = o2
  NoKey = NoKey  NoOwner = NoOwner  NoJob = NoJob
  Job = {j1, j2}
  Key = {k}
  KeyOf <- MCKeyOf
  Kind = {run, other}
  KindOf <- MCKindOf
  Registered = {run}
  MaxAttemptsOpt <- MCMaxAttempts
  Delays = {1}
  Replica = {r1, r2}
  Worker = {w1, w2}
  ReplicaOf <- MCTwoReplicas
  Owner = {o1, o2}
  LockId <- MCSharedLockId
  Backend = "postgres"
  MaxShutdowns = 1
  MaxCrashes = 1
  MaxDbErrors = 1
INVARIANTS QueueInv
PROPERTIES LedgerSpec
