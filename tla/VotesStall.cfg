CONSTANTS
  s1 = s1  s2 = s2  s3 = s3
  k1 = k1  k2 = k2  k3 = k3
  e1 = e1  e2 = e2  p1 = p1  p2 = p2
  a1 = a1  a2 = a2  a3 = a3  key1 = key1  f1 = f1
  Stage = {s1, s2, s3}
  Pipelines <- MCPipelines
  MaxParallel = 1
  ChanCap = 1
  Batch = 2
  MaxAttemptsCap = 2
  MaxExecFaults = 1
  Click = {k1, k2, k3}
  Sub <- MCSub
  Approver <- MCApprover
  Required = 2
  MaxGateFaults = 0
  EnvRequest = {e1, e2}
  PromoteRequest = {p1, p2}
  ApproveRequest = {a1, a2, a3}
  ApproverOf <- MCApproverOf
  SecretKey = {key1}
  Policy <- MCPolicy
  PipelineEditor = {w1, w2}
  Definition = {f1, f2}
  NoDefinition = NoDefinition
  MaxSaves = 2
SPECIFICATION MCSpec
INVARIANTS VotesNeverStall
CHECK_DEADLOCK FALSE
