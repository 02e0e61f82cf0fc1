----------------------------- MODULE MCJobQueue -----------------------------
(* Instances of JobQueue for TLC: three jobs, two of which share a key.    *)
EXTENDS JobQueue

CONSTANTS j1, j2, j3, w1, w2, r1, r2, k, run, other, o1, o2

MCKeyOf == [j \in Job |-> IF j = j3 THEN NoKey ELSE k]

\* Every job is a pipeline run.
MCKindOf == [j \in Job |-> run]

\* j3 is of a kind no handler is registered for.
MCKindOfDrift == [j \in Job |-> IF j = j3 THEN other ELSE run]

\* j1 may be retried once, j2 leaves MaxAttempts at its zero value.
MCMaxAttempts == [j \in Job |->
                    IF j = j1 THEN 2 ELSE IF j = j2 THEN 0 ELSE 1]

\* Two replicas with one worker each.
MCTwoReplicas == [w \in Worker |-> IF w = w1 THEN r1 ELSE r2]

\* One replica with two workers.
MCOneReplica == [w \in Worker |-> r1]

\* Both replicas use the default prefix: their workers share an identity.
MCSharedLockId == [w \in Worker |-> o1]

MCOwnLockId == [w \in Worker |-> IF w = w1 THEN o1 ELSE o2]
=============================================================================
