---------------------------- MODULE MCRunLifecycle --------------------------
(* Instances of RunLifecycle for TLC: one run per path that writes the row *)
(* differently, or two runs of one path.  The pipeline runs and the app    *)
(* deploys meet in the slots and the processes only; a behaviour has the   *)
(* runs of one group, and the others are never requested.                  *)
EXTENDS RunLifecycle

CONSTANTS r1, r2, r3, r4, r5, p1, p2

VARIABLE group

MCPaths == [r \in Run |-> CASE r = r1 -> "inline" [] r = r2 -> "queue"
                           [] r = r3 -> "app" [] r = r4 -> "rollback"
                           [] r = r5 -> "scheduled"]
MCScheduled == [r \in Run |-> "scheduled"]

MCVars == <<vars, group>>
MCInit == Init /\ group \in {Run \cap {r1, r2}, Run \cap {r3, r4}, Run \cap {r5}}
MCNext == Next /\ UNCHANGED group /\ \A r \in Run \ group : pc'[r] = "idle"

MCSpec == MCInit /\ [][MCNext]_MCVars
MCFairSpec == MCSpec /\ Fairness
=============================================================================
