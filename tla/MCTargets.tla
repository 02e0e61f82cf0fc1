----------------------------- MODULE MCTargets -----------------------------
(***************************************************************************)
(* Instances of the deploy targets and build adapters.  A behaviour        *)
(* exercises one of them, chosen in the initial state:                     *)
(*   pins    two first connections to one host and an operator's edit      *)
(*   pool    two deployments, a connection that dies, the host's deletion  *)
(*   cloud   two cloud deployments and two rollbacks                       *)
(*   jobs    a build or a stage that runs as a Kubernetes Job              *)
(*   work    two overlapping deploys of one name                           *)
(*   size    a Fargate size                                                *)
(*   clouds  reads and refreshes of the cloud inventory                    *)
(***************************************************************************)
EXTENDS Hosts, CloudTargets, KubeJobs, Workloads, CloudInventory, TLC

CONSTANTS o1, o2, i1, i2, d1, d2, k1, p1

VARIABLE part

MCVars == <<part, hostVars, cloudVars, kubeVars, workVars, inventoryVars>>

MCImageOf == (o1 :> i1) @@ (o2 :> i2)
MCWorkImage == (d1 :> i1) @@ (d2 :> i2)

\* Around every boundary of the table: just below, at and just above it.
MCCpus == {0, 1} \cup UNION {{2 * c - 1, 2 * c, 2 * c + 1} : c \in {256, 512, 1024, 2048, 4096, 8192, 16384}}
MCMemories ==
    {0, 1} \cup UNION {{2 * m - 1, 2 * m, 2 * m + 1} :
        m \in {512, 1024, 1536, 2048, 3072, 4096, 8192, 16384, 20480, 30720, 32768, 61440, 65536, 122880}}
MCDemands == [cpu : MCCpus, memory : MCMemories]

\* The parts that a behaviour does not exercise start in one fixed way.
MCInit ==
    /\ HostsInit /\ CloudInit /\ KubeInit /\ WorkInit /\ InventoryInit
    /\ part \in {"pins", "pool", "cloud", "jobs", "work", "size", "clouds"}
    /\ hostRow.known \in IF part = "pins" THEN {NoKey, k1} ELSE {NoKey}
    /\ part = "cloud" \/ (provider = "ecs" /\ registered)
    /\ part = "jobs" \/ engine = [c \in Call |-> "kaniko"]
    /\ part = "work" \/ backend = "clientgo"
    /\ up \in IF part = "clouds" THEN {{}, {p1}} ELSE {Provider}
    /\ part = "size" \/ ask = [cpu |-> 0, memory |-> 0]

NotHosts == UNCHANGED <<cloudVars, kubeVars, workVars, inventoryVars>>
NotJobs == UNCHANGED <<hostVars, cloudVars, workVars, inventoryVars>>
NotClouds == UNCHANGED <<hostVars, cloudVars, kubeVars, workVars>>

MCNext ==
    /\ UNCHANGED part
    /\ \/ part = "pins" /\ (ConnectNext(HostKey) \/ EditNext \/ DeleteHostRow) /\ NotHosts
       \/ part = "pool" /\ (ConnectNext({k1}) \/ CommandNext \/ DeleteNext \/ LinkDies) /\ NotHosts
       \/ part = "cloud" /\ CloudNext /\ UNCHANGED <<hostVars, kubeVars, workVars, inventoryVars>>
       \/ part = "jobs" /\ KubeNext /\ NotJobs
       \/ part = "work" /\ WorkNext /\ UNCHANGED <<hostVars, cloudVars, kubeVars, inventoryVars>>
       \/ part = "clouds" /\ InventoryNext /\ NotClouds

MCSpec == MCInit /\ [][MCNext]_MCVars

\* The goroutines of a call run on; the context ends by itself.
MCFairSpec ==
    /\ MCSpec
    /\ \A c \in Call :
          /\ WF_MCVars(part = "jobs" /\ CallStep(c) /\ NotJobs /\ UNCHANGED part)
          /\ WF_MCVars(part = "jobs" /\ LogStep(c) /\ NotJobs /\ UNCHANGED part)
    /\ WF_MCVars(part = "clouds" /\ (\E r \in Request : Serve(r)) /\ NotClouds /\ UNCHANGED part)

\* A Job call returns once its context ends, and every accepted inventory request
\* is answered.
CallersAnswered == CallReturns /\ InventoryAnswers

=============================================================================
