----------------------------- MODULE MCDelivery -----------------------------
(***************************************************************************)
(* The delivery run, in five parts that share no state: a run executing    *)
(* its stages with its approval gate, the gate on its own with more        *)
(* clicks, edits of an environment, promotions to it, and the definition   *)
(* of a pipeline with two open editors.                                    *)
(***************************************************************************)
EXTENDS StageGraph, Promotions, PipelineRows, TLC

CONSTANTS s1, s2, s3, k1, k2, k3, e1, e2, p1, p2, a1, a2, a3, key1, f1

VARIABLE part

MCSub == (k1 :> "ann") @@ (k2 :> "bob") @@ (k3 :> "ann")
MCApprover == {"ann", "bob"}
MCApproverOf == (a1 :> "ann") @@ (a2 :> "bob") @@ (a3 :> "ann")
MCPolicy == {[strategy |-> "auto", required |-> 2], [strategy |-> "manual", required |-> 2],
             [strategy |-> "manual", required |-> 0]}

E(a, b, c) == [src |-> a, dst |-> b, cond |-> c]
NoRefs == [s \in {s1, s2, s3} |-> {}]
NoRetry == [s \in {s1, s2, s3} |-> 0]
All(kind) == [s \in {s1, s2, s3} |-> kind]

Pipeline(edges, kind, refs, retries, conditions) ==
    [edges |-> edges, kind |-> kind, refs |-> refs, retries |-> retries,
     conditions |-> conditions]

\* Every choice of four edges on three stages, one of them closing cycles, with
\* conditions that depend on the edge, and pipelines for retries, references,
\* the legacy mode, gates and review-only stages.
MCCond(a, b) == IF a = s1 /\ b = s2 THEN "failure" ELSE IF b = s3 THEN "always" ELSE "success"
MCGraphs == {Pipeline({E(ab[1], ab[2], MCCond(ab[1], ab[2])) : ab \in pairs},
                      All("test"), NoRefs, NoRetry, TRUE) :
               pairs \in SUBSET {<<s1, s2>>, <<s1, s3>>, <<s2, s3>>, <<s3, s1>>}}
MCChain == {E(s1, s2, "success"), E(s2, s3, "success")}
MCFork == {E(s1, s2, "success"), E(s1, s3, "failure")}
MCShip == [All("build") EXCEPT ![s2] = "push", ![s3] = "gitops"]
MCRelease == [All("deploy") EXCEPT ![s2] = "cloud", ![s3] = "custom"]
MCGated == Pipeline(MCChain, [All("build") EXCEPT ![s2] = "approval"], NoRefs, NoRetry, TRUE)

MCPipelines ==
    MCGraphs \cup
    {Pipeline(MCChain, MCShip, [NoRefs EXCEPT ![s2] = {s1}],
              [NoRetry EXCEPT ![s1] = 1], TRUE),
     Pipeline({E(s1, s3, "always")}, All("build"), [NoRefs EXCEPT ![s3] = {s1}], NoRetry, TRUE),
     Pipeline({}, All("build"), [NoRefs EXCEPT ![s3] = {s1}], NoRetry, TRUE),
     Pipeline(MCFork, MCRelease, NoRefs, [NoRetry EXCEPT ![s2] = 5], FALSE),
     MCGated,
     Pipeline(MCFork, [All("build") EXCEPT ![s3] = "review"], NoRefs, NoRetry, TRUE)}

\* The gate and an early cancellation matter to the gated pipeline only, and
\* the third click to the part that has the gate for itself.
MCInit ==
    /\ GateInit /\ ExecInit /\ PromotionInit /\ RowsInit
    /\ part \in {"stages", "gate", "environment", "promotions", "editors"}
    /\ IF part = "editors" THEN queued => rowStore = "postgres" ELSE rowStore = "postgres" /\ queued
    /\ part # "promotions" => promoStore = "postgres"
    /\ part = "gate" => gate = "awaiting"
    /\ part # "gate" /\ pipe # MCGated => gateStore = "memory" /\ gate = "absent"
    /\ part # "gate" => gate # "awaiting" /\ (gate = "rejected" => gateStore = "memory")
    /\ preCancelled => pipe = MCGated /\ gate = "rejected"
    /\ part # "stages" => pipe = CHOOSE p \in MCGraphs : p.edges = {}

MCNext ==
    \/ part = "stages" /\ ExecNext /\ click'[k3] = "idle" /\ UNCHANGED <<promoVars, rowsVars, part>>
    \/ part = "gate" /\ GateNext /\ UNCHANGED <<execVars, promoVars, rowsVars, part>>
    \/ part = "environment" /\ EnvNext /\ UNCHANGED <<execVars, gateVars, rowsVars, part>>
    \/ /\ part = "promotions"
       /\ PromoteNext \/ \E r \in {e1} : UpdateEnvironment(r) \/ WriteEnvironment(r)
       /\ UNCHANGED <<execVars, gateVars, rowsVars, part>>
    \/ part = "editors" /\ RowsNext({f1}) /\ UNCHANGED <<execVars, gateVars, promoVars, part>>

MCVars == <<execVars, gateVars, promoVars, rowsVars, part>>

MCSpec == MCInit /\ [][MCNext]_MCVars

\* The fairness of ExecFairness, within its part.
MCFairSpec == MCSpec /\ (part = "stages" => ExecFairness)

=============================================================================
