---------------------------- MODULE CloudTargets ----------------------------
(***************************************************************************)
(* Cloud deploy targets: the registry, the cloud deploy stage of the       *)
(* executor (service/app_targets.go) and the adapters for ECS, Cloud Run,  *)
(* Fly and Render (deploy/deploytarget).  One workload that several        *)
(* deployments and rollbacks change at once; the provider rolls revisions  *)
(* out by itself.  The provider's answers are nondeterministic.            *)
(***************************************************************************)
EXTENDS Integers, Sequences, FiniteSets

CONSTANTS
    Deployment,         \* executions of a cloud deploy stage
    WorkImage,          \* WorkImage[d]
    MaxRevisions,       \* bound on revisions registered
    MaxRollbacks,       \* bound on rollbacks
    StaleReads          \* a status may show the rollout before the last change

ASSUME CloudAssumption ==
    IsFiniteSet(Deployment) /\ MaxRevisions \in Nat /\ MaxRollbacks \in Nat /\ StaleReads \in BOOLEAN

VARIABLES
    provider,           \* the kind of the stage's target
    registered,         \* the registry holds a target of that kind
    revisions,          \* task definitions or revisions: their images
    service,            \* revision the service asks for, 0 without a service
    serving,            \* revision that serves, 0 for none
    rollout,            \* "stable", "progress" or "failed"
    ran,                \* revisions that have served
    machines,           \* Fly: the image of each machine
    flyApp,             \* Fly: the app exists
    early,              \* Fly: deployments that listed no machine
    stage,              \* program point of each deployment
    revision,           \* revision[d]: what it registered
    rollbacks,          \* rollbacks so far
    undo,               \* revision a rollback has chosen, 0 for none
    described,          \* described[d]: the task definition VerifyImage read of the service
    mine                \* deployments whose image the service asked for since their last status

providerVars == <<revisions, service, serving, rollout, ran>>
flyVars == <<machines, flyApp, early>>
readyVars == <<described, mine>>
cloudVars == <<provider, registered, providerVars, flyVars, stage, revision, rollbacks, undo, readyVars>>

CloudTypeOK ==
    /\ service \in 0..Len(revisions) /\ serving \in 0..Len(revisions)
    /\ rollout \in {"stable", "progress", "failed"}
    /\ stage \in [Deployment -> {"idle", "found", "registered", "creating", "updating", "operation",
                                 "flyCreate", "flyApp", "flyAgain", "flyUpdate", "render",
                                 "waiting", "healthy", "described", "verified", "ready", "failed"}]
    /\ \A d \in Deployment : revision[d] \in 0..Len(revisions) /\ described[d] \in 0..Len(revisions)
    /\ Len(revisions) <= MaxRevisions /\ undo \in 0..Len(revisions)

CloudInit ==
    /\ provider \in {"ecs", "cloudrun", "fly", "render"} /\ registered \in BOOLEAN
    /\ revisions = <<>> /\ service = 0 /\ serving = 0 /\ rollout = "stable" /\ ran = {}
    /\ machines = <<>> /\ flyApp = FALSE /\ early = {}
    /\ stage = [d \in Deployment |-> "idle"] /\ revision = [d \in Deployment |-> 0]
    /\ rollbacks = 0 /\ undo = 0 /\ described = [d \in Deployment |-> 0] /\ mine = {}

Goto(d, point) == stage' = [stage EXCEPT ![d] = point]

Steady == UNCHANGED <<provider, registered, rollbacks, undo, described>>

Only(d, point) == Goto(d, point) /\ Steady /\ UNCHANGED <<providerVars, flyVars, revision, mine>>

\* executeCloudDeploy looks the target up in the registry.
LookupTarget(d) ==
    /\ stage[d] = "idle"
    /\ Only(d, IF registered THEN "found" ELSE "failed")

\* A call of the adapter fails (credentials, throttling, the provider, ctx).
CallFails(d) ==
    /\ stage[d] \in {"found", "registered", "creating", "updating", "operation", "flyCreate", "flyApp",
                     "flyAgain", "flyUpdate", "render"}
    /\ Only(d, "failed")

-----------------------------------------------------------------------------
(* ECS *)

Register(d) ==
    /\ Len(revisions) < MaxRevisions
    /\ revisions' = Append(revisions, WorkImage[d]) /\ revision' = [revision EXCEPT ![d] = Len(revisions')]

\* The provider takes a revision for the service and rolls it out.
Ask(rev, image) ==
    /\ service' = rev /\ rollout' = "progress"
    /\ mine' = mine \cup {d \in Deployment : WorkImage[d] = image}

EcsRegister(d) ==
    /\ provider = "ecs" /\ stage[d] = "found"
    /\ Register(d) /\ Goto(d, "registered")
    /\ Steady /\ UNCHANGED <<service, serving, rollout, ran, flyVars, mine>>

\* UpdateService; only ServiceNotFound leads to a create.
EcsUpdate(d) ==
    /\ provider = "ecs" /\ stage[d] = "registered"
    /\ IF service # 0
         THEN Ask(revision[d], revisions[revision[d]]) /\ Goto(d, "waiting")
         ELSE Goto(d, "creating") /\ UNCHANGED <<service, rollout, mine>>
    /\ Steady /\ UNCHANGED <<revisions, serving, ran, flyVars, revision>>

\* CreateService; the provider refuses a second service of the name.
EcsCreate(d) ==
    /\ provider = "ecs" /\ stage[d] = "creating"
    /\ IF service = 0
         THEN Ask(revision[d], revisions[revision[d]]) /\ Goto(d, "waiting")
         ELSE Goto(d, "failed") /\ UNCHANGED <<service, rollout, mine>>
    /\ Steady /\ UNCHANGED <<revisions, serving, ran, flyVars, revision>>

\* previousTaskDefRevision
previousTaskDefRevision == service - 1

\* A rollback reads what there is and chooses a revision ...
Choose(rev) ==
    /\ undo = 0 /\ rollbacks < MaxRollbacks
    /\ undo' = rev /\ rollbacks' = rollbacks + 1
    /\ UNCHANGED <<provider, registered, providerVars, flyVars, stage, revision, readyVars>>

\* ... and tells the service to take it, unless that call fails.
RollbackWrite ==
    /\ undo # 0 /\ undo' = 0
    /\ Ask(undo, revisions[undo]) \/ UNCHANGED <<service, rollout, mine>>
    /\ UNCHANGED <<provider, registered, revisions, serving, ran, flyVars, stage, revision, rollbacks, described>>

EcsRollback ==
    /\ provider = "ecs" /\ service # 0 /\ previousTaskDefRevision >= 1
    /\ Choose(previousTaskDefRevision)

-----------------------------------------------------------------------------
(* Cloud Run *)

\* GetService selects the branch.
CloudRunGet(d) ==
    /\ provider = "cloudrun" /\ stage[d] = "found"
    /\ Only(d, IF service # 0 THEN "updating" ELSE "creating")

\* UpdateService, or CreateService unless somebody else created it.
CloudRunDeploy(d) ==
    /\ provider = "cloudrun" /\ stage[d] \in {"updating", "creating"}
    /\ stage[d] = "updating" \/ service = 0
    /\ Register(d) /\ Ask(revision'[d], WorkImage[d]) /\ Goto(d, "operation")
    /\ Steady /\ UNCHANGED <<serving, ran, flyVars>>

\* op.Wait: the operation is over when its revision serves.
CloudRunWait(d) ==
    /\ provider = "cloudrun" /\ stage[d] = "operation" /\ revision[d] \in ran
    /\ Only(d, "waiting")

\* Rollback takes the second revision listed, the first when there is one only.
CloudRunRollback ==
    /\ provider = "cloudrun" /\ revisions # <<>>
    /\ Choose(IF Len(revisions) > 1 THEN Len(revisions) - 1 ELSE 1)

-----------------------------------------------------------------------------
(* Fly *)

\* listMachines: none while the app does not exist.
listMachines == machines

FlyList(d) ==
    /\ provider = "fly" /\ stage[d] = "found"
    /\ Goto(d, IF listMachines = <<>> THEN "flyCreate" ELSE "flyUpdate")
    /\ early' = IF machines = <<>> THEN early \cup {d} ELSE early
    /\ Steady /\ UNCHANGED <<providerVars, machines, flyApp, revision, mine>>

\* The first machine is updated in place.
FlyUpdate(d) ==
    /\ provider = "fly" /\ stage[d] = "flyUpdate"
    /\ machines' = [machines EXCEPT ![1] = WorkImage[d]]
    /\ Goto(d, "waiting")
    /\ Steady /\ UNCHANGED <<providerVars, flyApp, early, revision, mine>>

\* A machine is created; 404 without the app, which is created once.
FlyCreate(d) ==
    /\ provider = "fly" /\ stage[d] \in {"flyCreate", "flyAgain"}
    /\ IF flyApp
         THEN machines' = Append(machines, WorkImage[d]) /\ Goto(d, "waiting")
         ELSE Goto(d, IF stage[d] = "flyCreate" THEN "flyApp" ELSE "failed") /\ UNCHANGED machines
    /\ Steady /\ UNCHANGED <<providerVars, flyApp, early, revision, mine>>

\* The app is created; its status is not looked at.
FlyCreateApp(d) ==
    /\ provider = "fly" /\ stage[d] = "flyApp"
    /\ flyApp' \in {flyApp, TRUE} /\ Goto(d, "flyAgain")
    /\ Steady /\ UNCHANGED <<providerVars, machines, early, revision, mine>>

-----------------------------------------------------------------------------
(* Render: a deploy of a service that must exist *)

RenderFind(d) ==
    /\ provider = "render" /\ stage[d] = "found"
    /\ \E exists \in BOOLEAN : Only(d, IF exists THEN "render" ELSE "failed")

RenderDeploy(d) ==
    /\ provider = "render" /\ stage[d] = "render"
    /\ Register(d) /\ Ask(revision'[d], WorkImage[d]) /\ Goto(d, "waiting")
    /\ Steady /\ UNCHANGED <<serving, ran, flyVars>>

\* The second live deploy listed; the provider keeps one or several live.
RenderRollback ==
    /\ provider = "render" /\ Len(revisions) > 1
    /\ \E rev \in ran \ {serving} : Choose(rev)

-----------------------------------------------------------------------------
(* The provider, and the readiness loop of the executor *)

\* A rollout ends; a failed one leaves the older revision serving.
RolloutEnds ==
    /\ rollout = "progress"
    /\ \/ rollout' = "stable" /\ serving' = service /\ ran' = ran \cup {service}
       \/ rollout' = "failed" /\ UNCHANGED <<serving, ran>>
    /\ Steady /\ UNCHANGED <<revisions, service, flyVars, stage, revision, mine>>

\* Status of each adapter.  A describe call may still show the older healthy
\* revision during a rollout, and a healthy service may be seen too early.
Settled == {"healthy", "notYet"}
Serves == rollout = "stable" \/ (StaleReads /\ serving # 0)

EcsStatus == IF service = 0 \/ rollout = "failed" THEN {"error"} ELSE IF Serves THEN Settled ELSE {"notYet"}

CloudRunStatus == IF service = 0 THEN {"error"} ELSE IF Serves THEN Settled ELSE {"notYet"}

\* Any machine that is started counts.
FlyStatus == IF machines = <<>> THEN {"notYet"} ELSE Settled

\* A service that is not suspended.
RenderStatus == Settled

Statuses ==
    CASE provider = "ecs" -> EcsStatus [] provider = "cloudrun" -> CloudRunStatus
      [] provider = "fly" -> FlyStatus [] OTHER -> RenderStatus

\* The service asks for d's image.
AsksFor(d) == service # 0 /\ revisions[service] = WorkImage[d]

StatusPoll(d) ==
    /\ stage[d] = "waiting"
    /\ \/ \E s \in Statuses :
             Goto(d, CASE s = "healthy" -> "healthy" [] s = "error" -> "failed" [] OTHER -> "waiting")
       \/ Goto(d, "failed")        \* the call fails, or five minutes are over
    /\ mine' = IF AsksFor(d) THEN mine \cup {d} ELSE mine \ {d}
    /\ Steady /\ UNCHANGED <<providerVars, flyVars, revision>>

\* VerifyImage, which only the ECS adapter has, describes the service; an error or
\* a missing service is not ready.
VerifyService(d) ==
    /\ stage[d] = "healthy"
    /\ \/ /\ provider = "ecs" /\ service # 0
          /\ described' = [described EXCEPT ![d] = service] /\ Goto(d, "described")
       \/ /\ UNCHANGED described /\ Goto(d, IF provider = "ecs" THEN "waiting" ELSE "verified")
    /\ UNCHANGED <<provider, registered, providerVars, flyVars, revision, rollbacks, undo, mine>>

\* Mutant: whatever the service asks for will do.
RequestedImageAny(d) == TRUE

\* The task definition that was read names the image.
RequestedImage(d) == revisions[described[d]] = WorkImage[d]

\* It then describes that task definition, which never changes; an error is not ready.
VerifyTask(d) ==
    /\ stage[d] = "described"
    /\ Only(d, "waiting") \/ (RequestedImage(d) /\ Only(d, "verified"))

\* executeCloudDeploy reports the workload as ready.
Report(d) ==
    /\ stage[d] = "verified"
    /\ Only(d, "ready")

CloudNext ==
    \/ RolloutEnds \/ EcsRollback \/ CloudRunRollback \/ RenderRollback \/ RollbackWrite
    \/ \E d \in Deployment :
          \/ LookupTarget(d) \/ CallFails(d) \/ EcsRegister(d) \/ EcsUpdate(d) \/ EcsCreate(d)
          \/ CloudRunGet(d) \/ CloudRunDeploy(d) \/ CloudRunWait(d)
          \/ FlyList(d) \/ FlyUpdate(d) \/ FlyCreate(d) \/ FlyCreateApp(d)
          \/ RenderFind(d) \/ RenderDeploy(d) \/ StatusPoll(d)
          \/ VerifyService(d) \/ VerifyTask(d) \/ Report(d)

CloudSpec == CloudInit /\ [][CloudNext]_cloudVars

-----------------------------------------------------------------------------
\* A deployment is reported ready on ECS only when the service asked for its image
\* at some moment between the healthy status and the report, however deployments
\* and rollbacks change the service between the reads of Status and VerifyImage
\* and before the report.
ReadyMeansMine == \A d \in Deployment : provider = "ecs" /\ stage[d] = "ready" => d \in mine

\* Violated: VerifyImage tells "ECS is not running the requested image revision" from
\* a ready one (ecs.go), since "An older healthy revision may still be visible during
\* rollout" (app_targets.go).  It reads what the service asks for, which need not
\* have run.
ReadyImageRan ==
    \A d \in Deployment :
        provider = "ecs" /\ stage[d] = "ready" => \E rev \in ran : revisions[rev] = WorkImage[d]

\* Violated: "Rollback retargets 100% of traffic to the previous ready revision"
\* (cloudrun.go).  It takes the second revision listed, ready or not.
RollbackToReady == provider = "cloudrun" /\ undo # 0 => undo \in ran

\* "billing does not grow linearly with deploy count": Fly has at most one
\* machine for each deployment that listed before the first machine existed.
MachinesBounded == Len(machines) <= Cardinality(early)

\* An ECS deployment reported as ready had its image asked for while it was being
\* verified; the machines are as many as the deployments that created one.
CloudInv == CloudTypeOK /\ ReadyMeansMine /\ MachinesBounded

=============================================================================
