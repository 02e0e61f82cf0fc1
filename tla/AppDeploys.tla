----------------------------- MODULE AppDeploys -----------------------------
(***************************************************************************)
(* Deploying an app and going back: the Deploy button, the push webhooks   *)
(* and the rollback (handler/app.go), their workers, the deployer          *)
(* (service/app_deployer.go), the deploy history (store app_deploys) and   *)
(* the drift check (service/app_drift.go).  One app on Kubernetes, several *)
(* releases at once; pushes move the branch and operators save a new       *)
(* build plan meanwhile.  An image is named after the release that built   *)
(* it (the tag holds its time in nanoseconds).                             *)
(***************************************************************************)
EXTENDS Integers, Sequences, FiniteSets

CONSTANTS
    Release,            \* requests that deploy
    ReleaseKind,        \* ReleaseKind[r]: "deploy", "webhook" or "rollback"
    Commit,             \* commits of the repository
    NoCommit, NoRelease

ASSUME AppDeploysAssumption ==
    /\ ReleaseKind \in [Release -> {"deploy", "webhook", "rollback"}]
    /\ NoCommit \notin Commit /\ NoRelease \notin Release

VARIABLES
    head,               \* commit at the head of the app's branch
    plan,               \* the app's build plan: [kind, commit], and autoDeploy
    release,            \* program point of each release
    planOf,             \* planOf[r]: the app as the request read it
    builtFrom,          \* builtFrom[r]: commit in its working tree
    workdir,            \* releases whose clone is on disk
    target,             \* target[r]: image it deploys
    result,             \* result[r]: status of the run it returns, "none" without
    runRow,             \* runRow[r]: status in the row of the run
    unsaved,            \* releases whose last write of the run row failed
    history,            \* rows of app_deploys, oldest first
    liveImage,          \* image of the live workload
    shipped,            \* images that a successful deploy brought to the cluster
    disturbed           \* the workload changed other than by one release alone
                        \* that succeeded and was recorded

releaseVars == <<release, planOf, builtFrom, workdir, target, result, runRow, unsaved>>
appDeployVars == <<head, plan, releaseVars, history, liveImage, shipped, disturbed>>

Plan == [kind : {"dockerfile", "compose"}, commit : Commit \cup {NoCommit}, auto : BOOLEAN]

AppDeploysTypeOK ==
    /\ head \in Commit /\ plan \in Plan
    /\ release \in [Release -> {"idle", "working", "cloned", "planned", "executed", "recorded", "returned",
                                "refused", "rejected", "done"}]
    /\ builtFrom \in [Release -> Commit \cup {NoCommit}] /\ workdir \subseteq Release
    /\ target \in [Release -> Release \cup {NoRelease}]
    /\ result \in [Release -> {"none", "success", "failed"}]
    /\ runRow \in [Release -> {"none", "running", "success", "failed"}]
    /\ liveImage \in Release \cup {NoRelease} /\ shipped \subseteq Release

AppDeploysInit ==
    /\ head \in Commit /\ plan \in {p \in Plan : p.commit # NoCommit => ~p.auto}
    /\ release = [r \in Release |-> "idle"]
    /\ planOf = [r \in Release |-> plan]
    /\ builtFrom = [r \in Release |-> NoCommit] /\ workdir = {}
    /\ target = [r \in Release |-> NoRelease]
    /\ result = [r \in Release |-> "none"] /\ runRow = [r \in Release |-> "none"]
    /\ unsaved = {} /\ history = <<>>
    /\ liveImage = NoRelease /\ shipped = {} /\ disturbed = FALSE

ReleaseGoes(r, point) == release' = [release EXCEPT ![r] = point]

Elsewhere == UNCHANGED <<head, plan, history, liveImage, shipped, disturbed>>

-----------------------------------------------------------------------------
(* The world: pushes, edits of the app, changes of the cluster *)

Push(c) ==
    /\ head # c /\ head' = c
    /\ UNCHANGED <<plan, releaseVars, history, liveImage, shipped, disturbed>>

\* An edit of the app; ValidateAppDeployment refuses a reviewed commit together
\* with automatic deploys.
SavePlan(p) ==
    /\ plan # p /\ (p.commit # NoCommit => ~p.auto)
    /\ plan' = p
    /\ UNCHANGED <<head, releaseVars, history, liveImage, shipped, disturbed>>

-----------------------------------------------------------------------------
(* The requests *)

\* GitHubWebhook: a push to the app's branch, not its deletion, signed with the
\* app's secret, for an app with automatic deploys.
WebhookAccepts(push) == push.branch /\ ~push.deleted /\ push.signed /\ plan.auto

\* The row of the run, status running, and Spawn: it may be refused for
\* capacity, which leaves the row.
Accept(r) ==
    /\ planOf' = [planOf EXCEPT ![r] = plan]
    /\ runRow' = [runRow EXCEPT ![r] = "running"]
    /\ \E spawned \in BOOLEAN : ReleaseGoes(r, IF spawned THEN "working" ELSE "rejected")

Refuse(r) == ReleaseGoes(r, "refused") /\ UNCHANGED <<planOf, runRow>>

\* DeployApp: target, configuration and capability are checked, then the view
\* and the run are created; any of these may fail.
DeployApp(r) ==
    /\ ReleaseKind[r] = "deploy" /\ release[r] = "idle"
    /\ target' = [target EXCEPT ![r] = r]
    /\ Accept(r) \/ Refuse(r)
    /\ UNCHANGED <<builtFrom, workdir, result, unsaved>> /\ Elsewhere

\* triggerWebhookDeploy for a push that the webhook accepts.
WebhookDeploy(r, push) ==
    /\ ReleaseKind[r] = "webhook" /\ release[r] = "idle"
    /\ target' = [target EXCEPT ![r] = r]
    /\ IF WebhookAccepts(push) THEN Accept(r) ELSE Refuse(r)
    /\ UNCHANGED <<builtFrom, workdir, result, unsaved>> /\ Elsewhere

\* The rows of a success that has an image, by position: a row that the
\* request names must be one.
imageRows == {i \in DOMAIN history : history[i].status = "success" /\ history[i].image # NoRelease}

\* The rows a default rollback considers.
candidates == {i \in imageRows : history[i].kind = "deploy"}

\* The row that ListByApp returns first.
newest(rows) == CHOOSE i \in rows : \A j \in rows : j <= i

\* resolveRollbackTarget: a row of the request, else the second candidate.
resolveRollbackTarget ==
    {history[i].image : i \in imageRows}
      \cup (IF Cardinality(candidates) < 2 THEN {}
            ELSE {history[newest(candidates \ {newest(candidates)})].image})

RollbackApp(r) ==
    /\ ReleaseKind[r] = "rollback" /\ release[r] = "idle"
    /\ \/ \E image \in resolveRollbackTarget :
             target' = [target EXCEPT ![r] = image] /\ Accept(r)
       \/ resolveRollbackTarget = {} /\ Refuse(r) /\ UNCHANGED target
    /\ UNCHANGED <<builtFrom, workdir, result, unsaved>> /\ Elsewhere

-----------------------------------------------------------------------------
(* The deployer *)

\* Deploy up to the clone: configuration, environment, checkout.
DeployClone(r) ==
    /\ ReleaseKind[r] # "rollback" /\ release[r] = "working"
    /\ \/ \E c \in {head} \cup ({planOf[r].commit} \ {NoCommit}) :
             /\ builtFrom' = [builtFrom EXCEPT ![r] = c]
             /\ workdir' = workdir \cup {r} /\ ReleaseGoes(r, "cloned")
       \/ ReleaseGoes(r, "returned") /\ UNCHANGED <<builtFrom, workdir>>
    /\ UNCHANGED <<planOf, target, result, runRow, unsaved>> /\ Elsewhere

\* Mutant: whatever was checked out is built.
HeadMatchesAny(r) == TRUE

\* "source checkout does not match reviewed commit"
HeadMatches(r) == planOf[r].commit # NoCommit => builtFrom[r] = planOf[r].commit

\* The deferred removal of the working tree, on every way out of Deploy.
Leaves(r) == workdir \ {r}

\* The pipeline is synthesized and saved, the run saved as running: or Deploy
\* returns an error without a run.
DeployPlan(r) ==
    /\ release[r] = "cloned"
    /\ \/ HeadMatches(r) /\ ReleaseGoes(r, "planned") /\ UNCHANGED workdir
       \/ ReleaseGoes(r, "returned") /\ workdir' = Leaves(r)
    /\ UNCHANGED <<planOf, builtFrom, target, result, runRow, unsaved>> /\ Elsewhere

\* DeployImage: the environment may not resolve, an error without a run.
DeployImage(r) ==
    /\ ReleaseKind[r] = "rollback" /\ release[r] = "working"
    /\ ReleaseGoes(r, "planned") \/ ReleaseGoes(r, "returned")
    /\ UNCHANGED <<planOf, builtFrom, workdir, target, result, runRow, unsaved>> /\ Elsewhere

InCluster == {r \in Release : release[r] \in {"planned", "executed"}}

\* A compose app has workloads of other names; its rows have no image.
SingleImage(r) == ReleaseKind[r] = "rollback" \/ planOf[r].kind = "dockerfile"

\* Execute: success, or a failure before or after the workload was applied.
ExecuteRelease(r) ==
    /\ release[r] = "planned" /\ ReleaseGoes(r, "executed")
    /\ \E res \in {"success", "failed"}, applied \in BOOLEAN :
          /\ res = "success" => applied
          /\ result' = [result EXCEPT ![r] = res]
          /\ liveImage' = IF applied /\ SingleImage(r) THEN target[r] ELSE liveImage
          /\ shipped' = IF res = "success" /\ SingleImage(r) THEN shipped \cup {target[r]} ELSE shipped
          /\ disturbed' = (disturbed \/ (applied /\ res = "failed") \/ InCluster # {r})
    /\ UNCHANGED <<head, plan, planOf, builtFrom, workdir, target, runRow, unsaved, history>>

\* deployRecordFromRun
deployRecordFromRun(r) ==
    [kind |-> IF ReleaseKind[r] = "rollback" THEN "rollback" ELSE "deploy", status |-> result[r],
     image |-> IF SingleImage(r) THEN target[r] ELSE NoRelease]

\* recordDeploy, best effort.
RecordDeploy(r) ==
    /\ release[r] = "executed" /\ ReleaseGoes(r, "recorded")
    /\ \/ history' = Append(history, deployRecordFromRun(r)) /\ UNCHANGED disturbed
       \/ disturbed' = TRUE /\ UNCHANGED history
    /\ UNCHANGED <<head, plan, planOf, builtFrom, workdir, target, result, runRow, unsaved, liveImage, shipped>>

\* Deploy returns the pipeline and the run.
DeployReturns(r) ==
    /\ release[r] = "recorded" /\ ReleaseGoes(r, "returned") /\ workdir' = Leaves(r)
    /\ UNCHANGED <<planOf, builtFrom, target, result, runRow, unsaved>> /\ Elsewhere

-----------------------------------------------------------------------------
(* The workers *)

\* The row a deploy worker writes when Deploy returned no run.
failedRun(r) == "failed"

\* runAppDeployCtx: the status of the run, or failed without one.
FinishDeploy(r) ==
    /\ ReleaseKind[r] # "rollback" /\ release[r] = "returned" /\ ReleaseGoes(r, "done")
    /\ \/ /\ runRow' = [runRow EXCEPT ![r] = IF result[r] = "none" THEN failedRun(r) ELSE result[r]]
          /\ UNCHANGED unsaved
       \/ unsaved' = unsaved \cup {r} /\ UNCHANGED runRow
    /\ UNCHANGED <<planOf, builtFrom, workdir, target, result>> /\ Elsewhere

\* runRollbackCtx: only the status of a run.
FinishRollback(r) ==
    /\ ReleaseKind[r] = "rollback" /\ release[r] = "returned" /\ ReleaseGoes(r, "done")
    /\ \/ /\ runRow' = [runRow EXCEPT ![r] = IF result[r] = "none" THEN @ ELSE result[r]]
          /\ UNCHANGED unsaved
       \/ unsaved' = unsaved \cup {r} /\ UNCHANGED runRow
    /\ UNCHANGED <<planOf, builtFrom, workdir, target, result>> /\ Elsewhere

ReleaseStep(r) ==
    \/ DeployClone(r) \/ DeployPlan(r) \/ DeployImage(r) \/ ExecuteRelease(r) \/ RecordDeploy(r)
    \/ DeployReturns(r) \/ FinishDeploy(r) \/ FinishRollback(r)

\* The pushes of the repository host and of others.
Pushes == [branch : BOOLEAN, deleted : BOOLEAN, signed : BOOLEAN]

AppDeploysNext(commits, plans) ==
    \/ \E c \in commits : Push(c)
    \/ \E p \in plans : SavePlan(p)
    \/ \E r \in Release :
          \/ DeployApp(r) \/ RollbackApp(r) \/ ReleaseStep(r)
          \/ release[r] = "idle" /\ \E push \in Pushes : WebhookDeploy(r, push)

AppDeploysSpec == AppDeploysInit /\ [][AppDeploysNext(Commit, Plan)]_appDeployVars

-----------------------------------------------------------------------------
(* Drift *)

\* The image of the newest successful row that has one.
expectedImage == IF imageRows = {} THEN NoRelease ELSE history[newest(imageRows)].image

CheckDrift ==
    IF expectedImage = NoRelease \/ liveImage = NoRelease THEN "unknown"
    ELSE IF liveImage = expectedImage THEN "in sync" ELSE "drifted"

-----------------------------------------------------------------------------
\* "source checkout does not match reviewed commit": what reaches the cluster for
\* an app with a reviewed commit, by a deploy or by a rollback to it, was built
\* from that commit, wherever the branch and the saved plan move meanwhile.
ReviewedCommitShips ==
    \A r \in shipped \cup ({liveImage} \ {NoRelease}) :
        planOf[r].commit # NoCommit => builtFrom[r] = planOf[r].commit

\* A rollback only goes to an image that a successful release brought to the
\* cluster, whatever deploys end or fail while it is resolved.
RollbackToShipped ==
    \A r \in Release : ReleaseKind[r] = "rollback" /\ target[r] # NoRelease => target[r] \in shipped

\* A deploy that has ended, even without producing a run, does not leave its
\* row running when the store takes the last write.
StubsSettle ==
    \A r \in Release \ unsaved :
        ReleaseKind[r] # "rollback" /\ release[r] = "done" => runRow[r] \in {"success", "failed"}

\* Drift is not reported of a workload that releases changed one at a time, each
\* successful and recorded: a rollback is not drift.
DriftIsReal == (InCluster = {} /\ ~disturbed) => CheckDrift # "drifted"

\* "Deploy cleans up the cloned working tree before returning", on every way.
WorkdirsRemoved == \A r \in workdir : release[r] \in {"cloned", "planned", "executed", "recorded"}

\* What releases leave behind: reviewed commits in the cluster, rollbacks to
\* images that ran, run rows that ended, no working tree, and no false drift.
AppDeploysInv ==
    /\ AppDeploysTypeOK
    /\ ReviewedCommitShips /\ RollbackToShipped /\ StubsSettle /\ WorkdirsRemoved /\ DriftIsReal

=============================================================================
