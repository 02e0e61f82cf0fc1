------------------------------ MODULE KubeJobs ------------------------------
(***************************************************************************)
(* Work that Cooker runs as Kubernetes Jobs: image builds with Kaniko or   *)
(* Buildah (build/builder) and the containers of test and custom stages    *)
(* (build/stagerunner/kube.go).  Each call creates a Job, follows the logs *)
(* of its pod in a goroutine, polls the Job, reads the result from the     *)
(* pod and deletes the Job.  The cluster runs, loses or evicts the pod     *)
(* meanwhile; any API call may fail, and the context may end.              *)
(***************************************************************************)
EXTENDS Integers, FiniteSets

CONSTANTS
    Call,               \* calls of Build or Run
    Tags                \* destinations of a build

ASSUME KubeAssumption == Tags \in Nat

VARIABLES
    engine,             \* engine[c]: "kaniko", "buildah" or "stage"
    job,                \* "none", "active", "succeeded", "failed", "deleted"
    pod,                \* "none", "running", "terminated", "lost"
    fate,               \* how the Job ended: "open", "succeeded", "failed"
    pushed,             \* destinations that hold the image
    caller,             \* program point of the call
    seen,               \* how its poll saw the Job end
    outcome,            \* "none", "ok", "exit" (non-zero) or "error"
    logs,               \* the log goroutine: "off", "finding", "following", "done"
    expired,            \* the context has ended
    refused,            \* the API refused to delete the Job
    unanswered          \* the Job was created, but the answer was lost

Builder == {c \in Call : engine[c] # "stage"}

clusterVars == <<job, pod, fate, pushed>>
callVars == <<engine, caller, seen, outcome, logs, expired, refused, unanswered>>
kubeVars == <<clusterVars, callVars>>

KubeTypeOK ==
    /\ job \in [Call -> {"none", "active", "succeeded", "failed", "deleted"}]
    /\ engine \in [Call -> {"kaniko", "buildah", "stage"}]
    /\ pod \in [Call -> {"none", "running", "terminated", "lost"}]
    /\ fate \in [Call -> {"open", "succeeded", "failed"}] /\ pushed \in [Call -> 0..Tags]
    /\ caller \in [Call -> {"idle", "polling", "ended", "joining", "deleting", "returned"}]
    /\ outcome \in [Call -> {"none", "ok", "exit", "error"}]
    /\ logs \in [Call -> {"off", "finding", "following", "done"}]
    /\ expired \in [Call -> BOOLEAN] /\ refused \in [Call -> BOOLEAN] /\ unanswered \in [Call -> BOOLEAN]

KubeInit ==
    /\ job = [c \in Call |-> "none"] /\ pod = [c \in Call |-> "none"] /\ fate = [c \in Call |-> "open"]
    /\ pushed = [c \in Call |-> 0]
    /\ engine \in [Call -> {"kaniko", "buildah", "stage"}]
    /\ caller = [c \in Call |-> "idle"] /\ outcome = [c \in Call |-> "none"]
    /\ seen = [c \in Call |-> "none"]
    /\ logs = [c \in Call |-> "off"]
    /\ expired = [c \in Call |-> FALSE] /\ refused = [c \in Call |-> FALSE]
    /\ unanswered = [c \in Call |-> FALSE]

-----------------------------------------------------------------------------
(* The Jobs: one pod, no second try, deletion by the cluster some time after *)
(* the end; what the container does with the destinations                    *)

\* Kaniko pushes to its destinations when the image is complete.
kanikoJob == [backoffLimit |-> 0, ttl |-> TRUE, destinations |-> Tags, reports |-> "digest"]

\* buildahScript pushes one tag after the other; the first failure ends it.
buildahJob == [backoffLimit |-> 0, ttl |-> TRUE, destinations |-> Tags, reports |-> "digest"]

\* The container of a stage only has its exit code.
stageJob == [backoffLimit |-> 0, ttl |-> TRUE, destinations |-> 0, reports |-> "exitCode"]

JobSpec(c) ==
    CASE engine[c] = "kaniko" -> kanikoJob [] engine[c] = "buildah" -> buildahJob [] OTHER -> stageJob

-----------------------------------------------------------------------------
(* The cluster *)

PodStarts(c) ==
    /\ job[c] = "active" /\ pod[c] = "none"
    /\ pod' = [pod EXCEPT ![c] = "running"]
    /\ UNCHANGED <<job, fate, pushed, callVars>>

\* The container pushes to one more destination.
PushTag(c) ==
    /\ job[c] = "active" /\ pod[c] = "running" /\ pushed[c] < JobSpec(c).destinations
    /\ pushed' = [pushed EXCEPT ![c] = @ + 1]
    /\ UNCHANGED <<job, pod, fate, callVars>>

\* The container ends; without a backoff limit the Job does too.
PodEnds(c) ==
    /\ job[c] = "active" /\ pod[c] = "running" /\ JobSpec(c).backoffLimit = 0
    /\ pod' = [pod EXCEPT ![c] = "terminated"]
    /\ \E end \in {"succeeded", "failed"} :
          /\ end = "succeeded" => pushed[c] = JobSpec(c).destinations
          /\ job' = [job EXCEPT ![c] = end] /\ fate' = [fate EXCEPT ![c] = end]
    /\ UNCHANGED <<pushed, callVars>>

\* The pod is evicted, its node drained or it never starts: the Job fails and
\* no container status is left to read.
PodLost(c) ==
    /\ job[c] = "active" /\ JobSpec(c).backoffLimit = 0
    /\ pod' = [pod EXCEPT ![c] = "lost"]
    /\ job' = [job EXCEPT ![c] = "failed"] /\ fate' = [fate EXCEPT ![c] = "failed"]
    /\ UNCHANGED <<pushed, callVars>>

\* The cluster deletes a Job that ended, and its pod; a poll that comes later
\* does not find it.
JobCollected(c) ==
    /\ job[c] \in {"succeeded", "failed"} /\ JobSpec(c).ttl
    /\ job' = [job EXCEPT ![c] = "deleted"] /\ pod' = [pod EXCEPT ![c] = "lost"]
    /\ UNCHANGED <<fate, pushed, callVars>>

\* The deadline of the run, a cancellation, or the adapter's own timeout.
Expire(c) ==
    /\ caller[c] \notin {"idle", "returned"} /\ ~expired[c]
    /\ expired' = [expired EXCEPT ![c] = TRUE]
    /\ UNCHANGED <<clusterVars, caller, seen, outcome, logs, refused, unanswered, engine>>

-----------------------------------------------------------------------------
(* The call *)

\* Create the Job and start the log goroutine.  An error ends the call before the
\* deletion is deferred: the API refused, or the connection or the context ended
\* after the request was sent, and the Job may exist.
Create(c) ==
    /\ caller[c] = "idle"
    /\ \/ /\ job' = [job EXCEPT ![c] = "active"] /\ caller' = [caller EXCEPT ![c] = "polling"]
          /\ logs' = [logs EXCEPT ![c] = "finding"] /\ UNCHANGED <<outcome, unanswered>>
       \/ /\ caller' = [caller EXCEPT ![c] = "returned"] /\ outcome' = [outcome EXCEPT ![c] = "error"]
          /\ \E created \in BOOLEAN :
                /\ job' = [job EXCEPT ![c] = IF created THEN "active" ELSE @]
                /\ unanswered' = [unanswered EXCEPT ![c] = created]
          /\ UNCHANGED logs
    /\ UNCHANGED <<pod, fate, pushed, seen, expired, refused, engine>>

\* PollUntilContextCancel goes on, while the Job is active or not found, until
\* the context ends.
PollStops(c) == expired[c]

\* waitForCompletion sees the Job succeeded or failed, ...
PollEnded(c) ==
    /\ caller[c] = "polling" /\ ~expired[c] /\ job[c] \in {"succeeded", "failed"}
    /\ caller' = [caller EXCEPT ![c] = "ended"] /\ seen' = [seen EXCEPT ![c] = job[c]]
    /\ UNCHANGED <<clusterVars, outcome, logs, expired, refused, unanswered, engine>>

\* ... or the context ends, ...
PollGivesUp(c) ==
    /\ caller[c] = "polling" /\ PollStops(c)
    /\ caller' = [caller EXCEPT ![c] = "joining"] /\ outcome' = [outcome EXCEPT ![c] = "error"]
    /\ UNCHANGED <<clusterVars, seen, logs, expired, refused, unanswered, engine>>

\* ... or the API answers with an error other than NotFound.
PollApiError(c) ==
    /\ caller[c] = "polling"
    /\ caller' = [caller EXCEPT ![c] = "joining"] /\ outcome' = [outcome EXCEPT ![c] = "error"]
    /\ UNCHANGED <<clusterVars, seen, logs, expired, refused, unanswered, engine>>

\* fetchExitCode: 0 when the pods cannot be listed or none has a status.
fetchExitCode(c) ==
    {"ok"} \cup (IF pod[c] = "terminated" /\ fate[c] = "failed" THEN {"exit"} ELSE {})

\* Kaniko: a failed Job is an error; fetchDigest cannot fail.
KanikoResult(c) == IF seen[c] = "succeeded" THEN {"ok"} ELSE {"error"}

\* Buildah: the same.
BuildahResult(c) == IF seen[c] = "succeeded" THEN {"ok"} ELSE {"error"}

Results(c) ==
    CASE engine[c] = "kaniko" -> KanikoResult(c) [] engine[c] = "buildah" -> BuildahResult(c)
      [] OTHER -> fetchExitCode(c)

Fetch(c) ==
    /\ caller[c] = "ended"
    /\ caller' = [caller EXCEPT ![c] = "joining"]
    /\ \E res \in Results(c) : outcome' = [outcome EXCEPT ![c] = res]
    /\ UNCHANGED <<clusterVars, logs, seen, expired, refused, unanswered, engine>>

\* logsDone.Wait of the builders; a stage does not wait.
Joined(c) == c \in Builder => logs[c] \in {"off", "done"}

Join(c) ==
    /\ caller[c] = "joining" /\ Joined(c)
    /\ caller' = [caller EXCEPT ![c] = "deleting"]
    /\ UNCHANGED <<clusterVars, seen, outcome, logs, expired, refused, unanswered, engine>>

\* Mutant: the deletion uses the context of the call.
DeleteReachesLive(c) == ~expired[c]

\* The deferred deletion uses a context of its own.
DeleteReaches(c) == TRUE

DeleteJob(c) ==
    /\ caller[c] = "deleting"
    /\ caller' = [caller EXCEPT ![c] = "returned"]
    /\ \E accepted \in BOOLEAN :
          /\ job' = [job EXCEPT ![c] = IF accepted /\ DeleteReaches(c) THEN "deleted" ELSE @]
          /\ refused' = [refused EXCEPT ![c] = ~accepted]
    /\ UNCHANGED <<pod, fate, pushed, seen, outcome, logs, expired, unanswered, engine>>

-----------------------------------------------------------------------------
(* The log goroutine *)

\* streamLogs polls for the pod ...
FindPod(c) ==
    /\ logs[c] = "finding" /\ pod[c] \in {"running", "terminated"}
    /\ logs' = [logs EXCEPT ![c] = "following"]
    /\ UNCHANGED <<clusterVars, caller, seen, outcome, expired, refused, unanswered, engine>>

\* ... until the context ends, ...
FindPodStops(c) ==
    /\ logs[c] = "finding" /\ expired[c]
    /\ logs' = [logs EXCEPT ![c] = "done"]
    /\ UNCHANGED <<clusterVars, caller, seen, outcome, expired, refused, unanswered, engine>>

\* ... and follows it to its end, or to an error of the stream.
FollowEnds(c) ==
    /\ logs[c] = "following"
    /\ logs' = [logs EXCEPT ![c] = "done"]
    /\ UNCHANGED <<clusterVars, caller, seen, outcome, expired, refused, unanswered, engine>>

CallStep(c) ==
    PollEnded(c) \/ PollGivesUp(c) \/ Fetch(c) \/ Join(c) \/ DeleteJob(c)

LogStep(c) == FindPod(c) \/ FindPodStops(c) \/ FollowEnds(c)

KubeNext ==
    \E c \in Call :
        \/ PodStarts(c) \/ PushTag(c) \/ PodEnds(c) \/ PodLost(c) \/ JobCollected(c) \/ Expire(c) \/ Create(c) \/ PollApiError(c)
        \/ CallStep(c) \/ LogStep(c)

KubeSpec == KubeInit /\ [][KubeNext]_kubeVars

-----------------------------------------------------------------------------
\* A build reports an image only when its Job succeeded and every destination
\* holds the image, whatever the cluster deletes or loses meanwhile.
BuildsAreReal == \A c \in Builder : outcome[c] = "ok" => fate[c] = "succeeded" /\ pushed[c] = Tags

\* A call whose Create was answered leaves its Job behind only when the API refused
\* the deletion, whichever way the poll, the result and the context ended.
JobsCleaned ==
    \A c \in Call :
        caller[c] = "returned" /\ ~unanswered[c] /\ job[c] \notin {"none", "deleted"} => refused[c]

\* Violated: "The Job is deleted on every exit path (success, failure, ctx cancel)"
\* (builder/kaniko.go; stagerunner/kube.go says the same).  The deletion is deferred after the error of Create.
JobsAlwaysCleaned ==
    \A c \in Call : caller[c] = "returned" /\ job[c] \notin {"none", "deleted"} => refused[c]

\* Violated: "Returns 0 when no terminated status is found (a Succeeded Job)"
\* (stagerunner/kube.go).  The Job of an evicted pod failed and has no such status.
StagesAreReal == \A c \in Call \ Builder : outcome[c] = "ok" => fate[c] = "succeeded"

\* "join before returning": no log goroutine of a build outlives the build.
LogsJoined == \A c \in Builder : caller[c] = "returned" => logs[c] \in {"off", "done"}

\* Once its context ends a call returns, whatever the cluster does: the poll
\* and the join both end.
CallReturns == \A c \in Call : expired[c] ~> (caller[c] = "returned")

\* A build that succeeds pushed an image; however a call ends whose Job was created
\* and acknowledged, the Job is deleted unless the API refuses, and the goroutine
\* that copies its logs has ended where the builder joins it.
KubeInv == KubeTypeOK /\ BuildsAreReal /\ JobsCleaned /\ LogsJoined

=============================================================================
