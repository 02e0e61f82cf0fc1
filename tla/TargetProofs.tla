---------------------------- MODULE TargetProofs ----------------------------
(***************************************************************************)
(* Proofs about what the deliveries run on, for every number of calls,     *)
(* deployments, hosts' operations, readers and providers: the Kubernetes   *)
(* Jobs (KubeJobs), the cached inventory (CloudInventory), ECS, Cloud Run  *)
(* and Fly (CloudTargets), SSH hosts (Hosts) and the deployers (Workloads).*)
(***************************************************************************)
EXTENDS KubeJobs, CloudInventory, CloudTargets, Hosts, Workloads, SequenceTheorems, FiniteSetTheorems, TLAPS

-----------------------------------------------------------------------------
(* Work that runs as Kubernetes Jobs *)

JobState == {"none", "active", "succeeded", "failed", "deleted"}
CallPoint == {"idle", "polling", "ended", "joining", "deleting", "returned"}

\* What holds of one call.  The way a Job ended is decided once, while the Job is
\* active, and outlives the Job; a build's answer repeats what a poll saw of it.
CallSound(c) ==
  /\ caller[c] = "idle" => job[c] = "none" /\ outcome[c] = "none" /\ logs[c] = "off"
  /\ job[c] \in {"none", "active"} => fate[c] = "open"
  /\ job[c] \in {"succeeded", "failed"} => fate[c] = job[c]
  /\ fate[c] = "succeeded" => pushed[c] = JobSpec(c).destinations
  /\ seen[c] = "succeeded" => fate[c] = "succeeded"
  /\ (engine[c] # "stage" /\ outcome[c] = "ok") => fate[c] = "succeeded"
  /\ (caller[c] = "returned" /\ ~unanswered[c] /\ job[c] \notin {"none", "deleted"}) => refused[c]
  /\ (engine[c] # "stage" /\ caller[c] \in {"deleting", "returned"}) => logs[c] \in {"off", "done"}

KubeIInv ==
  /\ KubeTypeOK
  /\ seen \in [Call -> {"none", "succeeded", "failed"}]
  /\ \A c \in Call : CallSound(c)

\* Both builders push every tag; a stage has no destination.
LEMMA Destinations ==
  ASSUME NEW c \in Call, engine[c] \in {"kaniko", "buildah", "stage"}
  PROVE  /\ JobSpec(c).destinations \in 0..Tags
         /\ engine[c] # "stage" => JobSpec(c).destinations = Tags
  <1>1. CASE engine[c] = "kaniko"
    BY <1>1, KubeAssumption DEF JobSpec, kanikoJob
  <1>2. CASE engine[c] = "buildah"
    BY <1>2, KubeAssumption DEF JobSpec, buildahJob
  <1>3. CASE engine[c] = "stage"
    <2>1. JobSpec(c) = stageJob
      BY <1>3, Zenon DEF JobSpec
    <2>2. JobSpec(c).destinations = 0
      BY <2>1 DEF stageJob
    <2>3. QED
      BY <1>3, <2>2, KubeAssumption
  <1>4. QED
    BY <1>1, <1>2, <1>3

LEMMA KubeInitially == KubeInit => KubeIInv
  BY KubeAssumption DEF KubeInit, KubeIInv, KubeTypeOK, CallSound

\* The cluster's steps change the Job, its pod and what was pushed.
LEMMA ClusterKeeps ==
  ASSUME KubeIInv, NEW c \in Call,
         PodStarts(c) \/ PushTag(c) \/ PodEnds(c) \/ PodLost(c) \/ JobCollected(c)
  PROVE  KubeIInv'
  <1>1. KubeTypeOK /\ seen \in [Call -> {"none", "succeeded", "failed"}] /\ \A d \in Call : CallSound(d)
    BY DEF KubeIInv
  <1>2. UNCHANGED callVars
    BY DEF PodStarts, PushTag, PodEnds, PodLost, JobCollected
  <1>3. JobSpec(c)' = JobSpec(c) /\ \A d \in Call : JobSpec(d)' = JobSpec(d)
    BY <1>2 DEF callVars, JobSpec
  <1>4. JobSpec(c).destinations \in 0..Tags /\ Tags \in Nat
    BY <1>1, Destinations, KubeAssumption DEF KubeTypeOK
  <1>5. /\ job' \in [Call -> JobState] /\ pod' \in [Call -> {"none", "running", "terminated", "lost"}]
        /\ fate' \in [Call -> {"open", "succeeded", "failed"}] /\ pushed' \in [Call -> 0..Tags]
    <2>1. CASE PushTag(c)
      <3>1. pushed[c] \in 0..Tags /\ pushed[c] < JobSpec(c).destinations
            /\ pushed' = [pushed EXCEPT ![c] = pushed[c] + 1]
        BY <1>1, <2>1 DEF PushTag, KubeTypeOK
      <3>2. pushed[c] + 1 \in 0..Tags
        BY <1>4, <3>1
      <3>3. QED
        BY <1>1, <2>1, <3>1, <3>2 DEF PushTag, KubeTypeOK, JobState
    <2>2. CASE PodStarts(c) \/ PodEnds(c) \/ PodLost(c) \/ JobCollected(c)
      BY <1>1, <2>2 DEF PodStarts, PodEnds, PodLost, JobCollected, KubeTypeOK, JobState
    <2>3. QED
      BY <2>1, <2>2
  <1>6. \A d \in Call \ {c} : job'[d] = job[d] /\ pod'[d] = pod[d] /\ fate'[d] = fate[d] /\ pushed'[d] = pushed[d]
    BY <1>1 DEF PodStarts, PushTag, PodEnds, PodLost, JobCollected, KubeTypeOK
  <1>7. KubeTypeOK'
    BY <1>1, <1>2, <1>5 DEF KubeTypeOK, callVars, JobState
  <1>8. \A d \in Call \ {c} : CallSound(d)'
    BY <1>1, <1>2, <1>3, <1>6 DEF CallSound, callVars
  <1>9. CallSound(c)'
    <2>1. CASE PodStarts(c)
      BY <1>1, <1>2, <1>3, <2>1 DEF CallSound, callVars, PodStarts
    <2>2. CASE PushTag(c)
      BY <1>1, <1>2, <1>3, <2>2 DEF CallSound, callVars, PushTag
    <2>3. CASE PodEnds(c)
      <3>1. PICK end \in {"succeeded", "failed"} :
              /\ end = "succeeded" => pushed[c] = JobSpec(c).destinations
              /\ job' = [job EXCEPT ![c] = end] /\ fate' = [fate EXCEPT ![c] = end]
        BY <2>3 DEF PodEnds
      <3>2. job'[c] = end /\ fate'[c] = end /\ job[c] = "active" /\ pushed' = pushed
        BY <1>1, <2>3, <3>1 DEF PodEnds, KubeTypeOK
      <3>3. QED
        BY <1>1, <1>2, <1>3, <3>1, <3>2 DEF CallSound, callVars
    <2>4. CASE PodLost(c)
      <3>1. job'[c] = "failed" /\ fate'[c] = "failed" /\ job[c] = "active" /\ pushed' = pushed
        BY <1>1, <2>4 DEF PodLost, KubeTypeOK
      <3>2. QED
        BY <1>1, <1>2, <1>3, <3>1 DEF CallSound, callVars
    <2>5. CASE JobCollected(c)
      <3>1. job'[c] = "deleted" /\ fate' = fate /\ job[c] \in {"succeeded", "failed"} /\ pushed' = pushed
        BY <1>1, <2>5 DEF JobCollected, KubeTypeOK
      <3>2. QED
        BY <1>1, <1>2, <1>3, <3>1 DEF CallSound, callVars
    <2>6. QED
      BY <2>1, <2>2, <2>3, <2>4, <2>5
  <1>10. QED
    BY <1>1, <1>2, <1>7, <1>8, <1>9 DEF KubeIInv, callVars

\* The call's own steps.
LEMMA CallKeeps ==
  ASSUME KubeIInv, NEW c \in Call, Create(c) \/ PollApiError(c) \/ CallStep(c)
  PROVE  KubeIInv'
  <1>1. KubeTypeOK /\ seen \in [Call -> {"none", "succeeded", "failed"}] /\ \A d \in Call : CallSound(d)
    BY DEF KubeIInv
  <1>2. UNCHANGED <<pod, fate, pushed, engine, expired>>
    BY DEF Create, PollApiError, CallStep, PollEnded, PollGivesUp, Fetch, Join, DeleteJob, clusterVars
  <1>3. \A d \in Call : JobSpec(d)' = JobSpec(d)
    BY <1>2 DEF JobSpec
  <1>4. ASSUME NEW d \in Call \ {c}
        PROVE  /\ job'[d] = job[d] /\ caller'[d] = caller[d] /\ seen'[d] = seen[d] /\ outcome'[d] = outcome[d]
               /\ logs'[d] = logs[d] /\ refused'[d] = refused[d] /\ unanswered'[d] = unanswered[d]
    BY <1>1 DEF Create, PollApiError, CallStep, PollEnded, PollGivesUp, Fetch, Join, DeleteJob, clusterVars,
                KubeTypeOK
  <1>5. \A d \in Call \ {c} : CallSound(d)'
    BY <1>1, <1>2, <1>3, <1>4 DEF CallSound
  <1>6. CASE Create(c)
    <2>1. /\ job' \in [Call -> JobState] /\ caller' \in [Call -> CallPoint]
          /\ outcome' \in [Call -> {"none", "ok", "exit", "error"}]
          /\ logs' \in [Call -> {"off", "finding", "following", "done"}]
          /\ unanswered' \in [Call -> BOOLEAN]
          /\ UNCHANGED <<seen, refused>>
      BY <1>1, <1>6 DEF Create, KubeTypeOK, JobState, CallPoint
    <2>2. \/ job'[c] = "active" /\ caller'[c] = "polling" /\ outcome' = outcome
          \/ job'[c] = job[c] /\ caller'[c] = "returned" /\ outcome'[c] = "error" /\ logs' = logs
          \/ job'[c] = "active" /\ unanswered'[c] /\ caller'[c] = "returned" /\ outcome'[c] = "error" /\ logs' = logs
      BY <1>1, <1>6 DEF Create, KubeTypeOK
    <2>3. caller[c] = "idle"
      BY <1>6 DEF Create
    <2>4. CallSound(c)'
      BY <1>1, <1>2, <1>3, <2>1, <2>2, <2>3 DEF CallSound
    <2>5. QED
      BY <1>1, <1>2, <1>5, <2>1, <2>4 DEF KubeIInv, KubeTypeOK, JobState, CallPoint
  <1>7. CASE PollApiError(c) \/ PollGivesUp(c)
    <2>1. /\ caller' = [caller EXCEPT ![c] = "joining"] /\ outcome' = [outcome EXCEPT ![c] = "error"]
          /\ UNCHANGED <<job, seen, logs, refused, unanswered>>
      BY <1>7 DEF PollApiError, PollGivesUp, clusterVars
    <2>2. CallSound(c)'
      BY <1>1, <1>2, <1>3, <2>1 DEF CallSound, KubeTypeOK
    <2>3. QED
      BY <1>1, <1>2, <1>5, <2>1, <2>2 DEF KubeIInv, KubeTypeOK
  <1>8. CASE PollEnded(c)
    <2>1. /\ caller' = [caller EXCEPT ![c] = "ended"] /\ seen' = [seen EXCEPT ![c] = job[c]]
          /\ job[c] \in {"succeeded", "failed"} /\ UNCHANGED <<job, outcome, logs, refused, unanswered>>
          /\ caller[c] = "polling"
      BY <1>8 DEF PollEnded, clusterVars
    <2>2. CallSound(c)'
      BY <1>1, <1>2, <1>3, <2>1 DEF CallSound, KubeTypeOK
    <2>3. QED
      BY <1>1, <1>2, <1>5, <2>1, <2>2 DEF KubeIInv, KubeTypeOK
  <1>9. CASE Fetch(c)
    <2>1. PICK res \in Results(c) : outcome' = [outcome EXCEPT ![c] = res]
      BY <1>9 DEF Fetch
    <2>2. /\ caller' = [caller EXCEPT ![c] = "joining"] /\ caller[c] = "ended"
          /\ UNCHANGED <<job, seen, logs, refused, unanswered>>
      BY <1>9 DEF Fetch, clusterVars
    <2>3. /\ res \in {"ok", "exit", "error"}
          /\ (engine[c] # "stage" /\ res = "ok") => seen[c] = "succeeded"
      <3>1. CASE engine[c] = "kaniko"
        BY <2>1, <3>1 DEF Results, KanikoResult
      <3>2. CASE engine[c] = "buildah"
        BY <2>1, <3>2 DEF Results, BuildahResult
      <3>3. CASE engine[c] = "stage"
        BY <2>1, <3>3 DEF Results, fetchExitCode
      <3>4. QED
        BY <1>1, <3>1, <3>2, <3>3 DEF KubeTypeOK
    <2>4. CallSound(c)'
      BY <1>1, <1>2, <1>3, <2>1, <2>2, <2>3 DEF CallSound, KubeTypeOK
    <2>5. QED
      BY <1>1, <1>2, <1>5, <2>1, <2>2, <2>3, <2>4 DEF KubeIInv, KubeTypeOK
  <1>10. CASE Join(c)
    <2>1. /\ caller' = [caller EXCEPT ![c] = "deleting"] /\ caller[c] = "joining"
          /\ engine[c] # "stage" => logs[c] \in {"off", "done"}
          /\ UNCHANGED <<job, seen, outcome, logs, refused, unanswered>>
      BY <1>10 DEF Join, Joined, Builder, clusterVars
    <2>2. CallSound(c)'
      BY <1>1, <1>2, <1>3, <2>1 DEF CallSound, KubeTypeOK
    <2>3. QED
      BY <1>1, <1>2, <1>5, <2>1, <2>2 DEF KubeIInv, KubeTypeOK
  <1>11. CASE DeleteJob(c)
    <2>1. PICK accepted \in BOOLEAN :
            /\ job' = [job EXCEPT ![c] = IF accepted THEN "deleted" ELSE job[c]]
            /\ refused' = [refused EXCEPT ![c] = ~accepted]
      BY <1>11 DEF DeleteJob, DeleteReaches
    <2>2. /\ caller' = [caller EXCEPT ![c] = "returned"] /\ caller[c] = "deleting"
          /\ UNCHANGED <<seen, outcome, logs, unanswered>>
      BY <1>11 DEF DeleteJob
    <2>3. CallSound(c)'
      <3>1. CASE accepted
        BY <1>1, <1>2, <1>3, <2>1, <2>2, <3>1 DEF CallSound, KubeTypeOK
      <3>2. CASE ~accepted
        <4>1. refused'[c]
          BY <1>1, <2>1, <3>2, Zenon DEF KubeTypeOK
        <4>2. job'[c] = job[c] /\ caller'[c] = "returned"
          BY <1>1, <2>1, <2>2, <3>2 DEF KubeTypeOK
        <4>3. QED
          BY <1>1, <1>2, <1>3, <2>2, <4>1, <4>2 DEF CallSound
      <3>3. QED
        BY <3>1, <3>2
    <2>4. QED
      BY <1>1, <1>2, <1>5, <2>1, <2>2, <2>3 DEF KubeIInv, KubeTypeOK
  <1>12. QED
    BY <1>6, <1>7, <1>8, <1>9, <1>10, <1>11 DEF CallStep

\* The log goroutine's steps, and the end of the call's context.
LEMMA LogsKeep ==
  ASSUME KubeIInv, NEW c \in Call, LogStep(c) \/ Expire(c)
  PROVE  KubeIInv'
  <1>1. KubeTypeOK /\ seen \in [Call -> {"none", "succeeded", "failed"}] /\ \A d \in Call : CallSound(d)
    BY DEF KubeIInv
  <1>2. UNCHANGED <<job, pod, fate, pushed, engine, caller, seen, outcome, refused, unanswered>>
    BY DEF LogStep, FindPod, FindPodStops, FollowEnds, Expire, clusterVars
  <1>3. \A d \in Call : JobSpec(d)' = JobSpec(d)
    BY <1>2 DEF JobSpec
  <1>4. /\ logs' \in [Call -> {"off", "finding", "following", "done"}] /\ expired' \in [Call -> BOOLEAN]
        /\ \A d \in Call : logs'[d] = logs[d] \/ logs[d] \notin {"off", "done"}
    <2>1. CASE LogStep(c)
      BY <1>1, <2>1 DEF LogStep, FindPod, FindPodStops, FollowEnds, KubeTypeOK
    <2>2. CASE Expire(c)
      BY <1>1, <2>2 DEF Expire, KubeTypeOK
    <2>3. QED
      BY <2>1, <2>2
  <1>5. \A d \in Call : CallSound(d)'
    BY <1>1, <1>2, <1>3, <1>4 DEF CallSound
  <1>6. QED
    BY <1>1, <1>2, <1>4, <1>5 DEF KubeIInv, KubeTypeOK

\* Builds report only images that every tag holds, no call whose Create was answered
\* leaves its Job behind unless the API refused, and no build's log goroutine
\* outlives it, for any calls, tags, lost answers and losses of the cluster
\* (Kaniko's and Buildah's Build, the stage runner).
THEOREM KubeInvariant == KubeSpec => []KubeInv
  <1>1. KubeIInv /\ [KubeNext]_kubeVars => KubeIInv'
    <2>1. SUFFICES ASSUME KubeIInv, [KubeNext]_kubeVars PROVE KubeIInv'
      OBVIOUS
    <2>2. CASE UNCHANGED kubeVars
      BY <2>1, <2>2 DEF kubeVars, clusterVars, callVars, KubeIInv, KubeTypeOK, CallSound, JobSpec
    <2>3. CASE KubeNext
      BY <2>1, <2>3, ClusterKeeps, CallKeeps, LogsKeep DEF KubeNext
    <2>4. QED
      BY <2>1, <2>2, <2>3
  <1>2. KubeIInv => KubeInv
    <2>1. SUFFICES ASSUME KubeIInv PROVE BuildsAreReal /\ JobsCleaned /\ LogsJoined
      BY DEF KubeInv, KubeIInv
    <2>2. \A c \in Call : CallSound(c) /\ (engine[c] # "stage" => JobSpec(c).destinations = Tags)
      BY <2>1, Destinations DEF KubeIInv, KubeTypeOK
    <2>3. QED
      BY <2>2 DEF BuildsAreReal, JobsCleaned, LogsJoined, Builder, CallSound
  <1>3. QED
    BY <1>1, <1>2, KubeInitially, PTL DEF KubeSpec

-----------------------------------------------------------------------------
(* CloudInventory *)

\* A generation per refresh that started.
GenerationsCounted ==
    generation = Cardinality({r \in Refresher : req[r] # "new"})

\* A request has answers only while it fetches; a fetch of the current
\* generation has learned nothing that is older than the last refresh.
FetchesSound ==
    /\ asked <= changes
    /\ \A r \in Request :
          /\ since[r] <= generation
          /\ \A p \in Provider : /\ req[r] # "fetching" => answers[r][p] = NoAnswer
                                 /\ since[r] = generation /\ answers[r][p].kind = "ok"
                                       => answers[r][p].saw >= asked
    /\ \A r \in Reader : \A p \in Provider : answers[r][p].kind # "cancelled"

\* A closed call has been answered, with what it fetched or with nothing.
ClosedReplied ==
    \A q \in closed : /\ req[q] = "end"
                      /\ reply[q].what = NoSnapshot \/ reply[q].from = "fetch"

\* The cache expires by the lifetime of what it holds.
ExpiryKept == cache # NoSnapshot => expiry = cache.fetchedAt + lifetime(cache)

InventoryIInv ==
    InventoryInv /\ GenerationsCounted /\ FetchesSound /\ ClosedReplied /\ ExpiryKept

\* A request that ends or moves on without being a new refresh leaves the
\* count of generations alone.
LEMMA GenerationsKept ==
    ASSUME InventoryIInv, NEW r \in Request, NEW pt \in {"fetching", "waiting", "end"},
           req' = [req EXCEPT ![r] = pt],
           r \in Reader \/ req[r] # "new", UNCHANGED generation
    PROVE  GenerationsCounted'
  <1>1. {q \in Refresher : req'[q] # "new"} = {q \in Refresher : req[q] # "new"}
    BY InventoryAssumption DEF InventoryIInv, InventoryInv, InventoryTypeOK, Request
  <1> QED  BY <1>1 DEF GenerationsCounted, InventoryIInv

\* A new refresh starts the next generation.
LEMMA GenerationStarts ==
    ASSUME InventoryIInv, NEW r \in Refresher, req[r] = "new",
           req' = [req EXCEPT ![r] = "fetching"], generation' = generation + 1
    PROVE  GenerationsCounted' /\ generation + 1 \in 0 .. Cardinality(Refresher)
  <1> DEFINE A == {q \in Refresher : req[q] # "new"}
  <1>1. {q \in Refresher : req'[q] # "new"} = A \cup {r} /\ r \notin A /\ A \subseteq Refresher
    BY DEF InventoryIInv, InventoryInv, InventoryTypeOK, Request
  <1>2. IsFiniteSet(A) /\ IsFiniteSet(A \cup {r})
    BY <1>1, InventoryAssumption, FS_Subset
  <1>3. Cardinality(A \cup {r}) = Cardinality(A) + 1
    BY <1>1, <1>2, FS_AddElement
  <1>4. Cardinality(A \cup {r}) <= Cardinality(Refresher)
    BY <1>1, InventoryAssumption, FS_Subset
  <1>5. generation = Cardinality(A) /\ Cardinality(A) \in Nat /\ Cardinality(Refresher) \in Nat
    BY <1>2, InventoryAssumption, FS_CardinalityType DEF InventoryIInv, GenerationsCounted
  <1> QED  BY <1>1, <1>3, <1>4, <1>5 DEF GenerationsCounted

\* What the first answer of a call is: not a cancellation, for a shared call.
LEMMA FetchAnswers ==
    ASSUME InventoryIInv, NEW r \in Request, NEW p \in Provider, fetchOne(r, p)
    PROVE  \E ans \in Answer :
              /\ answers' = [answers EXCEPT ![r][p] = ans]
              /\ ans.kind = "ok" => ans.saw = changes
              /\ r \in Reader => ans.kind # "cancelled"
  <1>1. CASE Cancelled(r)
    <2>1. answers' = [answers EXCEPT ![r][p] = [kind |-> "cancelled", saw |-> 0]]
      BY <1>1 DEF fetchOne
    <2> QED  BY <1>1, <2>1, InventoryAssumption DEF Answer, Cancelled
  <1>2. CASE ~Cancelled(r) /\ p \notin up
    <2>1. answers' = [answers EXCEPT ![r][p] = [kind |-> "outage", saw |-> 0]]
      BY <1>2 DEF fetchOne
    <2>2. [kind |-> "outage", saw |-> 0] \in Answer
      BY DEF Answer
    <2> QED  BY <2>1, <2>2
  <1>3. CASE ~Cancelled(r) /\ p \in up
    <2>1. answers' = [answers EXCEPT ![r][p] = [kind |-> "ok", saw |-> changes]]
      BY <1>3 DEF fetchOne
    <2>2. [kind |-> "ok", saw |-> changes] \in Answer
      BY DEF Answer, InventoryIInv, InventoryInv, InventoryTypeOK
    <2> QED  BY <2>1, <2>2
  <1> QED  BY <1>1, <1>2, <1>3

\* A reader's own answer.
LEMMA Responds ==
    ASSUME InventoryIInv, NEW r \in Reader, NEW from, NEW what, Respond(r, from, what)
    PROVE  /\ req' = [req EXCEPT ![r] = "end"] /\ req'[r] = "end"
           /\ reply'[r] = [from |-> from, what |-> what, when |-> time]
           /\ \A q \in Reader \ {r} : reply'[q] = reply[q] /\ req'[q] = req[q]
           /\ \A q \in Request \ {r} : req'[q] = req[q]
  BY DEF Respond, InventoryIInv, InventoryInv, InventoryTypeOK, Request

\* The bound on how long a total failure is served.
Brief == IF negativeTTL < TTL THEN negativeTTL ELSE TTL

\* A reader that ends without a fetch of its own.
LEMMA ReplyKeeps ==
    ASSUME InventoryIInv, NEW r \in Reader, NEW from \in {"cache", "join", "fallback"},
           NEW what \in Snapshot \cup {NoSnapshot}, Respond(r, from, what),
           UNCHANGED <<cloudSide, serviceVars, since, answers, joined, closed, gone>>,
           req[r] \in {"new", "waiting"},
           from = "join" /\ what # NoSnapshot =>
              \A p \in Provider : what.results[p].kind # "cancelled",
           from = "cache" /\ allProvidersFailed(what) => time < what.fetchedAt + Brief
    PROVE  InventoryIInv'
  <1> USE DEF InventoryIInv, InventoryInv, InventoryTypeOK, cloudSide, serviceVars
  <1>1. /\ req' = [req EXCEPT ![r] = "end"] /\ req'[r] = "end"
        /\ reply'[r] = [from |-> from, what |-> what, when |-> time]
        /\ \A q \in Reader \ {r} : reply'[q] = reply[q] /\ req'[q] = req[q]
        /\ \A q \in Request \ {r} : req'[q] = req[q]
    BY Responds
  <1>2. InventoryTypeOK'
    <2>1. reply' \in [Reader -> [from : {"none", "cache", "fetch", "join", "fallback", "panic"},
                                 what : Snapshot \cup {NoSnapshot}, when : 0 .. MaxTime]]
      BY DEF Respond
    <2> QED  BY <1>1, <2>1
  <1>3. CachedSinceRefresh' /\ ExpiryKept'
    BY DEF CachedSinceRefresh, ExpiryKept, lifetime, allProvidersFailed
  <1>4. OneSharedFetch'
    BY <1>1 DEF OneSharedFetch
  <1>5. SharedNotCancelled'
    BY <1>1 DEF SharedNotCancelled
  <1>6. FailureServedBriefly'
    <2> SUFFICES ASSUME NEW q \in Reader, reply'[q].from = "cache",
                        allProvidersFailed(reply'[q].what)
                 PROVE  reply'[q].when < reply'[q].what.fetchedAt + Brief
      BY DEF FailureServedBriefly, Brief, allProvidersFailed
    <2>1. CASE q = r
      BY <1>1, <2>1
    <2>2. CASE q # r
      BY <1>1, <2>2 DEF FailureServedBriefly, Brief
    <2> QED  BY <2>1, <2>2
  <1>7. GenerationsCounted'
    BY <1>1, GenerationsKept DEF Request
  <1>8. FetchesSound'
    BY <1>1 DEF FetchesSound
  <1>9. ClosedReplied'
    <2>1. r \notin closed
      BY DEF ClosedReplied
    <2> QED  BY <1>1, <2>1 DEF ClosedReplied
  <1> QED  BY <1>2, <1>3, <1>4, <1>5, <1>6, <1>7, <1>8, <1>9

\* Reads that hit the cache, joiners that wake, and joiners that give up.
LEMMA ReadsEnd ==
    ASSUME InventoryIInv, NEW r \in Reader, ReadHit(r) \/ JoinDone(r) \/ snapshot(r)
    PROVE  InventoryIInv'
  <1> USE DEF InventoryIInv, InventoryInv, InventoryTypeOK
  <1>1. CASE ReadHit(r)
    <2>1. /\ req[r] = "new" /\ cache # NoSnapshot /\ time < expiry /\ Respond(r, "cache", cache)
          /\ UNCHANGED <<cloudSide, serviceVars, since, answers, joined, closed, gone>>
      BY <1>1 DEF ReadHit, Fresh
    <2>2. allProvidersFailed(cache) => time < cache.fetchedAt + Brief
      BY <2>1 DEF ExpiryKept, lifetime, Brief
    <2> HIDE DEF InventoryIInv, InventoryInv
    <2>3. cache \in Snapshot \cup {NoSnapshot}
      BY DEF InventoryIInv, InventoryInv
    <2> QED  BY <2>1, <2>2, <2>3, ReplyKeeps
  <1>2. CASE JoinDone(r)
    <2> DEFINE q == joined[r]
    <2>1. /\ req[r] = "waiting" /\ q \in closed /\ Respond(r, "join", reply[q].what)
          /\ UNCHANGED <<cloudSide, serviceVars, since, answers, joined, closed, gone>>
      BY <1>2 DEF JoinDone
    <2>2. q \in Reader /\ (reply[q].what = NoSnapshot \/ reply[q].from = "fetch")
      BY <2>1 DEF ClosedReplied
    <2>3. reply[q].what \in Snapshot \cup {NoSnapshot}
      BY <2>2
    <2>4. reply[q].what # NoSnapshot =>
             \A p \in Provider : reply[q].what.results[p].kind # "cancelled"
      BY <2>2 DEF SharedNotCancelled
    <2> HIDE DEF InventoryIInv, InventoryInv, q
    <2> QED  BY <2>1, <2>3, <2>4, ReplyKeeps
  <1>3. CASE snapshot(r)
    <2>1. /\ req[r] = "waiting" /\ Respond(r, "fallback", cache)
          /\ UNCHANGED <<cloudSide, serviceVars, since, answers, joined, closed, gone>>
      BY <1>3 DEF snapshot
    <2> HIDE DEF InventoryIInv, InventoryInv
    <2>2. cache \in Snapshot \cup {NoSnapshot}
      BY DEF InventoryIInv, InventoryInv
    <2> QED  BY <2>1, <2>2, ReplyKeeps
  <1> QED  BY <1>1, <1>2, <1>3

\* Reads that start: to join, or to lead.
LEMMA ReadsStart ==
    ASSUME InventoryIInv, NEW r \in Reader, ReadJoin(r) \/ ReadLead(r)
    PROVE  InventoryIInv'
  <1> USE DEF InventoryIInv, InventoryInv, InventoryTypeOK, cloudSide, serviceVars
  <1>0. /\ UNCHANGED <<changes, time, up, cache, expiry, generation, asked, answers, closed, gone, reply>>
        /\ req[r] = "new" /\ r \in Request
    BY DEF ReadJoin, ReadLead, Request
  <1>1. CachedSinceRefresh' /\ ExpiryKept' /\ SharedNotCancelled' /\ FailureServedBriefly'
    BY <1>0 DEF CachedSinceRefresh, ExpiryKept, lifetime, allProvidersFailed, SharedNotCancelled,
       FailureServedBriefly
  <1>2. r \notin closed
    BY <1>0 DEF ClosedReplied
  <1>3. CASE ReadJoin(r)
    <2>1. /\ req' = [req EXCEPT ![r] = "waiting"] /\ joined' = [joined EXCEPT ![r] = inflight]
          /\ UNCHANGED <<inflight, since>>
      BY <1>3 DEF ReadJoin
    <2>2. InventoryTypeOK'
      BY <1>0, <2>1
    <2>3. OneSharedFetch'
      BY <1>0, <2>1 DEF OneSharedFetch
    <2>4. GenerationsCounted'
      BY <1>0, <2>1, GenerationsKept
    <2>5. FetchesSound'
      BY <1>0, <2>1 DEF FetchesSound
    <2>6. ClosedReplied'
      BY <1>0, <1>2, <2>1 DEF ClosedReplied
    <2> QED  BY <1>1, <2>2, <2>3, <2>4, <2>5, <2>6
  <1>4. CASE ReadLead(r)
    <2>1. /\ req' = [req EXCEPT ![r] = "fetching"] /\ since' = [since EXCEPT ![r] = generation]
          /\ inflight = NoCall /\ inflight' = r /\ UNCHANGED joined
      BY <1>4 DEF ReadLead
    <2>2. InventoryTypeOK'
      BY <1>0, <2>1
    <2>3. OneSharedFetch'
      BY <1>0, <2>1, InventoryAssumption DEF OneSharedFetch, Request
    <2>4. GenerationsCounted'
      BY <1>0, <2>1, GenerationsKept
    <2>5. FetchesSound'
      <3>1. \A p \in Provider : answers[r][p] = NoAnswer
        BY <1>0 DEF FetchesSound
      <3>2. since'[r] = generation /\ \A q \in Request \ {r} : since'[q] = since[q] /\ req'[q] = req[q]
        BY <1>0, <2>1
      <3> QED  BY <1>0, <2>1, <3>1, <3>2 DEF FetchesSound, NoAnswer
    <2>6. ClosedReplied'
      BY <1>0, <1>2, <2>1 DEF ClosedReplied
    <2> QED  BY <1>1, <2>2, <2>3, <2>4, <2>5, <2>6
  <1> QED  BY <1>3, <1>4

\* A refresh leaves every running fetch behind its generation.
LEMMA RefreshKeeps ==
    ASSUME InventoryIInv, NEW r \in Refresher, Refresh(r)
    PROVE  InventoryIInv'
  <1> USE DEF InventoryIInv, InventoryInv, InventoryTypeOK, cloudSide
  <1>1. /\ req[r] = "new" /\ cache' = NoSnapshot /\ expiry' = 0 /\ generation' = generation + 1
        /\ asked' = changes /\ req' = [req EXCEPT ![r] = "fetching"]
        /\ since' = [since EXCEPT ![r] = generation + 1]
        /\ UNCHANGED <<changes, time, up, inflight, answers, joined, closed, gone, reply>>
    BY DEF Refresh
  <1>2. r \in Request /\ r \notin Reader
    BY InventoryAssumption DEF Request
  <1>3. GenerationsCounted' /\ generation + 1 \in 0 .. Cardinality(Refresher)
    BY <1>1, GenerationStarts
  <1>4. InventoryTypeOK'
    <2>1. since' \in [Request -> 0 .. Cardinality(Refresher)]
      BY <1>1, <1>3
    <2>2. 0 \in 0 .. MaxTime + TTL
      BY InventoryAssumption
    <2> QED  BY <1>1, <1>3, <2>1, <2>2
  <1>5. CachedSinceRefresh' /\ ExpiryKept' /\ SharedNotCancelled' /\ FailureServedBriefly'
    BY <1>1 DEF CachedSinceRefresh, ExpiryKept, allProvidersFailed, SharedNotCancelled,
       FailureServedBriefly
  <1>6. \A q \in Request \ {r} : since'[q] = since[q] /\ req'[q] = req[q]
    BY <1>1
  <1>7. OneSharedFetch'
    BY <1>1, <1>2, <1>6 DEF OneSharedFetch, Request
  <1>8. FetchesSound'
    <2>1. \A p \in Provider : answers[r][p] = NoAnswer
      BY <1>1, <1>2 DEF FetchesSound
    <2>2. since'[r] = generation + 1 /\ req'[r] = "fetching"
      BY <1>1, <1>2
    <2>3. generation \in Nat /\ changes \in Nat /\ \A q \in Request : since[q] \in Nat
      <3>1. Cardinality(Refresher) \in Nat
        BY InventoryAssumption, FS_CardinalityType
      <3> QED  BY <3>1, InventoryAssumption
    <2> SUFFICES ASSUME NEW q \in Request
                 PROVE  /\ since'[q] <= generation'
                        /\ \A p \in Provider :
                              /\ req'[q] # "fetching" => answers[q][p] = NoAnswer
                              /\ since'[q] = generation' => answers[q][p].kind # "ok"
      BY <1>1, <2>3 DEF FetchesSound
    <2>4. CASE q = r
      BY <1>1, <2>1, <2>2, <2>3, <2>4 DEF NoAnswer
    <2>5. CASE q # r
      BY <1>1, <1>6, <2>3, <2>5 DEF FetchesSound
    <2> QED  BY <2>4, <2>5
  <1>9. ClosedReplied'
    BY <1>1, <1>2, <1>6 DEF ClosedReplied, Request
  <1> QED  BY <1>3, <1>4, <1>5, <1>7, <1>8, <1>9

\* One provider's answer.
LEMMA FetchKeeps ==
    ASSUME InventoryIInv, NEW r \in Request, NEW p \in Provider, fetchOne(r, p)
    PROVE  InventoryIInv'
  <1> USE DEF InventoryIInv, InventoryInv, InventoryTypeOK, cloudSide, serviceVars
  <1>1. /\ req[r] = "fetching"
        /\ UNCHANGED <<changes, time, up, cache, expiry, generation, inflight, asked, req, since,
                       joined, closed, gone, reply>>
    BY DEF fetchOne
  <1>2. PICK ans \in Answer : /\ answers' = [answers EXCEPT ![r][p] = ans]
                              /\ ans.kind = "ok" => ans.saw = changes
                              /\ r \in Reader => ans.kind # "cancelled"
    BY FetchAnswers
  <1>3. /\ answers' \in [Request -> [Provider -> Answer]] /\ answers'[r][p] = ans
        /\ \A q \in Request : \A o \in Provider : q # r \/ o # p => answers'[q][o] = answers[q][o]
    BY <1>2
  <1>4. InventoryTypeOK'
    BY <1>1, <1>3
  <1>5. CachedSinceRefresh' /\ ExpiryKept' /\ SharedNotCancelled' /\ FailureServedBriefly'
    BY <1>1 DEF CachedSinceRefresh, ExpiryKept, lifetime, allProvidersFailed, SharedNotCancelled,
       FailureServedBriefly
  <1>6. OneSharedFetch' /\ GenerationsCounted' /\ ClosedReplied'
    BY <1>1 DEF OneSharedFetch, GenerationsCounted, ClosedReplied
  <1>7. FetchesSound'
    BY <1>1, <1>2, <1>3 DEF FetchesSound, Request
  <1> QED  BY <1>4, <1>5, <1>6, <1>7

\* A fetch that ends, with its result or in a panic, frees the slot it held.
LEMMA SlotFreed ==
    ASSUME InventoryIInv, NEW r \in Request, req[r] = "fetching",
           req' = [req EXCEPT ![r] = "end"], Close(r)
    PROVE  /\ OneSharedFetch' /\ inflight' \in Reader \cup {NoCall} /\ closed' \subseteq Reader
           /\ closed' = IF r \in Reader THEN closed \cup {r} ELSE closed
  <1> USE DEF InventoryIInv, InventoryInv, InventoryTypeOK
  <1>1. CASE r \in Reader
    <2>1. inflight = r /\ {q \in Reader : req[q] = "fetching"} = {r}
      BY <1>1, InventoryAssumption DEF OneSharedFetch
    <2>2. inflight' = NoCall /\ closed' = closed \cup {r}
      BY <1>1 DEF Close
    <2>3. {q \in Reader : req'[q] = "fetching"} = {}
      BY <1>1, <2>1 DEF Request
    <2> QED  BY <1>1, <2>2, <2>3 DEF OneSharedFetch
  <1>2. CASE r \notin Reader
    <2>1. UNCHANGED <<inflight, closed>>
      BY <1>2 DEF Close
    <2>2. \A q \in Reader : req'[q] = req[q]
      BY <1>2 DEF Request
    <2> QED  BY <1>2, <2>1, <2>2 DEF OneSharedFetch
  <1> QED  BY <1>1, <1>2

\* The end of a fetch, with its result or in a panic: what it leaves in the
\* cache is the only thing the two differ in.
LEMMA FetchEnds ==
    ASSUME InventoryIInv, NEW r \in Request, req[r] = "fetching",
           NEW from \in {"fetch", "panic"}, NEW what \in Snapshot \cup {NoSnapshot},
           Respond(r, from, what), Close(r),
           from = "fetch" => what = [results |-> answers[r], fetchedAt |-> time],
           from = "panic" => what = NoSnapshot,
           answers' = [answers EXCEPT ![r] = [p \in Provider |-> NoAnswer]],
           UNCHANGED <<cloudSide, generation, asked, since, joined, gone>>,
           cache' \in Snapshot \cup {NoSnapshot}, expiry' \in 0 .. MaxTime + TTL,
           CachedSinceRefresh', ExpiryKept'
    PROVE  InventoryIInv'
  <1> USE DEF InventoryIInv, InventoryInv, InventoryTypeOK, cloudSide
  <1>1. /\ OneSharedFetch' /\ inflight' \in Reader \cup {NoCall} /\ closed' \subseteq Reader
        /\ closed' = IF r \in Reader THEN closed \cup {r} ELSE closed
    BY SlotFreed DEF Respond
  <1>2. /\ req' = [req EXCEPT ![r] = "end"] /\ req'[r] = "end"
        /\ \A q \in Request \ {r} : req'[q] = req[q]
        /\ \A q \in Reader \ {r} : reply'[q] = reply[q]
        /\ r \in Reader => reply'[r] = [from |-> from, what |-> what, when |-> time]
    BY DEF Respond
  <1>3. /\ answers' \in [Request -> [Provider -> Answer]]
        /\ \A p \in Provider : answers'[r][p] = NoAnswer
        /\ \A q \in Request \ {r} : answers'[q] = answers[q]
    <2>1. [p \in Provider |-> NoAnswer] \in [Provider -> Answer]
      BY DEF Answer
    <2> QED  BY <2>1
  <1>4. InventoryTypeOK'
    <2>1. reply' \in [Reader -> [from : {"none", "cache", "fetch", "join", "fallback", "panic"},
                                 what : Snapshot \cup {NoSnapshot}, when : 0 .. MaxTime]]
      BY DEF Respond
    <2> QED  BY <1>1, <1>2, <1>3, <2>1
  <1>5. SharedNotCancelled'
    <2> SUFFICES ASSUME NEW q \in Reader, reply'[q].from \in {"fetch", "join"},
                        reply'[q].what # NoSnapshot, NEW p \in Provider
                 PROVE  reply'[q].what.results[p].kind # "cancelled"
      BY DEF SharedNotCancelled
    <2>1. CASE q = r
      <3>1. what = [results |-> answers[r], fetchedAt |-> time] /\ reply'[q].what = what
        BY <1>2, <2>1
      <3>2. what.results[p] = answers[r][p]
        BY <3>1
      <3> QED  BY <2>1, <3>1, <3>2 DEF FetchesSound
    <2>2. CASE q # r
      BY <1>2, <2>2 DEF SharedNotCancelled
    <2> QED  BY <2>1, <2>2
  <1>6. FailureServedBriefly'
    <2> SUFFICES ASSUME NEW q \in Reader, reply'[q].from = "cache",
                        allProvidersFailed(reply'[q].what)
                 PROVE  reply'[q].when < reply'[q].what.fetchedAt + Brief
      BY DEF FailureServedBriefly, Brief, allProvidersFailed
    <2>1. q # r
      BY <1>2
    <2> QED  BY <1>2, <2>1 DEF FailureServedBriefly, Brief
  <1>7. GenerationsCounted'
    BY <1>2, GenerationsKept
  <1>8. FetchesSound'
    <2>1. \A q \in Request : /\ since[q] <= generation
                             /\ \A p \in Provider :
                                  /\ req'[q] # "fetching" => answers'[q][p] = NoAnswer
                                  /\ since[q] = generation /\ answers'[q][p].kind = "ok"
                                        => answers'[q][p].saw >= asked
      <3> TAKE q \in Request
      <3>1. CASE q = r
        BY <1>2, <1>3, <3>1 DEF FetchesSound, NoAnswer
      <3>2. CASE q # r
        BY <1>2, <1>3, <3>2 DEF FetchesSound
      <3> QED  BY <3>1, <3>2
    <2>2. \A q \in Reader : \A p \in Provider : answers'[q][p].kind # "cancelled"
      <3> TAKE q \in Reader
      <3>1. CASE q = r
        BY <1>3, <3>1 DEF NoAnswer
      <3>2. CASE q # r
        BY <1>3, <3>2 DEF FetchesSound, Request
      <3> QED  BY <3>1, <3>2
    <2> QED  BY <2>1, <2>2 DEF FetchesSound
  <1>9. ClosedReplied'
    <2> SUFFICES ASSUME NEW q \in closed'
                 PROVE  req'[q] = "end" /\ (reply'[q].what = NoSnapshot \/ reply'[q].from = "fetch")
      BY DEF ClosedReplied
    <2>1. q \in Reader /\ q \in Request
      BY <1>1 DEF Request
    <2>2. CASE q = r
      BY <1>2, <2>1, <2>2
    <2>3. CASE q # r
      BY <1>1, <1>2, <2>1, <2>3 DEF ClosedReplied
    <2> QED  BY <2>2, <2>3
  <1> QED  BY <1>1, <1>4, <1>5, <1>6, <1>7, <1>8, <1>9

\* The end of a fetch: the cache takes its result unless a refresh overtook it.
LEMMA StoreKeeps ==
    ASSUME InventoryIInv, NEW r \in Request, loadAndStore(r) \/ Panic(r)
    PROVE  InventoryIInv'
  <1> USE DEF InventoryIInv, InventoryInv, InventoryTypeOK
  <1>1. CASE loadAndStore(r)
    <2> DEFINE inv == [results |-> answers[r], fetchedAt |-> time]
    <2>1. /\ req[r] = "fetching" /\ Respond(r, "fetch", inv) /\ Close(r)
          /\ answers' = [answers EXCEPT ![r] = [p \in Provider |-> NoAnswer]]
          /\ UNCHANGED <<cloudSide, generation, asked, since, joined, gone>>
          /\ IF Current(r) THEN cache' = inv /\ expiry' = time + lifetime(inv)
                           ELSE UNCHANGED <<cache, expiry>>
      BY <1>1 DEF loadAndStore
    <2>2. inv \in Snapshot
      BY DEF Snapshot
    <2>3. /\ cache' \in Snapshot \cup {NoSnapshot} /\ expiry' \in 0 .. MaxTime + TTL
          /\ CachedSinceRefresh' /\ ExpiryKept'
      <3>1. CASE Current(r)
        <4>1. cache' = inv /\ expiry' = time + lifetime(inv) /\ asked' = asked
          BY <2>1, <3>1
        <4>2. lifetime(inv) \in 0 .. TTL
          BY InventoryAssumption DEF lifetime
        <4>3. expiry' \in 0 .. MaxTime + TTL
          BY <4>1, <4>2, InventoryAssumption
        <4>4. \A p \in Provider : inv.results[p] = answers[r][p]
          OBVIOUS
        <4>5. \A p \in Provider : inv.results[p].kind = "ok" => inv.results[p].saw >= asked
          BY <3>1, <4>4 DEF Current, FetchesSound
        <4>6. CachedSinceRefresh'
          BY <4>1, <4>5 DEF CachedSinceRefresh
        <4>7. ExpiryKept'
          BY <4>1 DEF ExpiryKept, lifetime, allProvidersFailed
        <4> QED  BY <2>2, <4>1, <4>3, <4>6, <4>7
      <3>2. CASE ~Current(r)
        BY <2>1, <3>2 DEF CachedSinceRefresh, ExpiryKept, lifetime, allProvidersFailed
      <3> QED  BY <3>1, <3>2
    <2> HIDE DEF InventoryIInv, InventoryInv
    <2> QED  BY <2>1, <2>2, <2>3, FetchEnds
  <1>2. CASE Panic(r)
    <2>1. /\ req[r] = "fetching" /\ Respond(r, "panic", NoSnapshot) /\ Close(r)
          /\ answers' = [answers EXCEPT ![r] = [p \in Provider |-> NoAnswer]]
          /\ UNCHANGED <<cloudSide, generation, asked, since, joined, gone>>
          /\ UNCHANGED <<cache, expiry>>
      BY <1>2 DEF Panic
    <2>2. /\ cache' \in Snapshot \cup {NoSnapshot} /\ expiry' \in 0 .. MaxTime + TTL
          /\ CachedSinceRefresh' /\ ExpiryKept'
      BY <2>1 DEF CachedSinceRefresh, ExpiryKept, lifetime, allProvidersFailed
    <2> HIDE DEF InventoryIInv, InventoryInv
    <2> QED  BY <2>1, <2>2, FetchEnds
  <1> QED  BY <1>1, <1>2

\* The world outside: clients that leave, resources that change, the clock.
LEMMA OutsideKeeps ==
    ASSUME InventoryIInv,
           (\E r \in Request : Disconnect(r)) \/ ResourcesChange \/ TimePasses \/ UNCHANGED inventoryVars
    PROVE  InventoryIInv'
  <1> USE DEF InventoryIInv, InventoryInv, InventoryTypeOK, serviceVars, cloudSide
  <1>1. UNCHANGED <<up, serviceVars, req, since, answers, joined, closed, reply>>
    BY DEF Disconnect, ResourcesChange, TimePasses, inventoryVars
  <1>2. /\ changes' \in 0 .. MaxChanges /\ time' \in 0 .. MaxTime /\ gone' \subseteq Request
        /\ changes' >= changes
    BY InventoryAssumption DEF Disconnect, ResourcesChange, TimePasses, inventoryVars
  <1>3. InventoryTypeOK'
    BY <1>1, <1>2
  <1>4. CachedSinceRefresh' /\ ExpiryKept' /\ SharedNotCancelled' /\ FailureServedBriefly'
    BY <1>1 DEF CachedSinceRefresh, ExpiryKept, lifetime, allProvidersFailed, SharedNotCancelled,
       FailureServedBriefly
  <1>5. OneSharedFetch' /\ GenerationsCounted' /\ ClosedReplied'
    BY <1>1 DEF OneSharedFetch, GenerationsCounted, ClosedReplied
  <1>6. FetchesSound'
    <2>1. asked' <= changes'
      BY <1>1, <1>2, InventoryAssumption DEF FetchesSound
    <2> QED  BY <1>1, <2>1 DEF FetchesSound
  <1> QED  BY <1>3, <1>4, <1>5, <1>6

(***************************************************************************)
(* Service in cloudinventory.go, for every set of readers, refreshers and  *)
(* providers and every pair of lifetimes: what loadAndStore puts into the  *)
(* cache is never older than the last Refresh, reads share one fetch that  *)
(* the leader's panic frees and no client's disconnect cancels, and a      *)
(* snapshot in which every provider failed is served only briefly.         *)
(***************************************************************************)
THEOREM InventoryInvariant == InventorySpec => []InventoryInv
  <1>1. InventoryInit => InventoryIInv
    <2> SUFFICES ASSUME InventoryInit PROVE InventoryIInv
      OBVIOUS
    <2> USE DEF InventoryInit
    <2>1. {r \in Refresher : req[r] # "new"} = {}
      BY DEF Request
    <2>2. GenerationsCounted /\ Cardinality(Refresher) \in Nat
      BY <2>1, FS_EmptySet, FS_CardinalityType, InventoryAssumption DEF GenerationsCounted
    <2>3. InventoryTypeOK
      <3>1. NoReply \in [from : {"none", "cache", "fetch", "join", "fallback", "panic"},
                         what : Snapshot \cup {NoSnapshot}, when : 0 .. MaxTime]
        BY InventoryAssumption DEF NoReply
      <3>2. NoAnswer \in Answer
        BY DEF Answer
      <3> QED  BY <2>2, <3>1, <3>2, InventoryAssumption DEF InventoryTypeOK
    <2>4. FetchesSound
      BY DEF FetchesSound, NoAnswer, Request
    <2>5. OneSharedFetch
      BY DEF OneSharedFetch, Request
    <2>6. CachedSinceRefresh /\ ExpiryKept /\ ClosedReplied /\ SharedNotCancelled
          /\ FailureServedBriefly
      BY DEF CachedSinceRefresh, ExpiryKept, ClosedReplied, SharedNotCancelled,
         FailureServedBriefly, NoReply
    <2> QED  BY <2>2, <2>3, <2>4, <2>5, <2>6 DEF InventoryIInv, InventoryInv
  <1>2. InventoryIInv /\ [InventoryNext]_inventoryVars => InventoryIInv'
    <2> SUFFICES ASSUME InventoryIInv, [InventoryNext]_inventoryVars PROVE InventoryIInv'
      OBVIOUS
    <2>1. \A r \in Reader : r \in Request
      BY DEF Request
    <2>2. CASE \E r \in Reader : ReadHit(r) \/ JoinDone(r) \/ snapshot(r)
      BY <2>2, ReadsEnd
    <2>3. CASE \E r \in Reader : ReadJoin(r) \/ ReadLead(r)
      BY <2>3, ReadsStart
    <2>4. CASE \E r \in Refresher : Refresh(r)
      BY <2>4, RefreshKeeps
    <2>5. CASE \E r \in Request : \E p \in Provider : fetchOne(r, p)
      BY <2>5, FetchKeeps
    <2>6. CASE \E r \in Request : loadAndStore(r) \/ Panic(r)
      BY <2>6, StoreKeeps
    <2>7. CASE (\E r \in Request : Disconnect(r)) \/ ResourcesChange \/ TimePasses
               \/ UNCHANGED inventoryVars
      BY <2>7, OutsideKeeps
    <2> QED  BY <2>1, <2>2, <2>3, <2>4, <2>5, <2>6, <2>7 DEF InventoryNext, Serve
  <1>3. InventoryIInv => InventoryInv
    BY DEF InventoryIInv
  <1> QED  BY <1>1, <1>2, <1>3, PTL DEF InventorySpec

-----------------------------------------------------------------------------
(* CloudTargets *)

Points == {"idle", "found", "registered", "creating", "updating", "operation", "flyCreate", "flyApp", "flyAgain",
           "flyUpdate", "render", "waiting", "healthy", "described", "verified", "ready", "failed"}
Images == {WorkImage[d] : d \in Deployment}

CloudShape ==
    /\ revisions \in Seq(Images) /\ Len(revisions) <= MaxRevisions /\ machines \in Seq(Images)
    /\ service \in 0 .. Len(revisions) /\ serving \in 0 .. Len(revisions) /\ ran \subseteq 0 .. Len(revisions)
    /\ rollout \in {"stable", "progress", "failed"}
    /\ stage \in [Deployment -> Points] /\ revision \in [Deployment -> 0 .. Len(revisions)]
    /\ early \subseteq Deployment /\ mine \subseteq Deployment
    /\ undo \in 0 .. Len(revisions) /\ described \in [Deployment -> 0 .. Len(revisions)]

\* What VerifyImage goes by: whatever it reads of the service between the status and
\* the report, a task definition with d's image was asked for since the status.
MineTold ==
    provider = "ecs" =>
        \A d \in Deployment :
            /\ stage[d] = "healthy" /\ AsksFor(d) => d \in mine
            /\ stage[d] = "described" => described[d] # 0 /\ (RequestedImage(d) => d \in mine)
            /\ stage[d] \in {"verified", "ready"} => d \in mine

\* The deployments that still may create a machine listed none, and the machines
\* there are were created by others that did.
Owing == {d \in Deployment : stage[d] \in {"flyCreate", "flyApp", "flyAgain"}}

MachinesPaid == Owing \subseteq early /\ Len(machines) <= Cardinality(early \ Owing)

CloudIInv == CloudShape /\ MineTold /\ MachinesPaid

LEMMA CloudInitially == CloudInit => CloudIInv
  <1> SUFFICES ASSUME CloudInit PROVE CloudIInv
    OBVIOUS
  <1>1. CloudShape
    BY CloudAssumption DEF CloudInit, CloudShape, Points
  <1>2. MineTold
    BY DEF CloudInit, MineTold
  <1>3. MachinesPaid
    <2>1. Owing = {} /\ early \ Owing = {} /\ Len(machines) = 0
      BY DEF CloudInit, Owing
    <2>2. Cardinality({}) = 0
      BY FS_EmptySet
    <2>3. Cardinality(early \ Owing) = 0
      BY <2>1, <2>2, Zenon
    <2>4. Len(machines) <= Cardinality(early \ Owing) /\ Owing \subseteq early
      BY <2>1, <2>3
    <2> QED  BY <2>4 DEF MachinesPaid
  <1> QED  BY <1>1, <1>2, <1>3 DEF CloudIInv

\* More who have paid can only be more.
LEMMA PaidGrows ==
    ASSUME NEW A \in SUBSET Deployment, NEW B \in SUBSET Deployment, A \subseteq B
    PROVE  Cardinality(A) \in Nat /\ Cardinality(B) \in Nat /\ Cardinality(A) <= Cardinality(B)
  <1>1. IsFiniteSet(A) /\ IsFiniteSet(B)
    BY CloudAssumption, FS_Subset
  <1> QED  BY <1>1, FS_CardinalityType, FS_Subset

LEMMA OneMorePaid ==
    ASSUME NEW A \in SUBSET Deployment, NEW d \in Deployment, d \notin A
    PROVE  Cardinality(A) \in Nat /\ Cardinality(A \cup {d}) = Cardinality(A) + 1
  <1>1. IsFiniteSet(A)
    BY CloudAssumption, FS_Subset
  <1> QED  BY <1>1, FS_CardinalityType, FS_AddElement

\* A step of a deployment that begins no machine.
LEMMA PaidStays ==
    ASSUME CloudIInv, NEW d \in Deployment, NEW p \in Points \ {"flyCreate", "flyApp", "flyAgain"},
           stage' = [stage EXCEPT ![d] = p], UNCHANGED early, Len(machines') = Len(machines)
    PROVE  MachinesPaid'
  <1>1. Owing' \subseteq Owing
    BY DEF Owing, CloudIInv, CloudShape
  <1>2. Owing \subseteq early /\ early \subseteq Deployment /\ Len(machines) <= Cardinality(early \ Owing)
        /\ Len(machines) \in Nat
    BY DEF CloudIInv, MachinesPaid, CloudShape
  <1>3. Cardinality(early \ Owing) \in Nat /\ Cardinality(early \ Owing') \in Nat
        /\ Cardinality(early \ Owing) <= Cardinality(early \ Owing')
    <2>1. (early \ Owing) \in SUBSET Deployment /\ (early \ Owing') \in SUBSET Deployment
          /\ (early \ Owing) \subseteq (early \ Owing')
      BY <1>1, <1>2
    <2> QED  BY <2>1, PaidGrows
  <1> QED  BY <1>1, <1>2, <1>3 DEF MachinesPaid

\* A step of a deployment that only moves it on.
LEMMA OnlyMoves ==
    ASSUME CloudIInv, NEW d \in Deployment,
           NEW p \in Points \ {"flyCreate", "flyApp", "flyAgain", "healthy", "described"},
           provider = "ecs" /\ p \in {"verified", "ready"} => d \in mine, Only(d, p)
    PROVE  CloudIInv'
  <1>1. /\ stage' = [stage EXCEPT ![d] = p]
        /\ UNCHANGED <<provider, revisions, service, serving, rollout, ran, machines, early, revision, undo,
                       described, mine>>
    BY DEF Only, Goto, Steady, providerVars, flyVars
  <1>2. CloudShape'
    BY <1>1 DEF CloudIInv, CloudShape
  <1>3. MineTold'
    <2>1. stage'[d] = p /\ \A e \in Deployment : e # d => stage'[e] = stage[e]
      BY <1>1 DEF CloudIInv, CloudShape
    <2> QED  BY <1>1, <2>1 DEF CloudIInv, MineTold, AsksFor, RequestedImage
  <1>4. MachinesPaid'
    BY <1>1, PaidStays
  <1> QED  BY <1>2, <1>3, <1>4 DEF CloudIInv

LEMMA CloudMoves ==
    ASSUME CloudIInv, NEW d \in Deployment,
           \/ LookupTarget(d) \/ CallFails(d) \/ CloudRunGet(d) \/ CloudRunWait(d) \/ RenderFind(d)
           \/ StatusPoll(d) \/ VerifyService(d) \/ VerifyTask(d) \/ Report(d)
    PROVE  CloudIInv'
  <1>1. CASE LookupTarget(d)
    BY <1>1, OnlyMoves DEF LookupTarget, Points
  <1>2. CASE CallFails(d)
    BY <1>2, OnlyMoves DEF CallFails, Points
  <1>3. CASE CloudRunGet(d)
    BY <1>3, OnlyMoves DEF CloudRunGet, Points
  <1>4. CASE CloudRunWait(d)
    BY <1>4, OnlyMoves DEF CloudRunWait, Points
  <1>5. CASE RenderFind(d)
    BY <1>5, OnlyMoves DEF RenderFind, Points
  <1>6. CASE StatusPoll(d)
    <2>1. PICK p \in {"healthy", "failed", "waiting"} : stage' = [stage EXCEPT ![d] = p]
      BY <1>6 DEF StatusPoll, Goto
    <2>2. /\ mine' = IF AsksFor(d) THEN mine \cup {d} ELSE mine \ {d}
          /\ UNCHANGED <<provider, revisions, service, serving, rollout, ran, machines, early, revision, undo, described>>
      BY <1>6 DEF StatusPoll, Steady, providerVars, flyVars
    <2>3. /\ stage \in [Deployment -> Points] /\ stage'[d] = p
          /\ \A e \in Deployment : e # d => stage'[e] = stage[e] /\ (e \in mine' <=> e \in mine)
      BY <2>1, <2>2 DEF CloudIInv, CloudShape
    <2>4. CloudShape'
      BY <2>1, <2>2 DEF CloudIInv, CloudShape, Points
    <2>5. MineTold'
      <3>1. AsksFor(d) => d \in mine'
        BY <2>2
      <3> QED  BY <2>1, <2>2, <2>3, <3>1 DEF CloudIInv, MineTold, AsksFor, RequestedImage
    <2>6. MachinesPaid'
      BY <2>1, <2>2, PaidStays DEF Points
    <2> QED  BY <2>4, <2>5, <2>6 DEF CloudIInv
  <1>7. CASE VerifyService(d)
    <2>1. CASE provider = "ecs" /\ service # 0 /\ described' = [described EXCEPT ![d] = service] /\ Goto(d, "described")
      <3>1. /\ stage' = [stage EXCEPT ![d] = "described"] /\ stage[d] = "healthy"
            /\ UNCHANGED <<provider, revisions, service, serving, rollout, ran, machines, early, revision, undo, mine>>
        BY <1>7, <2>1 DEF VerifyService, Goto, providerVars, flyVars
      <3>2. /\ stage'[d] = "described" /\ described'[d] = service
            /\ \A e \in Deployment : e # d => stage'[e] = stage[e] /\ described'[e] = described[e]
        BY <2>1, <3>1 DEF CloudIInv, CloudShape
      <3>3. CloudShape'
        BY <2>1, <3>1 DEF CloudIInv, CloudShape, Points
      <3>4. MineTold'
        BY <2>1, <3>1, <3>2 DEF CloudIInv, MineTold, AsksFor, RequestedImage
      <3>5. MachinesPaid'
        BY <3>1, PaidStays DEF Points
      <3> QED  BY <3>3, <3>4, <3>5 DEF CloudIInv
    <2>2. CASE UNCHANGED described /\ Goto(d, IF provider = "ecs" THEN "waiting" ELSE "verified")
      <3>1. Only(d, IF provider = "ecs" THEN "waiting" ELSE "verified")
        BY <1>7, <2>2 DEF VerifyService, Only, Steady
      <3> QED  BY <3>1, OnlyMoves DEF Points
    <2> QED  BY <1>7, <2>1, <2>2 DEF VerifyService
  <1>8. CASE VerifyTask(d)
    <2>1. CASE Only(d, "waiting")
      BY <2>1, OnlyMoves DEF Points
    <2>2. CASE RequestedImage(d) /\ Only(d, "verified")
      <3>1. provider = "ecs" => d \in mine
        BY <1>8, <2>2 DEF VerifyTask, CloudIInv, MineTold
      <3> QED  BY <2>2, <3>1, OnlyMoves DEF Points
    <2> QED  BY <1>8, <2>1, <2>2 DEF VerifyTask
  <1>9. CASE Report(d)
    <2>1. provider = "ecs" => d \in mine
      BY <1>9 DEF Report, CloudIInv, MineTold
    <2> QED  BY <1>9, <2>1, OnlyMoves DEF Report, Points
  <1> QED  BY <1>1, <1>2, <1>3, <1>4, <1>5, <1>6, <1>7, <1>8, <1>9

\* A revision is added, and the service may be told to take it.
LEMMA CloudRegisters ==
    ASSUME CloudIInv, NEW d \in Deployment, EcsRegister(d) \/ CloudRunDeploy(d) \/ RenderDeploy(d)
    PROVE  CloudIInv'
  <1> DEFINE n == Len(revisions)
  <1>0. n \in Nat /\ revisions \in Seq(Images) /\ WorkImage[d] \in Images
    BY DEF CloudIInv, CloudShape, Images
  <1>1. /\ n < MaxRevisions /\ revisions' = Append(revisions, WorkImage[d])
        /\ revision' = [revision EXCEPT ![d] = Len(revisions')]
    BY DEF EcsRegister, CloudRunDeploy, RenderDeploy, Register
  <1>2. revisions' \in Seq(Images) /\ Len(revisions') = n + 1
    BY <1>0, <1>1
  <1>3. revision' = [revision EXCEPT ![d] = n + 1] /\ revision'[d] = n + 1
    BY <1>1, <1>2 DEF CloudIInv, CloudShape
  <1>4. PICK p \in {"registered", "operation", "waiting"} :
           /\ stage' = [stage EXCEPT ![d] = p]
    BY DEF EcsRegister, CloudRunDeploy, RenderDeploy, Goto
  <1>5. /\ UNCHANGED <<provider, serving, ran, machines, early, undo, described>>
        /\ \/ service' = service /\ rollout' = rollout /\ mine' = mine
           \/ service' = n + 1 /\ rollout' = "progress" /\ provider # "ecs" /\ mine' \subseteq mine \cup Deployment
    BY <1>3 DEF EcsRegister, CloudRunDeploy, RenderDeploy, flyVars, Ask, Steady
  <1> HIDE DEF n
  <1>6. CloudShape'
    <2>1. /\ service \in 0 .. n /\ serving \in 0 .. n /\ ran \subseteq 0 .. n /\ stage \in [Deployment -> Points]
          /\ revision \in [Deployment -> 0 .. n] /\ MaxRevisions \in Nat
          /\ undo \in 0 .. n /\ described \in [Deployment -> 0 .. n] /\ mine \subseteq Deployment
      BY CloudAssumption DEF CloudIInv, CloudShape, n
    <2>2. revision' \in [Deployment -> 0 .. (n + 1)] /\ n + 1 <= MaxRevisions
      BY <1>0, <1>1, <1>3, <2>1 DEF n
    <2>3. service' \in 0 .. (n + 1) /\ serving' \in 0 .. (n + 1) /\ ran' \subseteq 0 .. (n + 1)
          /\ rollout' \in {"stable", "progress", "failed"}
      BY <1>0, <1>5, <2>1 DEF CloudIInv, CloudShape
    <2>4. stage' \in [Deployment -> Points]
      BY <1>4, <2>1 DEF Points
    <2>5. machines' \in Seq(Images) /\ early' \subseteq Deployment /\ mine' \subseteq Deployment
      BY <1>5, <2>1 DEF CloudIInv, CloudShape
    <2>6. undo' \in 0 .. (n + 1) /\ described' \in [Deployment -> 0 .. (n + 1)]
      <3>1. \A i \in 0 .. n : i \in 0 .. (n + 1)
        BY <1>0
      <3> QED  BY <1>5, <2>1, <3>1
    <2> QED  BY <1>2, <2>2, <2>3, <2>4, <2>5, <2>6 DEF CloudShape
  <1>7. MineTold'
    <2>1. CASE provider # "ecs"
      BY <1>5, <2>1 DEF MineTold
    <2>2. CASE provider = "ecs"
      <3>1. service' = service /\ mine' = mine /\ described' = described /\ provider' = "ecs"
        BY <1>5, <2>2
      <3>2. service \in 0 .. n /\ described \in [Deployment -> 0 .. n] /\ stage \in [Deployment -> Points]
        BY DEF CloudIInv, CloudShape, n
      <3>3. \A i \in 1 .. n : revisions'[i] = revisions[i]
        BY <1>0, <1>1 DEF n
      <3>4. \A e \in Deployment : AsksFor(e)' => AsksFor(e)
        BY <1>0, <3>1, <3>2, <3>3 DEF AsksFor
      <3>5. \A e \in Deployment : described[e] # 0 => (RequestedImage(e)' => RequestedImage(e))
        BY <1>0, <3>1, <3>2, <3>3 DEF RequestedImage
      <3>6. \A e \in Deployment : stage'[e] \in {"healthy", "described", "verified", "ready"} => stage'[e] = stage[e]
        BY <1>4, <3>2
      <3> QED  BY <2>2, <3>1, <3>4, <3>5, <3>6 DEF CloudIInv, MineTold
    <2> QED  BY <2>1, <2>2
  <1>8. MachinesPaid'
    BY <1>4, <1>5, PaidStays DEF Points
  <1> QED  BY <1>6, <1>7, <1>8 DEF CloudIInv

\* The service is told to take a revision there is.
LEMMA AskTells ==
    ASSUME CloudIInv, NEW rev \in 0 .. Len(revisions), Ask(rev, revisions[rev]),
           UNCHANGED <<provider, revisions, described>>,
           \A e \in Deployment : stage'[e] \in {"healthy", "described", "verified", "ready"} => stage'[e] = stage[e]
    PROVE  MineTold'
  <1>1. service' = rev /\ mine \subseteq mine' /\ \A e \in Deployment : WorkImage[e] = revisions[rev] => e \in mine'
    BY DEF Ask
  <1> QED  BY <1>1 DEF CloudIInv, MineTold, AsksFor, RequestedImage

LEMMA CloudEcs ==
    ASSUME CloudIInv, NEW d \in Deployment, EcsUpdate(d) \/ EcsCreate(d)
    PROVE  CloudIInv'
  <1>1. PICK p \in {"waiting", "creating", "failed"} : stage' = [stage EXCEPT ![d] = p]
    BY DEF EcsUpdate, EcsCreate, Goto
  <1>2. /\ provider = "ecs" /\ UNCHANGED <<provider, revisions, serving, ran, machines, early, revision, undo, described>>
        /\ \/ service' = service /\ rollout' = rollout /\ mine' = mine
           \/ Ask(revision[d], revisions[revision[d]])
    BY DEF EcsUpdate, EcsCreate, flyVars, Steady
  <1>3. CloudShape'
    BY <1>1, <1>2 DEF CloudIInv, CloudShape, Points, Ask
  <1>4. MineTold'
    <2>1. \A e \in Deployment : stage'[e] \in {"healthy", "described", "verified", "ready"} => stage'[e] = stage[e]
      BY <1>1 DEF CloudIInv, CloudShape
    <2>2. revision[d] \in 0 .. Len(revisions)
      BY DEF CloudIInv, CloudShape
    <2> QED  BY <1>2, <2>1, <2>2, AskTells DEF CloudIInv, MineTold, AsksFor, RequestedImage
  <1>5. MachinesPaid'
    BY <1>1, <1>2, PaidStays DEF Points
  <1> QED  BY <1>3, <1>4, <1>5 DEF CloudIInv

\* Rollbacks and the provider touch no deployment.
LEMMA CloudProvider ==
    ASSUME CloudIInv, RolloutEnds \/ EcsRollback \/ CloudRunRollback \/ RenderRollback \/ RollbackWrite
    PROVE  CloudIInv'
  <1>0. /\ service \in 0 .. Len(revisions) /\ serving \in 0 .. Len(revisions) /\ ran \subseteq 0 .. Len(revisions)
        /\ Len(revisions) \in Nat /\ undo \in 0 .. Len(revisions) /\ mine \subseteq Deployment
    BY DEF CloudIInv, CloudShape
  <1>1. UNCHANGED <<provider, revisions, machines, early, stage, revision, described>>
    BY DEF RolloutEnds, EcsRollback, CloudRunRollback, RenderRollback, RollbackWrite, Choose, Steady, flyVars,
           providerVars, readyVars
  <1>2. MachinesPaid'
    BY <1>1 DEF CloudIInv, MachinesPaid, Owing
  <1>3. CASE RolloutEnds
    <2>1. service' = service /\ mine' = mine /\ undo' = undo
      BY <1>3 DEF RolloutEnds, Steady
    <2>2. CloudShape'
      BY <1>0, <1>1, <1>3, <2>1 DEF CloudIInv, CloudShape, RolloutEnds
    <2>3. MineTold'
      BY <1>1, <2>1 DEF CloudIInv, MineTold, AsksFor, RequestedImage
    <2> QED  BY <1>2, <2>2, <2>3 DEF CloudIInv
  <1>4. CASE EcsRollback \/ CloudRunRollback \/ RenderRollback
    <2>1. PICK rev \in 0 .. Len(revisions) : Choose(rev)
      <3>1. CASE EcsRollback
        BY <1>0, <3>1 DEF EcsRollback, previousTaskDefRevision
      <3>2. CASE CloudRunRollback
        <4>1. Len(revisions) # 0
          BY <3>2 DEF CloudRunRollback, CloudIInv, CloudShape
        <4> QED  BY <1>0, <3>2, <4>1 DEF CloudRunRollback
      <3>3. CASE RenderRollback
        BY <1>0, <3>3 DEF RenderRollback
      <3> QED  BY <1>4, <3>1, <3>2, <3>3
    <2>2. undo' = rev /\ UNCHANGED <<service, serving, rollout, ran, mine>>
      BY <2>1 DEF Choose, providerVars, readyVars
    <2>3. CloudShape'
      BY <1>1, <2>2 DEF CloudIInv, CloudShape
    <2>4. MineTold'
      BY <1>1, <2>2 DEF CloudIInv, MineTold, AsksFor, RequestedImage
    <2> QED  BY <1>2, <2>3, <2>4 DEF CloudIInv
  <1>5. CASE RollbackWrite
    <2>1. /\ undo' = 0 /\ UNCHANGED <<serving, ran>>
          /\ Ask(undo, revisions[undo]) \/ UNCHANGED <<service, rollout, mine>>
      BY <1>5 DEF RollbackWrite
    <2>2. CloudShape'
      BY <1>0, <1>1, <2>1 DEF CloudIInv, CloudShape, Ask
    <2>3. MineTold'
      BY <1>0, <1>1, <2>1, AskTells DEF CloudIInv, MineTold, AsksFor, RequestedImage
    <2> QED  BY <1>2, <2>2, <2>3 DEF CloudIInv
  <1> QED  BY <1>3, <1>4, <1>5

LEMMA CloudFly ==
    ASSUME CloudIInv, NEW d \in Deployment, FlyList(d) \/ FlyUpdate(d) \/ FlyCreate(d) \/ FlyCreateApp(d)
    PROVE  CloudIInv'
  <1>0. /\ provider = "fly"
        /\ UNCHANGED <<provider, revisions, service, serving, rollout, ran, revision, undo, described, mine>>
        /\ stage \in [Deployment -> Points] /\ early \subseteq Deployment /\ machines \in Seq(Images)
        /\ WorkImage[d] \in Images /\ Owing \subseteq early /\ Len(machines) <= Cardinality(early \ Owing)
    BY DEF FlyList, FlyUpdate, FlyCreate, FlyCreateApp, Steady, providerVars, CloudIInv, CloudShape, Images, MachinesPaid
  <1>1. PICK p \in Points : stage' = [stage EXCEPT ![d] = p]
    BY DEF FlyList, FlyUpdate, FlyCreate, FlyCreateApp, Goto, Points
  <1>2. machines' \in Seq(Images) /\ early' \subseteq Deployment
    <2>1. CASE FlyList(d) \/ FlyCreateApp(d)
      BY <1>0, <2>1 DEF FlyList, FlyCreateApp
    <2>2. CASE FlyUpdate(d)
      <3>1. machines' = [machines EXCEPT ![1] = WorkImage[d]] /\ early' = early
        BY <2>2 DEF FlyUpdate
      <3>2. CASE 1 \in 1 .. Len(machines)
        BY <1>0, <3>1, <3>2, ExceptSeq
      <3>3. CASE 1 \notin 1 .. Len(machines)
        <4>1. DOMAIN machines = 1 .. Len(machines) /\ Len(machines) \in Nat
          BY <1>0
        <4>2. Len(machines) = 0
          BY <3>3, <4>1
        <4>3. DOMAIN machines' = DOMAIN machines /\ DOMAIN machines = {}
          BY <3>1, <4>1, <4>2
        <4>4. machines' = [i \in {} |-> machines'[i]] /\ machines = [i \in {} |-> machines[i]]
          BY <1>0, <3>1, <4>3
        <4>5. machines' = machines
          BY <4>4
        <4> QED  BY <1>0, <3>1, <4>5
      <3> QED  BY <1>0, <3>1, <3>2, <3>3
    <2>3. CASE FlyCreate(d)
      BY <1>0, <2>3 DEF FlyCreate
    <2> QED  BY <2>1, <2>2, <2>3
  <1>3. CloudShape'
    BY <1>0, <1>1, <1>2 DEF CloudIInv, CloudShape
  <1>4. MineTold'
    BY <1>0 DEF MineTold
  <1>5. MachinesPaid'
    <2>1. CASE FlyList(d) /\ machines = <<>>
      <3>1. /\ machines' = machines /\ early' = early \cup {d} /\ Owing' = Owing \cup {d}
        BY <1>0, <2>1 DEF FlyList, listMachines, Goto, Owing
      <3>2. (early' \ Owing') \in SUBSET Deployment
        BY <1>0, <1>2
      <3>3. Cardinality(early' \ Owing') \in Nat
        BY <3>2, PaidGrows
      <3>4. Len(machines') = 0
        BY <2>1, <3>1
      <3>5. Owing' \subseteq early' /\ Len(machines') <= Cardinality(early' \ Owing')
        BY <1>0, <3>1, <3>3, <3>4
      <3> QED  BY <3>5 DEF MachinesPaid
    <2>2. CASE FlyList(d) /\ machines # <<>>
      <3>1. stage' = [stage EXCEPT ![d] = "flyUpdate"] /\ UNCHANGED <<early, machines>>
        BY <2>2 DEF FlyList, listMachines, Goto
      <3> QED  BY <3>1, PaidStays DEF Points
    <2>3. CASE FlyUpdate(d)
      <3>1. stage' = [stage EXCEPT ![d] = "waiting"] /\ UNCHANGED early /\ Len(machines') = Len(machines)
        BY <1>0, <2>3 DEF FlyUpdate, Goto
      <3> QED  BY <3>1, PaidStays DEF Points
    <2>4. CASE FlyCreate(d) /\ flyApp
      <3>1. d \in Owing /\ d \notin Owing' /\ Owing' = Owing \ {d} /\ UNCHANGED early
        BY <1>0, <2>4 DEF FlyCreate, Goto, Owing
      <3>2. Len(machines') = Len(machines) + 1 /\ Len(machines) \in Nat
        BY <1>0, <2>4 DEF FlyCreate
      <3>3. early \ Owing' = (early \ Owing) \cup {d}
        BY <1>0, <3>1
      <3>4. /\ Cardinality(early \ Owing) \in Nat
            /\ Cardinality((early \ Owing) \cup {d}) = Cardinality(early \ Owing) + 1
        <4>1. (early \ Owing) \in SUBSET Deployment /\ d \notin early \ Owing
          BY <1>0, <3>1
        <4> QED  BY <4>1, OneMorePaid
      <3>5. Cardinality(early' \ Owing') = Cardinality(early \ Owing) + 1
        BY <3>1, <3>3, <3>4, Zenon
      <3>6. Owing' \subseteq early' /\ Len(machines') <= Cardinality(early' \ Owing')
        BY <1>0, <3>1, <3>2, <3>4, <3>5
      <3> QED  BY <3>6 DEF MachinesPaid
    <2>5. CASE FlyCreate(d) /\ ~flyApp /\ stage[d] = "flyAgain"
      <3>1. stage' = [stage EXCEPT ![d] = "failed"] /\ UNCHANGED <<early, machines>>
        BY <2>5 DEF FlyCreate, Goto
      <3> QED  BY <3>1, PaidStays DEF Points
    <2>6. CASE (FlyCreate(d) /\ ~flyApp /\ stage[d] = "flyCreate") \/ FlyCreateApp(d)
      <3>1. Owing' = Owing /\ UNCHANGED <<early, machines>>
        BY <1>0, <2>6 DEF FlyCreate, FlyCreateApp, Goto, Owing
      <3> QED  BY <1>0, <3>1, Zenon DEF MachinesPaid
    <2>7. FlyCreate(d) => stage[d] \in {"flyCreate", "flyAgain"}
      BY DEF FlyCreate
    <2> QED  BY <2>1, <2>2, <2>3, <2>4, <2>5, <2>6, <2>7
  <1> QED  BY <1>3, <1>4, <1>5 DEF CloudIInv

LEMMA CloudKeeps ==
    ASSUME CloudIInv, [CloudNext]_cloudVars
    PROVE  CloudIInv'
  <1>1. CASE UNCHANGED cloudVars
    <2>1. UNCHANGED <<provider, revisions, service, serving, rollout, ran, machines, early, stage, revision, undo,
                      described, mine>>
      BY <1>1 DEF cloudVars, providerVars, flyVars, readyVars
    <2> QED  BY <2>1 DEF CloudIInv, CloudShape, MineTold, AsksFor, RequestedImage, MachinesPaid, Owing
  <1>2. CASE CloudNext
    BY <1>2, CloudMoves, CloudRegisters, CloudEcs, CloudProvider, CloudFly DEF CloudNext
  <1> QED  BY <1>1, <1>2

LEMMA CloudFollows == CloudIInv => CloudInv
  <1> SUFFICES ASSUME CloudIInv PROVE CloudTypeOK /\ ReadyMeansMine /\ MachinesBounded
    BY DEF CloudInv
  <1>1. CloudTypeOK
    BY DEF CloudIInv, CloudShape, CloudTypeOK, Points
  <1>2. ReadyMeansMine
    BY DEF CloudIInv, MineTold, ReadyMeansMine
  <1>3. MachinesBounded
    <2>1. (early \ Owing) \in SUBSET Deployment /\ early \in SUBSET Deployment /\ (early \ Owing) \subseteq early
          /\ Len(machines) <= Cardinality(early \ Owing) /\ Len(machines) \in Nat
      BY DEF CloudIInv, CloudShape, MachinesPaid
    <2>2. Cardinality(early \ Owing) \in Nat /\ Cardinality(early) \in Nat
          /\ Cardinality(early \ Owing) <= Cardinality(early)
      BY <2>1, PaidGrows
    <2> QED  BY <2>1, <2>2 DEF MachinesBounded
  <1> QED  BY <1>1, <1>2, <1>3

\* The cloud targets, for every set of deployments and every interleaving with
\* rollbacks and the provider: executeCloudDeploy reports an ECS deployment as
\* ready only when the service asked for its image between the healthy status and
\* the report, whatever changes the service between the reads of VerifyImage, and
\* Fly's Deploy creates at most one machine for each deployment that listed none.
THEOREM CloudHolds == CloudSpec => []CloudInv
  BY CloudInitially, CloudKeeps, CloudFollows, PTL DEF CloudSpec

-----------------------------------------------------------------------------
(* Hosts *)

OpPoints == {"idle", "resolved", "locking", "dialing", "pinning", "pinput", "storing", "connected", "evicting",
             "pulled", "stopped", "removed", "done", "failed"}
SomeKey == HostKey \cup {NoKey}
SomeConn == Conns \cup {NoConn}

HostShape ==
    /\ hostRow \in [known : SomeKey, ver : Nat, live : BOOLEAN]
    /\ secret \in BOOLEAN /\ deleter \in {"idle", "row", "secret", "done"}
    /\ edit \in [Editor -> [at : {"idle", "got", "done"}, ver : Nat, known : SomeKey, own : SomeKey]]
    /\ op \in [Op -> OpPoints] /\ snap \in [Op -> SomeKey] /\ pinned \in [Op -> SomeKey]
    /\ pinTry \in [Op -> [n : 0 .. PinRetries, ver : Nat]]
    /\ conn \in [Op -> SomeConn] /\ redial \in [Op -> BOOLEAN]
    /\ cached \in SomeConn /\ nextConn \in 0 .. MaxConn /\ open \subseteq 1 .. nextConn /\ dead \subseteq Conns
    /\ pulled \subseteq Op

\* An editor or a pinning that still has the row's version has its key, too, ...
VersionsTell ==
    /\ \A e \in Editor : edit[e].at = "got" =>
          edit[e].ver <= hostRow.ver /\ (edit[e].ver = hostRow.ver => edit[e].known = hostRow.known)
    /\ \A o \in Op : op[o] = "pinput" =>
          pinTry[o].ver <= hostRow.ver /\ (pinTry[o].ver = hostRow.ver => hostRow.known = NoKey)

\* ... a key is accepted only after the row was read, ...
KeysChecked ==
    /\ PinnedServer
    /\ \A o \in Op : (op[o] = "idle" => pinned[o] = NoKey) /\ (op[o] \in {"pinning", "pinput"} => pinned[o] \in HostKey)

\* ... a new connection is open, known to its dialer alone, ...
Dialled == {o \in Op : op[o] \in {"pinning", "pinput", "storing"}}

ConnsOwned ==
    /\ CachedOpen
    /\ \A o \in Dialled : conn[o] \in open /\ conn[o] # cached
    /\ \A o, p \in Dialled : conn[o] = conn[p] => o = p

\* ... and every generation of the mutex but the first follows an eviction.
Redialled == {o \in Op : redial[o]}

GensCounted ==
    /\ nextGen \in Nat /\ gen \in Nat /\ gen < nextGen
    /\ nextGen + (IF gen = 0 THEN 1 ELSE 0) <= 2 + Cardinality(Redialled) + (IF deleter = "done" THEN 1 ELSE 0)
    /\ \A o \in Op : op[o] = "evicting" => ~redial[o]

PullsKnown == \A o \in Op : op[o] = "pulled" => o \in pulled

HostIInv == HostShape /\ VersionsTell /\ KeysChecked /\ ConnsOwned /\ GensCounted /\ PullsKnown

LEMMA HostInitially == HostsInit => HostIInv
  <1> SUFFICES ASSUME HostsInit PROVE HostIInv
    OBVIOUS
  <1>1. HostShape
    <2>1. hostRow \in [known : SomeKey, ver : Nat, live : BOOLEAN]
      BY DEF HostsInit, SomeKey
    <2>2. [at |-> "idle", ver |-> 0, known |-> NoKey, own |-> NoKey]
             \in [at : {"idle", "got", "done"}, ver : Nat, known : SomeKey, own : SomeKey]
          /\ [n |-> 0, ver |-> 0] \in [n : 0 .. PinRetries, ver : Nat]
      BY HostsAssumption DEF SomeKey
    <2>3. edit \in [Editor -> [at : {"idle", "got", "done"}, ver : Nat, known : SomeKey, own : SomeKey]]
          /\ pinTry \in [Op -> [n : 0 .. PinRetries, ver : Nat]]
      BY <2>2 DEF HostsInit
    <2> QED  BY <2>1, <2>3, HostsAssumption DEF HostsInit, HostShape, SomeKey, SomeConn, OpPoints
  <1>2. VersionsTell
    BY DEF HostsInit, VersionsTell
  <1>3. KeysChecked
    BY DEF HostsInit, KeysChecked, PinnedServer
  <1>4. ConnsOwned
    BY DEF HostsInit, ConnsOwned, CachedOpen, Dialled
  <1>5. GensCounted
    <2>1. Cardinality(Redialled) \in Nat
      <3>1. IsFiniteSet(Redialled)
        BY HostsAssumption, FS_Subset DEF Redialled
      <3> QED  BY <3>1, FS_CardinalityType
    <2> QED  BY <2>1 DEF HostsInit, GensCounted
  <1>6. PullsKnown
    BY DEF HostsInit, PullsKnown
  <1> QED  BY <1>1, <1>2, <1>3, <1>4, <1>5, <1>6 DEF HostIInv

LEMMA RedialledCount ==
    ASSUME HostShape
    PROVE  /\ Cardinality(Redialled) \in Nat /\ Cardinality(Op) \in Nat /\ Cardinality(Redialled) <= Cardinality(Op)
           /\ \A o \in Op : ~redial[o] => Cardinality(Redialled \cup {o}) = Cardinality(Redialled) + 1
  <1>1. Redialled \subseteq Op /\ IsFiniteSet(Op)
    BY HostsAssumption DEF Redialled
  <1>2. IsFiniteSet(Redialled) /\ Cardinality(Redialled) <= Cardinality(Op)
    BY <1>1, FS_Subset
  <1>3. ASSUME NEW o \in Op, ~redial[o] PROVE Cardinality(Redialled \cup {o}) = Cardinality(Redialled) + 1
    <2>1. o \notin Redialled
      BY <1>3 DEF Redialled
    <2> QED  BY <1>2, <2>1, FS_AddElement
  <1> QED  BY <1>1, <1>2, <1>3, FS_CardinalityType

\* What a step leaves alone, part by part.
LEMMA VersionsStay ==
    ASSUME HostIInv, UNCHANGED <<edit, pinTry>>, hostRow'.known = hostRow.known, hostRow'.ver = hostRow.ver,
           \A o \in Op : op'[o] = "pinput" => op[o] = "pinput"
    PROVE  VersionsTell'
  BY DEF HostIInv, VersionsTell

LEMMA KeysStay ==
    ASSUME HostIInv, UNCHANGED <<snap, pinned>>,
           \A o \in Op : (op'[o] = "idle" => op[o] = "idle")
                         /\ (op'[o] \in {"pinning", "pinput"} => op[o] \in {"pinning", "pinput"})
    PROVE  KeysChecked'
  BY DEF HostIInv, KeysChecked, PinnedServer

LEMMA ConnsStay ==
    ASSUME HostIInv, UNCHANGED <<cached, open>>, Dialled' \subseteq Dialled, \A o \in Dialled' : conn'[o] = conn[o]
    PROVE  ConnsOwned'
  BY DEF HostIInv, ConnsOwned, CachedOpen

LEMMA GensStay ==
    ASSUME HostIInv, UNCHANGED <<gen, nextGen, redial>>, deleter' = "done" <=> deleter = "done",
           \A o \in Op : op'[o] = "evicting" => op[o] = "evicting" \/ ~redial[o]
    PROVE  GensCounted'
  <1>1. Redialled' = Redialled
    BY DEF Redialled
  <1> QED  BY <1>1 DEF HostIInv, GensCounted

LEMMA PullsStay ==
    ASSUME HostIInv, pulled \subseteq pulled', \A o \in Op : op'[o] = "pulled" => op[o] = "pulled" \/ o \in pulled'
    PROVE  PullsKnown'
  BY DEF HostIInv, PullsKnown

\* A deployment moves to p, and nothing else changes that the invariant is about.
LEMMA OpMoves ==
    ASSUME HostIInv, NEW o \in Op, NEW p \in OpPoints \ {"idle", "pinning", "pinput", "pulled", "storing"},
           op' = [op EXCEPT ![o] = p], p = "evicting" => ~redial[o],
           UNCHANGED <<hostRow, secret, deleter, edit, snap, pinned, pinTry, redial, cached, open, dead, nextConn,
                       gen, nextGen, pulled>>,
           conn' \in [Op -> SomeConn], \A q \in Op : q # o => conn'[q] = conn[q]
    PROVE  HostIInv'
  <1>0. /\ op \in [Op -> OpPoints] /\ op' \in [Op -> OpPoints] /\ op'[o] = p
        /\ \A q \in Op : q # o => op'[q] = op[q]
    BY DEF HostIInv, HostShape
  <1>1. HostShape'
    BY <1>0 DEF HostIInv, HostShape
  <1>2. VersionsTell'
    BY <1>0, VersionsStay
  <1>3. KeysChecked'
    BY <1>0, KeysStay
  <1>4. ConnsOwned'
    BY <1>0, ConnsStay DEF Dialled
  <1>5. GensCounted'
    BY <1>0, GensStay
  <1>6. PullsKnown'
    BY <1>0, PullsStay
  <1> QED  BY <1>1, <1>2, <1>3, <1>4, <1>5, <1>6 DEF HostIInv

LEMMA HostCommands ==
    ASSUME HostIInv, NEW o \in Op,
           DialLock(o) \/ DialFail(o) \/ Pull(o) \/ Stop(o) \/ Remove(o) \/ Run(o)
    PROVE  HostIInv'
  <1>0. conn \in [Op -> SomeConn] /\ cached \in SomeConn
    BY DEF HostIInv, HostShape
  <1>1. CASE DialLock(o)
    <2>1. PICK p \in {"connected", "dialing"} : op' = [op EXCEPT ![o] = p]
      BY <1>1 DEF DialLock
    <2>2. conn' \in [Op -> SomeConn] /\ \A q \in Op : q # o => conn'[q] = conn[q]
      BY <1>0, <1>1 DEF DialLock
    <2> QED  BY <1>1, <2>1, <2>2, OpMoves DEF DialLock, OpPoints, rowVars, dockerVars
  <1>2. CASE DialFail(o)
    BY <1>0, <1>2, OpMoves DEF DialFail, OpPoints, rowVars, dockerVars
  <1>3. CASE Stop(o)
    BY <1>0, <1>3, OpMoves DEF Stop, OpPoints, rowVars, poolVars
  <1>4. CASE Remove(o)
    BY <1>0, <1>4, OpMoves DEF Remove, OpPoints, rowVars, poolVars, dockerVars
  <1>5. CASE Run(o)
    <2>1. PICK p \in {"done", "failed"} : op' = [op EXCEPT ![o] = p]
      BY <1>5 DEF Run
    <2> QED  BY <1>0, <1>5, <2>1, OpMoves DEF Run, OpPoints, rowVars, poolVars
  <1>6. CASE Pull(o)
    <2>1. PICK p \in {"pulled", "failed", "evicting"} :
             /\ op' = [op EXCEPT ![o] = p] /\ (p = "evicting" => ~redial[o])
             /\ pulled' = IF p = "pulled" THEN pulled \cup {o} ELSE pulled
      BY <1>6 DEF Pull
    <2>2. UNCHANGED <<hostRow, secret, deleter, edit, snap, pinned, pinTry, conn, redial, cached, open, dead, nextConn,
                      gen, nextGen>>
      BY <1>6 DEF Pull, rowVars, poolVars
    <2>3. CASE p # "pulled"
      BY <1>0, <2>1, <2>2, <2>3, OpMoves DEF OpPoints
    <2>4. CASE p = "pulled"
      <3>1. /\ op' \in [Op -> OpPoints] /\ op'[o] = "pulled" /\ o \in pulled' /\ pulled' \subseteq Op
            /\ pulled \subseteq pulled' /\ \A q \in Op : q # o => op'[q] = op[q]
        BY <2>1, <2>4 DEF HostIInv, HostShape, OpPoints
      <3>2. HostShape'
        BY <2>2, <3>1 DEF HostIInv, HostShape
      <3>3. VersionsTell' /\ KeysChecked' /\ GensCounted' /\ PullsKnown'
        BY <2>2, <3>1, VersionsStay, KeysStay, GensStay, PullsStay
      <3>4. ConnsOwned'
        BY <2>2, <3>1, ConnsStay DEF Dialled
      <3> QED  BY <3>2, <3>3, <3>4 DEF HostIInv
    <2> QED  BY <2>3, <2>4
  <1> QED  BY <1>1, <1>2, <1>3, <1>4, <1>5, <1>6

LEMMA HostResolve ==
    ASSUME HostIInv, NEW o \in Op, Resolve(o)
    PROVE  HostIInv'
  <1>1. PICK p \in {"resolved", "failed"} : op' = [op EXCEPT ![o] = p]
    BY DEF Resolve
  <1>2. /\ op[o] = "idle" /\ snap' = [snap EXCEPT ![o] = hostRow.known]
        /\ UNCHANGED <<hostRow, secret, deleter, edit, pinned, pinTry, conn, redial, cached, open, dead, nextConn,
                       gen, nextGen, pulled>>
    BY DEF Resolve, rowVars, poolVars, dockerVars
  <1>3. /\ op' \in [Op -> OpPoints] /\ op'[o] = p /\ snap' \in [Op -> SomeKey]
        /\ \A q \in Op : q # o => op'[q] = op[q] /\ snap'[q] = snap[q]
    BY <1>1, <1>2 DEF HostIInv, HostShape, OpPoints
  <1>4. HostShape'
    BY <1>2, <1>3 DEF HostIInv, HostShape
  <1>5. VersionsTell' /\ GensCounted' /\ PullsKnown'
    BY <1>2, <1>3, VersionsStay, GensStay, PullsStay
  <1>6. ConnsOwned'
    BY <1>2, <1>3, ConnsStay DEF Dialled
  <1>7. KeysChecked'
    BY <1>2, <1>3 DEF HostIInv, KeysChecked, PinnedServer
  <1> QED  BY <1>4, <1>5, <1>6, <1>7 DEF HostIInv

LEMMA HostDialLookup ==
    ASSUME HostIInv, NEW o \in Op, DialLookup(o)
    PROVE  HostIInv'
  <1>0. conn \in [Op -> SomeConn] /\ cached \in SomeConn /\ op[o] = "resolved"
    BY DEF DialLookup, HostIInv, HostShape
  <1>1. CASE cached # NoConn
    <2>1. conn' \in [Op -> SomeConn] /\ \A q \in Op : q # o => conn'[q] = conn[q]
      BY <1>0, <1>1 DEF DialLookup
    <2> QED  BY <1>1, <2>1, OpMoves DEF DialLookup, OpPoints, rowVars, dockerVars
  <1>2. CASE cached = NoConn
    <2>1. /\ op' = [op EXCEPT ![o] = "locking"]
          /\ gen' = (IF gen = 0 THEN nextGen ELSE gen) /\ nextGen' = (IF gen = 0 THEN nextGen + 1 ELSE nextGen)
          /\ UNCHANGED <<hostRow, secret, deleter, edit, snap, pinned, pinTry, conn, redial, cached, open, dead,
                         nextConn, pulled>>
      BY <1>2 DEF DialLookup, rowVars, dockerVars
    <2>2. op' \in [Op -> OpPoints] /\ op'[o] = "locking" /\ \A q \in Op : q # o => op'[q] = op[q]
      BY <2>1 DEF HostIInv, HostShape, OpPoints
    <2>3. HostShape'
      BY <2>1, <2>2 DEF HostIInv, HostShape
    <2>4. VersionsTell' /\ KeysChecked' /\ PullsKnown'
      BY <2>1, <2>2, VersionsStay, KeysStay, PullsStay
    <2>5. ConnsOwned'
      BY <2>1, <2>2, ConnsStay DEF Dialled
    <2>6. GensCounted'
      <3>1. Redialled' = Redialled /\ Cardinality(Redialled) \in Nat
        BY <2>1, RedialledCount DEF Redialled, HostIInv
      <3> QED  BY <2>1, <2>2, <3>1 DEF HostIInv, GensCounted
    <2> QED  BY <2>3, <2>4, <2>5, <2>6 DEF HostIInv
  <1> QED  BY <1>1, <1>2

LEMMA HostDial ==
    ASSUME HostIInv, NEW o \in Op, NEW key \in HostKey, Dial(o, key)
    PROVE  HostIInv'
  <1>0. conn \in [Op -> SomeConn] /\ op[o] = "dialing" /\ nextConn \in 0 .. MaxConn /\ nextConn < MaxConn
        /\ MaxConn \in Nat
    BY HostsAssumption DEF Dial, HostIInv, HostShape
  <1>1. CASE ~(secret /\ hostKeyCallback(snap[o], key))
    BY <1>0, <1>1, OpMoves DEF Dial, OpPoints, rowVars, dockerVars
  <1>2. CASE secret /\ hostKeyCallback(snap[o], key)
    <2> DEFINE c == nextConn + 1
               p == IF snap[o] = NoKey THEN "pinning" ELSE "storing"
    <2>1. /\ nextConn' = c /\ open' = open \cup {c} /\ conn' = [conn EXCEPT ![o] = c]
          /\ pinned' = [pinned EXCEPT ![o] = key] /\ op' = [op EXCEPT ![o] = p]
          /\ UNCHANGED <<hostRow, secret, deleter, edit, snap, pinTry, redial, cached, dead, gen, nextGen, pulled>>
      BY <1>2 DEF Dial, rowVars, dockerVars
    <2>2. c \in Conns /\ c \notin open /\ (\A d \in open : d # c) /\ c \in 1 .. MaxConn
      BY <1>0 DEF HostIInv, HostShape, Conns
    <2>3. p \in {"pinning", "storing"}
      OBVIOUS
    <2> HIDE DEF c, p
    <2>4. /\ op' \in [Op -> OpPoints] /\ op'[o] = p /\ \A q \in Op : q # o => op'[q] = op[q]
      BY <2>1, <2>3 DEF HostIInv, HostShape, OpPoints
    <2>5. /\ conn' \in [Op -> SomeConn] /\ conn'[o] = c /\ \A q \in Op : q # o => conn'[q] = conn[q]
      BY <2>1, <2>2 DEF HostIInv, HostShape, SomeConn
    <2>6. /\ pinned' \in [Op -> SomeKey] /\ pinned'[o] = key /\ \A q \in Op : q # o => pinned'[q] = pinned[q]
      BY <2>1 DEF HostIInv, HostShape, SomeKey
    <2>7. HostShape'
      <3>1. nextConn' \in 0 .. MaxConn /\ open' \subseteq 1 .. nextConn'
        BY <1>0, <2>1 DEF HostIInv, HostShape, c
      <3> QED  BY <2>1, <2>4, <2>5, <2>6, <3>1 DEF HostIInv, HostShape
    <2>8. VersionsTell' /\ GensCounted' /\ PullsKnown'
      BY <2>1, <2>3, <2>4, VersionsStay, GensStay, PullsStay
    <2>9. KeysChecked'
      <3>1. snap[o] # NoKey => key = snap[o]
        BY <1>2 DEF hostKeyCallback
      <3> QED  BY <2>1, <2>3, <2>4, <2>6, <3>1 DEF HostIInv, KeysChecked, PinnedServer
    <2>10. ConnsOwned'
      <3>1. Dialled' = Dialled \cup {o} /\ o \notin Dialled
        BY <1>0, <2>3, <2>4 DEF Dialled
      <3>2. cached = NoConn \/ cached \in open
        BY DEF HostIInv, ConnsOwned, CachedOpen
      <3>3. c # cached
        BY <2>2, <3>2, HostsAssumption
      <3>4. \A q \in Dialled : q # o /\ q \in Op /\ conn'[q] = conn[q] /\ conn[q] \in open /\ conn[q] # cached /\ conn[q] # c
        BY <2>2, <2>5, <3>1 DEF HostIInv, ConnsOwned, Dialled
      <3>5. \A q \in Dialled' : conn'[q] \in open' /\ conn'[q] # cached'
        BY <2>1, <2>5, <3>1, <3>3, <3>4
      <3>6. \A q, r \in Dialled' : conn'[q] = conn'[r] => q = r
        BY <2>5, <3>1, <3>4 DEF HostIInv, ConnsOwned
      <3>7. CachedOpen'
        BY <2>1 DEF HostIInv, ConnsOwned, CachedOpen
      <3> QED  BY <3>5, <3>6, <3>7 DEF ConnsOwned
    <2> QED  BY <2>7, <2>8, <2>9, <2>10 DEF HostIInv
  <1> QED  BY <1>1, <1>2

LEMMA HostPinGet ==
    ASSUME HostIInv, NEW o \in Op, PinGet(o)
    PROVE  HostIInv'
  <1>0. /\ op[o] = "pinning"
        /\ UNCHANGED <<hostRow, secret, deleter, edit, snap, pinned, conn, redial, cached, open, dead, nextConn,
                       gen, nextGen, pulled>>
    BY DEF PinGet, rowVars, poolVars, dockerVars
  <1>1. PICK p \in {"storing", "pinput"} : op' = [op EXCEPT ![o] = p]
    BY DEF PinGet
  <1>2. /\ op' \in [Op -> OpPoints] /\ op'[o] = p /\ \A q \in Op : q # o => op'[q] = op[q]
    BY <1>1 DEF HostIInv, HostShape, OpPoints
  <1>3. /\ pinTry' \in [Op -> [n : 0 .. PinRetries, ver : Nat]] /\ \A q \in Op : q # o => pinTry'[q] = pinTry[q]
        /\ p = "pinput" => pinTry'[o].ver = hostRow.ver /\ hostRow.known = NoKey
    <2>0. pinTry \in [Op -> [n : 0 .. PinRetries, ver : Nat]] /\ hostRow.ver \in Nat
      BY DEF HostIInv, HostShape
    <2>1. CASE ~hostRow.live \/ hostRow.known # NoKey \/ pinTry[o].n = PinRetries
      <3>1. op' = [op EXCEPT ![o] = "storing"] /\ UNCHANGED pinTry
        BY <2>1 DEF PinGet
      <3>2. op'[o] = "storing"
        BY <3>1 DEF HostIInv, HostShape
      <3> QED  BY <1>2, <2>0, <3>1, <3>2
    <2>2. CASE ~(~hostRow.live \/ hostRow.known # NoKey \/ pinTry[o].n = PinRetries)
      <3>1. pinTry' = [pinTry EXCEPT ![o] = [n |-> pinTry[o].n + 1, ver |-> hostRow.ver]]
        BY <2>0, <2>2 DEF PinGet
      <3>2. pinTry[o].n + 1 \in 0 .. PinRetries
        BY <2>0, <2>2, HostsAssumption
      <3>3. [n |-> pinTry[o].n + 1, ver |-> hostRow.ver] \in [n : 0 .. PinRetries, ver : Nat]
        BY <2>0, <3>2
      <3> QED  BY <2>0, <2>2, <3>1, <3>3
    <2> QED  BY <2>1, <2>2
  <1>4. HostShape'
    BY <1>0, <1>2, <1>3 DEF HostIInv, HostShape
  <1>5. VersionsTell'
    BY <1>0, <1>2, <1>3 DEF HostIInv, HostShape, VersionsTell
  <1>6. KeysChecked' /\ GensCounted' /\ PullsKnown'
    BY <1>0, <1>2, KeysStay, GensStay, PullsStay
  <1>7. ConnsOwned'
    BY <1>0, <1>2, ConnsStay DEF Dialled
  <1> QED  BY <1>4, <1>5, <1>6, <1>7 DEF HostIInv

LEMMA HostPinUpdate ==
    ASSUME HostIInv, NEW o \in Op, PinUpdate(o)
    PROVE  HostIInv' /\ (hostRow.known # NoKey => hostRow'.known = hostRow.known)
  <1> DEFINE result == UpdateRow(pinTry[o].ver, pinned[o])
  <1>0. /\ op[o] = "pinput" /\ pinned[o] \in HostKey
        /\ hostRow' = IF result = "ok" THEN [hostRow EXCEPT !.known = pinned[o], !.ver = @ + 1] ELSE hostRow
        /\ UNCHANGED <<secret, deleter, edit, snap, pinned, pinTry, conn, redial, cached, open, dead, nextConn,
                       gen, nextGen, pulled>>
    BY DEF PinUpdate, poolVars, dockerVars, HostIInv, KeysChecked
  <1>1. PICK p \in {"pinning", "storing"} : op' = [op EXCEPT ![o] = p]
    BY DEF PinUpdate
  <1>2. /\ op' \in [Op -> OpPoints] /\ op'[o] = p /\ \A q \in Op : q # o => op'[q] = op[q]
    BY <1>1 DEF HostIInv, HostShape, OpPoints
  <1>3. hostRow \in [known : SomeKey, ver : Nat, live : BOOLEAN]
    BY DEF HostIInv, HostShape
  <1>4. result = "ok" => hostRow.known = NoKey
    BY <1>0 DEF UpdateRow, HostIInv, VersionsTell
  <1> HIDE DEF result
  <1>5. \/ hostRow' = hostRow
        \/ hostRow.known = NoKey /\ hostRow' = [known |-> pinned[o], ver |-> hostRow.ver + 1, live |-> hostRow.live]
    BY <1>0, <1>3, <1>4
  <1>6. HostShape'
    <2>1. hostRow' \in [known : SomeKey, ver : Nat, live : BOOLEAN]
      BY <1>0, <1>3, <1>5 DEF SomeKey
    <2> QED  BY <1>0, <1>2, <2>1 DEF HostIInv, HostShape
  <1>7. VersionsTell'
    <2>1. CASE hostRow' = hostRow
      BY <1>0, <1>2, <2>1, VersionsStay
    <2>2. CASE hostRow'.ver = hostRow.ver + 1
      <3>1. \A e \in Editor : edit[e].at = "got" => edit[e].ver \in Nat /\ edit[e].ver <= hostRow.ver
        BY DEF HostIInv, HostShape, VersionsTell
      <3>2. \A q \in Op : op'[q] = "pinput" => pinTry[q].ver \in Nat /\ pinTry[q].ver <= hostRow.ver
        BY <1>2 DEF HostIInv, HostShape, VersionsTell
      <3> QED  BY <1>0, <1>3, <2>2, <3>1, <3>2 DEF VersionsTell
    <2> QED  BY <1>5, <2>1, <2>2
  <1>8. KeysChecked' /\ GensCounted' /\ PullsKnown'
    BY <1>0, <1>2, KeysStay, GensStay, PullsStay
  <1>9. ConnsOwned'
    BY <1>0, <1>2, ConnsStay DEF Dialled
  <1> QED  BY <1>5, <1>6, <1>7, <1>8, <1>9 DEF HostIInv

LEMMA HostDialStore ==
    ASSUME HostIInv, NEW o \in Op, DialStore(o)
    PROVE  HostIInv'
  <1>0. /\ op[o] = "storing" /\ op' = [op EXCEPT ![o] = "connected"] /\ cached' = conn[o]
        /\ UNCHANGED <<hostRow, secret, deleter, edit, snap, pinned, pinTry, conn, redial, open, dead, nextConn,
                       gen, nextGen, pulled>>
    BY DEF DialStore, rowVars, dockerVars
  <1>1. /\ op' \in [Op -> OpPoints] /\ op'[o] = "connected" /\ \A q \in Op : q # o => op'[q] = op[q]
    BY <1>0 DEF HostIInv, HostShape, OpPoints
  <1>2. HostShape'
    BY <1>0, <1>1 DEF HostIInv, HostShape
  <1>3. VersionsTell' /\ KeysChecked' /\ GensCounted' /\ PullsKnown'
    BY <1>0, <1>1, VersionsStay, KeysStay, GensStay, PullsStay
  <1>4. ConnsOwned'
    <2>1. o \in Dialled /\ Dialled' = Dialled \ {o}
      BY <1>0, <1>1 DEF Dialled
    <2> QED  BY <1>0, <2>1 DEF HostIInv, ConnsOwned, CachedOpen
  <1> QED  BY <1>2, <1>3, <1>4 DEF HostIInv

\* An eviction closes the cached connection only.
LEMMA EvictionKeeps ==
    ASSUME HostIInv, Evict, UNCHANGED conn, Dialled' = Dialled
    PROVE  ConnsOwned' /\ cached' \in SomeConn /\ open' \subseteq open
  <1>1. cached' = NoConn /\ open' \subseteq open /\ \A c \in open : c # cached => c \in open'
    BY DEF Evict
  <1>2. \A q \in Dialled : conn[q] \in open /\ conn[q] # cached /\ conn[q] # NoConn
    <2>1. open \subseteq 1 .. MaxConn
      BY HostsAssumption DEF HostIInv, HostShape
    <2>2. NoConn \notin open
      BY <2>1, HostsAssumption
    <2> QED  BY <2>2 DEF HostIInv, ConnsOwned
  <1>3. \A q \in Dialled' : conn'[q] \in open' /\ conn'[q] # cached'
    BY <1>1, <1>2
  <1>4. \A q, r \in Dialled' : conn'[q] = conn'[r] => q = r
    BY DEF HostIInv, ConnsOwned
  <1> QED  BY <1>1, <1>3, <1>4 DEF ConnsOwned, CachedOpen, SomeConn

LEMMA HostDialFresh ==
    ASSUME HostIInv, NEW o \in Op, DialFresh(o)
    PROVE  HostIInv'
  <1>0. /\ op[o] = "evicting" /\ op' = [op EXCEPT ![o] = "resolved"] /\ redial' = [redial EXCEPT ![o] = TRUE]
        /\ Evict /\ gen' = 0
        /\ UNCHANGED <<hostRow, secret, deleter, edit, snap, pinned, pinTry, conn, dead, nextConn, nextGen, pulled>>
    BY DEF DialFresh, Evict, rowVars, dockerVars
  <1>1. /\ op' \in [Op -> OpPoints] /\ op'[o] = "resolved" /\ \A q \in Op : q # o => op'[q] = op[q]
    BY <1>0 DEF HostIInv, HostShape, OpPoints
  <1>2. redial' \in [Op -> BOOLEAN] /\ redial'[o] = TRUE /\ (\A q \in Op : q # o => redial'[q] = redial[q]) /\ ~redial[o]
    BY <1>0 DEF HostIInv, HostShape, GensCounted
  <1>3. ConnsOwned' /\ cached' \in SomeConn /\ open' \subseteq open
    BY <1>0, <1>1, EvictionKeeps DEF Dialled
  <1>4. HostShape'
    BY <1>0, <1>1, <1>2, <1>3 DEF HostIInv, HostShape
  <1>5. VersionsTell' /\ KeysChecked' /\ PullsKnown'
    BY <1>0, <1>1, VersionsStay, KeysStay, PullsStay
  <1>6. GensCounted'
    <2>1. Redialled' = Redialled \cup {o}
      BY <1>2 DEF Redialled
    <2>2. Cardinality(Redialled') = Cardinality(Redialled) + 1 /\ Cardinality(Redialled) \in Nat
      <3>1. HostShape
        BY DEF HostIInv
      <3>2. Cardinality(Redialled \cup {o}) = Cardinality(Redialled) + 1 /\ Cardinality(Redialled) \in Nat
        BY <1>2, <3>1, RedialledCount
      <3> QED  BY <2>1, <3>2
    <2>3. nextGen' \in Nat /\ gen' < nextGen'
      BY <1>0 DEF HostIInv, GensCounted
    <2>4. nextGen' + 1 <= 2 + Cardinality(Redialled') + (IF deleter' = "done" THEN 1 ELSE 0)
      BY <1>0, <2>2 DEF HostIInv, GensCounted
    <2>5. \A q \in Op : op'[q] = "evicting" => ~redial'[q]
      BY <1>1, <1>2 DEF HostIInv, GensCounted
    <2> QED  BY <1>0, <2>3, <2>4, <2>5 DEF GensCounted
  <1> QED  BY <1>3, <1>4, <1>5, <1>6 DEF HostIInv

LEMMA HostEdits ==
    ASSUME HostIInv, NEW e \in Editor, UpdateHostGet(e) \/ UpdateHostPut(e)
    PROVE  HostIInv' /\ (hostRow'.known = hostRow.known \/ Overrides(e))
  <1> DEFINE Edit == [at : {"idle", "got", "done"}, ver : Nat, known : SomeKey, own : SomeKey]
  <1>0. /\ UNCHANGED <<secret, deleter, op, snap, pinned, pinTry, conn, redial, cached, open, dead, nextConn,
                       gen, nextGen, pulled>>
        /\ hostRow \in [known : SomeKey, ver : Nat, live : BOOLEAN] /\ edit \in [Editor -> Edit]
    BY DEF UpdateHostGet, UpdateHostPut, poolVars, opVars, dockerVars, HostIInv, HostShape
  <1>1. KeysChecked' /\ GensCounted' /\ PullsKnown' /\ ConnsOwned'
    BY <1>0, KeysStay, GensStay, PullsStay, ConnsStay DEF Dialled
  <1>2. CASE UpdateHostGet(e)
    <2>1. PICK v \in 1 .. hostRow.ver, own \in SomeKey :
             edit' = [edit EXCEPT ![e] = [at |-> "got", ver |-> v, known |-> hostRow.known, own |-> own]]
      BY <1>2 DEF UpdateHostGet, SomeKey
    <2>2. [at |-> "got", ver |-> v, known |-> hostRow.known, own |-> own] \in Edit /\ v \in Nat /\ v <= hostRow.ver
      BY <1>0, <2>1
    <2> HIDE DEF Edit
    <2>3. /\ edit' \in [Editor -> Edit] /\ edit'[e] = [at |-> "got", ver |-> v, known |-> hostRow.known, own |-> own]
          /\ \A f \in Editor : f # e => edit'[f] = edit[f]
      BY <1>0, <2>1, <2>2
    <2>4. UNCHANGED hostRow
      BY <1>2 DEF UpdateHostGet
    <2>5. HostShape'
      BY <1>0, <2>3, <2>4 DEF HostIInv, HostShape, Edit
    <2>6. VersionsTell'
      BY <1>0, <2>2, <2>3, <2>4 DEF HostIInv, VersionsTell
    <2> QED  BY <1>1, <2>4, <2>5, <2>6 DEF HostIInv
  <1>3. CASE UpdateHostPut(e)
    <2>0. edit[e] \in Edit /\ edit[e].at = "got" /\ edit' = [edit EXCEPT ![e].at = "done"]
      BY <1>0, <1>3 DEF UpdateHostPut
    <2>1. /\ edit' \in [Editor -> Edit] /\ edit'[e].at = "done" /\ \A f \in Editor : f # e => edit'[f] = edit[f]
      <3>1. [at |-> "done", ver |-> edit[e].ver, known |-> edit[e].known, own |-> edit[e].own] \in Edit
        BY <2>0
      <3>2. edit'[e] = [edit[e] EXCEPT !.at = "done"] /\ \A f \in Editor : f # e => edit'[f] = edit[f]
        BY <1>0, <2>0
      <3>3. edit'[e] = [at |-> "done", ver |-> edit[e].ver, known |-> edit[e].known, own |-> edit[e].own]
        BY <2>0, <3>2
      <3>4. edit'[e].at = "done"
        BY <3>3
      <3>5. edit' = [f \in Editor |-> edit'[f]]
        BY <1>0, <2>0
      <3> HIDE DEF Edit
      <3>6. \A f \in Editor : edit'[f] \in Edit
        BY <1>0, <3>1, <3>2, <3>3
      <3> QED  BY <3>2, <3>4, <3>5, <3>6
    <2>2. \/ hostRow' = hostRow
          \/ /\ hostRow' = [known |-> KeyToWrite(e), ver |-> hostRow.ver + 1, live |-> hostRow.live]
             /\ edit[e].ver = hostRow.ver /\ (edit[e].own = NoKey => KeyToWrite(e) = hostRow.known)
      <3>1. CASE UpdateRow(edit[e].ver, KeyToWrite(e)) = "ok"
        <4>1. edit[e].ver = hostRow.ver
          BY <3>1 DEF UpdateRow
        <4>2. edit[e].known = hostRow.known
          BY <2>0, <4>1 DEF HostIInv, VersionsTell
        <4>3. hostRow' = [hostRow EXCEPT !.known = KeyToWrite(e), !.ver = @ + 1]
          BY <1>3, <3>1 DEF UpdateHostPut
        <4>4. edit[e].own = NoKey => KeyToWrite(e) = hostRow.known
          BY <4>2 DEF KeyToWrite
        <4> QED  BY <1>0, <4>1, <4>3, <4>4
      <3>2. CASE UpdateRow(edit[e].ver, KeyToWrite(e)) # "ok"
        BY <1>3, <3>2 DEF UpdateHostPut
      <3> QED  BY <3>1, <3>2
    <2>3. /\ hostRow' \in [known : SomeKey, ver : Nat, live : BOOLEAN]
          /\ hostRow'.known = hostRow.known \/ Overrides(e)
      <3>1. KeyToWrite(e) \in SomeKey /\ (edit[e].own # NoKey => KeyToWrite(e) = edit[e].own)
        BY <2>0 DEF KeyToWrite
      <3> QED  BY <1>0, <2>0, <2>2, <3>1 DEF Overrides
    <2>4. HostShape'
      BY <1>0, <2>1, <2>3 DEF HostIInv, HostShape
    <2>5. VersionsTell'
      <3>1. \A f \in Editor : edit'[f].at = "got" => edit[f].at = "got" /\ edit'[f] = edit[f]
        BY <2>1
      <3>2. \A f \in Editor : edit[f].at = "got" =>
               edit[f].ver \in Nat /\ edit[f].ver <= hostRow.ver /\ (edit[f].ver = hostRow.ver => edit[f].known = hostRow.known)
        BY DEF HostIInv, HostShape, VersionsTell
      <3>3. \A q \in Op : op[q] = "pinput" =>
               /\ pinTry[q].ver \in Nat /\ pinTry[q].ver <= hostRow.ver
               /\ (pinTry[q].ver = hostRow.ver => hostRow.known = NoKey)
        BY DEF HostIInv, HostShape, VersionsTell
      <3>4. hostRow' = hostRow \/ hostRow'.ver = hostRow.ver + 1
        BY <2>2
      <3> QED  BY <1>0, <2>3, <3>1, <3>2, <3>3, <3>4 DEF VersionsTell
    <2> QED  BY <1>1, <2>3, <2>4, <2>5 DEF HostIInv
  <1> QED  BY <1>2, <1>3

LEMMA HostDeletes ==
    ASSUME HostIInv, DeleteHostRow \/ DeleteHostSecret \/ DeleteHostEvict
    PROVE  HostIInv' /\ hostRow'.known = hostRow.known
  <1>0. /\ UNCHANGED <<edit, op, snap, pinned, pinTry, conn, redial, dead, nextConn, nextGen, pulled>>
        /\ deleter' \in {"row", "secret", "done"} /\ secret' \in BOOLEAN
    BY DEF DeleteHostRow, DeleteHostSecret, DeleteHostEvict, poolVars, opVars, dockerVars, HostIInv, HostShape
  <1>1. hostRow \in [known : SomeKey, ver : Nat, live : BOOLEAN]
    BY DEF HostIInv, HostShape
  <1>2. /\ hostRow' \in [known : SomeKey, ver : Nat, live : BOOLEAN]
        /\ hostRow'.known = hostRow.known /\ hostRow'.ver = hostRow.ver
    <2>1. CASE hostRow' = hostRow
      BY <1>1, <2>1
    <2>2. CASE hostRow' = [hostRow EXCEPT !.live = FALSE]
      <3>1. hostRow' = [known |-> hostRow.known, ver |-> hostRow.ver, live |-> FALSE]
        BY <1>1, <2>2
      <3> QED  BY <1>1, <3>1
    <2> QED  BY <2>1, <2>2 DEF DeleteHostRow, DeleteHostSecret, DeleteHostEvict
  <1>3. Dialled' = Dialled /\ Redialled' = Redialled
    BY <1>0 DEF Dialled, Redialled
  <1>4. VersionsTell' /\ KeysChecked' /\ PullsKnown'
    BY <1>0, <1>2, VersionsStay, KeysStay, PullsStay
  <1>5. ConnsOwned' /\ cached' \in SomeConn /\ open' \subseteq open
    <2>1. CASE Evict
      BY <1>0, <1>3, <2>1, EvictionKeeps
    <2>2. CASE UNCHANGED <<cached, open>>
      BY <1>0, <1>3, <2>2, ConnsStay DEF HostIInv, HostShape
    <2> QED  BY <2>1, <2>2 DEF DeleteHostRow, DeleteHostSecret, DeleteHostEvict, poolVars
  <1>6. HostShape'
    BY <1>0, <1>2, <1>5 DEF HostIInv, HostShape
  <1>7. GensCounted'
    <2>1. HostShape
      BY DEF HostIInv
    <2>2. Cardinality(Redialled) \in Nat
      BY <2>1, RedialledCount
    <2>3. CASE DeleteHostEvict
      <3>1. deleter = "secret" /\ deleter' = "done" /\ gen' = 0
        BY <2>3 DEF DeleteHostEvict, Evict
      <3> QED  BY <1>0, <1>3, <2>2, <3>1 DEF HostIInv, GensCounted
    <2>4. CASE DeleteHostRow \/ DeleteHostSecret
      <3>1. gen' = gen /\ deleter' # "done" /\ deleter # "done"
        BY <2>4 DEF DeleteHostRow, DeleteHostSecret, poolVars
      <3> QED  BY <1>0, <1>3, <2>2, <3>1 DEF HostIInv, GensCounted
    <2> QED  BY <2>3, <2>4
  <1> QED  BY <1>2, <1>4, <1>5, <1>6, <1>7 DEF HostIInv

LEMMA HostLinkDies ==
    ASSUME HostIInv, LinkDies
    PROVE  HostIInv'
  <1>1. UNCHANGED <<hostRow, secret, deleter, edit, op, snap, pinned, pinTry, conn, redial, cached, open, nextConn,
                    gen, nextGen, pulled>>
    BY DEF LinkDies, rowVars, opVars, dockerVars
  <1>2. dead' \subseteq Conns
    BY HostsAssumption DEF LinkDies, HostIInv, HostShape, Conns
  <1>3. HostShape'
    BY <1>1, <1>2 DEF HostIInv, HostShape
  <1>4. VersionsTell' /\ KeysChecked' /\ GensCounted' /\ PullsKnown'
    BY <1>1, VersionsStay, KeysStay, GensStay, PullsStay
  <1>5. ConnsOwned'
    BY <1>1, ConnsStay DEF Dialled
  <1> QED  BY <1>3, <1>4, <1>5 DEF HostIInv

LEMMA HostKeeps == HostIInv /\ [HostsNext]_hostVars => HostIInv'
  <1> SUFFICES ASSUME HostIInv, [HostsNext]_hostVars PROVE HostIInv'
    OBVIOUS
  <1>1. CASE ConnectNext(HostKey)
    BY <1>1, HostCommands, HostResolve, HostDialLookup, HostDial, HostPinGet, HostPinUpdate, HostDialStore
       DEF ConnectNext
  <1>2. CASE CommandNext
    BY <1>2, HostCommands, HostDialFresh DEF CommandNext
  <1>3. CASE EditNext
    BY <1>3, HostEdits DEF EditNext
  <1>4. CASE DeleteNext
    BY <1>4, HostDeletes DEF DeleteNext
  <1>5. CASE LinkDies
    BY <1>5, HostLinkDies
  <1>6. CASE UNCHANGED hostVars
    <2>1. UNCHANGED <<hostRow, secret, deleter, edit, op, snap, pinned, pinTry, conn, redial, cached, open, dead,
                      nextConn, gen, nextGen, pulled>>
      BY <1>6 DEF hostVars, rowVars, poolVars, opVars, dockerVars
    <2>2. HostShape'
      BY <2>1 DEF HostIInv, HostShape
    <2>3. VersionsTell' /\ KeysChecked' /\ GensCounted' /\ PullsKnown'
      BY <2>1, VersionsStay, KeysStay, GensStay, PullsStay
    <2>4. ConnsOwned'
      BY <2>1, ConnsStay DEF Dialled
    <2> QED  BY <2>2, <2>3, <2>4 DEF HostIInv
  <1> QED  BY <1>1, <1>2, <1>3, <1>4, <1>5, <1>6 DEF HostsNext

LEMMA HostFollows == HostIInv => HostsTypeOK /\ PinnedServer /\ CachedOpen
  <1> SUFFICES ASSUME HostIInv PROVE HostsTypeOK /\ PinnedServer /\ CachedOpen
    OBVIOUS
  <1>1. gen \in Gens \cup {0}
    <2>1. HostShape
      BY DEF HostIInv
    <2>2. /\ Cardinality(Redialled) \in Nat /\ Cardinality(Op) \in Nat
          /\ Cardinality(Redialled) <= Cardinality(Op)
      BY <2>1, RedialledCount
    <2>3. gen \in Nat /\ nextGen \in Nat /\ gen < nextGen
      BY DEF HostIInv, GensCounted
    <2>4. gen # 0 => nextGen <= 3 + Cardinality(Redialled)
      BY <2>2, <2>3 DEF HostIInv, GensCounted
    <2>5. gen # 0 => gen <= 2 * Cardinality(Op) + 2
      BY <2>2, <2>3, <2>4
    <2> QED  BY <2>2, <2>3, <2>5 DEF Gens
  <1>2. open \subseteq Conns
    BY HostsAssumption DEF HostIInv, HostShape, Conns
  <1>3. hostRow \in [known : HostKey \cup {NoKey}, ver : Nat, live : BOOLEAN]
    BY DEF HostIInv, HostShape, SomeKey
  <1>4. \A o \in Op : conn[o] \in Conns \cup {NoConn} /\ pinTry[o].n \in 0 .. PinRetries
    BY DEF HostIInv, HostShape, SomeConn
  <1>5. HostsTypeOK
    BY <1>1, <1>2, <1>3, <1>4 DEF HostIInv, HostShape, HostsTypeOK, OpPoints, SomeConn
  <1> QED  BY <1>5 DEF HostIInv, KeysChecked, ConnsOwned

\* PinHostKey writes only to a row without a key; an edit writes the key it read of
\* the same version of the row, or its own.
LEMMA KeyStays ==
    ASSUME HostIInv, [HostsNext]_hostVars, hostRow.known # NoKey
    PROVE  hostRow'.known = hostRow.known \/ \E e \in Editor : Overrides(e)
  <1>1. CASE ConnectNext(HostKey)
    <2>1. PICK o \in Op : PinUpdate(o) \/ UNCHANGED hostRow
      BY <1>1 DEF ConnectNext, Resolve, DialLookup, DialLock, DialFail, PinGet, DialStore, Dial, rowVars
    <2> QED  BY <2>1, HostPinUpdate
  <1>2. CASE CommandNext
    BY <1>2 DEF CommandNext, Pull, DialFresh, Stop, Remove, Run, rowVars
  <1>3. CASE EditNext
    BY <1>3, HostEdits DEF EditNext
  <1>4. CASE DeleteNext
    BY <1>4, HostDeletes DEF DeleteNext
  <1>5. CASE LinkDies \/ UNCHANGED hostVars
    BY <1>5 DEF LinkDies, hostVars, rowVars
  <1> QED  BY <1>1, <1>2, <1>3, <1>4, <1>5 DEF HostsNext

\* Only docker stop takes the container down; docker run needs the name free.
LEMMA StopAfterPull ==
    ASSUME HostIInv, [HostsNext]_hostVars, hostContainer # NoImage, hostContainer' = NoImage
    PROVE  \E o \in pulled : op[o] = "pulled"
  <1>1. CASE CommandNext
    <2>1. PICK o \in Op : Stop(o) \/ Run(o) \/ UNCHANGED hostContainer
      BY <1>1 DEF CommandNext, Pull, DialFresh, Remove, dockerVars
    <2>2. Stop(o)
      BY <2>1 DEF Run
    <2> QED  BY <2>2 DEF Stop, HostIInv, PullsKnown
  <1>2. CASE ConnectNext(HostKey)
    BY <1>2 DEF ConnectNext, Resolve, DialLookup, DialLock, DialFail, PinGet, PinUpdate, DialStore, Dial, dockerVars
  <1>3. CASE EditNext \/ DeleteNext \/ LinkDies \/ UNCHANGED hostVars
    BY <1>3 DEF EditNext, UpdateHostGet, UpdateHostPut, DeleteNext, DeleteHostRow, DeleteHostSecret, DeleteHostEvict,
                LinkDies, hostVars, dockerVars
  <1> QED  BY <1>1, <1>2, <1>3 DEF HostsNext

\* Hosts and the SSH target, for every set of deployments and editors and every
\* interleaving of dials, evictions, edits and a deletion: PinHostKey never
\* replaces a key, UpdateHost loses none and replaces one only by a key that the
\* operator names while holding the current version, hostKeyCallback lets a deployment
\* reach only the pinned server, dialHost hands out no client that Evict closed,
\* and docker stop only follows a pull that succeeded.
THEOREM HostsHold == HostsSpec => HostsCorrect
  <1>1. HostsSpec => []HostIInv
    BY HostInitially, HostKeeps, PTL DEF HostsSpec
  <1>2. ASSUME HostIInv, [HostsNext]_hostVars
        PROVE  [hostRow.known # NoKey => hostRow'.known = hostRow.known \/ \E e \in Editor : Overrides(e)]_hostVars
    BY <1>2, KeyStays
  <1>3. ASSUME HostIInv, [HostsNext]_hostVars
        PROVE  [hostContainer # NoImage /\ hostContainer' = NoImage => \E o \in pulled : op[o] = "pulled"]_hostVars
    BY <1>3, StopAfterPull
  <1> QED  BY <1>1, <1>2, <1>3, HostFollows, PTL DEF HostsSpec, HostsCorrect, PinKept, PulledFirst

-----------------------------------------------------------------------------
(* Deployers *)

\* A deploy has applied the documents it has gone through, all when it reports
\* success, and is not in the stack before it has run under the mutex.
DocsApplied == \A d \in Deploy : patched[d] = 1..nextDoc[d]
WaitersOutside == \A d \in Deploy : at[d] \in {"idle", "locking", "locked"} => d \notin stack
DoneWithAll == \A d \in Deploy : backend = "clientgo" /\ at[d] = "ok" => nextDoc[d] = Docs

WorkIInv == WorkTypeOK /\ DocsApplied /\ WaitersOutside /\ DoneWithAll

WorkPoints == {"idle", "applying", "removed", "locking", "locked", "ok", "failed"}

LEMMA WorkInitially == WorkInit => WorkIInv
  <1> SUFFICES ASSUME WorkInit PROVE WorkIInv
    OBVIOUS
  <1>1. 1..0 = {} /\ 0 \in 0..Docs
    BY WorkloadsAssumption
  <1>2. DocsApplied
    BY <1>1 DEF WorkInit, DocsApplied
  <1> QED  BY <1>1, <1>2 DEF WorkInit, WorkIInv, WorkTypeOK, WaitersOutside, DoneWithAll

\* Every step of a deploy but an apply moves its program point.
LEMMA WorkMoves ==
    ASSUME WorkIInv, NEW d \in Deploy, NEW p \in WorkPoints \ {"idle"}, Step(d, p), UNCHANGED <<nextDoc, patched>>,
           composeMu' \in Deploy \cup {Nobody}, container' \in Deploy \cup {NoWork}, stack' \in {stack, stack \cup {d}},
           p \in {"locking", "locked"} => d \notin stack', backend = "clientgo" /\ p = "ok" => nextDoc[d] = Docs
    PROVE  WorkIInv'
  <1>1. /\ at' \in [Deploy -> WorkPoints] /\ at'[d] = p /\ \A e \in Deploy : e # d => at'[e] = at[e]
        /\ UNCHANGED <<backend, cancelled>>
    BY DEF Step, WorkIInv, WorkTypeOK, WorkPoints
  <1>2. WorkTypeOK'
    BY <1>1 DEF WorkIInv, WorkTypeOK, WorkPoints
  <1>3. WaitersOutside'
    BY <1>1 DEF WorkIInv, WaitersOutside
  <1>4. DocsApplied' /\ DoneWithAll'
    BY <1>1 DEF WorkIInv, DocsApplied, DoneWithAll
  <1> QED  BY <1>2, <1>3, <1>4 DEF WorkIInv

LEMMA WorkApplies ==
    ASSUME WorkIInv, NEW d \in Deploy, ClientGoApply(d)
    PROVE  WorkIInv'
  <1>1. /\ UNCHANGED <<backend, at, container, composeMu, stack, cancelled>>
        /\ nextDoc' = [nextDoc EXCEPT ![d] = nextDoc[d] + 1]
        /\ patched' = [patched EXCEPT ![d] = patched[d] \cup {nextDoc[d] + 1}]
        /\ at[d] = "applying" /\ nextDoc[d] \in 0..Docs /\ nextDoc[d] < Docs /\ Docs \in Nat
        /\ nextDoc \in [Deploy -> 0..Docs] /\ patched \in [Deploy -> SUBSET (1..Docs)]
    BY WorkloadsAssumption DEF ClientGoApply, WorkIInv, WorkTypeOK
  <1>2. nextDoc[d] + 1 \in 0..Docs /\ nextDoc[d] + 1 \in 1..Docs
        /\ 1..(nextDoc[d] + 1) = 1..nextDoc[d] \cup {nextDoc[d] + 1}
    BY <1>1
  <1>3. /\ nextDoc'[d] = nextDoc[d] + 1 /\ patched'[d] = patched[d] \cup {nextDoc[d] + 1}
        /\ \A e \in Deploy : e # d => nextDoc'[e] = nextDoc[e] /\ patched'[e] = patched[e]
    BY <1>1
  <1>4. WorkTypeOK'
    <2>1. nextDoc' \in [Deploy -> 0..Docs]
      BY <1>1, <1>2
    <2>2. patched[d] \cup {nextDoc[d] + 1} \in SUBSET (1..Docs)
      BY <1>1, <1>2
    <2>3. patched' \in [Deploy -> SUBSET (1..Docs)]
      BY <1>1, <2>2
    <2> QED  BY <1>1, <2>1, <2>3 DEF WorkIInv, WorkTypeOK
  <1>5. DocsApplied'
    BY <1>2, <1>3 DEF WorkIInv, DocsApplied
  <1>6. DoneWithAll' /\ WaitersOutside'
    BY <1>1, <1>3 DEF WorkIInv, DoneWithAll, WaitersOutside
  <1> QED  BY <1>4, <1>5, <1>6 DEF WorkIInv

LEMMA WorkKeeps == WorkIInv /\ [WorkNext]_workVars => WorkIInv'
  <1> SUFFICES ASSUME WorkIInv, [WorkNext]_workVars PROVE WorkIInv'
    OBVIOUS
  <1>0. composeMu \in Deploy \cup {Nobody} /\ container \in Deploy \cup {NoWork}
    BY DEF WorkIInv, WorkTypeOK
  <1>1. CASE UNCHANGED workVars
    BY <1>1 DEF workVars, WorkIInv, WorkTypeOK, DocsApplied, WaitersOutside, DoneWithAll
  <1>2. ASSUME NEW d \in Deploy, CancelDeploy(d) PROVE WorkIInv'
    <2>1. UNCHANGED <<backend, at, nextDoc, patched, container, composeMu, stack>> /\ cancelled' \subseteq Deploy
      BY <1>2 DEF CancelDeploy, WorkIInv, WorkTypeOK
    <2> QED  BY <2>1 DEF WorkIInv, WorkTypeOK, DocsApplied, WaitersOutside, DoneWithAll
  <1>3. ASSUME NEW d \in Deploy, ClientGoStart(d) \/ ClientGoRefused(d) \/ ClientGoDone(d) PROVE WorkIInv'
    <2>1. PICK p \in {"applying", "failed", "ok"} : Step(d, p) /\ (p = "ok" => nextDoc[d] = Docs)
      BY <1>3 DEF ClientGoStart, ClientGoRefused, ClientGoDone
    <2>2. UNCHANGED <<nextDoc, patched, container, composeMu, stack>>
      BY <1>3 DEF ClientGoStart, ClientGoRefused, ClientGoDone
    <2> QED  BY <1>0, <2>1, <2>2, WorkMoves DEF WorkPoints
  <1>4. ASSUME NEW d \in Deploy, DockerRemove(d) \/ DockerRun(d) \/ DockerRunFails(d) PROVE WorkIInv'
    <2>1. PICK p \in {"removed", "failed", "ok"} : Step(d, p)
      BY <1>4 DEF DockerRemove, DockerRun, DockerRunFails
    <2>2. /\ UNCHANGED <<nextDoc, patched, composeMu, stack>> /\ backend = "dockerrun"
          /\ container' \in {container, NoWork, d}
      BY <1>4 DEF DockerRemove, DockerRun, DockerRunFails
    <2> QED  BY <1>0, <2>1, <2>2, WorkMoves DEF WorkPoints
  <1>5. ASSUME NEW d \in Deploy, ComposeStart(d) \/ ComposeLock(d) \/ ComposeUp(d) PROVE WorkIInv'
    <2>1. /\ UNCHANGED <<nextDoc, patched, container>> /\ backend = "compose" /\ composeMu' \in {composeMu, d, Nobody}
      BY <1>5 DEF ComposeStart, ComposeLock, ComposeUp
    <2>2. CASE ComposeStart(d)
      <3>1. d \notin stack
        BY <2>2 DEF ComposeStart, WorkIInv, WaitersOutside
      <3> QED  BY <1>0, <2>1, <2>2, <3>1, WorkMoves DEF ComposeStart, WorkPoints
    <2>3. CASE ComposeLock(d)
      <3>1. d \notin stack /\ UNCHANGED stack /\ Step(d, "locked")
        BY <2>3 DEF ComposeLock, WorkIInv, WaitersOutside
      <3> QED  BY <1>0, <2>1, <3>1, WorkMoves DEF WorkPoints
    <2>4. CASE ComposeUp(d)
      <3>1. PICK p \in {"ok", "failed"} : Step(d, p)
        BY <2>4 DEF ComposeUp
      <3>2. stack' \in {stack, stack \cup {d}}
        BY <2>4 DEF ComposeUp
      <3> QED  BY <1>0, <2>1, <3>1, <3>2, WorkMoves DEF WorkPoints
    <2> QED  BY <1>5, <2>2, <2>3, <2>4
  <1> QED  BY <1>1, <1>2, <1>3, <1>4, <1>5, WorkApplies DEF WorkNext

Multiples(s, a, b) == {s * k : k \in a..b}

\* A row of TaskSize's table whose memory sizes are the multiples of its step.
Regular(row, s, a, b) ==
    /\ a \in Nat /\ b \in Nat /\ a <= b /\ row.cpu # 256
    /\ row.min = s * a /\ row.max = s * b /\ row.step = s

\* What AWS offers with the CPU of row i of TaskSize's table.
Offered(i) ==
    CASE i = 1 -> {512, 1024, 2048}
      [] i = 2 -> Multiples(1024, 1, 4)
      [] i = 3 -> Multiples(1024, 2, 8)
      [] i = 4 -> Multiples(1024, 4, 16)
      [] i = 5 -> Multiples(1024, 8, 30)
      [] i = 6 -> Multiples(4096, 4, 15)
      [] i = 7 -> Multiples(8192, 4, 15)

LEMMA Table ==
    /\ sizes[1] = [cpu |-> 256,   min |-> 512,   max |-> 2048,   step |-> 512]
    /\ sizes[2] = [cpu |-> 512,   min |-> 1024,  max |-> 4096,   step |-> 1024]
    /\ sizes[3] = [cpu |-> 1024,  min |-> 2048,  max |-> 8192,   step |-> 1024]
    /\ sizes[4] = [cpu |-> 2048,  min |-> 4096,  max |-> 16384,  step |-> 1024]
    /\ sizes[5] = [cpu |-> 4096,  min |-> 8192,  max |-> 30720,  step |-> 1024]
    /\ sizes[6] = [cpu |-> 8192,  min |-> 16384, max |-> 61440,  step |-> 4096]
    /\ sizes[7] = [cpu |-> 16384, min |-> 32768, max |-> 122880, step |-> 8192]
    /\ DOMAIN sizes = 1..7
  BY DEF sizes

\* Rounding up to a multiple of the step, for the three steps of the table.
LEMMA RoundsUp512 ==
    ASSUME NEW n \in Int PROVE Ceil(n, 512) \in Int /\ 512 * Ceil(n, 512) >= n /\ 512 * Ceil(n, 512) < n + 512
  BY DEF Ceil

LEMMA RoundsUp1024 ==
    ASSUME NEW n \in Int PROVE Ceil(n, 1024) \in Int /\ 1024 * Ceil(n, 1024) >= n /\ 1024 * Ceil(n, 1024) < n + 1024
  BY DEF Ceil

LEMMA RoundsUp4096 ==
    ASSUME NEW n \in Int PROVE Ceil(n, 4096) \in Int /\ 4096 * Ceil(n, 4096) >= n /\ 4096 * Ceil(n, 4096) < n + 4096
  BY DEF Ceil

LEMMA RoundsUp8192 ==
    ASSUME NEW n \in Int PROVE Ceil(n, 8192) \in Int /\ 8192 * Ceil(n, 8192) >= n /\ 8192 * Ceil(n, 8192) < n + 8192
  BY DEF Ceil

LEMMA Halves ==
    ASSUME NEW n \in Nat PROVE Ceil(n, 2) \in Nat /\ \A c \in Nat : c >= Ceil(n, 2) <=> 2 * c >= n
  BY DEF Ceil

\* m is the least of what is offered that is enough.
LeastEnough(offered, memory, m) ==
    m \in offered /\ m \in Nat /\ m >= memory /\ \A n \in offered : n >= memory => n >= m

LEMMA Least1024 ==
    ASSUME NEW row, NEW a, NEW b, Regular(row, 1024, a, b), NEW memory \in Nat, memory <= row.max
    PROVE  LeastEnough(Multiples(1024, a, b), memory, RoundMemory(row, memory))
  <1> DEFINE c == Ceil(memory - 1024 * a, 1024)
             k == a + Larger(0, c)
             m == RoundMemory(row, memory)
  <1>0. /\ a \in Nat /\ b \in Nat /\ a <= b /\ row.min = 1024 * a /\ row.step = 1024 /\ row.cpu # 256
        /\ memory <= 1024 * b
    BY DEF Regular
  <1>1. c \in Int /\ 1024 * c >= memory - 1024 * a /\ 1024 * c < memory - 1024 * a + 1024
    <2>1. memory - 1024 * a \in Int
      BY <1>0
    <2> QED  BY <2>1, RoundsUp1024
  <1> HIDE DEF c
  <1>2. k \in a..b /\ 1024 * k >= memory /\ (k > a => 1024 * k < memory + 1024)
    BY <1>0, <1>1 DEF Larger
  <1>3. m = 1024 * a + 1024 * Larger(0, c)
    BY <1>0 DEF RoundMemory, c
  <1>4. m = 1024 * k
    BY <1>0, <1>1, <1>3 DEF Larger
  <1> HIDE DEF k, m
  <1>5. \A j \in a..b : 1024 * j >= memory => j >= k
    BY <1>0, <1>2
  <1>6. \A n \in Multiples(1024, a, b) : n >= memory => n >= m
    BY <1>0, <1>2, <1>4, <1>5 DEF Multiples
  <1>7. m \in Multiples(1024, a, b) /\ m \in Nat /\ m >= memory
    BY <1>0, <1>2, <1>4 DEF Multiples
  <1> QED  BY <1>6, <1>7 DEF m, LeastEnough

LEMMA Least4096 ==
    ASSUME NEW row, NEW a, NEW b, Regular(row, 4096, a, b), NEW memory \in Nat, memory <= row.max
    PROVE  LeastEnough(Multiples(4096, a, b), memory, RoundMemory(row, memory))
  <1> DEFINE c == Ceil(memory - 4096 * a, 4096)
             k == a + Larger(0, c)
             m == RoundMemory(row, memory)
  <1>0. /\ a \in Nat /\ b \in Nat /\ a <= b /\ row.min = 4096 * a /\ row.step = 4096 /\ row.cpu # 256
        /\ memory <= 4096 * b
    BY DEF Regular
  <1>1. c \in Int /\ 4096 * c >= memory - 4096 * a /\ 4096 * c < memory - 4096 * a + 4096
    <2>1. memory - 4096 * a \in Int
      BY <1>0
    <2> QED  BY <2>1, RoundsUp4096
  <1> HIDE DEF c
  <1>2. k \in a..b /\ 4096 * k >= memory /\ (k > a => 4096 * k < memory + 4096)
    BY <1>0, <1>1 DEF Larger
  <1>3. m = 4096 * a + 4096 * Larger(0, c)
    BY <1>0 DEF RoundMemory, c
  <1>4. m = 4096 * k
    BY <1>0, <1>1, <1>3 DEF Larger
  <1> HIDE DEF k, m
  <1>5. \A j \in a..b : 4096 * j >= memory => j >= k
    BY <1>0, <1>2
  <1>6. \A n \in Multiples(4096, a, b) : n >= memory => n >= m
    BY <1>0, <1>2, <1>4, <1>5 DEF Multiples
  <1>7. m \in Multiples(4096, a, b) /\ m \in Nat /\ m >= memory
    BY <1>0, <1>2, <1>4 DEF Multiples
  <1> QED  BY <1>6, <1>7 DEF m, LeastEnough

LEMMA Least8192 ==
    ASSUME NEW row, NEW a, NEW b, Regular(row, 8192, a, b), NEW memory \in Nat, memory <= row.max
    PROVE  LeastEnough(Multiples(8192, a, b), memory, RoundMemory(row, memory))
  <1> DEFINE c == Ceil(memory - 8192 * a, 8192)
             k == a + Larger(0, c)
             m == RoundMemory(row, memory)
  <1>0. /\ a \in Nat /\ b \in Nat /\ a <= b /\ row.min = 8192 * a /\ row.step = 8192 /\ row.cpu # 256
        /\ memory <= 8192 * b
    BY DEF Regular
  <1>1. c \in Int /\ 8192 * c >= memory - 8192 * a /\ 8192 * c < memory - 8192 * a + 8192
    <2>1. memory - 8192 * a \in Int
      BY <1>0
    <2> QED  BY <2>1, RoundsUp8192
  <1> HIDE DEF c
  <1>2. k \in a..b /\ 8192 * k >= memory /\ (k > a => 8192 * k < memory + 8192)
    BY <1>0, <1>1 DEF Larger
  <1>3. m = 8192 * a + 8192 * Larger(0, c)
    BY <1>0 DEF RoundMemory, c
  <1>4. m = 8192 * k
    BY <1>0, <1>1, <1>3 DEF Larger
  <1> HIDE DEF k, m
  <1>5. \A j \in a..b : 8192 * j >= memory => j >= k
    BY <1>0, <1>2
  <1>6. \A n \in Multiples(8192, a, b) : n >= memory => n >= m
    BY <1>0, <1>2, <1>4, <1>5 DEF Multiples
  <1>7. m \in Multiples(8192, a, b) /\ m \in Nat /\ m >= memory
    BY <1>0, <1>2, <1>4 DEF Multiples
  <1> QED  BY <1>6, <1>7 DEF m, LeastEnough

\* The memory chosen in a row is the least that AWS offers there.
LEMMA LeastMemory ==
    ASSUME NEW i \in 1..7, NEW memory \in Nat, memory <= sizes[i].max
    PROVE  LeastEnough(Offered(i), memory, RoundMemory(sizes[i], memory))
  <1> DEFINE m == RoundMemory(sizes[i], memory)
  <1>1. CASE i = 1
    <2> DEFINE c == Ceil(memory - 512, 512)
    <2>0. sizes[i] = [cpu |-> 256, min |-> 512, max |-> 2048, step |-> 512] /\ memory - 512 \in Int
      BY <1>1, Table
    <2>1. c \in Int /\ 512 * c >= memory - 512 /\ 512 * c < memory - 512 + 512
      BY <2>0, RoundsUp512
    <2> DEFINE r == 512 + 512 * Larger(0, c)
    <2>2. m = IF r = 1536 THEN 2048 ELSE r
      BY <2>0 DEF RoundMemory
    <2> HIDE DEF c
    <2>3. memory <= 2048
      BY <2>0
    <2>4. r \in {512, 1024, 1536, 2048} /\ r >= memory /\ (r > 512 => r < memory + 512)
      BY <2>1, <2>3 DEF Larger
    <2> HIDE DEF r, m
    <2>5. Offered(i) = {512, 1024, 2048}
      BY <1>1 DEF Offered
    <2> QED  BY <2>2, <2>4, <2>5 DEF m, LeastEnough
  <1>2. CASE i = 2
    <2>1. Regular(sizes[i], 1024, 1, 4)
      BY <1>2, Table DEF Regular
    <2>2. Offered(i) = Multiples(1024, 1, 4)
      BY <1>2 DEF Offered
    <2> QED  BY <2>1, <2>2, Least1024
  <1>3. CASE i = 3
    <2>1. Regular(sizes[i], 1024, 2, 8)
      BY <1>3, Table DEF Regular
    <2>2. Offered(i) = Multiples(1024, 2, 8)
      BY <1>3 DEF Offered
    <2> QED  BY <2>1, <2>2, Least1024
  <1>4. CASE i = 4
    <2>1. Regular(sizes[i], 1024, 4, 16)
      BY <1>4, Table DEF Regular
    <2>2. Offered(i) = Multiples(1024, 4, 16)
      BY <1>4 DEF Offered
    <2> QED  BY <2>1, <2>2, Least1024
  <1>5. CASE i = 5
    <2>1. Regular(sizes[i], 1024, 8, 30)
      BY <1>5, Table DEF Regular
    <2>2. Offered(i) = Multiples(1024, 8, 30)
      BY <1>5 DEF Offered
    <2> QED  BY <2>1, <2>2, Least1024
  <1>6. CASE i = 6
    <2>1. Regular(sizes[i], 4096, 4, 15)
      BY <1>6, Table DEF Regular
    <2>2. Offered(i) = Multiples(4096, 4, 15)
      BY <1>6 DEF Offered
    <2> QED  BY <2>1, <2>2, Least4096
  <1>7. CASE i = 7
    <2>1. Regular(sizes[i], 8192, 4, 15)
      BY <1>7, Table DEF Regular
    <2>2. Offered(i) = Multiples(8192, 4, 15)
      BY <1>7 DEF Offered
    <2> QED  BY <2>1, <2>2, Least8192
  <1> QED  BY <1>1, <1>2, <1>3, <1>4, <1>5, <1>6, <1>7

\* The table against AWS's: what a row offers is within its bounds, the rows
\* ascend, and together they are all the tasks there are.
LEMMA RowBounds ==
    ASSUME NEW i \in 1..7
    PROVE  /\ sizes[i].cpu \in Nat /\ sizes[i].cpu >= 256 /\ sizes[i].cpu <= 16384
           /\ sizes[i].max \in Nat /\ sizes[i].max <= 122880
           /\ \A n \in Offered(i) : n \in Nat /\ n >= 512 /\ n <= sizes[i].max
  <1>1. /\ sizes[i].cpu \in Nat /\ sizes[i].cpu >= 256 /\ sizes[i].cpu <= 16384
        /\ sizes[i].max \in Nat /\ sizes[i].max <= 122880
    <2>1. i = 1 \/ i = 2 \/ i = 3 \/ i = 4 \/ i = 5 \/ i = 6 \/ i = 7
      OBVIOUS
    <2> QED  BY <2>1, Table
  <1>2. \A n \in Offered(i) : n \in Nat /\ n >= 512 /\ n <= sizes[i].max
    <2>1. CASE i = 1
      BY <2>1, Table DEF Offered
    <2>2. CASE i \in {2, 3, 4, 5}
      BY <2>2, Table DEF Offered, Multiples
    <2>3. CASE i \in {6, 7}
      BY <2>3, Table DEF Offered, Multiples
    <2> QED  BY <2>1, <2>2, <2>3
  <1> QED  BY <1>1, <1>2

LEMMA RowsAscend ==
    ASSUME NEW i \in 1..7, NEW j \in 1..7, i < j
    PROVE  sizes[i].cpu < sizes[j].cpu
  BY Table

Task(i, n) == [cpu |-> sizes[i].cpu, memory |-> n]

LEMMA TasksOffered ==
    /\ \A i \in 1..7 : \A n \in Offered(i) : Task(i, n) \in FargateTasks
    /\ \A p \in FargateTasks : \E i \in 1..7 : \E n \in Offered(i) : p = Task(i, n)
  <1>1. ASSUME NEW i \in 1..7, NEW n \in Offered(i) PROVE Task(i, n) \in FargateTasks
    <2>1. CASE i = 1
      BY <2>1, Table DEF Offered, Task, FargateTasks
    <2>2. CASE i = 2
      BY <2>2, Table DEF Offered, Multiples, Task, FargateTasks
    <2>3. CASE i = 3
      BY <2>3, Table DEF Offered, Multiples, Task, FargateTasks
    <2>4. CASE i = 4
      BY <2>4, Table DEF Offered, Multiples, Task, FargateTasks
    <2>5. CASE i = 5
      BY <2>5, Table DEF Offered, Multiples, Task, FargateTasks
    <2>6. CASE i = 6
      BY <2>6, Table DEF Offered, Multiples, Task, FargateTasks
    <2>7. CASE i = 7
      BY <2>7, Table DEF Offered, Multiples, Task, FargateTasks
    <2> QED  BY <2>1, <2>2, <2>3, <2>4, <2>5, <2>6, <2>7
  <1>2. ASSUME NEW p \in FargateTasks PROVE \E i \in 1..7 : \E n \in Offered(i) : p = Task(i, n)
    <2>1. CASE p \in [cpu : {256}, memory : {512, 1024, 2048}]
      <3>1. p.memory \in Offered(1) /\ p = Task(1, p.memory)
        BY <2>1, Table DEF Offered, Task
      <3> QED  BY <3>1
    <2>2. CASE p \in {[cpu |-> 512, memory |-> 1024 * k] : k \in 1..4}
      <3>1. PICK k \in 1..4 : p = [cpu |-> 512, memory |-> 1024 * k]
        BY <2>2
      <3>2. 1024 * k \in Offered(2) /\ p = Task(2, 1024 * k)
        BY <3>1, Table DEF Offered, Multiples, Task
      <3> QED  BY <3>2
    <2>3. CASE p \in {[cpu |-> 1024, memory |-> 1024 * k] : k \in 2..8}
      <3>1. PICK k \in 2..8 : p = [cpu |-> 1024, memory |-> 1024 * k]
        BY <2>3
      <3>2. 1024 * k \in Offered(3) /\ p = Task(3, 1024 * k)
        BY <3>1, Table DEF Offered, Multiples, Task
      <3> QED  BY <3>2
    <2>4. CASE p \in {[cpu |-> 2048, memory |-> 1024 * k] : k \in 4..16}
      <3>1. PICK k \in 4..16 : p = [cpu |-> 2048, memory |-> 1024 * k]
        BY <2>4
      <3>2. 1024 * k \in Offered(4) /\ p = Task(4, 1024 * k)
        BY <3>1, Table DEF Offered, Multiples, Task
      <3> QED  BY <3>2
    <2>5. CASE p \in {[cpu |-> 4096, memory |-> 1024 * k] : k \in 8..30}
      <3>1. PICK k \in 8..30 : p = [cpu |-> 4096, memory |-> 1024 * k]
        BY <2>5
      <3>2. 1024 * k \in Offered(5) /\ p = Task(5, 1024 * k)
        BY <3>1, Table DEF Offered, Multiples, Task
      <3> QED  BY <3>2
    <2>6. CASE p \in {[cpu |-> 8192, memory |-> 4096 * k] : k \in 4..15}
      <3>1. PICK k \in 4..15 : p = [cpu |-> 8192, memory |-> 4096 * k]
        BY <2>6
      <3>2. 4096 * k \in Offered(6) /\ p = Task(6, 4096 * k)
        BY <3>1, Table DEF Offered, Multiples, Task
      <3> QED  BY <3>2
    <2>7. CASE p \in {[cpu |-> 16384, memory |-> 8192 * k] : k \in 4..15}
      <3>1. PICK k \in 4..15 : p = [cpu |-> 16384, memory |-> 8192 * k]
        BY <2>7
      <3>2. 8192 * k \in Offered(7) /\ p = Task(7, 8192 * k)
        BY <3>1, Table DEF Offered, Multiples, Task
      <3> QED  BY <3>2
    <2> QED  BY <2>1, <2>2, <2>3, <2>4, <2>5, <2>6, <2>7 DEF FargateTasks
  <1> QED  BY <1>1, <1>2

LEMMA LeastRow ==
    ASSUME NEW S, S \subseteq 1..7, S # {}
    PROVE  Min(S) \in S /\ \A i \in S : Min(S) <= i
  <1>1. \E x \in S : \A y \in S : x =< y
    <2>1. CASE S \subseteq 1..7 /\ 1 \in S
      BY <2>1
    <2>2. CASE S \subseteq 2..7 /\ 2 \in S
      BY <2>2
    <2>3. CASE S \subseteq 3..7 /\ 3 \in S
      BY <2>3
    <2>4. CASE S \subseteq 4..7 /\ 4 \in S
      BY <2>4
    <2>5. CASE S \subseteq 5..7 /\ 5 \in S
      BY <2>5
    <2>6. CASE S \subseteq 6..7 /\ 6 \in S
      BY <2>6
    <2>7. CASE S \subseteq 7..7 /\ 7 \in S
      BY <2>7
    <2>8. S \subseteq 1..7 /\ 1 \notin S => S \subseteq 2..7
      OBVIOUS
    <2>9. S \subseteq 2..7 /\ 2 \notin S => S \subseteq 3..7
      OBVIOUS
    <2>10. S \subseteq 3..7 /\ 3 \notin S => S \subseteq 4..7
      OBVIOUS
    <2>11. S \subseteq 4..7 /\ 4 \notin S => S \subseteq 5..7
      OBVIOUS
    <2>12. S \subseteq 5..7 /\ 5 \notin S => S \subseteq 6..7
      OBVIOUS
    <2>13. S \subseteq 6..7 /\ 6 \notin S => S \subseteq 7..7
      OBVIOUS
    <2>14. S \subseteq 7..7 /\ 7 \notin S => S = {}
      OBVIOUS
    <2> QED  BY <2>1, <2>2, <2>3, <2>4, <2>5, <2>6, <2>7, <2>8, <2>9, <2>10, <2>11, <2>12, <2>13, <2>14
  <1> QED  BY <1>1 DEF Min

\* TaskSize of any demand.
LEMMA TaskSizeChosen ==
    ASSUME ask \in Demands
    PROVE  TaskSizeSmallest
  <1> DEFINE cpu == IF ask.cpu = 0 THEN 256 ELSE Ceil(ask.cpu, 2)
             memory == IF ask.memory = 0 THEN 512 ELSE Ceil(ask.memory, 2)
             fits == {i \in 1..7 : sizes[i].cpu >= cpu /\ sizes[i].max >= memory}
             good == {p \in FargateTasks : Covers(p)}
             m == RoundMemory(sizes[Min(fits)], memory)
  <1>0. ask.cpu \in Nat /\ ask.memory \in Nat
    BY WorkloadsAssumption
  <1>1. /\ cpu \in Nat /\ \A c \in Nat : c >= 256 => (c >= cpu <=> 2 * c >= ask.cpu)
        /\ memory \in Nat /\ \A c \in Nat : c >= 512 => (c >= memory <=> 2 * c >= ask.memory)
    BY <1>0, Halves
  <1>2. TaskSize = IF ask.cpu > 2 * 16384 \/ ask.memory > 2 * 122880 \/ fits = {} THEN "refused"
                   ELSE [cpu |-> sizes[Min(fits)].cpu, memory |-> m]
    BY Table DEF TaskSize
  <1> HIDE DEF cpu, memory, m
  <1>3. \A i \in 1..7 : \A n \in Offered(i) :
           Task(i, n).cpu = sizes[i].cpu /\ Task(i, n).memory = n /\ (Covers(Task(i, n)) <=> sizes[i].cpu >= cpu /\ n >= memory)
    BY <1>1, RowBounds DEF Covers, Task
  <1>4. \A p \in good : \E i \in fits : \E n \in Offered(i) : p = Task(i, n) /\ n >= memory
    <2> SUFFICES ASSUME NEW p \in good PROVE \E i \in fits : \E n \in Offered(i) : p = Task(i, n) /\ n >= memory
      OBVIOUS
    <2>0. PICK i \in 1..7 : \E n \in Offered(i) : p = Task(i, n)
      BY TasksOffered
    <2>1. PICK n \in Offered(i) : p = Task(i, n)
      BY <2>0
    <2>2. sizes[i].cpu >= cpu /\ n >= memory
      BY <1>3, <2>1
    <2>3. sizes[i].max >= memory
      BY <1>1, <2>2, RowBounds
    <2> QED  BY <2>1, <2>2, <2>3
  <1>5. CASE fits = {}
    <2>1. good = {} /\ TaskSize = "refused"
      BY <1>2, <1>4, <1>5
    <2> QED  BY <2>1 DEF TaskSizeSmallest
  <1>6. CASE fits # {}
    <2> DEFINE i == Min(fits)
    <2>1. i \in fits /\ \A j \in fits : i <= j
      BY <1>6, LeastRow
    <2>2. i \in 1..7 /\ sizes[i].cpu >= cpu /\ sizes[i].max >= memory
      BY <2>1
    <2>3. ~(ask.cpu > 2 * 16384) /\ ~(ask.memory > 2 * 122880)
      <3>1. /\ sizes[i].cpu \in Nat /\ sizes[i].cpu >= 256 /\ sizes[i].cpu <= 16384
            /\ sizes[i].max \in Nat /\ sizes[i].max <= 122880
        BY <2>2, RowBounds
      <3>2. 2 * sizes[i].cpu >= ask.cpu
        BY <1>1, <2>2, <3>1
      <3>3. 2 * 122880 >= ask.memory
        BY <1>1, <2>2, <3>1
      <3> QED  BY <1>0, <3>1, <3>2, <3>3
    <2>4. TaskSize = Task(i, m)
      BY <1>2, <1>6, <2>3 DEF Task
    <2>5. LeastEnough(Offered(i), memory, m)
      BY <1>1, <2>2, LeastMemory DEF m
    <2> HIDE DEF i, fits
    <2>6. TaskSize \in good
      BY <1>3, <2>2, <2>4, <2>5, TasksOffered DEF LeastEnough
    <2>7. ASSUME NEW p \in good
          PROVE  p.cpu > TaskSize.cpu \/ (p.cpu = TaskSize.cpu /\ p.memory >= TaskSize.memory)
      <3>0. PICK j \in fits : \E n \in Offered(j) : p = Task(j, n) /\ n >= memory
        BY <1>4
      <3>1. PICK n \in Offered(j) : p = Task(j, n) /\ n >= memory
        BY <3>0
      <3>2. j \in 1..7 /\ i <= j
        BY <2>1 DEF fits
      <3>3. p.cpu = sizes[j].cpu /\ p.memory = n /\ TaskSize.cpu = sizes[i].cpu /\ TaskSize.memory = m
        BY <2>4, <3>1 DEF Task
      <3>4. CASE i < j
        <4>1. sizes[i].cpu < sizes[j].cpu /\ sizes[i].cpu \in Nat /\ sizes[j].cpu \in Nat
          BY <2>2, <3>2, <3>4, RowsAscend, RowBounds
        <4> QED  BY <3>3, <4>1
      <3>5. CASE i = j
        <4>1. n >= m
          BY <2>5, <3>1, <3>5 DEF LeastEnough
        <4> QED  BY <3>3, <3>5, <4>1
      <3> QED  BY <2>2, <3>2, <3>4, <3>5
    <2> QED  BY <2>6, <2>7 DEF TaskSizeSmallest
  <1> QED  BY <1>5, <1>6

\* A deploy that was cancelled while it waited fails under the mutex.
LEMMA CancelledStaysOut ==
    ASSUME WorkIInv, [WorkNext]_workVars, NEW d \in Deploy, d \in cancelled, at[d] \in {"locking", "locked"}
    PROVE  d \notin stack'
  <1>0. d \notin stack
    BY DEF WorkIInv, WaitersOutside
  <1>1. CASE UNCHANGED stack
    BY <1>0, <1>1
  <1>2. ASSUME NEW e \in Deploy, ComposeUp(e) PROVE d \notin stack'
    BY <1>0, <1>2 DEF ComposeUp, ComposeMayRun
  <1>3. UNCHANGED stack \/ \E e \in Deploy : ComposeUp(e)
    BY DEF WorkNext, CancelDeploy, ClientGoStart, ClientGoApply, ClientGoRefused, ClientGoDone, DockerRemove,
           DockerRun, DockerRunFails, ComposeStart, ComposeLock, workVars
  <1> QED  BY <1>1, <1>2, <1>3

\* The deployers, for every set of overlapping deploys, every manifest and every
\* demand: a client-go deploy that reports success applied each document, the
\* Compose deployer looks at its context again under the mutex, and TaskSize
\* picks the smallest Fargate task that AWS offers for what is asked.
THEOREM WorkHolds == WorkSpec => WorkCorrect
  <1>1. WorkSpec => []WorkIInv
    BY WorkInitially, WorkKeeps, PTL DEF WorkSpec
  <1>2. WorkInit => TaskSizeSmallest
    BY TaskSizeChosen DEF WorkInit
  <1>3. WorkIInv => WorkTypeOK /\ SuccessAppliesAll
    BY DEF WorkIInv, DocsApplied, DoneWithAll, SuccessAppliesAll
  <1>4. ASSUME WorkIInv, [WorkNext]_workVars
        PROVE  [\A d \in Deploy : d \in cancelled /\ at[d] \in {"locking", "locked"} => d \notin stack']_workVars
    BY <1>4, CancelledStaysOut
  <1> QED  BY <1>1, <1>2, <1>3, <1>4, PTL DEF WorkSpec, WorkCorrect, CancelledLeavesStack

=============================================================================
