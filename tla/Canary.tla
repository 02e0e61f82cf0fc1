------------------------------- MODULE Canary -------------------------------
(***************************************************************************)
(* Canary rollouts of one app (service/canary.go, handler/canary.go,       *)
(* store/*/app_canary.go, deploy/deployer/weighted.go).                    *)
(*                                                                         *)
(* A rollout c is one call of CanaryService.Start and the app_canaries row *)
(* it inserts.  Resolvers are the callers of Promote, Abort and DeleteApp  *)
(* and the auto-promotion sweepers of the replicas.  They share the table  *)
(* and the cluster and nothing else.  Times are counted in ticks of half   *)
(* an hour: age[c] since started_at, soak[c] until promote_after.          *)
(***************************************************************************)
EXTENDS Integers, FiniteSets

CONSTANTS
    Rollout,       \* Start calls, each with its row and the image it builds
    Base,          \* the image the newest successful plain deploy shipped
    NoImage,
    HasHistory,    \* whether that plain deploy exists
    Resolver,
    Sweeper,       \* the resolvers that are sweeper loops
    Config,        \* Config[c]: app.Canary when Start(c) reads it
    Probe,         \* what CanaryReady or the app prober may answer
    Cascade,       \* deleting the app deletes its rows (PostgreSQL)
    Pool,          \* defaultCanaryPoolReplicas
    StartTimeout,  \* the deadline of runCanaryStartCtx
    HardDeadline,  \* canaryHardDeadline
    StaleAfter,    \* stalePendingThreshold
    DefaultWeight, DefaultWindow,
    MaxFaults      \* bound on stopped callers, store errors and cluster errors

Strategy == {"", "rolling", "canary"}

\* The settings CreateApp and UpdateApp let through.
ConfigType == [strategy : Strategy, weight : 0..99, auto : BOOLEAN, window : Nat]

ASSUME CanaryAssumption ==
    /\ Base \notin Rollout /\ NoImage \notin Rollout \cup {Base}
    /\ HasHistory \in BOOLEAN /\ Cascade \in BOOLEAN
    /\ Sweeper \subseteq Resolver
    /\ Config \in [Rollout -> ConfigType]
    /\ Probe \subseteq {"ready", "failed", "unknown"}
    /\ Pool \in Nat \ {0, 1}
    /\ StartTimeout \in Nat /\ HardDeadline \in Nat /\ StaleAfter \in Nat
    /\ DefaultWeight \in 1..99 /\ DefaultWindow \in Nat
    /\ MaxFaults \in Nat

\* An in-flight Start is over before the reaper may take its row for stale.
ASSUME StartEndsFirst == StartTimeout < StaleAfter

VARIABLES
    row,       \* status column of the row of each rollout
    stable,    \* stable_image column
    age, soak,
    start,     \* program point of Start(c) and of the worker around it
    run,       \* the status of the stub run the worker reports to
    latest,    \* the canary_image LatestPromoted answers
    pods,      \* the live Deployments: image and replicas of each track
    pc, tgt, want, after, ripe,   \* program point and locals of a resolver
    app,       \* the app's row exists
    shifted,   \* the verdict whose DeployWeighted was acknowledged
    faults

rows == <<row, stable, age, soak, latest>>
starts == <<start, run>>
resolvers == <<pc, tgt, want, after, ripe>>
vars == <<rows, starts, pods, resolvers, app, shifted, faults>>

-----------------------------------------------------------------------------
\* CanaryConfig.Normalize
Normalize(cfg) ==
    IF cfg.strategy # "canary"
      THEN [strategy |-> "rolling", weight |-> 0, auto |-> FALSE, window |-> 0]
      ELSE [cfg EXCEPT !.weight = IF @ = 0 THEN DefaultWeight ELSE @,
                       !.window = IF cfg.auto /\ @ = 0 THEN DefaultWindow ELSE @]

IsCanary(c) == Normalize(Config[c]).strategy = "canary"
AutoPromote(c) == Normalize(Config[c]).auto
Weight(c) == Normalize(Config[c]).weight
Window(c) == Normalize(Config[c]).window

Active == {"pending", "progressing"}
CanaryStatus == Active \cup {"promoted", "aborted", "failed"}

\* uq_app_canaries_active: somebody else occupies the slot.
SlotTaken(c) == \E d \in Rollout \ {c} : row[d] \in Active

\* splitReplicas: pods of the canary track at a weight.
CanaryPods(weight) ==
    LET rounded == (weight * Pool + 50) \div 100 IN
    IF weight <= 0 THEN 0
    ELSE IF weight >= 100 THEN Pool
    ELSE IF rounded < 1 THEN 1
    ELSE IF rounded > Pool - 1 THEN Pool - 1
    ELSE rounded

Image == Rollout \cup {Base}
Track == [image : Image \cup {NoImage}, replicas : 0..Pool]

StartPoint == {"idle", "resolve", "build", "split", "persist", "done"}
StartRunning == {"resolve", "build", "split", "persist"}
Claimed == {"shift", "revert", "record"}
ResolverPoint ==
    Claimed \cup {"idle", "list", "lookup", "evaluate", "load", "claim", "claimGone", "delete"}

TypeOK ==
    /\ row \in [Rollout -> CanaryStatus \cup {"absent", "deleted"}]
    /\ stable \in [Rollout -> Image \cup {NoImage}]
    /\ age \in [Rollout -> Nat]
    /\ soak \in [Rollout -> Nat]
    /\ start \in [Rollout -> StartPoint]
    /\ run \in [Rollout -> {"absent", "running", "success", "failed"}]
    /\ latest \in Rollout \cup {NoImage}
    /\ pods \in [stable : Track, canary : Track]
    /\ pc \in [Resolver -> ResolverPoint]
    /\ tgt \in [Resolver -> Rollout \cup {NoImage}]
    /\ want \in [Resolver -> {"promoted", "aborted"}]
    /\ after \in [Resolver -> {"idle", "delete"}]
    /\ ripe \in [Resolver -> BOOLEAN]
    /\ app \in BOOLEAN
    /\ shifted \in [Rollout -> {"none", "promoted", "aborted"}]
    /\ faults \in Nat

Init ==
    /\ row = [c \in Rollout |-> "absent"]
    /\ stable = [c \in Rollout |-> NoImage]
    /\ age = [c \in Rollout |-> 0]
    /\ soak = [c \in Rollout |-> 0]
    /\ start = [c \in Rollout |-> "idle"]
    /\ run = [c \in Rollout |-> "absent"]
    /\ latest = NoImage
    /\ pods = [stable |-> [image    |-> IF HasHistory THEN Base ELSE NoImage,
                           replicas |-> IF HasHistory THEN Pool ELSE 0],
               canary |-> [image |-> NoImage, replicas |-> 0]]
    /\ pc = [a \in Resolver |-> "idle"]
    /\ tgt = [a \in Resolver |-> NoImage]
    /\ want = [a \in Resolver |-> "aborted"]
    /\ after = [a \in Resolver |-> "idle"]
    /\ ripe = [a \in Resolver |-> FALSE]
    /\ app = TRUE
    /\ shifted = [c \in Rollout |-> "none"]
    /\ faults = 0

UseFault == faults < MaxFaults /\ faults' = faults + 1

\* AppCanaryStore.Update of the row of c: no row is an error, and so is a
\* status that would occupy a slot somebody else holds.
UpdateHits(c, st) == row[c] # "deleted" /\ ~(st \in Active /\ SlotTaken(c))

-----------------------------------------------------------------------------
(* Start, in the worker runCanaryStartCtx *)

\* The worker's context has expired: every call fails from here on.
Expired(c) == age[c] >= StartTimeout

\* The worker reports to its stub run, on the same context.
EndStart(c, st) ==
    /\ start' = [start EXCEPT ![c] = "done"]
    /\ run' = [run EXCEPT ![c] = IF Expired(c) THEN @ ELSE st]

\* Create: the pending row takes the slot, or the index refuses it.
StartReserve(c) ==
    /\ start[c] = "idle" /\ app /\ IsCanary(c)
    /\ IF SlotTaken(c)
         THEN /\ start' = [start EXCEPT ![c] = "done"]
              /\ run' = [run EXCEPT ![c] = "failed"]
              /\ UNCHANGED row
         ELSE /\ row' = [row EXCEPT ![c] = "pending"]
              /\ start' = [start EXCEPT ![c] = "resolve"]
              /\ run' = [run EXCEPT ![c] = "running"]
    /\ UNCHANGED <<stable, age, soak, latest, pods, resolvers, app, shifted, faults>>

\* stableImageFor: the newest promoted canary, else the newest plain deploy.
\* A failed lookup is read as "none".
StartResolve(c) ==
    LET deployed == IF HasHistory THEN Base ELSE NoImage IN
    /\ start[c] = "resolve"
    /\ \/ /\ stable' = [stable EXCEPT ![c] = IF latest # NoImage THEN latest ELSE deployed]
          /\ UNCHANGED faults
       \/ /\ UseFault
          /\ stable' = [stable EXCEPT ![c] = deployed]
    /\ start' = [start EXCEPT ![c] = "build"]
    /\ UNCHANGED <<row, age, soak, latest, run, pods, resolvers, app, shifted>>

\* BuildAndPushImage returned an image; without a history the new image is
\* split against itself.
StartBuilt(c) ==
    /\ start[c] = "build" /\ ~Expired(c)
    /\ stable' = [stable EXCEPT ![c] = IF @ = NoImage THEN c ELSE @]
    /\ start' = [start EXCEPT ![c] = "split"]
    /\ UNCHANGED <<row, age, soak, latest, run, pods, resolvers, app, shifted, faults>>

\* weightedManifestFor: the two Deployments of a rollout at a weight.
Split(c, weight) ==
    [stable |-> [image |-> stable[c], replicas |-> Pool - CanaryPods(weight)],
     canary |-> [image |-> c, replicas |-> CanaryPods(weight)]]

\* A DeployWeighted that fails: the stable Deployment is applied first, so
\* nothing, that one, or (the answer lost) both may have changed.
PartlyApplied(c, weight) ==
    pods' \in {pods, [pods EXCEPT !.stable = Split(c, weight).stable], Split(c, weight)}

StartSplit(c) ==
    /\ start[c] = "split" /\ ~Expired(c)
    /\ pods' = Split(c, Weight(c))
    /\ start' = [start EXCEPT ![c] = "persist"]
    /\ UNCHANGED <<rows, run, resolvers, app, shifted, faults>>

\* failPending, on the context that may be the reason of the failure.
FailPending(c) ==
    row' = [row EXCEPT ![c] = IF Expired(c) \/ @ = "deleted" THEN @ ELSE "failed"]

\* The build fails, or an apply does (with or without effect), or the
\* context has expired.
StartFails(c) ==
    /\ \/ /\ start[c] = "build"
          /\ UNCHANGED <<pods, faults>>
       \/ /\ start[c] = "split"
          /\ IF Expired(c) THEN UNCHANGED faults ELSE UseFault
          /\ PartlyApplied(c, Weight(c))
    /\ FailPending(c)
    /\ EndStart(c, "failed")
    /\ UNCHANGED <<stable, age, soak, latest, resolvers, app, shifted>>

\* The split is live: the row becomes progressing and the soak window starts.
StartPersist(c) ==
    /\ start[c] = "persist" /\ ~Expired(c)
    /\ IF UpdateHits(c, "progressing")
         THEN /\ row' = [row EXCEPT ![c] = "progressing"]
              /\ soak' = [soak EXCEPT ![c] = IF AutoPromote(c) THEN Window(c) ELSE 0]
              /\ EndStart(c, "success")
         ELSE /\ EndStart(c, "failed")
              /\ UNCHANGED <<row, soak>>
    /\ UNCHANGED <<stable, age, latest, pods, resolvers, app, shifted, faults>>

\* The Update fails: Start returns an error and the split stays live.
StartPersistFails(c) ==
    /\ start[c] = "persist"
    /\ IF Expired(c) THEN UNCHANGED faults ELSE UseFault
    /\ EndStart(c, "failed")
    /\ UNCHANGED <<rows, pods, resolvers, app, shifted>>

\* The replica dies with the worker.
StartDies(c) ==
    /\ start[c] \in StartRunning
    /\ UseFault
    /\ start' = [start EXCEPT ![c] = "done"]
    /\ UNCHANGED <<rows, run, pods, resolvers, app, shifted>>

-----------------------------------------------------------------------------
(* Promote, Abort and DeleteApp *)

\* The call of a returns; DeleteApp goes on to delete the app.
Return(a) ==
    /\ pc' = [pc EXCEPT ![a] = after[a]]
    /\ tgt' = [tgt EXCEPT ![a] = NoImage]
    /\ after' = [after EXCEPT ![a] = "idle"]
    /\ want' = [want EXCEPT ![a] = "aborted"]
    /\ ripe' = [ripe EXCEPT ![a] = FALSE]

At(a, from, to) == pc[a] = from /\ pc' = [pc EXCEPT ![a] = to]

\* PromoteAppCanary, AbortAppCanary or DeleteApp is called.
Request(a, verdict, next) ==
    /\ a \notin Sweeper
    /\ verdict = "promoted" => next = "idle"
    /\ At(a, "idle", "load")
    /\ want' = [want EXCEPT ![a] = verdict]
    /\ after' = [after EXCEPT ![a] = next]
    /\ UNCHANGED <<rows, starts, pods, tgt, ripe, app, shifted, faults>>

\* loadActive: the progressing row of the app, whichever rollout it is.
LoadActive(a) ==
    /\ pc[a] = "load"
    /\ IF app /\ \E c \in Rollout : row[c] = "progressing"
         THEN /\ tgt' = [tgt EXCEPT ![a] = CHOOSE c \in Rollout : row[c] = "progressing"]
              /\ pc' = [pc EXCEPT ![a] = "claim"]
              /\ UNCHANGED <<want, after, ripe>>
         ELSE Return(a)
    /\ UNCHANGED <<rows, starts, pods, app, shifted, faults>>

\* Mutant: the UPDATE forgets its status predicate.
ClaimTerminalUnchecked(a, next) ==
    /\ row' = [row EXCEPT ![tgt[a]] = want[a]]
    /\ pc' = [pc EXCEPT ![a] = next]
    /\ UNCHANGED <<tgt, want, after, ripe>>

\* ClaimTerminal: exactly one caller moves the row off progressing.
ClaimTerminal(a, next) ==
    IF row[tgt[a]] = "progressing"
      THEN /\ row' = [row EXCEPT ![tgt[a]] = want[a]]
           /\ pc' = [pc EXCEPT ![a] = next]
           /\ UNCHANGED <<tgt, want, after, ripe>>
      ELSE Return(a) /\ UNCHANGED row

\* The claim precedes the change of the cluster.
Claim(a) ==
    /\ pc[a] = "claim"
    /\ ClaimTerminal(a, "shift")
    /\ UNCHANGED <<stable, age, soak, latest, starts, pods, app, shifted, faults>>

VerdictWeight(a) == IF want[a] = "promoted" THEN 100 ELSE 0

\* Mutant: Abort keeps the weight of the rollout.
ShiftKeepsWeight(a) ==
    /\ At(a, "shift", "record")
    /\ pods' = Split(tgt[a], IF want[a] = "promoted" THEN 100 ELSE Weight(tgt[a]))
    /\ shifted' = [shifted EXCEPT ![tgt[a]] = want[a]]
    /\ UNCHANGED <<rows, starts, tgt, want, after, ripe, app, faults>>

\* DeployWeighted at 100 or 0.
Shift(a) ==
    /\ At(a, "shift", "record")
    /\ pods' = Split(tgt[a], VerdictWeight(a))
    /\ shifted' = [shifted EXCEPT ![tgt[a]] = want[a]]
    /\ UNCHANGED <<rows, starts, tgt, want, after, ripe, app, faults>>

ShiftFails(a) ==
    /\ At(a, "shift", "revert")
    /\ UseFault
    /\ PartlyApplied(tgt[a], VerdictWeight(a))
    /\ UNCHANGED <<rows, starts, tgt, want, after, ripe, app, shifted>>

\* revertClaim: back to progressing, unless the row is gone or another
\* rollout has taken the slot that the claim set free.
Revert(a) ==
    LET c == tgt[a] IN
    /\ pc[a] = "revert"
    /\ row' = [row EXCEPT ![c] = IF UpdateHits(c, "progressing") THEN "progressing" ELSE @]
    /\ Return(a)
    /\ UNCHANGED <<stable, age, soak, latest, starts, pods, app, shifted, faults>>

\* The row records the outcome and becomes what LatestPromoted answers.
Record(a) ==
    LET c == tgt[a] IN
    /\ pc[a] = "record"
    /\ IF row[c] = "deleted"
         THEN UNCHANGED <<row, latest>>
         ELSE /\ row' = [row EXCEPT ![c] = want[a]]
              /\ latest' = IF want[a] = "promoted" THEN c ELSE latest
    /\ Return(a)
    /\ UNCHANGED <<stable, age, soak, starts, pods, app, shifted, faults>>

\* DELETE of the app; its canary rows go with it on PostgreSQL.
DeleteApp(a) ==
    /\ At(a, "delete", "idle")
    /\ app' = FALSE
    /\ IF Cascade
         THEN /\ row' = [c \in Rollout |-> IF row[c] = "absent" THEN "absent" ELSE "deleted"]
              /\ latest' = NoImage
         ELSE UNCHANGED <<row, latest>>
    /\ UNCHANGED <<stable, age, soak, starts, pods, tgt, want, after, ripe, shifted, faults>>

\* A statement fails and the call returns its error.  A claim may have
\* reached the server all the same.
StatementFails(a) ==
    /\ pc[a] \in {"list", "lookup", "load", "claim", "claimGone", "revert", "record", "delete"}
    /\ UseFault
    /\ \/ UNCHANGED row
       \/ /\ pc[a] \in {"claim", "claimGone"} /\ row[tgt[a]] = "progressing"
          /\ row' = [row EXCEPT ![tgt[a]] = want[a]]
    /\ Return(a)
    /\ UNCHANGED <<stable, age, soak, latest, starts, pods, app, shifted>>

\* The caller's context ends (client gone, canaryEvalTimeout) or its replica
\* dies: no later call succeeds, revertClaim included.
ResolverStops(a) ==
    /\ pc[a] # "idle"
    /\ UseFault
    /\ pc' = [pc EXCEPT ![a] = "idle"]
    /\ tgt' = [tgt EXCEPT ![a] = NoImage]
    /\ after' = [after EXCEPT ![a] = "idle"]
    /\ want' = [want EXCEPT ![a] = "aborted"]
    /\ ripe' = [ripe EXCEPT ![a] = FALSE]
    /\ UNCHANGED <<rows, starts, pods, app, shifted>>

-----------------------------------------------------------------------------
(* SweepAutoPromote *)

\* Mutant: the reaper takes every pending row.
SweepReapEager(a) ==
    /\ a \in Sweeper
    /\ At(a, "idle", "list")
    /\ row' = [c \in Rollout |-> IF row[c] = "pending" THEN "deleted" ELSE row[c]]
    /\ UNCHANGED <<stable, age, soak, latest, starts, pods, tgt, want, after, ripe, app,
                   shifted, faults>>

\* Mutant: the sweep reaps nothing.
SweepReapNone(a) ==
    /\ a \in Sweeper
    /\ At(a, "idle", "list")
    /\ UNCHANGED <<rows, starts, pods, tgt, want, after, ripe, app, shifted, faults>>

\* DeleteStalePending
SweepReap(a) ==
    /\ a \in Sweeper
    /\ At(a, "idle", "list")
    /\ row' = [c \in Rollout |->
                 IF row[c] = "pending" /\ age[c] > StaleAfter THEN "deleted" ELSE row[c]]
    /\ UNCHANGED <<stable, age, soak, latest, starts, pods, tgt, want, after, ripe, app,
                   shifted, faults>>

\* ListProgressing, and the clock the windows are compared with.
SweepList(a) ==
    /\ pc[a] = "list"
    /\ \/ \E c \in Rollout :
             /\ row[c] = "progressing"
             /\ tgt' = [tgt EXCEPT ![a] = c]
             /\ ripe' = [ripe EXCEPT ![a] = AutoPromote(c) /\ soak[c] = 0]
             /\ pc' = [pc EXCEPT ![a] = "lookup"]
             /\ UNCHANGED <<want, after>>
       \/ /\ \A c \in Rollout : row[c] # "progressing"
          /\ Return(a)
    /\ UNCHANGED <<rows, starts, pods, app, shifted, faults>>

\* The app is gone, or the window is still open, or the canary is judged.
SweepLookup(a) ==
    /\ pc[a] = "lookup"
    /\ IF app /\ ~ripe[a]
         THEN Return(a)
         ELSE /\ pc' = [pc EXCEPT ![a] = IF app THEN "evaluate" ELSE "claimGone"]
              /\ UNCHANGED <<tgt, want, after, ripe>>
    /\ UNCHANGED <<rows, starts, pods, app, shifted, faults>>

\* decide: a canary that cannot be judged waits until the hard deadline.
Decide(probe, late) ==
    CASE probe = "ready"   -> "promoted"
      [] probe = "failed"  -> "aborted"
      [] probe = "unknown" -> IF late THEN "aborted" ELSE "wait"

\* evaluate: the verdict is passed to Promote or Abort by app, not by row.
SweepEvaluate(a) ==
    /\ pc[a] = "evaluate"
    /\ \E probe \in Probe :
          LET verdict == Decide(probe, age[tgt[a]] > HardDeadline) IN
          IF verdict = "wait"
            THEN Return(a)
            ELSE /\ want' = [want EXCEPT ![a] = verdict]
                 /\ pc' = [pc EXCEPT ![a] = "load"]
                 /\ UNCHANGED <<tgt, after, ripe>>
    /\ UNCHANGED <<rows, starts, pods, app, shifted, faults>>

\* reapAppGone: the row is aborted, the cluster is not touched.
ReapAppGone(a) ==
    /\ pc[a] = "claimGone"
    /\ ClaimTerminal(a, "record")
    /\ UNCHANGED <<stable, age, soak, latest, starts, pods, app, shifted, faults>>

\* Time passes.  A worker whose context has expired is over by then.
Tick ==
    LET ageMatters(c) == /\ row[c] \in Active \/ start[c] \in StartRunning
                         /\ age[c] <= StaleAfter \/ age[c] <= HardDeadline IN
    /\ \A c \in Rollout : Expired(c) => start[c] \notin StartRunning
    /\ age' = [c \in Rollout |->
                 IF ageMatters(c) THEN age[c] + 1 ELSE age[c]]
    /\ soak' = [c \in Rollout |-> IF soak[c] > 0 THEN soak[c] - 1 ELSE 0]
    /\ UNCHANGED <<row, stable, latest, starts, pods, resolvers, app, shifted, faults>>

-----------------------------------------------------------------------------
StartStep(c) ==
    \/ StartReserve(c) \/ StartResolve(c) \/ StartBuilt(c) \/ StartSplit(c)
    \/ StartFails(c) \/ StartPersist(c) \/ StartPersistFails(c) \/ StartDies(c)

ResolverStep(a) ==
    \/ LoadActive(a) \/ Claim(a) \/ Shift(a) \/ Revert(a) \/ Record(a) \/ DeleteApp(a)
    \/ SweepReap(a) \/ SweepList(a) \/ SweepLookup(a) \/ SweepEvaluate(a) \/ ReapAppGone(a)

ResolverFault(a) == ShiftFails(a) \/ StatementFails(a) \/ ResolverStops(a)

Next ==
    \/ \E c \in Rollout : StartStep(c)
    \/ \E a \in Resolver : ResolverStep(a) \/ ResolverFault(a)
    \/ \E a \in Resolver, v \in {"promoted", "aborted"}, n \in {"idle", "delete"} :
          Request(a, v, n)
    \/ Tick

Spec == Init /\ [][Next]_vars

\* Workers and loops that can step do, their calls return, time passes.
Fairness ==
    /\ \A c \in Rollout : WF_vars(StartStep(c) /\ start[c] # "idle")
    /\ \A a \in Resolver : WF_vars(ResolverStep(a))
    /\ WF_vars(Tick)

FairSpec == Spec /\ Fairness

-----------------------------------------------------------------------------
\* A resolver between its claim and its report owns its rollout alone: nobody
\* else has claimed it, and its row still carries the claimed verdict (or went
\* with the app).  This is what keeps Promote and Abort, of operators or of the
\* sweepers of several replicas, from issuing contradictory splits.
ClaimHeld ==
    \A a \in Resolver : pc[a] \in Claimed =>
        /\ row[tgt[a]] \in {want[a], "deleted"}
        /\ \A b \in Resolver \ {a} : pc[b] \in Claimed => tgt[b] # tgt[a]

\* Once the cluster acknowledged a verdict of a rollout, no other verdict of
\* that rollout ever reaches the cluster, across lost answers, reverts,
\* stopped callers and retries.
VerdictFinal ==
    [][\A c \in Rollout : shifted[c] # "none" => shifted'[c] = shifted[c]]_vars

\* The live Deployments show the acknowledged verdict of a rollout that no
\* other rollout overlapped: all pods on its image, or all on the image it was
\* measured against.
ClusterShowsVerdict ==
    \A c \in Rollout :
        shifted[c] # "none" /\ (\A d \in Rollout \ {c} : row[d] = "absent") =>
            pods = Split(c, IF shifted[c] = "promoted" THEN 100 ELSE 0)

\* "An in-flight Start is never reaped mid-flight": as long as the app exists,
\* a running Start finds its row pending.
StartKeepsRow ==
    \A c \in Rollout : app /\ start[c] \in StartRunning => row[c] = "pending"

\* One pending or progressing rollout at a time, reverted claims included.
OneActive ==
    \A c, d \in Rollout : row[c] \in Active /\ row[d] \in Active => c = d

\* A rollout that nobody needs to decide on comes to an end: the slot of a
\* Start that failed, expired or died is freed, and an auto-promoting canary is
\* promoted, or rolled back when it fails or cannot be judged until the hard
\* deadline.
Undecided(c) == row[c] = "pending" \/ (row[c] = "progressing" /\ AutoPromote(c))
RolloutSettles == \A c \in Rollout : Undecided(c) ~> ~Undecided(c)

\* What the proofs add to make these inductive.
ResolverPhases ==
    \A a \in Resolver :
        pc[a] \in Claimed \cup {"claim", "claimGone", "lookup", "evaluate"} => tgt[a] \in Rollout

StartPhases ==
    \A c \in Rollout :
        /\ start[c] = "idle" => row[c] = "absent" /\ age[c] = 0 /\ shifted[c] = "none"
        /\ start[c] \in StartRunning =>
              age[c] <= StartTimeout /\ (row[c] = "pending" \/ (~app /\ row[c] = "deleted"))

ShiftedIsClaimed ==
    \A c \in Rollout : shifted[c] # "none" =>
        /\ row[c] \in {shifted[c], "deleted"}
        /\ \A a \in Resolver : pc[a] \in Claimed /\ tgt[a] = c => pc[a] = "record"

IInv ==
    /\ TypeOK /\ OneActive /\ ResolverPhases /\ StartPhases
    /\ ClaimHeld /\ ShiftedIsClaimed

\* What every state of the rollouts satisfies, across stopped callers, lost
\* answers and reverts: claims are exclusive and held, a running Start keeps its
\* row, and at most one rollout of the app is active.
CanaryInv == TypeOK /\ ClaimHeld /\ StartKeepsRow /\ OneActive

=============================================================================
