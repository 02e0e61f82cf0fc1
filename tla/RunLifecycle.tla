---------------------------- MODULE RunLifecycle ----------------------------
(***************************************************************************)
(* The life of a pipeline_runs row: who creates it, who executes the run,  *)
(* who writes its status, and who recovers it.                             *)
(*                                                                         *)
(* A run takes one of five paths.  "inline": RunPipeline spawns the        *)
(* executor through the RunCoordinator.  "queue": RunPipeline enqueues a   *)
(* job and JobQueueRunner.Handle executes it in some replica.              *)
(* "scheduled": the cron scheduler enqueues the job.  "app" and            *)
(* "rollback": DeployApp and RollbackApp insert a stub row that is already *)
(* running and spawn the deployer.  The executor works on its own copy of  *)
(* the run, mem; the row changes only through the store's UPDATEs, each    *)
(* of which is one step.  The store is the PostgreSQL one.                 *)
(*                                                                         *)
(* Time is counted in heartbeat intervals, and the latencies within one    *)
(* decide at the boundary: a beat whose age is the orphan threshold may or *)
(* may not have passed it.  JobQueue says what becomes of a job; here a    *)
(* job is queued, picked up at most once, or dropped.                      *)
(***************************************************************************)
EXTENDS Naturals, FiniteSets

CONSTANTS Run,             \* run ids
          Path,            \* Path[r]: how r is started
          Process, NoProc, \* server processes
          MaxConcurrentRuns,
          OrphanThreshold, \* orphanThreshold / heartbeatInterval
          NoBeat,          \* heartbeat_at IS NULL
          MaxCancels,      \* bound: CancelPipelineRun requests
          FaultKinds,      \* what may go wrong: shutdown, crash, db, deadline
          MaxFaults        \* bound: how often

ASSUME RunAssumption ==
    /\ Path \in [Run -> {"inline", "queue", "scheduled", "app", "rollback"}]
    /\ NoProc \notin Process
    /\ MaxConcurrentRuns \in Nat \ {0}
    /\ OrphanThreshold \in Nat \ {0}
    /\ NoBeat \notin Nat
    /\ FaultKinds \subseteq {"shutdown", "crash", "db", "deadline"}
    /\ MaxCancels \in Nat /\ MaxFaults \in Nat
    /\ IsFiniteSet(Run)

VARIABLES
    row,       \* row[r]: the status column, "absent" before Create
    beat,      \* beat[r]: age of heartbeat_at, or NoBeat
    pc,        \* pc[r]: where the goroutine that serves r is
    host,      \* host[r]: the process it runs in
    mem,       \* mem[r]: Status of the executor's PipelineRun
    started,   \* started[r]: startedCancelled of Execute
    runErr,    \* runErr[r]: Execute returned an error
    ctx,       \* ctx[r]: Err() of the run's context
    ticking,   \* ticking[r]: the heartbeat goroutine is alive
    due,       \* due[r]: its ticker fired and the write is still to come
    missed,    \* missed[r]: writes of it that failed since the last that landed
    notified,  \* notified[r]: type of the outcome event, or "none"
    process,   \* process[p]: "up", "stopping" or "down"
    slots,     \* slots[p]: free slots of the coordinator's semaphore
    cancels,   \* cancel requests left
    faults     \* faults left

store == <<row, beat>>
executor == <<mem, started, runErr, ctx>>
heart == <<ticking, due, missed>>
vars == <<store, pc, host, executor, heart, notified, process, slots, cancels, faults>>

Status == {"pending", "running", "success", "failed", "cancelled"}
Terminal == {"success", "failed", "cancelled"}

\* Program points between spawn (or pick-up) and the end of the goroutine.
InFlight == {"spawned", "prepare", "execute", "work", "persist", "notify", "teardown"}
Point == InFlight \cup {"idle", "created", "queued", "rejected", "dropped", "done", "cutoff"}

Age == 0 .. OrphanThreshold + 1

TypeOK ==
    /\ row \in [Run -> Status \cup {"absent"}]
    /\ beat \in [Run -> Age \cup {NoBeat}]
    /\ pc \in [Run -> Point]
    /\ host \in [Run -> Process \cup {NoProc}]
    /\ mem \in [Run -> Status]
    /\ started \in [Run -> BOOLEAN]
    /\ runErr \in [Run -> BOOLEAN]
    /\ ctx \in [Run -> {"ok", "deadline", "cancelled"}]
    /\ ticking \in [Run -> BOOLEAN]
    /\ due \in [Run -> BOOLEAN]
    /\ missed \in [Run -> Nat]
    /\ notified \in [Run -> Terminal \cup {"none"}]
    /\ process \in [Process -> {"up", "stopping", "down"}]
    /\ slots \in [Process -> Nat]
    /\ cancels \in Nat /\ faults \in Nat

Init ==
    /\ row = [r \in Run |-> "absent"]
    /\ beat = [r \in Run |-> NoBeat]
    /\ pc = [r \in Run |-> "idle"]
    /\ host = [r \in Run |-> NoProc]
    /\ mem = [r \in Run |-> "pending"]
    /\ started = [r \in Run |-> FALSE]
    /\ runErr = [r \in Run |-> FALSE]
    /\ ctx = [r \in Run |-> "ok"]
    /\ ticking = [r \in Run |-> FALSE]
    /\ due = [r \in Run |-> FALSE]
    /\ missed = [r \in Run |-> 0]
    /\ notified = [r \in Run |-> "none"]
    /\ process = [p \in Process |-> "up"]
    /\ slots = [p \in Process |-> MaxConcurrentRuns]
    /\ cancels = MaxCancels /\ faults = MaxFaults

-----------------------------------------------------------------------------
(* Helpers *)

Goto(r, p) == pc' = [pc EXCEPT ![r] = p]

Fault(k) == k \in FaultKinds /\ faults > 0 /\ faults' = faults - 1

\* Runs that go through RunCoordinator.Spawn.
Coordinated(r) == Path[r] \in {"inline", "app", "rollback"}

\* Runs whose row is inserted as a stub with status running.
Stubbed(r) == Path[r] \in {"app", "rollback"}

\* A process that still executes code.
Alive(p) == process[p] # "down"

\* The context of the final Update can still reach the database.  Spawned
\* work uses its own deadline context; the job handler uses the pool's.
CtxReachesStore(r) ==
    IF Coordinated(r) THEN ctx[r] = "ok" ELSE process[host[r]] = "up"

\* heartbeat_at IS NULL OR heartbeat_at < NOW() - threshold: certainly, or, when
\* the threshold is a whole number of intervals (60 s over 30 s) and the age has
\* reached it, possibly, for the latency of a write and of the sweep comes on top.
Stale(r) == beat[r] = NoBeat \/ beat[r] > OrphanThreshold
MayBeStale(r) == Stale(r) \/ beat[r] = OrphanThreshold

\* Mutant: the flag read at entry does not count.
FinalizeIgnoresFlag(r, err) ==
    IF mem[r] = "cancelled" \/ err = "cancelled" THEN "cancelled"
    ELSE IF err = "none" THEN "success" ELSE "failed"

\* Executor.finalize: a run cancelled before or during execution stays
\* cancelled, as does one whose context was cancelled; otherwise the runner's
\* error (a passed deadline included) decides.  Where runstate refuses the
\* event the fallback is the event's own target.
Finalize(r, err) ==
    IF started[r] \/ mem[r] = "cancelled" \/ err = "cancelled" THEN "cancelled"
    ELSE IF err = "none" THEN "success" ELSE "failed"

-----------------------------------------------------------------------------
(* HTTP handlers *)

\* The handler inserts the row: pending for a pipeline run, a running stub
\* for an app deploy or rollback.
CreateRun(r, p) ==
    /\ process[p] = "up"
    /\ pc[r] = "idle" /\ Path[r] # "scheduled"
    /\ row' = [row EXCEPT ![r] = IF Stubbed(r) THEN "running" ELSE "pending"]
    /\ host' = [host EXCEPT ![r] = p]
    /\ Goto(r, "created")
    /\ UNCHANGED <<beat, executor, heart, notified, process, slots, cancels, faults>>

\* RunPipeline with a job queue: the job is inserted, and any replica may
\* pick it up.
EnqueueRun(r) ==
    /\ pc[r] = "created" /\ ~Coordinated(r)
    /\ host' = [host EXCEPT ![r] = NoProc]
    /\ Goto(r, "queued")
    /\ UNCHANGED <<store, executor, heart, notified, process, slots, cancels, faults>>

\* The scheduler fires: it makes up a run id and enqueues the job.  It inserts
\* no row.
EnqueueScheduled(r) ==
    /\ pc[r] = "idle" /\ Path[r] = "scheduled"
    /\ \E p \in Process : process[p] = "up"
    /\ Goto(r, "queued")
    /\ UNCHANGED <<store, host, executor, heart, notified, process, slots, cancels, faults>>

\* The insert fails: the handler logs it and answers 202 all the same.
EnqueueFails(r) ==
    /\ pc[r] = "created" /\ ~Coordinated(r)
    /\ Fault("db")
    /\ host' = [host EXCEPT ![r] = NoProc]
    /\ Goto(r, "dropped")
    /\ UNCHANGED <<store, executor, heart, notified, process, slots, cancels>>

\* SpawnWithDeadline: take a slot and start the goroutine, or answer 429 and
\* leave the row as it is.
Spawn(r) ==
    /\ pc[r] = "created" /\ Coordinated(r)
    /\ IF slots[host[r]] > 0
         THEN /\ slots' = [slots EXCEPT ![host[r]] = @ - 1]
              /\ Goto(r, "spawned")
              /\ UNCHANGED host
         ELSE /\ Goto(r, "rejected")
              /\ host' = [host EXCEPT ![r] = NoProc]
              /\ UNCHANGED slots
    /\ UNCHANGED <<store, executor, heart, notified, process, cancels, faults>>

\* CancelPipelineRun: an unconditional UPDATE of the status column.  Nothing
\* reaches the executor or its context.
CancelPipelineRun(r) ==
    /\ \E p \in Process : Alive(p)
    /\ row[r] # "absent"
    /\ cancels > 0 /\ cancels' = cancels - 1
    /\ row' = [row EXCEPT ![r] = "cancelled"]
    /\ UNCHANGED <<beat, pc, host, executor, heart, notified, process, slots, faults>>

-----------------------------------------------------------------------------
(* Heartbeats *)

\* The first heartbeat is written before work starts, then the ticker
\* goroutine takes over.  A failed write is only logged.
FirstHeartbeat(r) ==
    /\ pc[r] = "spawned"
    /\ \/ /\ ctx[r] = "ok"
          /\ beat' = [beat EXCEPT ![r] = 0]
          /\ UNCHANGED <<missed, faults>>
       \/ /\ ctx[r] = "ok" /\ Fault("db")
          /\ missed' = [missed EXCEPT ![r] = @ + 1]
          /\ UNCHANGED beat
       \/ /\ ctx[r] # "ok"
          /\ UNCHANGED <<beat, missed, faults>>
    /\ ticking' = [ticking EXCEPT ![r] = ctx[r] = "ok"]
    /\ Goto(r, IF Stubbed(r) THEN "prepare" ELSE "execute")
    /\ UNCHANGED <<row, host, executor, due, notified, process, slots, cancels>>

\* The ticker goroutine writes heartbeat_at, or logs that it could not.
Heartbeat(r) ==
    /\ ticking[r] /\ due[r]
    /\ \/ /\ beat' = [beat EXCEPT ![r] = 0]
          /\ missed' = [missed EXCEPT ![r] = 0]
          /\ UNCHANGED faults
       \/ /\ Fault("db")
          /\ missed' = [missed EXCEPT ![r] = @ + 1]
          /\ UNCHANGED beat
    /\ due' = [due EXCEPT ![r] = FALSE]
    /\ UNCHANGED <<row, pc, host, executor, ticking, notified, process, slots, cancels>>

\* One heartbeat interval passes: every written heartbeat ages and every
\* ticker fires.  An interval is long: no ticker is still waiting to write
\* the previous beat.  A beat beyond the threshold need not age further.
Tick ==
    /\ \E r \in Run : ticking[r] \/ (beat[r] \in Age /\ beat[r] <= OrphanThreshold)
    /\ \A r \in Run : ~due[r]
    /\ beat' = [r \in Run |-> IF beat[r] \in Age /\ beat[r] <= OrphanThreshold
                                THEN beat[r] + 1 ELSE beat[r]]
    /\ due' = ticking
    /\ UNCHANGED <<row, pc, host, executor, ticking, missed, notified, process, slots, cancels, faults>>

\* The run's deadline passes: its context ends, and with it the ticker.
DeadlineExpires(r) ==
    /\ pc[r] \in InFlight \ {"teardown"}
    /\ ctx[r] = "ok"
    /\ Fault("deadline")
    /\ ctx' = [ctx EXCEPT ![r] = "deadline"]
    /\ ticking' = [ticking EXCEPT ![r] = FALSE]
    /\ due' = [due EXCEPT ![r] = FALSE]
    /\ UNCHANGED <<store, pc, host, mem, started, runErr, missed, notified, process, slots, cancels>>

-----------------------------------------------------------------------------
(* The executor *)

\* JobQueueRunner.Handle loads the run; when there is none, or the load fails,
\* the job fails with it (a pipeline-run job has one attempt).
PickUp(r, p) ==
    /\ pc[r] = "queued"
    /\ process[p] = "up"
    /\ \/ /\ row[r] # "absent"
          /\ mem' = [mem EXCEPT ![r] = row[r]]
          /\ host' = [host EXCEPT ![r] = p]
          /\ Goto(r, "execute")
          /\ UNCHANGED faults
       \/ /\ \/ row[r] = "absent" /\ UNCHANGED faults
             \/ Fault("db")
          /\ Goto(r, "dropped")
          /\ UNCHANGED <<mem, host>>
    /\ UNCHANGED <<store, started, runErr, ctx, heart, notified, process, slots, cancels>>

\* AppDeployer before Execute: clone, plan, checks.  Deploy then saves its own
\* run, whose HeartbeatAt is nil, over the stub; DeployImage does not.
PrepareSucceeds(r) ==
    /\ pc[r] = "prepare"
    /\ IF Path[r] = "app"
         THEN /\ CtxReachesStore(r)
              /\ row' = [row EXCEPT ![r] = "running"]
              /\ beat' = [beat EXCEPT ![r] = NoBeat]
              /\ mem' = [mem EXCEPT ![r] = "running"]
         ELSE UNCHANGED <<store, mem>>
    /\ Goto(r, "execute")
    /\ UNCHANGED <<host, started, runErr, ctx, heart, notified, process, slots, cancels, faults>>

\* The deployer returns an error and no run.  DeployApp's worker marks the
\* stub failed; RollbackApp's worker leaves it.
PrepareFails(r) ==
    /\ pc[r] = "prepare"
    /\ IF Path[r] = "app"
         THEN mem' = [mem EXCEPT ![r] = "failed"] /\ Goto(r, "persist")
         ELSE Goto(r, "teardown") /\ UNCHANGED mem
    /\ runErr' = [runErr EXCEPT ![r] = TRUE]
    /\ UNCHANGED <<store, host, started, ctx, heart, notified, process, slots, cancels, faults>>

\* Mutant: an unbuildable pipeline is returned as it came.
ExecuteRefusesAsIs(r) ==
    /\ pc[r] = "execute"
    /\ runErr' = [runErr EXCEPT ![r] = TRUE]
    /\ Goto(r, "persist")
    /\ UNCHANGED <<store, host, mem, started, ctx, heart, notified, process, slots, cancels, faults>>

\* Execute on a review-only or cyclic pipeline: finalize before any stage.
ExecuteRefuses(r) ==
    /\ pc[r] = "execute"
    /\ mem' = [mem EXCEPT ![r] = Finalize(r, "error")]
    /\ runErr' = [runErr EXCEPT ![r] = TRUE]
    /\ Goto(r, "persist")
    /\ UNCHANGED <<store, host, started, ctx, heart, notified, process, slots, cancels, faults>>

\* Execute starts: note whether the run was already cancelled, then stamp
\* running on the executor's copy (the row does not change).
ExecuteStarts(r) ==
    /\ pc[r] = "execute"
    /\ started' = [started EXCEPT ![r] = mem[r] = "cancelled"]
    /\ mem' = [mem EXCEPT ![r] = "running"]
    /\ Goto(r, "work")
    /\ UNCHANGED <<store, host, runErr, ctx, heart, notified, process, slots, cancels, faults>>

\* The runner returns and finalize stamps the outcome.  A stage may ignore
\* an ended context and still succeed, or fail in its own way.
ExecuteReturns(r) ==
    /\ pc[r] = "work"
    /\ \E err \in {"none", "error"} \cup ({ctx[r]} \ {"ok"}) :
          /\ mem' = [mem EXCEPT ![r] = Finalize(r, err)]
          /\ runErr' = [runErr EXCEPT ![r] = err # "none"]
    /\ Goto(r, "persist")
    /\ UNCHANGED <<store, host, started, ctx, heart, notified, process, slots, cancels, faults>>

\* Mutant: only a successful run is written back.
PersistOnlySuccess(r) ==
    /\ pc[r] = "persist"
    /\ CtxReachesStore(r)
    /\ row' = [row EXCEPT ![r] = IF mem[r] = "success" THEN mem[r] ELSE @]
    /\ beat' = [beat EXCEPT ![r] = NoBeat]
    /\ Goto(r, IF Stubbed(r) THEN "teardown" ELSE "notify")
    /\ UNCHANGED <<host, executor, heart, notified, process, slots, cancels, faults>>

\* RunStore.Update writes every column from the executor's copy, whatever the
\* row holds by now.  That copy never carries a heartbeat.
Persist(r) ==
    /\ pc[r] = "persist"
    /\ CtxReachesStore(r)
    /\ row' = [row EXCEPT ![r] = mem[r]]
    /\ beat' = [beat EXCEPT ![r] = NoBeat]
    /\ Goto(r, IF Stubbed(r) THEN "teardown" ELSE "notify")
    /\ UNCHANGED <<host, executor, heart, notified, process, slots, cancels, faults>>

\* The Update fails, on an ended context or a database error.  Only the queue
\* path goes on to notify.
PersistFails(r) ==
    /\ pc[r] = "persist"
    /\ \/ CtxReachesStore(r) /\ Fault("db")
       \/ ~CtxReachesStore(r) /\ UNCHANGED faults
    /\ Goto(r, IF Coordinated(r) THEN "teardown" ELSE "notify")
    /\ UNCHANGED <<store, host, executor, heart, notified, process, slots, cancels>>

\* NotifyRunOutcome: an execution error is a failure event, else the status
\* decides.
Notify(r) ==
    /\ pc[r] = "notify"
    /\ notified' = [notified EXCEPT ![r] = IF runErr[r] THEN "failed" ELSE mem[r]]
    /\ Goto(r, "teardown")
    /\ UNCHANGED <<store, host, executor, heart, process, slots, cancels, faults>>

\* Mutant: the slot is released only when the work returned no error.
TeardownKeepsSlot(r) ==
    /\ pc[r] = "teardown"
    /\ ticking' = [ticking EXCEPT ![r] = FALSE]
    /\ due' = [due EXCEPT ![r] = FALSE]
    /\ slots' = [slots EXCEPT ![host[r]] =
                   IF Coordinated(r) /\ ~runErr[r] THEN @ + 1 ELSE @]
    /\ host' = [host EXCEPT ![r] = NoProc]
    /\ Goto(r, "done")
    /\ UNCHANGED <<store, executor, missed, notified, process, cancels, faults>>

\* The coordinator's goroutine joins the heartbeat, frees its slot and ends;
\* a job handler just returns.
Teardown(r) ==
    /\ pc[r] = "teardown"
    /\ ticking' = [ticking EXCEPT ![r] = FALSE]
    /\ due' = [due EXCEPT ![r] = FALSE]
    /\ slots' = [slots EXCEPT ![host[r]] = IF Coordinated(r) THEN @ + 1 ELSE @]
    /\ host' = [host EXCEPT ![r] = NoProc]
    /\ Goto(r, "done")
    /\ UNCHANGED <<store, executor, missed, notified, process, cancels, faults>>

-----------------------------------------------------------------------------
(* Processes *)

On(r, p) == host[r] = p

\* SIGTERM: no new requests and no new jobs; the pool's context, and so that
\* of every job it runs, is cancelled.  Spawned runs are not told.
Shutdown(p) ==
    /\ process[p] = "up"
    /\ Fault("shutdown")
    /\ process' = [process EXCEPT ![p] = "stopping"]
    /\ ctx' = [r \in Run |->
                 IF On(r, p) /\ pc[r] \in InFlight /\ ~Coordinated(r) /\ ctx[r] = "ok"
                   THEN "cancelled" ELSE ctx[r]]
    /\ UNCHANGED <<store, pc, host, mem, started, runErr, heart, notified, slots, cancels>>

\* Whatever p was doing ends where it is.
ProcessEnds(p) ==
    /\ process' = [process EXCEPT ![p] = "down"]
    /\ pc' = [r \in Run |-> IF ~On(r, p) THEN pc[r]
                             ELSE IF pc[r] = "created" THEN "dropped" ELSE "cutoff"]
    /\ host' = [r \in Run |-> IF On(r, p) THEN NoProc ELSE host[r]]
    /\ ticking' = [r \in Run |-> ticking[r] /\ ~On(r, p)]
    /\ due' = [r \in Run |-> due[r] /\ ~On(r, p)]
    /\ UNCHANGED missed

\* RunContext returns: everything drained, or the drain timed out and
\* stragglers are cut off.
Exit(p) ==
    /\ process[p] = "stopping"
    /\ ProcessEnds(p)
    /\ UNCHANGED <<store, executor, notified, slots, cancels, faults>>

Crash(p) ==
    /\ Alive(p)
    /\ Fault("crash")
    /\ ProcessEnds(p)
    /\ UNCHANGED <<store, executor, notified, slots, cancels>>

\* Boot: a new coordinator, and one SweepOrphans over all rows (which may
\* fail, and is then only logged).
Boot(p) ==
    /\ process[p] = "down"
    /\ process' = [process EXCEPT ![p] = "up"]
    /\ slots' = [slots EXCEPT ![p] = MaxConcurrentRuns]
    /\ \/ /\ \E swept \in SUBSET {r \in Run : row[r] = "running" /\ MayBeStale(r)} :
                /\ {r \in Run : row[r] = "running" /\ Stale(r)} \subseteq swept
                /\ row' = [r \in Run |-> IF r \in swept THEN "failed" ELSE row[r]]
          /\ UNCHANGED faults
       \/ /\ Fault("db")
          /\ UNCHANGED row
    /\ UNCHANGED <<beat, pc, host, executor, heart, notified, cancels>>

-----------------------------------------------------------------------------
\* The steps of the goroutine that serves r.
RunStep(r) ==
    \/ EnqueueRun(r) \/ Spawn(r) \/ FirstHeartbeat(r)
    \/ \E p \in Process : PickUp(r, p)
    \/ PrepareSucceeds(r) \/ PrepareFails(r)
    \/ ExecuteRefuses(r) \/ ExecuteStarts(r) \/ ExecuteReturns(r)
    \/ Persist(r) \/ PersistFails(r) \/ Notify(r) \/ Teardown(r)

Next ==
    \/ \E r \in Run, p \in Process : CreateRun(r, p)
    \/ \E r \in Run : \/ RunStep(r) \/ EnqueueScheduled(r) \/ EnqueueFails(r)
                      \/ CancelPipelineRun(r) \/ Heartbeat(r) \/ DeadlineExpires(r)
    \/ Tick
    \/ \E p \in Process : Shutdown(p) \/ Exit(p) \/ Crash(p) \/ Boot(p)

Spec == Init /\ [][Next]_vars

(***************************************************************************)
(* Fairness: the goroutine of a run makes progress (stages end, because    *)
(* adapters return or the deadline stops them), tickers write, time        *)
(* passes, a stopping process exits and a process that is down is started  *)
(* again.  Requests, cancellations and faults owe nothing.                 *)
(***************************************************************************)
Fairness ==
    /\ \A r \in Run : WF_vars(RunStep(r)) /\ WF_vars(Heartbeat(r))
    /\ WF_vars(Tick)
    /\ \A p \in Process : WF_vars(Exit(p)) /\ WF_vars(Boot(p))

FairSpec == Spec /\ Fairness

-----------------------------------------------------------------------------
(* Properties *)

\* The coordinator's semaphore counts exactly the goroutines it started: no
\* path through SpawnWithDeadline, whatever the work returned or its context
\* did, loses or invents a slot.
SlotsAccounted ==
    \A p \in Process : Alive(p) =>
        slots[p] + Cardinality({r \in Run : On(r, p) /\ Coordinated(r) /\ pc[r] \in InFlight})
            = MaxConcurrentRuns

\* A run that has ended is never shown as pending or running again: finalize
\* leaves a terminal status on every path, so the unconditional final Update
\* can only replace one outcome by another, even when a cancellation or an
\* orphan sweep got there first.  (Deploy's save half way is the exception.)
NoResurrection ==
    [][\A r \in Run : Path[r] # "app" /\ row[r] \in Terminal
                          => row'[r] \in Terminal]_vars

\* A run that was cancelled before a worker picked it up ends cancelled,
\* whatever its stages did: Execute's snapshot of the status survives the
\* stamping of running.
CancelledBeforePickUp ==
    \A r \in Run :
        started[r] /\ pc[r] \in {"persist", "notify", "teardown", "done"}
            => mem[r] = "cancelled"

\* An inline run is announced only when its outcome is on record: after the
\* event the row carries that outcome, or a later cancellation.
AnnouncedIsRecorded ==
    \A r \in Run :
        Path[r] = "inline" /\ notified[r] # "none"
            => row[r] \in {notified[r], "cancelled"}

\* Heartbeats stop with the run: no ticker outlives its goroutine or its
\* process, so a dead run cannot look alive to a later sweep.
HeartbeatsEndWithRun ==
    \A r \in Run : ticking[r] => pc[r] \in InFlight /\ ctx[r] = "ok"

\* A run whose ticker is alive and whose heartbeat is on record cannot be taken
\* for an orphan while the writes it missed in a row leave room for one more
\* interval within orphanThreshold: with 60 s over 30 s, while it missed none.
HeartbeatFresh ==
    \A r \in Run : ticking[r] /\ beat[r] # NoBeat /\ missed[r] + 1 < OrphanThreshold
                       => ~MayBeStale(r)

\* Violated: the threshold is chosen "to avoid false-positives on healthy runs that miss a
\* single tick" (server/runs.go): a live run with a heartbeat on record that missed
\* at most one write is not taken for an orphan.
MissedTickTolerated ==
    \A r \in Run : ticking[r] /\ beat[r] # NoBeat /\ missed[r] <= 1 => ~MayBeStale(r)

\* Violated: "the boot-time sweep doesn't false-positive on healthy runs"
\* (server/runs.go).  A live run none of whose writes failed is not taken for an
\* orphan, but the save of Deploy clears its heartbeat.
HealthyNotOrphaned ==
    \A r \in Run : ticking[r] /\ missed[r] = 0 => ~MayBeStale(r)

\* Program points before the first stage.
Early == {"idle", "created", "queued", "spawned", "prepare", "execute"}

\* What each program point says about the rest of the state; with
\* InlineOutcome the inductive part behind the properties above.
Phases ==
    \A r \in Run :
        /\ pc[r] = "idle" => row[r] = "absent"
        /\ row[r] = "absent" => pc[r] \in {"idle", "queued", "dropped"}
        /\ pc[r] \in InFlight \cup {"created"} => host[r] \in Process
        /\ pc[r] \in {"idle", "queued", "dropped"} => host[r] \notin Process
        /\ pc[r] \in {"spawned", "prepare"} => Coordinated(r)
        /\ pc[r] = "queued" => ~Coordinated(r)
        /\ pc[r] \in Early => ~started[r]
        /\ pc[r] = "work" => mem[r] = "running"
        /\ pc[r] \in {"persist", "notify"} => mem[r] \in Terminal
        /\ pc[r] \in Early \cup {"work", "persist", "notify"} => notified[r] = "none"
        /\ ticking[r] => Coordinated(r)
        /\ due[r] => ticking[r]

\* An inline run starts from a fresh copy and is never told of a
\* cancellation, so an error means failed.
InlineOutcome ==
    \A r \in Run : Path[r] = "inline" =>
        /\ ctx[r] # "cancelled"
        /\ ~started[r]
        /\ pc[r] \in Early => mem[r] = "pending"
        /\ pc[r] \in {"persist", "notify"} /\ runErr[r] => mem[r] = "failed"
        /\ pc[r] = "notify" => row[r] \in {mem[r], "cancelled"}

IInv ==
    /\ TypeOK /\ Phases /\ InlineOutcome
    /\ CancelledBeforePickUp /\ AnnouncedIsRecorded /\ HeartbeatsEndWithRun

\* Until a fault strikes, every run that was accepted ends with a terminal row,
\* cancelled or not.  (RollbackApp's worker leaves the stub as it is when
\* DeployImage fails early.)
EveryRunSettles ==
    \A r \in Run : Path[r] # "rollback" =>
        (row[r] # "absent" ~>
            row[r] \in Terminal \/ pc[r] = "rejected" \/ faults < MaxFaults)

\* "The actual PipelineRun row will be created by JobQueueRunner when the worker
\* picks up the job" (scheduler.fire): without faults a job that was picked up
\* has its row.
PickedUpHasRow ==
    \A r \in Run : pc[r] \notin {"idle", "queued"} => row[r] # "absent"

\* What every state of the run rows satisfies: a cancellation before pick-up wins,
\* and an inline run is announced with the outcome on record.
RunInv == TypeOK /\ CancelledBeforePickUp /\ AnnouncedIsRecorded

\* The coordinator's books: every slot is free or taken by a goroutine it
\* started, a heartbeat ends with its run, and a run that is kept alive is not
\* taken for an orphan before it has missed as many writes as there is room for.
CoordinatorInv == SlotsAccounted /\ HeartbeatsEndWithRun /\ HeartbeatFresh

=============================================================================
