# TLA+ models of Cooker

Cooker is a self-hosted build-and-deploy server written in Go (`src/backend`) with a browser front end
(`src/frontend`): users draw pipelines, a server executes them stage by stage, deploys applications to clusters, hosts
and clouds, gates deployments behind approvals and policies, shifts traffic between canary and stable versions, and
streams logs to browsers. One or more replicas share a PostgreSQL database; a single-process deployment can use
in-memory stores instead.

This directory holds TLA+ modules for the parts whose correctness depends on interleavings, crashes, retries and shared
tables, the TLC configurations that check them on small instances, and TLAPS proofs of their safety properties.
`PROJECT.json` maps the definitions to the lines they model and lists the runs, findings, hazards and theorems.

## Inventory

| Component | State | Operations | What is hard |
|---|---|---|---|
| Durable job queue, `internal/jobqueue` | `jobs` table; worker goroutines | Enqueue, Dequeue, Complete, Reschedule, DeleteOlderThan; pool loop | concurrent claims under READ COMMITTED, crashes between claim and report, shutdown, lost commits |
| Run life cycle, `handler/pipeline.go`, `server/runs.go`, `service/executor.go`, `service/jobqueue_runner.go`, `store/*/run.go` | `pipeline_runs` row, the executor's own copy, the coordinator's slots | RunPipeline, Execute, progress writes, final Update, cancel, heartbeat, orphan sweep, drain | two writers of one row, deadlines, capacity, crash and recovery |
| DAG executor, `pkg/dagrunner`, `internal/retry`, `build/buildplan/edges.go`, `service/executor.go` | per-stage status, levels, semaphore, update channel | Run, stage dispatch, skip rules, retry, drain of progress | parallel stages, first error, continue-on-error, edge conditions, a full channel |
| Scheduler, `internal/scheduler`, `handler/schedules.go` | `schedules` table, advisory lock, leader loop | tick, fire, MarkFired, CRUD | leadership change mid-tick, crash between enqueue and mark, edits racing the tick |
| Stage approvals and promotions, `service/stageapproval.go`, `service/promoter.go`, their stores; environments | gate row, votes; promotion row, approvals; policy and secrets of an environment | Await, Approve, Reject; Promote, Approve; edits | a quorum counted by concurrent voters, a policy edited meanwhile, whole-column writes |
| Canary, `service/canary.go`, `store/postgres/app_canary.go`, `deploy/deployer/weighted.go` | canary row, traffic split | Start, Promote, Abort, SweepAutoPromote, revertClaim | stale decisions, stopped callers between claim and cluster change |
| Log streaming, `service/logbroadcast.go`, `internal/logstore`, `server/wshub_*.go`, `server/websocket.go`; browser hooks | rings, hub, send buffers, the viewer's buffer | emit, broadcast, drop, replay, reconnect, merge | replay racing live frames, slow clients, Redis gaps |
| Idempotency cache, WebSocket tickets, rate limiter | response cache; ticket map; bucket maps | Get, Set, evict; Issue, Consume; limiterFor, gc | check-then-act, byte cap, single use, two locks |
| Server boot and shutdown, `server/server.go` | what is open, what runs | New, RunContext, Close | undo after a failed step, order of shutdown, bounded waits |
| Pipelines CRUD, `handler/pipeline.go`, `store/*/pipeline.go`, `pipelineStore.ts` | versioned row, the editor's page | load, edit, save, delete, run | overlapping saves, deletion, stale pages |
| Access, `internal/auth`, `service/apitoken.go`, `handler/auth_local.go`, `server/router.go` | users, tokens, routes | authenticate, authorize, mint, sign up | expiry under a request, chains of minting, duplicate sign-ups |
| Governance, `internal/governance`, `service/executor.go` | the gate's answers | check, retry, fall back | an unreachable policy service, retries past a denial |
| Licence, `service/license.go`, `internal/license`, `internal/entitlement` | licence row | Install, Remove, resolve | expiry, replicas booting while an administrator acts |
| Audit trail, `internal/audit` | channel, table or ring | Emit, Close, retention | full buffer, close racing emit |
| Apps, `handler/app.go`, `service/app_deployer.go`, `service/app_health.go`, `service/app_drift.go`, `store/*/app.go` | app row, deploy history, run stubs, working trees | CRUD, Deploy, Rollback, probes, drift | several writers of one row, a moving branch, early returns |
| Compose translation, `service/app_inspection.go`, `service/app_compose_runtime.go` | none | inspect, review, plan | name collisions, external services |
| Targets, `deploy/deploytarget/*`, `deploy/deployer`, `build/*`, `cloud/cloudinventory` | SSH pool, services, machines, Jobs, stack, cached inventory | deploy, status, rollback, build; read, refresh | shared clients, partial applies, lost Jobs, a fetch overtaken by a refresh |
| Notifier, secrets managers, source clones, triage, configuration, observability, CLI, website | - | calls to external tools, pure translation | see "Not modelled" |

How they interact. An HTTP handler creates a run row and either spawns a goroutine through the run coordinator or
enqueues a `pipeline-run` job; a worker of the pool executes it later, possibly in another replica. The executor drives
the DAG runner, waits on stage approvals, asks the governance gate before a deploy stage, writes progress to the run row
and frames to the log hub. The scheduler enqueues the same jobs. The canary sweeper, the health checker and the
retention sweeps run beside the handlers in every replica. Nothing but the database is shared between replicas.

What makes each component correct, in one line each: a job runs in one worker at a time and finishes; a run's row ends
and stays ended; a due firing is enqueued, with bounded repetition; a stage runs after what it depends on; a gate opens
on a real quorum; a canary has one verdict, which the cluster shows; a viewer misses no line unknowingly; a ticket, a
bucket and a cached answer are worth what they say; shutdown closes nothing that is in use; nobody gains a right by a
chain of requests; one row with several writers loses nothing; what ships is what was reviewed. The hazards in
`PROJECT.json` say at which line each of these could go wrong.

## Modules

| Module | Models | Used by |
|---|---|---|
| `JobLedger` | what the queue promises: jobs, executors, attempts | `Ledger == INSTANCE JobLedger` in `JobQueue` |
| `JobQueue` | `jobs` table, PostgreSQL and memory stores, worker pool, shutdown, crash | `MCJobQueue`, `JobQueueProofs` |
| `RunLifecycle` | run row, executor's copy, coordinator, heartbeats, sweep | `MCRunLifecycle`, `RunLifecycleProofs` |
| `Scheduler` | `schedules` table, advisory lock, leader loop, CRUD | `MCScheduler`, `SchedulerProofs` |
| `Canary` | rollouts, claims, reverts, sweeper, reaper, weighted split | `MCCanary`, `CanaryProofs` |
| `StageApprovals`, `StageGraph` | gate and votes; Execute with levels, retries and the drain goroutine (extends the gate) | `MCDelivery`, `DeliveryProofs` |
| `Promotions`, `PipelineRows` | environments, secrets, promotions; versioned pipelines and their editors | `MCDelivery`, `DeliveryProofs` |
| `LogStream`, `LiveViewer` | writer, ring, hub, pumps; the hooks in the browser | `MCEdge`, `EdgeProofs` |
| `Idempotency`, `WsTickets`, `RateLimit`, `ServerLifecycle` | the services at the edge; boot and shutdown | `MCEdge`, `EdgeProofs` |
| `Identity`, `Governance`, `Licensing`, `AuditTrail` | access control, deploy gate, licence, audit trail | `MCControlPlane`, `ControlPlaneProofs` |
| `AppRows`, `AppDeploys`, `ComposePlan` | app rows and probes; releases, rollbacks, drift; Compose plans | `MCControlPlane`, `ControlPlaneProofs` |
| `Hosts`, `CloudTargets`, `KubeJobs`, `Workloads`, `CloudInventory` | SSH hosts; ECS, Cloud Run, Fly; Kaniko, Buildah and stage Jobs; client-go, Docker, Compose and Fargate sizes; the inventory cache | `MCTargets`, `TargetProofs` |

`MCDelivery`, `MCEdge`, `MCControlPlane` and `MCTargets` hold several components that share no state. A behaviour of
theirs exercises one part, chosen in the initial state (`part`); the others keep one fixed state. Where components do
interact they are composed in one module: the executor with its gate, the queue with its workers, the run rows with
coordinator and sweep, the hub with the ring and the client.

Each module closes with one definition that joins its named properties (`QueueInv`, `StreamInv`, `HostsCorrect` ...):
the `...Inv` are state invariants, the `...Correct` add action properties. That definition is what a run checks.
Definitions marked `Mutant:` stand next to the definition they vary and belong to no specification; each is a plausible
bug of the modelled code that breaks the property it is paired with in `PROJECT.json`.

### JobQueue

One function per column of the `jobs` table; `pc`, `wjob`, `snap`, `txNow` per worker goroutine; `process` per replica.
A PostgreSQL `Dequeue` is three steps, because it is three for other sessions: the statement's snapshot
(`BeginDequeue`), the row lock with `SKIP LOCKED` and the re-check of rows changed since the snapshot (`LockRow`), and
the commit (`CommitDequeue`, or `CommitLost` when its answer is lost). `Memory.Dequeue` is one step under the mutex. The
handler is opaque: it returns a result or an error. Reports use the pool's context, so they fail once it is cancelled
(`ReportFails`). `Store.Fail` is not called by the pool and has no action. `NOTIFY` only ends a wait early. Row locks
and READ COMMITTED re-checks belong to PostgreSQL and are marked external. The refinement to `JobLedger` reads the table
as the ledger and workers between Dequeue and report as executors.

### RunLifecycle

A run is served by one goroutine whose point is `pc[r]`; `row[r]` is the column, `mem[r]` the executor's copy, which is
a different object under PostgreSQL. `Path[r]` tells the five ways to start a run apart: `inline` and `queue`
(RunPipeline), `scheduled` (the scheduler's fire), `app` and `rollback` (DeployApp, RollbackApp). Time counts heartbeat
intervals; `beat[r]` is the age of `heartbeat_at` and `missed[r]` the writes that failed since the last that landed. A
row whose beat is exactly as old as the threshold may be stale or not, since the latency of the write and of the sweep
comes on top of whole intervals (`MayBeStale`): a booting replica sweeps what is surely stale and any of what may be.
Stages are opaque here and modelled in `StageGraph`.

### Scheduler

A leader's tick is `DueBefore` (read the clock and the due rows), then for each row `FireEnqueues` and `MarkFired`, all
on other connections than the lock's. `SessionLost` frees the lock without telling the leader, which goes on until its
next ping. An `UpdateSchedule` is two steps, its `Get` and its `Update`. `jobs[s][t]` counts the jobs enqueued for the
firing of `s` due at `t`. Cron expressions are known only through `NextAfter`, with the assumption `NextIsLater`.

### Canary

Rollouts are rows of `app_canaries`; `start[c]` is the goroutine of a Start, `pc[a]` a resolver (an operator's request
or the sweeper of a replica). A resolver reads, claims with a conditional UPDATE, shifts the Deployments one after the
other and reports; it may be stopped, or lose an answer, at each of these points, and then the claim is reverted or
stays. `pods` are the two live Deployments, set by `splitReplicas` over the pool. `StartTimeout < StaleAfter` is the
relation of the constants in `canary.go` on which the reaper's comment relies.

### StageGraph, StageApprovals, Promotions, PipelineRows

`Execute` sorts the graph, walks its levels, starts every stage of a level behind a semaphore and waits for the level;
`node[s]` is a stage's goroutine, `st` the statuses in memory, `chan` and `db` the progress on its way to the row. A
stage is gated by its edges' conditions, may wait for approval, and retries within its policy; faults are a lost write, a
panic, a cancellation and a deadline. The gate counts votes inside the voter's transaction, as `AddVote` does on
PostgreSQL, or under the mutex of the memory store. In `Promotions` every request is its reads and its one write;
`promoStore` tells the two stores apart, whose `AddApproval` counts in the transaction or under the mutex
(`AddApprovalLocked`). In
`PipelineRows` an editor's page loads, edits, saves and runs; the handler's read and write are two steps.

### LogStream, LiveViewer and the edge

`LogStream` has the line writer, the ring, both hub backends (Redis may lose a subscription), the hub goroutine, one
viewer with its bounded channel and the two pumps; the backlog is the set of lines still to replay, least first.
`LiveViewer` is the other end: tickets, sockets with their handlers,
the reconnect timer, the buffer's reducer and the capture requests. A selection made while a socket or a ticket request
of another stage is under way sets `crossed`; what the code then does is under "Known gaps". `Idempotency`, `WsTickets`
and `RateLimit` split their operations where the code releases a lock; the idempotency cache is a set of entries and
its size the number of their bytes. `ServerLifecycle` lists the steps of `New` as
data (what a step acquires, starts and registers for undo) and runs them, any failure, the drain and the close.

### Identity, Governance, Licensing, AuditTrail, AppRows, AppDeploys, ComposePlan

Routes are records of resource, action, roles, MFA and token scope, compared with the policy matrix as data. A call
authenticates, is authorised and acts in separate steps, so tokens expire or go in between. `AppRows` and `AppDeploys`
split every request at its store calls; PostgreSQL writes columns, the memory store structs. The queries of the deploy
history (the rows with an image, the candidates of a rollback, the newest row) are sets of indices of the history. `ComposePlan` is a pure
algorithm: review, stages, edges and runtime images of a project, compared with what they promise for every project of
the instance; it has no RECURSIVE operator.

### Hosts, CloudTargets, KubeJobs, Workloads, CloudInventory

Each adapter call is a state of its caller. The remote side (a host, ECS, Cloud Run, Fly, the API server) is modelled
from how the adapters use it and marked external. Contexts end at any time; connections die; Jobs succeed, fail, are
collected or lose their pods. The inventory's requests are readers, which share one fetch, and refreshers.

## Runs

Nine runs pass. Three more check one property each that a comment of the code states and the code does not keep; TLC's
counterexample is the evidence, and `PROJECT.json` ("findings") quotes the comment. "Refuted claims" below has further
ones.

| Run | Instance | Shows |
|---|---|---|
| `jobqueue_postgres` | 2 jobs with one key (2 attempts; zero attempts), 2 replicas with one worker each and the same `locked_by`, 1 shutdown, 1 crash, 1 database error | `QueueInv`; `JobLedger` is implemented |
| `jobqueue_memory` | memory store, 2 workers, a kind without handler, 1 shutdown | one running job per key, in-flight jobs are reported, every job finishes |
| `run_lifecycle` | 3 groups of runs: inline and queued; app deploy and rollback with 1 slot per process; scheduled job. 2 processes, 1 cancel, 1 fault of any kind | ended runs stay ended, an early cancellation wins, announced outcomes are recorded, slots are accounted for, heartbeats end with their run and one that landed a single interval ago is fresh, runs settle |
| `run_scheduled` | scheduled runs, no faults | **violated**: nobody inserts the run's row, so the job fails at pick-up (`scheduler.go:188`) |
| `scheduler_fires` | 1 schedule, expressions with periods 1 and 2, clock to 2, 2 replicas, 1 edit, 1 stop, 1 dropped session, 1 failed statement | one driver while sessions hold, duplicates bounded, due firings run and move on |
| `canary_rollout` | 2 rollouts of one app, an operator and a sweeper, pool of 4, 1 fault | claims are exclusive, verdicts final and shown by the cluster, a Start keeps its row, rollouts settle |
| `delivery` | 5 parts: 3 stages over every choice of 4 edges, cycles included; the gate with 3 clicks and a quorum of 2 on both stores; an environment with 2 edits; 2 promotions with 3 approvals; 2 editors of one pipeline | `ExecuteInv`, `ExecuteEnds`, `GateInv`, `PromotionsCorrect`, `RowsCorrect` |
| `votes_stall` | the gate on PostgreSQL, no faults | **violated**: two votes each count only themselves and the gate stays open with its quorum on record (`store/postgres/stageapproval.go`) |
| `edge` | 6 parts: a stream with a ring of 2 and channels of 1, 2 connects; 4 requests on 2 keys and 3 bytes; 2 tickets and 3 dials; 5 hits; every configuration of the boot steps; a viewer of 2 logs with 2 faults | `StreamInv`, `CacheInv`, `TicketInv`, `RateInv`, `LifeInv`, `ViewerInv`, `EdgeProgresses` |
| `cache_cap` | the cache of `edge` | **violated**: an entry discounted twice lets the resident set exceed `MaxBytes` (`idempotency.go:35`) |
| `targets` | 7 parts: host keys; SSH pool; 2 cloud deployments and 2 rollbacks per provider; a Job call of each engine; 2 workloads of 2 documents; demands around every Fargate boundary; the inventory with 2 readers, a refresher and 2 providers | `HostsCorrect`, `CloudInv`, `KubeInv`, `WorkCorrect`, `InventoryInv`, `CallersAnswered` |
| `control_plane` | parts for calls and tokens (3 calls, 3 people, 1 token), 3 sign-ups, 4 gated deploys, 2 replicas with 4 licence tokens, 4 audited mutations, 2 apps with 2 edits, probes, 3 releases of 2 commits, Compose projects of up to 4 services | `IdentityInv`, `GovernanceInv`, `LicensingInv`, `AuditCorrect`, `AppRowsCorrect`, `AppDeploysInv`, `ComposeInv` |

### Refuted claims

Each module that disagrees with a comment states the comment as an invariant of its own, next to the weaker property
that holds. Besides the ones with a run, TLC refutes these within seconds on the instance of the run named, when the
claim takes the place of the properties in its configuration. They are not runs of their own: the counterexample is all
there is to see.

| Claim, run | What the code says | Why it fails |
|---|---|---|
| `MissedTickTolerated`, `run_lifecycle` | `server/runs.go:28` "(must remain > heartbeatInterval to avoid false-positives on healthy runs that miss a single tick)" | after one failed write the next lands 60 s after the last, plus latency: `heartbeat_at < NOW() - 60 s` holds for a moment (`store/postgres/run.go:263`) |
| `HealthyNotOrphaned`, `run_lifecycle` | `server/runs.go:20` "Must be < orphanThreshold so the boot-time sweep doesn't false-positive on healthy runs" | Deploy's save (`service/app_deployer.go:324`) clears `heartbeat_at`, which counts as stale until the next tick |
| `JobsAlwaysCleaned`, `targets` | `build/builder/kaniko.go:111` "The Job is deleted on every exit path (success, failure, ctx cancel)" | the deletion is deferred after Create has returned without an error; a lost or cancelled answer leaves the Job (also `buildah.go:108`, `stagerunner/kube.go:107`) |
| `StagesAreReal`, `targets` | `build/stagerunner/kube.go:216` "Returns 0 when no terminated status is found (a Succeeded Job), which is the success contract" | the Job of a lost pod failed and has no terminated status either |
| `ReadyImageRan`, `targets` | `service/app_targets.go:217` "An older healthy revision may still be visible during rollout."; `ecs.go:277` "ECS is not running the requested image revision" | VerifyImage reads what the service asks for, in a call after Status; the service may have been changed in between, and what it asks for need not have run |
| `RollbackToReady`, `targets` | `cloudrun.go:195` "Rollback retargets 100% of traffic to the previous ready revision." | it takes the second revision listed, ready or not |
| `MintWithinOwnRights`, `control_plane` | `service/apitoken.go:123` "a caller may mint a token whose role is one they could exercise themselves"; `SECURITY.md:91` approver: "No other write rights beyond the approval action itself." | approver and operator have one rank (`apitoken.go:150`): an approver mints an operator's token |
| `FailedBootIsFree`, `control_plane` | `server/server.go:434` "On ANY failure log and degrade to Free" | nothing is removed: the licence that was active stays active and is served |
| `SinkSafe`, `control_plane` | `audit/audit.go:39` "Implementations must be safe for concurrent use; they are called from request-handling goroutines." | Emit sends after it released the mutex, Close closes the channel meanwhile: the send panics (`audit.go:231`; `fileSink.Emit` checks nothing at all) |

### Bounds

Two jobs with a common key, two workers and one fault of each kind are the smallest instance with a contended key, a
retry, a stale snapshot and a crash between claim and report; more jobs repeat these. In `RunLifecycle` each run has
its own row and goroutine and meets the others only in the slots and the processes, so one run per path, those that
contend for a slot in one group, and one fault suffice; `OrphanThreshold = 2` is the code's ratio, 60 s over 30 s. The scheduler needs
two firings, two leaders and one fault of each kind. Two rollouts are needed for a slot that is freed and taken again,
and one fault for every point at which a caller can stop. Three stages with four possible edges give chains, forks,
joins, a self-contained level and cycles; one slot and a channel of one make every wait happen. Rings, channels and
caches are as small as lets them overflow. A part with requests has enough of them for each to be overtaken by another
between its read and its write; requests of one kind are interchangeable and start in a fixed order. The viewer takes no
further fault or selection after a crossed selection. The configured licence key expires within the instance's days,
so that a boot can be refused it. The inventory's clock stops before a good snapshot expires (`MaxTime` 1, `TTL` 2) and
after a failed one does: with `MaxTime` 2 the same properties hold, in half as much time again. All bounds are constants named in the modules or their `MC`
module.

### Fairness

Weak fairness only. `JobQueue`: workers that can step do (the Go scheduler and poll timers), handlers return because
runs have deadlines, a cancelled context makes calls return, replicas are restarted by their supervisor. `RunLifecycle`:
a run's goroutine steps, tickers write, a stopping process exits (its drain is bounded), a process that is down boots.
`Scheduler`: runners step, processes boot, time passes. `Canary`: Starts and resolvers step, the clock ticks (and with
it the sweeper). `StageGraph`: Execute's goroutine, the drain goroutine and every stage's. `MCEdge`: hub, client pumps
and publisher; boot, signal, drain and close of a process; the browser's event loop. `MCTargets`: the call and the log
goroutine of a Job call, the requests of the inventory. `MCControlPlane`: the health checker's goroutine. Requests,
edits, clicks, cancellations and faults are never fair. Deadlock is not checked (`CHECK_DEADLOCK FALSE`) where the
instance comes to rest when its bounded requests are served.

## What is proved

All theorems hold for every value of the constants, from the named assumptions of the modules. The assumptions type the
constants; the ones that say more are `NextIsLater` (`Cron.Next` answers a later time), `StartEndsFirst` (a Start times
out before its row counts as stale), finiteness of the sets that are counted (runs, replicas, approvers, approve
requests, stages, editors, deployments, host operations, audited mutations, requests with an idempotency key), that
there is at least one ticket path, one secret key and one app, that the services of a Compose file have distinct names
whose sanitised forms are slugs, that a Fargate demand is a pair of naturals, that people and API tokens are different subjects, and that
no licence token is signed with the placeholder of a key that could not be parsed. TLC evaluates the assumptions in
every run. One theorem has a hypothesis of its own: `MemoryInvariant` is about the memory store
(`Backend = "memory"`).

Each proof has the same shape: an inductive invariant that implies the property, one lemma per action or group of
actions, and one step of temporal logic. What the inductive invariants add says why the code works.

Queue, runs, scheduler, canary

* `JobQueueProofs`: `TypeCorrect`, `Exclusive`, `Ownership`, `Budget` (together `QueueInvariant`),
  `FinishedStaysFinished`, `MemoryKeyExclusive`, `MemoryInvariant`, `Refinement`. Added: `WorkerPhases` (a worker has a
  job exactly at the points where it should, a row under an open row lock is still pending, a process that is down has no
  worker) and `FreshRows`. Exclusiveness is not inductive alone: it needs to know that a locked row is pending and a held
  one running.
* `RunLifecycleProofs`: `TypeCorrect`, `EarlyCancelWins`, `InlineAnnouncements` (together `RunInvariant`),
  `HeartbeatsJoined`, `EndedStaysEnded`, `CoordinatorInvariant`. Added: `Phases` (what each program point says of the
  row, the copy and the process), `InlineOutcome` (an inline run is never told of a cancellation, so an error means
  failed), and for the coordinator `DownIsEmpty` and `BeatBound`: the age of a beat is the writes missed since
  the last that landed, one interval each, and the write that is due. With 60 s over 30 s that leaves no room for a
  missed write, which is what `MissedTickTolerated` shows.
* `SchedulerProofs`: `TypeCorrect`, `OneDriver` (together `LeaderInvariant`), `FiredAtMostOnce`,
  `DuplicatesAreBounded`. For behaviours without faults and edits the invariant adds `Tidy` (what a tick read is still
  what the table says) and `Unfired` (nothing from `next_run_at` on was enqueued, except the firing a leader is about to
  mark). The bound is proved with a potential, `Budgeted`: jobs enqueued for a firing, plus the runners, edits and rows
  that may still enqueue it, never exceed one plus the faults and edits spent.
* `CanaryProofs`: `TypeCorrect`, `ClaimsAreExclusive`, `SlotIsUnique`, `RunningStartsKeepRows` (together
  `CanaryInvariant`), `VerdictsAreFinal`, `ClusterShows`. Added: what each point of a Start or a resolver says of the
  row, the age of a pending row, the verdict the cluster acknowledged, and `DecidedIsStarted` (only a rollout whose Start
  is over is resolved). A claim is exclusive because the row carries the claimed verdict until its holder reports; a Start
  keeps its row because it ends before the row is stale.

Delivery (`DeliveryProofs`)

* Induction over the naturals is stated with a set in the place of the predicate (`NatLeast` and what follows from it by
  well-foundedness of `<`), since the library's schemes take an operator that the provers cannot instantiate;
  a lemma derives primitive recursion from it, which is what unfolds the levels of Kahn's algorithm.
  `ValidIsAcyclic`: a pipeline whose levels exhaust it has no cycle. `AcyclicIsLevelled`: a pipeline without a cycle is
  exhausted by its levels, for a stage left over would have one left over before it, and so on round a finite set.
* `GateInvariant`: a voter's count is backed by votes on record (`TallyBacked`), and with the memory store somebody who
  saw the quorum is still on the way to the row (`LastVoterSettles`); on PostgreSQL this second fact is false, which is
  the violation `votes_stall` shows.
* `ExecuteInvariant`: the parts are `Levelled` (stages before the current level have settled, those behind are pending),
  `Staged` (status, attempts and edge conditions of each stage), `Reported` (row and channel together say what the
  statuses say), `Judged` (the first error and the cancellation are remembered until the verdict) and `Blamed` (a failure
  recorded or on its way has a stage that erred, a pipeline that is not executable or a deadline behind it).
* `PromotionsHold`: an edit whose version is current has the current secrets (`EditsFresh`), a counted approval exists
  (`SumBacked`). `RowsHold`: versions are counted (`VersionsCounted`) and each page knows what it loaded (`Knows`).

Edge (`EdgeProofs`)

* `TicketInvariant`: a ticket that opened a connection has left the store. `RateInvariant`: requests use the
  newest bucket of their key and the one before it, no other (`TwoBuckets`), because the older one is unused whenever a
  further one may be made (`OldUnused`). `ViewerInvariant`: the sockets' positions, `RefsSound` (what the hook's refs say of the sockets) and
  `BufferKept`. `LifeInvariant`: at each step of `New` exactly the resources of the steps before it are held, and the
  undo list names them. `CacheInvariant`: an entry is of a request that stored it under its own key (`EntriesSound`);
  `twice` counts the bytes that Set and the eviction discounted both, and explains the whole difference.
* `StreamInvariant`: the cursor skips nothing because the writer's order survives along the way to the client
  (`WayInOrder`: send channel before local channel before Redis before the line writer), a registered client that has
  read its backlog is owed every stored line past its cursor (`OnTheWay`), and there are no holes before a queued line
  (`SentWhole`) or in the backlog (`BacklogWhole`). After the hub drops the client only the last two remain, and they
  suffice until the channel is drained. `StreamPhases` says when the channel is closed and the client flagged.

Control plane (`ControlPlaneProofs`)

* `GovernanceInvariant`: an attempt that has not passed the gate has written nothing. `LicensingInvariant`: the installed
  token verifies, and a replica that saw the configured key and was left alone still has it. `IdentityInvariant`: what a
  call knows of its credential (`CallsKnown`) and that the rights of a token come from its owner. `AppDeploysInvariant`: what each point of a release says of its plan, image and run
  (`ReleasesKnown`), and that the live image is the newest recorded one while releases do not overlap (`Undrifted`).
  `AuditHolds`: an event is in one place at a time (`EventsApart`), without which counting them proves nothing.
* `ComposeInvariant`: among as many suffixes as there are names one is free (a pigeonhole argument), so the recursive
  `slugAt` unfolds, by induction in the set form above, to slugs that differ (`SlugsUnique`); a service whose sanitised
  name meets no other keeps it (`NamesKept`); a circle of stages is one of services (`CircleOfServices`).
* `AppRowsHold`: a request that holds the current version of a row has its secret or a newer one (`EditsFresh`, with
  versions that only grow), and an app that is still to be created was never observed (`Unborn`). The progress of the
  probes, the rest of `AppRowsCorrect`, is left to TLC.

Targets (`TargetProofs`)

* `KubeInvariant`: how a Job ended is decided once and outlives the Job (`CallSound`). `InventoryInvariant`: generations
  count refreshes, and a fetch knows the generation it began in. `CloudHolds`: the task definition that VerifyImage has
  read was asked for since the status (`MineTold`); machines are paid for by deployments that listed none
  (`MachinesPaid`). `HostsHold`: an edit or a pin that still has the row's version has its key
  (`VersionsTell`), a new connection is its dialler's alone (`ConnsOwned`). `WorkHolds`: the documents applied are the
  ones before the next; `TaskSizeChosen` shows for every demand that the table of sizes and the rounding give the smallest
  task that AWS offers.

Only model-checked: every liveness property (`EveryJobFinishes`, `EveryRunSettles`, `DueIsServed`, `RolloutSettles`,
`ExecuteEnds`, `EdgeProgresses`, `CallersAnswered`), since fairness and ENABLED are out of the prover's reach, and for
the same reason `EveryAppProbed`, the part of `AppRowsCorrect` that is no safety property. The violated
properties are shown by TLC's counterexamples.

Two abstractions matter to the proofs. In `RateLimit` a key grows idle only when none of its requests and no pass of
`gc` over it is under way (`Idle`): the time this stands for is minutes, what it waits for are a few instructions between
two locks. In `JobQueue` a report fails for a database fault on PostgreSQL only; the memory store's reports cannot fail.

## Known gaps the models make visible

Properties of the passing runs are stated so that they hold of the code; where the code falls short of what a comment
claims, the claim is refuted (above), and where it falls short of what its callers may expect, the property is
conditioned and the case is described here.

Jobs, runs and schedules
* Two overlapping `Dequeue` snapshots can start two jobs of one key under PostgreSQL (`jobqueue.go:11` against
  `postgres.go:123`). A job in flight at shutdown is not reported: the report uses the cancelled context (`worker.go:76`
  against `:159`). A worker that dies leaves its job `running` and its key taken; nothing reclaims the row.
* A cancellation during execution is overwritten by the final Update (`pipeline.go:379`, `executor.go:341` against
  `store/postgres/run.go:202`). An expired deadline also ends the context the outcome is written with
  (`pipeline.go:376` against `:392`). `NoResurrection` is about terminal rows that become live again and does not see
  the first. The save half way through a deploy clears `heartbeat_at` (`HealthyNotOrphaned`), and one missed write is
  enough for another boot to fail a live run (`MissedTickTolerated`).
* A run whose enqueue failed (`handler/pipeline.go:356`), that was rejected with 429 (`:401`) or was cut off by a
  shutdown or crash stays `pending`: `SweepOrphans` looks only at running rows. A deploy whose process restarts within
  `orphanThreshold` stays `running` until a later boot. A rollback whose `DeployImage` fails early leaves its stub
  running (`handler/app.go:772`). A run that ends cancelled with an error is announced as failed.
* `MarkFired` overwrites an edit's next firing (`schedules.go:123` against `scheduler/store.go:250`).

Pipelines, stages and approvals
* `UpdatePipeline` uses the version it has just read, so two editors overwrite each other, while `pipelineStore.ts:79`
  expects a conflict; edits made while a save is in flight are on the canvas and not in the store; queued runs execute
  the definition found at pick-up (`jobqueue_runner.go:65`); an update skips the DAG validation of a create; the answer
  of a create says version 0 where PostgreSQL stores 1.
* The governance hook runs inside the retry loop, although `executor.go:565` says retries do not ask again. After a
  panic a stage stays `running` and `always` edges behind it do not fire. Stages waiting for the semaphore at a
  cancellation stay `pending`. `UpdateGateStatus` is unconditional (`stageapproval.go:34`): an approval
  and a rejection that race leave the status of the later write. Promotions' `AddApproval`
  counts like `AddVote` and can stall the same way.

Canary
* The sweeper judges one rollout and acts on the app (`canary.go:332`); a claim frees the slot before the cluster
  changes, so a next rollout can overlap the shift; `stableImageFor` may be stale; the app may be deleted under a pending
  Start; `failPending` is lost on an expired context; the image build ignores the reviewed commit.

Edge and browser
* Two concurrent requests with one idempotency key both execute (`idempotency.go:2`), and the byte
  counter drifts when the eviction for a rewritten key takes the entry being rewritten, which is discounted twice
  (`cache_cap`). That a ticket is refused after its TTL is not stated: time is not modelled there. The hub drops frames silently when its own inbox is full; sequence numbers restart with a retry.
* Shutdown never stops the canary sweeper, the job retention sweep, the caches' and tickets' collectors, the notifier's
  database or the SSH pool. `EdgeProgresses` takes the audit sink's Close as finishing, although it waits for its worker
  without a bound (`audit.go:264`). After a drain that timed out, a publish to the closed memory hub panics.
* Selecting another stage while the socket of the last is open lets its close event, which comes after `closedByCaller`
  was reset, reconnect to the old stage (`useWebSocket.ts:217`); a selection overtaking a ticket request leaves two
  sockets. "No line is lost" fails when the ring evicted lines before the replay.

Access, licence, audit
* Two first sign-ups may both become administrators. An approver can mint an operator's token (`MintWithinOwnRights`), not the
  other way round. The policy matrix has no row for the docker, registry and Kubernetes mutations (`router.go:136-186`),
  which are guarded by role only; `permission.go:125-128` denies what is not declared, but `CHANGELOG.md:492` says that
  the remaining routes adopt it incrementally, so the property asks of these routes that only writers change and only
  admins delete. Kubernetes read routes are stricter than the matrix.
* An environment can be renamed between the gate's check and the deploy. Installing the configured licence at boot is a
  read and a write: a boot overwrites what an administrator installed in between, and `EnvKeyWins` says nothing of a
  replica during whose boot or after it an administrator acted (`quiet`). A failed install leaves the old licence
  (`FailedBootIsFree`). `entitlementGate` is not wired to a route.
* An audit event emitted after Close began is refused by the check, or panics if it had passed the check before
  (`SinkSafe`); either way it is not in the trail.

Targets
* SSH: `Evict` drops the connection mutex with the client, so two dials may overlap and one client leak; evict-and-redial
  closes the client under another deployment; a first-use connection is kept even if the pin is refused; a failure after
  the stop leaves the app down. An edit of a host keeps the stored key when it brings none (`service/host.go:104`),
  although the comment above it says an operator may clear it to trust on first use again: there is no way to clear it,
  only to name another. An edit that names another key does not evict the connections made under the old one. Clients built in a `sync.Once` keep their first error. ECS rolls back to the
  revision before, which may never have run; its VerifyImage reads what the service asks for, not what runs
  (`ReadyImageRan`); Cloud Run does not verify the image and rolls back to any revision (`RollbackToReady`); Fly may create two
  machines.
* A build waits for the log goroutine and can hang until its context ends (`kaniko.go:146` expects the end of the poll
  to end it); a deleted Job is polled until then; a failed stage Job without pods is reported with exit code 0
  (`StagesAreReal`), and a Create whose answer is lost leaves a Job nobody deletes (`JobsAlwaysCleaned`). Overlapping client-go deploys
  interleave per document. An inventory reader during a refresh may join a fetch that began before it.

Apps
* The memory store's `Update` overwrites health and URL; an implicit and an explicit prefix may collide; a webhook deploy
  records another pipeline id and skips validation; a second default rollback goes to the same row; overlapping deploys
  may record their history in another order, which shows as drift. An external Compose service whose sanitised name
  equals a deployed one's is run with the wrong image (`app_compose_runtime.go:13`).

## Not modelled

* The retry backoff's 64-bit arithmetic (`jobqueue/backoff.go:52`) and the cron search across daylight-saving changes
  (`scheduler/cron.go:139`) are numeric algorithms over ranges TLC cannot enumerate; `JobQueue` takes any positive delay,
  `Scheduler` any later time.
* Secrets managers, source clones, Dockerfile generation, notifications, triage and the CLI call external tools or
  format text and keep no state that others share. Registries, templates and settings are single-statement CRUD.
* Generated API documentation, the website, React views and styling have no logic of their own; of the front end only the
  log viewer and the pipeline editor's store are modelled.
* The memory run store, where executor and store share one struct, is not covered.

## Plan

Done: the modules above, and the proofs of all safety invariants and action properties that the runs check. Next, in
this order:

1. A refinement of `LogStream`: that what a viewer shows is a prefix of the writer's lines up to what it was told is gone.
2. `CronNext` and `Backoff` as pure modules over small calendars and word sizes, against their definitions.
3. The memory run store as a second store of `RunLifecycle`.
