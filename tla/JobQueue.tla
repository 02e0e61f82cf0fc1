------------------------------ MODULE JobQueue ------------------------------
(***************************************************************************)
(* The durable job queue: internal/jobqueue (the jobs table, its two       *)
(* stores and the worker pool) as internal/server wires it.                *)
(*                                                                         *)
(* The jobs table is one function per column.  Each replica of the server  *)
(* runs a pool of workers; a worker loops over                             *)
(*   poll -> dequeue -> handle -> complete | reschedule -> poll            *)
(* and waits when Dequeue finds nothing.  Under the "postgres" backend     *)
(* Dequeue is a READ COMMITTED transaction whose single statement reads a  *)
(* snapshot, then locks one row with SKIP LOCKED, then commits; other      *)
(* workers interleave between those steps.  Under the "memory" backend it  *)
(* is one step under the store's mutex.                                    *)
(*                                                                         *)
(* Time is counted in whole units and passes only while a pending job is   *)
(* waiting for it: a tick nobody waits for changes nothing.                *)
(***************************************************************************)
EXTENDS Naturals, FiniteSets

CONSTANTS Job,            \* job ids
          Key, NoKey,     \* concurrency keys; NoKey is the empty key
          KeyOf,          \* KeyOf[j]: EnqueueOptions.ConcurrencyKey of j
          Kind, KindOf,   \* job kinds
          Registered,     \* kinds with a handler (Registry.Kinds)
          MaxAttemptsOpt, \* MaxAttemptsOpt[j]: EnqueueOptions.MaxAttempts
          Delays,         \* start delays and backoff delays, in time units
          Replica,        \* server processes
          Worker,         \* worker goroutines of all replicas
          ReplicaOf,      \* ReplicaOf[w]: the process w runs in
          Owner, NoOwner, \* values of locked_by; NoOwner is ''
          LockId,         \* LockId[w]: WorkerIDPrefix-w<i>
          Backend,        \* "postgres" or "memory"
          NoJob,
          MaxShutdowns,   \* bound: graceful shutdowns in a behaviour
          MaxCrashes,     \* bound: process crashes
          MaxDbErrors     \* bound: failed or lost database round trips

ASSUME JobQueueAssumption ==
    /\ NoKey \notin Key
    /\ KeyOf \in [Job -> Key \cup {NoKey}]
    /\ KindOf \in [Job -> Kind]
    /\ Registered \subseteq Kind
    /\ MaxAttemptsOpt \in [Job -> Nat]
    /\ Delays \subseteq Nat \ {0}
    /\ ReplicaOf \in [Worker -> Replica]
    /\ NoOwner \notin Owner
    /\ LockId \in [Worker -> Owner]
    /\ Backend \in {"postgres", "memory"}
    /\ NoJob \notin Job
    /\ MaxShutdowns \in Nat /\ MaxCrashes \in Nat /\ MaxDbErrors \in Nat

VARIABLES
    \* the jobs table (committed contents)
    status,        \* status[j], "absent" before Enqueue, "deleted" after purge
    attempts,
    runAt,
    lockedBy,
    \* the worker goroutines
    pc,            \* pc[w]: where w is in Pool.run / Dequeue / handle
    wjob,          \* wjob[w]: the row w has locked or whose handler it runs
    snap,          \* snap[w]: rows that qualified in w's statement snapshot
    txNow,         \* txNow[w]: NOW() of w's transaction
    \* the processes
    process,       \* process[r]: "up", "stopping" (ctx cancelled) or "down"
    now,           \* the clock
    faults         \* faults left of each kind

table == <<status, attempts, runAt, lockedBy>>
workers == <<pc, wjob, snap, txNow>>
vars == <<table, workers, process, now, faults>>

JobStatus == {"pending", "running", "succeeded", "failed", "cancelled"}

\* Status.IsTerminal
Terminal == {"succeeded", "failed", "cancelled"}

\* Program points of a worker.  Between "handle" and its report a worker
\* holds a claimed job.
Holding == {"handle", "complete", "reschedule"}
WorkerPoint == Holding \cup {"poll", "dequeue", "tx", "locked", "wait", "exited"}

FaultKind == {"shutdown", "crash", "db"}

TypeOK ==
    /\ status \in [Job -> JobStatus \cup {"absent", "deleted"}]
    /\ attempts \in [Job -> Nat]
    /\ runAt \in [Job -> Nat]
    /\ lockedBy \in [Job -> Owner \cup {NoOwner}]
    /\ pc \in [Worker -> WorkerPoint]
    /\ wjob \in [Worker -> Job \cup {NoJob}]
    /\ snap \in [Worker -> SUBSET Job]
    /\ txNow \in [Worker -> Nat]
    /\ process \in [Replica -> {"up", "stopping", "down"}]
    /\ now \in Nat
    /\ faults \in [FaultKind -> Nat]

Init ==
    /\ status = [j \in Job |-> "absent"]
    /\ attempts = [j \in Job |-> 0]
    /\ runAt = [j \in Job |-> 0]
    /\ lockedBy = [j \in Job |-> NoOwner]
    /\ pc = [w \in Worker |-> "poll"]
    /\ wjob = [w \in Worker |-> NoJob]
    /\ snap = [w \in Worker |-> {}]
    /\ txNow = [w \in Worker |-> 0]
    /\ process = [r \in Replica |-> "up"]
    /\ now = 0
    /\ faults = [f \in FaultKind |-> IF f = "shutdown" THEN MaxShutdowns
                                    ELSE IF f = "crash" THEN MaxCrashes
                                    ELSE MaxDbErrors]

-----------------------------------------------------------------------------
(* Helpers *)

\* Enqueue defaults a zero MaxAttempts to 1.
MaxAttempts(j) == IF MaxAttemptsOpt[j] = 0 THEN 1 ELSE MaxAttemptsOpt[j]

\* The worker's ctx, which is the server's shutdown ctx, is not cancelled.
Live(w) == process[ReplicaOf[w]] = "up"

\* Mutant: the memory store honours ctx as well.
StoreReachableCtx(w) == Live(w)

\* database/sql refuses a call on a cancelled ctx; the memory store ignores it.
StoreReachable(w) == Backend = "memory" \/ Live(w)

UseFault(k) ==
    /\ faults[k] > 0
    /\ faults' = [faults EXCEPT ![k] = @ - 1]

\* An empty filter matches every kind.
KindMatches(j) == Registered = {} \/ KindOf[j] \in Registered

\* No running row carries j's concurrency key.
KeyFree(j) ==
    \/ KeyOf[j] = NoKey
    \/ \A k \in Job : KeyOf[k] = KeyOf[j] => status[k] # "running"

\* The WHERE clause of Dequeue against the committed table.
Runnable(j) ==
    /\ status[j] = "pending"
    /\ runAt[j] <= now
    /\ KindMatches(j)
    /\ KeyFree(j)

RunnableJobs == {j \in Job : Runnable(j)}

\* Mutant: a plain SELECT, no FOR UPDATE.
RowLockedNever(j) == FALSE

\* Row j is locked by another worker's open Dequeue transaction.
RowLocked(j) == \E v \in Worker : pc[v] = "locked" /\ wjob[v] = j

\* ORDER BY run_at LIMIT 1: any of the oldest rows of S.
Oldest(S) == {j \in S : \A k \in S : runAt[j] <= runAt[k]}

\* Complete, Fail and Reschedule touch the row only when the caller owns it.
Owned(j, w) == status[j] = "running" /\ lockedBy[j] = LockId[w]

Goto(w, p) == pc' = [pc EXCEPT ![w] = p]

-----------------------------------------------------------------------------
(* Producers and housekeeping *)

\* Producers and sweeps run in the server processes too.
ServerAlive == \E r \in Replica : process[r] # "down"

\* Enqueue: insert a pending row.  The NOTIFY that follows is best effort
\* and only shortens a wait (see Wake).
Enqueue(j, d) ==
    /\ ServerAlive
    /\ status[j] = "absent"
    /\ status' = [status EXCEPT ![j] = "pending"]
    /\ attempts' = [attempts EXCEPT ![j] = 0]
    /\ runAt' = [runAt EXCEPT ![j] = now + d]
    /\ lockedBy' = [lockedBy EXCEPT ![j] = NoOwner]
    /\ UNCHANGED <<workers, process, now, faults>>

\* The retention sweep: one DELETE removes the finished rows S that are
\* older than the cutoff.
DeleteOlderThan(S) ==
    /\ ServerAlive
    /\ S # {}
    /\ \A j \in S : status[j] \in Terminal
    /\ status' = [j \in Job |-> IF j \in S THEN "deleted" ELSE status[j]]
    /\ UNCHANGED <<attempts, runAt, lockedBy, workers, process, now, faults>>

\* Time passes for a job that is not due yet.
Tick ==
    /\ \E j \in Job : status[j] = "pending" /\ runAt[j] > now
    /\ now' = now + 1
    /\ UNCHANGED <<table, workers, process, faults>>

-----------------------------------------------------------------------------
(* Pool.run: one worker's loop *)

\* Top of the loop: return once ctx is cancelled, else call Dequeue.
LoopHead(w) ==
    /\ pc[w] = "poll"
    /\ Goto(w, IF Live(w) THEN "dequeue" ELSE "exited")
    /\ UNCHANGED <<table, wjob, snap, txNow, process, now, faults>>

\* The wait for work ends: NOTIFY, the poll timer or ctx cancellation.
Wake(w) ==
    /\ pc[w] = "wait"
    /\ Goto(w, "poll")
    /\ UNCHANGED <<table, wjob, snap, txNow, process, now, faults>>

\* The row update of a successful Dequeue.
ClaimRow(j, w) ==
    /\ status' = [status EXCEPT ![j] = "running"]
    /\ attempts' = [attempts EXCEPT ![j] = @ + 1]
    /\ lockedBy' = [lockedBy EXCEPT ![j] = LockId[w]]
    /\ UNCHANGED runAt

\* Mutant: an empty queue ends the worker.
DequeueMemoryQuits(w) ==
    /\ Backend = "memory"
    /\ pc[w] = "dequeue"
    /\ \/ /\ RunnableJobs = {}
          /\ Goto(w, "exited")
          /\ UNCHANGED <<table, wjob>>
       \/ \E j \in Oldest(RunnableJobs) :
             /\ ClaimRow(j, w)
             /\ wjob' = [wjob EXCEPT ![w] = j]
             /\ Goto(w, "handle")
    /\ UNCHANGED <<snap, txNow, process, now, faults>>

\* Memory.Dequeue: scan, pick and claim under the mutex.
DequeueMemory(w) ==
    /\ Backend = "memory"
    /\ pc[w] = "dequeue"
    /\ \/ /\ RunnableJobs = {}
          /\ Goto(w, "wait")
          /\ UNCHANGED <<table, wjob>>
       \/ \E j \in Oldest(RunnableJobs) :
             /\ ClaimRow(j, w)
             /\ wjob' = [wjob EXCEPT ![w] = j]
             /\ Goto(w, "handle")
    /\ UNCHANGED <<snap, txNow, process, now, faults>>

\* Postgres.Dequeue, first: BEGIN and the statement's snapshot.
BeginDequeue(w) ==
    /\ Backend = "postgres"
    /\ pc[w] = "dequeue"
    /\ Live(w)
    /\ snap' = [snap EXCEPT ![w] = RunnableJobs]
    /\ txNow' = [txNow EXCEPT ![w] = now]
    /\ Goto(w, "tx")
    /\ UNCHANGED <<table, wjob, process, now, faults>>

\* Mutant: rows changed since the snapshot are not re-checked.
LockableStale(w) == {j \in snap[w] : ~RowLocked(j)}

\* The rows of w's snapshot it can still lock.  SKIP LOCKED passes over rows
\* another transaction has locked; a row changed since the snapshot is
\* re-checked in its new version, but the NOT EXISTS subquery is not
\* re-evaluated for rows that did not change.
Lockable(w) ==
    {j \in snap[w] : ~RowLocked(j) /\ status[j] = "pending" /\ runAt[j] <= txNow[w]}

\* Then: LIMIT 1 FOR UPDATE SKIP LOCKED and the UPDATE of the picked row,
\* not yet visible to others.
LockRow(w) ==
    /\ pc[w] = "tx"
    /\ Live(w)
    /\ \/ /\ Lockable(w) = {}
          /\ Goto(w, "wait")
          /\ UNCHANGED wjob
       \/ \E j \in Oldest(Lockable(w)) :
             /\ wjob' = [wjob EXCEPT ![w] = j]
             /\ Goto(w, "locked")
    /\ snap' = [snap EXCEPT ![w] = {}]
    /\ txNow' = [txNow EXCEPT ![w] = 0]
    /\ UNCHANGED <<table, process, now, faults>>

\* Then: COMMIT publishes the claim.
CommitDequeue(w) ==
    /\ pc[w] = "locked"
    /\ Live(w)
    /\ ClaimRow(wjob[w], w)
    /\ Goto(w, "handle")
    /\ UNCHANGED <<wjob, snap, txNow, process, now, faults>>

\* COMMIT reached the server but its answer did not: Dequeue returns an error
\* and the worker sleeps and polls again, unaware that it owns the row.
CommitLost(w) ==
    /\ pc[w] = "locked"
    /\ Live(w)
    /\ UseFault("db")
    /\ ClaimRow(wjob[w], w)
    /\ wjob' = [wjob EXCEPT ![w] = NoJob]
    /\ Goto(w, "poll")
    /\ UNCHANGED <<snap, txNow, process, now>>

\* Any other Dequeue error: the transaction is rolled back.  On a cancelled
\* ctx every call fails and the worker returns.
DequeueFails(w) ==
    /\ Backend = "postgres"
    /\ pc[w] \in {"dequeue", "tx", "locked"}
    /\ \/ Live(w) /\ UseFault("db") /\ Goto(w, "poll")
       \/ ~Live(w) /\ Goto(w, "exited") /\ UNCHANGED faults
    /\ wjob' = [wjob EXCEPT ![w] = NoJob]
    /\ snap' = [snap EXCEPT ![w] = {}]
    /\ txNow' = [txNow EXCEPT ![w] = 0]
    /\ UNCHANGED <<table, process, now>>

-----------------------------------------------------------------------------
(* Pool.handle: run the handler and report *)

\* Registry.Dispatch returns, or panics and is recovered as an error.  A kind
\* without a handler is always an error.
HandlerReturns(w) ==
    /\ pc[w] = "handle"
    /\ \/ KindOf[wjob[w]] \in Registered /\ Goto(w, "complete")
       \/ Goto(w, "reschedule")
    /\ UNCHANGED <<table, wjob, snap, txNow, process, now, faults>>

\* Store.Complete
Complete(w) ==
    LET j == wjob[w] IN
    /\ pc[w] = "complete"
    /\ StoreReachable(w)
    /\ IF Owned(j, w)
         THEN /\ status' = [status EXCEPT ![j] = "succeeded"]
              /\ lockedBy' = [lockedBy EXCEPT ![j] = NoOwner]
         ELSE UNCHANGED <<status, lockedBy>>
    /\ wjob' = [wjob EXCEPT ![w] = NoJob]
    /\ Goto(w, "poll")
    /\ UNCHANGED <<attempts, runAt, snap, txNow, process, now, faults>>

\* Store.Reschedule, with a backoff delay d: back to pending, or failed when
\* the attempts are used up.
Reschedule(w, d) ==
    LET j == wjob[w]
        exhausted == attempts[j] >= MaxAttempts(j)
    IN
    /\ pc[w] = "reschedule"
    /\ StoreReachable(w)
    /\ IF Owned(j, w)
         THEN /\ status' = [status EXCEPT ![j] =
                              IF exhausted THEN "failed" ELSE "pending"]
              /\ runAt' = [runAt EXCEPT ![j] =
                              IF exhausted THEN @ ELSE now + d]
              /\ lockedBy' = [lockedBy EXCEPT ![j] = NoOwner]
         ELSE UNCHANGED <<status, runAt, lockedBy>>
    /\ wjob' = [wjob EXCEPT ![w] = NoJob]
    /\ Goto(w, "poll")
    /\ UNCHANGED <<attempts, snap, txNow, process, now, faults>>

\* The report fails: it is logged, never retried, and the row is left as is.  The
\* memory store does not fail.
ReportFails(w) ==
    /\ pc[w] \in {"complete", "reschedule"}
    /\ \/ Backend = "postgres" /\ StoreReachable(w) /\ UseFault("db")
       \/ ~StoreReachable(w) /\ UNCHANGED faults
    /\ wjob' = [wjob EXCEPT ![w] = NoJob]
    /\ Goto(w, "poll")
    /\ UNCHANGED <<table, snap, txNow, process, now>>

-----------------------------------------------------------------------------
(* Server life cycle *)

\* SIGTERM: RunContext's ctx, which is also the pool's, is cancelled.
Shutdown(r) ==
    /\ process[r] = "up"
    /\ UseFault("shutdown")
    /\ process' = [process EXCEPT ![r] = "stopping"]
    /\ UNCHANGED <<table, workers, now>>

\* The workers of r are gone: open transactions roll back, rows claimed by
\* them stay as they are.
WorkersGone(r) ==
    LET gone(w) == ReplicaOf[w] = r IN
    /\ pc' = [w \in Worker |-> IF gone(w) THEN "exited" ELSE pc[w]]
    /\ wjob' = [w \in Worker |-> IF gone(w) THEN NoJob ELSE wjob[w]]
    /\ snap' = [w \in Worker |-> IF gone(w) THEN {} ELSE snap[w]]
    /\ txNow' = [w \in Worker |-> IF gone(w) THEN 0 ELSE txNow[w]]

\* The pool drained, so the stopping process exits.
Drained(r) ==
    /\ process[r] = "stopping"
    /\ \A w \in Worker : ReplicaOf[w] = r => pc[w] = "exited"
    /\ process' = [process EXCEPT ![r] = "down"]
    /\ UNCHANGED <<table, workers, now, faults>>

\* The process dies, or its drain times out, with workers in flight.
Crash(r) ==
    /\ Backend = "postgres"
    /\ process[r] # "down"
    /\ UseFault("crash")
    /\ process' = [process EXCEPT ![r] = "down"]
    /\ WorkersGone(r)
    /\ UNCHANGED <<table, now>>

\* The process boots again and starts its pool.  Nothing at boot looks at
\* rows left running.  A memory store is gone with its process: its restart
\* is another behaviour.
Restart(r) ==
    /\ Backend = "postgres"
    /\ process[r] = "down"
    /\ process' = [process EXCEPT ![r] = "up"]
    /\ pc' = [w \in Worker |-> IF ReplicaOf[w] = r THEN "poll" ELSE pc[w]]
    /\ UNCHANGED <<table, wjob, snap, txNow, now, faults>>

-----------------------------------------------------------------------------
\* The steps of worker w that need nobody else.
WorkerStep(w) ==
    \/ LoopHead(w) \/ Wake(w)
    \/ DequeueMemory(w) \/ BeginDequeue(w) \/ LockRow(w) \/ CommitDequeue(w)
    \/ HandlerReturns(w) \/ Complete(w)
    \/ \E d \in Delays : Reschedule(w, d)

\* What failures do to worker w.
WorkerFault(w) == CommitLost(w) \/ DequeueFails(w) \/ ReportFails(w)

Next ==
    \/ \E j \in Job, d \in Delays \cup {0} : Enqueue(j, d)
    \/ \E S \in SUBSET Job : DeleteOlderThan(S)
    \/ Tick
    \/ \E w \in Worker : WorkerStep(w) \/ WorkerFault(w)
    \/ \E r \in Replica : Shutdown(r) \/ Drained(r) \/ Crash(r) \/ Restart(r)

Spec == Init /\ [][Next]_vars

(***************************************************************************)
(* Fairness: a goroutine the Go scheduler can run is eventually run, a     *)
(* poll timer fires, handlers return (runs have deadlines), a replica that *)
(* is down is started again, and a cancelled ctx makes its calls return.   *)
(* Producers, the retention sweep and faults owe nothing.                  *)
(***************************************************************************)
Fairness ==
    /\ WF_vars(Tick)
    /\ \A w \in Worker : WF_vars(WorkerStep(w))
    /\ \A w \in Worker : WF_vars(~Live(w) /\ WorkerFault(w))
    /\ \A r \in Replica : WF_vars(Drained(r)) /\ WF_vars(Restart(r))

FairSpec == Spec /\ Fairness

-----------------------------------------------------------------------------
(* Properties *)

\* A job is never in the hands of two workers: from the moment a Dequeue
\* transaction locks the row until the outcome is reported, no other worker
\* has locked or is executing it (FOR UPDATE SKIP LOCKED plus the re-check of
\* changed rows).
JobExclusive ==
    \A w, v \in Worker : w # v /\ wjob[w] # NoJob => wjob[w] # wjob[v]

\* A worker that runs a handler, or is about to report, still owns the row it
\* claimed, so Complete and Reschedule never answer ErrNotLocked and the
\* retention sweep never deletes work in flight -- also when replicas share
\* the default WorkerIDPrefix and so the same locked_by values.
HolderOwnsRow ==
    \A w \in Worker : pc[w] \in Holding => Owned(wjob[w], w)

\* Across crashes, lost commits and retries no job begins more than
\* MaxAttempts attempts, a pending job always has one left (so Dequeue can
\* never overrun the budget), and a job fails only when all are used.
AttemptBudget ==
    \A j \in Job :
        /\ attempts[j] <= MaxAttempts(j)
        /\ status[j] = "pending" => attempts[j] < MaxAttempts(j)
        /\ status[j] = "failed" => attempts[j] = MaxAttempts(j)

\* A finished job is never run again: the only thing that can still happen to
\* a terminal row is the retention DELETE.
TerminalSticky ==
    [][\A j \in Job : status[j] \in Terminal \cup {"deleted"} =>
          status'[j] \in {status[j], "deleted"}]_vars

\* The inductive invariant behind the four properties above.  Beyond them it
\* says when wjob is meaningful, that a row locked by an open transaction is
\* still pending (nothing else may change it), that the memory store has no
\* transactions, and that a process that is down has no worker left.
WorkerPhases ==
    \A w \in Worker :
        /\ wjob[w] # NoJob <=> pc[w] \in Holding \cup {"locked"}
        /\ pc[w] = "locked" => status[wjob[w]] = "pending"
        /\ Backend = "memory" => pc[w] \notin {"tx", "locked"}
        /\ process[ReplicaOf[w]] = "down" => pc[w] = "exited"

\* A row that was never inserted has no attempts.
FreshRows == \A j \in Job : status[j] = "absent" => attempts[j] = 0

IInv ==
    /\ TypeOK /\ WorkerPhases /\ FreshRows
    /\ HolderOwnsRow /\ JobExclusive /\ AttemptBudget

\* "A non-empty ConcurrencyKey enforces that at most one job with that key is
\* in 'running' at any time" (package comment of jobqueue).
KeyExclusive ==
    \A j, k \in Job :
        /\ status[j] = "running" /\ status[k] = "running"
        /\ KeyOf[j] = KeyOf[k] /\ KeyOf[j] # NoKey
        => j = k

\* "Workers in flight complete their current job before exiting" (Pool.Run):
\* every running row has a worker that will still report on it.
InFlightJobsFinish ==
    \A j \in Job : status[j] = "running" =>
        \E w \in Worker : wjob[w] = j /\ pc[w] \in Holding

\* Every job whose kind has a handler is eventually finished, unless a
\* shutdown or a crash interrupts the server: retries end, a job waiting for
\* a key gets it, and no worker sleeps through work.
EveryJobFinishes ==
    \A j \in Job : KindMatches(j) =>
        (status[j] = "pending" ~> \/ status[j] \in Terminal \cup {"deleted"}
                                 \/ \E r \in Replica : process[r] # "up")

\* The queue implements the abstract ledger: workers between Dequeue and the
\* report are the executors, the committed table is the ledger.
Ledger == INSTANCE JobLedger WITH
    Limit <- [j \in Job |-> MaxAttempts(j)],
    exec <- [w \in Worker |-> IF pc[w] \in Holding THEN wjob[w] ELSE NoJob]

LedgerSpec == Ledger!Spec

\* What every state of the queue satisfies, crashes, shutdowns and lost answers
\* included: a job runs in one worker, which owns its row, within its attempts.
QueueInv == TypeOK /\ JobExclusive /\ HolderOwnsRow /\ AttemptBudget

\* What the queue without a database adds: one running job per concurrency key,
\* and a shutdown that reports the jobs in flight.
MemoryQueueInv == KeyExclusive /\ InFlightJobsFinish

=============================================================================
