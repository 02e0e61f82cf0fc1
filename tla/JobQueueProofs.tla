--------------------------- MODULE JobQueueProofs ---------------------------
(***************************************************************************)
(* Proofs about JobQueue for any set of jobs, workers and replicas, any    *)
(* assignment of keys, lock identities and attempt budgets, and any number *)
(* of crashes, shutdowns and database errors.                              *)
(***************************************************************************)
EXTENDS JobQueue, TLAPS

\* The effective attempt budget is positive: Enqueue turns 0 into 1.
LEMMA MaxAttemptsPositive == \A j \in Job : MaxAttempts(j) \in Nat /\ MaxAttempts(j) > 0
  BY JobQueueAssumption DEF MaxAttempts

\* Claiming a row keeps the jobs table well typed.
LEMMA ClaimRowTypes ==
  ASSUME TypeOK, NEW w \in Worker, NEW j \in Job \cup {NoJob}, ClaimRow(j, w)
  PROVE  /\ status' \in [Job -> JobStatus \cup {"absent", "deleted"}]
         /\ attempts' \in [Job -> Nat]
         /\ runAt' \in [Job -> Nat]
         /\ lockedBy' \in [Job -> Owner \cup {NoOwner}]
  <1>1. attempts' \in [Job -> Nat]
    <2>1. CASE j \in Job
      BY <2>1 DEF TypeOK, ClaimRow
    <2>2. CASE j \notin Job
      <3>1. \A i \in Job : attempts'[i] = attempts[i]
        BY <2>2 DEF TypeOK, ClaimRow
      <3>2. QED
        BY <2>2, <3>1 DEF TypeOK, ClaimRow
    <2>3. QED
      BY <2>1, <2>2
  <1>2. QED
    BY <1>1, JobQueueAssumption DEF TypeOK, ClaimRow, JobStatus

\* Every action preserves the type invariant.
LEMMA TypeStep == TypeOK /\ [Next]_vars => TypeOK'
  <1> SUFFICES ASSUME TypeOK, [Next]_vars PROVE TypeOK'
    OBVIOUS
  <1> USE JobQueueAssumption DEF TypeOK, table, workers, Goto, WorkerPoint, Holding,
          JobStatus
  <1>1. ASSUME NEW j \in Job, NEW d \in Delays \cup {0}, Enqueue(j, d) PROVE TypeOK'
    BY <1>1 DEF Enqueue
  <1>2. ASSUME NEW S \in SUBSET Job, DeleteOlderThan(S) PROVE TypeOK'
    BY <1>2 DEF DeleteOlderThan
  <1>3. CASE Tick
    BY <1>3 DEF Tick
  <1>4. ASSUME NEW w \in Worker, WorkerStep(w) PROVE TypeOK'
    <2>1. CASE LoopHead(w) \/ Wake(w) \/ HandlerReturns(w)
      BY <2>1 DEF LoopHead, Wake, HandlerReturns
    <2>2. CASE DequeueMemory(w)
      <3>1. CASE RunnableJobs = {} /\ Goto(w, "wait") /\ UNCHANGED <<table, wjob>>
        BY <2>2, <3>1 DEF DequeueMemory
      <3>2. ASSUME NEW j \in Oldest(RunnableJobs), ClaimRow(j, w),
                   wjob' = [wjob EXCEPT ![w] = j], Goto(w, "handle")
            PROVE  TypeOK'
        <4>1. j \in Job
          BY <3>2 DEF Oldest, RunnableJobs
        <4>2. UNCHANGED <<snap, txNow, process, now, faults>>
          BY <2>2 DEF DequeueMemory
        <4>3. QED
          BY <3>2, <4>1, <4>2 DEF ClaimRow
      <3>3. QED
        BY <2>2, <3>1, <3>2 DEF DequeueMemory
    <2>3. CASE BeginDequeue(w)
      BY <2>3 DEF BeginDequeue, RunnableJobs
    <2>4. CASE LockRow(w)
      BY <2>4 DEF LockRow, Oldest, Lockable
    <2>5. CASE CommitDequeue(w)
      BY <2>5, ClaimRowTypes DEF CommitDequeue
    <2>6. CASE Complete(w)
      BY <2>6 DEF Complete
    <2>7. ASSUME NEW d \in Delays, Reschedule(w, d) PROVE TypeOK'
      BY <2>7 DEF Reschedule
    <2>8. QED
      BY <1>4, <2>1, <2>2, <2>3, <2>4, <2>5, <2>6, <2>7 DEF WorkerStep
  <1>5. ASSUME NEW w \in Worker, WorkerFault(w) PROVE TypeOK'
    <2> USE DEF UseFault, FaultKind
    <2>1. CASE CommitLost(w)
      BY <2>1, ClaimRowTypes DEF CommitLost
    <2>2. CASE DequeueFails(w)
      BY <2>2 DEF DequeueFails
    <2>3. CASE ReportFails(w)
      BY <2>3 DEF ReportFails
    <2>4. QED
      BY <1>5, <2>1, <2>2, <2>3 DEF WorkerFault
  <1>6. ASSUME NEW r \in Replica, Shutdown(r) \/ Drained(r) \/ Crash(r) \/ Restart(r)
        PROVE TypeOK'
    BY <1>6 DEF Shutdown, Drained, Crash, Restart, WorkersGone, UseFault, FaultKind
  <1>7. CASE UNCHANGED vars
    BY <1>7 DEF vars
  <1>8. QED
    BY <1>1, <1>2, <1>3, <1>4, <1>5, <1>6, <1>7 DEF Next

\* The queue's state is always well typed.
THEOREM TypeCorrect == Spec => []TypeOK
  <1>1. Init => TypeOK
    BY JobQueueAssumption DEF Init, TypeOK, WorkerPoint, Holding, FaultKind
  <1>2. QED
    BY <1>1, TypeStep, PTL DEF Spec

-----------------------------------------------------------------------------
\* A worker gains a job only by locking or claiming a pending row that no
\* other worker holds.
LEMMA PendingIsFree ==
  ASSUME IInv, NEW j \in Job, status[j] = "pending", ~RowLocked(j)
  PROVE  \A v \in Worker : wjob[v] # j
  BY JobQueueAssumption DEF IInv, TypeOK, WorkerPhases, HolderOwnsRow, Owned, RowLocked

\* Every action preserves the inductive invariant.
LEMMA IInvStep == IInv /\ [Next]_vars => IInv'
  <1> SUFFICES ASSUME IInv, [Next]_vars PROVE IInv'
    OBVIOUS
  <1>0. TypeOK /\ TypeOK'
    BY TypeStep DEF IInv
  <1> DEFINE Rest == /\ WorkerPhases /\ FreshRows
                     /\ HolderOwnsRow /\ JobExclusive /\ AttemptBudget
  <1> USE <1>0, JobQueueAssumption, MaxAttemptsPositive
          DEF TypeOK, table, workers, Goto, Holding, Owned,
              WorkerPhases, FreshRows, HolderOwnsRow, JobExclusive, AttemptBudget
  <1>1. ASSUME NEW j \in Job, NEW d \in Delays \cup {0}, Enqueue(j, d) PROVE Rest'
    BY <1>1 DEF Enqueue, IInv
  <1>2. ASSUME NEW S \in SUBSET Job, DeleteOlderThan(S) PROVE Rest'
    BY <1>2 DEF DeleteOlderThan, IInv, Terminal
  <1>3. ASSUME Tick PROVE Rest'
    BY <1>3 DEF Tick, IInv
  <1>4. ASSUME NEW w \in Worker, WorkerStep(w) PROVE Rest'
    <2>1. CASE LoopHead(w) \/ Wake(w) \/ HandlerReturns(w)
      BY <2>1 DEF LoopHead, Wake, HandlerReturns, IInv
    <2>2. CASE DequeueMemory(w)
      <3>1. CASE RunnableJobs = {} /\ Goto(w, "wait") /\ UNCHANGED <<table, wjob>>
        BY <2>2, <3>1 DEF DequeueMemory, IInv
      <3>2. ASSUME NEW j \in Oldest(RunnableJobs), ClaimRow(j, w),
                   wjob' = [wjob EXCEPT ![w] = j], Goto(w, "handle")
            PROVE  Rest'
        <4>1. j \in Job /\ status[j] = "pending"
          BY DEF Oldest, RunnableJobs, Runnable
        <4>2. ~RowLocked(j)
          BY <2>2 DEF DequeueMemory, RowLocked, IInv
        <4>3. \A v \in Worker : wjob[v] # j
          BY <4>1, <4>2, PendingIsFree
        <4>a. /\ pc[w] = "dequeue" /\ Backend = "memory" /\ UNCHANGED process
              /\ pc' = [pc EXCEPT ![w] = "handle"]
              /\ wjob' = [wjob EXCEPT ![w] = j]
              /\ status' = [status EXCEPT ![j] = "running"]
              /\ attempts' = [attempts EXCEPT ![j] = @ + 1]
              /\ lockedBy' = [lockedBy EXCEPT ![j] = LockId[w]]
          BY <2>2, <3>2 DEF DequeueMemory, ClaimRow
        <4>4. WorkerPhases' /\ HolderOwnsRow' /\ JobExclusive'
          <5>1. WorkerPhases'
            BY <4>1, <4>3, <4>a DEF IInv
          <5>2. HolderOwnsRow'
            BY <4>1, <4>3, <4>a DEF IInv
          <5>3. JobExclusive'
            BY <4>1, <4>3, <4>a DEF IInv
          <5>4. QED
            BY <5>1, <5>2, <5>3
        <4>5. AttemptBudget' /\ FreshRows'
          BY <4>1, <4>a DEF IInv
        <4>6. QED
          BY <4>4, <4>5
      <3>3. QED
        BY <2>2, <3>1, <3>2 DEF DequeueMemory
    <2>3. CASE BeginDequeue(w)
      BY <2>3 DEF BeginDequeue, IInv
    <2>4. CASE LockRow(w)
      <3>1. CASE Lockable(w) = {} /\ Goto(w, "wait") /\ UNCHANGED wjob
        BY <2>4, <3>1 DEF LockRow, IInv
      <3>2. ASSUME NEW j \in Oldest(Lockable(w)),
                   wjob' = [wjob EXCEPT ![w] = j], Goto(w, "locked")
            PROVE  Rest'
        <4>1. j \in Job /\ status[j] = "pending" /\ ~RowLocked(j)
          BY DEF Oldest, Lockable
        <4>2. \A v \in Worker : wjob[v] # j
          BY <4>1, PendingIsFree
        <4>3. Backend = "postgres"
          BY <2>4 DEF LockRow, IInv
        <4>4. QED
          BY <2>4, <3>2, <4>1, <4>2, <4>3 DEF LockRow, Live, IInv
      <3>3. QED
        BY <2>4, <3>1, <3>2 DEF LockRow
    <2>5. CASE CommitDequeue(w)
      <3>1. WorkerPhases' /\ FreshRows'
        BY <2>5 DEF CommitDequeue, ClaimRow, IInv
      <3>2. HolderOwnsRow'
        BY <2>5 DEF CommitDequeue, ClaimRow, IInv
      <3>3. JobExclusive' /\ AttemptBudget'
        BY <2>5 DEF CommitDequeue, ClaimRow, IInv
      <3>4. QED
        BY <3>1, <3>2, <3>3
    <2>6. CASE Complete(w)
      BY <2>6 DEF Complete, IInv
    <2>7. ASSUME NEW d \in Delays, Reschedule(w, d) PROVE Rest'
      <3>1. WorkerPhases' /\ FreshRows'
        BY <2>7 DEF Reschedule, IInv
      <3>2. HolderOwnsRow'
        BY <2>7 DEF Reschedule, IInv
      <3>3. JobExclusive'
        BY <2>7 DEF Reschedule, IInv
      <3>4. AttemptBudget'
        BY <2>7 DEF Reschedule, IInv
      <3>5. QED
        BY <3>1, <3>2, <3>3, <3>4
    <2>8. QED
      BY <1>4, <2>1, <2>2, <2>3, <2>4, <2>5, <2>6, <2>7 DEF WorkerStep
  <1>5. ASSUME NEW w \in Worker, WorkerFault(w) PROVE Rest'
    <2>1. CASE CommitLost(w)
      <3>1. WorkerPhases' /\ FreshRows'
        BY <2>1 DEF CommitLost, ClaimRow, IInv
      <3>2. HolderOwnsRow'
        BY <2>1 DEF CommitLost, ClaimRow, IInv
      <3>3. JobExclusive' /\ AttemptBudget'
        BY <2>1 DEF CommitLost, ClaimRow, IInv
      <3>4. QED
        BY <3>1, <3>2, <3>3
    <2>2. CASE DequeueFails(w)
      BY <2>2 DEF DequeueFails, IInv
    <2>3. CASE ReportFails(w)
      BY <2>3 DEF ReportFails, IInv
    <2>4. QED
      BY <1>5, <2>1, <2>2, <2>3 DEF WorkerFault
  <1>6. ASSUME NEW r \in Replica, Shutdown(r) \/ Drained(r) PROVE Rest'
    BY <1>6 DEF Shutdown, Drained, IInv
  <1>7. ASSUME NEW r \in Replica, Crash(r) PROVE Rest'
    BY <1>7 DEF Crash, WorkersGone, IInv
  <1>8. ASSUME NEW r \in Replica, Restart(r) PROVE Rest'
    BY <1>8 DEF Restart, IInv
  <1>9. ASSUME UNCHANGED vars PROVE Rest'
    BY <1>9 DEF vars, IInv
  <1>10. Rest'
    <2> HIDE DEF Rest
    <2> QED
      BY <1>1, <1>2, <1>3, <1>4, <1>5, <1>6, <1>7, <1>8, <1>9 DEF Next
  <1>11. QED
    BY <1>0, <1>10 DEF IInv

\* The inductive invariant holds in every reachable state.
LEMMA Inductive == Spec => []IInv
  <1>1. Init => IInv
    BY JobQueueAssumption, MaxAttemptsPositive
       DEF Init, IInv, TypeOK, WorkerPoint, Holding, FaultKind, WorkerPhases, FreshRows,
           HolderOwnsRow, JobExclusive, AttemptBudget
  <1>2. QED
    BY <1>1, IInvStep, PTL DEF Spec

\* No job is ever in the hands of two workers, whatever crashes, lost commits,
\* shutdowns and shared lock identities do to the pool.
THEOREM Exclusive == Spec => []JobExclusive
  BY Inductive, PTL DEF IInv

\* A worker that executes a job still owns its row when it reports.
THEOREM Ownership == Spec => []HolderOwnsRow
  BY Inductive, PTL DEF IInv

\* No job begins more attempts than MaxAttempts allows.
THEOREM Budget == Spec => []AttemptBudget
  BY Inductive, PTL DEF IInv

-----------------------------------------------------------------------------
\* A finished job is never run again.
THEOREM FinishedStaysFinished == Spec => TerminalSticky
  <1> DEFINE Sticky == \A j \in Job : status[j] \in Terminal \cup {"deleted"} =>
                          status'[j] \in {status[j], "deleted"}
  <1>1. IInv /\ [Next]_vars => [Sticky]_vars
    <2> SUFFICES ASSUME IInv, Next PROVE Sticky
      OBVIOUS
    <2> USE JobQueueAssumption DEF IInv, TypeOK, Terminal, table
    <2>1. ASSUME NEW j \in Job, NEW d \in Delays \cup {0}, Enqueue(j, d) PROVE Sticky
      BY <2>1 DEF Enqueue
    <2>2. ASSUME NEW S \in SUBSET Job, DeleteOlderThan(S) PROVE Sticky
      BY <2>2 DEF DeleteOlderThan
    <2>3. ASSUME NEW w \in Worker, NEW j \in Job, status[j] = "pending", ClaimRow(j, w)
          PROVE  Sticky
      BY <2>3 DEF ClaimRow
    <2>4. ASSUME NEW w \in Worker, DequeueMemory(w) PROVE Sticky
      BY <2>3, <2>4 DEF DequeueMemory, Oldest, RunnableJobs, Runnable
    <2>5. ASSUME NEW w \in Worker, CommitDequeue(w) \/ CommitLost(w) PROVE Sticky
      <3>1. wjob[w] \in Job /\ status[wjob[w]] = "pending" /\ ClaimRow(wjob[w], w)
        BY <2>5 DEF CommitDequeue, CommitLost, WorkerPhases
      <3>2. QED
        BY <2>3, <3>1
    <2>6. ASSUME NEW w \in Worker, Complete(w) PROVE Sticky
      BY <2>6 DEF Complete, Owned
    <2>7. ASSUME NEW w \in Worker, NEW d \in Delays, Reschedule(w, d) PROVE Sticky
      BY <2>7 DEF Reschedule, Owned
    <2>8. ASSUME UNCHANGED status PROVE Sticky
      BY <2>8
    <2>9. QED
      <3> HIDE DEF Sticky
      <3>1. ASSUME NEW w \in Worker, WorkerStep(w) \/ WorkerFault(w) PROVE Sticky
        BY <2>4, <2>5, <2>6, <2>7, <2>8, <3>1
           DEF WorkerStep, WorkerFault, LoopHead, Wake, BeginDequeue, LockRow,
               HandlerReturns, DequeueFails, ReportFails
      <3>2. ASSUME NEW r \in Replica,
                   Shutdown(r) \/ Drained(r) \/ Crash(r) \/ Restart(r)
            PROVE  Sticky
        BY <2>8, <3>2 DEF Shutdown, Drained, Crash, Restart
      <3>3. ASSUME Tick PROVE Sticky
        BY <2>8, <3>3 DEF Tick
      <3>4. QED
        BY <2>1, <2>2, <3>1, <3>2, <3>3 DEF Next
  <1>2. QED
    BY <1>1, Inductive, PTL DEF Spec, TerminalSticky

-----------------------------------------------------------------------------
\* Under the memory store, whose Dequeue is one critical section, at most one
\* job per concurrency key runs at a time.  (Under Postgres this fails; see the
\* run JobQueueKeyRace.)
THEOREM MemoryKeyExclusive == ASSUME Backend = "memory" PROVE Spec => []KeyExclusive
  <1>1. Init => KeyExclusive
    BY DEF Init, KeyExclusive
  <1>2. IInv /\ KeyExclusive /\ [Next]_vars => KeyExclusive'
    <2> SUFFICES ASSUME IInv, KeyExclusive, [Next]_vars PROVE KeyExclusive'
      OBVIOUS
    <2> USE JobQueueAssumption DEF IInv, TypeOK, KeyExclusive, table
    <2>1. ASSUME NEW j \in Job, NEW d \in Delays \cup {0}, Enqueue(j, d)
          PROVE  KeyExclusive'
      BY <2>1 DEF Enqueue
    <2>2. ASSUME NEW S \in SUBSET Job, DeleteOlderThan(S) PROVE KeyExclusive'
      BY <2>2 DEF DeleteOlderThan
    <2>3. ASSUME NEW w \in Worker, DequeueMemory(w) PROVE KeyExclusive'
      BY <2>3 DEF DequeueMemory, ClaimRow, Oldest, RunnableJobs, Runnable, KeyFree
    <2>4. ASSUME NEW w \in Worker, CommitDequeue(w) \/ CommitLost(w)
          PROVE  KeyExclusive'
      BY <2>4 DEF CommitDequeue, CommitLost, WorkerPhases
    <2>5. ASSUME NEW w \in Worker, Complete(w) PROVE KeyExclusive'
      BY <2>5 DEF Complete
    <2>6. ASSUME NEW w \in Worker, NEW d \in Delays, Reschedule(w, d)
          PROVE  KeyExclusive'
      BY <2>6 DEF Reschedule
    <2>7. ASSUME UNCHANGED status PROVE KeyExclusive'
      BY <2>7
    <2>8. QED
      <3> HIDE DEF KeyExclusive
      <3>1. ASSUME NEW w \in Worker, WorkerStep(w) \/ WorkerFault(w)
            PROVE  KeyExclusive'
        BY <2>3, <2>4, <2>5, <2>6, <2>7, <3>1
           DEF WorkerStep, WorkerFault, LoopHead, Wake, BeginDequeue, LockRow,
               HandlerReturns, DequeueFails, ReportFails
      <3>2. ASSUME NEW r \in Replica,
                   Shutdown(r) \/ Drained(r) \/ Crash(r) \/ Restart(r)
            PROVE  KeyExclusive'
        BY <2>7, <3>2 DEF Shutdown, Drained, Crash, Restart
      <3>3. ASSUME Tick \/ UNCHANGED vars PROVE KeyExclusive'
        BY <2>7, <3>3 DEF Tick, vars
      <3>4. QED
        BY <2>1, <2>2, <3>1, <3>2, <3>3 DEF Next
  <1>3. QED
    BY <1>1, <1>2, Inductive, PTL DEF Spec

-----------------------------------------------------------------------------
\* The ledger's executors under the refinement mapping.
Exec == [w \in Worker |-> IF pc[w] \in Holding THEN wjob[w] ELSE NoJob]

\* A row claim by a worker that holds nothing is the beginning of an attempt
\* in the ledger.
LEMMA ClaimBegins ==
  ASSUME IInv, NEW w \in Worker, NEW j \in Job, ClaimRow(j, w),
         status[j] = "pending"
  PROVE  Ledger!Begin(j)
  <1>1. \A v \in Worker : Exec[v] # j
    BY JobQueueAssumption DEF IInv, HolderOwnsRow, Owned, Exec
  <1>2. attempts[j] < MaxAttempts(j)
    BY DEF IInv, AttemptBudget
  <1>3. QED
    BY <1>1, <1>2 DEF ClaimRow, Exec, Ledger!Begin

\* The queue implements the ledger: whatever transactions, crashes, lost
\* commits, failed reports, sweeps and restarts do, seen through the committed
\* table and the workers between Dequeue and their report every step is a step
\* of the abstract specification or changes nothing of it.
THEOREM Refinement == Spec => LedgerSpec
  <1>1. Init => Ledger!Init
    BY DEF Init, Ledger!Init, Holding
  <1>2. IInv /\ IInv' /\ [Next]_vars => [Ledger!Next]_(Ledger!vars)
    <2> SUFFICES ASSUME IInv, IInv', [Next]_vars
                 PROVE  Ledger!Next \/ UNCHANGED <<status, attempts, Exec>>
      BY DEF Ledger!vars, Exec
    <2> DEFINE Ok == Ledger!Next \/ UNCHANGED <<status, attempts, Exec>>
    <2> USE JobQueueAssumption
    <2>0. ASSUME UNCHANGED <<status, attempts>>, NEW W \in SUBSET Worker,
                 Exec' = [w \in Worker |-> IF w \in W THEN NoJob ELSE Exec[w]]
          PROVE  Ok
      <3>1. Ledger!Abandon(W)
        BY <2>0 DEF Ledger!Abandon, Exec
      <3>2. QED
        BY <3>1 DEF Ledger!Next
    <2>1. ASSUME NEW j \in Job, NEW d \in Delays \cup {0}, Enqueue(j, d) PROVE Ok
      <3>1. attempts' = attempts
        BY <2>1 DEF Enqueue, IInv, TypeOK, FreshRows
      <3>2. Exec' = Exec /\ status[j] = "absent"
            /\ status' = [status EXCEPT ![j] = "pending"]
        BY <2>1 DEF Enqueue, workers, Exec
      <3>3. Ledger!Submit(j)
        BY <3>1, <3>2 DEF Ledger!Submit, Exec
      <3>4. QED
        BY <3>3 DEF Ledger!Next
    <2>2. ASSUME NEW S \in SUBSET Job, DeleteOlderThan(S) PROVE Ok
      <3>1. Exec' = Exec
        BY <2>2 DEF DeleteOlderThan, workers, Exec
      <3>2. Ledger!Purge(S)
        BY <2>2, <3>1 DEF DeleteOlderThan, Ledger!Purge, Ledger!Final, Exec, Terminal
      <3>3. QED
        BY <3>2 DEF Ledger!Next
    <2>3. ASSUME NEW w \in Worker, NEW j \in Job, ClaimRow(j, w),
                 status[j] = "pending", pc[w] \notin Holding,
                 wjob' = [wjob EXCEPT ![w] = j], pc' = [pc EXCEPT ![w] = "handle"]
          PROVE  Ok
      <3>1. Ledger!Begin(j)
        BY <2>3, ClaimBegins
      <3>2. Exec[w] = NoJob /\ Exec' = [Exec EXCEPT ![w] = j]
        BY <2>3 DEF Exec, IInv, TypeOK, Holding
      <3>3. Ledger!Claim(j, w)
        BY <3>1, <3>2 DEF Ledger!Claim, Exec
      <3>4. QED
        BY <3>3 DEF Ledger!Next
    <2>4. ASSUME NEW w \in Worker, CommitLost(w) PROVE Ok
      <3>1. wjob[w] \in Job /\ status[wjob[w]] = "pending" /\ ClaimRow(wjob[w], w)
        BY <2>4 DEF CommitLost, IInv, WorkerPhases, TypeOK
      <3>2. Ledger!Begin(wjob[w])
        BY <3>1, ClaimBegins
      <3>3. Exec' = Exec
        BY <2>4 DEF CommitLost, Goto, Exec, IInv, TypeOK, Holding
      <3>4. Ledger!ClaimLost(wjob[w])
        BY <3>2, <3>3 DEF Ledger!ClaimLost, Exec
      <3>5. QED
        BY <3>1, <3>4 DEF Ledger!Next
    <2>5. ASSUME NEW w \in Worker, NEW o \in {"succeeded", "pending", "failed"},
                 pc[w] \in Holding,
                 \/ o = "succeeded"
                 \/ o = "pending" /\ attempts[wjob[w]] < MaxAttempts(wjob[w])
                 \/ o = "failed" /\ attempts[wjob[w]] >= MaxAttempts(wjob[w]),
                 status' = [status EXCEPT ![wjob[w]] = o], UNCHANGED attempts,
                 wjob' = [wjob EXCEPT ![w] = NoJob], pc' = [pc EXCEPT ![w] = "poll"]
          PROVE  Ok
      <3>1. wjob[w] \in Job /\ status[wjob[w]] = "running"
        BY <2>5 DEF IInv, WorkerPhases, HolderOwnsRow, Owned, TypeOK
      <3>2. Exec[w] = wjob[w] /\ Exec' = [Exec EXCEPT ![w] = NoJob]
        BY <2>5 DEF Exec, IInv, TypeOK, Holding
      <3>3. Ledger!Finish(wjob[w], w, o)
        BY <2>5, <3>1, <3>2 DEF Ledger!Finish, Exec
      <3>4. QED
        BY <3>1, <3>3 DEF Ledger!Next
    <2>6. ASSUME NEW w \in Worker, WorkerStep(w) PROVE Ok
      <3>1. CASE DequeueMemory(w)
        <4>1. CASE Goto(w, "wait") /\ UNCHANGED <<table, wjob>>
          <5>1. UNCHANGED <<status, attempts, Exec>>
            BY <3>1, <4>1 DEF DequeueMemory, Goto, table, Exec, IInv, TypeOK, Holding
          <5>2. QED
            BY <5>1
        <4>2. ASSUME NEW j \in Oldest(RunnableJobs), ClaimRow(j, w),
                     wjob' = [wjob EXCEPT ![w] = j], Goto(w, "handle")
              PROVE  Ok
          <5>1. j \in Job /\ status[j] = "pending" /\ pc[w] \notin Holding
                /\ pc' = [pc EXCEPT ![w] = "handle"]
            BY <3>1, <4>2 DEF Oldest, RunnableJobs, Runnable, DequeueMemory, Holding, Goto
          <5>2. QED
            BY <2>3, <4>2, <5>1
        <4>3. QED
          BY <3>1, <4>1, <4>2 DEF DequeueMemory
      <3>2. CASE CommitDequeue(w)
        <4>1. /\ wjob[w] \in Job /\ status[wjob[w]] = "pending"
              /\ ClaimRow(wjob[w], w) /\ pc[w] \notin Holding
              /\ wjob' = [wjob EXCEPT ![w] = wjob[w]]
              /\ pc' = [pc EXCEPT ![w] = "handle"]
          BY <3>2 DEF CommitDequeue, IInv, WorkerPhases, TypeOK, Goto, Holding
        <4>2. QED
          BY <2>3, <4>1
      <3>3. CASE Complete(w)
        <4>1. Owned(wjob[w], w) /\ pc[w] \in Holding
          BY <3>3 DEF Complete, IInv, HolderOwnsRow, Holding
        <4>2. QED
          BY <2>5, <3>3, <4>1 DEF Complete, Goto
      <3>4. ASSUME NEW d \in Delays, Reschedule(w, d) PROVE Ok
        <4>1. Owned(wjob[w], w) /\ pc[w] \in Holding /\ wjob[w] \in Job
          BY <3>4 DEF Reschedule, IInv, HolderOwnsRow, WorkerPhases, Holding, TypeOK
        <4>2. attempts[wjob[w]] \in Nat /\ MaxAttempts(wjob[w]) \in Nat
          BY <4>1, MaxAttemptsPositive DEF IInv, TypeOK
        <4>3. CASE attempts[wjob[w]] >= MaxAttempts(wjob[w])
          BY <2>5, <3>4, <4>1, <4>3 DEF Reschedule, Goto
        <4>4. CASE attempts[wjob[w]] < MaxAttempts(wjob[w])
          <5>1. ~(attempts[wjob[w]] >= MaxAttempts(wjob[w]))
            BY <4>2, <4>4
          <5>2. QED
            BY <2>5, <3>4, <4>1, <4>4, <5>1 DEF Reschedule, Goto
        <4>5. QED
          BY <4>2, <4>3, <4>4
      <3>5. CASE LoopHead(w) \/ Wake(w) \/ BeginDequeue(w) \/ LockRow(w) \/ HandlerReturns(w)
        <4>1. UNCHANGED <<status, attempts, Exec>>
          BY <3>5 DEF LoopHead, Wake, BeginDequeue, LockRow, HandlerReturns, Goto,
                      table, Exec, IInv, TypeOK, Holding
        <4>2. QED
          BY <4>1
      <3>6. QED
        BY <2>6, <3>1, <3>2, <3>3, <3>4, <3>5 DEF WorkerStep
    <2>7. ASSUME NEW w \in Worker, DequeueFails(w) \/ ReportFails(w) PROVE Ok
      <3>1. /\ UNCHANGED <<status, attempts>>
            /\ Exec' = [v \in Worker |-> IF v \in {w} THEN NoJob ELSE Exec[v]]
        BY <2>7 DEF DequeueFails, ReportFails, Goto, table, Exec, IInv, TypeOK, Holding
      <3>2. {w} \in SUBSET Worker
        OBVIOUS
      <3>3. QED
        <4> HIDE DEF Ok
        <4> QED
          BY <2>0, <3>1, <3>2
    <2>8. ASSUME NEW r \in Replica, Crash(r) PROVE Ok
      <3> DEFINE W == {w \in Worker : ReplicaOf[w] = r}
      <3>1. /\ UNCHANGED <<status, attempts>>
            /\ Exec' = [v \in Worker |-> IF v \in W THEN NoJob ELSE Exec[v]]
        BY <2>8 DEF Crash, WorkersGone, table, Exec, IInv, TypeOK, Holding
      <3>2. W \in SUBSET Worker
        OBVIOUS
      <3>3. QED
        <4> HIDE DEF Ok, W
        <4> QED
          BY <2>0, <3>1, <3>2
    <2>9. ASSUME NEW r \in Replica, Shutdown(r) \/ Drained(r) \/ Restart(r) PROVE Ok
      <3>1. UNCHANGED <<status, attempts, Exec>>
        BY <2>9 DEF Shutdown, Drained, Restart, table, workers, Exec, IInv, TypeOK,
                    WorkerPhases, Holding
      <3>2. QED
        BY <3>1
    <2>10. ASSUME Tick \/ UNCHANGED vars PROVE Ok
      BY <2>10 DEF Tick, vars, table, workers, Exec
    <2>11. QED
      <3> HIDE DEF Ok
      <3>1. Ok
        BY <2>1, <2>2, <2>4, <2>6, <2>7, <2>8, <2>9, <2>10 DEF Next, WorkerFault
      <3>2. QED
        BY <3>1 DEF Ok
  <1>3. QED
    BY <1>1, <1>2, Inductive, PTL DEF Spec, LedgerSpec, Ledger!Spec

\* All that run jobqueue_postgres checks of a state, for any number of jobs,
\* workers, replicas and faults.
THEOREM QueueInvariant == Spec => []QueueInv
  BY TypeCorrect, Exclusive, Ownership, Budget, PTL DEF QueueInv

\* A step that keeps every holder's job, or takes it from one whose row is then no
\* longer running, strands no running row.
LEMMA HoldersReport ==
  ASSUME InFlightJobsFinish,
         \A j \in Job : status'[j] = "running" =>
             \/ \E w \in Worker : wjob'[w] = j /\ pc'[w] \in Holding
             \/ /\ status[j] = "running"
                /\ \A w \in Worker : wjob[w] = j /\ pc[w] \in Holding => wjob'[w] = j /\ pc'[w] \in Holding
  PROVE  InFlightJobsFinish'
  BY DEF InFlightJobsFinish

LEMMA InFlightStep ==
  ASSUME Backend = "memory", IInv, InFlightJobsFinish, [Next]_vars
  PROVE  InFlightJobsFinish'
  <1>1. /\ TypeOK /\ WorkerPhases /\ HolderOwnsRow /\ status \in [Job -> JobStatus \cup {"absent", "deleted"}]
        /\ pc \in [Worker -> WorkerPoint] /\ wjob \in [Worker -> Job \cup {NoJob}] /\ NoJob \notin Job
    BY JobQueueAssumption DEF IInv, TypeOK
  <1>2. CASE UNCHANGED <<status, pc, wjob>>
    BY <1>2 DEF InFlightJobsFinish
  <1>3. ASSUME NEW j \in Job, NEW d \in Delays \cup {0}, Enqueue(j, d) PROVE InFlightJobsFinish'
    <2>1. status' = [status EXCEPT ![j] = "pending"] /\ UNCHANGED <<pc, wjob>>
      BY <1>3 DEF Enqueue, workers
    <2>2. QED
      BY <1>1, <2>1 DEF InFlightJobsFinish
  <1>4. ASSUME NEW S \in SUBSET Job, DeleteOlderThan(S) PROVE InFlightJobsFinish'
    <2>1. /\ status' = [j \in Job |-> IF j \in S THEN "deleted" ELSE status[j]] /\ UNCHANGED <<pc, wjob>>
      BY <1>4 DEF DeleteOlderThan, workers
    <2>2. QED
      BY <1>1, <2>1 DEF InFlightJobsFinish
  <1>5. ASSUME NEW w \in Worker, WorkerStep(w) \/ WorkerFault(w) PROVE InFlightJobsFinish'
    <2>1. pc[w] \notin {"tx", "locked"}
      BY <1>1 DEF WorkerPhases
    <2>2. CASE LoopHead(w) \/ Wake(w) \/ HandlerReturns(w)
      <3>1. status' = status /\ wjob' = wjob /\ \A v \in Worker : pc[v] \in Holding => pc'[v] \in Holding
        BY <1>1, <2>2 DEF LoopHead, Wake, HandlerReturns, Goto, table, Holding
      <3>2. QED
        BY <3>1, HoldersReport
    <2>3. CASE DequeueMemory(w)
      <3>1. pc[w] = "dequeue"
        BY <2>3 DEF DequeueMemory
      <3>2. CASE Goto(w, "wait") /\ UNCHANGED <<table, wjob>>
        <4>1. status' = status /\ wjob' = wjob /\ \A v \in Worker : pc[v] \in Holding => pc'[v] \in Holding
          BY <1>1, <3>1, <3>2 DEF Goto, table, Holding
        <4>2. QED
          BY <4>1, HoldersReport
      <3>3. ASSUME NEW j \in Oldest(RunnableJobs), ClaimRow(j, w),
                   wjob' = [wjob EXCEPT ![w] = j], Goto(w, "handle")
            PROVE  InFlightJobsFinish'
        <4>1. j \in Job /\ status' = [status EXCEPT ![j] = "running"]
          BY <3>3 DEF Oldest, RunnableJobs, ClaimRow
        <4>2. wjob'[w] = j /\ pc'[w] \in Holding
          BY <1>1, <3>3 DEF Goto, Holding
        <4>3. \A v \in Worker : pc[v] \in Holding => wjob'[v] = wjob[v] /\ pc'[v] = pc[v]
          BY <1>1, <3>1, <3>3 DEF Goto, Holding
        <4>4. QED
          BY <1>1, <4>1, <4>2, <4>3, HoldersReport
      <3>4. QED
        BY <2>3, <3>2, <3>3 DEF DequeueMemory
    <2>4. CASE Complete(w) \/ \E d \in Delays : Reschedule(w, d)
      <3> DEFINE j == wjob[w]
      <3>1. pc[w] \in Holding
        BY <2>4 DEF Complete, Reschedule, Holding
      <3>2. j \in Job /\ Owned(j, w)
        BY <1>1, <3>1 DEF WorkerPhases, HolderOwnsRow
      <3>3. /\ status' = [status EXCEPT ![j] = status'[j]] /\ status'[j] # "running"
            /\ wjob' = [wjob EXCEPT ![w] = NoJob] /\ pc' = [pc EXCEPT ![w] = "poll"]
        BY <1>1, <2>4, <3>2 DEF Complete, Reschedule, Goto
      <3>4. QED
        BY <1>1, <3>2, <3>3, HoldersReport
    <2>5. ~(BeginDequeue(w) \/ LockRow(w) \/ CommitDequeue(w) \/ CommitLost(w) \/ DequeueFails(w) \/ ReportFails(w))
      BY <2>1 DEF BeginDequeue, LockRow, CommitDequeue, CommitLost, DequeueFails, ReportFails, StoreReachable
    <2>6. QED
      BY <1>5, <2>2, <2>3, <2>4, <2>5 DEF WorkerStep, WorkerFault
  <1>6. ASSUME NEW r \in Replica, Shutdown(r) \/ Drained(r) \/ Crash(r) \/ Restart(r) PROVE InFlightJobsFinish'
    <2>1. UNCHANGED <<status, pc, wjob>>
      BY <1>6 DEF Shutdown, Drained, Crash, Restart, table, workers
    <2>2. QED
      BY <1>2, <2>1
  <1>7. CASE Tick \/ UNCHANGED vars
    BY <1>2, <1>7 DEF Tick, vars, table, workers
  <1>8. QED
    BY <1>3, <1>4, <1>5, <1>6, <1>7 DEF Next

\* Without a database at most one job of a concurrency key runs, and a shutdown
\* leaves no running row that nobody will report: Memory.Dequeue claims under one
\* mutex, and its reports neither fail nor notice the cancelled context.
THEOREM MemoryInvariant ==
  ASSUME Backend = "memory"
  PROVE  Spec => []MemoryQueueInv
  <1>1. Init => InFlightJobsFinish
    BY DEF Init, InFlightJobsFinish
  <1>2. IInv /\ InFlightJobsFinish /\ [Next]_vars => InFlightJobsFinish'
    BY InFlightStep
  <1>3. Spec => []InFlightJobsFinish
    BY <1>1, <1>2, Inductive, PTL DEF Spec
  <1>4. QED
    BY <1>3, MemoryKeyExclusive, PTL DEF MemoryQueueInv

=============================================================================
