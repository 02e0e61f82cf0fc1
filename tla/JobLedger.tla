----------------------------- MODULE JobLedger -----------------------------
(***************************************************************************)
(* What the durable job queue of internal/jobqueue promises, without its   *)
(* stores, transactions, clocks, replicas or wake-ups.                     *)
(*                                                                         *)
(* A job is submitted once.  An attempt begins when exactly one executor   *)
(* claims a pending job, and at most MaxAttempts(j) attempts ever begin.   *)
(* Only the executor of the current attempt may end it: the job succeeds,  *)
(* goes back to pending while attempts are left, or fails when they are    *)
(* used up.  An executor may vanish, and a claim may be lost on its way to *)
(* the executor; either way the job stays "running" with no executor.      *)
(* Only finished jobs are purged.                                          *)
(***************************************************************************)
EXTENDS Naturals

CONSTANTS Job,          \* job ids
          Worker,       \* executors
          NoJob,        \* "executes nothing"
          Limit         \* Limit[j]: attempts job j is allowed

VARIABLES status,       \* status[j]: life-cycle state of job j
          attempts,     \* attempts[j]: attempts begun so far
          exec          \* exec[w]: the job whose attempt w is executing

vars == <<status, attempts, exec>>

Final == {"succeeded", "failed", "cancelled"}

Init ==
    /\ status = [j \in Job |-> "absent"]
    /\ attempts = [j \in Job |-> 0]
    /\ exec = [w \in Worker |-> NoJob]

Submit(j) ==
    /\ status[j] = "absent"
    /\ status' = [status EXCEPT ![j] = "pending"]
    /\ UNCHANGED <<attempts, exec>>

\* An attempt of j begins; nobody else can be executing a pending job.
Begin(j) ==
    /\ status[j] = "pending"
    /\ attempts[j] < Limit[j]
    /\ \A w \in Worker : exec[w] # j
    /\ status' = [status EXCEPT ![j] = "running"]
    /\ attempts' = [attempts EXCEPT ![j] = @ + 1]

Claim(j, w) ==
    /\ Begin(j)
    /\ exec[w] = NoJob
    /\ exec' = [exec EXCEPT ![w] = j]

\* The claim is durable but no executor learns of it.
ClaimLost(j) ==
    /\ Begin(j)
    /\ UNCHANGED exec

\* The executor w of j ends the attempt and records the outcome.
Finish(j, w, outcome) ==
    /\ exec[w] = j
    /\ status[j] = "running"
    /\ \/ outcome = "succeeded"
       \/ outcome = "pending" /\ attempts[j] < Limit[j]
       \/ outcome = "failed" /\ attempts[j] >= Limit[j]
    /\ status' = [status EXCEPT ![j] = outcome]
    /\ exec' = [exec EXCEPT ![w] = NoJob]
    /\ UNCHANGED attempts

\* Executors in W vanish without recording an outcome.
Abandon(W) ==
    /\ exec' = [w \in Worker |-> IF w \in W THEN NoJob ELSE exec[w]]
    /\ UNCHANGED <<status, attempts>>

Purge(S) ==
    /\ \A j \in S : status[j] \in Final
    /\ status' = [j \in Job |-> IF j \in S THEN "deleted" ELSE status[j]]
    /\ UNCHANGED <<attempts, exec>>

Next ==
    \/ \E j \in Job : Submit(j) \/ ClaimLost(j)
    \/ \E j \in Job, w \in Worker : Claim(j, w)
    \/ \E j \in Job, w \in Worker, o \in {"succeeded", "pending", "failed"} :
          Finish(j, w, o)
    \/ \E W \in SUBSET Worker : Abandon(W)
    \/ \E S \in SUBSET Job : Purge(S)

Spec == Init /\ [][Next]_vars
=============================================================================
