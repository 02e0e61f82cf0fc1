----------------------------- MODULE Scheduler ------------------------------
(***************************************************************************)
(* The cron scheduler: internal/scheduler and the handlers that edit its   *)
(* table.                                                                  *)
(*                                                                         *)
(* Every replica runs a Runner.  The one whose session holds the advisory  *)
(* lock leads: at each tick it reads the due rows, enqueues a job for each *)
(* and moves next_run_at with MarkFired.  These are separate statements on *)
(* other connections than the lock's, so a leader that lost its session    *)
(* goes on until its next ping.  Operators create, edit and delete rows    *)
(* meanwhile; an edit reads the row, computes its next firing time and     *)
(* writes it back later.                                                   *)
(*                                                                         *)
(* A cron expression is known by NextAfter, what Cron.Next answers for it. *)
(* The handlers refuse expressions that do not parse, so the branch of     *)
(* fire that disables such a row has no action.                            *)
(***************************************************************************)
EXTENDS Naturals, FiniteSets

CONSTANTS Schedule,            \* ids of schedules
          Cron,                \* cron expressions, with their time zone
          NextAfter,           \* NextAfter[c][t]: Cron.Next of c from time t
          Replica, NoReplica,
          NoItem, NoEdit,
          MaxTime,             \* bound: the clock
          MaxEdits,            \* bound: UpdateSchedule requests
          MaxFaults            \* bound: MaxFaults[k] faults of kind k

Clock == 0 .. MaxTime

\* "stop": a process ends; "session": the lock's connection drops; "db": a
\* statement fails.
FaultKind == {"stop", "session", "db"}

ASSUME SchedulerAssumption ==
    /\ IsFiniteSet(Replica) /\ NoReplica \notin Replica
    /\ Cron # {}
    /\ MaxTime \in Nat /\ MaxEdits \in Nat
    /\ MaxFaults \in [FaultKind -> Nat]
    /\ NextAfter \in [Cron -> [Clock -> Nat]]

\* Cron.Next answers a time after the one it is given.
ASSUME NextIsLater == \A c \in Cron : \A t \in Clock : NextAfter[c][t] > t

VARIABLES
    \* the schedules table
    row,       \* row[s]: "absent", "enabled", "disabled" or "deleted"
    cron,      \* cron[s]
    next,      \* next[s]: next_run_at
    edit,      \* edit[s]: an UpdateSchedule between its Get and its Update
    \* the runners
    lock,      \* the replica whose session holds the advisory lock
    pc,        \* pc[r]: where the Runner of r is
    todo,      \* todo[r]: due rows read by this tick and not fired yet
    cur,       \* cur[r]: the row whose job was enqueued, to be marked
    \* the rest
    jobs,      \* jobs[s][t]: jobs enqueued for the firing of s due at t
    now,
    edits,     \* edits left
    faults     \* faults[k]: faults left

table == <<row, cron, next>>
runners == <<lock, pc, todo, cur>>
vars == <<table, edit, runners, jobs, now, edits, faults>>

\* What DueBefore returns of a row, with the time of the tick.
Item == [s : Schedule, cron : Cron, next : Nat, at : Clock]
Edit == [row : {"enabled", "disabled"}, cron : Cron, next : Nat]

\* Inside leadLoop.
Leading == {"due", "fire", "mark", "idle"}
Point == Leading \cup {"seek", "down"}

TypeOK ==
    /\ row \in [Schedule -> {"absent", "enabled", "disabled", "deleted"}]
    /\ cron \in [Schedule -> Cron]
    /\ next \in [Schedule -> Nat]
    /\ edit \in [Schedule -> Edit \cup {NoEdit}]
    /\ lock \in Replica \cup {NoReplica}
    /\ pc \in [Replica -> Point]
    /\ todo \in [Replica -> SUBSET Item]
    /\ cur \in [Replica -> Item \cup {NoItem}]
    /\ \A r \in Replica : /\ pc[r] = "mark" => cur[r] \in Item /\ cur[r].next <= cur[r].at
                          /\ \A x \in todo[r] : x.next <= x.at /\ x.at <= now
    /\ jobs \in [Schedule -> [Clock -> Nat]]
    /\ now \in Clock
    /\ edits \in 0 .. MaxEdits
    /\ faults \in [FaultKind -> Nat] /\ \A k \in FaultKind : faults[k] <= MaxFaults[k]

Init ==
    /\ row = [s \in Schedule |-> "absent"]
    /\ cron = [s \in Schedule |-> CHOOSE c \in Cron : TRUE]
    /\ next = [s \in Schedule |-> 0]
    /\ edit = [s \in Schedule |-> NoEdit]
    /\ lock = NoReplica
    /\ pc = [r \in Replica |-> "seek"]
    /\ todo = [r \in Replica |-> {}]
    /\ cur = [r \in Replica |-> NoItem]
    /\ jobs = [s \in Schedule |-> [t \in Clock |-> 0]]
    /\ now = 0
    /\ edits = MaxEdits /\ faults = MaxFaults

-----------------------------------------------------------------------------
(* Helpers *)

Goto(r, p) == pc' = [pc EXCEPT ![r] = p]

Fault(k) == faults[k] > 0 /\ faults' = [faults EXCEPT ![k] = @ - 1]

\* The loop of tick goes on with the rest of its rows, or the tick is over.
NextItem(r, rest) ==
    /\ todo' = [todo EXCEPT ![r] = rest]
    /\ Goto(r, IF rest = {} THEN "idle" ELSE "fire")

\* Rows come ORDER BY next_run_at.
First(S) == {x \in S : \A y \in S : x.next <= y.next}

Enqueue(x) == jobs' = [jobs EXCEPT ![x.s][x.next] = @ + 1]

-----------------------------------------------------------------------------
(* Handlers *)

CreateSchedule(s, c, en) ==
    /\ row[s] = "absent"
    /\ row' = [row EXCEPT ![s] = en]
    /\ cron' = [cron EXCEPT ![s] = c]
    /\ next' = [next EXCEPT ![s] = NextAfter[c][now]]
    /\ UNCHANGED <<edit, runners, jobs, now, edits, faults>>

\* UpdateSchedule up to its Update: Get, the request's fields (the stored
\* enabled flag when the request has none), the next firing from now.
BeginUpdate(s, c, en) ==
    /\ row[s] \in {"enabled", "disabled"}
    /\ edit[s] = NoEdit
    /\ edits > 0 /\ edits' = edits - 1
    /\ edit' = [edit EXCEPT ![s] = [row |-> en, cron |-> c, next |-> NextAfter[c][now]]]
    /\ UNCHANGED <<table, runners, jobs, now, faults>>

\* Its Update writes those columns, unless the row is gone by now.
FinishUpdate(s) ==
    /\ edit[s] # NoEdit
    /\ IF row[s] = "deleted"
         THEN UNCHANGED table
         ELSE /\ row' = [row EXCEPT ![s] = edit[s].row]
              /\ cron' = [cron EXCEPT ![s] = edit[s].cron]
              /\ next' = [next EXCEPT ![s] = edit[s].next]
    /\ edit' = [edit EXCEPT ![s] = NoEdit]
    /\ UNCHANGED <<runners, jobs, now, edits, faults>>

DeleteSchedule(s) ==
    /\ row[s] \in {"enabled", "disabled"}
    /\ row' = [row EXCEPT ![s] = "deleted"]
    /\ UNCHANGED <<cron, next, edit, runners, jobs, now, edits, faults>>

-----------------------------------------------------------------------------
(* Runner *)

\* Mutant: the answer of pg_try_advisory_lock is not looked at.
TryLockUnread(r) ==
    /\ pc[r] = "seek"
    /\ lock' = IF lock = NoReplica THEN r ELSE lock
    /\ Goto(r, "due")
    /\ UNCHANGED <<table, edit, todo, cur, jobs, now, edits, faults>>

\* Run: take the lock and lead.  A runner that finds it held, or whose call
\* fails, sleeps and tries again, which changes nothing.
TryLock(r) ==
    /\ pc[r] = "seek"
    /\ lock = NoReplica
    /\ lock' = r
    /\ Goto(r, "due")
    /\ UNCHANGED <<table, edit, todo, cur, jobs, now, edits, faults>>

\* The enabled rows due by t, as a tick at t reads them.
DueRows(t) ==
    {[s |-> s, cron |-> cron[s], next |-> next[s], at |-> t] :
        s \in {z \in Schedule : row[z] = "enabled" /\ next[z] <= t}}

\* tick: read the clock and the due rows.  A failed query ends the tick.
DueBefore(r) ==
    /\ pc[r] = "due"
    /\ \/ /\ NextItem(r, DueRows(now))
          /\ UNCHANGED faults
       \/ /\ Fault("db")
          /\ Goto(r, "idle")
          /\ UNCHANGED <<todo>>
    /\ UNCHANGED <<table, edit, lock, cur, jobs, now, edits>>

\* fire: enqueue a job for the most overdue row.
FireEnqueues(r) ==
    /\ pc[r] = "fire"
    /\ \E x \in First(todo[r]) :
          /\ Enqueue(x)
          /\ cur' = [cur EXCEPT ![r] = x]
          /\ todo' = [todo EXCEPT ![r] = @ \ {x}]
    /\ Goto(r, "mark")
    /\ UNCHANGED <<table, edit, lock, now, edits, faults>>

\* Mutant: a failed enqueue is marked as fired.
FireFailsMarks(r) ==
    /\ pc[r] = "fire"
    /\ Fault("db")
    /\ \E x \in First(todo[r]) :
          /\ cur' = [cur EXCEPT ![r] = x]
          /\ todo' = [todo EXCEPT ![r] = @ \ {x}]
    /\ Goto(r, "mark")
    /\ UNCHANGED <<table, edit, lock, jobs, now, edits>>

\* The enqueue fails, or only its answer is lost: the row is not marked and
\* stays due for the next tick.
FireFails(r) ==
    /\ pc[r] = "fire"
    /\ Fault("db")
    /\ \E x \in First(todo[r]) :
          /\ Enqueue(x) \/ UNCHANGED jobs
          /\ NextItem(r, todo[r] \ {x})
    /\ UNCHANGED <<table, edit, lock, cur, now, edits>>

\* MarkFired sets next_run_at, from the expression this tick read and the
\* tick's clock, whatever the row holds by now; no row, no write.  A failure is
\* only logged.
MarkFired(r) ==
    /\ pc[r] = "mark"
    /\ \/ /\ next' = [next EXCEPT ![cur[r].s] =
                        IF row[cur[r].s] = "deleted" THEN @
                        ELSE NextAfter[cur[r].cron][cur[r].at]]
          /\ UNCHANGED faults
       \/ Fault("db") /\ UNCHANGED next
    /\ cur' = [cur EXCEPT ![r] = NoItem]
    /\ NextItem(r, todo[r])
    /\ UNCHANGED <<row, cron, edit, lock, jobs, now, edits>>

\* Between ticks: the ticker fires and the lock's connection still answers.
PingSucceeds(r) ==
    /\ pc[r] = "idle"
    /\ lock = r
    /\ Goto(r, "due")
    /\ UNCHANGED <<table, edit, lock, todo, cur, jobs, now, edits, faults>>

\* It does not: leadLoop unlocks, closes the connection and Run starts over.
PingFails(r) ==
    /\ pc[r] = "idle"
    /\ \/ lock # r /\ UNCHANGED faults
       \/ Fault("db")
    /\ lock' = IF lock = r THEN NoReplica ELSE lock
    /\ Goto(r, "seek")
    /\ UNCHANGED <<table, edit, todo, cur, jobs, now, edits>>

-----------------------------------------------------------------------------
(* Environment *)

\* The server drops the session that holds the lock; its runner is not told.
SessionLost ==
    /\ lock # NoReplica
    /\ Fault("session")
    /\ lock' = NoReplica
    /\ UNCHANGED <<table, edit, pc, todo, cur, jobs, now, edits>>

\* A process ends between any two statements: killed, or told to shut down, when
\* every further call fails on the cancelled context.  Its session ends with it.
Stop(r) ==
    /\ pc[r] # "down"
    /\ Fault("stop")
    /\ Goto(r, "down")
    /\ lock' = IF lock = r THEN NoReplica ELSE lock
    /\ todo' = [todo EXCEPT ![r] = {}]
    /\ cur' = [cur EXCEPT ![r] = NoItem]
    /\ UNCHANGED <<table, edit, jobs, now, edits>>

Boot(r) ==
    /\ pc[r] = "down"
    /\ Goto(r, "seek")
    /\ UNCHANGED <<table, edit, lock, todo, cur, jobs, now, edits, faults>>

Tick ==
    /\ now < MaxTime
    /\ now' = now + 1
    /\ UNCHANGED <<table, edit, runners, jobs, edits, faults>>

-----------------------------------------------------------------------------
RunnerStep(r) ==
    \/ TryLock(r) \/ DueBefore(r) \/ FireEnqueues(r) \/ MarkFired(r)
    \/ PingSucceeds(r) \/ PingFails(r)

Next ==
    \/ \E s \in Schedule, c \in Cron, en \in {"enabled", "disabled"} :
          CreateSchedule(s, c, en) \/ BeginUpdate(s, c, en)
    \/ \E s \in Schedule : FinishUpdate(s) \/ DeleteSchedule(s)
    \/ \E r \in Replica : RunnerStep(r) \/ FireFails(r) \/ Stop(r) \/ Boot(r)
    \/ SessionLost \/ Tick

Spec == Init /\ [][Next]_vars

(***************************************************************************)
(* Fairness: a runner's goroutine is scheduled, its timers fire and its    *)
(* statements return; a process that ended is started again; time passes.  *)
(* Operators and faults owe nothing.                                       *)
(***************************************************************************)
Fairness ==
    /\ \A r \in Replica : WF_vars(RunnerStep(r)) /\ WF_vars(Boot(r))
    /\ WF_vars(Tick)

FairSpec == Spec /\ Fairness

-----------------------------------------------------------------------------
(* Properties *)

FaultsUsed(k) == MaxFaults[k] - faults[k]

\* "A single replica drives the loop at a time" (schedulerLockKey): as long as
\* no session dropped, two replicas are never both inside leadLoop, and the one
\* that is holds the lock.
SingleDriver ==
    FaultsUsed("session") = 0 =>
        /\ \A r \in Replica : pc[r] \in Leading <=> lock = r
        /\ \A r, q \in Replica : pc[r] \in Leading /\ pc[q] \in Leading => r = q

\* Firings are not idempotent: the enqueue and MarkFired are two statements.
\* A firing is enqueued once, and once more at most for every fault or edit
\* that got in between.
DuplicatesBounded ==
    \A s \in Schedule : \A t \in Clock :
        jobs[s][t] <= 1 + FaultsUsed("stop") + FaultsUsed("session") + FaultsUsed("db")
                        + (MaxEdits - edits)

\* Nothing went wrong and nobody edited a row so far.
Quiet == edits = MaxEdits /\ faults = MaxFaults

\* Then no firing is enqueued twice, however the ticks of several
\* replicas, creations and deletions interleave.
AtMostOnce == Quiet => \A s \in Schedule : \A t \in Clock : jobs[s][t] <= 1

\* The inductive reason: what a tick has read is still what the row says, is
\* not enqueued yet unless the runner is about to mark it, and nothing from
\* next_run_at on was enqueued otherwise.
Tidy ==
    /\ \A s \in Schedule : edit[s] = NoEdit /\ (row[s] = "absent" => next[s] = 0)
    /\ \A r \in Replica :
          /\ pc[r] \notin {"fire", "mark"} => todo[r] = {}
          /\ \A x \in todo[r] : /\ row[x.s] # "absent"
                               /\ x.next = next[x.s] /\ jobs[x.s][x.next] = 0
          /\ \A x, y \in todo[r] : x.s = y.s => x = y
          /\ pc[r] = "mark" => /\ row[cur[r].s] # "absent"
                               /\ cur[r].next = next[cur[r].s]
                               /\ \A x \in todo[r] : x.s # cur[r].s

Enqueued(s, t) ==
    jobs[s][t] = 1 /\ \E r \in Replica : pc[r] = "mark" /\ cur[r].s = s /\ cur[r].next = t

Unfired ==
    \A s \in Schedule : row[s] # "deleted" =>
        \A t \in Clock : t >= next[s] => jobs[s][t] = 0 \/ Enqueued(s, t)

IInv == TypeOK /\ SingleDriver /\ (Quiet => Tidy /\ Unfired) /\ AtMostOnce

\* A schedule that is due does not stay due: whatever leader dies, loses its
\* session or fails a statement, some replica moves next_run_at on.
DueFires ==
    \A s \in Schedule :
        (row[s] = "enabled" /\ next[s] <= now)
            ~> (row[s] # "enabled" \/ next[s] > now)

\* It moves on only by running: a firing that has come due gets its job, even
\* when enqueues fail and leaders die, unless an operator edits or removes the
\* row or two leaders overlapped.
DueIsRun ==
    \A s \in Schedule : \A t \in Clock :
        (row[s] = "enabled" /\ next[s] = t /\ t <= now)
            ~> (\/ jobs[s][t] > 0
                \/ row[s] = "deleted" \/ edits < MaxEdits
                \/ FaultsUsed("session") > 0)

\* One replica drives the loop as long as no session dropped.
LeaderInv == TypeOK /\ SingleDriver

\* A firing that has come due is enqueued, and its schedule moves on, whichever
\* leader dies, loses its session or fails a statement meanwhile.
DueIsServed == DueFires /\ DueIsRun

=============================================================================
