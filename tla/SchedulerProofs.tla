-------------------------- MODULE SchedulerProofs ---------------------------
(***************************************************************************)
(* Proofs about Scheduler: types, one leader at a time, at most one job    *)
(* per firing as long as nothing goes wrong and one more per fault or edit *)
(* otherwise, for any schedules, cron expressions and replicas.            *)
(***************************************************************************)
EXTENDS Scheduler, FiniteSetTheorems, TLAPS

\* The table at start is empty and nothing is enqueued.
LEMMA InitEstablishes == Init => IInv
  <1> SUFFICES ASSUME Init PROVE IInv  OBVIOUS
  <1> USE SchedulerAssumption DEF Init
  <1>1. TypeOK
    <2>1. (CHOOSE c \in Cron : TRUE) \in Cron
      OBVIOUS
    <2>2. now \in Clock
      BY DEF Clock
    <2> QED  BY <2>1, <2>2 DEF TypeOK, Point, FaultKind
  <1>2. SingleDriver
    BY DEF SingleDriver, Leading
  <1>3. Tidy /\ Unfired
    BY DEF Tidy, Unfired, Enqueued
  <1>4. AtMostOnce
    BY DEF AtMostOnce
  <1> QED  BY <1>1, <1>2, <1>3, <1>4 DEF IInv

\* A fault lowers its counter, so a step that uses one is not a quiet one.
LEMMA FaultCounts ==
    ASSUME faults \in [FaultKind -> Nat], \A q \in FaultKind : faults[q] <= MaxFaults[q],
           NEW k \in FaultKind, Fault(k) \/ UNCHANGED faults
    PROVE  /\ faults' \in [FaultKind -> Nat]
           /\ \A q \in FaultKind : faults'[q] <= faults[q] /\ faults'[q] <= MaxFaults[q]
           /\ Fault(k) => faults' # MaxFaults
  BY SchedulerAssumption DEF Fault, FaultKind

\* The handlers keep the types.
LEMMA HandlerTypes ==
    ASSUME TypeOK, NEW s \in Schedule, NEW c \in Cron, NEW en \in {"enabled", "disabled"},
           CreateSchedule(s, c, en) \/ BeginUpdate(s, c, en) \/ FinishUpdate(s)
              \/ DeleteSchedule(s)
    PROVE  TypeOK'
  <1> USE SchedulerAssumption DEF TypeOK, table, runners
  <1>0. NextAfter[c][now] \in Nat
    OBVIOUS
  <1>1. CASE CreateSchedule(s, c, en)
    BY <1>0, <1>1 DEF CreateSchedule
  <1>2. CASE BeginUpdate(s, c, en)
    <2>1. [row |-> en, cron |-> c, next |-> NextAfter[c][now]] \in Edit
      BY <1>0 DEF Edit
    <2> QED  BY <1>2, <2>1 DEF BeginUpdate
  <1>3. CASE FinishUpdate(s)
    <2>1. edit[s] \in Edit
      BY <1>3 DEF FinishUpdate
    <2> QED  BY <1>3, <2>1 DEF FinishUpdate, Edit
  <1>4. CASE DeleteSchedule(s)
    BY <1>4 DEF DeleteSchedule
  <1> QED  BY <1>1, <1>2, <1>3, <1>4

\* What a tick reads is typed, due, and agrees with the table.
LEMMA DueRowsAreItems ==
    ASSUME TypeOK
    PROVE  \A x \in DueRows(now) :
              /\ x \in Item
              /\ x.next <= x.at /\ x.at <= now
              /\ row[x.s] = "enabled" /\ x.next = next[x.s]
  <1> SUFFICES ASSUME NEW x \in DueRows(now)
               PROVE  /\ x \in Item
                      /\ x.next <= x.at /\ x.at <= now
                      /\ row[x.s] = "enabled" /\ x.next = next[x.s]
    OBVIOUS
  <1>1. PICK s \in Schedule : /\ row[s] = "enabled" /\ next[s] <= now
                              /\ x = [s |-> s, cron |-> cron[s], next |-> next[s], at |-> now]
    BY DEF DueRows
  <1> QED  BY <1>1, SchedulerAssumption DEF TypeOK, Item, Clock

\* The end of one item of a tick: only the runner's own list and point change.
LEMMA NextItemMoves ==
    ASSUME TypeOK, NEW r \in Replica, NEW rest \in SUBSET Item, NextItem(r, rest)
    PROVE  /\ todo' \in [Replica -> SUBSET Item] /\ pc' \in [Replica -> Point]
           /\ todo'[r] = rest /\ pc'[r] = (IF rest = {} THEN "idle" ELSE "fire")
           /\ \A q \in Replica \ {r} : todo'[q] = todo[q] /\ pc'[q] = pc[q]
  BY DEF TypeOK, NextItem, Goto, Point, Leading

\* The runners' steps keep the types.
LEMMA RunnerTypes ==
    ASSUME TypeOK, NEW r \in Replica,
           RunnerStep(r) \/ FireFails(r) \/ Stop(r) \/ Boot(r)
    PROVE  TypeOK'
  <1> USE SchedulerAssumption DEF TypeOK, table, runners, Goto, Leading, Point
  <1>1. CASE TryLock(r)
    BY <1>1 DEF TryLock
  <1>2. CASE DueBefore(r)
    <2>0. Fault("db") \/ UNCHANGED faults
      BY <1>2 DEF DueBefore
    <2>9. faults' \in [FaultKind -> Nat] /\ \A q \in FaultKind : faults'[q] <= MaxFaults[q]
      BY <2>0, FaultCounts DEF FaultKind
    <2>1. CASE Goto(r, "idle") /\ UNCHANGED todo
      BY <1>2, <2>1, <2>9 DEF DueBefore
    <2>2. CASE NextItem(r, DueRows(now))
      <3>1. DueRows(now) \in SUBSET Item
        BY DueRowsAreItems
      <3> HIDE DEF TypeOK
      <3>2. /\ todo' \in [Replica -> SUBSET Item] /\ pc' \in [Replica -> Point]
            /\ todo'[r] = DueRows(now) /\ pc'[r] # "mark"
            /\ \A q \in Replica \ {r} : todo'[q] = todo[q] /\ pc'[q] = pc[q]
        BY <2>2, <3>1, NextItemMoves
      <3>3. \A q \in Replica : \A x \in todo'[q] : x.next <= x.at /\ x.at <= now
        <4>1. \A x \in DueRows(now) : x.next <= x.at /\ x.at <= now
          BY DueRowsAreItems
        <4> QED  BY <3>2, <4>1 DEF TypeOK
      <3> QED  BY <1>2, <2>9, <3>2, <3>3 DEF DueBefore, TypeOK
    <2> QED  BY <1>2, <2>1, <2>2 DEF DueBefore
  <1>3. CASE FireEnqueues(r)
    <2>1. PICK x \in todo[r] : /\ Enqueue(x)
                               /\ cur' = [cur EXCEPT ![r] = x]
                               /\ todo' = [todo EXCEPT ![r] = @ \ {x}]
      BY <1>3 DEF FireEnqueues, First
    <2>2. x \in Item /\ x.next \in Clock
      BY DEF Item, Clock
    <2>3. jobs' \in [Schedule -> [Clock -> Nat]]
      BY <2>1, <2>2 DEF Enqueue, Item
    <2> QED  BY <1>3, <2>1, <2>2, <2>3 DEF FireEnqueues
  <1>4. CASE FireFails(r)
    <2>0. Fault("db") \/ UNCHANGED faults
      BY <1>4 DEF FireFails
    <2>9. faults' \in [FaultKind -> Nat] /\ \A q \in FaultKind : faults'[q] <= MaxFaults[q]
      BY <2>0, FaultCounts DEF FaultKind
    <2>1. PICK x \in todo[r] : /\ Enqueue(x) \/ UNCHANGED jobs
                               /\ NextItem(r, todo[r] \ {x})
      BY <1>4 DEF FireFails, First
    <2>2. x \in Item /\ x.next \in Clock
      BY DEF Item, Clock
    <2>3. jobs' \in [Schedule -> [Clock -> Nat]]
      <3>1. CASE Enqueue(x)
        BY <2>2, <3>1 DEF Enqueue, Item
      <3>2. CASE UNCHANGED jobs
        BY <3>2
      <3> QED  BY <2>1, <3>1, <3>2
    <2> HIDE DEF TypeOK
    <2>4. /\ todo' \in [Replica -> SUBSET Item] /\ pc' \in [Replica -> Point]
          /\ todo'[r] = todo[r] \ {x} /\ pc'[r] # "mark"
          /\ \A q \in Replica \ {r} : todo'[q] = todo[q] /\ pc'[q] = pc[q]
      <3>1. todo[r] \ {x} \in SUBSET Item
        BY DEF TypeOK
      <3> QED  BY <2>1, <3>1, NextItemMoves
    <2> QED  BY <1>4, <2>9, <2>3, <2>4 DEF FireFails, TypeOK
  <1>5. CASE MarkFired(r)
    <2>0. Fault("db") \/ UNCHANGED faults
      BY <1>5 DEF MarkFired
    <2>9. faults' \in [FaultKind -> Nat] /\ \A q \in FaultKind : faults'[q] <= MaxFaults[q]
      BY <2>0, FaultCounts DEF FaultKind
    <2>2. cur[r] \in Item
      BY <1>5 DEF MarkFired
    <2>3. next' \in [Schedule -> Nat]
      <3>1. /\ cur[r].s \in Schedule
            /\ NextAfter[cur[r].cron][cur[r].at] \in Nat
        BY <2>2 DEF Item
      <3>2. \/ UNCHANGED next
            \/ next' = [next EXCEPT ![cur[r].s] =
                           IF row[cur[r].s] = "deleted" THEN @
                           ELSE NextAfter[cur[r].cron][cur[r].at]]
        BY <1>5 DEF MarkFired
      <3> QED  BY <3>1, <3>2
    <2> HIDE DEF TypeOK
    <2>4. /\ todo' \in [Replica -> SUBSET Item] /\ pc' \in [Replica -> Point]
          /\ todo'[r] = todo[r] /\ pc'[r] # "mark"
          /\ \A q \in Replica \ {r} : todo'[q] = todo[q] /\ pc'[q] = pc[q]
      <3>1. todo[r] \in SUBSET Item
        BY DEF TypeOK
      <3>2. NextItem(r, todo[r])
        BY <1>5 DEF MarkFired
      <3> QED  BY <3>1, <3>2, NextItemMoves
    <2> QED  BY <1>5, <2>9, <2>3, <2>4 DEF MarkFired, TypeOK
  <1>6. CASE PingSucceeds(r)
    BY <1>6 DEF PingSucceeds
  <1>7. CASE PingFails(r)
    <2>0. Fault("db") \/ UNCHANGED faults
      BY <1>7 DEF PingFails
    <2>9. faults' \in [FaultKind -> Nat] /\ \A q \in FaultKind : faults'[q] <= MaxFaults[q]
      BY <2>0, FaultCounts DEF FaultKind
    <2> QED  BY <1>7, <2>9 DEF PingFails
  <1>8. CASE Stop(r)
    <2>0. Fault("stop") \/ UNCHANGED faults
      BY <1>8 DEF Stop
    <2>9. faults' \in [FaultKind -> Nat] /\ \A q \in FaultKind : faults'[q] <= MaxFaults[q]
      BY <2>0, FaultCounts DEF FaultKind
    <2> QED  BY <1>8, <2>9 DEF Stop
  <1>9. CASE Boot(r)
    BY <1>9 DEF Boot
  <1> QED
    BY <1>1, <1>2, <1>3, <1>4, <1>5, <1>6, <1>7, <1>8, <1>9 DEF RunnerStep

\* So do the loss of a session and the clock.
LEMMA ClockTypes == ASSUME TypeOK, SessionLost \/ Tick PROVE TypeOK'
  <1> USE SchedulerAssumption DEF TypeOK, table, runners
  <1>1. CASE SessionLost
    <2>1. faults' \in [FaultKind -> Nat] /\ \A q \in FaultKind : faults'[q] <= MaxFaults[q]
      <3>1. Fault("session")
        BY <1>1 DEF SessionLost
      <3> QED  BY <3>1, FaultCounts DEF FaultKind
    <2> QED  BY <1>1, <2>1 DEF SessionLost
  <1>2. CASE Tick
    <2>1. now' \in Clock /\ now <= now' /\ now \in Nat /\ now' \in Nat
      BY <1>2 DEF Tick, Clock
    <2>2. \A r \in Replica : \A x \in todo[r] : x.at \in Nat
      BY DEF Item, Clock
    <2>3. \A r \in Replica : \A x \in todo'[r] : x.next <= x.at /\ x.at <= now'
      BY <1>2, <2>1, <2>2 DEF Tick
    <2> QED  BY <1>2, <2>1, <2>3 DEF Tick
  <1> QED  BY <1>1, <1>2

\* So every step does.
LEMMA NextTypes == ASSUME TypeOK, [Next]_vars PROVE TypeOK'
  <1>1. CASE UNCHANGED vars
    BY <1>1 DEF vars, table, runners, TypeOK
  <1>2. ASSUME NEW s \in Schedule, NEW c \in Cron, NEW en \in {"enabled", "disabled"},
               CreateSchedule(s, c, en) \/ BeginUpdate(s, c, en)
        PROVE  TypeOK'
    BY <1>2, HandlerTypes
  <1>3. ASSUME NEW s \in Schedule, FinishUpdate(s) \/ DeleteSchedule(s) PROVE TypeOK'
    <2>1. PICK c \in Cron : TRUE
      BY SchedulerAssumption
    <2> QED  BY <1>3, <2>1, HandlerTypes
  <1>4. ASSUME NEW r \in Replica, RunnerStep(r) \/ FireFails(r) \/ Stop(r) \/ Boot(r)
        PROVE  TypeOK'
    BY <1>4, RunnerTypes
  <1>5. CASE SessionLost \/ Tick
    BY <1>5, ClockTypes
  <1> QED  BY <1>1, <1>2, <1>3, <1>4, <1>5 DEF Next

\* Faults and edits are only ever used up.
LEMMA BudgetsShrink ==
    ASSUME TypeOK, [Next]_vars
    PROVE  /\ \A k \in FaultKind : faults'[k] <= faults[k]
           /\ edits' <= edits
  <1>1. \A k \in FaultKind : faults'[k] <= faults[k]
    <2>1. UNCHANGED faults \/ \E k \in FaultKind : Fault(k)
      BY DEF Next, vars, RunnerStep, CreateSchedule, BeginUpdate, FinishUpdate, DeleteSchedule,
          TryLock, DueBefore, FireEnqueues, FireFails, MarkFired, PingSucceeds, PingFails, Stop,
          Boot, SessionLost, Tick, FaultKind
    <2>2. \A k \in FaultKind : faults[k] \in Nat
      BY DEF TypeOK
    <2>3. CASE UNCHANGED faults
      BY <2>2, <2>3
    <2>4. ASSUME NEW k \in FaultKind, Fault(k) PROVE \A q \in FaultKind : faults'[q] <= faults[q]
      BY <2>2, <2>4 DEF Fault, TypeOK
    <2> QED  BY <2>1, <2>3, <2>4
  <1>2. edits' <= edits
    <2>1. UNCHANGED edits \/ edits' = edits - 1
      BY DEF Next, vars, RunnerStep, CreateSchedule, BeginUpdate, FinishUpdate, DeleteSchedule,
          TryLock, DueBefore, FireEnqueues, FireFails, MarkFired, PingSucceeds, PingFails, Stop,
          Boot, SessionLost, Tick
    <2> QED  BY <2>1, SchedulerAssumption DEF TypeOK
  <1> QED  BY <1>1, <1>2

\* One replica leads at a time, while no session drops.
LEMMA NextKeepsDriver ==
    ASSUME TypeOK, SingleDriver, [Next]_vars
    PROVE  SingleDriver'
  <1> DEFINE Held == \A r \in Replica : pc[r] \in Leading <=> lock = r
  <1> SUFFICES ASSUME FaultsUsed("session")' = 0 PROVE Held'
    BY DEF SingleDriver
  <1>1. faults'["session"] = faults["session"] /\ FaultsUsed("session") = 0
    <2>1. /\ MaxFaults["session"] \in Nat /\ faults["session"] \in Nat
          /\ faults["session"] <= MaxFaults["session"]
      BY SchedulerAssumption DEF TypeOK, FaultKind
    <2>2. faults'["session"] \in Nat /\ faults'["session"] <= faults["session"]
      BY NextTypes, BudgetsShrink DEF TypeOK, FaultKind
    <2>3. MaxFaults["session"] - faults'["session"] = 0
      BY DEF FaultsUsed
    <2> QED  BY <2>1, <2>2, <2>3 DEF FaultsUsed
  <1>2. Held
    BY <1>1 DEF SingleDriver
  <1> HIDE DEF Held
  <1>3. ~SessionLost
    BY <1>1 DEF SessionLost, Fault, TypeOK, FaultKind
  <1>4. ASSUME UNCHANGED <<lock, pc>> PROVE Held'
    BY <1>2, <1>4 DEF Held
  <1>5. ASSUME NEW r \in Replica,
               \/ RunnerStep(r)
               \/ FireFails(r) \/ Stop(r) \/ Boot(r)
        PROVE  Held'
    <2> USE <1>2, SchedulerAssumption DEF Held, TypeOK, Leading, Goto, Point
    <2>1. CASE TryLock(r)
      BY <2>1 DEF TryLock
    <2>2. CASE DueBefore(r)
      BY <2>2 DEF DueBefore, NextItem
    <2>3. CASE FireEnqueues(r) \/ FireFails(r)
      BY <2>3 DEF FireEnqueues, FireFails, NextItem
    <2>4. CASE MarkFired(r)
      BY <2>4 DEF MarkFired, NextItem
    <2>5. CASE PingSucceeds(r)
      BY <2>5 DEF PingSucceeds
    <2>6. CASE PingFails(r)
      <3>1. lock = r
        BY <2>6 DEF PingFails
      <3>2. lock' = NoReplica /\ pc' = [pc EXCEPT ![r] = "seek"]
        BY <2>6, <3>1 DEF PingFails
      <3> QED  BY <3>1, <3>2
    <2>7. CASE Stop(r) \/ Boot(r)
      BY <2>7 DEF Stop, Boot
    <2> QED  BY <1>5, <2>1, <2>2, <2>3, <2>4, <2>5, <2>6, <2>7 DEF RunnerStep
  <1> QED
    BY <1>3, <1>4, <1>5 DEF Next, vars, runners, CreateSchedule, BeginUpdate, FinishUpdate,
        DeleteSchedule, Tick

\* The quiet part.  A quiet step uses no fault and no edit, so the leader finds
\* every row as it read it; MarkFired moves next_run_at past the firing that was
\* just enqueued.
LEMMA QuietStep ==
    ASSUME TypeOK, [Next]_vars, Quiet'
    PROVE  Quiet /\ UNCHANGED <<edits, faults>>
  <1>0. (\A k \in FaultKind : faults'[k] <= faults[k]) /\ edits' <= edits
    BY BudgetsShrink
  <1>1. ASSUME NEW k \in FaultKind PROVE faults[k] = MaxFaults[k]
    <2>1. faults[k] \in Nat /\ MaxFaults[k] \in Nat /\ faults[k] <= MaxFaults[k]
      BY SchedulerAssumption DEF TypeOK
    <2>2. MaxFaults[k] <= faults[k]
      BY <1>0 DEF Quiet
    <2> QED  BY <2>1, <2>2
  <1>2. edits = MaxEdits
    BY <1>0, SchedulerAssumption DEF TypeOK, Quiet
  <1>3. faults = MaxFaults
    BY <1>1, SchedulerAssumption DEF TypeOK
  <1> QED  BY <1>2, <1>3 DEF Quiet

\* Creating and deleting rows leaves what a tick has read alone.
LEMMA HandlersKeepTidy ==
    ASSUME IInv, Quiet, Tidy, Unfired, UNCHANGED <<edits, faults>>, TypeOK',
           NEW s \in Schedule, NEW c \in Cron, NEW en \in {"enabled", "disabled"},
           CreateSchedule(s, c, en) \/ BeginUpdate(s, c, en) \/ FinishUpdate(s)
              \/ DeleteSchedule(s)
    PROVE  Tidy' /\ Unfired' /\ AtMostOnce'
  <1> USE DEF IInv, table, runners
  <1>1. CASE CreateSchedule(s, c, en)
    <2>1. \A r \in Replica : /\ \A x \in todo[r] : x.s # s
                             /\ pc[r] = "mark" => cur[r].s # s
      BY <1>1 DEF CreateSchedule, Tidy
    <2>2. \A t \in Clock : jobs[s][t] = 0
      BY <1>1, <2>1 DEF CreateSchedule, Tidy, Unfired, Enqueued, Clock
    <2>3. Tidy'
      BY <1>1, <2>1 DEF CreateSchedule, Tidy, TypeOK, Item
    <2>4. Unfired'
      BY <1>1, <2>2 DEF CreateSchedule, Unfired, Enqueued, TypeOK
    <2> QED  BY <1>1, <2>3, <2>4 DEF CreateSchedule, AtMostOnce, Quiet
  <1>2. CASE BeginUpdate(s, c, en)
    BY <1>2, SchedulerAssumption DEF BeginUpdate, TypeOK
  <1>3. CASE FinishUpdate(s)
    BY <1>3 DEF FinishUpdate, Tidy
  <1>4. CASE DeleteSchedule(s)
    <2>1. Tidy'
      BY <1>4 DEF DeleteSchedule, Tidy, TypeOK, Item
    <2>2. Unfired'
      BY <1>4 DEF DeleteSchedule, Unfired, Enqueued, TypeOK
    <2> QED  BY <1>4, <2>1, <2>2 DEF DeleteSchedule, AtMostOnce, Quiet
  <1> QED  BY <1>1, <1>2, <1>3, <1>4

\* The tick of the leader: nobody else fires or marks meanwhile.
LEMMA RunnersKeepTidy ==
    ASSUME IInv, Quiet, Tidy, Unfired, UNCHANGED <<edits, faults>>, TypeOK',
           NEW r \in Replica, RunnerStep(r) \/ FireFails(r) \/ Stop(r) \/ Boot(r)
    PROVE  Tidy' /\ Unfired' /\ AtMostOnce'
  <1>7. TypeOK /\ AtMostOnce
    BY DEF IInv
  <1>8. /\ \A q \in Replica : pc[q] \in Leading <=> lock = q
        /\ \A q \in Replica : pc[q] \in Leading /\ pc[r] \in Leading => q = r
    BY SchedulerAssumption DEF IInv, SingleDriver, Quiet, FaultsUsed, FaultKind
  <1>9. \A k \in FaultKind : ~Fault(k)
    BY <1>7 DEF Fault, TypeOK
  <1>1. CASE TryLock(r) \/ PingSucceeds(r) \/ PingFails(r) \/ Boot(r)
    <2>1. /\ UNCHANGED <<row, next, edit, todo, cur, jobs>>
          /\ pc[r] \notin {"fire", "mark"}
          /\ pc' \in {[pc EXCEPT ![r] = "due"], [pc EXCEPT ![r] = "seek"]}
      BY <1>1 DEF TryLock, PingSucceeds, PingFails, Boot, table, Goto
    <2>2. Tidy'
      BY <1>7, <2>1 DEF Tidy, TypeOK
    <2>3. Unfired'
      BY <1>7, <2>1 DEF Unfired, Enqueued, TypeOK
    <2> QED  BY <1>7, <2>1, <2>2, <2>3 DEF AtMostOnce, Quiet
  <1>2. CASE Stop(r) \/ FireFails(r)
    BY <1>2, <1>9 DEF Stop, FireFails, FaultKind
  <1>3. CASE DueBefore(r)
    <2>1. NextItem(r, DueRows(now)) /\ UNCHANGED <<row, next, edit, cur, jobs>>
      BY <1>3, <1>9 DEF DueBefore, FaultKind, table
    <2>2. \A q \in Replica : pc[q] # "mark" /\ (q # r => todo[q] = {})
      BY <1>3, <1>8 DEF DueBefore, Leading, Tidy
    <2>3. \A x \in DueRows(now) :
             /\ x \in Item /\ row[x.s] = "enabled" /\ x.next = next[x.s] /\ x.next \in Clock
      <3>1. \A x \in DueRows(now) :
               /\ x \in Item
               /\ x.next <= x.at /\ x.at <= now
               /\ row[x.s] = "enabled" /\ x.next = next[x.s]
        BY <1>7, DueRowsAreItems
      <3>2. ASSUME NEW x \in Item, x.next <= x.at PROVE x.next \in Clock
        BY <3>2, SchedulerAssumption DEF Item, Clock
      <3> QED  BY <3>1, <3>2
    <2>4. \A x \in DueRows(now) : jobs[x.s][x.next] = 0
      <3> SUFFICES ASSUME NEW x \in DueRows(now) PROVE jobs[x.s][x.next] = 0
        OBVIOUS
      <3>1. /\ x.s \in Schedule /\ row[x.s] # "deleted"
            /\ x.next \in Clock /\ x.next >= next[x.s]
        BY <2>3, SchedulerAssumption DEF Item, Clock
      <3> QED  BY <2>2, <3>1 DEF Unfired, Enqueued
    <2>5. \A x, y \in DueRows(now) : x.s = y.s => x = y
      BY DEF DueRows
    <2>6. /\ todo'[r] = DueRows(now) /\ pc'[r] = (IF DueRows(now) = {} THEN "idle" ELSE "fire")
          /\ \A q \in Replica \ {r} : todo'[q] = todo[q] /\ pc'[q] = pc[q]
      BY <1>7, <2>1, <2>3, NextItemMoves
    <2>7. Tidy'
      BY <2>1, <2>2, <2>3, <2>4, <2>5, <2>6 DEF Tidy
    <2>8. Unfired'
      BY <2>1, <2>2 DEF Unfired, Enqueued
    <2> QED  BY <1>7, <2>1, <2>7, <2>8 DEF AtMostOnce, Quiet
  <1>4. CASE FireEnqueues(r)
    <2>1. PICK x \in todo[r] : /\ Enqueue(x)
                               /\ cur' = [cur EXCEPT ![r] = x]
                               /\ todo' = [todo EXCEPT ![r] = @ \ {x}]
      BY <1>4 DEF FireEnqueues, First
    <2>2. /\ pc[r] = "fire" /\ pc' = [pc EXCEPT ![r] = "mark"]
          /\ UNCHANGED <<row, next, edit>>
      BY <1>4 DEF FireEnqueues, Goto, table
    <2>3. \A q \in Replica : pc[q] # "mark" /\ (q # r => todo[q] = {})
      BY <2>2, <1>8 DEF Leading, Tidy
    <2>4. /\ x \in Item /\ x.s \in Schedule /\ x.next \in Clock
          /\ row[x.s] # "absent" /\ x.next = next[x.s] /\ jobs[x.s][x.next] = 0
      BY <1>7, SchedulerAssumption DEF Tidy, TypeOK, Item, Clock
    <2>5. /\ jobs'[x.s][x.next] = 1
          /\ \A z \in Schedule : \A t \in Clock :
                z # x.s \/ t # x.next => jobs'[z][t] = jobs[z][t]
      BY <1>7, <2>1, <2>4 DEF Enqueue, TypeOK
    <2>6. /\ cur'[r] = x /\ pc'[r] = "mark" /\ todo'[r] = todo[r] \ {x}
          /\ \A q \in Replica \ {r} : todo'[q] = todo[q] /\ pc'[q] = pc[q]
      BY <1>7, <2>1, <2>2 DEF TypeOK
    <2>7. \A y \in todo[r] \ {x} : /\ y.s # x.s /\ y.s \in Schedule /\ y.next \in Clock
                                  /\ jobs'[y.s][y.next] = jobs[y.s][y.next]
      <3> SUFFICES ASSUME NEW y \in todo[r] \ {x}
                   PROVE  /\ y.s # x.s /\ y.s \in Schedule /\ y.next \in Clock
                          /\ jobs'[y.s][y.next] = jobs[y.s][y.next]
        OBVIOUS
      <3>1. y.s # x.s
        BY DEF Tidy
      <3>2. y \in Item /\ y.next <= y.at
        BY <1>7 DEF TypeOK
      <3>3. y.s \in Schedule /\ y.next \in Clock
        BY <3>2, SchedulerAssumption DEF Item, Clock
      <3> QED  BY <2>5, <3>1, <3>3
    <2>8. Tidy'
      BY <2>2, <2>3, <2>4, <2>6, <2>7 DEF Tidy
    <2>9. Unfired'
      BY <2>2, <2>3, <2>5, <2>6 DEF Unfired, Enqueued
    <2>10. AtMostOnce'
      BY <1>7, <2>4, <2>5 DEF AtMostOnce, Quiet
    <2> QED  BY <2>8, <2>9, <2>10
  <1>5. CASE MarkFired(r)
    <2> DEFINE x == cur[r]
    <2>1. /\ next' = [next EXCEPT ![x.s] = IF row[x.s] = "deleted" THEN @
                                           ELSE NextAfter[x.cron][x.at]]
          /\ NextItem(r, todo[r]) /\ UNCHANGED <<row, edit, jobs>> /\ pc[r] = "mark"
          /\ cur' = [cur EXCEPT ![r] = NoItem]
      BY <1>5, <1>9 DEF MarkFired, FaultKind
    <2>2. /\ x \in Item /\ x.s \in Schedule /\ x.next <= x.at /\ x.next = next[x.s]
          /\ \A y \in todo[r] : y.s # x.s /\ y.s \in Schedule
          /\ row[x.s] # "absent"
      BY <1>7, <2>1 DEF Tidy, TypeOK, Item
    <2>3. NextAfter[x.cron][x.at] > x.next /\ NextAfter[x.cron][x.at] \in Nat /\ x.next \in Nat
      <3>1. x.cron \in Cron /\ x.at \in Clock /\ x.next \in Nat
        BY <2>2 DEF Item
      <3>2. NextAfter[x.cron][x.at] > x.at
        BY <3>1, NextIsLater
      <3>3. NextAfter[x.cron][x.at] \in Nat /\ x.at \in Nat
        BY <3>1, SchedulerAssumption DEF Clock
      <3> QED  BY <2>2, <3>1, <3>2, <3>3
    <2> HIDE DEF x
    <2>4. /\ row[x.s] # "deleted" => next'[x.s] > x.next /\ next'[x.s] \in Nat
          /\ row[x.s] = "deleted" => next'[x.s] = next[x.s]
          /\ \A z \in Schedule : z # x.s => next'[z] = next[z]
      BY <1>7, <2>1, <2>2, <2>3 DEF TypeOK
    <2>5. \A q \in Replica : q # r => pc[q] # "mark" /\ todo[q] = {}
      BY <2>1, <1>8 DEF Leading, Tidy
    <2>6. /\ todo'[r] = todo[r] /\ pc'[r] = (IF todo[r] = {} THEN "idle" ELSE "fire")
          /\ \A q \in Replica \ {r} : todo'[q] = todo[q] /\ pc'[q] = pc[q]
      <3>1. todo[r] \in SUBSET Item
        BY <1>7 DEF TypeOK
      <3> QED  BY <1>7, <2>1, <3>1, NextItemMoves
    <2>7. Tidy'
      BY <2>1, <2>2, <2>4, <2>5, <2>6 DEF Tidy
    <2>8. Unfired'
      <3> SUFFICES ASSUME NEW z \in Schedule, row[z] # "deleted",
                          NEW t \in Clock, t >= next'[z]
                   PROVE  jobs[z][t] = 0
        BY <2>1 DEF Unfired
      <3>1. next[z] \in Nat /\ t \in Nat
        BY <1>7 DEF TypeOK, Clock
      <3>2. CASE z = x.s
        BY <2>2, <2>3, <2>4, <2>5, <3>1, <3>2 DEF Unfired, Enqueued, x
      <3>3. CASE z # x.s
        BY <2>4, <2>5, <3>3 DEF Unfired, Enqueued, x
      <3> QED  BY <3>2, <3>3
    <2> QED  BY <1>7, <2>1, <2>7, <2>8 DEF AtMostOnce, Quiet
  <1> QED  BY <1>1, <1>2, <1>3, <1>4, <1>5 DEF RunnerStep

\* Every step keeps the inductive invariant.
LEMMA NextPreserves == IInv /\ [Next]_vars => IInv'
  <1> SUFFICES ASSUME IInv, [Next]_vars PROVE IInv'  OBVIOUS
  <1>1. TypeOK' /\ SingleDriver'
    BY NextTypes, NextKeepsDriver DEF IInv
  <1>2. ASSUME Quiet' PROVE Tidy' /\ Unfired' /\ AtMostOnce'
    <2>1. Quiet /\ UNCHANGED <<edits, faults>> /\ Tidy /\ Unfired /\ AtMostOnce
      BY <1>2, QuietStep DEF IInv
    <2>2. ASSUME NEW s \in Schedule, NEW c \in Cron, NEW en \in {"enabled", "disabled"},
                 CreateSchedule(s, c, en) \/ BeginUpdate(s, c, en)
          PROVE  Tidy' /\ Unfired' /\ AtMostOnce'
      BY <1>1, <2>1, <2>2, HandlersKeepTidy
    <2>3. ASSUME NEW s \in Schedule, FinishUpdate(s) \/ DeleteSchedule(s)
          PROVE  Tidy' /\ Unfired' /\ AtMostOnce'
      <3>1. PICK c \in Cron : TRUE
        BY SchedulerAssumption
      <3> QED  BY <1>1, <2>1, <2>3, <3>1, HandlersKeepTidy
    <2>4. ASSUME NEW r \in Replica, RunnerStep(r) \/ FireFails(r) \/ Stop(r) \/ Boot(r)
          PROVE  Tidy' /\ Unfired' /\ AtMostOnce'
      BY <1>1, <2>1, <2>4, RunnersKeepTidy
    <2>5. CASE SessionLost
      BY <2>1, <2>5 DEF SessionLost, Fault, FaultKind, IInv, TypeOK
    <2>6. CASE Tick \/ UNCHANGED vars
      <3>1. UNCHANGED <<row, next, edit, pc, todo, cur, jobs>>
        BY <2>6 DEF Tick, vars, table, runners
      <3> QED  BY <2>1, <3>1 DEF Tidy, Unfired, Enqueued, AtMostOnce, Quiet
    <2> QED  BY <2>2, <2>3, <2>4, <2>5, <2>6 DEF Next
  <1> QED  BY <1>1, <1>2 DEF IInv, AtMostOnce

\* The inductive invariant holds throughout.
THEOREM Invariance == Spec => []IInv
  BY InitEstablishes, NextPreserves, PTL DEF Spec

\* The schedules table, the runners and the queue's counts are well typed.
THEOREM TypeCorrect == Spec => []TypeOK
  <1>1. IInv => TypeOK  BY DEF IInv
  <1> QED  BY <1>1, Invariance, PTL

\* While no lock session drops, a single replica drives the loop, however many
\* replicas there are and whatever else fails.
THEOREM OneDriver == Spec => []SingleDriver
  <1>1. IInv => SingleDriver  BY DEF IInv
  <1> QED  BY <1>1, Invariance, PTL

\* Without faults and edits no firing is enqueued twice, for any schedules and
\* any cron expressions whose next firing is later than now.
THEOREM FiredAtMostOnce == Spec => []AtMostOnce
  <1>1. IInv => AtMostOnce  BY DEF IInv
  <1> QED  BY <1>1, Invariance, PTL

\* One driver, for any number of schedules, replicas, edits and faults.
THEOREM LeaderInvariant == Spec => []LeaderInv
  BY TypeCorrect, OneDriver, PTL DEF LeaderInv

-----------------------------------------------------------------------------
(* The bound on duplicates.                                                *)

\* What is true of a tick at all times: rows read exist, one item per row.
Orderly ==
    /\ \A s \in Schedule : edit[s] # NoEdit => row[s] # "absent"
    /\ \A r \in Replica :
          /\ pc[r] \notin {"fire", "mark"} => todo[r] = {}
          /\ \A x \in todo[r] : row[x.s] # "absent"
          /\ \A x, y \in todo[r] : x.s = y.s => x = y
          /\ pc[r] = "mark" => /\ row[cur[r].s] # "absent"
                               /\ \A x \in todo[r] : x.s # cur[r].s

\* The runner r has read s: it will enqueue the firing t, or its MarkFired will
\* leave next_run_at at or before t.
Reload(x, t) == NextAfter[x.cron][x.at] <= t
Busy(r, s) == (\E x \in todo[r] : x.s = s) \/ (pc[r] = "mark" /\ cur[r].s = s)
Carries(r, s, t) ==
    \/ \E x \in todo[r] : x.s = s /\ (x.next = t \/ Reload(x, t))
    \/ pc[r] = "mark" /\ cur[r].s = s /\ Reload(cur[r], t)

\* The row may come to its firing t: it is not created yet, or not beyond t.
RowMay(s, t) == row[s] = "absent" \/ (row[s] # "deleted" /\ next[s] <= t)

\* The firings of t that may follow without another fault or edit.  One comes
\* from the row, or from the leader that is about to overwrite next_run_at; one
\* from a pending edit; one from each runner whose session dropped.
LineMay(s, t) ==
    IF lock \in Replica /\ Busy(lock, s) THEN Carries(lock, s, t) ELSE RowMay(s, t)
EditMay(s, t) == edit[s] # NoEdit /\ edit[s].next <= t
Strays(s, t) == {r \in Replica \ {lock} : pc[r] = "due" \/ Carries(r, s, t)}

Bit(b) == IF b THEN 1 ELSE 0

Spent == FaultsUsed("stop") + FaultsUsed("session") + FaultsUsed("db") + (MaxEdits - edits)

Budgeted ==
    \A s \in Schedule : \A t \in Clock :
        jobs[s][t] + Bit(LineMay(s, t)) + Bit(EditMay(s, t)) + Cardinality(Strays(s, t))
            <= 1 + Spent

\* What one runner's step leaves of the others.
Alone(r) ==
    \A q \in Replica \ {r} : pc'[q] = pc[q] /\ todo'[q] = todo[q] /\ cur'[q] = cur[q]

\* A tick keeps the rows it read apart, and a row once created never becomes
\* absent again.
LEMMA HandlersKeepOrder ==
    ASSUME TypeOK, Orderly, NEW s \in Schedule, NEW c \in Cron, NEW en \in {"enabled", "disabled"},
           CreateSchedule(s, c, en) \/ BeginUpdate(s, c, en) \/ FinishUpdate(s)
              \/ DeleteSchedule(s)
    PROVE  Orderly'
  <1>1. UNCHANGED <<pc, todo, cur>>
    BY DEF CreateSchedule, BeginUpdate, FinishUpdate, DeleteSchedule, runners
  <1>2. \A z \in Schedule : row[z] # "absent" => row'[z] # "absent"
    <2>1. CASE CreateSchedule(s, c, en) \/ BeginUpdate(s, c, en) \/ DeleteSchedule(s)
      BY <2>1 DEF CreateSchedule, BeginUpdate, DeleteSchedule, TypeOK, table
    <2>2. CASE FinishUpdate(s)
      <3>1. edit[s].row \in {"enabled", "disabled"}
        BY <2>2 DEF FinishUpdate, TypeOK, Edit
      <3> QED  BY <2>2, <3>1 DEF FinishUpdate, TypeOK, table
    <2> QED  BY <2>1, <2>2
  <1>3. \A z \in Schedule : edit'[z] # NoEdit => edit[z] # NoEdit \/ row[z] # "absent"
    BY DEF CreateSchedule, BeginUpdate, FinishUpdate, DeleteSchedule, TypeOK
  <1>4. \A r \in Replica : /\ \A x \in todo[r] : x.s \in Schedule
                           /\ pc[r] = "mark" => cur[r].s \in Schedule
    BY DEF TypeOK, Item
  <1> QED  BY <1>1, <1>2, <1>3, <1>4 DEF Orderly

\* So do the runners.
LEMMA RunnersKeepOrder ==
    ASSUME TypeOK, Orderly, NEW r \in Replica,
           RunnerStep(r) \/ FireFails(r) \/ Stop(r) \/ Boot(r)
    PROVE  Orderly' /\ Alone(r) /\ UNCHANGED <<row, edit>>
  <1> USE DEF table
  <1>0. UNCHANGED <<row, edit>>
    BY DEF RunnerStep, TryLock, DueBefore, FireEnqueues, FireFails, MarkFired, PingSucceeds,
           PingFails, Stop, Boot
  <1>1. Alone(r)
    BY DEF RunnerStep, TryLock, DueBefore, FireEnqueues, FireFails, MarkFired, PingSucceeds,
           PingFails, Stop, Boot, Alone, NextItem, Goto, TypeOK
  <1>2. SUFFICES /\ pc'[r] \notin {"fire", "mark"} => todo'[r] = {}
                 /\ \A x \in todo'[r] : row[x.s] # "absent"
                 /\ \A x, y \in todo'[r] : x.s = y.s => x = y
                 /\ pc'[r] = "mark" => /\ row[cur'[r].s] # "absent"
                                       /\ \A x \in todo'[r] : x.s # cur'[r].s
    BY <1>0, <1>1 DEF Orderly, Alone
  <1>3. CASE TryLock(r) \/ PingSucceeds(r) \/ PingFails(r) \/ Stop(r) \/ Boot(r)
    BY <1>3 DEF TryLock, PingSucceeds, PingFails, Stop, Boot, Goto, Orderly, TypeOK
  <1>4. CASE DueBefore(r)
    <2>1. CASE NextItem(r, DueRows(now))
      <3>1. DueRows(now) \in SUBSET Item /\ \A x \in DueRows(now) : row[x.s] # "absent"
        BY DueRowsAreItems
      <3>2. \A x, y \in DueRows(now) : x.s = y.s => x = y
        BY DEF DueRows
      <3>3. todo'[r] = DueRows(now) /\ pc'[r] = (IF DueRows(now) = {} THEN "idle" ELSE "fire")
        BY <2>1, <3>1, NextItemMoves
      <3> QED  BY <3>1, <3>2, <3>3
    <2>2. CASE Goto(r, "idle") /\ UNCHANGED todo
      BY <1>4, <2>2 DEF DueBefore, Goto, Orderly, TypeOK
    <2> QED  BY <1>4, <2>1, <2>2 DEF DueBefore
  <1>5. CASE FireEnqueues(r)
    <2>1. PICK x \in todo[r] : /\ cur' = [cur EXCEPT ![r] = x]
                               /\ todo' = [todo EXCEPT ![r] = @ \ {x}]
      BY <1>5 DEF FireEnqueues, First
    <2>2. pc'[r] = "mark" /\ cur'[r] = x /\ todo'[r] = todo[r] \ {x}
      BY <1>5, <2>1 DEF FireEnqueues, Goto, TypeOK
    <2> QED  BY <2>2 DEF Orderly
  <1>6. CASE FireFails(r) \/ MarkFired(r)
    <2>1. PICK rest \in SUBSET todo[r] : NextItem(r, rest)
      BY <1>6 DEF FireFails, MarkFired, First
    <2>2. todo'[r] = rest /\ pc'[r] = (IF rest = {} THEN "idle" ELSE "fire")
      BY <2>1, NextItemMoves DEF TypeOK
    <2> QED  BY <2>2 DEF Orderly
  <1> QED  BY <1>3, <1>4, <1>5, <1>6 DEF RunnerStep

\* How a count of runners moves.
LEMMA CountMoves ==
    ASSUME NEW A \in SUBSET Replica, NEW B \in SUBSET Replica, NEW r \in Replica
    PROVE  /\ Cardinality(A) \in Nat /\ Cardinality(B) \in Nat
           /\ B \subseteq A => Cardinality(B) <= Cardinality(A)
           /\ B \subseteq A \ {r} /\ r \in A => Cardinality(B) + 1 <= Cardinality(A)
           /\ B \subseteq A \cup {r} => Cardinality(B) <= Cardinality(A) + 1
  <1>1. IsFiniteSet(A) /\ IsFiniteSet(B)
    BY SchedulerAssumption, FS_Subset
  <1>2. Cardinality(A) \in Nat /\ Cardinality(B) \in Nat
    BY <1>1, FS_CardinalityType
  <1>3. ASSUME B \subseteq A PROVE Cardinality(B) <= Cardinality(A)
    BY <1>1, <1>3, FS_Subset
  <1>4. ASSUME B \subseteq A \ {r}, r \in A PROVE Cardinality(B) + 1 <= Cardinality(A)
    <2>1. IsFiniteSet(A \ {r}) /\ Cardinality(A \ {r}) = Cardinality(A) - 1
      BY <1>1, <1>4, FS_RemoveElement
    <2>2. Cardinality(B) <= Cardinality(A \ {r})
      BY <1>4, <2>1, FS_Subset
    <2> QED  BY <1>2, <2>1, <2>2
  <1>5. ASSUME B \subseteq A \cup {r} PROVE Cardinality(B) <= Cardinality(A) + 1
    <2>1. /\ IsFiniteSet(A \cup {r})
          /\ Cardinality(A \cup {r}) = Cardinality(A) \/ Cardinality(A \cup {r}) = Cardinality(A) + 1
      BY <1>1, FS_AddElement
    <2>2. Cardinality(B) <= Cardinality(A \cup {r})
      BY <1>5, <2>1, FS_Subset
    <2> QED  BY <1>2, <2>1, <2>2
  <1> QED  BY <1>2, <1>3, <1>4, <1>5

\* Every fault and every edit is paid for.
LEMMA Payment ==
    ASSUME TypeOK, TypeOK'
    PROVE  /\ Spent \in Nat /\ Spent' \in Nat
           /\ UNCHANGED <<faults, edits>> => Spent' = Spent
           /\ UNCHANGED faults /\ edits' = edits - 1 => Spent' = Spent + 1
           /\ \A k \in FaultKind : Fault(k) /\ UNCHANGED edits => Spent' = Spent + 1
  <1>1. \A k \in FaultKind : /\ faults[k] \in Nat /\ faults'[k] \in Nat /\ MaxFaults[k] \in Nat
                             /\ faults[k] <= MaxFaults[k] /\ faults'[k] <= MaxFaults[k]
    BY SchedulerAssumption DEF TypeOK
  <1>2. /\ edits \in Nat /\ edits' \in Nat /\ MaxEdits \in Nat /\ edits <= MaxEdits
        /\ edits' <= MaxEdits
    BY SchedulerAssumption DEF TypeOK
  <1>3. "stop" \in FaultKind /\ "session" \in FaultKind /\ "db" \in FaultKind
    BY DEF FaultKind
  <1>4. ASSUME NEW k \in FaultKind, Fault(k), UNCHANGED edits PROVE Spent' = Spent + 1
    <2>1. /\ faults'[k] = faults[k] - 1
          /\ \A q \in FaultKind \ {k} : faults'[q] = faults[q]
      BY <1>4 DEF Fault, TypeOK
    <2>2. k \in {"stop", "session", "db"}
      BY DEF FaultKind
    <2> QED  BY <1>1, <1>2, <1>3, <1>4, <2>1, <2>2 DEF Spent, FaultsUsed
  <1>5. Spent \in Nat /\ Spent' \in Nat
    BY <1>1, <1>2, <1>3 DEF Spent, FaultsUsed
  <1>6. UNCHANGED <<faults, edits>> => Spent' = Spent
    BY DEF Spent, FaultsUsed
  <1>7. UNCHANGED faults /\ edits' = edits - 1 => Spent' = Spent + 1
    BY <1>1, <1>2, <1>3 DEF Spent, FaultsUsed
  <1> QED  BY <1>4, <1>5, <1>6, <1>7

\* Firings of t of s so far, and those that may follow.
Firings(s, t) ==
    jobs[s][t] + Bit(LineMay(s, t)) + Bit(EditMay(s, t)) + Cardinality(Strays(s, t))

\* The parts of the count are counts.
LEMMA Counts ==
    ASSUME TypeOK, TypeOK', NEW s \in Schedule, NEW t \in Clock
    PROVE  /\ jobs[s][t] \in Nat /\ jobs'[s][t] \in Nat
           /\ Bit(LineMay(s, t)) \in {0, 1} /\ Bit(LineMay(s, t))' \in {0, 1}
           /\ Bit(EditMay(s, t)) \in {0, 1} /\ Bit(EditMay(s, t))' \in {0, 1}
           /\ Strays(s, t) \in SUBSET Replica /\ Strays(s, t)' \in SUBSET Replica
           /\ Cardinality(Strays(s, t)) \in Nat /\ Cardinality(Strays(s, t)') \in Nat
  <1>1. jobs[s][t] \in Nat /\ jobs'[s][t] \in Nat
    BY DEF TypeOK
  <1>2. Strays(s, t) \in SUBSET Replica /\ Strays(s, t)' \in SUBSET Replica
    BY DEF Strays
  <1>3. Cardinality(Strays(s, t)) \in Nat /\ Cardinality(Strays(s, t)') \in Nat
    BY <1>2, SchedulerAssumption, FS_Subset, FS_CardinalityType
  <1> QED  BY <1>1, <1>2, <1>3 DEF Bit

\* An operator's request adds a firing at most where it is paid for.
LEMMA HandlersPay ==
    ASSUME TypeOK, TypeOK', Orderly, NEW z \in Schedule, NEW c \in Cron,
           NEW en \in {"enabled", "disabled"},
           CreateSchedule(z, c, en) \/ BeginUpdate(z, c, en) \/ FinishUpdate(z)
              \/ DeleteSchedule(z),
           NEW s \in Schedule, NEW t \in Clock
    PROVE  Firings(s, t)' + Spent <= Firings(s, t) + Spent'
  <1> DEFINE L == LineMay(s, t)
             E == EditMay(s, t)
  <1>1. UNCHANGED <<lock, pc, todo, cur, jobs>>
    BY DEF CreateSchedule, BeginUpdate, FinishUpdate, DeleteSchedule, runners
  <1>2. /\ Strays(s, t)' = Strays(s, t)
        /\ \A r \in Replica : Busy(r, s)' = Busy(r, s) /\ Carries(r, s, t)' = Carries(r, s, t)
    BY <1>1 DEF Strays, Busy, Carries, Reload
  <1>3. /\ UNCHANGED <<faults, edits>> => Spent' = Spent
        /\ UNCHANGED faults /\ edits' = edits - 1 => Spent' = Spent + 1
        /\ Spent \in Nat /\ Spent' \in Nat
    BY Payment
  <1>4. s # z => /\ row'[s] = row[s] /\ next'[s] = next[s] /\ edit'[s] = edit[s]
    BY DEF CreateSchedule, BeginUpdate, FinishUpdate, DeleteSchedule, TypeOK, table
  <1>5. CASE CreateSchedule(z, c, en)
    <2>1. Spent' = Spent /\ edit' = edit
      BY <1>3, <1>5 DEF CreateSchedule
    <2>2. L' => L
      <3>1. CASE s = z
        <4>1. row[s] = "absent"
          BY <1>5, <3>1 DEF CreateSchedule
        <4>2. \A r \in Replica : ~Busy(r, s)
          BY <4>1 DEF Orderly, Busy
        <4> QED  BY <4>1, <4>2 DEF LineMay, RowMay
      <3>2. CASE s # z
        BY <1>1, <1>2, <1>4, <3>2 DEF LineMay, RowMay
      <3> QED  BY <3>1, <3>2
    <2>3. E' = E
      BY <2>1 DEF EditMay
    <2> HIDE DEF L, E
    <2> QED  BY <1>1, <1>2, <2>1, <2>2, <2>3, <1>3, Counts DEF Firings, Bit, L, E
  <1>6. CASE BeginUpdate(z, c, en)
    <2>1. Spent' = Spent + 1 /\ UNCHANGED <<row, next>>
      BY <1>3, <1>6 DEF BeginUpdate, table
    <2>2. L' = L
      BY <1>1, <1>2, <2>1 DEF LineMay, RowMay
    <2> QED  BY <1>1, <1>2, <2>1, <2>2, <1>3, Counts DEF Firings, Bit
  <1>7. CASE FinishUpdate(z)
    <2>1. Spent' = Spent
      BY <1>3, <1>7 DEF FinishUpdate
    <2>2. CASE s = z
      <3>1. ~E' /\ row[s] # "absent"
        BY <1>7, <2>2 DEF FinishUpdate, EditMay, TypeOK, Orderly
      <3>2. L' => L \/ E
        <4>1. RowMay(s, t)' => RowMay(s, t) \/ E
          <5>1. CASE row[s] = "deleted"
            BY <1>7, <2>2, <5>1 DEF FinishUpdate, RowMay, table
          <5>2. CASE row[s] # "deleted"
            <6>1. edit[s] \in Edit /\ row'[s] = edit[s].row /\ next'[s] = edit[s].next
              BY <1>7, <2>2, <5>2 DEF FinishUpdate, TypeOK
            <6> QED  BY <1>7, <2>2, <6>1 DEF RowMay, EditMay, Edit, FinishUpdate
          <5> QED  BY <5>1, <5>2
        <4> QED  BY <1>1, <1>2, <4>1 DEF LineMay
      <3> QED  BY <1>1, <1>2, <1>3, <2>1, <3>1, <3>2, Counts DEF Firings, Bit
    <2>3. CASE s # z
      <3>1. L' = L /\ E' = E
        BY <1>1, <1>2, <1>4, <2>3 DEF LineMay, RowMay, EditMay
      <3> QED  BY <1>1, <1>2, <1>3, <2>1, <3>1, Counts DEF Firings, Bit
    <2> QED  BY <2>2, <2>3
  <1>8. CASE DeleteSchedule(z)
    <2>1. Spent' = Spent /\ edit' = edit
      BY <1>3, <1>8 DEF DeleteSchedule
    <2>2. RowMay(s, t)' => RowMay(s, t)
      BY <1>8 DEF DeleteSchedule, RowMay, TypeOK
    <2>3. (L' => L) /\ E' = E
      BY <1>1, <1>2, <2>1, <2>2 DEF LineMay, EditMay
    <2> QED  BY <1>1, <1>2, <1>3, <2>1, <2>3, Counts DEF Firings, Bit
  <1> QED  BY <1>5, <1>6, <1>7, <1>8

\* What the step of r means for the other runners.
LEMMA OthersAsBefore ==
    ASSUME NEW r \in Replica, Alone(r), NEW s \in Schedule, NEW t \in Clock
    PROVE  /\ \A q \in Replica \ {r} : /\ Busy(q, s)' = Busy(q, s)
                                       /\ Carries(q, s, t)' = Carries(q, s, t)
           /\ UNCHANGED lock => Strays(s, t)' \ {r} = Strays(s, t) \ {r}
  BY DEF Alone, Busy, Carries, Reload, Strays

\* A runner that holds no row of s carries nothing of it.
LEMMA IdleCarriesNothing ==
    ASSUME NEW r \in Replica, NEW s \in Schedule, NEW t \in Clock, ~Busy(r, s)
    PROVE  ~Carries(r, s, t)
  BY DEF Busy, Carries

\* Coming to lead, pinging, ending and starting again.
LEMMA LeadersPay ==
    ASSUME TypeOK, TypeOK', Orderly, Orderly', NEW r \in Replica, Alone(r), UNCHANGED <<row, edit>>,
           TryLock(r) \/ PingSucceeds(r) \/ PingFails(r) \/ Stop(r) \/ Boot(r),
           NEW s \in Schedule, NEW t \in Clock
    PROVE  Firings(s, t)' + Spent <= Firings(s, t) + Spent'
  <1> DEFINE L == LineMay(s, t)
             Z == Strays(s, t)
  <1>1. UNCHANGED <<next, jobs, edits>>
    BY DEF TryLock, PingSucceeds, PingFails, Stop, Boot, table
  <1>2. EditMay(s, t)' = EditMay(s, t) /\ RowMay(s, t)' = RowMay(s, t)
    BY <1>1 DEF EditMay, RowMay
  <1>3. /\ \A q \in Replica \ {r} : /\ Busy(q, s)' = Busy(q, s)
                                    /\ Carries(q, s, t)' = Carries(q, s, t)
        /\ UNCHANGED lock => Z' \ {r} = Z \ {r}
    BY OthersAsBefore
  <1>4. ~Busy(r, s)' /\ ~Carries(r, s, t)' /\ pc'[r] \notin {"fire", "mark"}
    BY DEF TryLock, PingSucceeds, PingFails, Stop, Boot, Goto, TypeOK, Orderly, Busy, Carries
  <1>5. CASE Stop(r)
    <2>1. Spent' = Spent + 1
      BY <1>1, <1>5, Payment DEF Stop, FaultKind
    <2>2. pc'[r] = "down" /\ lock' = IF lock = r THEN NoReplica ELSE lock
      BY <1>5 DEF Stop, Goto, TypeOK
    <2>3. Z' \subseteq Z
      BY <1>4, <2>2, <1>3 DEF Strays, Alone
    <2>4. Cardinality(Z') <= Cardinality(Z)
      BY <2>3, Counts, CountMoves
    <2> QED  BY <1>1, <1>2, <2>1, <2>4, Counts, Payment DEF Firings, Bit
  <1>6. CASE TryLock(r) \/ PingSucceeds(r) \/ PingFails(r) \/ Boot(r)
    <2>1. ~Busy(r, s)
      BY <1>6 DEF TryLock, PingSucceeds, PingFails, Boot, Orderly, Busy
    <2>2. /\ Spent' = Spent \/ Spent' = Spent + 1
          /\ Spent \in Nat
      BY <1>1, <1>6, Payment DEF TryLock, PingSucceeds, PingFails, Boot, FaultKind
    <2>3. /\ lock' \in {lock, r} \/ (lock = r /\ lock' = NoReplica)
          /\ lock' = r => lock \in {r, NoReplica}
          /\ pc'[r] = "due" => lock' = r
      BY <1>6 DEF TryLock, PingSucceeds, PingFails, Boot, Goto, TypeOK
    <2>4. L' = L
      BY <1>2, <1>3, <1>4, <2>1, <2>3, SchedulerAssumption DEF LineMay
    <2>5. Z' \subseteq Z
      BY <1>3, <1>4, <2>3, SchedulerAssumption DEF Strays, Alone
    <2>6. Cardinality(Z') <= Cardinality(Z)
      BY <2>5, Counts, CountMoves
    <2> QED  BY <1>1, <1>2, <2>2, <2>4, <2>6, Counts DEF Firings, Bit
  <1> QED  BY <1>5, <1>6

\* Reading the due rows: what the leader takes over is what the row offered.
LEMMA DueBeforePays ==
    ASSUME TypeOK, TypeOK', Orderly, Orderly', NEW r \in Replica, Alone(r), UNCHANGED <<row, edit>>,
           DueBefore(r), NEW s \in Schedule, NEW t \in Clock
    PROVE  Firings(s, t)' + Spent <= Firings(s, t) + Spent'
  <1> DEFINE L == LineMay(s, t)
             Z == Strays(s, t)
  <1>1. UNCHANGED <<next, jobs, edits, lock>> /\ pc[r] = "due"
    BY DEF DueBefore, table
  <1>2. EditMay(s, t)' = EditMay(s, t) /\ RowMay(s, t)' = RowMay(s, t)
    BY <1>1 DEF EditMay, RowMay
  <1>3. /\ \A q \in Replica \ {r} : /\ Busy(q, s)' = Busy(q, s)
                                    /\ Carries(q, s, t)' = Carries(q, s, t)
        /\ Z' \ {r} = Z \ {r}
    BY <1>1, OthersAsBefore
  <1>4. /\ Spent' = Spent \/ Spent' = Spent + 1
        /\ Spent \in Nat
    BY <1>1, Payment DEF DueBefore, FaultKind
  <1>5. ~Busy(r, s)
    BY <1>1 DEF Orderly, Busy
  <1>6. Carries(r, s, t)' => RowMay(s, t)
    <2> SUFFICES ASSUME Carries(r, s, t)' PROVE RowMay(s, t)
      OBVIOUS
    <2>1. /\ pc'[r] # "mark"
          /\ todo'[r] \in {{}, DueRows(now)}
      <3>1. CASE NextItem(r, DueRows(now))
        <4>1. DueRows(now) \in SUBSET Item
          BY DueRowsAreItems
        <4> QED  BY <3>1, <4>1, NextItemMoves
      <3>2. CASE Goto(r, "idle") /\ UNCHANGED todo
        BY <1>1, <3>2 DEF Goto, Orderly, TypeOK
      <3> QED  BY <3>1, <3>2 DEF DueBefore
    <2>2. PICK x \in DueRows(now) : x.s = s /\ (x.next = t \/ Reload(x, t))
      BY <2>1 DEF Carries, Reload
    <2>3. /\ x \in Item /\ x.next <= x.at /\ row[s] = "enabled" /\ x.next = next[s]
      BY <2>2, DueRowsAreItems
    <2>4. NextAfter[x.cron][x.at] \in Nat /\ NextAfter[x.cron][x.at] > x.at
      BY <2>3, SchedulerAssumption, NextIsLater DEF Item
    <2>5. next[s] <= t
      BY <2>2, <2>3, <2>4 DEF Reload, Item, Clock
    <2> QED  BY <2>3, <2>5 DEF RowMay
  <1>7. L' => L
    BY <1>1, <1>2, <1>3, <1>5, <1>6 DEF LineMay
  <1>8. Z' \subseteq Z
    BY <1>1, <1>3 DEF Strays
  <1>9. Cardinality(Z') <= Cardinality(Z)
    BY <1>8, Counts, CountMoves
  <1> QED  BY <1>1, <1>2, <1>4, <1>7, <1>9, Counts DEF Firings, Bit

\* The item a firing runner takes up is all it holds of its row, and its
\* MarkFired will leave the firing behind.
LEMMA TakenItem ==
    ASSUME TypeOK, Orderly, NEW r \in Replica, pc[r] = "fire", NEW x \in todo[r], NEW t \in Clock
    PROVE  /\ x \in Item /\ x.s \in Schedule /\ x.next \in Clock
           /\ x.next = t => ~Reload(x, t)
           /\ Busy(r, x.s)
           /\ Carries(r, x.s, t) <=> x.next = t \/ Reload(x, t)
           /\ \A y \in todo[r] \ {x} : y.s # x.s
  <1>1. x \in Item /\ x.next <= x.at
    BY DEF TypeOK
  <1>2. x.s \in Schedule /\ x.next \in Clock /\ x.at \in Clock /\ x.cron \in Cron
    BY <1>1, SchedulerAssumption DEF Item, Clock
  <1>3. NextAfter[x.cron][x.at] \in Nat /\ NextAfter[x.cron][x.at] > x.at
    BY <1>2, SchedulerAssumption, NextIsLater
  <1>4. x.next = t => ~Reload(x, t)
    BY <1>1, <1>2, <1>3 DEF Reload, Clock
  <1>5. \A y \in todo[r] \ {x} : y.s # x.s
    BY DEF Orderly
  <1>6. Carries(r, x.s, t) <=> x.next = t \/ Reload(x, t)
    BY <1>5 DEF Carries
  <1> QED  BY <1>1, <1>2, <1>4, <1>5, <1>6 DEF Busy

\* The enqueue: the firing is counted instead of expected.
LEMMA FireEnqueuesPays ==
    ASSUME TypeOK, TypeOK', Orderly, Orderly', NEW r \in Replica, Alone(r), UNCHANGED <<row, edit>>,
           FireEnqueues(r), NEW s \in Schedule, NEW t \in Clock
    PROVE  Firings(s, t)' + Spent <= Firings(s, t) + Spent'
  <1> DEFINE L == LineMay(s, t)
             Z == Strays(s, t)
  <1>1. UNCHANGED <<next, edits, faults, lock>> /\ pc[r] = "fire"
    BY DEF FireEnqueues, table
  <1>2. EditMay(s, t)' = EditMay(s, t) /\ RowMay(s, t)' = RowMay(s, t)
    BY <1>1 DEF EditMay, RowMay
  <1>3. /\ \A q \in Replica \ {r} : /\ Busy(q, s)' = Busy(q, s)
                                    /\ Carries(q, s, t)' = Carries(q, s, t)
        /\ Z' \ {r} = Z \ {r}
    BY <1>1, OthersAsBefore
  <1>4. Spent' = Spent /\ Spent \in Nat
    BY <1>1, Payment
  <1>5. PICK x \in todo[r] : /\ Enqueue(x)
                             /\ cur' = [cur EXCEPT ![r] = x]
                             /\ todo' = [todo EXCEPT ![r] = @ \ {x}]
    BY DEF FireEnqueues, First
  <1>6. /\ x \in Item /\ x.s \in Schedule /\ x.next \in Clock
        /\ x.next = t => ~Reload(x, t)
        /\ Busy(r, x.s)
        /\ Carries(r, x.s, t) <=> x.next = t \/ Reload(x, t)
        /\ \A y \in todo[r] \ {x} : y.s # x.s
    BY <1>1, TakenItem
  <1>7. /\ pc'[r] = "mark" /\ cur'[r] = x /\ todo'[r] = todo[r] \ {x}
        /\ \A q \in Replica : q = r => pc'[q] # "due" /\ pc[q] # "due"
    BY <1>1, <1>5 DEF FireEnqueues, Goto, TypeOK
  <1>8. CASE s = x.s
    <2>1. Busy(r, s) /\ Busy(r, s)'
      BY <1>6, <1>7, <1>8 DEF Busy
    <2>2. Carries(r, s, t)' <=> Reload(x, t)
      BY <1>6, <1>7, <1>8 DEF Carries, Reload
    <2>3. jobs'[s][t] = jobs[s][t] + Bit(x.next = t)
      BY <1>5, <1>6, <1>8 DEF Enqueue, TypeOK, Bit
    <2>4. CASE lock = r
      <3>1. Z' = Z
        BY <1>1, <1>3, <2>4 DEF Strays
      <3>2. L = Carries(r, s, t) /\ L' = Carries(r, s, t)'
        BY <1>1, <2>1, <2>4 DEF LineMay
      <3> QED
        BY <1>2, <1>4, <1>6, <1>8, <2>2, <2>3, <3>1, <3>2, Counts DEF Firings, Bit
    <2>5. CASE lock # r
      <3>1. L' = L
        BY <1>1, <1>2, <1>3, <2>5 DEF LineMay
      <3>2. (r \in Z' <=> Carries(r, s, t)') /\ (r \in Z <=> Carries(r, s, t))
        BY <1>1, <1>7, <2>5 DEF Strays
      <3>3. CASE x.next = t
        <4>1. r \in Z /\ Z' \subseteq Z \ {r}
          BY <1>3, <1>6, <1>8, <2>2, <3>2, <3>3
        <4>2. Cardinality(Z') + 1 <= Cardinality(Z)
          BY <4>1, Counts, CountMoves
        <4> QED  BY <1>2, <1>4, <2>3, <3>1, <3>3, <4>2, Counts DEF Firings, Bit
      <3>4. CASE x.next # t
        <4>1. Z' \subseteq Z
          BY <1>3, <1>6, <1>8, <2>2, <3>2, <3>4
        <4>2. Cardinality(Z') <= Cardinality(Z)
          BY <4>1, Counts, CountMoves
        <4> QED  BY <1>2, <1>4, <2>3, <3>1, <3>4, <4>2, Counts DEF Firings, Bit
      <3> QED  BY <3>3, <3>4
    <2> QED  BY <2>4, <2>5
  <1>9. CASE s # x.s
    <2>1. Busy(r, s)' = Busy(r, s) /\ Carries(r, s, t)' = Carries(r, s, t)
      BY <1>1, <1>7, <1>9 DEF Busy, Carries, Reload
    <2>2. jobs'[s][t] = jobs[s][t]
      BY <1>5, <1>6, <1>9 DEF Enqueue, TypeOK
    <2>3. Z' = Z
      BY <1>1, <1>3, <1>7, <2>1 DEF Strays
    <2>4. L' = L
      BY <1>1, <1>2, <1>3, <2>1 DEF LineMay
    <2> QED  BY <1>2, <1>4, <2>2, <2>3, <2>4, Counts DEF Firings, Bit
  <1> QED  BY <1>8, <1>9

\* A failed enqueue may have counted the firing and leaves the row due.
LEMMA FireFailsPays ==
    ASSUME TypeOK, TypeOK', Orderly, Orderly', NEW r \in Replica, Alone(r), UNCHANGED <<row, edit>>,
           FireFails(r), NEW s \in Schedule, NEW t \in Clock
    PROVE  Firings(s, t)' + Spent <= Firings(s, t) + Spent'
  <1> DEFINE L == LineMay(s, t)
             Z == Strays(s, t)
  <1>1. UNCHANGED <<next, edits, lock>> /\ pc[r] = "fire" /\ Fault("db")
    BY DEF FireFails, table
  <1>2. EditMay(s, t)' = EditMay(s, t) /\ RowMay(s, t)' = RowMay(s, t)
    BY <1>1 DEF EditMay, RowMay
  <1>3. /\ \A q \in Replica \ {r} : /\ Busy(q, s)' = Busy(q, s)
                                    /\ Carries(q, s, t)' = Carries(q, s, t)
        /\ Z' \ {r} = Z \ {r}
    BY <1>1, OthersAsBefore
  <1>4. Spent' = Spent + 1 /\ Spent \in Nat
    BY <1>1, Payment DEF FaultKind
  <1>5. PICK x \in todo[r] : /\ Enqueue(x) \/ UNCHANGED jobs
                             /\ NextItem(r, todo[r] \ {x})
    BY DEF FireFails, First
  <1>6. /\ x \in Item /\ x.s \in Schedule /\ x.next \in Clock
        /\ Busy(r, x.s)
        /\ Carries(r, x.s, t) <=> x.next = t \/ Reload(x, t)
        /\ \A y \in todo[r] \ {x} : y.s # x.s
    BY <1>1, TakenItem
  <1>7. pc'[r] \in {"idle", "fire"} /\ todo'[r] = todo[r] \ {x}
    <2>1. todo[r] \ {x} \in SUBSET Item
      BY DEF TypeOK
    <2> QED  BY <1>5, <2>1, NextItemMoves
  <1>8. CASE s = x.s
    <2>1. ~Busy(r, s)' /\ ~Carries(r, s, t)'
      BY <1>6, <1>7, <1>8 DEF Busy, Carries
    <2>2. \/ jobs'[s][t] = jobs[s][t]
          \/ jobs'[s][t] = jobs[s][t] + 1 /\ x.next = t
      BY <1>5, <1>6, <1>8 DEF Enqueue, TypeOK
    <2>3. CASE lock = r
      <3>1. Z' = Z
        BY <1>1, <1>3, <2>3 DEF Strays
      <3>2. L = Carries(r, s, t)
        BY <1>6, <1>8, <2>3 DEF LineMay
      <3> QED  BY <1>2, <1>4, <1>6, <1>8, <2>2, <3>1, <3>2, Counts DEF Firings, Bit
    <2>4. CASE lock # r
      <3>1. L' = L
        BY <1>1, <1>2, <1>3, <2>4 DEF LineMay
      <3>2. Z' \subseteq Z
        BY <1>1, <1>3, <1>7, <2>1 DEF Strays
      <3>3. Cardinality(Z') <= Cardinality(Z)
        BY <3>2, Counts, CountMoves
      <3> QED  BY <1>2, <1>4, <2>2, <3>1, <3>3, Counts DEF Firings, Bit
    <2> QED  BY <2>3, <2>4
  <1>9. CASE s # x.s
    <2>1. Busy(r, s)' = Busy(r, s) /\ Carries(r, s, t)' = Carries(r, s, t)
      BY <1>1, <1>7, <1>9 DEF Busy, Carries, Reload
    <2>2. jobs'[s][t] = jobs[s][t]
      BY <1>5, <1>6, <1>9 DEF Enqueue, TypeOK
    <2>3. Z' = Z
      BY <1>1, <1>3, <1>7, <2>1 DEF Strays
    <2>4. L' = L
      BY <1>1, <1>2, <1>3, <2>1 DEF LineMay
    <2> QED  BY <1>2, <1>4, <2>2, <2>3, <2>4, Counts DEF Firings, Bit
  <1> QED  BY <1>8, <1>9

\* MarkFired: the row offers afterwards what the runner carried, whoever wrote
\* next_run_at in between.
LEMMA MarkFiredPays ==
    ASSUME TypeOK, TypeOK', Orderly, Orderly', NEW r \in Replica, Alone(r), UNCHANGED <<row, edit>>,
           MarkFired(r), NEW s \in Schedule, NEW t \in Clock
    PROVE  Firings(s, t)' + Spent <= Firings(s, t) + Spent'
  <1> DEFINE L == LineMay(s, t)
             Z == Strays(s, t)
             x == cur[r]
  <1>1. UNCHANGED <<jobs, edits, lock>> /\ pc[r] = "mark"
    BY DEF MarkFired
  <1>2. EditMay(s, t)' = EditMay(s, t)
    BY DEF EditMay
  <1>3. /\ \A q \in Replica \ {r} : /\ Busy(q, s)' = Busy(q, s)
                                    /\ Carries(q, s, t)' = Carries(q, s, t)
        /\ Z' \ {r} = Z \ {r}
    BY <1>1, OthersAsBefore
  <1>4. /\ x \in Item /\ x.s \in Schedule /\ row[x.s] # "absent"
        /\ \A y \in todo[r] : y.s # x.s
    BY <1>1 DEF TypeOK, Orderly, Item
  <1>5. pc'[r] \in {"idle", "fire"} /\ todo'[r] = todo[r]
    <2>1. todo[r] \in SUBSET Item
      BY DEF TypeOK
    <2>2. NextItem(r, todo[r])
      BY DEF MarkFired
    <2> QED  BY <2>1, <2>2, NextItemMoves
  <1>6. \/ /\ Spent' = Spent
           /\ next' = [next EXCEPT ![x.s] = IF row[x.s] = "deleted" THEN @
                                            ELSE NextAfter[x.cron][x.at]]
        \/ Spent' = Spent + 1 /\ UNCHANGED next
    BY <1>1, Payment DEF MarkFired, FaultKind
  <1>7. Spent \in Nat
    BY Payment
  <1> HIDE DEF x
  <1>8. CASE s = x.s
    <2>1. ~Busy(r, s)' /\ ~Carries(r, s, t)'
      BY <1>4, <1>5, <1>8 DEF Busy, Carries
    <2>2. Busy(r, s) /\ (Carries(r, s, t) <=> Reload(x, t))
      BY <1>1, <1>4, <1>8 DEF Busy, Carries, x
    <2>3. CASE Spent' = Spent + 1 /\ UNCHANGED next
      <3>1. Z' \subseteq Z
        BY <1>1, <1>3, <1>5, <2>1 DEF Strays
      <3>2. Cardinality(Z') <= Cardinality(Z)
        BY <3>1, Counts, CountMoves
      <3> QED  BY <1>1, <1>2, <1>7, <2>3, <3>2, Counts DEF Firings, Bit
    <2>4. CASE /\ Spent' = Spent
               /\ next' = [next EXCEPT ![x.s] = IF row[x.s] = "deleted" THEN @
                                                ELSE NextAfter[x.cron][x.at]]
      <3>1. RowMay(s, t)' => Reload(x, t)
        BY <1>4, <1>8, <2>4 DEF RowMay, Reload, TypeOK
      <3>2. CASE lock = r
        <4>1. Z' = Z
          BY <1>1, <1>3, <3>2 DEF Strays
        <4>2. L' => L
          BY <1>1, <2>1, <2>2, <3>1, <3>2 DEF LineMay
        <4> QED  BY <1>1, <1>2, <1>7, <2>4, <4>1, <4>2, Counts DEF Firings, Bit
      <3>3. CASE lock # r
        <4>1. Z' \subseteq Z \ {r}
          BY <1>3, <1>5, <2>1 DEF Strays
        <4>2. CASE L' => L
          <5>1. Cardinality(Z') <= Cardinality(Z)
            BY <4>1, Counts, CountMoves
          <5> QED  BY <1>1, <1>2, <1>7, <2>4, <4>2, <5>1, Counts DEF Firings, Bit
        <4>3. CASE L' /\ ~L
          <5>1. RowMay(s, t)'
            BY <1>1, <1>3, <3>3, <4>3 DEF LineMay
          <5>2. r \in Z
            BY <2>2, <3>1, <3>3, <5>1 DEF Strays
          <5>3. Cardinality(Z') + 1 <= Cardinality(Z)
            BY <4>1, <5>2, Counts, CountMoves
          <5> QED  BY <1>1, <1>2, <1>7, <2>4, <5>3, Counts DEF Firings, Bit
        <4> QED  BY <4>2, <4>3
      <3> QED  BY <3>2, <3>3
    <2> QED  BY <1>6, <2>3, <2>4
  <1>9. CASE s # x.s
    <2>1. Busy(r, s)' = Busy(r, s) /\ Carries(r, s, t)' = Carries(r, s, t)
      BY <1>1, <1>5, <1>9 DEF Busy, Carries, Reload, x
    <2>2. RowMay(s, t)' = RowMay(s, t)
      BY <1>4, <1>6, <1>9 DEF RowMay, TypeOK
    <2>3. Z' = Z
      BY <1>1, <1>3, <1>5, <2>1 DEF Strays
    <2>4. L' = L
      BY <1>1, <1>3, <2>1, <2>2 DEF LineMay
    <2> QED  BY <1>1, <1>2, <1>6, <1>7, <2>3, <2>4, Counts DEF Firings, Bit
  <1> QED  BY <1>8, <1>9

\* The dropped session makes a stray of the leader, and the row is anybody's.
LEMMA SessionPays ==
    ASSUME TypeOK, TypeOK', Orderly, SessionLost, NEW s \in Schedule, NEW t \in Clock
    PROVE  Firings(s, t)' + Spent <= Firings(s, t) + Spent'
  <1> DEFINE L == LineMay(s, t)
             Z == Strays(s, t)
  <1>1. /\ UNCHANGED <<row, next, edit, pc, todo, cur, jobs, edits>>
        /\ lock' = NoReplica /\ lock \in Replica /\ Fault("session")
    BY DEF SessionLost, table, TypeOK
  <1>2. EditMay(s, t)' = EditMay(s, t) /\ RowMay(s, t)' = RowMay(s, t)
    BY <1>1 DEF EditMay, RowMay
  <1>3. Spent' = Spent + 1 /\ Spent \in Nat
    BY <1>1, Payment DEF FaultKind
  <1>4. L' = RowMay(s, t)
    BY <1>1, <1>2, SchedulerAssumption DEF LineMay
  <1>5. Z' \ {lock} = Z \ {lock} /\ (lock \in Z' <=> pc[lock] = "due" \/ Carries(lock, s, t))
    BY <1>1, SchedulerAssumption DEF Strays, Carries, Reload
  <1>6. CASE Busy(lock, s) /\ ~Carries(lock, s, t)
    <2>1. pc[lock] # "due"
      BY <1>1, <1>6 DEF Busy, Orderly
    <2>2. Z' \subseteq Z
      BY <1>5, <1>6, <2>1
    <2>3. Cardinality(Z') <= Cardinality(Z)
      BY <1>1, <2>2, Counts, CountMoves
    <2> QED  BY <1>1, <1>2, <1>3, <2>3, Counts DEF Firings, Bit
  <1>7. CASE ~Busy(lock, s) \/ Carries(lock, s, t)
    <2>1. L' => L
      BY <1>1, <1>4, <1>7 DEF LineMay
    <2>2. Z' \subseteq Z \cup {lock}
      BY <1>5
    <2>3. Cardinality(Z') <= Cardinality(Z) + 1
      BY <1>1, <2>2, Counts, CountMoves
    <2> QED  BY <1>1, <1>2, <1>3, <2>1, <2>3, Counts DEF Firings, Bit
  <1> QED  BY <1>6, <1>7

\* The inductive invariant of the bound.
BudgetIInv == TypeOK /\ Orderly /\ Budgeted

\* No step makes a firing possible that nobody pays for.
LEMMA BudgetKept == BudgetIInv /\ [Next]_vars => BudgetIInv'
  <1> SUFFICES ASSUME BudgetIInv, [Next]_vars PROVE BudgetIInv'
    OBVIOUS
  <1> USE DEF BudgetIInv
  <1>1. TypeOK'
    BY NextTypes
  <1>2. SUFFICES /\ Orderly'
                 /\ \A s \in Schedule : \A t \in Clock :
                       Firings(s, t)' + Spent <= Firings(s, t) + Spent'
    <2> SUFFICES ASSUME NEW s \in Schedule, NEW t \in Clock,
                        Firings(s, t)' + Spent <= Firings(s, t) + Spent'
                 PROVE  Firings(s, t)' <= 1 + Spent'
      BY <1>1 DEF Budgeted, Firings
    <2>1. Firings(s, t) <= 1 + Spent
      BY DEF Budgeted, Firings
    <2>2. Firings(s, t) \in Nat /\ Firings(s, t)' \in Nat
      BY <1>1, Counts DEF Firings
    <2>3. Spent \in Nat /\ Spent' \in Nat
      BY <1>1, Payment
    <2> QED  BY <2>1, <2>2, <2>3
  <1>3. ASSUME NEW z \in Schedule, NEW c \in Cron, NEW en \in {"enabled", "disabled"},
               CreateSchedule(z, c, en) \/ BeginUpdate(z, c, en) \/ FinishUpdate(z)
                  \/ DeleteSchedule(z)
        PROVE  /\ Orderly'
               /\ \A s \in Schedule : \A t \in Clock :
                     Firings(s, t)' + Spent <= Firings(s, t) + Spent'
    BY <1>1, <1>3, HandlersKeepOrder, HandlersPay
  <1>4. ASSUME NEW r \in Replica, RunnerStep(r) \/ FireFails(r) \/ Stop(r) \/ Boot(r)
        PROVE  /\ Orderly'
               /\ \A s \in Schedule : \A t \in Clock :
                     Firings(s, t)' + Spent <= Firings(s, t) + Spent'
    <2>1. Orderly' /\ Alone(r) /\ UNCHANGED <<row, edit>>
      BY <1>4, RunnersKeepOrder
    <2> QED  BY <1>1, <1>4, <2>1, LeadersPay, DueBeforePays, FireEnqueuesPays, FireFailsPays,
                MarkFiredPays DEF RunnerStep
  <1>5. CASE SessionLost
    <2>1. Orderly'
      BY <1>5 DEF SessionLost, Orderly, table
    <2> QED  BY <1>1, <1>5, <2>1, SessionPays
  <1>6. CASE Tick \/ UNCHANGED vars
    <2>1. UNCHANGED <<row, next, edit, lock, pc, todo, cur, jobs, edits, faults>>
      BY <1>6 DEF Tick, vars, table, runners
    <2>2. Orderly'
      BY <2>1 DEF Orderly
    <2>3. ASSUME NEW s \in Schedule, NEW t \in Clock PROVE Firings(s, t)' = Firings(s, t)
      BY <2>1 DEF Firings, LineMay, EditMay, Strays, Busy, Carries, Reload, RowMay
    <2>4. Spent' = Spent /\ Spent \in Nat
      BY <1>1, <2>1, Payment
    <2>5. \A s \in Schedule : \A t \in Clock : Firings(s, t) \in Nat
      BY <1>1, Counts DEF Firings
    <2> QED  BY <2>2, <2>3, <2>4, <2>5
  <1>7. PICK c \in Cron : TRUE
    BY SchedulerAssumption
  <1> QED  BY <1>3, <1>4, <1>5, <1>6, <1>7 DEF Next

\* Enqueueing a firing and moving next_run_at are two statements, yet a firing
\* is enqueued once more at most for every stopped process, dropped session,
\* failed statement or edit, whatever the replicas, schedules and expressions.
THEOREM DuplicatesAreBounded == Spec => []DuplicatesBounded
  <1>1. Init => BudgetIInv
    <2> SUFFICES ASSUME Init PROVE BudgetIInv
      OBVIOUS
    <2>1. TypeOK
      BY InitEstablishes DEF IInv
    <2>2. Orderly
      BY DEF Init, Orderly
    <2>3. Spent = 0
      BY SchedulerAssumption DEF Init, Spent, FaultsUsed, FaultKind
    <2>4. ASSUME NEW s \in Schedule, NEW t \in Clock
          PROVE  jobs[s][t] = 0 /\ ~EditMay(s, t) /\ Strays(s, t) = {}
      BY DEF Init, EditMay, Strays, Carries
    <2>5. Budgeted
      BY <2>3, <2>4, FS_EmptySet DEF Budgeted, Bit
    <2> QED  BY <2>1, <2>2, <2>5 DEF BudgetIInv
  <1>2. BudgetIInv => DuplicatesBounded
    <2> SUFFICES ASSUME BudgetIInv PROVE DuplicatesBounded
      OBVIOUS
    <2> SUFFICES ASSUME NEW s \in Schedule, NEW t \in Clock
                 PROVE  jobs[s][t] <= 1 + Spent
      <3>1. \A k \in FaultKind : FaultsUsed(k) \in Int
        BY SchedulerAssumption DEF BudgetIInv, TypeOK, FaultsUsed
      <3>2. "stop" \in FaultKind /\ "session" \in FaultKind /\ "db" \in FaultKind
        BY DEF FaultKind
      <3>3. MaxEdits - edits \in Int
        BY SchedulerAssumption DEF BudgetIInv, TypeOK
      <3> QED  BY <3>1, <3>2, <3>3 DEF DuplicatesBounded, Spent
    <2>1. jobs[s][t] \in Nat /\ Cardinality(Strays(s, t)) \in Nat
      <3>1. Strays(s, t) \in SUBSET Replica
        BY DEF Strays
      <3> QED  BY <3>1, SchedulerAssumption, FS_Subset, FS_CardinalityType DEF BudgetIInv, TypeOK
    <2>2. Spent \in Int
      BY SchedulerAssumption DEF BudgetIInv, TypeOK, Spent, FaultsUsed, FaultKind
    <2> QED  BY <2>1, <2>2 DEF BudgetIInv, Budgeted, Bit
  <1> QED  BY <1>1, <1>2, BudgetKept, PTL DEF Spec

=============================================================================
