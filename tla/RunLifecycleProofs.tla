-------------------------- MODULE RunLifecycleProofs ------------------------
(***************************************************************************)
(* Proofs about RunLifecycle for any runs, processes and bounds: the       *)
(* inductive invariant IInv and what follows from it, and the books of the *)
(* coordinator.                                                            *)
(***************************************************************************)
EXTENDS RunLifecycle, FiniteSetTheorems, TLAPS

\* No row, no goroutine, no heartbeat: the empty database satisfies IInv.
LEMMA InitEstablishes == Init => IInv
  <1> SUFFICES ASSUME Init PROVE IInv  OBVIOUS
  <1> USE RunAssumption DEF Init
  <1>1. TypeOK
    BY DEF TypeOK, Status, Terminal, Point, InFlight, Age
  <1>2. Phases /\ InlineOutcome
    BY DEF Phases, InlineOutcome, InFlight, Early
  <1>3. CancelledBeforePickUp /\ AnnouncedIsRecorded /\ HeartbeatsEndWithRun
    BY DEF CancelledBeforePickUp, AnnouncedIsRecorded, HeartbeatsEndWithRun
  <1> QED  BY <1>1, <1>2, <1>3 DEF IInv

\* finalize always answers a terminal status, and cancelled for a run that was
\* cancelled when Execute began.
LEMMA FinalizeIsTerminal ==
    ASSUME NEW r, NEW err
    PROVE  /\ Finalize(r, err) \in Terminal
           /\ started[r] => Finalize(r, err) = "cancelled"
  BY DEF Finalize, Terminal

\* Every step of the goroutine that serves a run keeps IInv: the points of a
\* run are passed in order, and finalize stamps a terminal status on each way
\* to the final Update.
LEMMA RunStepPreserves ==
    ASSUME IInv, NEW r \in Run, RunStep(r)
    PROVE  IInv'
  <1> USE RunAssumption
      DEF IInv, TypeOK, Phases, InlineOutcome, CancelledBeforePickUp,
          AnnouncedIsRecorded, HeartbeatsEndWithRun, Status, Terminal, Point,
          InFlight, Early, Age, store, executor, heart, Goto, Coordinated
  <1>1. CASE EnqueueRun(r)
    BY <1>1 DEF EnqueueRun
  <1>2. CASE Spawn(r)
    BY <1>2 DEF Spawn
  <1>3. CASE FirstHeartbeat(r)
    BY <1>3 DEF FirstHeartbeat, Fault, Stubbed
  <1>4. CASE PrepareSucceeds(r)
    <2>1. CASE Path[r] = "app"
      <3>1. TypeOK'
        BY <1>4, <2>1 DEF PrepareSucceeds
      <3> QED  BY <1>4, <2>1, <3>1 DEF PrepareSucceeds
    <2>2. CASE Path[r] # "app"
      BY <1>4, <2>2 DEF PrepareSucceeds
    <2> QED  BY <2>1, <2>2
  <1>5. CASE PrepareFails(r)
    <2>1. TypeOK'
      BY <1>5 DEF PrepareFails
    <2>2. (Phases /\ InlineOutcome)'
      BY <1>5, <2>1 DEF PrepareFails
    <2>3. (CancelledBeforePickUp /\ AnnouncedIsRecorded /\ HeartbeatsEndWithRun)'
      BY <1>5, <2>1 DEF PrepareFails
    <2> QED  BY <2>1, <2>2, <2>3
  <1>6. CASE ExecuteRefuses(r)
    BY <1>6 DEF ExecuteRefuses, Finalize
  <1>7. CASE ExecuteStarts(r)
    BY <1>7 DEF ExecuteStarts
  <1>8. CASE ExecuteReturns(r)
    <2>1. PICK err \in {"none", "error"} \cup ({ctx[r]} \ {"ok"}) :
             /\ mem' = [mem EXCEPT ![r] = Finalize(r, err)]
             /\ runErr' = [runErr EXCEPT ![r] = err # "none"]
      BY <1>8 DEF ExecuteReturns
    <2>2. Finalize(r, err) \in Terminal /\ (started[r] => Finalize(r, err) = "cancelled")
      BY FinalizeIsTerminal
    <2>3. ASSUME Path[r] = "inline", err # "none" PROVE Finalize(r, err) = "failed"
      <3>1. err \in {"error", "deadline"}
        BY <2>3
      <3>2. ~started[r] /\ mem[r] = "running"
        BY <1>8, <2>3 DEF ExecuteReturns
      <3> QED  BY <3>1, <3>2 DEF Finalize
    <2> QED  BY <1>8, <2>1, <2>2, <2>3 DEF ExecuteReturns
  <1>9. CASE Persist(r)
    BY <1>9 DEF Persist, Stubbed, CtxReachesStore
  <1>10. CASE PersistFails(r)
    BY <1>10 DEF PersistFails, Fault
  <1>11. CASE Notify(r)
    BY <1>11 DEF Notify
  <1>12. CASE Teardown(r)
    BY <1>12 DEF Teardown
  <1>13. ASSUME NEW p \in Process, PickUp(r, p) PROVE IInv'
    <2>1. TypeOK'
      BY <1>13 DEF PickUp, Fault
    <2>2. (Phases /\ InlineOutcome)'
      BY <1>13, <2>1 DEF PickUp
    <2>3. (CancelledBeforePickUp /\ AnnouncedIsRecorded /\ HeartbeatsEndWithRun)'
      BY <1>13, <2>1 DEF PickUp
    <2> QED  BY <2>1, <2>2, <2>3
  <1> QED
    BY <1>1, <1>2, <1>3, <1>4, <1>5, <1>6, <1>7, <1>8, <1>9, <1>10, <1>11, <1>12, <1>13
    DEF RunStep

\* So do the steps others take on a run: its creation, a failed enqueue, a
\* cancellation, the ticker and the deadline.
LEMMA OutsideStepPreserves ==
    ASSUME IInv, NEW r \in Run,
           \/ \E p \in Process : CreateRun(r, p)
           \/ EnqueueScheduled(r) \/ EnqueueFails(r) \/ CancelPipelineRun(r)
           \/ Heartbeat(r) \/ DeadlineExpires(r)
    PROVE  IInv'
  <1> USE RunAssumption
      DEF IInv, TypeOK, Phases, InlineOutcome, CancelledBeforePickUp,
          AnnouncedIsRecorded, HeartbeatsEndWithRun, Status, Terminal, Point,
          InFlight, Early, Age, store, executor, heart, Goto, Coordinated
  <1>1. CASE EnqueueFails(r)
    BY <1>1 DEF EnqueueFails, Fault
  <1>2. CASE CancelPipelineRun(r)
    BY <1>2 DEF CancelPipelineRun
  <1>3. CASE Heartbeat(r)
    BY <1>3 DEF Heartbeat, Fault
  <1>4. CASE DeadlineExpires(r)
    BY <1>4 DEF DeadlineExpires, Fault
  <1>5. ASSUME NEW p \in Process, CreateRun(r, p) PROVE IInv'
    BY <1>5 DEF CreateRun, Stubbed
  <1>6. CASE EnqueueScheduled(r)
    BY <1>6 DEF EnqueueScheduled
  <1> QED  BY <1>1, <1>2, <1>3, <1>4, <1>5, <1>6

\* And the clock and the processes: a shutdown cancels only job contexts, a
\* process that ends takes its tickers with it, a boot sweeps running rows.
LEMMA ProcessStepPreserves ==
    ASSUME IInv,
           Tick \/ \E p \in Process : Shutdown(p) \/ Exit(p) \/ Crash(p) \/ Boot(p)
    PROVE  IInv'
  <1> USE RunAssumption
      DEF IInv, TypeOK, Phases, InlineOutcome, CancelledBeforePickUp,
          AnnouncedIsRecorded, HeartbeatsEndWithRun, Status, Terminal, Point,
          InFlight, Early, Age, store, executor, heart, Goto, Coordinated
  <1>1. CASE Tick
    BY <1>1 DEF Tick
  <1>2. ASSUME NEW p \in Process, Shutdown(p) PROVE IInv'
    BY <1>2 DEF Shutdown, Fault, On
  <1>3. ASSUME NEW p \in Process, ProcessEnds(p), Exit(p) \/ Crash(p) PROVE IInv'
    <2>1. UNCHANGED <<store, executor, notified, slots>>
      BY <1>3 DEF Exit, Crash
    <2>2. cancels' \in Nat /\ faults' \in Nat
      BY <1>3 DEF Exit, Crash, Fault
    <2>3. TypeOK'
      BY <1>3, <2>1, <2>2 DEF ProcessEnds, On
    <2>4. \A r \in Run : \/ pc'[r] = pc[r] /\ host'[r] = host[r]
                         \/ pc'[r] \in {"dropped", "cutoff"} /\ host'[r] = NoProc
      BY <1>3 DEF ProcessEnds, On
    <2>5. \A r \in Run : ticking'[r] => ticking[r] /\ pc'[r] = pc[r]
      BY <1>3 DEF ProcessEnds, On
    <2>6. \A r \in Run : due'[r] => ticking'[r]
      BY <1>3 DEF ProcessEnds, On
    <2>7. \A r \in Run : /\ pc'[r] = "idle" => pc[r] = "idle"
                         /\ pc[r] \in {"idle", "queued", "dropped"} => pc'[r] = pc[r]
      BY <1>3 DEF ProcessEnds, On
    <2>8. Phases'
      BY <2>1, <2>4, <2>5, <2>6, <2>7
    <2>9. (InlineOutcome /\ CancelledBeforePickUp /\ AnnouncedIsRecorded)'
      BY <2>1, <2>4
    <2>10. HeartbeatsEndWithRun'
      BY <2>1, <2>5
    <2> QED  BY <2>3, <2>8, <2>9, <2>10
  <1>4. ASSUME NEW p \in Process, Boot(p) PROVE IInv'
    BY <1>4 DEF Boot, Fault, MayBeStale, Stale
  <1> QED  BY <1>1, <1>2, <1>3, <1>4 DEF Exit, Crash

\* Every step keeps the inductive invariant.
LEMMA NextPreserves == IInv /\ [Next]_vars => IInv'
  <1> SUFFICES ASSUME IInv, [Next]_vars PROVE IInv'  OBVIOUS
  <1>1. CASE UNCHANGED vars
    BY <1>1 DEF vars, store, executor, heart, IInv, TypeOK, Phases, InlineOutcome,
        CancelledBeforePickUp, AnnouncedIsRecorded, HeartbeatsEndWithRun, Coordinated
  <1>2. CASE Next
    BY <1>2, RunStepPreserves, OutsideStepPreserves, ProcessStepPreserves DEF Next
  <1> QED  BY <1>1, <1>2

\* The inductive invariant holds throughout.
THEOREM Invariance == Spec => []IInv
  BY InitEstablishes, NextPreserves, PTL DEF Spec

\* The run's row, its executor and the coordinator's state are well typed.
THEOREM TypeCorrect == Spec => []TypeOK
  <1>1. IInv => TypeOK  BY DEF IInv
  <1> QED  BY <1>1, Invariance, PTL

\* A run cancelled before it was picked up ends cancelled, whatever its stages
\* return: Execute's startedCancelled flag is enough.
THEOREM EarlyCancelWins == Spec => []CancelledBeforePickUp
  <1>1. IInv => CancelledBeforePickUp  BY DEF IInv
  <1> QED  BY <1>1, Invariance, PTL

\* The inline path announces only outcomes that are on record, through any
\* crashes, deadlines, sweeps and lost writes.
THEOREM InlineAnnouncements == Spec => []AnnouncedIsRecorded
  <1>1. IInv => AnnouncedIsRecorded  BY DEF IInv
  <1> QED  BY <1>1, Invariance, PTL

\* No heartbeat goroutine outlives its run or its run's context.
THEOREM HeartbeatsJoined == Spec => []HeartbeatsEndWithRun
  <1>1. IInv => HeartbeatsEndWithRun  BY DEF IInv
  <1> QED  BY <1>1, Invariance, PTL

\* A step replaces a terminal status only by a terminal one, except for the
\* save in the middle of an app deploy.
LEMMA StepKeepsEnded ==
    ASSUME IInv, [Next]_vars
    PROVE  \A r \in Run : Path[r] # "app" /\ row[r] \in Terminal => row'[r] \in Terminal
  <1> SUFFICES ASSUME NEW r \in Run, Path[r] # "app", row[r] \in Terminal
               PROVE  row'[r] \in Terminal
    OBVIOUS
  <1> USE DEF store, Terminal
  <1>1. ASSUME NEW q \in Run, NEW p \in Process, CreateRun(q, p) PROVE row'[r] \in Terminal
    BY <1>1 DEF CreateRun, IInv, TypeOK, Phases
  <1>2. ASSUME NEW q \in Run, Persist(q) PROVE row'[r] \in Terminal
    BY <1>2 DEF Persist, IInv, TypeOK, Phases
  <1>3. ASSUME NEW q \in Run, CancelPipelineRun(q) PROVE row'[r] \in Terminal
    BY <1>3 DEF CancelPipelineRun, IInv, TypeOK
  <1>4. ASSUME NEW p \in Process, Boot(p) PROVE row'[r] \in Terminal
    BY <1>4 DEF Boot, IInv, TypeOK
  <1>5. ASSUME NEW q \in Run, RunStep(q), ~Persist(q) PROVE row'[r] \in Terminal
    BY <1>5 DEF RunStep, EnqueueRun, Spawn, FirstHeartbeat, PickUp, PrepareSucceeds,
        PrepareFails, ExecuteRefuses, ExecuteStarts, ExecuteReturns, PersistFails,
        Notify, Teardown, IInv, TypeOK
  <1>6. ASSUME NEW q \in Run,
               EnqueueScheduled(q) \/ EnqueueFails(q) \/ Heartbeat(q) \/ DeadlineExpires(q)
        PROVE  row'[r] \in Terminal
    BY <1>6 DEF EnqueueScheduled, EnqueueFails, Heartbeat, DeadlineExpires
  <1>7. ASSUME NEW p \in Process, Shutdown(p) \/ Exit(p) \/ Crash(p)
        PROVE  row'[r] \in Terminal
    BY <1>7 DEF Shutdown, Exit, Crash
  <1>8. CASE Tick \/ UNCHANGED vars
    BY <1>8 DEF Tick, vars
  <1> QED
    BY <1>1, <1>2, <1>3, <1>4, <1>5, <1>6, <1>7, <1>8 DEF Next

\* Except for app deploys, which save their run half way, a run that has ended is
\* never shown as pending or running again, whatever writes interleave.
THEOREM EndedStaysEnded == Spec => NoResurrection
  <1>1. IInv /\ [Next]_vars =>
          [\A r \in Run : Path[r] # "app" /\ row[r] \in Terminal
                             => row'[r] \in Terminal]_vars
    BY StepKeepsEnded
  <1> QED  BY <1>1, Invariance, PTL DEF Spec, NoResurrection

\* All that run run_pipelines checks of a state, for any number of runs,
\* processes, cancellations and faults.
THEOREM RunInvariant == Spec => []RunInv
  BY TypeCorrect, EarlyCancelWins, InlineAnnouncements, PTL DEF RunInv

-----------------------------------------------------------------------------
(* The coordinator's books *)

\* The goroutines that hold a slot of p.
Held(p) == {r \in Run : On(r, p) /\ Coordinated(r) /\ pc[r] \in InFlight}

\* A process that is down runs nothing.
DownIsEmpty == \A r \in Run : host[r] \in Process => Alive(host[r])

\* Before its first heartbeat a run has none on record; afterwards the record is
\* behind by one interval for each write missed since the last that landed, and one
\* for a write that is due.
BeatBound ==
  \A r \in Run :
       /\ pc[r] \in {"idle", "created", "queued", "spawned"} => beat[r] = NoBeat /\ ~ticking[r]
       /\ (ticking[r] /\ beat[r] # NoBeat) => beat[r] <= missed[r] + (IF due[r] THEN 1 ELSE 0)

CoordIInv == IInv /\ SlotsAccounted /\ DownIsEmpty /\ BeatBound

LEMMA HeldCount ==
  ASSUME NEW S \in SUBSET Run
  PROVE  /\ IsFiniteSet(S) /\ Cardinality(S) \in Nat
         /\ \A r \in Run : Cardinality(S \cup {r}) = IF r \in S THEN Cardinality(S) ELSE Cardinality(S) + 1
         /\ \A r \in S : Cardinality(S \ {r}) = Cardinality(S) - 1
  <1>1. IsFiniteSet(S)
    BY RunAssumption, FS_Subset
  <1>2. Cardinality(S) \in Nat
    BY <1>1, FS_CardinalityType
  <1>3. QED
    BY <1>1, <1>2, FS_AddElement, FS_RemoveElement

\* A step that moves no coordinated run into or out of flight moves no slot.
LEMMA SlotsKept ==
  ASSUME SlotsAccounted, slots' = slots,
         NEW P \in SUBSET Process,
         \A p \in Process : Alive(p)' => Alive(p) /\ p \in P,
         \A r \in Run, p \in P : Coordinated(r) =>
             (On(r, p)' /\ pc'[r] \in InFlight <=> On(r, p) /\ pc[r] \in InFlight)
  PROVE  SlotsAccounted'
  <1>1. ASSUME NEW p \in P PROVE Held(p)' = Held(p)
    BY <1>1 DEF Held, Coordinated
  <1>2. SUFFICES ASSUME NEW p \in Process, Alive(p)'
                 PROVE  slots'[p] + Cardinality(Held(p)') = MaxConcurrentRuns
    BY DEF SlotsAccounted, Held, Coordinated
  <1>3. Alive(p) /\ p \in P
    BY <1>2
  <1>4. slots[p] + Cardinality(Held(p)) = MaxConcurrentRuns
    BY <1>3 DEF SlotsAccounted, Held
  <1>5. QED
    BY <1>1, <1>3, <1>4

LEMMA CoordInitially == Init => CoordIInv
  <1>1. SUFFICES ASSUME Init PROVE SlotsAccounted /\ DownIsEmpty /\ BeatBound
    BY InitEstablishes DEF CoordIInv
  <1>2. \A p \in Process : Held(p) = {}
    BY <1>1, RunAssumption DEF Init, Held, On, InFlight
  <1>3. Cardinality({}) = 0
    BY FS_EmptySet
  <1>4. SlotsAccounted
    <2>1. SUFFICES ASSUME NEW p \in Process PROVE slots[p] + Cardinality(Held(p)) = MaxConcurrentRuns
      BY DEF SlotsAccounted, Held
    <2>2. slots[p] = MaxConcurrentRuns /\ Cardinality(Held(p)) = 0
      BY <1>1, <1>2, <1>3 DEF Init
    <2>3. QED
      BY <2>2, RunAssumption
  <1>5. DownIsEmpty /\ BeatBound
    BY <1>1, RunAssumption DEF Init, DownIsEmpty, BeatBound
  <1>6. QED
    BY <1>4, <1>5

\* Taking a slot and giving it back (SpawnWithDeadline).
LEMMA SlotMoves ==
  ASSUME CoordIInv, NEW r \in Run, Spawn(r) \/ Teardown(r)
  PROVE  SlotsAccounted'
  <1>1. TypeOK /\ Phases /\ SlotsAccounted
    BY DEF CoordIInv, IInv
  <1>2. process' = process /\ host[r] \in Process /\ pc[r] \in {"created", "teardown"}
    BY <1>1 DEF Spawn, Teardown, Phases, InFlight
  <1>3. /\ pc \in [Run -> Point] /\ slots \in [Process -> Nat] /\ host \in [Run -> Process \cup {NoProc}]
        /\ NoProc \notin Process
    BY <1>1, RunAssumption DEF TypeOK
  <1> DEFINE h == host[r]
  <1>4. SUFFICES ASSUME NEW p \in Process, Alive(p)
                 PROVE  slots'[p] + Cardinality(Held(p)') = MaxConcurrentRuns
    BY <1>2 DEF SlotsAccounted, Held, Alive, Coordinated
  <1>5. /\ slots[p] + Cardinality(Held(p)) = MaxConcurrentRuns /\ slots[p] \in Nat
        /\ Held(p) \in SUBSET Run /\ Cardinality(Held(p)) \in Nat
    BY <1>1, <1>3, <1>4, HeldCount DEF SlotsAccounted, Held
  <1>6. CASE Spawn(r) /\ slots[h] > 0
    <2>1. /\ slots' = [slots EXCEPT ![h] = slots[h] - 1] /\ pc' = [pc EXCEPT ![r] = "spawned"]
          /\ host' = host /\ Coordinated(r) /\ pc[r] = "created"
      BY <1>6 DEF Spawn, Goto
    <2>2. CASE p = h
      <3>1. Held(p)' = Held(p) \cup {r} /\ r \notin Held(p)
        BY <1>3, <2>1, <2>2 DEF Held, On, Coordinated, InFlight
      <3>2. Cardinality(Held(p)') = Cardinality(Held(p)) + 1
        BY <1>5, <3>1, HeldCount
      <3>3. slots'[p] = slots[p] - 1 /\ slots[p] > 0
        BY <1>2, <1>3, <1>6, <2>1, <2>2
      <3>4. QED
        BY <1>5, <3>2, <3>3
    <2>3. CASE p # h
      <3>1. Held(p)' = Held(p)
        BY <1>3, <2>1, <2>3 DEF Held, On, Coordinated, InFlight
      <3>2. slots'[p] = slots[p]
        BY <1>3, <2>1, <2>3
      <3>3. QED
        BY <1>5, <3>1, <3>2
    <2>4. QED
      BY <2>2, <2>3
  <1>7. CASE Spawn(r) /\ ~(slots[h] > 0)
    <2>1. /\ slots' = slots /\ pc' = [pc EXCEPT ![r] = "rejected"] /\ pc[r] = "created"
          /\ host' = [host EXCEPT ![r] = NoProc]
      BY <1>7 DEF Spawn, Goto
    <2>2. Held(p)' = Held(p)
      BY <1>3, <2>1 DEF Held, On, Coordinated, InFlight
    <2>3. QED
      BY <1>5, <2>1, <2>2
  <1>8. CASE Teardown(r)
    <2>1. /\ slots' = [slots EXCEPT ![h] = IF Coordinated(r) THEN slots[h] + 1 ELSE slots[h]]
          /\ pc' = [pc EXCEPT ![r] = "done"] /\ host' = [host EXCEPT ![r] = NoProc] /\ pc[r] = "teardown"
      BY <1>8 DEF Teardown, Goto
    <2>2. CASE p = h /\ Coordinated(r)
      <3>1. Held(p)' = Held(p) \ {r} /\ r \in Held(p)
        BY <1>3, <2>1, <2>2 DEF Held, On, Coordinated, InFlight
      <3>2. Cardinality(Held(p)') = Cardinality(Held(p)) - 1
        BY <1>5, <3>1, HeldCount
      <3>3. slots'[p] = slots[p] + 1
        BY <1>3, <2>1, <2>2
      <3>4. QED
        BY <1>5, <3>2, <3>3
    <2>3. CASE p # h \/ ~Coordinated(r)
      <3>1. Held(p)' = Held(p)
        BY <1>3, <2>1, <2>3 DEF Held, On, Coordinated, InFlight
      <3>2. slots'[p] = slots[p]
        BY <1>3, <2>1, <2>3
      <3>3. QED
        BY <1>5, <3>1, <3>2
    <2>4. QED
      BY <2>2, <2>3
  <1>9. QED
    BY <1>6, <1>7, <1>8

\* No other step of a run touches its process's books.
LEMMA RunKeepsSlots ==
  ASSUME CoordIInv, NEW r \in Run,
         \/ RunStep(r) \/ \E p \in Process : CreateRun(r, p)
         \/ EnqueueScheduled(r) \/ EnqueueFails(r) \/ CancelPipelineRun(r) \/ Heartbeat(r) \/ DeadlineExpires(r)
  PROVE  SlotsAccounted'
  <1>1. TypeOK /\ Phases /\ SlotsAccounted /\ pc \in [Run -> Point] /\ host \in [Run -> Process \cup {NoProc}]
        /\ NoProc \notin Process
    BY RunAssumption DEF CoordIInv, IInv, TypeOK
  <1>2. CASE Spawn(r) \/ Teardown(r)
    BY <1>2, SlotMoves
  <1>3. CASE \/ FirstHeartbeat(r) \/ PrepareSucceeds(r) \/ PrepareFails(r) \/ ExecuteRefuses(r) \/ ExecuteStarts(r)
             \/ ExecuteReturns(r) \/ Persist(r) \/ PersistFails(r) \/ Notify(r)
             \/ CancelPipelineRun(r) \/ Heartbeat(r) \/ DeadlineExpires(r)
    <2>1. UNCHANGED <<slots, process, host>>
      BY <1>3 DEF FirstHeartbeat, PrepareSucceeds, PrepareFails, ExecuteRefuses, ExecuteStarts, ExecuteReturns,
                  Persist, PersistFails, Notify, CancelPipelineRun, Heartbeat, DeadlineExpires
    <2>2. pc' = pc \/ (pc[r] \in InFlight /\ \E q \in InFlight : pc' = [pc EXCEPT ![r] = q])
      BY <1>3 DEF FirstHeartbeat, PrepareSucceeds, PrepareFails, ExecuteRefuses, ExecuteStarts, ExecuteReturns,
                  Persist, PersistFails, Notify, CancelPipelineRun, Heartbeat, DeadlineExpires, Goto, InFlight
    <2>3. \A q \in Run : pc'[q] \in InFlight <=> pc[q] \in InFlight
      BY <1>1, <2>2
    <2>4. QED
      BY <1>1, <2>1, <2>3, SlotsKept DEF Alive, On
  <1>4. CASE \/ EnqueueRun(r) \/ (\E p \in Process : PickUp(r, p) \/ CreateRun(r, p))
             \/ EnqueueScheduled(r) \/ EnqueueFails(r)
    <2>1. UNCHANGED <<slots, process>>
      BY <1>4 DEF EnqueueRun, PickUp, CreateRun, EnqueueScheduled, EnqueueFails
    <2>2. \A q \in Run \ {r} : pc'[q] = pc[q] /\ host'[q] = host[q]
      BY <1>1, <1>4 DEF EnqueueRun, PickUp, CreateRun, EnqueueScheduled, EnqueueFails, Goto
    <2>3. \/ pc[r] \notin InFlight /\ pc'[r] \notin InFlight
          \/ ~Coordinated(r)
      BY <1>1, <1>4 DEF EnqueueRun, PickUp, CreateRun, EnqueueScheduled, EnqueueFails, Goto, InFlight, Phases
    <2>4. QED
      BY <1>1, <2>1, <2>2, <2>3, SlotsKept DEF Alive, On
  <1>5. QED
    BY <1>2, <1>3, <1>4 DEF RunStep

\* A process that goes down takes its books with it, and starts with new ones.
LEMMA ProcessKeepsSlots ==
  ASSUME CoordIInv, Tick \/ \E p \in Process : Shutdown(p) \/ Exit(p) \/ Crash(p) \/ Boot(p)
  PROVE  SlotsAccounted'
  <1>1. TypeOK /\ SlotsAccounted /\ DownIsEmpty /\ pc \in [Run -> Point] /\ host \in [Run -> Process \cup {NoProc}]
        /\ NoProc \notin Process /\ process \in [Process -> {"up", "stopping", "down"}]
        /\ slots \in [Process -> Nat]
    BY RunAssumption DEF CoordIInv, IInv, TypeOK
  <1>2. CASE Tick
    <2>1. UNCHANGED <<slots, process, host, pc>>
      BY <1>2 DEF Tick
    <2>2. QED
      BY <1>1, <2>1, SlotsKept DEF Alive, On
  <1>3. ASSUME NEW p \in Process, Shutdown(p) PROVE SlotsAccounted'
    <2>1. UNCHANGED <<slots, host, pc>> /\ process[p] = "up" /\ process' = [process EXCEPT ![p] = "stopping"]
      BY <1>3 DEF Shutdown
    <2>2. \A q \in Process : Alive(q)' => Alive(q)
      BY <1>1, <2>1 DEF Alive
    <2>3. QED
      BY <1>1, <2>1, <2>2, SlotsKept DEF On
  <1>4. ASSUME NEW p \in Process, Exit(p) \/ Crash(p) PROVE SlotsAccounted'
    <2>1. ProcessEnds(p) /\ slots' = slots
      BY <1>4 DEF Exit, Crash
    <2> DEFINE P == Process \ {p}
    <2>2. \A q \in Process : Alive(q)' => Alive(q) /\ q \in P
      BY <1>1, <2>1 DEF ProcessEnds, Alive
    <2>3. \A r \in Run, q \in P : On(r, q)' /\ pc'[r] \in InFlight <=> On(r, q) /\ pc[r] \in InFlight
      BY <1>1, <2>1 DEF ProcessEnds, On
    <2>4. P \in SUBSET Process
      OBVIOUS
    <2> HIDE DEF P
    <2>5. QED
      BY <1>1, <2>1, <2>2, <2>3, <2>4, SlotsKept
  <1>5. ASSUME NEW p \in Process, Boot(p) PROVE SlotsAccounted'
    <2>1. /\ UNCHANGED <<host, pc>> /\ process[p] = "down" /\ process' = [process EXCEPT ![p] = "up"]
          /\ slots' = [slots EXCEPT ![p] = MaxConcurrentRuns]
      BY <1>5 DEF Boot
    <2>2. SUFFICES ASSUME NEW q \in Process, Alive(q)'
                   PROVE  slots'[q] + Cardinality(Held(q)') = MaxConcurrentRuns
      BY DEF SlotsAccounted, Held, Coordinated
    <2>3. Held(q)' = Held(q)
      BY <2>1 DEF Held, On, Coordinated
    <2>4. CASE q = p
      <3>1. Held(q) = {}
        BY <1>1, <2>1, <2>4 DEF Held, On, DownIsEmpty, Alive
      <3>2. Cardinality(Held(q)') = 0
        BY <2>3, <3>1, FS_EmptySet
      <3>3. slots'[q] = MaxConcurrentRuns
        BY <1>1, <2>1, <2>4
      <3>4. QED
        BY <3>2, <3>3, RunAssumption
    <2>5. CASE q # p
      <3>1. Alive(q) /\ slots'[q] = slots[q]
        BY <1>1, <2>1, <2>2, <2>5 DEF Alive
      <3>2. slots[q] + Cardinality(Held(q)) = MaxConcurrentRuns
        BY <1>1, <3>1 DEF SlotsAccounted, Held
      <3>3. QED
        BY <2>3, <3>1, <3>2
    <2>6. QED
      BY <2>4, <2>5
  <1>6. QED
    BY <1>2, <1>3, <1>4, <1>5

\* Work starts only in a process that is up, and ends with it.
LEMMA DownStaysEmpty ==
  ASSUME CoordIInv, Next
  PROVE  DownIsEmpty'
  <1>1. TypeOK /\ DownIsEmpty /\ host \in [Run -> Process \cup {NoProc}] /\ pc \in [Run -> Point]
        /\ NoProc \notin Process /\ process \in [Process -> {"up", "stopping", "down"}]
    BY RunAssumption DEF CoordIInv, IInv, TypeOK
  <1>2. ASSUME NEW r \in Run,
               \/ RunStep(r) \/ \E p \in Process : CreateRun(r, p)
               \/ EnqueueScheduled(r) \/ EnqueueFails(r) \/ CancelPipelineRun(r) \/ Heartbeat(r)
               \/ DeadlineExpires(r)
        PROVE  DownIsEmpty'
    <2>1. process' = process
      BY <1>2 DEF RunStep, EnqueueRun, Spawn, FirstHeartbeat, PickUp, PrepareSucceeds, PrepareFails, ExecuteRefuses,
                  ExecuteStarts, ExecuteReturns, Persist, PersistFails, Notify, Teardown, CreateRun,
                  EnqueueScheduled, EnqueueFails, CancelPipelineRun, Heartbeat, DeadlineExpires
    <2>2. \/ host' = host \/ host' = [host EXCEPT ![r] = NoProc]
          \/ \E p \in Process : process[p] = "up" /\ host' = [host EXCEPT ![r] = p]
      BY <1>2 DEF RunStep, EnqueueRun, Spawn, FirstHeartbeat, PickUp, PrepareSucceeds, PrepareFails, ExecuteRefuses,
                  ExecuteStarts, ExecuteReturns, Persist, PersistFails, Notify, Teardown, CreateRun,
                  EnqueueScheduled, EnqueueFails, CancelPipelineRun, Heartbeat, DeadlineExpires
    <2>3. QED
      BY <1>1, <2>1, <2>2 DEF DownIsEmpty, Alive
  <1>3. CASE Tick
    BY <1>1, <1>3 DEF Tick, DownIsEmpty, Alive
  <1>4. ASSUME NEW p \in Process, Shutdown(p) \/ Exit(p) \/ Crash(p) \/ Boot(p) PROVE DownIsEmpty'
    <2>1. CASE Shutdown(p)
      BY <1>1, <2>1 DEF Shutdown, DownIsEmpty, Alive
    <2>2. CASE Boot(p)
      BY <1>1, <2>2 DEF Boot, DownIsEmpty, Alive
    <2>3. CASE ProcessEnds(p)
      <3>1. ASSUME NEW r \in Run, host'[r] \in Process PROVE process'[host'[r]] # "down"
        <4>1. host[r] # p /\ host'[r] = host[r]
          BY <1>1, <2>3, <3>1 DEF ProcessEnds, On
        <4>2. process'[host[r]] = process[host[r]]
          BY <1>1, <2>3, <3>1, <4>1 DEF ProcessEnds
        <4>3. QED
          BY <1>1, <3>1, <4>1, <4>2 DEF DownIsEmpty, Alive
      <3>2. QED
        BY <3>1 DEF DownIsEmpty, Alive
    <2>4. QED
      BY <1>4, <2>1, <2>2, <2>3 DEF Exit, Crash
  <1>5. QED
    BY <1>2, <1>3, <1>4 DEF Next

\* Each failed write costs one interval, and only a ticker that is due may be one
\* more behind.
LEMMA BeatsKept ==
  ASSUME CoordIInv, Next
  PROVE  BeatBound'
  <1>1. /\ TypeOK /\ BeatBound /\ Phases /\ beat \in [Run -> Age \cup {NoBeat}] /\ pc \in [Run -> Point]
        /\ ticking \in [Run -> BOOLEAN] /\ due \in [Run -> BOOLEAN] /\ missed \in [Run -> Nat]
        /\ NoBeat \notin Nat /\ OrphanThreshold \in Nat
    BY RunAssumption DEF CoordIInv, IInv, TypeOK
  <1>2. \A r \in Run : beat[r] # NoBeat => beat[r] \in Nat
    BY <1>1 DEF Age
  <1>4. ASSUME NEW r \in Run, FirstHeartbeat(r) PROVE BeatBound'
    <2>2. beat[r] = NoBeat /\ beat'[r] \in {0, NoBeat} /\ due' = due
      BY <1>1, <1>4 DEF FirstHeartbeat, BeatBound
    <2>3. /\ \A q \in Run \ {r} : /\ beat'[q] = beat[q] /\ pc'[q] = pc[q]
                                 /\ ticking'[q] = ticking[q] /\ missed'[q] = missed[q]
          /\ missed'[r] \in Nat
      BY <1>1, <1>4 DEF FirstHeartbeat, Goto
    <2>4. pc'[r] \in {"prepare", "execute"}
      BY <1>1, <1>4 DEF FirstHeartbeat, Goto
    <2>5. ASSUME NEW q \in Run
          PROVE  /\ pc'[q] \in {"idle", "created", "queued", "spawned"} => beat'[q] = NoBeat /\ ~ticking'[q]
                 /\ (ticking'[q] /\ beat'[q] # NoBeat) =>
                       beat'[q] <= missed'[q] + (IF due'[q] THEN 1 ELSE 0)
      <3>1. CASE q = r
        BY <1>1, <2>2, <2>3, <2>4, <3>1
      <3>2. CASE q # r
        BY <1>1, <1>2, <2>2, <2>3, <3>2 DEF BeatBound
      <3>3. QED
        BY <3>1, <3>2
    <2>6. QED
      BY <2>5 DEF BeatBound
  <1>5. ASSUME NEW r \in Run, Heartbeat(r) PROVE BeatBound'
    <2>1. /\ ticking[r] /\ due[r] /\ pc' = pc /\ ticking' = ticking /\ due' = [due EXCEPT ![r] = FALSE]
          /\ \/ beat' = [beat EXCEPT ![r] = 0] /\ missed' = [missed EXCEPT ![r] = 0]
             \/ beat' = beat /\ missed' = [missed EXCEPT ![r] = missed[r] + 1]
      BY <1>5 DEF Heartbeat
    <2>2. QED
      BY <1>1, <1>2, <2>1 DEF BeatBound
  <1>6. CASE Tick
    <2>1. UNCHANGED <<pc, ticking, missed>> /\ due' = ticking /\ \A r \in Run : ~due[r]
      BY <1>6 DEF Tick
    <2>2. ASSUME NEW r \in Run
          PROVE  \/ beat[r] = NoBeat /\ beat'[r] = NoBeat
                 \/ beat[r] \in Nat /\ beat'[r] \in {beat[r], beat[r] + 1}
      BY <1>1, <1>2, <1>6 DEF Tick, Age
    <2>3. ASSUME NEW r \in Run, ticking[r], beat'[r] # NoBeat
          PROVE  beat'[r] <= missed[r] + 1
      <3>1. beat[r] \in Nat /\ beat'[r] \in {beat[r], beat[r] + 1}
        BY <2>2, <2>3
      <3>2. beat[r] <= missed[r]
        BY <1>1, <2>1, <2>3, <3>1 DEF BeatBound
      <3>3. QED
        BY <1>1, <3>1, <3>2
    <2>4. QED
      BY <1>1, <2>1, <2>2, <2>3 DEF BeatBound
  <1>7. ASSUME \A r \in Run :
                 /\ beat'[r] \in {beat[r], NoBeat} /\ missed'[r] = missed[r]
                 /\ (ticking'[r] => ticking[r] /\ due'[r] = due[r])
                 /\ pc'[r] \in {"idle", "created", "queued", "spawned"} =>
                      pc[r] \in {"idle", "created", "queued", "spawned"}
        PROVE  BeatBound'
    BY <1>1, <1>2, <1>7 DEF BeatBound
  <1>8. ASSUME NEW r \in Run,
               \/ EnqueueRun(r) \/ Spawn(r) \/ (\E p \in Process : PickUp(r, p) \/ CreateRun(r, p))
               \/ PrepareSucceeds(r) \/ PrepareFails(r) \/ ExecuteRefuses(r) \/ ExecuteStarts(r)
               \/ ExecuteReturns(r) \/ Persist(r) \/ PersistFails(r) \/ Notify(r)
               \/ EnqueueScheduled(r) \/ EnqueueFails(r) \/ CancelPipelineRun(r)
        PROVE  BeatBound'
    <2>1. UNCHANGED heart
      BY <1>8 DEF EnqueueRun, Spawn, PickUp, CreateRun, PrepareSucceeds, PrepareFails, ExecuteRefuses,
                  ExecuteStarts, ExecuteReturns, Persist, PersistFails, Notify, EnqueueScheduled, EnqueueFails,
                  CancelPipelineRun
    <2>2. \A q \in Run : beat'[q] \in {beat[q], NoBeat}
      BY <1>1, <1>8 DEF EnqueueRun, Spawn, PickUp, CreateRun, PrepareSucceeds, PrepareFails, ExecuteRefuses,
                  ExecuteStarts, ExecuteReturns, Persist, PersistFails, Notify, EnqueueScheduled, EnqueueFails,
                  CancelPipelineRun, store
    <2>3. \A q \in Run : pc'[q] \in {"idle", "created", "queued", "spawned"} =>
                           pc[q] \in {"idle", "created", "queued", "spawned"}
      BY <1>1, <1>8 DEF EnqueueRun, Spawn, PickUp, CreateRun, PrepareSucceeds, PrepareFails, ExecuteRefuses,
                  ExecuteStarts, ExecuteReturns, Persist, PersistFails, Notify, EnqueueScheduled, EnqueueFails,
                  CancelPipelineRun, Goto
    <2>4. QED
      BY <1>7, <2>1, <2>2, <2>3 DEF heart
  <1>9. ASSUME NEW r \in Run, Teardown(r) \/ DeadlineExpires(r) PROVE BeatBound'
    <2>1. beat' = beat /\ missed' = missed /\ ticking' = [ticking EXCEPT ![r] = FALSE] /\ due' = [due EXCEPT ![r] = FALSE]
          /\ (pc' = pc \/ pc' = [pc EXCEPT ![r] = "done"])
      BY <1>9 DEF Teardown, DeadlineExpires, store, Goto
    <2>2. QED
      BY <1>1, <1>7, <2>1
  <1>10. ASSUME NEW p \in Process, Exit(p) \/ Crash(p) PROVE BeatBound'
    <2>1. ProcessEnds(p) /\ beat' = beat /\ missed' = missed
      BY <1>10 DEF Exit, Crash, store, ProcessEnds
    <2>2. \A r \in Run : ticking'[r] => ticking[r] /\ due'[r] = due[r]
      BY <1>1, <2>1 DEF ProcessEnds
    <2>3. \A r \in Run : pc'[r] \in {"idle", "created", "queued", "spawned"} =>
                           pc[r] \in {"idle", "created", "queued", "spawned"}
      BY <1>1, <2>1 DEF ProcessEnds
    <2>4. QED
      BY <1>7, <2>1, <2>2, <2>3
  <1>11. ASSUME NEW p \in Process, Shutdown(p) \/ Boot(p) PROVE BeatBound'
    <2>1. UNCHANGED <<beat, pc, ticking, due, missed>>
      BY <1>11 DEF Shutdown, Boot, store, heart
    <2>2. QED
      BY <1>7, <2>1
  <1>12. QED
    BY <1>4, <1>5, <1>6, <1>8, <1>9, <1>10, <1>11 DEF Next, RunStep

LEMMA CoordStep ==
  ASSUME CoordIInv, [Next]_vars
  PROVE  CoordIInv'
  <1>1. IInv'
    BY NextPreserves DEF CoordIInv
  <1>2. CASE UNCHANGED vars
    BY <1>1, <1>2 DEF vars, store, executor, heart, CoordIInv, SlotsAccounted, DownIsEmpty, BeatBound, On, Alive,
                      Coordinated
  <1>3. CASE Next
    <2>1. SlotsAccounted'
      BY <1>3, RunKeepsSlots, ProcessKeepsSlots DEF Next
    <2>2. QED
      BY <1>1, <1>3, <2>1, DownStaysEmpty, BeatsKept DEF CoordIInv
  <1>4. QED
    BY <1>2, <1>3

\* The coordinator never loses or invents a slot, heartbeats end with their run,
\* and a run that is kept alive and has its heartbeat on record is not taken for an
\* orphan by another replica's sweep before it has missed orphanThreshold - 1 writes
\* in a row: for any runs, processes, crashes and restarts, and any number of faults
\* (SpawnWithDeadline, startHeartbeat, SweepOrphans).
THEOREM CoordinatorInvariant == Spec => []CoordinatorInv
  <1>1. CoordIInv => CoordinatorInv
    <2>1. SUFFICES ASSUME CoordIInv, NEW r \in Run, ticking[r], beat[r] # NoBeat,
                          missed[r] + 1 < OrphanThreshold
                   PROVE  ~MayBeStale(r)
      BY DEF CoordIInv, IInv, CoordinatorInv, HeartbeatFresh
    <2>2. /\ beat[r] \in Nat /\ missed[r] \in Nat /\ OrphanThreshold \in Nat
          /\ due[r] \in BOOLEAN
      BY <2>1, RunAssumption DEF CoordIInv, IInv, TypeOK, Age
    <2>3. beat[r] <= missed[r] + 1
      BY <2>1, <2>2 DEF CoordIInv, BeatBound
    <2>4. QED
      BY <2>1, <2>2, <2>3 DEF MayBeStale, Stale
  <1>2. QED
    BY <1>1, CoordInitially, CoordStep, PTL DEF Spec

=============================================================================
