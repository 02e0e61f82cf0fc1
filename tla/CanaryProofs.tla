---------------------------- MODULE CanaryProofs ----------------------------
(***************************************************************************)
(* Proofs about Canary for every set of rollouts, resolvers and sweepers,  *)
(* every configuration and every number of faults.                         *)
(***************************************************************************)
EXTENDS Canary, TLAPS

\* splitReplicas never asks for more pods than the pool has.
LEMMA PodsInPool ==
  ASSUME NEW w \in Nat
  PROVE  CanaryPods(w) \in 0..Pool
  BY CanaryAssumption DEF CanaryPods

\* The normalised configuration of a rollout is well typed.
LEMMA ConfigTyped ==
  ASSUME NEW c \in Rollout
  PROVE  Weight(c) \in Nat /\ Window(c) \in Nat /\ AutoPromote(c) \in BOOLEAN
  <1>1. Config[c] \in ConfigType
    BY CanaryAssumption
  <1>2. /\ Normalize(Config[c]).weight \in Nat
        /\ Normalize(Config[c]).window \in Nat
        /\ Normalize(Config[c]).auto \in BOOLEAN
    <2>1. CASE Config[c].strategy # "canary"
      BY <2>1 DEF Normalize
    <2>2. CASE Config[c].strategy = "canary"
      BY <1>1, <2>2, CanaryAssumption DEF Normalize, ConfigType
    <2>3. QED
      BY <2>1, <2>2
  <1>3. QED
    BY <1>2 DEF Weight, Window, AutoPromote

\* The manifests of a rollout are well typed.
LEMMA SplitTyped ==
  ASSUME TypeOK, NEW c \in Rollout, NEW w \in Nat
  PROVE  Split(c, w) \in [stable : Track, canary : Track]
  BY PodsInPool, CanaryAssumption DEF TypeOK, Split, Track, Image

\* Every step of a Start preserves the type invariant.
LEMMA TypeStart ==
  ASSUME TypeOK, NEW c \in Rollout, StartStep(c)
  PROVE  TypeOK'
  <1> USE DEF TypeOK, rows, resolvers, StartPoint, CanaryStatus, Active, EndStart, UseFault
  <1>1. CASE StartReserve(c)
    BY <1>1 DEF StartReserve
  <1>2. CASE StartResolve(c)
    BY <1>2 DEF StartResolve, Image
  <1>3. CASE StartBuilt(c)
    BY <1>3 DEF StartBuilt, Image
  <1>4. CASE StartSplit(c)
    <2>1. pods' \in [stable : Track, canary : Track]
      BY <1>4, SplitTyped, ConfigTyped DEF StartSplit
    <2>2. QED
      BY <1>4, <2>1 DEF StartSplit
  <1>5. CASE StartFails(c)
    <2>1. Split(c, Weight(c)) \in [stable : Track, canary : Track]
      BY SplitTyped, ConfigTyped
    <2>2. pods' \in [stable : Track, canary : Track]
      BY <1>5, <2>1 DEF StartFails, PartlyApplied
    <2>3. faults' \in Nat
      BY <1>5 DEF StartFails
    <2>4. QED
      BY <1>5, <2>2, <2>3 DEF StartFails, FailPending
  <1>6. CASE StartPersist(c)
    BY <1>6, ConfigTyped DEF StartPersist
  <1>7. CASE StartPersistFails(c)
    BY <1>7 DEF StartPersistFails
  <1>8. CASE StartDies(c)
    BY <1>8 DEF StartDies
  <1>9. QED
    BY <1>1, <1>2, <1>3, <1>4, <1>5, <1>6, <1>7, <1>8 DEF StartStep

\* A call that returns leaves its resolver well typed.
LEMMA ReturnTyped ==
  ASSUME TypeOK, NEW a \in Resolver, Return(a)
  PROVE  /\ pc' \in [Resolver -> ResolverPoint]
         /\ tgt' \in [Resolver -> Rollout \cup {NoImage}]
         /\ want' \in [Resolver -> {"promoted", "aborted"}]
         /\ after' \in [Resolver -> {"idle", "delete"}]
         /\ ripe' \in [Resolver -> BOOLEAN]
  BY DEF TypeOK, Return, ResolverPoint

\* A resolver's step to another point leaves its other locals typed.
LEMMA ClaimTerminalTyped ==
  ASSUME TypeOK, NEW a \in Resolver, NEW p \in ResolverPoint, ClaimTerminal(a, p)
  PROVE  /\ row' \in [Rollout -> CanaryStatus \cup {"absent", "deleted"}]
         /\ pc' \in [Resolver -> ResolverPoint]
         /\ tgt' \in [Resolver -> Rollout \cup {NoImage}]
         /\ want' \in [Resolver -> {"promoted", "aborted"}]
         /\ after' \in [Resolver -> {"idle", "delete"}]
         /\ ripe' \in [Resolver -> BOOLEAN]
  <1>1. CASE row[tgt[a]] = "progressing"
    BY <1>1 DEF TypeOK, ClaimTerminal, CanaryStatus, Active
  <1>2. CASE row[tgt[a]] # "progressing"
    <2>1. Return(a) /\ UNCHANGED row
      BY <1>2 DEF ClaimTerminal
    <2>2. QED
      BY <2>1, ReturnTyped DEF TypeOK
  <1>3. QED
    BY <1>1, <1>2

\* Every step of a resolver preserves the type invariant.
LEMMA TypeResolver ==
  ASSUME TypeOK, ResolverPhases, NEW a \in Resolver, ResolverStep(a) \/ ResolverFault(a)
  PROVE  TypeOK'
  <1> DEFINE Typed == /\ pc' \in [Resolver -> ResolverPoint]
                      /\ tgt' \in [Resolver -> Rollout \cup {NoImage}]
                      /\ want' \in [Resolver -> {"promoted", "aborted"}]
                      /\ after' \in [Resolver -> {"idle", "delete"}]
                      /\ ripe' \in [Resolver -> BOOLEAN]
  <1>0. ASSUME Return(a) PROVE Typed
    BY <1>0, ReturnTyped
  <1>c. ASSUME NEW p \in {"shift", "record"}, ClaimTerminal(a, p)
        PROVE Typed /\ row' \in [Rollout -> CanaryStatus \cup {"absent", "deleted"}]
    <2>1. p \in ResolverPoint
      BY DEF ResolverPoint, Claimed
    <2>2. QED
      BY <1>c, <2>1, ClaimTerminalTyped
  <1> USE DEF TypeOK, rows, starts, ResolverPoint, Claimed, CanaryStatus, Active, At, UseFault
  <1>1. CASE LoadActive(a)
    <2>1. CASE app /\ \E c \in Rollout : row[c] = "progressing"
      BY <1>1, <2>1 DEF LoadActive
    <2>2. CASE ~(app /\ \E c \in Rollout : row[c] = "progressing")
      BY <1>0, <1>1, <2>2 DEF LoadActive
    <2>3. QED
      BY <2>1, <2>2
  <1>2. CASE Claim(a)
    <2>1. ClaimTerminal(a, "shift")
      BY <1>2 DEF Claim
    <2>2. Typed /\ row' \in [Rollout -> CanaryStatus \cup {"absent", "deleted"}]
      BY <2>1, <1>c
    <2>3. QED
      BY <1>2, <2>2 DEF Claim
  <1>3. CASE Shift(a)
    <2>1. tgt[a] \in Rollout /\ VerdictWeight(a) \in Nat
      BY <1>3 DEF Shift, ResolverPhases, VerdictWeight
    <2>2. pods' \in [stable : Track, canary : Track]
      BY <1>3, <2>1, SplitTyped DEF Shift
    <2>3. QED
      BY <1>3, <2>2 DEF Shift
  <1>4. CASE ShiftFails(a)
    <2>1. tgt[a] \in Rollout /\ VerdictWeight(a) \in Nat
      BY <1>4 DEF ShiftFails, ResolverPhases, VerdictWeight
    <2>2. Split(tgt[a], VerdictWeight(a)) \in [stable : Track, canary : Track]
      BY <2>1, SplitTyped
    <2>3. pods' \in [stable : Track, canary : Track]
      BY <1>4, <2>2 DEF ShiftFails, PartlyApplied
    <2>4. QED
      BY <1>4, <2>3 DEF ShiftFails
  <1>5. CASE Revert(a)
    BY <1>0, <1>5 DEF Revert
  <1>6. CASE Record(a)
    BY <1>0, <1>6 DEF Record, ResolverPhases
  <1>7. CASE DeleteApp(a)
    BY <1>7 DEF DeleteApp
  <1>8. CASE SweepReap(a)
    BY <1>8 DEF SweepReap
  <1>9. CASE SweepList(a)
    <2>1. CASE \A c \in Rollout : row[c] # "progressing"
      BY <1>0, <1>9, <2>1 DEF SweepList
    <2>a. CASE \E c \in Rollout : row[c] = "progressing"
      <3>1. PICK c \in Rollout :
              /\ tgt' = [tgt EXCEPT ![a] = c]
              /\ ripe' = [ripe EXCEPT ![a] = AutoPromote(c) /\ soak[c] = 0]
              /\ pc' = [pc EXCEPT ![a] = "lookup"]
              /\ UNCHANGED <<want, after>>
        BY <1>9, <2>a DEF SweepList
      <3>2. (AutoPromote(c) /\ soak[c] = 0) \in BOOLEAN
        OBVIOUS
      <3>3. Typed
        BY <3>1, <3>2
      <3>4. QED
        BY <1>9, <3>3 DEF SweepList
    <2>2. QED
      BY <2>1, <2>a
  <1>10. CASE SweepLookup(a)
    <2>1. Typed
      BY <1>0, <1>10 DEF SweepLookup
    <2>2. QED
      BY <1>10, <2>1 DEF SweepLookup
  <1>11. CASE SweepEvaluate(a)
    <2>1. Typed
      <3>1. PICK probe \in Probe :
              LET verdict == Decide(probe, age[tgt[a]] > HardDeadline) IN
              IF verdict = "wait"
                THEN Return(a)
                ELSE /\ want' = [want EXCEPT ![a] = verdict]
                     /\ pc' = [pc EXCEPT ![a] = "load"]
                     /\ UNCHANGED <<tgt, after, ripe>>
        BY <1>11 DEF SweepEvaluate
      <3>2. Decide(probe, age[tgt[a]] > HardDeadline) \in {"promoted", "aborted", "wait"}
        BY CanaryAssumption DEF Decide
      <3>3. QED
        BY <1>0, <3>1, <3>2
    <2>2. QED
      BY <1>11, <2>1 DEF SweepEvaluate
  <1>12. CASE ReapAppGone(a)
    <2>1. ClaimTerminal(a, "record")
      BY <1>12 DEF ReapAppGone
    <2>2. Typed /\ row' \in [Rollout -> CanaryStatus \cup {"absent", "deleted"}]
      BY <2>1, <1>c
    <2>3. QED
      BY <1>12, <2>2 DEF ReapAppGone
  <1>13. CASE StatementFails(a)
    <2>1. Typed /\ UNCHANGED <<stable, age, soak, latest, starts, pods, app, shifted>>
      BY <1>0, <1>13 DEF StatementFails
    <2>2. row' \in [Rollout -> CanaryStatus \cup {"absent", "deleted"}] /\ faults' \in Nat
      BY <1>13 DEF StatementFails
    <2>3. QED
      BY <2>1, <2>2
  <1>14. CASE ResolverStops(a)
    BY <1>14 DEF ResolverStops
  <1>15. QED
    BY <1>1, <1>2, <1>3, <1>4, <1>5, <1>6, <1>7, <1>8, <1>9, <1>10, <1>11, <1>12, <1>13,
       <1>14 DEF ResolverStep, ResolverFault

-----------------------------------------------------------------------------
\* A row that is absent, pending or progressing is in nobody's claim, and the
\* cluster has acknowledged no verdict for it.
LEMMA OpenIsUnclaimed ==
  ASSUME IInv, NEW c \in Rollout, row[c] \in Active \cup {"absent"}
  PROVE  /\ shifted[c] = "none"
         /\ \A a \in Resolver : pc[a] \in Claimed => tgt[a] # c
  <1>1. shifted[c] = "none"
    BY DEF IInv, TypeOK, ShiftedIsClaimed, Active
  <1>2. ASSUME NEW a \in Resolver, pc[a] \in Claimed PROVE tgt[a] # c
    BY <1>2 DEF IInv, TypeOK, ClaimHeld, Active
  <1>3. QED
    BY <1>1, <1>2

\* A Start step changes the row of an unclaimed rollout only.
LEMMA StartLocal ==
  ASSUME IInv, NEW c \in Rollout, StartStep(c)
  PROVE  /\ UNCHANGED <<resolvers, shifted, app, age>>
         /\ \A d \in Rollout \ {c} : row'[d] = row[d] /\ start'[d] = start[d]
         /\ row'[c] # row[c] =>
              /\ row[c] \in Active \cup {"absent"}
              /\ row'[c] \in Active => row[c] \in Active \/ ~SlotTaken(c)
         /\ start'[c] = "idle" => start[c] = "idle" /\ row'[c] = row[c]
         /\ start'[c] \in StartRunning => age[c] <= StartTimeout
                           /\ (row'[c] = "pending" \/ (~app /\ row'[c] = "deleted"))
  <1> USE DEF IInv, TypeOK, StartPhases, rows, starts, StartRunning, EndStart, Active
  <1>1. CASE StartReserve(c)
    BY <1>1, CanaryAssumption DEF StartReserve
  <1>2. CASE StartResolve(c) \/ StartBuilt(c) \/ StartSplit(c)
    BY <1>2 DEF StartResolve, StartBuilt, StartSplit
  <1>3. CASE StartFails(c)
    BY <1>3 DEF StartFails, FailPending
  <1>4. CASE StartPersist(c)
    BY <1>4 DEF StartPersist, UpdateHits
  <1>5. CASE StartPersistFails(c) \/ StartDies(c)
    BY <1>5 DEF StartPersistFails, StartDies
  <1>6. QED
    BY <1>1, <1>2, <1>3, <1>4, <1>5 DEF StartStep

\* Every step of a Start preserves the inductive invariant.
LEMMA InvStart ==
  ASSUME IInv, NEW c \in Rollout, StartStep(c)
  PROVE  IInv'
  <1>1. TypeOK'
    BY TypeStart DEF IInv
  <1>2. /\ UNCHANGED <<resolvers, shifted, app, age>>
        /\ \A d \in Rollout \ {c} : row'[d] = row[d] /\ start'[d] = start[d]
        /\ row'[c] # row[c] =>
              /\ row[c] \in Active \cup {"absent"}
              /\ row'[c] \in Active => row[c] \in Active \/ ~SlotTaken(c)
        /\ start'[c] = "idle" => start[c] = "idle" /\ row'[c] = row[c]
        /\ start'[c] \in StartRunning => age[c] <= StartTimeout
                           /\ (row'[c] = "pending" \/ (~app /\ row'[c] = "deleted"))
    BY StartLocal
  <1>3. row'[c] # row[c] => /\ shifted[c] = "none"
                            /\ \A a \in Resolver : pc[a] \in Claimed => tgt[a] # c
    BY <1>2, OpenIsUnclaimed
  <1>4. OneActive'
    BY <1>2 DEF IInv, OneActive, SlotTaken
  <1>5. ResolverPhases'
    BY <1>2 DEF IInv, ResolverPhases, resolvers
  <1>6. StartPhases'
    BY <1>2 DEF IInv, StartPhases
  <1>7. ClaimHeld'
    <2> SUFFICES ASSUME NEW a \in Resolver, pc'[a] \in Claimed
                 PROVE  /\ row'[tgt'[a]] \in {want'[a], "deleted"}
                        /\ \A b \in Resolver \ {a} : pc'[b] \in Claimed => tgt'[b] # tgt'[a]
      BY DEF ClaimHeld
    <2>1. pc[a] \in Claimed /\ UNCHANGED <<pc, tgt, want>>
      BY <1>2 DEF resolvers
    <2>2. tgt[a] \in Rollout
      BY <2>1 DEF IInv, ResolverPhases
    <2>3. row'[tgt[a]] = row[tgt[a]]
      BY <1>2, <1>3, <2>1, <2>2
    <2>4. QED
      BY <2>1, <2>3 DEF IInv, ClaimHeld
  <1>8. ShiftedIsClaimed'
    BY <1>2, <1>3 DEF IInv, ShiftedIsClaimed, resolvers
  <1>9. QED
    BY <1>1, <1>4, <1>5, <1>6, <1>7, <1>8 DEF IInv

-----------------------------------------------------------------------------
\* What a step of resolver a leaves alone.
OthersKeep(a) ==
    /\ \A b \in Resolver \ {a} : pc'[b] = pc[b] /\ tgt'[b] = tgt[b] /\ want'[b] = want[b]
    /\ UNCHANGED <<start, age>>

\* A resolver that ends up outside a claim, having deleted rows at most,
\* preserves the inductive invariant.
LEMMA InvUnclaimed ==
  ASSUME IInv, TypeOK', NEW a \in Resolver, OthersKeep(a), UNCHANGED shifted,
         pc'[a] \notin Claimed,
         pc'[a] \in {"claim", "claimGone", "lookup", "evaluate"} => tgt'[a] \in Rollout,
         app' => app,
         \A c \in Rollout : row'[c] # row[c] =>
            /\ row'[c] = "deleted" /\ row[c] # "absent"
            /\ ~app' \/ (row[c] = "pending" /\ age[c] > StaleAfter)
  PROVE  IInv'
  <1>1. OneActive'
    BY DEF IInv, OneActive, Active
  <1>2. ResolverPhases'
    BY DEF IInv, ResolverPhases, OthersKeep
  <1>3. StartPhases'
    <2> SUFFICES ASSUME NEW c \in Rollout
                 PROVE  /\ start[c] = "idle" =>
                             row'[c] = "absent" /\ age[c] = 0 /\ shifted[c] = "none"
                        /\ start[c] \in StartRunning => age[c] <= StartTimeout
                             /\ (row'[c] = "pending" \/ (~app' /\ row'[c] = "deleted"))
      BY DEF OthersKeep, StartPhases
    <2>1. CASE row'[c] = row[c]
      BY <2>1 DEF IInv, StartPhases
    <2>2. CASE row'[c] # row[c]
      BY <2>2, StartEndsFirst, CanaryAssumption DEF IInv, TypeOK, StartPhases
    <2>3. QED
      BY <2>1, <2>2
  <1>4. ClaimHeld'
    <2> SUFFICES ASSUME NEW b \in Resolver, pc'[b] \in Claimed
                 PROVE  /\ row'[tgt'[b]] \in {want'[b], "deleted"}
                        /\ \A d \in Resolver \ {b} : pc'[d] \in Claimed => tgt'[d] # tgt'[b]
      BY DEF ClaimHeld
    <2>1. b # a /\ pc[b] \in Claimed /\ tgt'[b] = tgt[b] /\ want'[b] = want[b]
      BY DEF OthersKeep
    <2>2. tgt[b] \in Rollout
      BY <2>1 DEF IInv, ResolverPhases
    <2>3. QED
      BY <2>1, <2>2 DEF IInv, ClaimHeld, OthersKeep
  <1>5. ShiftedIsClaimed'
    BY DEF IInv, ShiftedIsClaimed, OthersKeep
  <1>6. QED
    BY <1>1, <1>2, <1>3, <1>4, <1>5 DEF IInv

\* A resolver that claims the row it works on, or may have, preserves the
\* inductive invariant.
LEMMA InvClaims ==
  ASSUME IInv, TypeOK', NEW a \in Resolver, OthersKeep(a), UNCHANGED <<shifted, app>>,
         tgt[a] \in Rollout, row[tgt[a]] = "progressing",
         row' = [row EXCEPT ![tgt[a]] = want[a]],
         \/ pc'[a] \in {"shift", "record"} /\ tgt'[a] = tgt[a] /\ want'[a] = want[a]
         \/ pc'[a] \in {"idle", "delete"}
  PROVE  IInv'
  <1> DEFINE c == tgt[a]
  <1>0. /\ shifted[c] = "none"
        /\ \A b \in Resolver : pc[b] \in Claimed => tgt[b] # c
    BY OpenIsUnclaimed DEF Active
  <1>1. row'[c] = want[a] /\ want[a] \in {"promoted", "aborted"}
        /\ \A d \in Rollout \ {c} : row'[d] = row[d]
    BY DEF IInv, TypeOK
  <1>2. OneActive'
    BY <1>1 DEF IInv, OneActive, Active
  <1>3. ResolverPhases'
    <2> SUFFICES ASSUME NEW b \in Resolver,
                        pc'[b] \in Claimed \cup {"claim", "claimGone", "lookup", "evaluate"}
                 PROVE  tgt'[b] \in Rollout
      BY DEF ResolverPhases
    <2>1. CASE b = a
      BY <2>1 DEF Claimed
    <2>2. CASE b # a
      BY <2>2 DEF IInv, ResolverPhases, OthersKeep
    <2>3. QED
      BY <2>1, <2>2
  <1>4. StartPhases'
    <2>1. start[c] # "idle" /\ start[c] \notin StartRunning
      BY DEF IInv, StartPhases
    <2>2. QED
      BY <1>1, <2>1 DEF IInv, StartPhases, OthersKeep
  <1>5. ClaimHeld'
    <2> SUFFICES ASSUME NEW b \in Resolver, pc'[b] \in Claimed
                 PROVE  /\ row'[tgt'[b]] \in {want'[b], "deleted"}
                        /\ \A d \in Resolver \ {b} : pc'[d] \in Claimed => tgt'[d] # tgt'[b]
      BY DEF ClaimHeld
    <2>1. CASE b = a
      BY <1>0, <1>1, <2>1 DEF OthersKeep, Claimed
    <2>2. CASE b # a
      <3>1. pc[b] \in Claimed /\ tgt'[b] = tgt[b] /\ want'[b] = want[b]
        BY <2>2 DEF OthersKeep
      <3>2. tgt[b] \in Rollout \ {c}
        BY <1>0, <3>1 DEF IInv, ResolverPhases
      <3>3. row'[tgt'[b]] \in {want'[b], "deleted"}
        BY <1>1, <3>1, <3>2 DEF IInv, ClaimHeld
      <3>4. ASSUME NEW d \in Resolver \ {b}, pc'[d] \in Claimed PROVE tgt'[d] # tgt'[b]
        <4>1. CASE d = a
          BY <3>1, <3>2, <3>4, <4>1 DEF Claimed
        <4>2. CASE d # a
          BY <3>1, <3>4, <4>2 DEF IInv, ClaimHeld, OthersKeep
        <4>3. QED
          BY <4>1, <4>2
      <3>5. QED
        BY <3>3, <3>4
    <2>3. QED
      BY <2>1, <2>2
  <1>6. ShiftedIsClaimed'
    <2> SUFFICES ASSUME NEW d \in Rollout, shifted[d] # "none"
                 PROVE  /\ row'[d] \in {shifted[d], "deleted"}
                        /\ \A b \in Resolver : pc'[b] \in Claimed /\ tgt'[b] = d
                                                  => pc'[b] = "record"
      BY DEF ShiftedIsClaimed
    <2>1. d # c
      BY <1>0
    <2>2. row'[d] \in {shifted[d], "deleted"}
      BY <1>1, <2>1 DEF IInv, ShiftedIsClaimed
    <2>3. ASSUME NEW b \in Resolver, pc'[b] \in Claimed, tgt'[b] = d PROVE pc'[b] = "record"
      BY <2>1, <2>3 DEF IInv, ShiftedIsClaimed, OthersKeep, Claimed
    <2>4. QED
      BY <2>2, <2>3
  <1>7. QED
    BY <1>2, <1>3, <1>4, <1>5, <1>6 DEF IInv

\* Every step of a resolver preserves the inductive invariant.
LEMMA InvResolver ==
  ASSUME IInv, NEW a \in Resolver, ResolverStep(a) \/ ResolverFault(a)
  PROVE  IInv'
  <1>0. TypeOK'
    BY TypeResolver DEF IInv
  <1>1. CASE LoadActive(a) \/ SweepList(a) \/ SweepLookup(a) \/ SweepEvaluate(a)
    <2>1. OthersKeep(a) /\ UNCHANGED <<row, shifted, app>>
      BY <1>1 DEF OthersKeep, LoadActive, SweepList, SweepLookup, SweepEvaluate, Return, rows,
                  starts, IInv, TypeOK
    <2>2. pc'[a] \notin Claimed
      BY <1>1 DEF LoadActive, SweepList, SweepLookup, SweepEvaluate, Return, Claimed, IInv,
                  TypeOK
    <2>3. pc'[a] \in {"claim", "claimGone", "lookup", "evaluate"} => tgt'[a] \in Rollout
      <3>1. CASE LoadActive(a)
        BY <3>1 DEF LoadActive, Return, IInv, TypeOK
      <3>2. CASE SweepList(a)
        BY <3>2 DEF SweepList, Return, IInv, TypeOK
      <3>3. CASE SweepLookup(a)
        BY <3>3 DEF SweepLookup, Return, IInv, TypeOK, ResolverPhases
      <3>4. CASE SweepEvaluate(a)
        BY <3>4 DEF SweepEvaluate, Return, IInv, TypeOK
      <3>5. QED
        BY <1>1, <3>1, <3>2, <3>3, <3>4
    <2>4. QED
      BY <1>0, <2>1, <2>2, <2>3, InvUnclaimed
  <1>2. CASE SweepReap(a) \/ DeleteApp(a) \/ ResolverStops(a)
    <2>1. OthersKeep(a) /\ UNCHANGED shifted /\ (app' => app)
      BY <1>2 DEF OthersKeep, SweepReap, DeleteApp, ResolverStops, At, rows, starts, IInv, TypeOK
    <2>2. pc'[a] \in {"idle", "list"}
      BY <1>2 DEF SweepReap, DeleteApp, ResolverStops, At, IInv, TypeOK
    <2>3. ASSUME NEW c \in Rollout, row'[c] # row[c]
          PROVE  /\ row'[c] = "deleted" /\ row[c] # "absent"
                 /\ ~app' \/ (row[c] = "pending" /\ age[c] > StaleAfter)
      BY <1>2, <2>3 DEF SweepReap, DeleteApp, ResolverStops, rows
    <2>4. QED
      BY <1>0, <2>1, <2>2, <2>3, InvUnclaimed DEF Claimed
  <1>3. CASE Claim(a) \/ ReapAppGone(a)
    <2>1. tgt[a] \in Rollout
      BY <1>3 DEF Claim, ReapAppGone, IInv, ResolverPhases
    <2>2. CASE row[tgt[a]] = "progressing"
      <3>1. OthersKeep(a) /\ UNCHANGED <<shifted, app>>
        BY <1>3, <2>2 DEF Claim, ReapAppGone, ClaimTerminal, OthersKeep, starts, IInv, TypeOK
      <3>2. row' = [row EXCEPT ![tgt[a]] = want[a]]
        BY <1>3, <2>2 DEF Claim, ReapAppGone, ClaimTerminal
      <3>3. pc'[a] \in {"shift", "record"} /\ tgt'[a] = tgt[a] /\ want'[a] = want[a]
        BY <1>3, <2>2 DEF Claim, ReapAppGone, ClaimTerminal, IInv, TypeOK
      <3>4. QED
        BY <1>0, <2>1, <2>2, <3>1, <3>2, <3>3, InvClaims
    <2>3. CASE row[tgt[a]] # "progressing"
      <3>1. OthersKeep(a) /\ UNCHANGED <<shifted, app, row>>
        BY <1>3, <2>3 DEF Claim, ReapAppGone, ClaimTerminal, Return, OthersKeep, starts, IInv,
                          TypeOK
      <3>2. pc'[a] \in {"idle", "delete"}
        BY <1>3, <2>3 DEF Claim, ReapAppGone, ClaimTerminal, Return, IInv, TypeOK
      <3>3. QED
        BY <1>0, <3>1, <3>2, InvUnclaimed DEF Claimed
    <2>4. QED
      BY <2>2, <2>3
  <1>4. CASE StatementFails(a)
    <2>1. OthersKeep(a) /\ UNCHANGED <<shifted, app>> /\ pc'[a] \in {"idle", "delete"}
      BY <1>4 DEF StatementFails, Return, OthersKeep, starts, IInv, TypeOK
    <2>2. CASE UNCHANGED row
      BY <1>0, <2>1, <2>2, InvUnclaimed DEF Claimed
    <2>3. CASE /\ pc[a] \in {"claim", "claimGone"} /\ row[tgt[a]] = "progressing"
               /\ row' = [row EXCEPT ![tgt[a]] = want[a]]
      <3>1. tgt[a] \in Rollout
        BY <2>3 DEF IInv, ResolverPhases
      <3>2. QED
        BY <1>0, <2>1, <2>3, <3>1, InvClaims
    <2>4. QED
      BY <1>4, <2>2, <2>3 DEF StatementFails
  <1>5. CASE Shift(a) \/ ShiftFails(a)
    <2>1. /\ pc[a] = "shift" /\ UNCHANGED <<row, start, age, app, tgt, want>>
          /\ pc'[a] \in {"record", "revert"}
          /\ \A b \in Resolver \ {a} : pc'[b] = pc[b]
      BY <1>5 DEF Shift, ShiftFails, At, rows, starts, IInv, TypeOK
    <2>2. tgt[a] \in Rollout
      BY <2>1 DEF IInv, ResolverPhases, Claimed
    <2>3. shifted[tgt[a]] = "none"
      BY <2>1, <2>2 DEF IInv, ShiftedIsClaimed, Claimed
    <2>4. \/ UNCHANGED shifted
          \/ pc'[a] = "record" /\ shifted' = [shifted EXCEPT ![tgt[a]] = want[a]]
      BY <1>5 DEF Shift, ShiftFails, At, IInv, TypeOK
    <2>5. OneActive' /\ ResolverPhases' /\ ClaimHeld'
      BY <2>1 DEF IInv, OneActive, ResolverPhases, ClaimHeld, Claimed
    <2>6. StartPhases'
      <3>1. row[tgt[a]] \in {want[a], "deleted"} /\ want[a] \in {"promoted", "aborted"}
        BY <2>1 DEF IInv, ClaimHeld, Claimed, TypeOK
      <3>2. start[tgt[a]] # "idle"
        BY <2>2, <3>1 DEF IInv, StartPhases
      <3>3. QED
        BY <2>1, <2>4, <3>2 DEF IInv, StartPhases, TypeOK
    <2>7. ShiftedIsClaimed'
      <3> SUFFICES ASSUME NEW d \in Rollout, shifted'[d] # "none"
                   PROVE  /\ row[d] \in {shifted'[d], "deleted"}
                          /\ \A b \in Resolver : pc'[b] \in Claimed /\ tgt[b] = d
                                                    => pc'[b] = "record"
        BY <2>1 DEF ShiftedIsClaimed
      <3>1. CASE d = tgt[a]
        BY <2>1, <2>2, <2>3, <2>4, <3>1 DEF IInv, TypeOK, ClaimHeld, Claimed
      <3>2. CASE d # tgt[a]
        BY <2>1, <2>4, <3>2 DEF IInv, TypeOK, ShiftedIsClaimed
      <3>3. QED
        BY <3>1, <3>2
    <2>8. QED
      BY <1>0, <2>5, <2>6, <2>7 DEF IInv
  <1>6. CASE Revert(a) \/ Record(a)
    <2> DEFINE c == tgt[a]
    <2>1. /\ pc[a] \in {"revert", "record"} /\ UNCHANGED <<shifted, app>> /\ OthersKeep(a)
          /\ pc'[a] \in {"idle", "delete"}
      BY <1>6 DEF Revert, Record, Return, OthersKeep, starts, IInv, TypeOK
    <2>2. c \in Rollout /\ row[c] \in {want[a], "deleted"} /\ want[a] \in {"promoted", "aborted"}
      BY <2>1 DEF IInv, TypeOK, ResolverPhases, ClaimHeld, Claimed
    <2>3. CASE UNCHANGED row
      BY <1>0, <2>1, <2>3, InvUnclaimed DEF Claimed
    <2>4. CASE row' # row
      <3>1. /\ Revert(a) /\ ~SlotTaken(c) /\ row[c] # "deleted"
            /\ row' = [row EXCEPT ![c] = "progressing"]
        BY <1>6, <2>2, <2>4 DEF Revert, Record, UpdateHits, Active, IInv, TypeOK
      <3>2. row'[c] = "progressing" /\ \A d \in Rollout \ {c} : row'[d] = row[d]
        BY <2>2, <3>1 DEF IInv, TypeOK
      <3>3. shifted[c] = "none"
        BY <2>2, <3>1 DEF IInv, ShiftedIsClaimed, Revert, Claimed
      <3>4. start[c] # "idle" /\ start[c] \notin StartRunning
        BY <2>2, <3>1 DEF IInv, StartPhases
      <3>5. \A b \in Resolver \ {a} : pc[b] \in Claimed => tgt[b] \in Rollout \ {c}
        BY <2>1, <2>2 DEF IInv, ClaimHeld, ResolverPhases, Claimed
      <3>6. OneActive'
        BY <3>1, <3>2 DEF IInv, OneActive, SlotTaken
      <3>7. ResolverPhases'
        BY <2>1 DEF IInv, ResolverPhases, OthersKeep, Claimed
      <3>8. StartPhases'
        BY <2>1, <3>2, <3>4 DEF IInv, StartPhases, OthersKeep
      <3>9. ClaimHeld'
        <4> SUFFICES ASSUME NEW b \in Resolver, pc'[b] \in Claimed
                     PROVE  /\ row'[tgt'[b]] \in {want'[b], "deleted"}
                            /\ \A d \in Resolver \ {b} : pc'[d] \in Claimed => tgt'[d] # tgt'[b]
          BY DEF ClaimHeld
        <4>1. b # a /\ pc[b] \in Claimed /\ tgt'[b] = tgt[b] /\ want'[b] = want[b]
          BY <2>1 DEF OthersKeep, Claimed
        <4>2. row'[tgt[b]] = row[tgt[b]]
          BY <3>2, <3>5, <4>1
        <4>3. QED
          BY <2>1, <4>1, <4>2 DEF IInv, ClaimHeld, OthersKeep, Claimed
      <3>10. ShiftedIsClaimed'
        BY <2>1, <3>2, <3>3 DEF IInv, ShiftedIsClaimed, OthersKeep, Claimed
      <3>11. QED
        BY <1>0, <3>6, <3>7, <3>8, <3>9, <3>10 DEF IInv
    <2>5. QED
      BY <2>3, <2>4
  <1>7. QED
    BY <1>1, <1>2, <1>3, <1>4, <1>5, <1>6 DEF ResolverStep, ResolverFault

-----------------------------------------------------------------------------
\* A new call of an operator preserves the inductive invariant.
LEMMA InvRequest ==
  ASSUME IInv, NEW a \in Resolver, NEW v \in {"promoted", "aborted"},
         NEW n \in {"idle", "delete"}, Request(a, v, n)
  PROVE  IInv'
  <1>1. TypeOK'
    BY DEF IInv, TypeOK, Request, At, rows, starts, ResolverPoint
  <1>2. OthersKeep(a) /\ UNCHANGED <<row, shifted, app>> /\ pc'[a] = "load"
    BY DEF IInv, TypeOK, Request, At, OthersKeep, rows, starts
  <1>3. QED
    BY <1>1, <1>2, InvUnclaimed DEF Claimed

\* The passing of time preserves the inductive invariant: no tick leaves a
\* running Start behind its deadline.
LEMMA InvTick ==
  ASSUME IInv, Tick
  PROVE  IInv'
  <1>0. UNCHANGED <<row, start, pc, tgt, want, app, shifted>>
    BY DEF Tick, starts, resolvers
  <1>1. TypeOK'
    BY DEF IInv, TypeOK, Tick, starts, resolvers
  <1>2. OneActive' /\ ResolverPhases' /\ ClaimHeld' /\ ShiftedIsClaimed'
    BY <1>0 DEF IInv, OneActive, ResolverPhases, ClaimHeld, ShiftedIsClaimed
  <1>3. StartPhases'
    <2> SUFFICES ASSUME NEW c \in Rollout
                 PROVE  /\ start[c] = "idle" =>
                             row[c] = "absent" /\ age'[c] = 0 /\ shifted[c] = "none"
                        /\ start[c] \in StartRunning => age'[c] <= StartTimeout
                             /\ (row[c] = "pending" \/ (~app /\ row[c] = "deleted"))
      BY <1>0 DEF StartPhases
    <2>1. CASE start[c] = "idle"
      BY <2>1 DEF IInv, TypeOK, StartPhases, Tick, StartRunning, Active
    <2>2. CASE start[c] \in StartRunning
      <3>1. age[c] < StartTimeout
        BY <2>2, CanaryAssumption DEF Tick, Expired, IInv, TypeOK
      <3>2. age'[c] \in {age[c], age[c] + 1}
        BY DEF Tick, IInv, TypeOK
      <3>3. age'[c] <= StartTimeout
        BY <3>1, <3>2, CanaryAssumption DEF IInv, TypeOK
      <3>4. QED
        BY <2>2, <3>3 DEF IInv, StartPhases, StartRunning
    <2>3. QED
      BY <2>1, <2>2
  <1>4. QED
    BY <1>1, <1>2, <1>3 DEF IInv

\* The inductive invariant holds initially and is kept by every step.
LEMMA Inductive ==
  /\ Init => IInv
  /\ IInv /\ [Next]_vars => IInv'
  <1>1. Init => IInv
    <2> SUFFICES ASSUME Init PROVE IInv
      OBVIOUS
    <2>1. TypeOK
      BY CanaryAssumption DEF Init, TypeOK, Track, Image, CanaryStatus, StartPoint, ResolverPoint
    <2>2. OneActive /\ StartPhases
      BY DEF Init, OneActive, StartPhases, Active, StartRunning
    <2>3. ResolverPhases /\ ClaimHeld /\ ShiftedIsClaimed
      BY DEF Init, ResolverPhases, ClaimHeld, ShiftedIsClaimed, Claimed
    <2>4. QED
      BY <2>1, <2>2, <2>3 DEF IInv
  <1>2. ASSUME IInv, [Next]_vars PROVE IInv'
    <2>1. CASE UNCHANGED vars
      BY <1>2, <2>1 DEF vars, rows, starts, resolvers, IInv, TypeOK, OneActive, ResolverPhases,
                  StartPhases, ClaimHeld, ShiftedIsClaimed
    <2>2. CASE Next
      BY <1>2, <2>2, InvStart, InvResolver, InvRequest, InvTick DEF Next
    <2>3. QED
      BY <1>2, <2>1, <2>2
  <1>3. QED
    BY <1>1, <1>2

\* The state of the canary service is well typed, whatever the settings.
THEOREM TypeCorrect == Spec => []TypeOK
  <1>1. IInv => TypeOK
    BY DEF IInv
  <1>2. QED
    BY <1>1, Inductive, PTL DEF Spec

\* ClaimTerminal serialises the verdicts of any number of operators and
\* sweepers: a claimed rollout is worked on by its claimant alone.
THEOREM ClaimsAreExclusive == Spec => []ClaimHeld
  <1>1. IInv => ClaimHeld
    BY DEF IInv
  <1>2. QED
    BY <1>1, Inductive, PTL DEF Spec

\* At most one rollout of the app occupies the slot, although claims free it
\* and failed shifts take it back.
THEOREM SlotIsUnique == Spec => []OneActive
  <1>1. IInv => OneActive
    BY DEF IInv
  <1>2. QED
    BY <1>1, Inductive, PTL DEF Spec

\* The reaper never takes the row of a Start that is still running.
THEOREM RunningStartsKeepRows == Spec => []StartKeepsRow
  <1>1. IInv => StartKeepsRow
    BY DEF IInv, StartPhases, StartKeepsRow
  <1>2. QED
    BY <1>1, Inductive, PTL DEF Spec

\* A verdict the cluster acknowledged is never followed by the other one.
THEOREM VerdictsAreFinal == Spec => VerdictFinal
  <1>1. ASSUME IInv, [Next]_vars
        PROVE  [\A c \in Rollout : shifted[c] # "none" => shifted'[c] = shifted[c]]_vars
    <2>1. CASE UNCHANGED shifted
      BY <2>1
    <2>2. CASE shifted' # shifted
      <3>1. PICK a \in Resolver : Shift(a)
        <4>1. Next
          BY <1>1, <2>2 DEF vars
        <4>2. ASSUME NEW c \in Rollout, StartStep(c) PROVE FALSE
          BY <2>2, <4>2, <1>1, StartLocal
        <4>3. QED
          BY <2>2, <4>1, <4>2 DEF Next, Tick, Request, ResolverStep, ResolverFault, LoadActive,
             Claim, Revert, Record, DeleteApp, SweepReap, SweepList, SweepLookup, SweepEvaluate,
             ReapAppGone, ShiftFails, StatementFails, ResolverStops
      <3>2. /\ pc[a] = "shift"
            /\ shifted' = [shifted EXCEPT ![tgt[a]] = want[a]]
        BY <3>1 DEF Shift, At
      <3>3. tgt[a] \in Rollout /\ shifted[tgt[a]] = "none"
        BY <1>1, <3>2 DEF IInv, ResolverPhases, ShiftedIsClaimed, Claimed
      <3>4. QED
        BY <1>1, <3>2, <3>3 DEF IInv, TypeOK
    <2>3. QED
      BY <2>1, <2>2
  <1>2. QED
    BY <1>1, Inductive, PTL DEF Spec, VerdictFinal

\* All that run canary_rollout checks of the claims, the rows and the slot, for
\* any number of rollouts, operators, sweepers and faults.
THEOREM CanaryInvariant == Spec => []CanaryInv
  BY TypeCorrect, ClaimsAreExclusive, SlotIsUnique, RunningStartsKeepRows, PTL DEF CanaryInv

-----------------------------------------------------------------------------
\* A rollout that somebody claimed, or whose verdict is live, has a Start that
\* is over: that Start applies no split and changes no stable image any more.
DecidedIsStarted ==
    /\ \A a \in Resolver : pc[a] \in Claimed => start[tgt[a]] = "done"
    /\ \A c \in Rollout : shifted[c] # "none" => start[c] = "done"

ShownIInv == IInv /\ DecidedIsStarted /\ ClusterShowsVerdict

\* A step that applies nothing leaves the verdict on show.
LEMMA ShownKept ==
  ASSUME ShownIInv, UNCHANGED <<pods, shifted>>,
         \A c \in Rollout : row'[c] = "absent" => row[c] = "absent",
         \A c \in Rollout : shifted[c] # "none" => stable'[c] = stable[c]
  PROVE  ClusterShowsVerdict'
  <1> SUFFICES ASSUME NEW c \in Rollout, shifted'[c] # "none",
                      \A d \in Rollout \ {c} : row'[d] = "absent"
               PROVE  pods' = Split(c, IF shifted[c] = "promoted" THEN 100 ELSE 0)'
    BY DEF ClusterShowsVerdict
  <1>1. pods = Split(c, IF shifted[c] = "promoted" THEN 100 ELSE 0)
    BY DEF ShownIInv, ClusterShowsVerdict
  <1>2. stable'[c] = stable[c]
    OBVIOUS
  <1>3. QED
    BY <1>1, <1>2 DEF Split

\* A Start that is still running belongs to no rollout with a verdict, and it
\* overlaps every rollout that has one.
LEMMA ShownStart ==
  ASSUME ShownIInv, NEW c \in Rollout, StartStep(c)
  PROVE  DecidedIsStarted' /\ ClusterShowsVerdict'
  <1>1. /\ UNCHANGED <<pc, tgt, shifted>>
        /\ \A d \in Rollout \ {c} : row'[d] = row[d] /\ start'[d] = start[d]
    BY StartLocal DEF ShownIInv, resolvers
  <1>2. start[c] # "done"
    BY DEF StartStep, StartReserve, StartResolve, StartBuilt, StartSplit, StartFails,
           StartPersist, StartPersistFails, StartDies, StartRunning
  <1>3. /\ \A d \in Rollout \ {c} : stable'[d] = stable[d]
        /\ row'[c] = "absent" => row[c] = "absent"
    BY DEF ShownIInv, IInv, TypeOK, rows, StartStep, StartReserve, StartResolve, StartBuilt,
           StartSplit, StartFails, FailPending, StartPersist, StartPersistFails, StartDies
  <1>4. pods' # pods => row[c] # "absent"
    BY DEF ShownIInv, IInv, StartPhases, StartRunning, StartStep, StartReserve, StartResolve,
           StartBuilt, StartSplit, StartFails, StartPersist, StartPersistFails, StartDies
  <1>5. DecidedIsStarted'
    <2>1. ASSUME NEW a \in Resolver, pc[a] \in Claimed PROVE start'[tgt[a]] = "done"
      <3>1. tgt[a] \in Rollout /\ start[tgt[a]] = "done"
        BY <2>1 DEF ShownIInv, DecidedIsStarted, IInv, ResolverPhases
      <3>2. QED
        BY <1>1, <1>2, <3>1
    <2>2. ASSUME NEW d \in Rollout, shifted[d] # "none" PROVE start'[d] = "done"
      BY <1>1, <1>2, <2>2 DEF ShownIInv, DecidedIsStarted
    <2>3. QED
      BY <1>1, <2>1, <2>2 DEF DecidedIsStarted
  <1>6. shifted[c] = "none"
    BY <1>2 DEF ShownIInv, DecidedIsStarted
  <1>7. CASE pods' = pods
    BY <1>1, <1>3, <1>5, <1>6, <1>7, ShownKept
  <1>8. CASE pods' # pods
    BY <1>1, <1>3, <1>4, <1>5, <1>6, <1>8 DEF ClusterShowsVerdict
  <1>9. QED
    BY <1>7, <1>8

\* A resolver applies a verdict to a rollout it has claimed, whose row exists:
\* no other rollout is free of overlap then, and its own has no verdict yet.
LEMMA ShownResolver ==
  ASSUME ShownIInv, NEW a \in Resolver, ResolverStep(a) \/ ResolverFault(a)
  PROVE  DecidedIsStarted' /\ ClusterShowsVerdict'
  <1> USE DEF rows, starts
  <1>1. UNCHANGED <<start, stable>>
    BY DEF ResolverStep, ResolverFault, LoadActive, Claim, Shift, Revert, Record, DeleteApp,
           SweepReap, SweepList, SweepLookup, SweepEvaluate, ReapAppGone, ShiftFails,
           StatementFails, ResolverStops
  <1>2. \A b \in Resolver \ {a} : pc'[b] = pc[b] /\ tgt'[b] = tgt[b]
    BY DEF ShownIInv, IInv, TypeOK, ResolverStep, ResolverFault, LoadActive, Claim, Shift, Revert,
           Record, DeleteApp, SweepReap, SweepList, SweepLookup, SweepEvaluate, ReapAppGone,
           ShiftFails, StatementFails, ResolverStops, Return, At, ClaimTerminal
  <1>3. CASE Shift(a) \/ ShiftFails(a)
    <2>1. pc[a] = "shift" /\ UNCHANGED <<row, tgt>>
      BY <1>3 DEF Shift, ShiftFails, At
    <2>2. tgt[a] \in Rollout /\ start[tgt[a]] = "done"
      BY <2>1 DEF ShownIInv, IInv, ResolverPhases, DecidedIsStarted, Claimed
    <2>3. row[tgt[a]] # "absent" /\ shifted[tgt[a]] = "none" /\ want[a] \in {"promoted", "aborted"}
      BY <2>1, <2>2 DEF ShownIInv, IInv, TypeOK, ClaimHeld, ShiftedIsClaimed, Claimed
    <2>4. \/ Shift(a) /\ shifted' = [shifted EXCEPT ![tgt[a]] = want[a]]
          \/ UNCHANGED shifted
      BY <1>3 DEF Shift, ShiftFails
    <2>5. \A d \in Rollout \ {tgt[a]} : shifted'[d] = shifted[d]
      BY <2>4 DEF ShownIInv, IInv, TypeOK
    <2>6. DecidedIsStarted'
      <3>1. ASSUME NEW b \in Resolver, pc'[b] \in Claimed PROVE start[tgt[b]] = "done"
        <4>1. CASE b = a
          BY <2>2, <4>1
        <4>2. CASE b # a
          BY <1>2, <3>1, <4>2 DEF ShownIInv, DecidedIsStarted
        <4>3. QED
          BY <4>1, <4>2
      <3>2. ASSUME NEW d \in Rollout, shifted'[d] # "none" PROVE start[d] = "done"
        BY <2>2, <2>5, <3>2 DEF ShownIInv, DecidedIsStarted
      <3>3. QED
        BY <1>1, <2>1, <3>1, <3>2 DEF DecidedIsStarted
    <2>7. ClusterShowsVerdict'
      <3> SUFFICES ASSUME NEW c \in Rollout, shifted'[c] # "none",
                          \A d \in Rollout \ {c} : row[d] = "absent"
                   PROVE  pods' = Split(c, IF shifted[c] = "promoted" THEN 100 ELSE 0)'
        BY <2>1 DEF ClusterShowsVerdict
      <3>1. c = tgt[a]
        BY <2>2, <2>3
      <3>2. Shift(a) /\ shifted'[c] = want[a]
        BY <2>2, <2>3, <2>4, <3>1 DEF ShownIInv, IInv, TypeOK
      <3>3. pods' = Split(c, VerdictWeight(a))
        BY <3>1, <3>2 DEF Shift
      <3>4. QED
        BY <1>1, <2>3, <3>2, <3>3 DEF VerdictWeight, Split
    <2>8. QED
      BY <2>6, <2>7
  <1>4. CASE ~(Shift(a) \/ ShiftFails(a))
    <2>1. UNCHANGED <<pods, shifted>>
      BY <1>4 DEF ResolverStep, ResolverFault, LoadActive, Claim, Revert, Record, DeleteApp,
             SweepReap, SweepList, SweepLookup, SweepEvaluate, ReapAppGone, StatementFails,
             ResolverStops
    <2>2. ASSUME NEW c \in Rollout, row'[c] = "absent" PROVE row[c] = "absent"
      BY <1>4, <2>2 DEF ShownIInv, IInv, TypeOK, ResolverStep, ResolverFault, LoadActive, Claim,
             Revert, Record, DeleteApp, SweepReap, SweepList, SweepLookup, SweepEvaluate,
             ReapAppGone, StatementFails, ResolverStops, ClaimTerminal
    <2>3. ClusterShowsVerdict'
      BY <1>1, <2>1, <2>2, ShownKept
    <2>4. ASSUME pc'[a] \in Claimed PROVE start[tgt'[a]] = "done"
      <3>1. /\ Claim(a) \/ ReapAppGone(a)
            /\ row[tgt[a]] = "progressing" /\ tgt'[a] = tgt[a]
        BY <1>4, <2>4 DEF ShownIInv, IInv, TypeOK, ResolverStep, ResolverFault, LoadActive, Claim,
             Revert, Record, DeleteApp, SweepReap, SweepList, SweepLookup, SweepEvaluate,
             ReapAppGone, StatementFails, ResolverStops, ClaimTerminal, Return, At, Claimed
      <3>2. tgt[a] \in Rollout
        BY <3>1 DEF ShownIInv, IInv, ResolverPhases, Claim, ReapAppGone
      <3>3. start[tgt[a]] \notin {"idle"} \cup StartRunning /\ start[tgt[a]] \in StartPoint
        BY <3>1, <3>2 DEF ShownIInv, IInv, TypeOK, StartPhases
      <3>4. QED
        BY <3>1, <3>3 DEF StartPoint, StartRunning
    <2>5. DecidedIsStarted'
      BY <1>1, <1>2, <2>1, <2>4 DEF ShownIInv, DecidedIsStarted
    <2>6. QED
      BY <2>3, <2>5
  <1>5. QED
    BY <1>3, <1>4

\* The live Deployments show the verdict the cluster acknowledged last for a
\* rollout that no other overlapped: weightedManifestFor of Promote or Abort is
\* the last one applied, whatever is deleted, retried or lost afterwards.
THEOREM ClusterShows == Spec => []ClusterShowsVerdict
  <1>1. Init => ShownIInv
    BY Inductive DEF ShownIInv, Init, DecidedIsStarted, ClusterShowsVerdict, Claimed
  <1>2. ASSUME ShownIInv, [Next]_vars PROVE ShownIInv'
    <2>1. IInv'
      BY <1>2, Inductive DEF ShownIInv
    <2>2. CASE UNCHANGED vars
      <3>1. ClusterShowsVerdict'
        BY <1>2, <2>2, ShownKept DEF vars, rows
      <3>2. QED
        BY <1>2, <2>1, <2>2, <3>1 DEF vars, starts, resolvers, ShownIInv, DecidedIsStarted
    <2>3. CASE Next
      <3>1. CASE \E c \in Rollout : StartStep(c)
        BY <1>2, <2>1, <3>1, ShownStart DEF ShownIInv
      <3>2. CASE \E a \in Resolver : ResolverStep(a) \/ ResolverFault(a)
        BY <1>2, <2>1, <3>2, ShownResolver DEF ShownIInv
      <3>3. ASSUME NEW a \in Resolver, NEW v \in {"promoted", "aborted"},
                   NEW n \in {"idle", "delete"}, Request(a, v, n)
            PROVE  ShownIInv'
        <4>1. UNCHANGED <<pods, shifted, row, stable, start, tgt>> /\ pc' = [pc EXCEPT ![a] = "load"]
          BY <3>3 DEF Request, At, rows, starts
        <4>2. ClusterShowsVerdict'
          BY <1>2, <4>1, ShownKept
        <4>3. DecidedIsStarted'
          BY <1>2, <4>1 DEF ShownIInv, IInv, TypeOK, DecidedIsStarted, Claimed
        <4>4. QED
          BY <2>1, <4>2, <4>3 DEF ShownIInv
      <3>4. CASE Tick
        <4>1. UNCHANGED <<pods, shifted, row, stable, start, tgt, pc>>
          BY <3>4 DEF Tick, starts, resolvers
        <4>2. ClusterShowsVerdict'
          BY <1>2, <4>1, ShownKept
        <4>3. QED
          BY <1>2, <2>1, <4>1, <4>2 DEF ShownIInv, DecidedIsStarted
      <3>5. QED
        BY <2>3, <3>1, <3>2, <3>3, <3>4 DEF Next
    <2>4. QED
      BY <1>2, <2>2, <2>3
  <1>3. ShownIInv => ClusterShowsVerdict
    BY DEF ShownIInv
  <1>4. QED
    BY <1>1, <1>2, <1>3, PTL DEF Spec

=============================================================================
