----------------------------- MODULE EdgeProofs -----------------------------
(***************************************************************************)
(* Proofs about the WebSocket tickets, the rate limiter, the browser's log *)
(* viewer, the server process, the idempotency cache and the live log of a *)
(* stage, for every set of tickets, upgrade requests, paths, requests,     *)
(* keys and users, any burst, size and cap, every log and configuration.   *)
(***************************************************************************)
EXTENDS WsTickets, RateLimit, LiveViewer, ServerLifecycle, Idempotency, LogStream,
        SequenceTheorems, FiniteSetTheorems, WellFoundedInduction, TLAPS

-----------------------------------------------------------------------------
(* WebSocket tickets *)

\* A ticket that opened a connection has left the store: this is what makes
\* TicketAdmitsOnce inductive.
SpentIsGone == \A d \in Dial : dial[d] = "admitted" => ticket[TicketOf[d]] = "gone"

TicketIInv == TicketInv /\ SpentIsGone

LEMMA TicketInitially == TicketInit => TicketIInv
  <1>1. (CHOOSE p \in Path : TRUE) \in Path
    BY TicketAssumption
  <1>2. QED
    BY <1>1 DEF TicketInit, TicketIInv, TicketInv, TicketTypeOK, TicketAdmitsOnce, SpentIsGone, Role

\* The gate admits a request only with a live ticket, which it takes out of the
\* store.
LEMMA TicketGate ==
  ASSUME TicketIInv, NEW d \in Dial, NEW p \in Path, Gate(d, p)
  PROVE  TicketIInv'
  <1> DEFINE t == TicketOf[d]
  <1>1. t \in Ticket
    BY TicketAssumption
  <1>2. /\ dialled' = [dialled EXCEPT ![d] = p]
        /\ ticket' = [ticket EXCEPT ![t] = IF @ = "unborn" THEN @ ELSE "gone"]
        /\ dial[d] = "idle" /\ grant' = grant /\ ticketStore' = ticketStore
    BY DEF Gate, Consume
  <1>3. /\ burnt' \in {burnt, 1}
        /\ \/ dial' = [dial EXCEPT ![d] = "denied"]
           \/ /\ dial' = [dial EXCEPT ![d] = "admitted"]
              /\ ticket[t] = "live" /\ grant[t].path = p /\ RoleAllows(grant[t].role, p)
    BY DEF Gate
  <1>4. TicketTypeOK'
    BY <1>1, <1>2, <1>3 DEF TicketIInv, TicketInv, TicketTypeOK
  <1>5. SpentIsGone'
    BY <1>1, <1>2, <1>3, TicketAssumption DEF TicketIInv, TicketInv, TicketTypeOK, SpentIsGone
  <1>6. TicketAdmitsOnce'
    <2> SUFFICES ASSUME NEW e \in Dial, dial'[e] = "admitted"
                 PROVE  /\ \A f \in Dial \ {e} : TicketOf[f] = TicketOf[e] => dial'[f] # "admitted"
                        /\ dialled'[e] = grant'[TicketOf[e]].path
                        /\ dialled'[e] \in WritePath => grant'[TicketOf[e]].role = "operator"
      BY DEF TicketAdmitsOnce
    <2>1. CASE e = d
      <3>1. ticket[t] = "live" /\ grant[t].path = p /\ RoleAllows(grant[t].role, p)
        BY <1>2, <1>3, <2>1 DEF TicketIInv, TicketInv, TicketTypeOK
      <3>2. \A f \in Dial \ {d} : TicketOf[f] = t => dial'[f] # "admitted"
        BY <1>3, <3>1 DEF TicketIInv, TicketInv, TicketTypeOK, SpentIsGone
      <3>3. QED
        BY <1>2, <2>1, <3>1, <3>2 DEF RoleAllows, TicketIInv, TicketInv, TicketTypeOK
    <2>2. CASE e # d
      <3>1. dial[e] = "admitted" /\ ticket[TicketOf[e]] = "gone"
        BY <1>3, <2>2 DEF TicketIInv, TicketInv, TicketTypeOK, SpentIsGone
      <3>2. dial'[d] = "admitted" => TicketOf[d] # TicketOf[e]
        BY <1>2, <1>3, <3>1 DEF TicketIInv, TicketInv, TicketTypeOK
      <3>3. \A f \in Dial \ {e} : TicketOf[f] = TicketOf[e] => dial'[f] # "admitted"
        BY <1>3, <3>1, <3>2 DEF TicketIInv, TicketInv, TicketTypeOK, TicketAdmitsOnce
      <3>4. QED
        BY <1>2, <2>2, <3>1, <3>3 DEF TicketIInv, TicketInv, TicketTypeOK, TicketAdmitsOnce
    <2>3. QED
      BY <2>1, <2>2
  <1>7. QED
    BY <1>4, <1>5, <1>6 DEF TicketIInv, TicketInv

\* A ticket that is minted, expires or is collected was not spent.
LEMMA TicketStep ==
  ASSUME TicketIInv, [TicketNext]_ticketVars
  PROVE  TicketIInv'
  <1>1. ASSUME NEW t \in Ticket, NEW p \in Path, NEW r \in Role, IssueTicket(t, p, r)
        PROVE  TicketIInv'
    <2>1. ticket[t] = "unborn" /\ dial' = dial /\ dialled' = dialled /\ ticketStore' = ticketStore
          /\ grant' = [grant EXCEPT ![t] = [path |-> p, role |-> r]]
      BY <1>1 DEF IssueTicket
    <2>2. (ticket' = [ticket EXCEPT ![t] = "live"] \/ ticket' = [ticket EXCEPT ![t] = "gone"])
          /\ burnt' \in {burnt, 1}
      BY <1>1 DEF IssueTicket
    <2>3. \A d \in Dial : dial[d] = "admitted" => TicketOf[d] # t
      BY <2>1 DEF TicketIInv, SpentIsGone
    <2>4. TicketTypeOK'
      BY <2>1, <2>2 DEF TicketIInv, TicketInv, TicketTypeOK
    <2>5. SpentIsGone'
      BY <2>1, <2>2, <2>3, TicketAssumption DEF TicketIInv, TicketInv, TicketTypeOK, SpentIsGone
    <2>6. TicketAdmitsOnce'
      BY <2>1, <2>3, TicketAssumption DEF TicketIInv, TicketInv, TicketTypeOK, TicketAdmitsOnce
    <2>7. QED
      BY <2>4, <2>5, <2>6 DEF TicketIInv, TicketInv
  <1>2. ASSUME NEW t \in Ticket, ExpireTicket(t) \/ CollectTicket(t)
        PROVE  TicketIInv'
    <2>1. UNCHANGED <<ticketStore, grant, dial, dialled, burnt>> /\ ticket[t] # "gone"
          /\ (ticket' = [ticket EXCEPT ![t] = "stale"] \/ ticket' = [ticket EXCEPT ![t] = "gone"])
      BY <1>2 DEF ExpireTicket, CollectTicket
    <2>2. TicketTypeOK' /\ SpentIsGone'
      BY <2>1, TicketAssumption DEF TicketIInv, TicketInv, TicketTypeOK, SpentIsGone
    <2>3. QED
      BY <2>1, <2>2 DEF TicketIInv, TicketInv, TicketAdmitsOnce
  <1>3. CASE UNCHANGED ticketVars
    BY <1>3 DEF ticketVars, TicketIInv, TicketInv, TicketTypeOK, TicketAdmitsOnce, SpentIsGone
  <1>4. QED
    BY <1>1, <1>2, <1>3, TicketGate DEF TicketNext

\* One ticket opens one connection, to the path and with the role it was minted
\* for, however many upgrade requests carry it and whichever store keeps it
\* (wsTicketGate over Consume).
THEOREM TicketInvariant == TicketSpec => []TicketInv
  <1>1. TicketIInv => TicketInv
    BY DEF TicketIInv
  <1>2. QED
    BY <1>1, TicketInitially, TicketStep, PTL DEF TicketSpec

-----------------------------------------------------------------------------
(* The rate limiter *)

Holding == {"touch", "allow"}

\* Nothing was taken from the key's bucket g since the tokens were refilled, and
\* no request is about to.
Unused(k, g) ==
    /\ g \in 1..MaxGen => tokens[k][g] = Burst
    /\ \A h \in Hit : LimitKey(h) = k /\ hit[h] \in Holding => holds[h] # g

Spent(k, g) == IF g \in 1..MaxGen THEN Burst - tokens[k][g] ELSE 0

\* Requests use the newest bucket of their key and the one before it, no other.
TwoBuckets(k) ==
    /\ bucket[k] \in {0, made[k]}
    /\ \A h \in Hit : LimitKey(h) = k /\ hit[h] \in Holding =>
          holds[h] \in {made[k], made[k] - 1} \ {0}
    /\ \A g \in 1..MaxGen : g \notin {made[k], made[k] - 1} => tokens[k][g] = Burst
    /\ admitted[k] = Spent(k, made[k]) + Spent(k, made[k] - 1)

\* When the newest bucket is gone, or may be deleted before the key is idle
\* again, the one before it is unused: the next bucket makes two, not three.
OldUnused(k) ==
    /\ bucket[k] = 0 \/ k \in doomed \/ seen[k] = "idle" => Unused(k, made[k] - 1)
    /\ bucket[k] = 0 /\ (k \in doomed \/ seen[k] = "idle") => Unused(k, made[k])
    /\ k \in doomed => seen[k] # "idle"

MemoryBudget == rateBackend = "memory" => \A k \in LimitKeys : TwoBuckets(k) /\ OldUnused(k)

RedisBudget ==
    rateBackend = "redis" =>
        /\ \A h \in Hit : hit[h] \in {"new", "passed", "throttled"}
        /\ \A k \in LimitKeys : seen[k] = "none" /\ admitted[k] <= Burst - tokens[k][1]

RateIInv == RateTypeOK /\ BucketsTracked /\ MemoryBudget /\ RedisBudget

LEMMA KeyTyped == \A h \in Hit : LimitKey(h) \in LimitKeys
  BY DEF LimitKeys

LEMMA RateInitially == RateInit => RateIInv
  <1> SUFFICES ASSUME RateInit PROVE RateIInv
    OBVIOUS
  <1>1. RateTypeOK
    BY RateAssumption DEF RateInit, RateTypeOK
  <1>2. BucketsTracked /\ RedisBudget
    BY RateAssumption DEF RateInit, BucketsTracked, RedisBudget
  <1>3. MemoryBudget
    BY RateAssumption DEF RateInit, MemoryBudget, TwoBuckets, OldUnused, Unused, Spent, Holding
  <1>4. QED
    BY <1>1, <1>2, <1>3 DEF RateIInv

\* The budget follows: two buckets hold two bursts.
LEMMA BudgetFollows == RateIInv => RateInv
  <1> SUFFICES ASSUME RateIInv PROVE RateInv
    OBVIOUS
  <1> SUFFICES ASSUME NEW k \in LimitKeys PROVE admitted[k] <= 2 * Burst
    BY DEF RateIInv, RateInv, BudgetBounded
  <1>1. tokens[k] \in [1..MaxGen -> 0..Burst] /\ made[k] \in 0..MaxGen /\ admitted[k] \in Nat
    BY DEF RateIInv, RateTypeOK
  <1>2. CASE rateBackend = "memory"
    <2>1. admitted[k] = Spent(k, made[k]) + Spent(k, made[k] - 1)
      BY <1>2 DEF RateIInv, MemoryBudget, TwoBuckets
    <2>2. \A g \in Int : Spent(k, g) \in 0..Burst
      <3> SUFFICES ASSUME NEW g \in Int PROVE Spent(k, g) \in 0..Burst
        OBVIOUS
      <3>1. CASE g \in 1..MaxGen
        <4>1. tokens[k][g] \in 0..Burst
          BY <1>1, <3>1
        <4>2. QED
          BY <3>1, <4>1, RateAssumption DEF Spent
      <3>2. CASE g \notin 1..MaxGen
        BY <3>2, RateAssumption DEF Spent
      <3>3. QED
        BY <3>1, <3>2
    <2>3. made[k] \in Int /\ made[k] - 1 \in Int
      BY <1>1, RateAssumption
    <2>4. QED
      BY <2>1, <2>2, <2>3, RateAssumption
  <1>3. CASE rateBackend = "redis"
    <2>1. admitted[k] <= Burst - tokens[k][1]
      BY <1>3 DEF RateIInv, RedisBudget
    <2>2. tokens[k][1] \in 0..Burst
      BY <1>1, RateAssumption
    <2>3. QED
      BY <1>1, <2>1, <2>2, RateAssumption
  <1>4. QED
    BY <1>2, <1>3 DEF RateIInv, RateTypeOK

\* The fast path: the request holds the newest bucket.
LEMMA RateLook ==
  ASSUME RateIInv, NEW h \in Hit, Look(h)
  PROVE  RateIInv'
  <1> DEFINE key == LimitKey(h)
  <1>1. key \in LimitKeys
    BY KeyTyped
  <1>2. /\ rateBackend = "memory" /\ hit[h] = "new"
        /\ hit' = [hit EXCEPT ![h] = IF bucket[key] # 0 THEN "touch" ELSE "slow"]
        /\ holds' = [holds EXCEPT ![h] = bucket[key]]
        /\ UNCHANGED <<rateBackend, bucket, made, tokens, seen, doomed, admitted>>
    BY DEF Look
  <1>3. RateTypeOK'
    BY <1>1, <1>2 DEF RateIInv, RateTypeOK
  <1>4. BucketsTracked' /\ RedisBudget'
    BY <1>2 DEF RateIInv, BucketsTracked, RedisBudget
  <1>5. ASSUME NEW k \in LimitKeys
        PROVE  TwoBuckets(k)' /\ OldUnused(k)'
    <2>1. TwoBuckets(k) /\ OldUnused(k)
      BY <1>2 DEF RateIInv, MemoryBudget
    <2>2. made[k] \in Nat /\ bucket[k] \in {0, made[k]}
      BY <2>1 DEF RateIInv, RateTypeOK, TwoBuckets
    <2>3. \A j \in Hit : hit'[j] \in Holding =>
             \/ hit[j] \in Holding /\ holds'[j] = holds[j]
             \/ j = h /\ bucket[key] # 0 /\ holds'[j] = bucket[key]
      BY <1>2 DEF RateIInv, RateTypeOK, Holding
    <2>4. TwoBuckets(k)'
      BY <1>2, <2>1, <2>2, <2>3 DEF TwoBuckets, Spent
    <2>5. OldUnused(k)'
      BY <1>2, <2>1, <2>2, <2>3 DEF OldUnused, Unused, TwoBuckets
    <2>6. QED
      BY <2>4, <2>5
  <1>6. QED
    BY <1>3, <1>4, <1>5 DEF RateIInv, MemoryBudget

LEMMA RateTouch ==
  ASSUME RateIInv, NEW h \in Hit, Touch(h)
  PROVE  RateIInv'
  <1> DEFINE key == LimitKey(h)
  <1>1. key \in LimitKeys
    BY KeyTyped
  <1>2. /\ hit[h] = "touch"
        /\ hit' = [hit EXCEPT ![h] = "allow"]
        /\ seen' = [seen EXCEPT ![key] = "fresh"]
        /\ UNCHANGED <<rateBackend, bucket, made, tokens, doomed, holds, admitted>>
    BY DEF Touch
  <1>3. RateTypeOK'
    BY <1>1, <1>2 DEF RateIInv, RateTypeOK
  <1>4. rateBackend = "memory"
    BY <1>2 DEF RateIInv, RedisBudget, RateTypeOK
  <1>5. BucketsTracked' /\ RedisBudget'
    BY <1>1, <1>2, <1>4 DEF RateIInv, RateTypeOK, BucketsTracked, RedisBudget
  <1>6. ASSUME NEW k \in LimitKeys
        PROVE  TwoBuckets(k)' /\ OldUnused(k)'
    <2>1. TwoBuckets(k) /\ OldUnused(k)
      BY <1>4 DEF RateIInv, MemoryBudget
    <2>2. \A j \in Hit : hit'[j] \in Holding <=> hit[j] \in Holding
      BY <1>2 DEF RateIInv, RateTypeOK, Holding
    <2>3. TwoBuckets(k)'
      BY <1>2, <2>1, <2>2 DEF TwoBuckets, Spent
    <2>4. seen'[k] \in {seen[k], "fresh"}
      BY <1>1, <1>2 DEF RateIInv, RateTypeOK
    <2>5. OldUnused(k)'
      BY <1>2, <2>1, <2>2, <2>4 DEF OldUnused, Unused
    <2>6. QED
      BY <2>3, <2>5
  <1>7. QED
    BY <1>3, <1>5, <1>6 DEF RateIInv, MemoryBudget

\* The slow path: the bucket before the one that is made last is unused, so the
\* two that requests may use are the new one and the last.
LEMMA RateMakeBucket ==
  ASSUME RateIInv, NEW h \in Hit, MakeBucket(h)
  PROVE  RateIInv'
  <1> DEFINE key == LimitKey(h)
  <1>1. key \in LimitKeys
    BY KeyTyped
  <1>2. /\ hit[h] = "slow"
        /\ hit' = [hit EXCEPT ![h] = "allow"]
        /\ holds' = [holds EXCEPT ![h] = bucket'[key]]
        /\ UNCHANGED <<rateBackend, tokens, doomed, admitted>>
    BY DEF MakeBucket
  <1>3. \/ bucket[key] # 0 /\ UNCHANGED <<bucket, made, seen>>
        \/ /\ bucket[key] = 0 /\ made[key] < MaxGen
           /\ made' = [made EXCEPT ![key] = @ + 1]
           /\ bucket' = [bucket EXCEPT ![key] = made'[key]]
           /\ seen' = [seen EXCEPT ![key] = "fresh"]
    BY DEF MakeBucket
  <1>4. rateBackend = "memory"
    BY <1>2 DEF RateIInv, RedisBudget, RateTypeOK
  <1>5. /\ made \in [LimitKeys -> 0..MaxGen] /\ bucket \in [LimitKeys -> 0..MaxGen]
        /\ hit \in [Hit -> {"new", "touch", "slow", "allow", "passed", "throttled"}]
        /\ seen \in [LimitKeys -> {"none", "fresh", "idle"}] /\ holds \in [Hit -> 0..MaxGen]
        /\ tokens \in [LimitKeys -> [1..MaxGen -> 0..Burst]]
    BY DEF RateIInv, RateTypeOK
  <1>6. made' \in [LimitKeys -> 0..MaxGen] /\ bucket' \in [LimitKeys -> 0..MaxGen]
        /\ seen' \in [LimitKeys -> {"none", "fresh", "idle"}]
    <2>1. CASE UNCHANGED <<bucket, made, seen>>
      BY <1>5, <2>1
    <2>2. CASE /\ made[key] < MaxGen
               /\ made' = [made EXCEPT ![key] = @ + 1]
               /\ bucket' = [bucket EXCEPT ![key] = made'[key]]
               /\ seen' = [seen EXCEPT ![key] = "fresh"]
      <3>1. made[key] + 1 \in 0..MaxGen
        BY <1>1, <1>5, <2>2, RateAssumption
      <3>2. made' \in [LimitKeys -> 0..MaxGen]
        BY <1>5, <2>2, <3>1
      <3>3. QED
        BY <1>1, <1>5, <2>2, <3>2
    <2>3. QED
      BY <1>3, <2>1, <2>2
  <1>7. RateTypeOK'
    BY <1>1, <1>2, <1>5, <1>6 DEF RateIInv, RateTypeOK
  <1>8. BucketsTracked' /\ RedisBudget'
    BY <1>1, <1>2, <1>3, <1>4, <1>5 DEF RateIInv, BucketsTracked, RedisBudget
  <1>9. \A j \in Hit : hit'[j] \in Holding =>
            \/ hit[j] \in Holding /\ holds'[j] = holds[j]
            \/ j = h /\ holds'[j] = bucket'[key]
    BY <1>2, <1>5 DEF Holding
  <1>10. ASSUME NEW k \in LimitKeys
         PROVE  TwoBuckets(k)' /\ OldUnused(k)'
    <2>1. TwoBuckets(k) /\ OldUnused(k)
      BY <1>4 DEF RateIInv, MemoryBudget
    <2>2. made[k] \in 0..MaxGen /\ bucket[k] \in {0, made[k]} /\ tokens[k] \in [1..MaxGen -> 0..Burst]
      BY <1>5, <2>1 DEF TwoBuckets
    <2>3. CASE bucket[key] # 0 \/ k # key
      <3>1. made'[k] = made[k] /\ bucket'[k] = bucket[k] /\ seen'[k] = seen[k]
        BY <1>1, <1>3, <1>5, <2>3
      <3>2. k = key => bucket'[key] = made[k] /\ bucket[k] # 0
        BY <2>2, <2>3, <3>1
      <3>3. TwoBuckets(k)'
        BY <1>2, <1>9, <2>1, <2>2, <3>1, <3>2 DEF TwoBuckets, Spent
      <3>4. OldUnused(k)'
        BY <1>2, <1>9, <2>1, <2>2, <3>1, <3>2 DEF OldUnused, Unused, TwoBuckets
      <3>5. QED
        BY <3>3, <3>4
    <2>4. CASE bucket[key] = 0 /\ k = key
      <3>1. made'[k] = made[k] + 1 /\ bucket'[k] = made[k] + 1 /\ seen'[k] = "fresh" /\ made[k] < MaxGen
        BY <1>1, <1>3, <1>5, <2>4
      <3>2. Unused(k, made[k] - 1) /\ (k \in doomed => Unused(k, made[k]))
        BY <2>1, <2>4 DEF OldUnused
      <3>3. tokens'[k] = tokens[k] /\ admitted'[k] = admitted[k] /\ doomed' = doomed
        BY <1>2
      <3>4. \A j \in Hit : LimitKey(j) = k /\ hit'[j] \in Holding =>
               holds'[j] \in {made[k] + 1, made[k]} \ {0}
        BY <1>9, <2>1, <2>2, <2>4, <3>1, <3>2 DEF TwoBuckets, Unused
      <3>5. \A g \in 1..MaxGen : g \notin {made[k] + 1, made[k]} => tokens[k][g] = Burst
        BY <2>1, <2>2, <3>2 DEF TwoBuckets, Unused
      <3>6. tokens[k][made[k] + 1] = Burst
        <4>1. made[k] + 1 \in 1..MaxGen /\ made[k] + 1 \notin {made[k], made[k] - 1}
          BY <2>2, <3>1, RateAssumption
        <4>2. QED
          BY <2>1, <4>1 DEF TwoBuckets
      <3>7. Spent(k, made[k] - 1) = 0
        BY <2>2, <3>2, RateAssumption DEF Spent, Unused
      <3>8. Spent(k, made[k] + 1) = 0
        BY <2>2, <3>1, <3>6, RateAssumption DEF Spent
      <3>9. admitted[k] = Spent(k, made[k] + 1) + Spent(k, made[k])
        <4>1. admitted[k] = Spent(k, made[k]) + Spent(k, made[k] - 1)
          BY <2>1 DEF TwoBuckets
        <4>2. Spent(k, made[k]) \in Int
          <5>1. CASE made[k] \in 1..MaxGen
            <6>1. tokens[k][made[k]] \in 0..Burst
              BY <2>2, <5>1
            <6>2. QED
              BY <5>1, <6>1, RateAssumption DEF Spent
          <5>2. CASE made[k] \notin 1..MaxGen
            BY <5>2 DEF Spent
          <5>3. QED
            BY <5>1, <5>2
        <4>3. QED
          BY <3>7, <3>8, <4>1, <4>2
      <3>10. made'[k] - 1 = made[k] /\ made[k] \in Int
        BY <2>2, <3>1
      <3>11. admitted'[k] = Spent(k, made[k])' + Spent(k, made[k] - 1)'
        <4>1. Spent(k, made[k])' = Spent(k, made[k] + 1)
          BY <1>2, <3>1 DEF Spent
        <4>2. Spent(k, made[k] - 1)' = Spent(k, made[k])
          BY <1>2, <3>10 DEF Spent
        <4>3. QED
          BY <3>3, <3>9, <4>1, <4>2
      <3>12. TwoBuckets(k)'
        BY <3>1, <3>3, <3>4, <3>5, <3>10, <3>11 DEF TwoBuckets
      <3>13. OldUnused(k)'
        <4>1. k \in doomed => Unused(k, made[k] - 1)'
          <5> SUFFICES ASSUME k \in doomed PROVE Unused(k, made[k] - 1)'
            OBVIOUS
          <5>1. \A j \in Hit : LimitKey(j) = k /\ hit'[j] \in Holding => holds'[j] # made[k]
            BY <1>9, <2>2, <2>4, <3>1, <3>2 DEF Unused
          <5>2. made[k] \in 1..MaxGen => tokens'[k][made[k]] = Burst
            BY <3>2, <3>3 DEF Unused
          <5>3. QED
            BY <5>1, <5>2, <3>10 DEF Unused
        <4>2. QED
          BY <2>2, <3>1, <3>3, <4>1 DEF OldUnused
      <3>14. QED
        BY <3>12, <3>13
    <2>5. QED
      BY <2>3, <2>4
  <1>11. QED
    BY <1>7, <1>8, <1>10 DEF RateIInv, MemoryBudget

\* A request in flight takes a token of the bucket it holds.
LEMMA RateAllowHit ==
  ASSUME RateIInv, NEW h \in Hit, AllowHit(h)
  PROVE  RateIInv'
  <1> DEFINE key == LimitKey(h)
             b == holds[h]
  <1>1. key \in LimitKeys
    BY KeyTyped
  <1>2. /\ hit[h] = "allow"
        /\ UNCHANGED <<rateBackend, bucket, made, seen, doomed, holds>>
        /\ \/ /\ tokens[key][b] > 0
              /\ hit' = [hit EXCEPT ![h] = "passed"]
              /\ tokens' = [tokens EXCEPT ![key][b] = @ - 1]
              /\ admitted' = [admitted EXCEPT ![key] = @ + 1]
           \/ hit' = [hit EXCEPT ![h] = "throttled"] /\ UNCHANGED <<tokens, admitted>>
    BY DEF AllowHit
  <1>3. rateBackend = "memory"
    BY <1>2 DEF RateIInv, RedisBudget, RateTypeOK
  <1>4. /\ made \in [LimitKeys -> 0..MaxGen] /\ admitted \in [LimitKeys -> Nat]
        /\ tokens \in [LimitKeys -> [1..MaxGen -> 0..Burst]]
        /\ hit \in [Hit -> {"new", "touch", "slow", "allow", "passed", "throttled"}]
        /\ holds \in [Hit -> 0..MaxGen]
    BY DEF RateIInv, RateTypeOK
  <1>5. b \in {made[key], made[key] - 1} /\ b \in 1..MaxGen
    <2>1. b \in {made[key], made[key] - 1} \ {0}
      BY <1>1, <1>2, <1>3 DEF RateIInv, MemoryBudget, TwoBuckets, Holding
    <2>2. QED
      BY <1>4, <2>1, RateAssumption
  <1>6. tokens[key][b] \in 0..Burst /\ admitted[key] \in Nat /\ made[key] \in 0..MaxGen
    BY <1>1, <1>4, <1>5
  <1>7. tokens' \in [LimitKeys -> [1..MaxGen -> 0..Burst]] /\ admitted' \in [LimitKeys -> Nat]
    <2>1. CASE UNCHANGED <<tokens, admitted>>
      BY <1>4, <2>1
    <2>2. CASE /\ tokens[key][b] > 0
               /\ tokens' = [tokens EXCEPT ![key][b] = @ - 1]
               /\ admitted' = [admitted EXCEPT ![key] = @ + 1]
      <3>1. tokens[key][b] - 1 \in 0..Burst /\ admitted[key] + 1 \in Nat
        BY <1>6, <2>2, RateAssumption
      <3>2. QED
        BY <1>4, <2>2, <3>1
    <2>3. QED
      BY <1>2, <2>1, <2>2
  <1>8. RateTypeOK'
    BY <1>2, <1>7 DEF RateIInv, RateTypeOK
  <1>9. BucketsTracked' /\ RedisBudget'
    BY <1>2, <1>3 DEF RateIInv, BucketsTracked, RedisBudget
  <1>10. \A j \in Hit : hit'[j] \in Holding => hit[j] \in Holding
    BY <1>2, <1>4 DEF Holding
  <1>11. ASSUME NEW k \in LimitKeys
         PROVE  TwoBuckets(k)' /\ OldUnused(k)'
    <2>1. TwoBuckets(k) /\ OldUnused(k)
      BY <1>3 DEF RateIInv, MemoryBudget
    <2>2. CASE tokens'[k] = tokens[k] /\ admitted'[k] = admitted[k]
      <3>1. TwoBuckets(k)'
        BY <1>2, <1>10, <2>1, <2>2 DEF TwoBuckets, Spent
      <3>2. OldUnused(k)'
        BY <1>2, <1>10, <2>1, <2>2 DEF OldUnused, Unused
      <3>3. QED
        BY <3>1, <3>2
    <2>3. CASE /\ k = key /\ tokens[key][b] > 0
               /\ tokens' = [tokens EXCEPT ![key][b] = @ - 1]
               /\ admitted' = [admitted EXCEPT ![key] = @ + 1]
      <3>1. tokens'[k] = [tokens[k] EXCEPT ![b] = @ - 1] /\ admitted'[k] = admitted[k] + 1
        BY <1>1, <1>4, <2>3
      <3>2. \A g \in 1..MaxGen : tokens'[k][g] = IF g = b THEN tokens[k][b] - 1 ELSE tokens[k][g]
        BY <1>1, <1>4, <2>3, <3>1
      <3>3. \A g \in Int : Spent(k, g)' = IF g = b THEN Spent(k, g) + 1 ELSE Spent(k, g)
        <4> SUFFICES ASSUME NEW g \in Int
                     PROVE  Spent(k, g)' = IF g = b THEN Spent(k, g) + 1 ELSE Spent(k, g)
          OBVIOUS
        <4>1. CASE g = b
          BY <1>5, <1>6, <2>3, <3>2, <4>1, RateAssumption DEF Spent
        <4>2. CASE g # b
          BY <3>2, <4>2 DEF Spent
        <4>3. QED
          BY <4>1, <4>2
      <3>4. Spent(k, made[k]) \in Int /\ Spent(k, made[k] - 1) \in Int
        <4>1. \A g \in 1..MaxGen : tokens[k][g] \in Int
          BY <1>4, RateAssumption
        <4>2. QED
          BY <1>6, <2>3, <4>1, RateAssumption DEF Spent
      <3>5. admitted'[k] = Spent(k, made[k])' + Spent(k, made[k] - 1)'
        <4>1. Spent(k, made[k])' = IF made[k] = b THEN Spent(k, made[k]) + 1 ELSE Spent(k, made[k])
          BY <1>2, <1>6, <2>3, <3>3 DEF Spent
        <4>2. Spent(k, made[k] - 1)' =
                 IF made[k] - 1 = b THEN Spent(k, made[k] - 1) + 1 ELSE Spent(k, made[k] - 1)
          BY <1>2, <1>6, <2>3, <3>3 DEF Spent
        <4>3. admitted[k] = Spent(k, made[k]) + Spent(k, made[k] - 1)
          BY <2>1 DEF TwoBuckets
        <4>4. made[k] \in Int /\ made[k] # made[k] - 1
          BY <1>6, <2>3
        <4>5. CASE b = made[k]
          BY <3>1, <3>4, <4>1, <4>2, <4>3, <4>4, <4>5
        <4>6. CASE b = made[k] - 1
          BY <3>1, <3>4, <4>1, <4>2, <4>3, <4>4, <4>6
        <4>7. QED
          BY <1>5, <2>3, <4>5, <4>6
      <3>6. TwoBuckets(k)'
        BY <1>2, <1>5, <1>10, <2>1, <2>3, <3>2, <3>5 DEF TwoBuckets
      <3>7. OldUnused(k)'
        <4>1. ~Unused(k, b)
          BY <1>2, <2>3 DEF Unused, Holding
        <4>2. \A g \in Int : g # b /\ Unused(k, g) => Unused(k, g)'
          BY <1>2, <1>10, <3>2 DEF Unused
        <4>3. made[k] \in Int /\ made[k] - 1 \in Int
          BY <1>6, <2>3
        <4>4. Unused(k, made[k]) => Unused(k, made[k])'
          <5>1. Unused(k, made[k]) => made[k] # b
            BY <4>1
          <5>2. QED
            BY <1>2, <1>10, <3>2, <4>3, <5>1 DEF Unused
        <4>5. Unused(k, made[k] - 1) => Unused(k, made[k] - 1)'
          <5>1. Unused(k, made[k] - 1) => made[k] - 1 # b
            BY <4>1
          <5>2. QED
            BY <1>2, <1>10, <3>2, <4>3, <5>1 DEF Unused
        <4>6. QED
          BY <1>2, <2>1, <4>4, <4>5 DEF OldUnused
      <3>8. QED
        BY <3>6, <3>7
    <2>4. QED
      BY <1>1, <1>2, <1>4, <2>2, <2>3
  <1>12. QED
    BY <1>8, <1>9, <1>11 DEF RateIInv, MemoryBudget

\* Redis decides with the one bucket of the key.
LEMMA RateAllowByRedis ==
  ASSUME RateIInv, NEW h \in Hit, AllowByRedis(h)
  PROVE  RateIInv'
  <1> DEFINE key == LimitKey(h)
  <1>1. key \in LimitKeys /\ 1 \in 1..MaxGen
    BY KeyTyped, RateAssumption
  <1>2. /\ rateBackend = "redis"
        /\ UNCHANGED <<rateBackend, bucket, made, seen, doomed, holds>>
        /\ \/ /\ tokens[key][1] > 0
              /\ hit' = [hit EXCEPT ![h] = "passed"]
              /\ tokens' = [tokens EXCEPT ![key][1] = @ - 1]
              /\ admitted' = [admitted EXCEPT ![key] = @ + 1]
           \/ hit' \in {[hit EXCEPT ![h] = "throttled"], [hit EXCEPT ![h] = "passed"]}
              /\ UNCHANGED <<tokens, admitted>>
    BY DEF AllowByRedis
  <1>3. /\ tokens \in [LimitKeys -> [1..MaxGen -> 0..Burst]] /\ admitted \in [LimitKeys -> Nat]
        /\ hit \in [Hit -> {"new", "touch", "slow", "allow", "passed", "throttled"}]
    BY DEF RateIInv, RateTypeOK
  <1>4. tokens[key] \in [1..MaxGen -> 0..Burst] /\ tokens[key][1] \in 0..Burst /\ admitted[key] \in Nat
    BY <1>1, <1>3
  <1>5. hit' \in [Hit -> {"new", "touch", "slow", "allow", "passed", "throttled"}]
        /\ \A j \in Hit : hit'[j] \in {hit[j], "passed", "throttled"}
    BY <1>2, <1>3
  <1>6. /\ tokens' \in [LimitKeys -> [1..MaxGen -> 0..Burst]] /\ admitted' \in [LimitKeys -> Nat]
        /\ \A k \in LimitKeys : admitted'[k] <= Burst - tokens'[k][1]
    <2>1. \A k \in LimitKeys : admitted[k] <= Burst - tokens[k][1]
      BY <1>2 DEF RateIInv, RedisBudget
    <2>2. CASE UNCHANGED <<tokens, admitted>>
      BY <1>3, <2>1, <2>2
    <2>3. CASE /\ tokens[key][1] > 0
               /\ tokens' = [tokens EXCEPT ![key][1] = @ - 1]
               /\ admitted' = [admitted EXCEPT ![key] = @ + 1]
      <3>1. tokens[key][1] - 1 \in 0..Burst /\ admitted[key] + 1 \in Nat
        BY <1>4, <2>3, RateAssumption
      <3>2. tokens' \in [LimitKeys -> [1..MaxGen -> 0..Burst]] /\ admitted' \in [LimitKeys -> Nat]
        BY <1>1, <1>3, <2>3, <3>1
      <3>3. ASSUME NEW k \in LimitKeys
            PROVE  admitted'[k] <= Burst - tokens'[k][1]
        <4>1. CASE k = key
          <5>1. admitted'[k] = admitted[k] + 1 /\ tokens'[k][1] = tokens[k][1] - 1
            BY <1>1, <1>3, <2>3, <4>1
          <5>2. admitted[k] <= Burst - tokens[k][1]
            BY <2>1
          <5>3. QED
            BY <1>4, <4>1, <5>1, <5>2, RateAssumption
        <4>2. CASE k # key
          BY <1>3, <2>1, <2>3, <4>2
        <4>3. QED
          BY <4>1, <4>2
      <3>4. QED
        BY <3>2, <3>3
    <2>4. QED
      BY <1>2, <2>2, <2>3
  <1>7. RateTypeOK' /\ BucketsTracked'
    BY <1>2, <1>5, <1>6 DEF RateIInv, RateTypeOK, BucketsTracked
  <1>8. RedisBudget' /\ MemoryBudget'
    BY <1>2, <1>5, <1>6 DEF RateIInv, RedisBudget, MemoryBudget
  <1>9. QED
    BY <1>7, <1>8 DEF RateIInv

\* An idle key starts over with full buckets and no request in flight.
LEMMA RateIdle ==
  ASSUME RateIInv, NEW i \in LimitKeys, Idle(i)
  PROVE  RateIInv'
  <1>1. /\ seen[i] = "fresh" /\ i \notin doomed
        /\ \A h \in Hit : LimitKey(h) = i => hit[h] \notin {"touch", "slow", "allow"}
        /\ seen' = [seen EXCEPT ![i] = "idle"]
        /\ tokens' = [tokens EXCEPT ![i] = [g \in 1..MaxGen |-> Burst]]
        /\ admitted' = [admitted EXCEPT ![i] = 0]
        /\ UNCHANGED <<rateBackend, bucket, made, doomed, hit, holds>>
    BY DEF Idle
  <1>2. RateTypeOK
    BY DEF RateIInv
  <1>3. RateTypeOK'
    BY <1>1, <1>2, RateAssumption DEF RateTypeOK
  <1>4. rateBackend = "memory"
    BY <1>1 DEF RateIInv, RedisBudget, RateTypeOK
  <1>5. BucketsTracked' /\ RedisBudget'
    BY <1>1, <1>2, <1>4 DEF RateIInv, RateTypeOK, BucketsTracked, RedisBudget
  <1>6. ASSUME NEW k \in LimitKeys
        PROVE  TwoBuckets(k)' /\ OldUnused(k)'
    <2>1. TwoBuckets(k) /\ OldUnused(k)
      BY <1>4 DEF RateIInv, MemoryBudget
    <2>2. CASE k # i
      <3>1. tokens'[k] = tokens[k] /\ admitted'[k] = admitted[k] /\ seen'[k] = seen[k]
        BY <1>1, <1>2, <2>2 DEF RateTypeOK
      <3>2. TwoBuckets(k)'
        BY <1>1, <2>1, <3>1 DEF TwoBuckets, Spent
      <3>3. OldUnused(k)'
        BY <1>1, <2>1, <3>1 DEF OldUnused, Unused
      <3>4. QED
        BY <3>2, <3>3
    <2>3. CASE k = i
      <3>1. \A g \in 1..MaxGen : tokens'[k][g] = Burst
        BY <1>1, <1>2, <2>3 DEF RateTypeOK
      <3>2. admitted'[k] = 0 /\ made'[k] = made[k] /\ made[k] \in 0..MaxGen /\ bucket'[k] = bucket[k]
        BY <1>1, <1>2, <2>3 DEF RateTypeOK
      <3>3. \A h \in Hit : LimitKey(h) = k => hit'[h] \notin Holding
        BY <1>1, <2>3 DEF Holding
      <3>4. Spent(k, made[k])' = 0 /\ Spent(k, made[k] - 1)' = 0
        BY <3>1, <3>2, RateAssumption DEF Spent
      <3>5. TwoBuckets(k)'
        BY <1>1, <2>1, <3>1, <3>2, <3>3, <3>4 DEF TwoBuckets
      <3>6. OldUnused(k)'
        BY <1>1, <2>3, <3>1, <3>3 DEF OldUnused, Unused
      <3>7. QED
        BY <3>5, <3>6
    <2>4. QED
      BY <2>2, <2>3
  <1>7. QED
    BY <1>3, <1>5, <1>6 DEF RateIInv, MemoryBudget

\* The sweeper's two critical sections.
LEMMA RateSweep ==
  ASSUME RateIInv, CollectIdle \/ DeleteIdle
  PROVE  RateIInv'
  <1>1. RateTypeOK
    BY DEF RateIInv
  <1>2. CASE CollectIdle
    <2>1. /\ doomed = {} /\ (\E k \in LimitKeys : seen[k] = "idle")
          /\ doomed' = {k \in LimitKeys : seen[k] = "idle"}
          /\ seen' = [k \in LimitKeys |-> IF seen[k] = "idle" THEN "none" ELSE seen[k]]
          /\ UNCHANGED <<rateBackend, bucket, made, tokens, hit, holds, admitted>>
      BY <1>2 DEF CollectIdle
    <2>2. RateTypeOK' /\ BucketsTracked'
      <3>1. doomed' \subseteq LimitKeys
        BY <2>1
      <3>2. seen' \in [LimitKeys -> {"none", "fresh", "idle"}]
        BY <1>1, <2>1 DEF RateTypeOK
      <3>3. RateTypeOK'
        BY <1>1, <2>1, <3>1, <3>2 DEF RateTypeOK
      <3>4. ASSUME NEW k \in LimitKeys, bucket[k] # 0
            PROVE  seen'[k] # "none" \/ k \in doomed'
        <4>1. seen[k] # "none"
          BY <2>1, <3>4 DEF RateIInv, BucketsTracked
        <4>2. QED
          BY <2>1, <4>1
      <3>5. BucketsTracked'
        BY <2>1, <3>4 DEF BucketsTracked
      <3>6. QED
        BY <3>3, <3>5
    <2>3. rateBackend = "memory" /\ RedisBudget'
      BY <1>1, <2>1 DEF RateIInv, RedisBudget, RateTypeOK
    <2>4. ASSUME NEW k \in LimitKeys
          PROVE  TwoBuckets(k)' /\ OldUnused(k)'
      <3>1. TwoBuckets(k) /\ OldUnused(k)
        BY <2>3 DEF RateIInv, MemoryBudget
      <3>2. TwoBuckets(k)'
        BY <2>1, <3>1 DEF TwoBuckets, Spent
      <3>3. OldUnused(k)'
        BY <2>1, <3>1 DEF OldUnused, Unused
      <3>4. QED
        BY <3>2, <3>3
    <2>5. QED
      BY <2>2, <2>3, <2>4 DEF RateIInv, MemoryBudget
  <1>3. CASE DeleteIdle
    <2>1. /\ bucket' = [k \in LimitKeys |-> IF k \in doomed THEN 0 ELSE bucket[k]]
          /\ doomed' = {}
          /\ UNCHANGED <<rateBackend, made, tokens, seen, hit, holds, admitted>>
      BY <1>3 DEF DeleteIdle
    <2>2. RateTypeOK' /\ BucketsTracked'
      <3>1. bucket' \in [LimitKeys -> 0..MaxGen]
        BY <1>1, <2>1, RateAssumption DEF RateTypeOK
      <3>2. RateTypeOK'
        BY <1>1, <2>1, <3>1 DEF RateTypeOK
      <3>3. ASSUME NEW k \in LimitKeys, bucket'[k] # 0
            PROVE  seen[k] # "none"
        BY <2>1, <3>3 DEF RateIInv, BucketsTracked
      <3>4. BucketsTracked'
        BY <2>1, <3>3 DEF BucketsTracked
      <3>5. QED
        BY <3>2, <3>4
    <2>3. RedisBudget'
      BY <2>1 DEF RateIInv, RedisBudget
    <2>4. ASSUME rateBackend = "memory", NEW k \in LimitKeys
          PROVE  TwoBuckets(k)' /\ OldUnused(k)'
      <3>1. TwoBuckets(k) /\ OldUnused(k)
        BY <2>4 DEF RateIInv, MemoryBudget
      <3>2. TwoBuckets(k)'
        BY <2>1, <3>1 DEF TwoBuckets, Spent
      <3>3. OldUnused(k)'
        BY <2>1, <3>1 DEF OldUnused, Unused
      <3>4. QED
        BY <3>2, <3>3
    <2>5. QED
      BY <2>1, <2>2, <2>3, <2>4 DEF RateIInv, MemoryBudget
  <1>4. QED
    BY <1>2, <1>3

LEMMA RateStep ==
  ASSUME RateIInv, [RateNext]_rateVars
  PROVE  RateIInv'
  <1>1. CASE UNCHANGED rateVars
    BY <1>1 DEF rateVars, RateIInv, RateTypeOK, BucketsTracked, MemoryBudget, RedisBudget,
                TwoBuckets, OldUnused, Unused, Spent
  <1>2. CASE RateNext
    BY <1>2, RateLook, RateTouch, RateMakeBucket, RateAllowHit, RateAllowByRedis, RateIdle, RateSweep
       DEF RateNext
  <1>3. QED
    BY <1>1, <1>2

\* However requests race the sweeper, no bucket leaks and a key is admitted at
\* most one burst more than its own between two refills (limiterFor and gc).
THEOREM RateInvariant == RateSpec => []RateInv
  <1>1. QED
    BY RateInitially, RateStep, BudgetFollows, PTL DEF RateSpec

-----------------------------------------------------------------------------
(* The browser's log viewer *)

SockState == [at : {"free", "ticket", "connecting", "open", "closing"}, of : Log \cup {NoLog}, next : Nat]
BufferState == [lines : Seq(Line), lastSeq : Nat, seeded : BOOLEAN, truncated : BOOLEAN]
BackfillState == [apply : {"none", "seed", "merge"}, of : Log \cup {NoLog}]

\* A connection that is going on: by ticket request or by socket.
Busy(c) == sock[c].at \in {"ticket", "connecting", "open"}

ViewerShape ==
    /\ sock \in [Slot -> SockState] /\ buffer \in BufferState /\ backfill \in BackfillState
    /\ selected \in Log \cup {NoLog} /\ timer \in Log \cup {NoLog} /\ wsRef \in Slot \cup {NoSlot}
    /\ emitted \in [Log -> Nat] /\ evicted \in [Log -> Nat]
    /\ Len(buffer.lines) <= MaxShown /\ closedByCaller \in BOOLEAN /\ crossed \in BOOLEAN /\ gapped \in BOOLEAN
    /\ \A c \in Slot : sock[c].at # "free" => sock[c].of \in Log

\* The current socket is live, and a capture is on the way for the selected
\* stage only.
RefsSound ==
    /\ wsRef # NoSlot => Live(wsRef)
    /\ backfill.apply # "none" => backfill.of = selected /\ selected # NoLog

\* One connection, of the selected stage, known to the hook; a selected stage
\* leaves nothing of an earlier one behind.
OneConnection ==
    ~crossed =>
        /\ \A c, d \in Slot : Busy(c) /\ Busy(d) => c = d
        /\ \A c \in Slot : Live(c) => c = wsRef /\ timer = NoLog /\ sock[c].of = selected
        /\ \A c \in Slot : Busy(c) /\ selected # NoLog => sock[c].of = selected
        /\ timer # NoLog => timer = selected /\ \A c \in Slot : ~Busy(c)
        /\ selected = NoLog => closedByCaller \/ \A c \in Slot : sock[c].at = "free"
        /\ selected # NoLog => ~closedByCaller /\ \A c \in Slot : sock[c].at # "closing"

\* The buffer is a prefix of the stage's lines, capped, ...
BufferPrefix ==
    /\ buffer.lastSeq > 0 =>
          /\ ~buffer.seeded /\ selected \in Log
          /\ buffer.lines = capLines(LinesOf(selected, 0, buffer.lastSeq))
          /\ ~buffer.truncated => buffer.lastSeq <= MaxShown
    /\ buffer.lastSeq = 0 /\ ~buffer.seeded => buffer.lines = <<>>

\* ... and a socket never asks for a line past the one that the buffer lacks.
BufferKept ==
    ~crossed /\ ~gapped =>
        BufferPrefix /\ \A c \in Slot : Live(c) => sock[c].next <= buffer.lastSeq + 1

ViewerIInv == ViewerShape /\ RefsSound /\ OneConnection /\ BufferKept /\ OwnLines

\* Lines, the cap, and how the two are extended.
LEMMA LinesAre ==
    ASSUME NEW g \in Log, NEW a \in Nat, NEW b \in Nat, a <= b
    PROVE  /\ LinesOf(g, a, b) \in Seq(Line) /\ Len(LinesOf(g, a, b)) = b - a
           /\ \A i \in 1 .. (b - a) : LinesOf(g, a, b)[i] = [of |-> g, seq |-> a + i]
  <1>1. \A i \in 1 .. (b - a) : [of |-> g, seq |-> a + i] \in Line
    BY DEF Line
  <1>2. b - a \in Nat
    OBVIOUS
  <1> QED  BY <1>1, <1>2 DEF LinesOf

LEMMA FirstLines ==
    ASSUME NEW g \in Log, NEW n \in Nat
    PROVE  /\ LinesOf(g, 0, n) \in Seq(Line) /\ Len(LinesOf(g, 0, n)) = n
           /\ \A i \in 1 .. n : LinesOf(g, 0, n)[i] = [of |-> g, seq |-> i]
  <1>1. 0 <= n /\ n - 0 = n /\ \A i \in 1 .. n : 0 + i = i
    OBVIOUS
  <1>2. /\ LinesOf(g, 0, n) \in Seq(Line) /\ Len(LinesOf(g, 0, n)) = n - 0
        /\ \A i \in 1 .. (n - 0) : LinesOf(g, 0, n)[i] = [of |-> g, seq |-> 0 + i]
    BY <1>1, LinesAre
  <1> QED  BY <1>1, <1>2

LEMMA CapIs ==
    ASSUME NEW s \in Seq(Line)
    PROVE  /\ capLines(s) \in Seq(Line)
           /\ Len(capLines(s)) = (IF Len(s) > MaxShown THEN MaxShown ELSE Len(s))
           /\ \A i \in 1 .. Len(capLines(s)) : capLines(s)[i] = s[i + (Len(s) - Len(capLines(s)))]
           /\ Len(capLines(s)) <= MaxShown
           /\ \A i \in 1 .. Len(capLines(s)) : i + (Len(s) - Len(capLines(s))) \in 1 .. Len(s)
  <1>0. MaxShown \in Nat \ {0} /\ Len(s) \in Nat
    BY LiveViewerAssumption
  <1>1. CASE Len(s) > MaxShown
    <2> DEFINE m == Len(s) - MaxShown + 1
    <2>1. capLines(s) = SubSeq(s, m, Len(s))
      BY <1>1 DEF capLines
    <2>2. /\ m \in 1 .. Len(s) /\ Len(s) - m + 1 = MaxShown
      BY <1>0, <1>1
    <2>3. /\ SubSeq(s, m, Len(s)) \in Seq(Line) /\ Len(SubSeq(s, m, Len(s))) = MaxShown
          /\ \A i \in 1 .. MaxShown : SubSeq(s, m, Len(s))[i] = s[m + i - 1]
      BY <1>0, <2>2
    <2> QED  BY <1>0, <1>1, <2>1, <2>2, <2>3
  <1>2. CASE ~(Len(s) > MaxShown)
    <2>1. capLines(s) = s
      BY <1>2 DEF capLines
    <2> QED  BY <1>0, <1>2, <2>1
  <1> QED  BY <1>1, <1>2

LEMMA ExtendLines ==
    ASSUME NEW g \in Log, NEW k \in Nat
    PROVE  capLines(Append(capLines(LinesOf(g, 0, k)), [of |-> g, seq |-> k + 1]))
              = capLines(LinesOf(g, 0, k + 1))
  <1> DEFINE s == LinesOf(g, 0, k)
             c == capLines(s)
             f == [of |-> g, seq |-> k + 1]
             t == LinesOf(g, 0, k + 1)
  <1>0. MaxShown \in Nat \ {0}
    BY LiveViewerAssumption
  <1>1. s \in Seq(Line) /\ Len(s) = k /\ \A i \in 1 .. k : s[i] = [of |-> g, seq |-> i]
    BY FirstLines
  <1>2. t \in Seq(Line) /\ Len(t) = k + 1 /\ \A i \in 1 .. (k + 1) : t[i] = [of |-> g, seq |-> i]
    BY FirstLines
  <1>3. f \in Line
    BY DEF Line
  <1> HIDE DEF s, t, f
  <1>4. /\ c \in Seq(Line) /\ Len(c) = (IF k > MaxShown THEN MaxShown ELSE k)
        /\ \A i \in 1 .. Len(c) : c[i] = s[i + (k - Len(c))] /\ i + (k - Len(c)) \in 1 .. k
    BY <1>1, CapIs
  <1> HIDE DEF c
  <1> DEFINE a == Append(c, f)
  <1>5. /\ a \in Seq(Line) /\ Len(a) = Len(c) + 1 /\ a[Len(c) + 1] = f
        /\ \A i \in 1 .. Len(c) : a[i] = c[i]
    BY <1>3, <1>4
  <1> HIDE DEF a
  <1>6. \A i \in 1 .. Len(a) : a[i] = [of |-> g, seq |-> i + (k + 1 - Len(a))]
    <2> TAKE i \in 1 .. Len(a)
    <2>1. CASE i = Len(c) + 1
      BY <1>1, <1>4, <1>5, <2>1 DEF f
    <2>2. CASE i # Len(c) + 1
      <3>0. i \in 1 .. Len(c)
        BY <1>4, <1>5, <2>2
      <3>1. a[i] = s[i + (k - Len(c))] /\ i + (k - Len(c)) \in 1 .. k
        BY <1>4, <1>5, <3>0
      <3>2. s[i + (k - Len(c))] = [of |-> g, seq |-> i + (k - Len(c))]
        BY <1>1, <3>1
      <3>3. k + 1 - Len(a) = k - Len(c)
        BY <1>4, <1>5
      <3> QED  BY <3>1, <3>2, <3>3
    <2> QED  BY <2>1, <2>2
  <1>7. /\ capLines(a) \in Seq(Line) /\ Len(capLines(a)) = (IF Len(a) > MaxShown THEN MaxShown ELSE Len(a))
        /\ \A i \in 1 .. Len(capLines(a)) : /\ capLines(a)[i] = a[i + (Len(a) - Len(capLines(a)))]
                                            /\ i + (Len(a) - Len(capLines(a))) \in 1 .. Len(a)
    BY <1>5, CapIs
  <1>8. /\ capLines(t) \in Seq(Line) /\ Len(capLines(t)) = (IF k + 1 > MaxShown THEN MaxShown ELSE k + 1)
        /\ \A i \in 1 .. Len(capLines(t)) : /\ capLines(t)[i] = t[i + (k + 1 - Len(capLines(t)))]
                                            /\ i + (k + 1 - Len(capLines(t))) \in 1 .. (k + 1)
    <2>1. /\ Len(capLines(t)) = (IF Len(t) > MaxShown THEN MaxShown ELSE Len(t)) /\ capLines(t) \in Seq(Line)
          /\ \A i \in 1 .. Len(capLines(t)) : /\ capLines(t)[i] = t[i + (Len(t) - Len(capLines(t)))]
                                              /\ i + (Len(t) - Len(capLines(t))) \in 1 .. Len(t)
      BY <1>2, CapIs
    <2> QED  BY <1>2, <2>1
  <1>9. Len(capLines(a)) = Len(capLines(t)) /\ Len(a) \in Nat /\ Len(capLines(a)) \in Nat
    BY <1>0, <1>4, <1>5, <1>7, <1>8
  <1>10. \A i \in 1 .. Len(capLines(a)) : capLines(a)[i] = capLines(t)[i]
    <2> TAKE i \in 1 .. Len(capLines(a))
    <2> DEFINE j == i + (Len(a) - Len(capLines(a)))
               m == i + (k + 1 - Len(capLines(t)))
    <2>1. capLines(a)[i] = a[j] /\ j \in 1 .. Len(a)
      BY <1>7
    <2>2. capLines(t)[i] = t[m] /\ m \in 1 .. (k + 1)
      BY <1>8, <1>9
    <2>3. j + (k + 1 - Len(a)) = m
      BY <1>9
    <2>4. a[j] = [of |-> g, seq |-> m]
      BY <1>6, <2>1, <2>3
    <2>5. t[m] = [of |-> g, seq |-> m]
      BY <1>2, <2>2
    <2> QED  BY <2>1, <2>2, <2>4, <2>5
  <1>11. capLines(a) = capLines(t)
    BY <1>7, <1>8, <1>9, <1>10, SeqEqual
  <1> QED  BY <1>11 DEF a, c, f, s, t

LEMMA MergeLines ==
    ASSUME NEW g \in Log, NEW k \in Nat, NEW n \in Nat, k <= n
    PROVE  LinesOf(g, 0, k) \o LinesOf(g, k, n) = LinesOf(g, 0, n)
  <1> DEFINE s == LinesOf(g, 0, k)
             t == LinesOf(g, k, n)
             u == LinesOf(g, 0, n)
  <1>1. s \in Seq(Line) /\ Len(s) = k /\ \A i \in 1 .. k : s[i] = [of |-> g, seq |-> i]
    BY FirstLines
  <1>2. t \in Seq(Line) /\ Len(t) = n - k /\ \A i \in 1 .. (n - k) : t[i] = [of |-> g, seq |-> k + i]
    BY LinesAre
  <1>3. u \in Seq(Line) /\ Len(u) = n /\ \A i \in 1 .. n : u[i] = [of |-> g, seq |-> i]
    BY FirstLines
  <1> HIDE DEF s, t, u
  <1>4. /\ s \o t \in Seq(Line) /\ Len(s \o t) = n
        /\ \A i \in 1 .. n : (s \o t)[i] = IF i <= k THEN s[i] ELSE t[i - k]
    <2>1. k + (n - k) = n
      OBVIOUS
    <2>2. /\ s \o t \in Seq(Line) /\ Len(s \o t) = Len(s) + Len(t)
          /\ \A i \in 1 .. (Len(s) + Len(t)) : (s \o t)[i] = IF i <= Len(s) THEN s[i] ELSE t[i - Len(s)]
      BY <1>1, <1>2, ConcatProperties
    <2> QED  BY <1>1, <1>2, <2>1, <2>2
  <1>5. \A i \in 1 .. n : (s \o t)[i] = u[i]
    <2> TAKE i \in 1 .. n
    <2>1. CASE i <= k
      BY <1>1, <1>3, <1>4, <2>1
    <2>2. CASE ~(i <= k)
      <3>1. i - k \in 1 .. (n - k) /\ (s \o t)[i] = t[i - k] /\ k + (i - k) = i
        BY <1>4, <2>2
      <3> QED  BY <1>2, <1>3, <3>1
    <2> QED  BY <2>1, <2>2
  <1>6. s \o t = u
    BY <1>3, <1>4, <1>5, SeqEqual
  <1> QED  BY <1>6 DEF s, t, u

LEMMA CapOwn ==
    ASSUME NEW g, NEW s \in Seq(Line), \A i \in 1 .. Len(s) : s[i].of = g
    PROVE  \A i \in DOMAIN capLines(s) : capLines(s)[i].of = g
  <1> DEFINE c == capLines(s)
  <1>1. /\ c \in Seq(Line)
        /\ \A i \in 1 .. Len(c) : c[i] = s[i + (Len(s) - Len(c))] /\ i + (Len(s) - Len(c)) \in 1 .. Len(s)
    BY CapIs
  <1> HIDE DEF c
  <1>2. \A i \in DOMAIN c : c[i].of = g
    BY <1>1
  <1> QED  BY <1>2 DEF c

\* What is true of the buffer after any change of it.
BufferSound ==
    /\ buffer \in BufferState /\ Len(buffer.lines) <= MaxShown /\ OwnLines
    /\ ~crossed /\ ~gapped => BufferPrefix

\* A frame: the first one replaces the seed, the next one extends the prefix.
LEMMA FrameKeeps ==
    ASSUME ViewerIInv, NEW g \in Log, NEW q \in Nat, buffer' = applyLogFrame(g, q),
           UNCHANGED <<crossed, gapped, selected>>, ~crossed => g = selected,
           ~crossed /\ ~gapped => q <= buffer.lastSeq + 1
    PROVE  BufferSound' /\ buffer'.lastSeq >= buffer.lastSeq /\ buffer'.lastSeq >= q
  <1> USE DEF ViewerIInv, ViewerShape
  <1>0. /\ MaxShown \in Nat \ {0} /\ buffer.lastSeq \in Nat /\ buffer.lines \in Seq(Line)
        /\ buffer.seeded \in BOOLEAN /\ buffer.truncated \in BOOLEAN
    BY LiveViewerAssumption DEF BufferState
  <1>1. CASE q <= buffer.lastSeq
    <2>1. buffer' = buffer
      BY <1>1 DEF applyLogFrame
    <2>2. OwnLines' /\ BufferPrefix' = BufferPrefix
      BY <2>1 DEF OwnLines, BufferPrefix
    <2> QED  BY <1>0, <1>1, <2>1, <2>2 DEF BufferSound, BufferKept
  <1>2. CASE ~(q <= buffer.lastSeq)
    <2> DEFINE base == IF buffer.seeded THEN <<>> ELSE buffer.lines
               lines == Append(base, [of |-> g, seq |-> q])
    <2>1. buffer' = [lines |-> capLines(lines), lastSeq |-> q, seeded |-> FALSE,
                     truncated |-> (~buffer.seeded /\ buffer.truncated) \/ Len(lines) > MaxShown]
      BY <1>2 DEF applyLogFrame
    <2>2. base \in Seq(Line) /\ [of |-> g, seq |-> q] \in Line
      BY <1>0 DEF Line
    <2>3. /\ lines \in Seq(Line) /\ Len(lines) = Len(base) + 1 /\ lines[Len(base) + 1] = [of |-> g, seq |-> q]
          /\ \A i \in 1 .. Len(base) : lines[i] = base[i]
      BY <2>2
    <2>4. ~crossed => \A i \in 1 .. Len(base) : base[i].of = g
      BY <1>0 DEF OwnLines
    <2> HIDE DEF base, lines
    <2>5. capLines(lines) \in Seq(Line) /\ Len(capLines(lines)) <= MaxShown
      BY <2>3, CapIs
    <2>6. /\ buffer'.lines = capLines(lines) /\ buffer'.lastSeq = q /\ buffer'.seeded = FALSE
          /\ buffer'.truncated = ((~buffer.seeded /\ buffer.truncated) \/ Len(lines) > MaxShown)
      BY <2>1
    <2>7. buffer' \in BufferState
      <3> DEFINE tr == (~buffer.seeded /\ buffer.truncated) \/ Len(lines) > MaxShown
      <3>1. tr \in BOOLEAN
        OBVIOUS
      <3>2. buffer' = [lines |-> capLines(lines), lastSeq |-> q, seeded |-> FALSE, truncated |-> tr]
        BY <2>1
      <3> HIDE DEF tr
      <3> QED  BY <2>5, <3>1, <3>2 DEF BufferState
    <2>8. OwnLines'
      <3> SUFFICES ASSUME ~crossed PROVE \A i \in DOMAIN buffer'.lines : buffer'.lines[i].of = g
        BY DEF OwnLines
      <3>1. \A i \in 1 .. Len(lines) : lines[i].of = g
        <4> TAKE i \in 1 .. Len(lines)
        <4>1. CASE i \in 1 .. Len(base)
          BY <2>3, <2>4, <4>1
        <4>2. CASE i = Len(base) + 1
          BY <2>3, <4>2
        <4> QED  BY <2>2, <2>3, <4>1, <4>2
      <3>2. \A i \in DOMAIN capLines(lines) : capLines(lines)[i].of = g
        BY <2>3, <3>1, CapOwn
      <3> QED  BY <2>6, <3>2
    <2>9. ~crossed /\ ~gapped => BufferPrefix'
      <3> SUFFICES ASSUME ~crossed, ~gapped PROVE BufferPrefix'
        OBVIOUS
      <3> DEFINE k == buffer.lastSeq
      <3>1. q = k + 1 /\ g = selected
        BY <1>0, <1>2
      <3>2. base = capLines(LinesOf(g, 0, k)) /\ (~(~buffer.seeded /\ buffer.truncated) => k <= MaxShown)
        <4>1. CASE k = 0
          <5>1. base = <<>>
            BY <4>1 DEF base, BufferKept, BufferPrefix
          <5>2. LinesOf(g, 0, 0) = <<>>
            BY DEF LinesOf
          <5>3. capLines(<<>>) = <<>>
            BY <1>0 DEF capLines
          <5> QED  BY <1>0, <4>1, <5>1, <5>2, <5>3
        <4>2. CASE k # 0
          BY <1>0, <3>1, <4>2 DEF base, BufferKept, BufferPrefix
        <4> QED  BY <4>1, <4>2
      <3>3. capLines(lines) = capLines(LinesOf(g, 0, k + 1))
        BY <1>0, <3>1, <3>2, ExtendLines DEF lines
      <3>4. ~buffer'.truncated => k + 1 <= MaxShown
        <4> SUFFICES ASSUME ~buffer'.truncated PROVE k + 1 <= MaxShown
          OBVIOUS
        <4>1. k <= MaxShown /\ ~(Len(lines) > MaxShown)
          BY <2>6, <3>2
        <4>2. LinesOf(g, 0, k) \in Seq(Line) /\ Len(LinesOf(g, 0, k)) = k
          BY <1>0, FirstLines
        <4>3. capLines(LinesOf(g, 0, k)) = LinesOf(g, 0, k)
          BY <1>0, <4>1, <4>2 DEF capLines
        <4>4. Len(base) = k
          BY <3>2, <4>2, <4>3
        <4> QED  BY <1>0, <2>3, <4>1, <4>4
      <3> QED  BY <1>0, <2>6, <3>1, <3>3, <3>4 DEF BufferPrefix
    <2> QED  BY <1>0, <1>2, <2>5, <2>6, <2>7, <2>8, <2>9 DEF BufferSound
  <1> QED  BY <1>1, <1>2

\* The answers of the REST requests: the seed, or the lines past the ones shown.
LEMMA BackfillKeeps ==
    ASSUME ViewerIInv, NEW n \in Nat, selected \in Log,
           buffer' = seedFromRest(selected, n) \/ buffer' = mergeReconnectBackfill(selected, n),
           UNCHANGED <<crossed, gapped, selected>>
    PROVE  BufferSound' /\ (~crossed /\ ~gapped => buffer'.lastSeq >= buffer.lastSeq)
  <1> USE DEF ViewerIInv, ViewerShape
  <1>0. /\ MaxShown \in Nat \ {0} /\ buffer.lastSeq \in Nat /\ buffer.lines \in Seq(Line)
        /\ buffer.seeded \in BOOLEAN /\ buffer.truncated \in BOOLEAN
    BY LiveViewerAssumption DEF BufferState
  <1>1. CASE buffer' = buffer
    <2>1. OwnLines' /\ BufferPrefix' = BufferPrefix
      BY <1>1 DEF OwnLines, BufferPrefix
    <2> QED  BY <1>0, <1>1, <2>1 DEF BufferSound, BufferKept
  <1>2. CASE buffer' = seedFromRest(selected, n) /\ buffer' # buffer
    <2> DEFINE lines == LinesOf(selected, 0, n)
               tr == buffer.truncated \/ n > MaxShown
    <2>1. /\ ~(buffer.lastSeq > 0)
          /\ buffer' = [lines |-> capLines(lines), lastSeq |-> 0, seeded |-> TRUE, truncated |-> tr]
      BY <1>2 DEF seedFromRest
    <2>2. tr \in BOOLEAN
      OBVIOUS
    <2>3. lines \in Seq(Line) /\ \A i \in 1 .. Len(lines) : lines[i].of = selected
      <3>1. /\ LinesOf(selected, 0, n) \in Seq(Line) /\ Len(LinesOf(selected, 0, n)) = n
            /\ \A i \in 1 .. n : LinesOf(selected, 0, n)[i] = [of |-> selected, seq |-> i]
        BY FirstLines
      <3> HIDE DEF lines
      <3>2. lines \in Seq(Line) /\ Len(lines) = n /\ \A i \in 1 .. n : lines[i] = [of |-> selected, seq |-> i]
        BY <3>1 DEF lines
      <3>3. \A i \in 1 .. n : lines[i].of = selected
        <4> TAKE i \in 1 .. n
        <4>1. lines[i] = [of |-> selected, seq |-> i]
          BY <3>2
        <4> QED  BY <4>1
      <3> QED  BY <3>2, <3>3
    <2> HIDE DEF lines, tr
    <2>4. capLines(lines) \in Seq(Line) /\ Len(capLines(lines)) <= MaxShown
      BY <2>3, CapIs
    <2>5. buffer' \in BufferState /\ buffer'.lastSeq = 0 /\ buffer'.seeded = TRUE
          /\ buffer'.lines = capLines(lines)
      BY <2>1, <2>2, <2>4 DEF BufferState
    <2>6. OwnLines'
      <3>1. \A i \in DOMAIN capLines(lines) : capLines(lines)[i].of = selected
        BY <2>3, CapOwn
      <3> QED  BY <2>5, <3>1 DEF OwnLines
    <2>7. BufferPrefix'
      BY <2>5 DEF BufferPrefix
    <2> QED  BY <1>0, <2>1, <2>4, <2>5, <2>6, <2>7 DEF BufferSound
  <1>3. CASE buffer' = mergeReconnectBackfill(selected, n) /\ buffer' # buffer
    <2> DEFINE more == LinesOf(selected, Len(buffer.lines), n)
               lines == buffer.lines \o more
               tr == n > MaxShown
    <2>1. /\ buffer.lastSeq # 0 /\ ~buffer.truncated /\ ~(n <= Len(buffer.lines))
          /\ buffer' = [lines |-> capLines(lines), lastSeq |-> n, seeded |-> FALSE, truncated |-> tr]
      BY <1>3 DEF mergeReconnectBackfill, MergedSeq
    <2>2. tr \in BOOLEAN /\ Len(buffer.lines) \in Nat
      BY <1>0
    <2>3. more \in Seq(Line) /\ \A i \in 1 .. Len(more) : more[i].of = selected
      <3> DEFINE k == Len(buffer.lines)
      <3>1. k \in Nat /\ k <= n /\ n - k \in Nat
        BY <2>1, <2>2
      <3> HIDE DEF k
      <3>2. /\ LinesOf(selected, k, n) \in Seq(Line) /\ Len(LinesOf(selected, k, n)) = n - k
            /\ \A i \in 1 .. (n - k) : LinesOf(selected, k, n)[i] = [of |-> selected, seq |-> k + i]
        BY <3>1, LinesAre
      <3> HIDE DEF more
      <3>3. /\ more \in Seq(Line) /\ Len(more) = n - k
            /\ \A i \in 1 .. (n - k) : more[i] = [of |-> selected, seq |-> k + i]
        BY <3>2 DEF more, k
      <3>4. \A i \in 1 .. (n - k) : more[i].of = selected
        <4> TAKE i \in 1 .. (n - k)
        <4>1. more[i] = [of |-> selected, seq |-> k + i]
          BY <3>3
        <4> QED  BY <4>1
      <3> QED  BY <3>3, <3>4
    <2> HIDE DEF more
    <2>4. /\ lines \in Seq(Line) /\ Len(lines) = Len(buffer.lines) + Len(more)
          /\ \A i \in 1 .. (Len(buffer.lines) + Len(more)) :
                lines[i] = IF i <= Len(buffer.lines) THEN buffer.lines[i] ELSE more[i - Len(buffer.lines)]
      BY <1>0, <2>3, ConcatProperties
    <2> HIDE DEF lines, tr
    <2>5. capLines(lines) \in Seq(Line) /\ Len(capLines(lines)) <= MaxShown
      BY <2>4, CapIs
    <2>6. buffer' \in BufferState /\ buffer'.lastSeq = n /\ buffer'.seeded = FALSE
          /\ buffer'.lines = capLines(lines) /\ buffer'.truncated = tr
      BY <2>1, <2>2, <2>5 DEF BufferState
    <2>7. OwnLines'
      <3> SUFFICES ASSUME ~crossed PROVE \A i \in DOMAIN buffer'.lines : buffer'.lines[i].of = selected
        BY DEF OwnLines
      <3>1. \A i \in 1 .. Len(lines) : lines[i].of = selected
        <4> TAKE i \in 1 .. Len(lines)
        <4>1. CASE i <= Len(buffer.lines)
          <5>1. i \in DOMAIN buffer.lines /\ lines[i] = buffer.lines[i]
            BY <1>0, <2>2, <2>3, <2>4, <4>1
          <5> QED  BY <5>1 DEF OwnLines
        <4>2. CASE ~(i <= Len(buffer.lines))
          <5>1. i - Len(buffer.lines) \in 1 .. Len(more)
            BY <2>2, <2>3, <2>4, <4>2
          <5> QED  BY <2>3, <2>4, <4>2, <5>1
        <4> QED  BY <4>1, <4>2
      <3>2. \A i \in DOMAIN capLines(lines) : capLines(lines)[i].of = selected
        BY <2>4, <3>1, CapOwn
      <3> QED  BY <2>6, <3>2
    <2>8. ASSUME ~crossed, ~gapped PROVE BufferPrefix' /\ n >= buffer.lastSeq
      <3> DEFINE k == buffer.lastSeq
      <3>1. k > 0 /\ k <= MaxShown /\ buffer.lines = capLines(LinesOf(selected, 0, k))
        BY <1>0, <2>1, <2>8 DEF BufferKept, BufferPrefix
      <3>2. LinesOf(selected, 0, k) \in Seq(Line) /\ Len(LinesOf(selected, 0, k)) = k
        BY <1>0, FirstLines
      <3>3. capLines(LinesOf(selected, 0, k)) = LinesOf(selected, 0, k)
        BY <1>0, <3>1, <3>2 DEF capLines
      <3>4. Len(buffer.lines) = k /\ k <= n
        BY <1>0, <2>1, <3>1, <3>2, <3>3
      <3>5. lines = LinesOf(selected, 0, n)
        <4>1. lines = LinesOf(selected, 0, k) \o LinesOf(selected, k, n)
          BY <3>1, <3>3, <3>4 DEF lines, more
        <4> QED  BY <1>0, <3>4, <4>1, MergeLines
      <3>6. ~buffer'.truncated => n <= MaxShown
        <4>1. ~tr => n <= MaxShown
          BY <1>0 DEF tr
        <4> QED  BY <2>6, <4>1
      <3> QED  BY <1>0, <2>6, <3>1, <3>4, <3>5, <3>6 DEF BufferPrefix
    <2> QED  BY <1>0, <2>5, <2>6, <2>7, <2>8 DEF BufferSound
  <1> QED  BY <1>1, <1>2, <1>3

LEMMA ViewerInitially == ViewerInit => ViewerIInv
  <1> SUFFICES ASSUME ViewerInit PROVE ViewerIInv
    OBVIOUS
  <1> USE LiveViewerAssumption
  <1>1. ViewerShape
    <2>1. Free \in SockState /\ EmptyBuffer \in BufferState /\ NoBackfill \in BackfillState
      BY DEF Free, SockState, EmptyBuffer, BufferState, NoBackfill, BackfillState
    <2>2. Len(buffer.lines) <= MaxShown /\ \A c \in Slot : sock[c].at = "free"
      BY DEF ViewerInit, EmptyBuffer, Free
    <2> QED  BY <2>1, <2>2 DEF ViewerInit, ViewerShape
  <1>2. RefsSound
    BY DEF ViewerInit, RefsSound, NoBackfill
  <1>3. OneConnection
    BY DEF ViewerInit, OneConnection, Busy, Live, Free
  <1>4. BufferKept
    BY DEF ViewerInit, BufferKept, BufferPrefix, EmptyBuffer, Live, Free
  <1>5. OwnLines
    BY DEF ViewerInit, OwnLines, EmptyBuffer
  <1> QED  BY <1>1, <1>2, <1>3, <1>4, <1>5 DEF ViewerIInv

\* Only the slot c changes.
OnlySlot(c) == sock' \in [Slot -> SockState] /\ \A d \in Slot : d # c => sock'[d] = sock[d]

\* The buffer's part of the invariant, where the buffer stays and the cursors of
\* the live sockets do not run ahead.
LEMMA BufferStays ==
    ASSUME ViewerIInv, UNCHANGED <<buffer, crossed, selected>>, gapped => gapped',
           ~crossed /\ ~gapped' => \A c \in Slot : Live(c)' =>
               \/ sock'[c].next <= buffer.lastSeq + 1
               \/ Live(c) /\ sock'[c].next = sock[c].next
    PROVE  BufferKept' /\ OwnLines'
  <1>1. OwnLines'
    BY DEF ViewerIInv, OwnLines
  <1>2. BufferPrefix' = BufferPrefix
    BY DEF BufferPrefix
  <1> QED  BY <1>1, <1>2 DEF ViewerIInv, BufferKept

LEMMA ViewerTicketGranted ==
    ASSUME ViewerIInv, NEW c \in Slot, TicketGranted(c)
    PROVE  ViewerIInv'
  <1>0. sock[c] \in SockState /\ buffer.lastSeq \in Nat
    BY DEF ViewerIInv, ViewerShape, BufferState
  <1>1. CASE closedByCaller
    <2>1. OnlySlot(c) /\ sock'[c] = Free /\ Free \in SockState /\ UNCHANGED wsRef
      BY <1>1, LiveViewerAssumption
         DEF TicketGranted, ClosedMeanwhile, OnlySlot, ViewerIInv, ViewerShape, Free, SockState
    <2>2. ViewerShape'
      BY <2>1 DEF TicketGranted, ViewerIInv, ViewerShape, OnlySlot, Free
    <2>3. RefsSound'
      BY <2>1 DEF TicketGranted, ViewerIInv, ViewerShape, RefsSound, OnlySlot, Live
    <2>4. OneConnection'
      BY <2>1 DEF TicketGranted, ViewerIInv, OneConnection, OnlySlot, Live, Busy, Free
    <2>5. BufferKept' /\ OwnLines'
      BY <2>1, BufferStays DEF TicketGranted, OnlySlot, Live, Free
    <2> QED  BY <2>2, <2>3, <2>4, <2>5 DEF ViewerIInv
  <1>2. CASE ~closedByCaller
    <2>1. /\ OnlySlot(c) /\ wsRef' = c
          /\ sock'[c].at = "connecting" /\ sock'[c].of = sock[c].of /\ sock'[c].next = buffer.lastSeq + 1
      <3>1. [at |-> "connecting", of |-> sock[c].of, next |-> buffer.lastSeq + 1] \in SockState
        BY <1>0 DEF SockState
      <3>2. sock' = [sock EXCEPT ![c] = [at |-> "connecting", of |-> sock[c].of, next |-> buffer.lastSeq + 1]]
        BY <1>2, <1>0 DEF TicketGranted, ClosedMeanwhile, ViewerIInv, ViewerShape, SockState
      <3>3. wsRef' = c
        BY <1>2 DEF TicketGranted, ClosedMeanwhile
      <3> QED  BY <1>0, <3>1, <3>2, <3>3 DEF OnlySlot, ViewerIInv, ViewerShape, SockState
    <2>2. ViewerShape'
      BY <2>1 DEF TicketGranted, ViewerIInv, ViewerShape, OnlySlot
    <2>3. RefsSound'
      BY <2>1 DEF TicketGranted, ViewerIInv, RefsSound, OnlySlot, Live
    <2>4. OneConnection'
      BY <1>2, <2>1 DEF TicketGranted, ViewerIInv, OneConnection, OnlySlot, Live, Busy
    <2>5. BufferKept' /\ OwnLines'
      BY <1>0, <2>1, BufferStays DEF TicketGranted, OnlySlot, Live
    <2> QED  BY <2>2, <2>3, <2>4, <2>5 DEF ViewerIInv
  <1> QED  BY <1>1, <1>2 DEF ViewerIInv, ViewerShape

LEMMA ViewerTicketRefused ==
    ASSUME ViewerIInv, NEW c \in Slot, TicketRefused(c)
    PROVE  ViewerIInv'
  <1>1. OnlySlot(c) /\ sock'[c] = Free /\ Free \in SockState /\ sock[c].of \in Log
    BY LiveViewerAssumption DEF TicketRefused, OnlySlot, ViewerIInv, ViewerShape, Free, SockState
  <1>2. timer' = IF closedByCaller THEN timer ELSE sock[c].of
    BY DEF TicketRefused, scheduleReconnect
  <1>3. ViewerShape'
    BY <1>1, <1>2 DEF TicketRefused, ViewerIInv, ViewerShape, OnlySlot, Free
  <1>4. RefsSound'
    BY <1>1 DEF TicketRefused, ViewerIInv, RefsSound, OnlySlot, Live
  <1>5. OneConnection'
    BY <1>1, <1>2 DEF TicketRefused, ViewerIInv, OneConnection, OnlySlot, Live, Busy, Free
  <1>6. BufferKept' /\ OwnLines'
    BY <1>1, BufferStays DEF TicketRefused, OnlySlot, Live, Free
  <1> QED  BY <1>3, <1>4, <1>5, <1>6 DEF ViewerIInv

LEMMA ViewerSocketCloses ==
    ASSUME ViewerIInv, NEW c \in Slot, SocketCloses(c)
    PROVE  ViewerIInv'
  <1>1. /\ OnlySlot(c) /\ sock'[c] = Free /\ Free \in SockState /\ sock[c].of \in Log
        /\ Live(c) \/ sock[c].at = "closing"
    BY LiveViewerAssumption DEF SocketCloses, OnlySlot, ViewerIInv, ViewerShape, Free, SockState, Live
  <1>2. /\ timer' = IF closedByCaller THEN timer ELSE sock[c].of
        /\ wsRef' = IF wsRef = c THEN NoSlot ELSE wsRef
        /\ UNCHANGED <<selected, closedByCaller, hasOpened, backfill, buffer, emitted, evicted, crossed, gapped>>
    BY DEF SocketCloses, scheduleReconnect
  <1>3. ViewerShape'
    <2>1. wsRef' \in Slot \cup {NoSlot} /\ timer' \in Log \cup {NoLog}
      BY <1>1, <1>2 DEF ViewerIInv, ViewerShape
    <2>2. \A d \in Slot : sock'[d].at # "free" => sock'[d].of \in Log
      <3> TAKE d \in Slot
      <3>1. CASE d = c
        BY <1>1, <3>1 DEF Free
      <3>2. CASE d # c
        BY <1>1, <3>2 DEF ViewerIInv, ViewerShape, OnlySlot
      <3> QED  BY <3>1, <3>2
    <2> QED  BY <1>1, <1>2, <2>1, <2>2 DEF ViewerIInv, ViewerShape, OnlySlot
  <1>4. RefsSound'
    BY <1>1, <1>2 DEF ViewerIInv, ViewerShape, RefsSound, OnlySlot, Live
  <1>5. OneConnection'
    BY <1>1, <1>2, LiveViewerAssumption DEF ViewerIInv, OneConnection, OnlySlot, Live, Busy, Free
  <1>6. BufferKept' /\ OwnLines'
    BY <1>1, <1>2, BufferStays DEF OnlySlot, Live, Free
  <1> QED  BY <1>3, <1>4, <1>5, <1>6 DEF ViewerIInv

LEMMA ViewerSocketOpens ==
    ASSUME ViewerIInv, NEW c \in Slot, SocketOpens(c)
    PROVE  ViewerIInv'
  <1> DEFINE gone == evicted[sock[c].of]
             next == IF gone >= sock[c].next THEN gone + 1 ELSE sock[c].next
  <1>0. /\ sock[c] \in SockState /\ sock[c].at = "connecting" /\ sock[c].of \in Log /\ next \in Nat
        /\ UNCHANGED <<selected, wsRef, closedByCaller, timer, buffer, emitted, evicted, crossed>>
    BY DEF SocketOpens, ViewerIInv, ViewerShape, SockState
  <1>1. gapped' = (gapped \/ gone >= sock[c].next)
    BY DEF SocketOpens
  <1>2. OnlySlot(c) /\ sock'[c].at = "open" /\ sock'[c].of = sock[c].of /\ sock'[c].next = next
    <2>1. [at |-> "open", of |-> sock[c].of, next |-> next] \in SockState
      BY <1>0 DEF SockState
    <2>2. sock' = [sock EXCEPT ![c].at = "open", ![c].next = next]
      BY DEF SocketOpens
    <2> HIDE DEF next
    <2>3. sock \in [Slot -> SockState]
      BY DEF ViewerIInv, ViewerShape
    <2>4. /\ sock'[c] = [sock[c] EXCEPT !.at = "open", !.next = next] /\ DOMAIN sock' = Slot
          /\ \A d \in Slot : d # c => sock'[d] = sock[d]
      BY <2>2, <2>3
    <2>5. sock'[c] = [at |-> "open", of |-> sock[c].of, next |-> next]
      BY <1>0, <2>4 DEF SockState
    <2>6. \A d \in Slot : sock'[d] \in SockState
      BY <2>1, <2>3, <2>4, <2>5
    <2>7. sock' = [d \in Slot |-> sock'[d]]
      BY <2>2, <2>3
    <2> QED  BY <2>4, <2>5, <2>6, <2>7 DEF OnlySlot
  <1>3. /\ backfill' \in BackfillState
        /\ backfill'.apply # "none" => backfill'.of = selected /\ selected # NoLog
    <2>1. CASE hasOpened /\ selected # NoLog
      <3>1. backfill' = [apply |-> "merge", of |-> selected]
        BY <2>1 DEF SocketOpens
      <3> QED  BY <2>1, <3>1 DEF BackfillState, ViewerIInv, ViewerShape
    <2>2. CASE ~(hasOpened /\ selected # NoLog)
      BY <2>2 DEF SocketOpens, ViewerIInv, ViewerShape, RefsSound
    <2> QED  BY <2>1, <2>2
  <1>4. ViewerShape'
    <2>1. \A d \in Slot : sock'[d].at # "free" => sock'[d].of \in Log
      BY <1>0, <1>2 DEF ViewerIInv, ViewerShape, OnlySlot
    <2> QED  BY <1>0, <1>1, <1>2, <1>3, <2>1 DEF ViewerIInv, ViewerShape, OnlySlot
  <1>5. RefsSound'
    BY <1>0, <1>2, <1>3 DEF ViewerIInv, ViewerShape, RefsSound, OnlySlot, Live
  <1>6. OneConnection'
    BY <1>0, <1>2 DEF ViewerIInv, OneConnection, OnlySlot, Live, Busy
  <1>7. BufferKept' /\ OwnLines'
    <2>1. ~gapped' => sock'[c].next = sock[c].next /\ Live(c)
      BY <1>0, <1>1, <1>2 DEF Live
    <2>2. \A d \in Slot : d # c => (Live(d)' = Live(d)) /\ sock'[d].next = sock[d].next
      BY <1>2 DEF OnlySlot, Live
    <2>3. gapped => gapped'
      BY <1>1
    <2> QED  BY <1>0, <2>1, <2>2, <2>3, BufferStays DEF Live
  <1> QED  BY <1>4, <1>5, <1>6, <1>7 DEF ViewerIInv

LEMMA ViewerSocketFrame ==
    ASSUME ViewerIInv, NEW c \in Slot, SocketFrame(c)
    PROVE  ViewerIInv'
  <1> DEFINE g == sock[c].of
             q == sock[c].next
  <1>0. /\ sock[c] \in SockState /\ sock[c].at = "open" /\ g \in Log /\ q \in Nat
        /\ buffer' = applyLogFrame(g, q) /\ sock' = [sock EXCEPT ![c].next = @ + 1]
        /\ UNCHANGED <<selected, wsRef, closedByCaller, timer, hasOpened, backfill, emitted, evicted, crossed, gapped>>
    BY DEF SocketFrame, ViewerIInv, ViewerShape, SockState
  <1>1. OnlySlot(c) /\ sock'[c].at = "open" /\ sock'[c].of = g /\ sock'[c].next = q + 1
    <2>1. [at |-> "open", of |-> g, next |-> q + 1] \in SockState
      BY <1>0 DEF SockState
    <2>2. sock \in [Slot -> SockState]
      BY DEF ViewerIInv, ViewerShape
    <2>3. /\ sock'[c] = [sock[c] EXCEPT !.next = @ + 1]
          /\ \A d \in Slot : d # c => sock'[d] = sock[d]
      BY <1>0, <2>2
    <2>4. sock'[c] = [at |-> "open", of |-> g, next |-> q + 1]
      BY <1>0, <2>3 DEF SockState
    <2>5. \A d \in Slot : sock'[d] \in SockState
      BY <2>1, <2>2, <2>3, <2>4
    <2>6. sock' = [d \in Slot |-> sock'[d]]
      BY <1>0, <2>2
    <2> QED  BY <2>3, <2>4, <2>5, <2>6 DEF OnlySlot
  <1>2. /\ ~crossed => g = selected
        /\ ~crossed /\ ~gapped => q <= buffer.lastSeq + 1
    BY <1>0 DEF ViewerIInv, OneConnection, BufferKept, Live
  <1> HIDE DEF g, q
  <1>3. BufferSound' /\ buffer'.lastSeq >= buffer.lastSeq /\ buffer'.lastSeq >= q
    BY <1>0, <1>2, FrameKeeps
  <1>4. ViewerShape'
    <2>1. \A d \in Slot : sock'[d].at # "free" => sock'[d].of \in Log
      BY <1>0, <1>1 DEF ViewerIInv, ViewerShape, OnlySlot
    <2> QED  BY <1>0, <1>1, <1>3, <2>1 DEF ViewerIInv, ViewerShape, OnlySlot, BufferSound
  <1>5. RefsSound'
    BY <1>0, <1>1 DEF ViewerIInv, ViewerShape, RefsSound, OnlySlot, Live
  <1>6. OneConnection'
    BY <1>0, <1>1 DEF ViewerIInv, OneConnection, OnlySlot, Live, Busy, g
  <1>7. ASSUME ~crossed, ~gapped, NEW d \in Slot, Live(d)' PROVE sock'[d].next <= buffer'.lastSeq + 1
    <2>0. buffer.lastSeq \in Nat /\ buffer'.lastSeq \in Nat
      BY <1>3 DEF BufferSound, BufferState, ViewerIInv, ViewerShape
    <2>1. CASE d = c
      BY <1>0, <1>1, <1>3, <2>0, <2>1
    <2>2. CASE d # c
      <3>1. sock[d].next \in Nat /\ sock'[d] = sock[d] /\ Live(d)
        BY <1>1, <1>7, <2>2 DEF OnlySlot, Live, ViewerIInv, ViewerShape, SockState
      <3>2. sock[d].next <= buffer.lastSeq + 1
        BY <1>7, <3>1 DEF ViewerIInv, BufferKept
      <3> QED  BY <1>3, <2>0, <3>1, <3>2
    <2> QED  BY <2>1, <2>2
  <1> QED  BY <1>0, <1>3, <1>4, <1>5, <1>6, <1>7 DEF ViewerIInv, BufferKept, BufferSound

\* A new call of connect: one slot holds its ticket request, and the socket
\* there was is gone.
LEMMA ConnectBegins ==
    ASSUME NEW g \in Log, NEW s \in [Slot -> SockState], NEW w \in Slot \cup {NoSlot}, connect(g, s, w)
    PROVE  /\ sock' \in [Slot -> SockState] /\ wsRef' = NoSlot /\ closedByCaller' = FALSE
           /\ \E c \in Slot : /\ sock'[c].at = "ticket" /\ sock'[c].of = g
                              /\ \A d \in Slot : d # c => sock'[d] = (IF d = w THEN Free ELSE s[d])
  <1> DEFINE old == IF w = NoSlot THEN s ELSE [s EXCEPT ![w] = Free]
             unused == {c \in Slot : old[c] = Free}
             n == CHOOSE c \in unused : TRUE
             t == [at |-> "ticket", of |-> g, next |-> 0]
  <1>1. unused # {} /\ sock' = [old EXCEPT ![n] = t] /\ wsRef' = NoSlot /\ closedByCaller' = FALSE
    BY DEF connect
  <1>2. n \in Slot
    BY <1>1
  <1>3. Free \in SockState /\ t \in SockState /\ t.at = "ticket" /\ t.of = g
    BY DEF Free, SockState
  <1>4. old \in [Slot -> SockState] /\ \A d \in Slot : old[d] = (IF d = w THEN Free ELSE s[d])
    BY <1>3, LiveViewerAssumption
  <1> HIDE DEF old, n, t, unused
  <1>5. /\ sock' \in [Slot -> SockState] /\ sock'[n] = t
        /\ \A d \in Slot : d # n => sock'[d] = old[d]
    BY <1>1, <1>2, <1>3, <1>4
  <1>6. \A d \in Slot : d # n => sock'[d] = (IF d = w THEN Free ELSE s[d])
    BY <1>4, <1>5
  <1> QED  BY <1>1, <1>2, <1>3, <1>5, <1>6

\* Connecting again within a selection.
LEMMA Reconnects ==
    ASSUME ViewerIInv, NEW g \in Log, connect(g, sock, wsRef), timer' \in Log \cup {NoLog},
           ~crossed => /\ g = selected /\ timer' = NoLog
                       /\ \A d \in Slot : Busy(d) => d = wsRef,
           UNCHANGED <<selected, backfill, buffer, emitted, evicted, crossed, gapped>>
    PROVE  ViewerIInv'
  <1>0. sock \in [Slot -> SockState] /\ wsRef \in Slot \cup {NoSlot}
    BY DEF ViewerIInv, ViewerShape
  <1>1. /\ sock' \in [Slot -> SockState] /\ wsRef' = NoSlot /\ closedByCaller' = FALSE
        /\ \E c \in Slot : /\ sock'[c].at = "ticket" /\ sock'[c].of = g
                           /\ \A d \in Slot : d # c => sock'[d] = (IF d = wsRef THEN Free ELSE sock[d])
    BY <1>0, ConnectBegins
  <1>2. PICK c \in Slot : /\ sock'[c].at = "ticket" /\ sock'[c].of = g
                          /\ \A d \in Slot : d # c => sock'[d] = (IF d = wsRef THEN Free ELSE sock[d])
    BY <1>1
  <1>3. \A d \in Slot : d # c => sock'[d] = Free \/ sock'[d] = sock[d]
    BY <1>2
  <1>4. ViewerShape'
    <2>1. \A d \in Slot : sock'[d].at # "free" => sock'[d].of \in Log
      <3> TAKE d \in Slot
      <3>1. CASE d = c
        BY <1>2, <3>1
      <3>2. CASE d # c
        <4>1. CASE sock'[d] = Free
          BY <4>1 DEF Free
        <4>2. CASE sock'[d] = sock[d]
          BY <4>2 DEF ViewerIInv, ViewerShape
        <4> QED  BY <1>3, <3>2, <4>1, <4>2
      <3> QED  BY <3>1, <3>2
    <2> QED  BY <1>1, <2>1 DEF ViewerIInv, ViewerShape
  <1>5. RefsSound'
    BY <1>1 DEF ViewerIInv, RefsSound
  <1>6. OneConnection'
    <2> SUFFICES ASSUME ~crossed PROVE OneConnection'
      BY DEF OneConnection
    <2>1. \A d \in Slot : d # c => ~Busy(d)' /\ ~Live(d)'
      <3> TAKE d \in Slot
      <3> HAVE d # c
      <3>1. CASE d = wsRef
        BY <1>2, <3>1 DEF Busy, Live, Free
      <3>2. CASE d # wsRef
        BY <1>2, <3>2 DEF Busy, Live
      <3> QED  BY <3>1, <3>2
    <2>2. ~Live(c)'
      BY <1>2 DEF Live
    <2>3. \A d \in Slot : sock'[d].at # "closing"
      <3> TAKE d \in Slot
      <3>1. CASE d = c
        BY <1>2, <3>1
      <3>2. CASE d # c
        BY <1>3, <3>2, LiveViewerAssumption DEF ViewerIInv, OneConnection, Free
      <3> QED  BY <3>1, <3>2
    <2>4. selected' = g /\ g # NoLog
      BY LiveViewerAssumption
    <2> QED  BY <1>1, <1>2, <2>1, <2>2, <2>3, <2>4 DEF OneConnection
  <1>7. BufferKept' /\ OwnLines'
    <2>1. \A d \in Slot : Live(d)' => Live(d) /\ sock'[d].next = sock[d].next
      <3> TAKE d \in Slot
      <3>1. CASE d = c
        BY <1>2, <3>1 DEF Live
      <3>2. CASE d # c
        BY <1>3, <3>2 DEF Live, Free
      <3> QED  BY <3>1, <3>2
    <2> QED  BY <2>1, BufferStays
  <1> QED  BY <1>4, <1>5, <1>6, <1>7 DEF ViewerIInv

LEMMA ViewerControlFrame ==
    ASSUME ViewerIInv, NEW c \in Slot, ControlFrame(c)
    PROVE  ViewerIInv'
  <1>1. selected \in Log /\ timer' \in Log \cup {NoLog}
    BY DEF ControlFrame, ViewerIInv, ViewerShape
  <1>2. ~crossed => timer' = NoLog /\ \A d \in Slot : Busy(d) => d = wsRef
    BY DEF ControlFrame, ViewerIInv, OneConnection, Live, Busy
  <1> QED  BY <1>1, <1>2, Reconnects DEF ControlFrame

LEMMA ViewerTimerFires ==
    ASSUME ViewerIInv, TimerFires
    PROVE  ViewerIInv'
  <1>1. timer \in Log /\ timer' \in Log \cup {NoLog}
    BY DEF TimerFires, ViewerIInv, ViewerShape
  <1>2. ~crossed => timer = selected /\ timer' = NoLog /\ \A d \in Slot : Busy(d) => d = wsRef
    BY DEF TimerFires, ViewerIInv, OneConnection
  <1> QED  BY <1>1, <1>2, Reconnects DEF TimerFires

\* The clean-up: the live socket, if it is the current one, is closing.
LEMMA CleanedUp ==
    ASSUME ViewerIInv
    PROVE  /\ Disconnected \in [Slot -> SockState]
           /\ \A d \in Slot : d # wsRef => Disconnected[d] = sock[d]
           /\ wsRef # NoSlot => Disconnected[wsRef].at = "closing" /\ Disconnected[wsRef].of \in Log
  <1>0. sock \in [Slot -> SockState] /\ wsRef \in Slot \cup {NoSlot}
    BY DEF ViewerIInv, ViewerShape
  <1>1. CASE wsRef = NoSlot
    BY <1>0, <1>1, LiveViewerAssumption DEF Disconnected
  <1>2. CASE wsRef # NoSlot
    <2>1. wsRef \in Slot /\ sock[wsRef] \in SockState /\ sock[wsRef].of \in Log
      BY <1>0, <1>2 DEF ViewerIInv, ViewerShape, RefsSound, Live
    <2>2. [sock[wsRef] EXCEPT !.at = "closing"] = [at |-> "closing", of |-> sock[wsRef].of, next |-> sock[wsRef].next]
      BY <2>1 DEF SockState
    <2>3. [at |-> "closing", of |-> sock[wsRef].of, next |-> sock[wsRef].next] \in SockState
      BY <2>1 DEF SockState
    <2>4. Disconnected = [sock EXCEPT ![wsRef] = [at |-> "closing", of |-> sock[wsRef].of, next |-> sock[wsRef].next]]
      BY <1>0, <1>2, <2>1, <2>2 DEF Disconnected
    <2> QED  BY <1>0, <2>1, <2>3, <2>4
  <1> QED  BY <1>1, <1>2

LEMMA FreshBuffer ==
    ASSUME buffer' = EmptyBuffer
    PROVE  BufferSound'
  <1>1. EmptyBuffer \in BufferState
    BY DEF EmptyBuffer, BufferState
  <1>2. /\ buffer'.lines = <<>> /\ buffer'.lastSeq = 0 /\ buffer'.seeded = FALSE
    BY DEF EmptyBuffer
  <1>3. OwnLines' /\ BufferPrefix'
    BY <1>2 DEF OwnLines, BufferPrefix
  <1>4. Len(buffer'.lines) <= MaxShown
    BY <1>2, LiveViewerAssumption
  <1> QED  BY <1>1, <1>3, <1>4 DEF BufferSound

LEMMA ViewerSelectStage ==
    ASSUME ViewerIInv, NEW g \in Log, SelectStage(g)
    PROVE  ViewerIInv'
  <1>0. /\ selected' = g /\ timer' = NoLog /\ backfill' = [apply |-> "seed", of |-> g] /\ g # NoLog
        /\ buffer' = EmptyBuffer /\ UNCHANGED <<emitted, evicted, gapped>>
    BY LiveViewerAssumption DEF SelectStage
  <1>1. crossed' = (crossed \/ \E c \in Slot : sock[c].at # "free")
    BY DEF SelectStage, Crossing
  <1>2. /\ Disconnected \in [Slot -> SockState]
        /\ \A d \in Slot : d # wsRef => Disconnected[d] = sock[d]
        /\ wsRef # NoSlot => Disconnected[wsRef].at = "closing" /\ Disconnected[wsRef].of \in Log
    BY CleanedUp
  <1>3. /\ sock' \in [Slot -> SockState] /\ wsRef' = NoSlot /\ closedByCaller' = FALSE
        /\ \E c \in Slot : /\ sock'[c].at = "ticket" /\ sock'[c].of = g
                           /\ \A d \in Slot : d # c => sock'[d] = (IF d = NoSlot THEN Free ELSE Disconnected[d])
    <2>1. connect(g, Disconnected, NoSlot)
      BY DEF SelectStage
    <2>2. NoSlot \in Slot \cup {NoSlot} /\ Disconnected \in [Slot -> SockState]
      BY <1>2
    <2> QED  BY <2>1, <2>2, ConnectBegins
  <1>4. PICK c \in Slot : /\ sock'[c].at = "ticket" /\ sock'[c].of = g
                          /\ \A d \in Slot : d # c => sock'[d] = Disconnected[d]
    BY <1>3, LiveViewerAssumption
  <1>5. BufferSound'
    BY <1>0, FreshBuffer
  <1>6. ViewerShape'
    <2>1. backfill' \in BackfillState /\ crossed' \in BOOLEAN
      BY <1>0, <1>1 DEF BackfillState
    <2>2. \A d \in Slot : sock'[d].at # "free" => sock'[d].of \in Log
      <3> TAKE d \in Slot
      <3>1. CASE d = c
        BY <1>4, <3>1
      <3>2. CASE d # c /\ d = wsRef
        BY <1>2, <1>4, <3>2, LiveViewerAssumption
      <3>3. CASE d # c /\ d # wsRef
        BY <1>2, <1>4, <3>3 DEF ViewerIInv, ViewerShape
      <3> QED  BY <3>1, <3>2, <3>3
    <2> QED  BY <1>0, <1>3, <1>5, <2>1, <2>2 DEF ViewerIInv, ViewerShape, BufferSound
  <1>7. RefsSound'
    BY <1>0, <1>3 DEF RefsSound
  <1>8. ~crossed' => \A d \in Slot : d # c => sock'[d].at = "free"
    <2> SUFFICES ASSUME ~crossed' PROVE \A d \in Slot : d # c => sock'[d].at = "free"
      OBVIOUS
    <2>1. \A d \in Slot : sock[d].at = "free"
      BY <1>1
    <2>2. wsRef = NoSlot
      BY <2>1 DEF ViewerIInv, ViewerShape, RefsSound, Live
    <2> QED  BY <1>2, <1>4, <2>1, <2>2, LiveViewerAssumption
  <1>9. OneConnection'
    BY <1>0, <1>3, <1>4, <1>8 DEF OneConnection, Busy, Live
  <1>10. ~crossed' => \A d \in Slot : ~Live(d)'
    BY <1>4, <1>8 DEF Live
  <1> QED  BY <1>5, <1>6, <1>7, <1>9, <1>10 DEF ViewerIInv, BufferSound, BufferKept

LEMMA ViewerDeselect ==
    ASSUME ViewerIInv, Deselect
    PROVE  ViewerIInv'
  <1>0. /\ selected' = NoLog /\ timer' = NoLog /\ backfill' = NoBackfill /\ sock' = Disconnected
        /\ wsRef' = NoSlot /\ closedByCaller' = TRUE
        /\ buffer' = EmptyBuffer /\ UNCHANGED <<emitted, evicted, crossed, gapped>>
    BY DEF Deselect, Abort
  <1>1. /\ sock' \in [Slot -> SockState]
        /\ \A d \in Slot : d # wsRef => sock'[d] = sock[d]
        /\ wsRef # NoSlot => sock'[wsRef].at = "closing" /\ sock'[wsRef].of \in Log
    BY <1>0, CleanedUp
  <1>2. BufferSound'
    BY <1>0, FreshBuffer
  <1>3. ViewerShape'
    <2>1. backfill' \in BackfillState
      BY <1>0 DEF BackfillState, NoBackfill
    <2>2. \A d \in Slot : sock'[d].at # "free" => sock'[d].of \in Log
      BY <1>1, LiveViewerAssumption DEF ViewerIInv, ViewerShape
    <2> QED  BY <1>0, <1>1, <1>2, <2>1, <2>2 DEF ViewerIInv, ViewerShape, BufferSound
  <1>4. RefsSound'
    BY <1>0 DEF RefsSound, NoBackfill
  <1>5. ~crossed => \A d \in Slot : ~Live(d)'
    BY <1>1, LiveViewerAssumption DEF ViewerIInv, OneConnection, Live
  <1>6. \A d \in Slot : Busy(d)' => Busy(d)
    BY <1>1, LiveViewerAssumption DEF Busy
  <1>7. OneConnection'
    BY <1>0, <1>5, <1>6 DEF ViewerIInv, OneConnection
  <1> QED  BY <1>0, <1>2, <1>3, <1>4, <1>5, <1>7 DEF ViewerIInv, BufferSound, BufferKept

LEMMA ViewerBackfill ==
    ASSUME ViewerIInv, BackfillAnswers \/ BackfillFails
    PROVE  ViewerIInv'
  <1>0. /\ backfill.of = selected /\ selected \in Log /\ backfill' = NoBackfill /\ NoBackfill \in BackfillState
        /\ UNCHANGED <<selected, sock, wsRef, closedByCaller, timer, emitted, evicted, crossed, gapped>>
    BY DEF BackfillAnswers, BackfillFails, ViewerIInv, ViewerShape, RefsSound, socketVars, NoBackfill, BackfillState
  <1>1. BufferSound' /\ (~crossed /\ ~gapped => buffer'.lastSeq >= buffer.lastSeq)
    <2>1. CASE BackfillAnswers
      <3>1. PICK n \in 0 .. emitted[selected] :
               buffer' = seedFromRest(selected, n) \/ buffer' = mergeReconnectBackfill(selected, n)
        BY <1>0, <2>1 DEF BackfillAnswers
      <3>2. n \in Nat
        BY <1>0, <3>1 DEF ViewerIInv, ViewerShape
      <3> QED  BY <1>0, <3>1, <3>2, BackfillKeeps
    <2>2. CASE BackfillFails
      <3>1. buffer' = buffer /\ buffer.lastSeq \in Nat
        BY <2>2 DEF BackfillFails, ViewerIInv, ViewerShape, BufferState
      <3>2. OwnLines' /\ BufferPrefix' = BufferPrefix
        BY <1>0, <3>1 DEF OwnLines, BufferPrefix, ViewerIInv
      <3> QED  BY <1>0, <3>1, <3>2 DEF BufferSound, BufferKept, ViewerIInv, ViewerShape
    <2> QED  BY <2>1, <2>2
  <1>2. ViewerShape'
    BY <1>0, <1>1 DEF ViewerIInv, ViewerShape, BufferSound
  <1>3. RefsSound'
    BY <1>0 DEF ViewerIInv, RefsSound, NoBackfill, Live
  <1>4. OneConnection'
    BY <1>0 DEF ViewerIInv, OneConnection, Live, Busy
  <1>5. ASSUME ~crossed, ~gapped, NEW d \in Slot, Live(d)' PROVE sock'[d].next <= buffer'.lastSeq + 1
    <2>1. buffer.lastSeq \in Nat /\ buffer'.lastSeq \in Nat /\ sock[d].next \in Nat
      BY <1>1 DEF BufferSound, BufferState, ViewerIInv, ViewerShape, SockState
    <2>2. sock[d].next <= buffer.lastSeq + 1
      BY <1>0, <1>5 DEF ViewerIInv, BufferKept, Live
    <2> QED  BY <1>0, <1>1, <1>5, <2>1, <2>2
  <1> QED  BY <1>0, <1>1, <1>2, <1>3, <1>4, <1>5 DEF ViewerIInv, BufferKept, BufferSound

LEMMA ViewerServer ==
    ASSUME ViewerIInv, NEW g \in Log, StageEmits(g) \/ RingEvicts(g)
    PROVE  ViewerIInv'
  <1>0. /\ UNCHANGED <<selected, sock, wsRef, closedByCaller, timer, backfill, buffer, crossed, gapped>>
        /\ emitted' \in [Log -> Nat] /\ evicted' \in [Log -> Nat]
    <2>0. emitted \in [Log -> Nat] /\ evicted \in [Log -> Nat]
      BY DEF ViewerIInv, ViewerShape
    <2>1. CASE StageEmits(g)
      BY <2>0, <2>1 DEF StageEmits, socketVars
    <2>2. CASE RingEvicts(g)
      BY <2>0, <2>2 DEF RingEvicts, ViewFault, socketVars
    <2> QED  BY <2>1, <2>2
  <1>1. ViewerShape' /\ RefsSound' /\ OneConnection'
    BY <1>0 DEF ViewerIInv, ViewerShape, RefsSound, OneConnection, Live, Busy
  <1>2. BufferKept' /\ OwnLines'
    BY <1>0, BufferStays DEF Live
  <1> QED  BY <1>1, <1>2 DEF ViewerIInv

LEMMA ViewerStutters ==
    ASSUME ViewerIInv, UNCHANGED viewerVars
    PROVE  ViewerIInv'
  <1>1. ViewerShape' /\ RefsSound' /\ OneConnection'
    BY DEF viewerVars, socketVars, ViewerIInv, ViewerShape, RefsSound, OneConnection, Live, Busy
  <1>2. BufferKept' /\ OwnLines'
    BY BufferStays DEF viewerVars, socketVars, Live
  <1> QED  BY <1>1, <1>2 DEF ViewerIInv

LEMMA ViewerKeeps ==
    ASSUME ViewerIInv, [ViewerNext(Log)]_viewerVars
    PROVE  ViewerIInv'
  BY ViewerTicketGranted, ViewerTicketRefused, ViewerSocketOpens, ViewerSocketFrame, ViewerControlFrame,
     ViewerSocketCloses, ViewerTimerFires, ViewerSelectStage, ViewerDeselect, ViewerBackfill, ViewerServer,
     ViewerStutters
     DEF ViewerNext, ViewerStep

LEMMA ViewerFollows == ViewerIInv => ViewerInv
  <1> SUFFICES ASSUME ViewerIInv PROVE ViewerInv
    OBVIOUS
  <1>1. ViewerTypeOK
    BY DEF ViewerIInv, ViewerShape, ViewerTypeOK, SockState, BufferState, BackfillState
  <1>2. OneSubscription
    BY DEF ViewerIInv, OneConnection, OneSubscription, Busy, Live
  <1>3. BufferExact
    BY DEF ViewerIInv, BufferKept, BufferPrefix, BufferExact
  <1> QED  BY <1>1, <1>2, <1>3 DEF ViewerIInv, ViewerInv

\* However drops, refused tickets, truncations, captures and selections interleave,
\* a selection that nothing crossed has one connection (useWebSocket.ts), and the
\* buffer (stageLogBuffer.ts) shows the selected stage's lines, each once and in
\* order, up to its cursor.
THEOREM ViewerInvariant == ViewerSpec => []ViewerInv
  <1>1. QED
    BY ViewerInitially, ViewerKeeps, ViewerFollows, PTL DEF ViewerSpec

-----------------------------------------------------------------------------
(* The server process *)

\* Beyond what it must not do, how far New has come in the order of its steps:
\* a cleanup is registered for what is held, workers come last, and what they
\* will use is there before.
Booting ==
    phase = "booting" =>
        /\ ~hurried /\ held \subseteq Range(undo) \cup {"ticketGC", "limiters"}
        /\ step <= 24 => "limiters" \notin held
        /\ step <= 20 => busy = {}
        /\ busy \subseteq {"health", "canarySweeper", "auditSweeper", "jobSweeper"}
        /\ step > 2 => "store" \in held
        /\ step > 6 => "hub" \in held
        /\ step > 17 /\ On("jobqueue") => "jobDB" \in held
        /\ step > 18 /\ On("scheduler") => On("jobqueue")
        /\ "jobSweeper" \in busy => On("jobqueue")

Undoing == phase = "undoing" => busy = {} /\ held \subseteq Range(undo) \cup {"ticketGC"}

Equipped ==
    phase \in {"serving", "draining"} =>
        /\ "store" \in held /\ "hub" \in held /\ (On("jobqueue") => "jobDB" \in held)
        /\ \A w \in busy \cap {"pool", "schedule", "jobSweeper"} : On("jobqueue")

\* What has been waited for has ended.
Waited ==
    /\ phase = "serving" => ~hurried
    /\ phase = "draining" => step \in 1 .. 6 /\ (~hurried => \A i \in 1 .. (step - 1) : DrainOrder[i] \notin busy)
    /\ phase \in {"closing", "exited"} => step \in 1 .. 9 /\ (~hurried => busy \subseteq {"canarySweeper", "jobSweeper"})

LifeShape ==
    /\ cfg \in Configs
    /\ phase \in {"booting", "undoing", "serving", "draining", "closing", "exited", "aborted"}
    /\ step \in 1 .. 25 /\ held \subseteq Resource /\ busy \subseteq Worker
    /\ undo \in Seq(Resource) /\ hurried \in BOOLEAN

LifeIInv == LifeShape /\ Booting /\ Undoing /\ BootFailureReleases /\ Equipped /\ Waited

\* What is asked of a step of New: the store, the hub and the queue are made
\* before the first worker, and nothing fails after it.
StepSound(i, s) ==
    /\ s.get \in Resource \cup {"none"} /\ s.worker \in Worker \cup {"none"} /\ s.when \in BOOLEAN
    /\ s.get = "limiters" => i = 24
    /\ s.worker # "none" => i \in 20 .. 23 /\ s.worker \in {"health", "canarySweeper", "auditSweeper", "jobSweeper"}
    /\ s.worker = "jobSweeper" => s.when = On("jobqueue")
    /\ s.fails => i <= 19
    /\ i = 2 => s.get = "store" /\ s.when
    /\ i = 6 => s.get = "hub" /\ s.when
    /\ i = 17 => s.get = "jobDB" /\ s.when = On("jobqueue")
    /\ i = 18 => s = BootScheduler /\ s.when = On("scheduler")

LEMMA StepsSound == Len(BootSteps) = 24 /\ \A i \in 1 .. 24 : StepSound(i, BootSteps[i])
  <1>0. Len(BootSteps) = 24
    BY DEF BootSteps
  <1>1. StepSound(1, NewMiddleware) /\ BootSteps[1] = NewMiddleware
    <2>1. BootSteps[1] = NewMiddleware
      BY DEF BootSteps
    <2> QED  BY <2>1 DEF StepSound, NewMiddleware, S, On, Resource, Worker, BootScheduler
  <1>2. StepSound(2, OpenStore) /\ BootSteps[2] = OpenStore
    <2>1. BootSteps[2] = OpenStore
      BY DEF BootSteps
    <2> QED  BY <2>1 DEF StepSound, OpenStore, S, On, Resource, Worker, BootScheduler
  <1>3. StepSound(3, SetupAuth) /\ BootSteps[3] = SetupAuth
    <2>1. BootSteps[3] = SetupAuth
      BY DEF BootSteps
    <2> QED  BY <2>1 DEF StepSound, SetupAuth, S, On, Resource, Worker, BootScheduler
  <1>4. StepSound(4, BootNotifier) /\ BootSteps[4] = BootNotifier
    <2>1. BootSteps[4] = BootNotifier
      BY DEF BootSteps
    <2> QED  BY <2>1 DEF StepSound, BootNotifier, S, On, Resource, Worker, BootScheduler
  <1>5. StepSound(5, OpenRedis) /\ BootSteps[5] = OpenRedis
    <2>1. BootSteps[5] = OpenRedis
      BY DEF BootSteps
    <2> QED  BY <2>1 DEF StepSound, OpenRedis, S, On, Resource, Worker, BootScheduler
  <1>6. StepSound(6, MakeHub) /\ BootSteps[6] = MakeHub
    <2>1. BootSteps[6] = MakeHub
      BY DEF BootSteps
    <2> QED  BY <2>1 DEF StepSound, MakeHub, S, On, Resource, Worker, BootScheduler
  <1>7. StepSound(7, MakeTickets) /\ BootSteps[7] = MakeTickets
    <2>1. BootSteps[7] = MakeTickets
      BY DEF BootSteps
    <2> QED  BY <2>1 DEF StepSound, MakeTickets, S, On, Resource, Worker, BootScheduler
  <1>8. StepSound(8, SetupTracing) /\ BootSteps[8] = SetupTracing
    <2>1. BootSteps[8] = SetupTracing
      BY DEF BootSteps
    <2> QED  BY <2>1 DEF StepSound, SetupTracing, S, On, Resource, Worker, BootScheduler
  <1>9. StepSound(9, NewAuditSink) /\ BootSteps[9] = NewAuditSink
    <2>1. BootSteps[9] = NewAuditSink
      BY DEF BootSteps
    <2> QED  BY <2>1 DEF StepSound, NewAuditSink, S, On, Resource, Worker, BootScheduler
  <1>10. StepSound(10, SelectBackends) /\ BootSteps[10] = SelectBackends
    <2>1. BootSteps[10] = SelectBackends
      BY DEF BootSteps
    <2> QED  BY <2>1 DEF StepSound, SelectBackends, S, On, Resource, Worker, BootScheduler
  <1>11. StepSound(11, NewSource) /\ BootSteps[11] = NewSource
    <2>1. BootSteps[11] = NewSource
      BY DEF BootSteps
    <2> QED  BY <2>1 DEF StepSound, NewSource, S, On, Resource, Worker, BootScheduler
  <1>12. StepSound(12, MakeIdempotency) /\ BootSteps[12] = MakeIdempotency
    <2>1. BootSteps[12] = MakeIdempotency
      BY DEF BootSteps
    <2> QED  BY <2>1 DEF StepSound, MakeIdempotency, S, On, Resource, Worker, BootScheduler
  <1>13. StepSound(13, InstallLicense) /\ BootSteps[13] = InstallLicense
    <2>1. BootSteps[13] = InstallLicense
      BY DEF BootSteps
    <2> QED  BY <2>1 DEF StepSound, InstallLicense, S, On, Resource, Worker, BootScheduler
  <1>14. StepSound(14, NewInventory) /\ BootSteps[14] = NewInventory
    <2>1. BootSteps[14] = NewInventory
      BY DEF BootSteps
    <2> QED  BY <2>1 DEF StepSound, NewInventory, S, On, Resource, Worker, BootScheduler
  <1>15. StepSound(15, RegisterSSHTarget) /\ BootSteps[15] = RegisterSSHTarget
    <2>1. BootSteps[15] = RegisterSSHTarget
      BY DEF BootSteps
    <2> QED  BY <2>1 DEF StepSound, RegisterSSHTarget, S, On, Resource, Worker, BootScheduler
  <1>16. StepSound(16, CheckSSHHosts) /\ BootSteps[16] = CheckSSHHosts
    <2>1. BootSteps[16] = CheckSSHHosts
      BY DEF BootSteps
    <2> QED  BY <2>1 DEF StepSound, CheckSSHHosts, S, On, Resource, Worker, BootScheduler
  <1>17. StepSound(17, BootJobQueue) /\ BootSteps[17] = BootJobQueue
    <2>1. BootSteps[17] = BootJobQueue
      BY DEF BootSteps
    <2> QED  BY <2>1 DEF StepSound, BootJobQueue, S, On, Resource, Worker, BootScheduler
  <1>18. StepSound(18, BootScheduler) /\ BootSteps[18] = BootScheduler
    <2>1. BootSteps[18] = BootScheduler
      BY DEF BootSteps
    <2> QED  BY <2>1 DEF StepSound, BootScheduler, S, On, Resource, Worker
  <1>19. StepSound(19, BootTemplates) /\ BootSteps[19] = BootTemplates
    <2>1. BootSteps[19] = BootTemplates
      BY DEF BootSteps
    <2> QED  BY <2>1 DEF StepSound, BootTemplates, S, On, Resource, Worker, BootScheduler
  <1>20. StepSound(20, StartHealth) /\ BootSteps[20] = StartHealth
    <2>1. BootSteps[20] = StartHealth
      BY DEF BootSteps
    <2> QED  BY <2>1 DEF StepSound, StartHealth, S, On, Resource, Worker, BootScheduler
  <1>21. StepSound(21, StartCanarySweeper) /\ BootSteps[21] = StartCanarySweeper
    <2>1. BootSteps[21] = StartCanarySweeper
      BY DEF BootSteps
    <2> QED  BY <2>1 DEF StepSound, StartCanarySweeper, S, On, Resource, Worker, BootScheduler
  <1>22. StepSound(22, StartAuditSweeper) /\ BootSteps[22] = StartAuditSweeper
    <2>1. BootSteps[22] = StartAuditSweeper
      BY DEF BootSteps
    <2> QED  BY <2>1 DEF StepSound, StartAuditSweeper, S, On, Resource, Worker, BootScheduler
  <1>23. StepSound(23, StartJobSweeper) /\ BootSteps[23] = StartJobSweeper
    <2>1. BootSteps[23] = StartJobSweeper
      BY DEF BootSteps
    <2> QED  BY <2>1 DEF StepSound, StartJobSweeper, S, On, Resource, Worker, BootScheduler
  <1>24. StepSound(24, MakeRouter) /\ BootSteps[24] = MakeRouter
    <2>1. BootSteps[24] = MakeRouter
      BY DEF BootSteps
    <2> QED  BY <2>1 DEF StepSound, MakeRouter, S, On, Resource, Worker, BootScheduler
  <1>25. \A i \in 1 .. 24 : i = 1 \/ i = 2 \/ i = 3 \/ i = 4 \/ i = 5 \/ i = 6 \/ i = 7 \/ i = 8 \/ i = 9 \/ i = 10 \/ i = 11 \/ i = 12
                           \/ i = 13 \/ i = 14 \/ i = 15 \/ i = 16 \/ i = 17 \/ i = 18 \/ i = 19 \/ i = 20 \/ i = 21 \/ i = 22 \/ i = 23 \/ i = 24
    OBVIOUS
  <1> HIDE DEF StepSound
  <1> QED  BY <1>0, <1>1, <1>2, <1>3, <1>4, <1>5, <1>6, <1>7, <1>8, <1>9, <1>10, <1>11, <1>12,
              <1>13, <1>14, <1>15, <1>16, <1>17, <1>18, <1>19, <1>20, <1>21, <1>22, <1>23, <1>24, <1>25

\* Cleanups: the one added last is run first.
LEMMA UndoGrows ==
    ASSUME NEW u \in Seq(Resource), NEW r \in Resource
    PROVE  u \o <<r>> \in Seq(Resource) /\ Range(u \o <<r>>) = Range(u) \cup {r}
  <1>1. <<r>> \in Seq(Resource) /\ Range(<<r>>) = {r}
    BY DEF Range
  <1>2. u \o <<r>> \in Seq(Resource)
    BY <1>1, ConcatProperties
  <1>3. Range(u \o <<r>>) = Range(u) \cup Range(<<r>>)
    BY <1>1, RangeConcatenation
  <1> QED  BY <1>1, <1>2, <1>3

LEMMA UndoShrinks ==
    ASSUME NEW u \in Seq(Resource), u # <<>>
    PROVE  Front(u) \in Seq(Resource) /\ Range(u) \subseteq Range(Front(u)) \cup {Last(u)}
  <1>1. Len(u) \in Nat \ {0}
    OBVIOUS
  <1>2. /\ Front(u) \in Seq(Resource) /\ Len(Front(u)) = Len(u) - 1
        /\ \A i \in 1 .. (Len(u) - 1) : Front(u)[i] = u[i]
    <2> DEFINE n == Len(u) - 1
    <2>1. Front(u) = SubSeq(u, 1, n)
      BY DEF Front
    <2>2. n \in Int /\ 0 <= n /\ n - 1 + 1 = n /\ \A i \in 1 .. n : u[i] \in Resource /\ 1 + i - 1 = i
      BY <1>1
    <2> HIDE DEF n
    <2>3. /\ SubSeq(u, 1, n) \in Seq(Resource)
          /\ Len(SubSeq(u, 1, n)) = IF 1 <= n THEN n - 1 + 1 ELSE 0
          /\ \A i \in 1 .. n - 1 + 1 : SubSeq(u, 1, n)[i] = u[1 + i - 1]
      BY <2>2, SubSeqProperties
    <2>4. Len(SubSeq(u, 1, n)) = n /\ \A i \in 1 .. n : SubSeq(u, 1, n)[i] = u[i]
      BY <2>2, <2>3
    <2> QED  BY <2>1, <2>3, <2>4 DEF n
  <1>3. ASSUME NEW i \in 1 .. Len(u) PROVE u[i] \in Range(Front(u)) \cup {Last(u)}
    <2>1. CASE i = Len(u)
      BY <2>1 DEF Last
    <2>2. CASE i # Len(u)
      <3>1. i \in DOMAIN Front(u) /\ Front(u)[i] = u[i]
        BY <1>1, <1>2, <2>2
      <3> QED  BY <3>1 DEF Range
    <2> QED  BY <2>1, <2>2
  <1>4. Range(u) = {u[i] : i \in 1 .. Len(u)}
    BY RangeEquality
  <1> QED  BY <1>2, <1>3, <1>4

LEMMA LifeInitially == LifeInit => LifeIInv
  <1> SUFFICES ASSUME LifeInit PROVE LifeIInv
    OBVIOUS
  <1>1. LifeShape
    <2>1. undo \in Seq(Resource) /\ step \in 1 .. 25 /\ held \subseteq Resource /\ busy \subseteq Worker
      BY DEF LifeInit
    <2>2. hurried \in BOOLEAN /\ cfg \in Configs
      BY Zenon DEF LifeInit
    <2> QED  BY <2>1, <2>2 DEF LifeInit, LifeShape
  <1>2. Booting
    BY DEF LifeInit, Booting
  <1> QED  BY <1>1, <1>2 DEF LifeInit, LifeIInv, Undoing, BootFailureReleases, Equipped, Waited

LEMMA LifeBootStep ==
    ASSUME LifeIInv, BootStep
    PROVE  LifeIInv'
  <1> DEFINE s == BootSteps[step]
  <1>0. /\ phase = "booting" /\ step \in 1 .. 24 /\ UNCHANGED <<cfg, phase, hurried>>
        /\ step' = step + 1 /\ StepSound(step, s) /\ (s.when => ~MustFail(s))
        /\ held' = (IF s.when /\ s.get # "none" THEN held \cup {s.get} ELSE held)
        /\ undo' = (IF s.when THEN undo \o Undone(s) ELSE undo)
        /\ busy' = (IF s.when /\ s.worker # "none" THEN busy \cup {s.worker} ELSE busy)
    <2>1. step \in 1 .. 24
      BY StepsSound DEF BootStep, LifeIInv, LifeShape
    <2> QED  BY <2>1, StepsSound DEF BootStep
  <1> HIDE DEF s
  <1>1. undo \in Seq(Resource) /\ held \subseteq Resource /\ busy \subseteq Worker
    BY DEF LifeIInv, LifeShape
  <1>2. /\ undo' \in Seq(Resource) /\ Range(undo) \subseteq Range(undo')
        /\ s.when /\ s.get \notin {"none", "ticketGC", "limiters"} => s.get \in Range(undo')
    <2>1. CASE s.when /\ s.get \notin {"none", "ticketGC", "limiters"}
      <3>1. undo' = undo \o <<s.get>> /\ s.get \in Resource
        BY <1>0, <2>1 DEF Undone, StepSound
      <3> QED  BY <1>1, <3>1, UndoGrows
    <2>2. CASE s.when /\ s.get \in {"none", "ticketGC", "limiters"}
      <3>1. undo' = undo \o <<>>
        BY <1>0, <2>2 DEF Undone
      <3>2. undo' = undo
        BY <1>1, <3>1, ConcatEmptySeq
      <3> QED  BY <1>1, <2>2, <3>2
    <2>3. CASE ~s.when
      BY <1>0, <1>1, <2>3
    <2> QED  BY <1>0, <2>1, <2>2, <2>3 DEF StepSound
  <1>3. held' \subseteq Resource /\ held \subseteq held' /\ busy' \subseteq Worker /\ step' \in 1 .. 25
    BY <1>0, <1>1 DEF StepSound
  <1>4. LifeShape'
    BY <1>0, <1>2, <1>3 DEF LifeIInv, LifeShape
  <1>5. Booting
    BY DEF LifeIInv
  <1>6. Booting'
    <2>1. ~hurried' /\ held' \subseteq Range(undo') \cup {"ticketGC", "limiters"}
      BY <1>0, <1>2, <1>5 DEF Booting
    <2>2. step' <= 24 => "limiters" \notin held'
      BY <1>0, <1>5 DEF Booting, StepSound
    <2>3. step' <= 20 => busy' = {}
      BY <1>0, <1>5 DEF Booting, StepSound
    <2>4. busy' \subseteq {"health", "canarySweeper", "auditSweeper", "jobSweeper"}
      BY <1>0, <1>5 DEF Booting, StepSound
    <2>5. (step' > 2 => "store" \in held') /\ (step' > 6 => "hub" \in held')
      BY <1>0, <1>3, <1>5 DEF Booting, StepSound
    <2>6. step' > 17 /\ On("jobqueue")' => "jobDB" \in held'
      BY <1>0, <1>3, <1>5 DEF Booting, StepSound, On
    <2>7. step' > 18 /\ On("scheduler")' => On("jobqueue")'
      BY <1>0, <1>5 DEF Booting, StepSound, On, MustFail
    <2>8. "jobSweeper" \in busy' => On("jobqueue")'
      BY <1>0, <1>5 DEF Booting, StepSound, On
    <2> QED  BY <2>1, <2>2, <2>3, <2>4, <2>5, <2>6, <2>7, <2>8 DEF Booting
  <1> QED  BY <1>0, <1>4, <1>6 DEF LifeIInv, Undoing, BootFailureReleases, Equipped, Waited

LEMMA LifeBootFails ==
    ASSUME LifeIInv, BootFails
    PROVE  LifeIInv'
  <1>1. phase = "booting" /\ step \in 1 .. 19 /\ phase' = "undoing" /\ UNCHANGED <<cfg, step, held, undo, busy, hurried>>
    <2>1. step \in 1 .. 24
      BY StepsSound DEF BootFails, LifeIInv, LifeShape
    <2> QED  BY <2>1, StepsSound DEF BootFails, StepSound
  <1> QED  BY <1>1 DEF LifeIInv, LifeShape, Booting, Undoing, BootFailureReleases, Equipped, Waited

LEMMA LifeCleanup ==
    ASSUME LifeIInv, Cleanup
    PROVE  LifeIInv'
  <1>1. /\ phase = "undoing" /\ undo # <<>> /\ undo \in Seq(Resource) /\ undo' = Front(undo)
        /\ held' = held \ {Last(undo)} /\ UNCHANGED <<cfg, phase, step, busy, hurried>>
    BY DEF Cleanup, LifeIInv, LifeShape
  <1>2. Front(undo) \in Seq(Resource) /\ Range(undo) \subseteq Range(Front(undo)) \cup {Last(undo)}
    BY <1>1, UndoShrinks
  <1>3. Undoing'
    BY <1>1, <1>2 DEF LifeIInv, Undoing
  <1> QED  BY <1>1, <1>2, <1>3 DEF LifeIInv, LifeShape, Booting, BootFailureReleases, Equipped, Waited

LEMMA LifeBootFailed ==
    ASSUME LifeIInv, BootFailed
    PROVE  LifeIInv'
  <1>1. Range(<<>>) = {}
    BY DEF Range
  <1> QED  BY <1>1 DEF BootFailed, LifeIInv, LifeShape, Booting, Undoing, BootFailureReleases, Equipped, Waited

LEMMA LifeServe ==
    ASSUME LifeIInv, Serve
    PROVE  LifeIInv'
  <1>1. /\ phase = "booting" /\ step = 25 /\ phase' = "serving" /\ step' = 1 /\ UNCHANGED <<cfg, held, undo, hurried>>
        /\ busy' = busy \cup (IF On("jobqueue") THEN {"pool"} ELSE {})
                        \cup (IF On("scheduler") THEN {"schedule"} ELSE {})
    BY StepsSound DEF Serve, LifeIInv, LifeShape
  <1>2. busy' \subseteq Worker
    BY <1>1 DEF LifeIInv, LifeShape, Worker
  <1>3. Equipped'
    BY <1>1 DEF LifeIInv, Booting, Equipped, On
  <1> QED  BY <1>1, <1>2, <1>3 DEF LifeIInv, LifeShape, Booting, Undoing, BootFailureReleases, Waited

LEMMA LifeServing ==
    ASSUME LifeIInv, StartRun \/ ServeFails \/ Signal
    PROVE  LifeIInv'
  <1>1. CASE StartRun
    BY <1>1 DEF StartRun, LifeIInv, LifeShape, Worker, Booting, Undoing, BootFailureReleases, Equipped, Waited, On
  <1>2. CASE ServeFails
    BY <1>2 DEF ServeFails, LifeIInv, LifeShape, Booting, Undoing, BootFailureReleases, Equipped, Waited
  <1>3. CASE Signal
    <2>1. phase = "serving" /\ step' = 1 /\ UNCHANGED <<cfg, held, undo, busy>>
      BY <1>3 DEF Signal
    <2>2. CASE phase' = "draining" /\ UNCHANGED hurried
      BY <2>1, <2>2 DEF LifeIInv, LifeShape, Booting, Undoing, BootFailureReleases, Equipped, Waited, On
    <2>3. CASE phase' = "closing" /\ hurried' = TRUE
      BY <2>1, <2>3 DEF LifeIInv, LifeShape, Booting, Undoing, BootFailureReleases, Equipped, Waited
    <2> QED  BY <1>3, <2>2, <2>3 DEF Signal
  <1> QED  BY <1>1, <1>2, <1>3

LEMMA LifeWorkerEnds ==
    ASSUME LifeIInv, NEW w \in Worker, WorkerEnds(w)
    PROVE  LifeIInv'
  <1>1. busy' \subseteq busy /\ UNCHANGED <<cfg, phase, step, held, undo, hurried>>
    BY DEF WorkerEnds
  <1> QED  BY <1>1 DEF LifeIInv, LifeShape, Booting, Undoing, BootFailureReleases, Equipped, Waited, On

LEMMA LifeDrains ==
    ASSUME LifeIInv, Drain \/ Drained
    PROVE  LifeIInv'
  <1>0. Len(DrainOrder) = 5 /\ DrainOrder[1] = "runs" /\ DrainOrder[2] = "pool" /\ DrainOrder[3] = "schedule"
        /\ DrainOrder[4] = "health" /\ DrainOrder[5] = "auditSweeper"
    BY DEF DrainOrder
  <1>1. CASE Drain
    <2> DEFINE w == DrainOrder[step]
    <2>1. /\ phase = "draining" /\ step \in 1 .. 5 /\ step' = step + 1 /\ UNCHANGED <<cfg, phase, held, undo>>
          /\ \/ w \notin busy' /\ busy' = busy \ {w} /\ UNCHANGED hurried
             \/ hurried' = TRUE /\ UNCHANGED busy
      BY <1>0, <1>1 DEF Drain, LifeIInv, LifeShape
    <2>2. Waited'
      <3>1. ASSUME ~hurried', NEW i \in 1 .. step PROVE DrainOrder[i] \notin busy'
        <4>1. CASE i = step
          BY <2>1, <3>1, <4>1
        <4>2. CASE i # step
          <5>1. i \in 1 .. (step - 1) /\ ~hurried
            BY <2>1, <3>1, <4>2
          <5> QED  BY <2>1, <5>1 DEF LifeIInv, Waited
        <4> QED  BY <4>1, <4>2
      <3> QED  BY <2>1, <3>1 DEF Waited
    <2> HIDE DEF w
    <2>3. hurried' \in BOOLEAN /\ busy' \subseteq busy
      BY <2>1 DEF LifeIInv, LifeShape
    <2> QED  BY <2>1, <2>2, <2>3 DEF LifeIInv, LifeShape, Booting, Undoing, BootFailureReleases, Equipped, On
  <1>2. CASE Drained
    <2>1. phase = "draining" /\ step = 6 /\ phase' = "closing" /\ step' = 1 /\ UNCHANGED <<cfg, held, undo, busy, hurried>>
      BY <1>0, <1>2 DEF Drained, LifeIInv, LifeShape, Waited
    <2>2. ~hurried => busy \subseteq {"canarySweeper", "jobSweeper"}
      <3> SUFFICES ASSUME ~hurried PROVE busy \subseteq {"canarySweeper", "jobSweeper"}
        OBVIOUS
      <3>1. \A i \in 1 .. 5 : DrainOrder[i] \notin busy
        BY <2>1 DEF LifeIInv, Waited
      <3>2. DrainOrder[1] \notin busy /\ DrainOrder[2] \notin busy /\ DrainOrder[3] \notin busy
            /\ DrainOrder[4] \notin busy /\ DrainOrder[5] \notin busy
        BY <3>1
      <3> QED  BY <1>0, <3>2 DEF LifeIInv, LifeShape, Worker
    <2> QED  BY <2>1, <2>2 DEF LifeIInv, LifeShape, Booting, Undoing, BootFailureReleases, Equipped, Waited
  <1> QED  BY <1>1, <1>2

LEMMA LifeCloses ==
    ASSUME LifeIInv, CloseStep \/ Exit
    PROVE  LifeIInv'
  <1>0. Len(CloseOrder) = 8
    BY DEF CloseOrder
  <1>1. CASE CloseStep
    <2>1. /\ phase = "closing" /\ step \in 1 .. 8 /\ step' = step + 1 /\ UNCHANGED <<cfg, phase, undo, hurried>>
          /\ held' \subseteq held /\ busy' \subseteq busy
      BY <1>0, <1>1 DEF CloseStep, LifeIInv, LifeShape
    <2> QED  BY <2>1 DEF LifeIInv, LifeShape, Booting, Undoing, BootFailureReleases, Equipped, Waited
  <1>2. CASE Exit
    BY <1>0, <1>2 DEF Exit, LifeIInv, LifeShape, Booting, Undoing, BootFailureReleases, Equipped, Waited
  <1> QED  BY <1>1, <1>2

LEMMA LifeKeeps ==
    ASSUME LifeIInv, [LifeNext]_lifeVars
    PROVE  LifeIInv'
  <1>1. CASE UNCHANGED lifeVars
    BY <1>1 DEF lifeVars, LifeIInv, LifeShape, Booting, Undoing, BootFailureReleases, Equipped, Waited, On
  <1>2. CASE LifeNext
    BY <1>2, LifeBootStep, LifeBootFails, LifeCleanup, LifeBootFailed, LifeServe, LifeServing, LifeWorkerEnds,
       LifeDrains, LifeCloses DEF LifeNext
  <1> QED  BY <1>1, <1>2

LEMMA LifeFollows == LifeIInv => LifeInv
  <1> SUFFICES ASSUME LifeIInv PROVE LifeInv
    OBVIOUS
  <1>1. LifeTypeOK
    <2>1. Range(undo) \in SUBSET Resource
      BY RangeOfSeq DEF LifeIInv, LifeShape
    <2> QED  BY <2>1, StepsSound DEF LifeIInv, LifeShape, LifeTypeOK
  <1>2. ASSUME NEW w \in busy, ~hurried, phase \in {"closing", "exited"} => w \notin {"canarySweeper", "jobSweeper"}
        PROVE  Uses(w) \subseteq held
    <2>0. w \in Worker
      BY DEF LifeIInv, LifeShape
    <2>1. Uses(w) \subseteq {"store", "hub", "jobDB"}
      BY DEF Uses
    <2>2. "jobDB" \in Uses(w) => w \in {"pool", "schedule", "jobSweeper"}
      BY DEF Uses
    <2>3. CASE phase = "booting"
      <3>1. w \in {"health", "canarySweeper", "auditSweeper", "jobSweeper"} /\ step > 20
        BY <2>3 DEF LifeIInv, LifeShape, Booting
      <3>2. "store" \in held /\ "hub" \in held
        BY <2>3, <3>1 DEF LifeIInv, LifeShape, Booting
      <3>3. w = "jobSweeper" => "jobDB" \in held
        BY <2>3, <3>1 DEF LifeIInv, LifeShape, Booting
      <3> QED  BY <2>1, <2>2, <3>1, <3>2, <3>3
    <2>4. CASE phase \in {"serving", "draining"}
      BY <2>1, <2>2, <2>4 DEF LifeIInv, Equipped
    <2>5. CASE phase \in {"closing", "exited"}
      BY <1>2, <2>5 DEF LifeIInv, Waited
    <2>6. CASE phase \in {"undoing", "aborted"}
      BY <2>6 DEF LifeIInv, Undoing, BootFailureReleases
    <2> QED  BY <2>3, <2>4, <2>5, <2>6 DEF LifeIInv, LifeShape
  <1>3. SchedulerHasQueue
    BY DEF LifeIInv, Equipped, SchedulerHasQueue
  <1> QED  BY <1>1, <1>2, <1>3 DEF LifeIInv, LifeInv, WorkersOutliveNothing

\* Under every configuration that Validate lets by: New undoes all but the ticket
\* sweeper when a step fails, and no worker outlives what it uses, in New, in
\* RunContext or in Close, unless a wait was given up.
THEOREM LifeInvariant == LifeSpec => []LifeInv
  <1>1. QED
    BY LifeInitially, LifeKeeps, LifeFollows, PTL DEF LifeSpec

-----------------------------------------------------------------------------
(* The idempotency cache *)

\* An entry is as large as its request's answer, and entries share no bytes.
LEMMA BytesOfOne ==
    ASSUME NEW e \in CacheEntry
    PROVE  IsFiniteSet(Bytes({e})) /\ Resident({e}) = SizeOf[e.of]
  <1> DEFINE n == SizeOf[e.of]
  <1>1. n \in Nat
    BY IdemAssumption DEF CacheEntry
  <1>2. Bytes({e}) = {e} \X (1..n)
    BY DEF Bytes
  <1> HIDE DEF n
  <1>3. IsFiniteSet({e}) /\ Cardinality({e}) = 1
    BY FS_Singleton
  <1>4. IsFiniteSet(1..n) /\ Cardinality(1..n) = n
    BY <1>1, FS_Interval
  <1>5. IsFiniteSet({e} \X (1..n)) /\ Cardinality({e} \X (1..n)) = Cardinality({e}) * Cardinality(1..n)
    BY <1>3, <1>4, FS_Product
  <1>6. Cardinality({e} \X (1..n)) = n
    BY <1>1, <1>3, <1>4, <1>5
  <1> QED  BY <1>2, <1>5, <1>6 DEF Resident, n

LEMMA BytesFinite ==
    ASSUME NEW c \in SUBSET CacheEntry, IsFiniteSet(c)
    PROVE  IsFiniteSet(Bytes(c)) /\ Resident(c) \in Nat
  <1> DEFINE parts == {Bytes({e}) : e \in c}
             f == [e \in c |-> Bytes({e})]
  <1>1. \A p \in parts : IsFiniteSet(p)
    BY BytesOfOne
  <1>2. IsFiniteSet(parts)
    <2>1. f \in Surjection(c, parts)
      BY DEF Surjection
    <2> QED  BY <2>1, FS_Surjection
  <1>3. \A e : Bytes({e}) = {e} \X (1..SizeOf[e.of])
    BY DEF Bytes
  <1>4. Bytes(c) = UNION parts
    BY <1>3 DEF Bytes
  <1> HIDE DEF parts
  <1>5. IsFiniteSet(Bytes(c))
    BY <1>1, <1>2, <1>4, FS_UNION
  <1> QED  BY <1>5, FS_CardinalityType DEF Resident

\* The counts of disjoint sets of entries add up.
LEMMA BytesAddUp ==
    ASSUME NEW c \in SUBSET CacheEntry, NEW d \in SUBSET CacheEntry, IsFiniteSet(c), IsFiniteSet(d), c \cap d = {}
    PROVE  Resident(c \cup d) = Resident(c) + Resident(d)
  <1>1. Bytes(c \cup d) = Bytes(c) \cup Bytes(d)
    BY DEF Bytes
  <1>2. Bytes(c) \cap Bytes(d) = {}
    <2> SUFFICES ASSUME NEW x, x \in Bytes(c), x \in Bytes(d) PROVE FALSE
      OBVIOUS
    <2>1. PICK e \in c : x \in {e} \X (1..SizeOf[e.of])
      BY DEF Bytes
    <2>2. PICK g \in d : x \in {g} \X (1..SizeOf[g.of])
      BY DEF Bytes
    <2>3. x[1] = e /\ x[1] = g
      BY <2>1, <2>2
    <2> QED  BY <2>3
  <1>3. IsFiniteSet(Bytes(c)) /\ IsFiniteSet(Bytes(d)) /\ Resident(c) \in Nat /\ Resident(d) \in Nat
    BY BytesFinite
  <1>4. Cardinality(Bytes(c) \cup Bytes(d)) = Cardinality(Bytes(c)) + Cardinality(Bytes(d)) - Cardinality(Bytes(c) \cap Bytes(d))
    BY <1>3, FS_Union
  <1>5. Cardinality({}) = 0
    BY FS_EmptySet
  <1>6. Resident(c \cup d) = Resident(c) + Resident(d) - 0
    BY <1>1, <1>2, <1>4, <1>5 DEF Resident
  <1> QED  BY <1>3, <1>6

LEMMA BytesLeft ==
    ASSUME NEW c \in SUBSET CacheEntry, IsFiniteSet(c), NEW d \in SUBSET c
    PROVE  /\ IsFiniteSet(d) /\ IsFiniteSet(c \ d)
           /\ Resident(c) \in Nat /\ Resident(d) \in Nat
           /\ Resident(c \ d) = Resident(c) - Resident(d)
  <1>1. IsFiniteSet(d) /\ IsFiniteSet(c \ d)
    BY FS_Subset
  <1>2. (c \ d) \cup d = c /\ (c \ d) \cap d = {} /\ c \ d \in SUBSET CacheEntry /\ d \in SUBSET CacheEntry
    OBVIOUS
  <1>3. Resident(c) = Resident(c \ d) + Resident(d)
    BY <1>1, <1>2, BytesAddUp
  <1>4. Resident(c) \in Nat /\ Resident(d) \in Nat /\ Resident(c \ d) \in Nat
    BY <1>1, <1>2, BytesFinite
  <1> QED  BY <1>1, <1>3, <1>4

\* What is cached are answers of executions that ended well, under their key.
EntriesSound == \A e \in cache : req[e.of] = "stored" /\ KeyOf[e.of] = e.key

CacheIInv == CacheInv /\ IsFiniteSet(cache) /\ EntriesSound

LEMMA CacheInitially == IdemInit => CacheIInv
  <1> SUFFICES ASSUME IdemInit PROVE CacheIInv
    OBVIOUS
  <1> USE DEF IdemInit
  <1>1. IdemTypeOK
    <2>1. cache \subseteq CacheEntry /\ \A d, e \in cache : d.key = e.key => d = e
      OBVIOUS
    <2>2. memBytes \in Int
      OBVIOUS
    <2>3. twice \in Nat
      OBVIOUS
    <2>4. answer \in [Request -> Request \cup {NoAnswer}]
      OBVIOUS
    <2>5. req \in [Request -> {"idle", "running", "succeeded", "failed", "stored", "refused", "replayed"}]
      OBVIOUS
    <2> QED  BY <2>1, <2>2, <2>3, <2>4, <2>5 DEF IdemTypeOK
  <1>2. IsFiniteSet(cache)
    BY FS_EmptySet
  <1>3. Resident(cache) = 0
    <2>1. Bytes({}) = {}
      BY DEF Bytes
    <2> QED  BY <2>1, FS_EmptySet DEF Resident
  <1>4. BytesAccounted /\ CapEnforced
    BY <1>3, IdemAssumption DEF BytesAccounted, CapEnforced
  <1>5. ReplayFaithful
    BY IdemAssumption DEF ReplayFaithful
  <1> QED  BY <1>1, <1>2, <1>4, <1>5 DEF CacheIInv, CacheInv, EntriesSound

\* The middleware: who has stored its answer keeps it stored.
LEMMA MiddlewareKeeps ==
    ASSUME CacheIInv, NEW r \in Request,
           Lookup(r) \/ Done(r) \/ (\E o \in {"succeeded", "failed"} : Handle(r, o))
    PROVE  CacheIInv'
  <1> USE DEF CacheIInv, CacheInv
  <1>1. UNCHANGED <<cache, memBytes, twice>>
    BY DEF Lookup, Done, Handle
  <1>2. Bytes(cache)' = Bytes(cache) /\ BytesAccounted' /\ CapEnforced'
    BY <1>1 DEF Bytes, BytesAccounted, CapEnforced, Resident
  <1>3. req \in [Request -> {"idle", "running", "succeeded", "failed", "stored", "refused", "replayed"}]
        /\ answer \in [Request -> Request \cup {NoAnswer}]
    BY DEF IdemTypeOK
  <1>4. /\ req' \in [Request -> {"idle", "running", "succeeded", "failed", "stored", "refused", "replayed"}]
        /\ \A q \in Request : req[q] = "stored" => req'[q] = "stored"
    BY <1>3 DEF Lookup, Done, Handle
  <1>5. EntriesSound'
    <2>1. \A e \in cache : e.of \in Request
      BY DEF IdemTypeOK, CacheEntry
    <2> QED  BY <1>1, <1>4, <2>1 DEF EntriesSound
  <1>6. answer' \in [Request -> Request \cup {NoAnswer}] /\ ReplayFaithful'
    <2>1. CASE UNCHANGED answer
      BY <1>3, <1>4, <2>1 DEF ReplayFaithful
    <2>2. CASE answer' = [answer EXCEPT ![r] = r]
      BY <1>3, <1>4, <2>2 DEF ReplayFaithful
    <2>3. CASE Hits(r) # {} /\ answer' = [answer EXCEPT ![r] = (CHOOSE e \in Hits(r) : TRUE).of]
      <3> DEFINE e == CHOOSE e \in Hits(r) : TRUE
      <3>1. e \in Hits(r)
        BY <2>3
      <3>2. e \in cache /\ e.key = KeyOf[r] /\ e \in CacheEntry
        BY <3>1 DEF Hits, IdemTypeOK
      <3>3. e.of \in Request /\ req[e.of] = "stored" /\ KeyOf[e.of] = KeyOf[r]
        BY <3>2 DEF EntriesSound, CacheEntry
      <3> HIDE DEF e
      <3>4. answer' = [answer EXCEPT ![r] = e.of]
        BY <2>3 DEF e
      <3> QED  BY <1>3, <1>4, <3>3, <3>4 DEF ReplayFaithful
    <2> QED  BY <2>1, <2>2, <2>3 DEF Lookup, Done, Handle
  <1> QED  BY <1>1, <1>2, <1>4, <1>5, <1>6 DEF IdemTypeOK

\* A non-empty set of naturals has a least element.
LEMMA LeastNat ==
    ASSUME NEW T, T \subseteq Nat, T # {}
    PROVE  \E x \in T : \A y \in T : x <= y
  <1> DEFINE R == OpToRel(<, Nat)
  <1>1. IsWellFoundedOn(R, Nat)
    BY NatLessThanWellFounded
  <1>2. \A x, y \in Nat : x < y => <<x, y>> \in R
    BY DEF OpToRel
  <1> HIDE DEF R
  <1>3. \E x \in T : \A y \in T : ~ (<<y, x>> \in R)
    BY <1>1, WFMin
  <1>4. PICK x \in T : \A y \in T : ~ (<<y, x>> \in R)
    BY <1>3
  <1>5. \A y \in T : x \in Nat /\ y \in Nat /\ ~(y < x)
    BY <1>2, <1>4
  <1> QED  BY <1>5

\* evictUntilLocked stops only when the count is down to the target or nothing is
\* left, and then the count is not above zero.
LEMMA EvictionSuffices ==
    ASSUME IdemTypeOK, IsFiniteSet(cache), NEW bytes \in Int, bytes <= Resident(cache), NEW target \in Nat
    PROVE  bytes - Resident(Evicted(bytes, target)) <= target
  <1> DEFINE gone == Evicted(bytes, target)
             rest == cache \ gone
  <1>1. gone \in SUBSET cache /\ cache \in SUBSET CacheEntry
    BY DEF Evicted, IdemTypeOK
  <1>2. IsFiniteSet(gone) /\ Resident(gone) \in Nat /\ Resident(cache) \in Nat
    BY <1>1, BytesLeft
  <1>3. \A e \in rest : ~(bytes - Resident({o \in cache : o.at < e.at}) > target)
    BY DEF Evicted
  <1> HIDE DEF gone
  <1>4. CASE rest = {}
    <2>1. gone = cache
      BY <1>1, <1>4
    <2> QED  BY <1>2, <2>1 DEF gone
  <1>5. CASE rest # {}
    <2> DEFINE T == {e.at : e \in rest}
    <2>1. T \subseteq Nat /\ T # {}
      BY <1>1, <1>5 DEF CacheEntry
    <2>2. PICK x \in T : \A y \in T : x <= y
      BY <2>1, LeastNat
    <2>3. PICK e \in rest : x = e.at
      BY <2>2
    <2> DEFINE older == {o \in cache : o.at < e.at}
    <2>4. older \subseteq gone
      <3>1. SUFFICES ASSUME NEW o \in cache, o.at < e.at, o \notin gone PROVE FALSE
        OBVIOUS
      <3>2. o.at \in T /\ o.at \in Nat /\ e.at \in Nat
        BY <3>1, <2>1, <2>2, <2>3
      <3> QED  BY <2>2, <2>3, <3>1, <3>2
    <2>5. Resident(gone \ older) = Resident(gone) - Resident(older) /\ Resident(older) \in Nat
      BY <1>1, <1>2, <2>4, BytesLeft
    <2>6. Resident(gone \ older) \in Nat
      <3>1. IsFiniteSet(gone \ older) /\ gone \ older \in SUBSET CacheEntry
        BY <1>1, <1>2, FS_Subset
      <3> QED  BY <3>1, BytesFinite
    <2>7. bytes - Resident(older) <= target
      <3>1. ~(bytes - Resident(older) > target)
        BY <1>3
      <3> QED  BY <2>5, <3>1
    <2> HIDE DEF older
    <2> QED  BY <1>2, <2>5, <2>6, <2>7 DEF gone
  <1> QED  BY <1>4, <1>5

\* Set counts what it adds and what it removes, each once, but for what the
\* eviction takes of the entry that is overwritten.
LEMMA StoreKeeps ==
    ASSUME CacheIInv, NEW r \in Request, Store(r)
    PROVE  CacheIInv'
  <1> USE DEF CacheIInv, CacheInv
  <1> DEFINE old == {e \in cache : e.key = KeyOf[r]}
             discounted == memBytes - Resident(old)
             gone == IF discounted + SizeOf[r] > MaxBytes
                       THEN Evicted(discounted, MaxBytes - SizeOf[r]) ELSE {}
             left == (cache \ gone) \ old
             new == Entry(r)
  <1>1. /\ cache' = left \cup {new} /\ memBytes' = discounted - Resident(gone) + SizeOf[r]
        /\ twice' = twice + Resident(old \cap gone)
        /\ req' = [req EXCEPT ![r] = "stored"] /\ answer' = answer
    BY DEF Store, Stored
  <1>2. old \in SUBSET cache /\ gone \in SUBSET cache
    BY DEF Evicted
  <1>3. new \in CacheEntry /\ new.key = KeyOf[r] /\ new.of = r
    <2>1. Cardinality({q \in Request : req[q] = "stored"}) \in Nat
      <3>1. IsFiniteSet({q \in Request : req[q] = "stored"})
        BY IdemAssumption, FS_Subset
      <3> QED  BY <3>1, FS_CardinalityType
    <2>2. KeyOf[r] \in Key
      BY IdemAssumption
    <2> QED  BY <2>1, <2>2 DEF Entry, CacheEntry
  <1>4. /\ cache \in SUBSET CacheEntry /\ memBytes \in Int /\ SizeOf[r] \in Nat /\ twice \in Nat
        /\ MaxBytes \in Nat
    BY IdemAssumption DEF IdemTypeOK
  <1>5. left \in SUBSET cache /\ new \notin left
    BY <1>3
  <1> HIDE DEF gone, new, old, discounted
  <1>6. /\ IsFiniteSet(left) /\ IsFiniteSet(old) /\ IsFiniteSet(gone)
        /\ Resident(old) \in Nat /\ Resident(gone) \in Nat /\ Resident(cache) \in Nat /\ Resident(left) \in Nat
    BY <1>2, <1>4, <1>5, BytesLeft, BytesFinite
  <1>7. IsFiniteSet(cache') /\ Resident(cache') = Resident(left) + SizeOf[r]
    <2>1. IsFiniteSet({new}) /\ {new} \in SUBSET CacheEntry /\ left \in SUBSET CacheEntry /\ left \cap {new} = {}
      BY <1>3, <1>4, <1>5, FS_Singleton
    <2>2. Resident(left \cup {new}) = Resident(left) + Resident({new})
      BY <1>6, <2>1, BytesAddUp
    <2>3. Resident({new}) = SizeOf[r]
      BY <1>3, BytesOfOne
    <2>4. IsFiniteSet(left \cup {new})
      BY <1>6, <2>1, FS_Union
    <2> QED  BY <1>1, <2>2, <2>3, <2>4
  <1>8. /\ Resident(left) = Resident(cache) - Resident(gone) - Resident(old) + Resident(old \cap gone)
        /\ Resident(old \cap gone) \in Nat
    <2>1. Resident(cache \ gone) = Resident(cache) - Resident(gone) /\ IsFiniteSet(cache \ gone)
      BY <1>2, <1>4, BytesLeft
    <2>2. /\ old \ gone \in SUBSET (cache \ gone) /\ cache \ gone \in SUBSET CacheEntry
          /\ old \in SUBSET CacheEntry /\ old \cap gone \in SUBSET old
          /\ (cache \ gone) \ (old \ gone) = left /\ old \ (old \cap gone) = old \ gone
      BY <1>2, <1>4
    <2>3. Resident((cache \ gone) \ (old \ gone)) = Resident(cache \ gone) - Resident(old \ gone)
      BY <2>1, <2>2, BytesLeft
    <2>4. /\ Resident(old \ (old \cap gone)) = Resident(old) - Resident(old \cap gone)
          /\ Resident(old \cap gone) \in Nat
      BY <1>6, <2>2, BytesLeft
    <2>5. Resident(left) = Resident(cache \ gone) - Resident(old \ gone)
      BY <2>2, <2>3
    <2>6. Resident(old \ gone) = Resident(old) - Resident(old \cap gone)
      BY <2>2, <2>4
    <2> HIDE DEF left
    <2> QED  BY <1>6, <2>1, <2>4, <2>5, <2>6
  <1>9. BytesAccounted' /\ CapEnforced'
    <2>1. memBytes = Resident(cache) - twice
      BY DEF BytesAccounted
    <2>2. memBytes' = Resident(cache') - twice'
      BY <1>1, <1>4, <1>6, <1>7, <1>8, <2>1 DEF discounted
    <2>3. ASSUME SizeOf[r] <= MaxBytes PROVE memBytes' <= MaxBytes
      <3>1. discounted \in Int /\ discounted <= Resident(cache)
        BY <1>4, <1>6, <2>1 DEF discounted
      <3>2. CASE discounted + SizeOf[r] <= MaxBytes
        <4>1. memBytes' = discounted - Resident(gone) + SizeOf[r]
          BY <1>1
        <4> QED  BY <1>4, <1>6, <3>1, <3>2, <4>1
      <3>3. CASE ~(discounted + SizeOf[r] <= MaxBytes)
        <4>1. gone = Evicted(discounted, MaxBytes - SizeOf[r]) /\ MaxBytes - SizeOf[r] \in Nat
          BY <1>4, <2>3, <3>1, <3>3 DEF gone
        <4>2. discounted - Resident(gone) <= MaxBytes - SizeOf[r]
          BY <1>4, <3>1, <4>1, EvictionSuffices
        <4>3. memBytes' = discounted - Resident(gone) + SizeOf[r]
          BY <1>1
        <4> QED  BY <1>4, <1>6, <3>1, <4>1, <4>2, <4>3
      <3> QED  BY <3>2, <3>3
    <2>4. CapEnforced'
      BY <2>3 DEF CapEnforced
    <2> QED  BY <2>2, <2>4 DEF BytesAccounted, Resident, Bytes
  <1>10. req \in [Request -> {"idle", "running", "succeeded", "failed", "stored", "refused", "replayed"}]
         /\ \A e \in cache : e.of \in Request
    BY DEF IdemTypeOK, CacheEntry
  <1>11. EntriesSound'
    BY <1>1, <1>3, <1>5, <1>10 DEF EntriesSound
  <1>12. ReplayFaithful'
    BY <1>1, <1>10 DEF ReplayFaithful, IdemTypeOK
  <1>13. IdemTypeOK'
    <2>1. \A d, e \in cache' : d.key = e.key => d = e
      <3>1. \A e \in left : e.key # new.key
        BY <1>3 DEF old
      <3> QED  BY <1>1, <1>5, <3>1 DEF IdemTypeOK
    <2>2. cache' \subseteq CacheEntry
      BY <1>1, <1>3, <1>4, <1>5
    <2>3. memBytes' \in Int
      BY <1>1, <1>4, <1>6 DEF discounted
    <2>4. twice' \in Nat
      BY <1>1, <1>4, <1>8
    <2> QED  BY <1>1, <1>10, <2>1, <2>2, <2>3, <2>4 DEF IdemTypeOK
  <1> QED  BY <1>7, <1>9, <1>11, <1>12, <1>13

\* An entry that expires stays as large as it was.
LEMMA ExpireKeeps ==
    ASSUME CacheIInv, Expire
    PROVE  CacheIInv'
  <1> USE DEF CacheIInv, CacheInv
  <1>1. PICK e \in cache :
            cache' = (cache \ {e}) \cup {[e EXCEPT !.stale = TRUE]} /\ UNCHANGED <<memBytes, req, answer, twice>>
            /\ ~e.stale
    BY DEF Expire
  <1> DEFINE x == [e EXCEPT !.stale = TRUE]
  <1>2. /\ e \in CacheEntry /\ x \in CacheEntry /\ x.key = e.key /\ x.of = e.of
        /\ cache \in SUBSET CacheEntry /\ e.of \in Request
    BY DEF IdemTypeOK, CacheEntry
  <1>3. cache' = (cache \ {e}) \cup {x}
    BY <1>1
  <1> HIDE DEF x
  <1>4. \A d \in cache \ {e} : d.key # e.key
    BY DEF IdemTypeOK
  <1>5. /\ IsFiniteSet(cache \ {e}) /\ Resident(cache \ {e}) = Resident(cache) - Resident({e})
        /\ Resident(cache) \in Nat /\ Resident({e}) \in Nat
    BY <1>2, BytesLeft
  <1>6. Resident({e}) = SizeOf[e.of] /\ Resident({x}) = SizeOf[e.of]
    BY <1>2, BytesOfOne
  <1>7. IsFiniteSet(cache') /\ Resident(cache') = Resident(cache)
    <2>1. IsFiniteSet({x}) /\ {x} \in SUBSET CacheEntry /\ cache \ {e} \in SUBSET CacheEntry /\ (cache \ {e}) \cap {x} = {}
      BY <1>2, <1>4, FS_Singleton
    <2>2. Resident((cache \ {e}) \cup {x}) = Resident(cache \ {e}) + Resident({x})
      BY <1>5, <2>1, BytesAddUp
    <2>3. IsFiniteSet((cache \ {e}) \cup {x})
      BY <1>5, <2>1, FS_Union
    <2> QED  BY <1>3, <1>5, <1>6, <2>2, <2>3
  <1>8. BytesAccounted' /\ CapEnforced'
    BY <1>1, <1>7 DEF BytesAccounted, CapEnforced, Resident, Bytes
  <1>9. EntriesSound' /\ ReplayFaithful'
    BY <1>1, <1>2, <1>3 DEF EntriesSound, ReplayFaithful
  <1>10. IdemTypeOK'
    <2>1. \A c, d \in cache' : c.key = d.key => c = d
      BY <1>2, <1>3, <1>4 DEF IdemTypeOK
    <2>2. cache' \subseteq CacheEntry
      BY <1>2, <1>3
    <2> QED  BY <1>1, <2>1, <2>2 DEF IdemTypeOK
  <1> QED  BY <1>7, <1>8, <1>9, <1>10

\* The sweeper discounts what it deletes.
LEMMA SweepKeeps ==
    ASSUME CacheIInv, Sweep
    PROVE  CacheIInv'
  <1> USE DEF CacheIInv, CacheInv
  <1> DEFINE expired == {e \in cache : e.stale}
  <1>1. /\ cache' = cache \ expired /\ memBytes' = memBytes - Resident(expired)
        /\ UNCHANGED <<req, answer, twice>>
    BY DEF Sweep
  <1>2. /\ expired \in SUBSET cache /\ cache \in SUBSET CacheEntry /\ memBytes \in Int /\ twice \in Nat
        /\ MaxBytes \in Nat
    BY IdemAssumption DEF IdemTypeOK
  <1> HIDE DEF expired
  <1>3. /\ IsFiniteSet(cache \ expired) /\ Resident(expired) \in Nat
        /\ Resident(cache \ expired) = Resident(cache) - Resident(expired) /\ Resident(cache) \in Nat
    BY <1>2, BytesLeft
  <1>4. BytesAccounted' /\ CapEnforced'
    <2>1. Resident(cache') = Resident(cache) - Resident(expired)
      BY <1>1, <1>3
    <2>2. memBytes' = Resident(cache') - twice'
      BY <1>1, <1>2, <1>3, <2>1 DEF BytesAccounted
    <2>3. memBytes' <= memBytes
      BY <1>1, <1>2, <1>3
    <2>4. memBytes <= MaxBytes => memBytes' <= MaxBytes
      BY <1>1, <1>2, <1>3, <2>3
    <2> QED  BY <2>2, <2>4 DEF BytesAccounted, CapEnforced, Resident, Bytes
  <1>5. EntriesSound' /\ ReplayFaithful'
    BY <1>1 DEF EntriesSound, ReplayFaithful
  <1>6. IdemTypeOK'
    BY <1>1, <1>2, <1>3 DEF IdemTypeOK
  <1> QED  BY <1>1, <1>3, <1>4, <1>5, <1>6

\* However requests with keys overlap, answers expire and the cap evicts: the
\* byte counter stays under the cap and is short of what is cached by the entries
\* counted off twice and by nothing else, and a retry is given the answer of
\* a request with its key that succeeded and was stored (idempotencyMiddleware,
\* Memory.Get, Set and gc).
THEOREM CacheInvariant == IdemSpec => []CacheInv
  <1>1. IdemInit => CacheIInv
    BY CacheInitially
  <1>2. CacheIInv /\ [IdemNext]_idemVars => CacheIInv'
    <2> SUFFICES ASSUME CacheIInv, [IdemNext]_idemVars PROVE CacheIInv'
      OBVIOUS
    <2>1. CASE UNCHANGED idemVars
      BY <2>1 DEF idemVars, CacheIInv, CacheInv, IdemTypeOK, BytesAccounted, CapEnforced, ReplayFaithful,
                   EntriesSound, Resident, Bytes
    <2> QED  BY <2>1, MiddlewareKeeps, StoreKeeps, ExpireKeeps, SweepKeeps DEF IdemNext
  <1>3. CacheIInv => CacheInv
    BY DEF CacheIInv
  <1> QED  BY <1>1, <1>2, <1>3, PTL DEF IdemSpec

-----------------------------------------------------------------------------
(* The live log of a stage *)

\* The handler, the hub and the send channel of the connection agree.
StreamPhases ==
    /\ conn \in {"off", "register"} => ~registered /\ hub = "running"
    /\ conn = "register" => ~closed
    /\ hub = "dropping" => registered
    /\ hub = "flagged" => ~registered /\ truncated
    /\ registered => ~closed
    /\ closed /\ conn \in {"read", "replay", "live"} => truncated
    /\ conn = "ending" => told
    /\ conn = "live" => backlog = {}
    /\ backend = "memory" => wire = <<>>

\* The lines of a queue are in the writer's order, and all of these lines were
\* written before all of those.
Ascending(s) == \A i, j \in DOMAIN s : i < j => s[i].seq < s[j].seq
Precede(these, those) == \A f \in these, g \in those : f.seq < g.seq

Pending == Frames(inbox) \cup Frames(wire) \cup Frames(unpublished)

\* Frames of the first attempt, none past the writer's counter or the cursor.
Numbered ==
    /\ \A f \in Frames(ring) \cup Pending \cup Frames(send) \cup backlog : f.att = 1 /\ f.seq <= seq
    /\ lastSeq <= seq

\* The writer's order holds along the way to the client.
WayInOrder ==
    /\ Ascending(send) /\ Ascending(inbox) /\ Ascending(wire)
    /\ Precede(Frames(send), Pending)
    /\ Precede(Frames(inbox), Frames(wire) \cup Frames(unpublished))
    /\ Precede(Frames(wire), Frames(unpublished))

\* Past its cursor, a registered client that has read its backlog will be given
\* every stored line that no backend dropped.
OnTheWay ==
    registered /\ hub = "running" /\ conn \in {"replay", "live"} =>
        \A f \in Frames(ring) : f.seq > lastSeq => f \in lost \cup backlog \cup Frames(send) \cup Pending

\* The lines before a queued one are in the backlog, queued or dropped,
SentWhole ==
    conn \in {"replay", "live"} =>
        \A g \in Frames(send), f \in Frames(ring) :
            lastSeq < f.seq /\ f.seq < g.seq => f \in lost \cup backlog \cup Frames(send)

\* and the lines before one of the backlog are in the backlog.
BacklogWhole ==
    conn = "replay" =>
        \A f \in backlog, g \in Frames(ring) : lastSeq < g.seq /\ g.seq < f.seq => g \in backlog

FirstAttempt ==
    att = 1 => Numbered /\ WayInOrder /\ OnTheWay /\ SentWhole /\ BacklogWhole /\ NoSilentGap

StreamIInv == LogTypeOK /\ StreamPhases /\ FirstAttempt

\* Frames of the empty queue, of one that grows at its end and of one that loses
\* its head.
LEMMA FramesNone ==
    Frames(<<>>) = {} /\ Ascending(<<>>)
BY DEF Frames, Ascending

LEMMA FramesAppend ==
    ASSUME NEW s \in Seq(Frame), NEW f \in Frame
    PROVE  /\ Append(s, f) \in Seq(Frame) /\ Len(Append(s, f)) = Len(s) + 1
           /\ Frames(Append(s, f)) = Frames(s) \cup {f}
           /\ Ascending(s) /\ Precede(Frames(s), {f}) => Ascending(Append(s, f))
<1>1. /\ Append(s, f) \in Seq(Frame) /\ Len(Append(s, f)) = Len(s) + 1
      /\ Append(s, f)[Len(s) + 1] = f
      /\ \A i \in 1..Len(s) : Append(s, f)[i] = s[i]
  OBVIOUS
<1>2. Frames(Append(s, f)) = Frames(s) \cup {f}
  BY <1>1 DEF Frames
<1>3. ASSUME Ascending(s), Precede(Frames(s), {f})  PROVE Ascending(Append(s, f))
  <2>1. SUFFICES ASSUME NEW i \in 1..(Len(s) + 1), NEW j \in 1..(Len(s) + 1), i < j
                 PROVE  Append(s, f)[i].seq < Append(s, f)[j].seq
    BY <1>1 DEF Ascending
  <2>2. i \in 1..Len(s) /\ s[i] \in Frames(s)
    BY <2>1 DEF Frames
  <2>3. CASE j = Len(s) + 1
    BY <2>2, <2>3, <1>1, <1>3 DEF Precede
  <2>4. CASE j # Len(s) + 1
    BY <2>1, <2>2, <2>4, <1>1, <1>3 DEF Ascending
  <2> QED  BY <2>3, <2>4
<1> QED  BY <1>1, <1>2, <1>3

LEMMA FramesTail ==
    ASSUME NEW s \in Seq(Frame), s # <<>>
    PROVE  /\ Head(s) \in Frame /\ Tail(s) \in Seq(Frame) /\ Len(Tail(s)) = Len(s) - 1
           /\ Frames(s) = {Head(s)} \cup Frames(Tail(s))
           /\ Ascending(s) => Ascending(Tail(s)) /\ Precede({Head(s)}, Frames(Tail(s)))
<1>1. /\ Len(s) \in Nat /\ Len(s) >= 1 /\ Head(s) = s[1] /\ Head(s) \in Frame
      /\ Tail(s) \in Seq(Frame) /\ Len(Tail(s)) = Len(s) - 1
      /\ \A i \in 1..(Len(s) - 1) : Tail(s)[i] = s[i + 1]
  OBVIOUS
<1>2. Frames(s) = {Head(s)} \cup Frames(Tail(s))
  <2>1. ASSUME NEW f \in Frames(s)  PROVE f \in {Head(s)} \cup Frames(Tail(s))
    <3>1. PICK i \in 1..Len(s) : f = s[i]
      BY DEF Frames
    <3>2. CASE i = 1
      BY <3>1, <3>2, <1>1
    <3>3. CASE i # 1
      <4>1. i - 1 \in 1..(Len(s) - 1) /\ Tail(s)[i - 1] = s[(i - 1) + 1] /\ (i - 1) + 1 = i
        BY <3>3, <1>1
      <4>2. i - 1 \in DOMAIN Tail(s) /\ f = Tail(s)[i - 1]
        BY <4>1, <3>1, <1>1
      <4> QED  BY <4>2 DEF Frames
    <3> QED  BY <3>2, <3>3
  <2>2. ASSUME NEW f \in Frames(Tail(s))  PROVE f \in Frames(s)
    <3>1. PICK i \in 1..(Len(s) - 1) : f = Tail(s)[i]
      BY <1>1 DEF Frames
    <3>2. i + 1 \in 1..Len(s) /\ f = s[i + 1]
      BY <3>1, <1>1
    <3> QED  BY <3>2 DEF Frames
  <2>3. Head(s) \in Frames(s)
    BY <1>1 DEF Frames
  <2> QED  BY <2>1, <2>2, <2>3
<1>3. ASSUME Ascending(s)  PROVE Ascending(Tail(s)) /\ Precede({Head(s)}, Frames(Tail(s)))
  <2>1. ASSUME NEW i \in 1..(Len(s) - 1), NEW j \in 1..(Len(s) - 1), i < j
        PROVE  Tail(s)[i].seq < Tail(s)[j].seq
    <3>1. i + 1 \in 1..Len(s) /\ j + 1 \in 1..Len(s) /\ i + 1 < j + 1
      BY <2>1, <1>1
    <3> QED  BY <3>1, <1>1, <1>3 DEF Ascending
  <2>2. ASSUME NEW g \in Frames(Tail(s))  PROVE Head(s).seq < g.seq
    <3>1. PICK i \in 1..(Len(s) - 1) : g = Tail(s)[i]
      BY <1>1 DEF Frames
    <3>2. i + 1 \in 1..Len(s) /\ 1 \in 1..Len(s) /\ 1 < i + 1 /\ g = s[i + 1]
      BY <3>1, <1>1
    <3> QED  BY <3>2, <1>1, <1>3 DEF Ascending
  <2> QED  BY <2>1, <2>2, <1>1 DEF Ascending, Precede
<1> QED  BY <1>1, <1>2, <1>3

LEMMA FramesSingle ==
    ASSUME NEW f \in Frame
    PROVE  <<f>> \in Seq(Frame) /\ Len(<<f>>) = 1 /\ Frames(<<f>>) = {f}
BY DEF Frames

LEMMA FramesTyped ==
    ASSUME NEW s \in Seq(Frame)
    PROVE  Frames(s) \subseteq Frame
BY DEF Frames

\* Every step of the stream keeps the types.
LEMMA StreamTypesKept ==
    ASSUME LogTypeOK, StreamPhases, [LogNext]_logVars
    PROVE  LogTypeOK'
<1> USE DEF MaxWrites, hubVars, clientVars, viewVars, writerVars
<1>0. /\ att \in Nat /\ att >= 1 /\ att <= Len(Lines) /\ Len(Lines) \in Nat
      /\ \A a \in Nat : a >= 1 /\ a <= Len(Lines) => Lines[a] \in Nat
  BY LogAssumption DEF LogTypeOK
<1>b. /\ RingCap \in Nat /\ RingCap >= 1 /\ InboxCap \in Nat /\ SendCap \in Nat /\ SendCap >= 1
      /\ MaxConnects \in Nat /\ MaxLogFaults \in Nat
  BY LogAssumption
<1> USE <1>b
<1>1. CASE Emit
  <2> DEFINE f == [att |-> att, seq |-> seq + 1]
  <2>1. f \in Frame /\ seq + 1 \in 0..Lines[att]
    BY <1>0, <1>1 DEF LogTypeOK, Emit, Frame
  <2>2. Append(ring, f) \in Seq(Frame) /\ Len(Append(ring, f)) = Len(ring) + 1
    BY <2>1, FramesAppend DEF LogTypeOK
  <2>3. Retain(Append(ring, f)) \in Seq(Frame) /\ Len(Retain(Append(ring, f))) <= RingCap
    <3> DEFINE s == Append(ring, f)
    <3>1. s \in Seq(Frame) /\ Len(s) \in Nat /\ Len(s) <= RingCap + 1 /\ s # <<>>
      <4>1. Len(ring) \in Nat /\ Len(ring) <= RingCap
        BY DEF LogTypeOK
      <4>2. Len(s) = Len(ring) + 1 /\ s \in Seq(Frame)
        BY <2>2
      <4> HIDE DEF s
      <4>3. Len(s) \in Nat /\ Len(s) <= RingCap + 1 /\ Len(s) >= 1
        BY <4>1, <4>2
      <4> QED  BY <4>2, <4>3
    <3>2. Tail(s) \in Seq(Frame) /\ Len(Tail(s)) = Len(s) - 1
      BY <3>1, FramesTail
    <3> HIDE DEF s
    <3>3. Retain(s) \in Seq(Frame) /\ Len(Retain(s)) <= RingCap
      BY <3>1, <3>2 DEF Retain
    <3> QED  BY <3>3 DEF s
  <2>4. <<f>> \in Seq(Frame) /\ Len(<<f>>) = 1
    BY <2>1
  <2> QED  BY <1>1, <2>1, <2>3, <2>4 DEF LogTypeOK, Emit
<1>2. CASE RetryStage
  BY <1>0, <1>2 DEF LogTypeOK, RetryStage
<1>3. CASE EvictStream
  BY <1>3 DEF LogTypeOK, EvictStream, LogFault
<1>4. CASE LoseSubscription
  <2>1. Frames(wire) \subseteq Frame
    BY FramesTyped DEF LogTypeOK
  <2>2. <<>> \in Seq(Frame)
    OBVIOUS
  <2>3. lost' \subseteq Frame /\ wire' \in Seq(Frame) /\ logFaults' \in 0..MaxLogFaults
    BY <1>4, <2>1, <2>2 DEF LogTypeOK, LoseSubscription, LogFault
  <2> QED  BY <1>4, <2>3 DEF LogTypeOK, LoseSubscription
<1>5. CASE Connect
  <2>1. connects' \in 0..MaxConnects
    BY <1>5 DEF LogTypeOK, Connect
  <2>2. <<>> \in Seq(Frame) /\ Len(<<>>) <= SendCap
    OBVIOUS
  <2> QED  BY <1>5, <2>1, <2>2 DEF LogTypeOK, Connect
<1>6. CASE Disconnect
  BY <1>6 DEF LogTypeOK, Disconnect, LogFault
<1>7. ASSUME NEW f \in Frame, Offer(f)
      PROVE  /\ inbox' \in Seq(Frame) /\ Len(inbox') <= InboxCap /\ lost' \subseteq Frame
  <2>1. Append(inbox, f) \in Seq(Frame) /\ Len(Append(inbox, f)) = Len(inbox) + 1
    BY <1>7, FramesAppend DEF LogTypeOK
  <2>2. inbox \in Seq(Frame) /\ Len(inbox) \in Nat /\ Len(inbox) <= InboxCap /\ lost \subseteq Frame
    BY DEF LogTypeOK
  <2>3. CASE Len(inbox) < InboxCap
    BY <1>7, <2>1, <2>2, <2>3 DEF Offer
  <2>4. CASE ~(Len(inbox) < InboxCap)
    BY <1>7, <2>2, <2>4 DEF Offer
  <2> QED  BY <2>3, <2>4
<1>8. CASE PublishMemory
  BY <1>7, <1>8, FramesTail DEF LogTypeOK, PublishMemory
<1>9. CASE PublishRedis
  <2>1. Head(unpublished) \in Frame
    BY <1>9, FramesTail DEF LogTypeOK, PublishRedis
  <2>2. Append(wire, Head(unpublished)) \in Seq(Frame)
    BY <2>1, FramesAppend DEF LogTypeOK
  <2>3. wire' \in Seq(Frame) /\ lost' \subseteq Frame
    BY <1>9, <2>1, <2>2 DEF LogTypeOK, PublishRedis
  <2> QED  BY <1>9, <2>3 DEF LogTypeOK, PublishRedis
<1>10. CASE DrainWire
  BY <1>7, <1>10, FramesTail DEF LogTypeOK, DrainWire
<1>11. CASE Resubscribe
  BY <1>11 DEF LogTypeOK, Resubscribe
<1>12. CASE Register
  BY <1>12 DEF LogTypeOK, Register
<1>13. CASE Unregister
  BY <1>13 DEF LogTypeOK, Unregister
<1>14. CASE Deliver
  <2>1. inbox' \in Seq(Frame) /\ Len(inbox') <= InboxCap /\ Head(inbox) \in Frame
    BY <1>14, FramesTail DEF LogTypeOK, Deliver
  <2>2. CASE registered /\ Len(send) < SendCap
    <3>1. send' \in Seq(Frame) /\ Len(send') <= SendCap
      <4>1. /\ Append(send, Head(inbox)) \in Seq(Frame)
            /\ Len(Append(send, Head(inbox))) = Len(send) + 1
        BY <2>1, FramesAppend DEF LogTypeOK
      <4>2. send' = Append(send, Head(inbox)) /\ Len(send) \in Nat
        BY <2>2, <1>14 DEF LogTypeOK, Deliver
      <4> QED  BY <4>1, <4>2, <2>2
    <3> QED  BY <2>1, <2>2, <3>1, <1>14 DEF LogTypeOK, Deliver
  <2>3. CASE ~(registered /\ Len(send) < SendCap)
    BY <2>1, <2>3, <1>14 DEF LogTypeOK, Deliver
  <2> QED  BY <2>2, <2>3
<1>15. CASE FlagVictim
  BY <1>15 DEF LogTypeOK, FlagVictim
<1>16. CASE CloseVictim
  BY <1>16 DEF LogTypeOK, CloseVictim
<1>17. CASE ReadBacklog
  BY <1>17, FramesTyped DEF LogTypeOK, ReadBacklog
<1>18. ASSUME NEW f \in Frame, Show(f)
       PROVE  lastSeq' \in Nat /\ view' \subseteq Frame
  BY <1>18 DEF LogTypeOK, Show, Frame
<1>19. CASE Replay
  BY <1>18, <1>19 DEF LogTypeOK, Replay
<1>20. CASE StartPumps
  BY <1>20 DEF LogTypeOK, StartPumps
<1>21. CASE PumpFrame
  <2>1. Head(send) \in Frame /\ Tail(send) \in Seq(Frame) /\ Len(Tail(send)) = Len(send) - 1
    BY <1>21, FramesTail DEF LogTypeOK, PumpFrame
  <2>2. lastSeq' \in Nat /\ view' \subseteq Frame
    BY <2>1, <1>18, <1>21 DEF PumpFrame
  <2> QED  BY <1>21, <2>1, <2>2 DEF LogTypeOK, PumpFrame
<1>22. CASE PumpClosed
  BY <1>22 DEF LogTypeOK, PumpClosed
<1>23. CASE PumpLeaves
  BY <1>23 DEF LogTypeOK, PumpLeaves
<1>24. CASE UNCHANGED logVars
  BY <1>24 DEF LogTypeOK, logVars
<1> QED
  BY <1>1, <1>2, <1>3, <1>4, <1>5, <1>6, <1>8, <1>9, <1>10, <1>11, <1>12, <1>13, <1>14, <1>15,
     <1>16, <1>17, <1>19, <1>20, <1>21, <1>22, <1>23, <1>24
     DEF LogNext, HubStep, ClientStep, PublishStep

\* ... and the phases of the connection.
LEMMA StreamPhasesKept ==
    ASSUME LogTypeOK, StreamPhases, [LogNext]_logVars
    PROVE  StreamPhases'
<1> USE DEF LogTypeOK, StreamPhases, hubVars, clientVars, viewVars, writerVars
<1>1. CASE Emit
  BY <1>1 DEF Emit
<1>2. CASE RetryStage
  BY <1>2 DEF RetryStage
<1>3. CASE EvictStream
  BY <1>3 DEF EvictStream
<1>4. CASE LoseSubscription
  BY <1>4 DEF LoseSubscription
<1>5. CASE Connect
  BY <1>5 DEF Connect
<1>6. CASE Disconnect
  BY <1>6 DEF Disconnect
<1>8. CASE PublishMemory
  BY <1>8 DEF PublishMemory
<1>9. CASE PublishRedis
  BY <1>9 DEF PublishRedis
<1>10. CASE DrainWire
  BY <1>10 DEF DrainWire
<1>11. CASE Resubscribe
  BY <1>11 DEF Resubscribe
<1>12. CASE Register
  BY <1>12 DEF Register
<1>13. CASE Unregister
  BY <1>13 DEF Unregister
<1>14. CASE Deliver
  BY <1>14 DEF Deliver
<1>15. CASE FlagVictim
  BY <1>15 DEF FlagVictim
<1>16. CASE CloseVictim
  BY <1>16 DEF CloseVictim
<1>17. CASE ReadBacklog
  BY <1>17 DEF ReadBacklog
<1>19. CASE Replay
  BY <1>19 DEF Replay
<1>20. CASE StartPumps
  BY <1>20 DEF StartPumps
<1>21. CASE PumpFrame
  BY <1>21 DEF PumpFrame
<1>22. CASE PumpClosed
  BY <1>22 DEF PumpClosed
<1>23. CASE PumpLeaves
  BY <1>23 DEF PumpLeaves
<1>24. CASE UNCHANGED logVars
  BY <1>24 DEF logVars
<1> QED
  BY <1>1, <1>2, <1>3, <1>4, <1>5, <1>6, <1>8, <1>9, <1>10, <1>11, <1>12, <1>13, <1>14, <1>15,
     <1>16, <1>17, <1>19, <1>20, <1>21, <1>22, <1>23, <1>24
     DEF LogNext, HubStep, ClientStep, PublishStep

\* The counters of the stage are numbers from the start of an attempt on.
LEMMA Counted ==
    ASSUME LogTypeOK
    PROVE  att \in Nat /\ att >= 1 /\ seq \in Nat
<1>1. att \in Nat /\ att >= 1 /\ att <= Len(Lines)
  BY LogAssumption DEF LogTypeOK, MaxWrites
<1>2. Lines[att] \in Nat
  BY <1>1, LogAssumption
<1> QED  BY <1>1, <1>2 DEF LogTypeOK

LEMMA FrameParts == \A g \in Frame : g.seq \in Nat /\ g.att \in Nat
BY LogAssumption DEF Frame, MaxWrites

\* The steps of the stage, the backends, the hub and the connection keep what
\* the stream says of the first attempt.
LEMMA FirstEmit ==
    ASSUME LogTypeOK, FirstAttempt, Emit, att = 1
    PROVE  FirstAttempt'
<1> DEFINE f == [att |-> att, seq |-> seq + 1]
           s == Append(ring, f)
<1>1. f \in Frame /\ f.att = 1 /\ f.seq = seq + 1 /\ seq \in Nat
  BY LogAssumption DEF LogTypeOK, Frame, MaxWrites
<1>2. ring \in Seq(Frame)
  BY DEF LogTypeOK
<1>3. s \in Seq(Frame) /\ Frames(s) = Frames(ring) \cup {f} /\ Len(s) = Len(ring) + 1
  BY <1>1, <1>2, FramesAppend
<1>4. s # <<>>
  <2>1. Len(s) = Len(ring) + 1 /\ Len(ring) \in Nat
    BY <1>2, <1>3
  <2> HIDE DEF s
  <2> QED  BY <2>1
<1>5. Frames(Tail(s)) \subseteq Frames(s)
  BY <1>3, <1>4, FramesTail
<1>6. Frames(ring') \subseteq Frames(ring) \cup {f}
  <2>1. ring' = Retain(s)
    BY DEF Emit
  <2> HIDE DEF s, f
  <2> QED  BY <2>1, <1>3, <1>5 DEF Retain
<1>7. Frames(unpublished') = {f} /\ Frames(unpublished) = {}
  <2>1. unpublished' = <<f>> /\ unpublished = <<>>
    BY DEF Emit
  <2> HIDE DEF f
  <2> QED  BY <2>1, <1>1, FramesSingle, FramesNone
<1>8. /\ seq' = f.seq /\ UNCHANGED <<backend, att, hubVars, clientVars, viewVars>>
  BY <1>1 DEF Emit
<1>9. /\ Frames(ring) \subseteq Frame /\ Frames(inbox) \subseteq Frame /\ Frames(wire) \subseteq Frame
      /\ Frames(send) \subseteq Frame /\ backlog \subseteq Frame /\ lastSeq \in Nat
  BY FramesTyped DEF LogTypeOK
<1> HIDE DEF f, s
<1> USE DEF hubVars, clientVars, viewVars
<1>10. Numbered /\ WayInOrder /\ OnTheWay /\ SentWhole /\ BacklogWhole /\ NoSilentGap
  BY DEF FirstAttempt
<1>11. \A g \in Frame : g.seq \in Nat
  BY DEF Frame
<1>12. Numbered'
  BY <1>1, <1>6, <1>7, <1>8, <1>9, <1>10, <1>11 DEF Numbered, Pending
<1>13. WayInOrder'
  BY <1>1, <1>7, <1>8, <1>9, <1>10, <1>11 DEF Numbered, WayInOrder, Pending, Precede
<1>14. OnTheWay'
  BY <1>6, <1>7, <1>8, <1>10 DEF OnTheWay, Pending
<1>15. SentWhole'
  BY <1>1, <1>6, <1>8, <1>9, <1>10, <1>11 DEF SentWhole, Numbered
<1>16. BacklogWhole'
  BY <1>1, <1>6, <1>8, <1>9, <1>10, <1>11 DEF BacklogWhole, Numbered
<1>17. NoSilentGap'
  BY <1>1, <1>6, <1>8, <1>9, <1>10, <1>11 DEF NoSilentGap, Numbered
<1> QED  BY <1>12, <1>13, <1>14, <1>15, <1>16, <1>17 DEF FirstAttempt

\* A frame that the local channel takes or drops leaves nothing uncounted, when
\* it comes right after the channel's own and before the frames behind it.
LEMMA FirstOffer ==
    ASSUME LogTypeOK, FirstAttempt, att = 1,
           NEW f \in Frame, Offer(f), f \in Frames(wire) \cup Frames(unpublished),
           Frames(wire) \cup Frames(unpublished) \subseteq
               Frames(wire') \cup Frames(unpublished') \cup {f},
           Frames(wire') \cup Frames(unpublished') \subseteq Frames(wire) \cup Frames(unpublished),
           Precede({f}, Frames(wire') \cup Frames(unpublished')),
           Ascending(wire'), Precede(Frames(wire'), Frames(unpublished')),
           UNCHANGED <<att, seq, ring, send, backlog, lastSeq, view, registered, hub, conn>>
    PROVE  FirstAttempt'
<1>1. /\ Frames(ring) \subseteq Frame /\ Frames(inbox) \subseteq Frame /\ Frames(wire) \subseteq Frame
      /\ Frames(unpublished) \subseteq Frame
      /\ Frames(send) \subseteq Frame /\ backlog \subseteq Frame /\ lastSeq \in Nat /\ seq \in Nat
  BY FramesTyped, LogAssumption DEF LogTypeOK, MaxWrites
<1>2. Numbered /\ WayInOrder /\ OnTheWay /\ SentWhole /\ BacklogWhole /\ NoSilentGap
  BY DEF FirstAttempt
<1>3. Precede(Frames(inbox), {f})
  BY <1>2 DEF WayInOrder, Precede
<1>4. /\ Ascending(inbox') /\ lost \subseteq lost'
      /\ \/ Frames(inbox') = Frames(inbox) \cup {f}
         \/ Frames(inbox') = Frames(inbox) /\ f \in lost'
  <2>1. /\ Frames(Append(inbox, f)) = Frames(inbox) \cup {f}
        /\ Ascending(inbox) /\ Precede(Frames(inbox), {f}) => Ascending(Append(inbox, f))
    BY FramesAppend DEF LogTypeOK
  <2>2. Ascending(inbox)
    BY <1>2 DEF WayInOrder
  <2> QED  BY <2>1, <2>2, <1>3 DEF Offer
<1>5. /\ Pending' \subseteq Pending
      /\ Pending \subseteq Pending' \cup lost'
  BY <1>4 DEF Pending
<1>6. \A g \in Frame : g.seq \in Nat
  BY DEF Frame
<1>7. Numbered'
  BY <1>2, <1>5 DEF Numbered
<1>8. WayInOrder'
  <2>1. Precede(Frames(inbox'), Frames(wire') \cup Frames(unpublished'))
    BY <1>2, <1>4 DEF WayInOrder, Precede
  <2>2. Precede(Frames(send'), Pending')
    BY <1>2, <1>5 DEF WayInOrder, Precede
  <2> QED  BY <2>1, <2>2, <1>2, <1>4 DEF WayInOrder
<1>9. OnTheWay'
  BY <1>2, <1>4, <1>5 DEF OnTheWay
<1>10. SentWhole' /\ BacklogWhole' /\ NoSilentGap'
  BY <1>2, <1>4 DEF SentWhole, BacklogWhole, NoSilentGap
<1> QED  BY <1>7, <1>8, <1>9, <1>10 DEF FirstAttempt

LEMMA FirstPublishMemory ==
    ASSUME LogTypeOK, StreamPhases, FirstAttempt, PublishMemory, att = 1
    PROVE  FirstAttempt'
<1> DEFINE f == Head(unpublished)
<1>1. /\ unpublished \in Seq(Frame) /\ unpublished # <<>> /\ Len(unpublished) <= 1
      /\ wire = <<>> /\ wire' = <<>> /\ unpublished' = <<>>
  BY DEF LogTypeOK, StreamPhases, PublishMemory
<1>2. /\ f \in Frame /\ Frames(unpublished) = {f} \cup Frames(Tail(unpublished))
      /\ Tail(unpublished) \in Seq(Frame) /\ Len(Tail(unpublished)) = Len(unpublished) - 1
  BY <1>1, FramesTail
<1>3. Tail(unpublished) = <<>>
  BY <1>1, <1>2
<1>4. Frames(unpublished) = {f} /\ Frames(unpublished') = {} /\ Frames(wire) = {} /\ Frames(wire') = {}
  BY <1>1, <1>2, <1>3, FramesNone
<1>5. Offer(f) /\ UNCHANGED <<att, seq, ring, send, backlog, lastSeq, view, registered, hub, conn>>
  BY DEF PublishMemory, clientVars, viewVars
<1>6. Ascending(wire')
  BY <1>1, FramesNone
<1> HIDE DEF f
<1>7. Precede({f}, {}) /\ Precede({}, {})
  BY DEF Precede
<1> QED  BY <1>2, <1>4, <1>5, <1>6, <1>7, FirstOffer

LEMMA FirstDrainWire ==
    ASSUME LogTypeOK, FirstAttempt, DrainWire, att = 1
    PROVE  FirstAttempt'
<1> DEFINE f == Head(wire)
<1>0. WayInOrder
  BY DEF FirstAttempt
<1>1. wire \in Seq(Frame) /\ wire # <<>> /\ wire' = Tail(wire) /\ unpublished' = unpublished
  BY DEF LogTypeOK, DrainWire, writerVars
<1>2. /\ f \in Frame /\ Frames(wire) = {f} \cup Frames(wire')
      /\ Ascending(wire') /\ Precede({f}, Frames(wire'))
  BY <1>0, <1>1, FramesTail DEF WayInOrder
<1>3. Offer(f) /\ UNCHANGED <<att, seq, ring, send, backlog, lastSeq, view, registered, hub, conn>>
  BY DEF DrainWire, clientVars, viewVars, writerVars
<1> HIDE DEF f
<1>4. Precede({f}, Frames(wire') \cup Frames(unpublished')) /\ Precede(Frames(wire'), Frames(unpublished'))
  BY <1>0, <1>1, <1>2 DEF WayInOrder, Precede
<1> QED  BY <1>1, <1>2, <1>3, <1>4, FirstOffer

LEMMA FirstPublishRedis ==
    ASSUME LogTypeOK, FirstAttempt, PublishRedis, att = 1
    PROVE  FirstAttempt'
<1> DEFINE f == Head(unpublished)
<1>1. /\ unpublished \in Seq(Frame) /\ unpublished # <<>> /\ Len(unpublished) <= 1
      /\ unpublished' = <<>> /\ wire \in Seq(Frame)
  BY DEF LogTypeOK, PublishRedis
<1>2. /\ f \in Frame /\ Frames(unpublished) = {f} \cup Frames(Tail(unpublished))
      /\ Tail(unpublished) \in Seq(Frame) /\ Len(Tail(unpublished)) = Len(unpublished) - 1
  BY <1>1, FramesTail
<1>3. Tail(unpublished) = <<>>
  BY <1>1, <1>2
<1>4. Frames(unpublished) = {f} /\ Frames(unpublished') = {}
  BY <1>1, <1>2, <1>3, FramesNone
<1>5. Numbered /\ WayInOrder /\ OnTheWay /\ SentWhole /\ BacklogWhole /\ NoSilentGap
  BY DEF FirstAttempt
<1>6. /\ Frames(Append(wire, f)) = Frames(wire) \cup {f}
      /\ Ascending(wire) /\ Precede(Frames(wire), {f}) => Ascending(Append(wire, f))
  BY <1>1, <1>2, FramesAppend
<1>7. UNCHANGED <<att, seq, ring, inbox, send, backlog, lastSeq, view, registered, hub, conn>>
  BY DEF PublishRedis, clientVars, viewVars
<1>8. \/ wire' = Append(wire, f) /\ lost' = lost
      \/ lost' = lost \cup {f} /\ wire' = wire
  BY DEF PublishRedis
<1> HIDE DEF f
<1>9. /\ Ascending(wire') /\ lost \subseteq lost'
      /\ \/ Frames(wire') = Frames(wire) \cup {f}
         \/ Frames(wire') = Frames(wire) /\ f \in lost'
  BY <1>4, <1>5, <1>6, <1>8 DEF WayInOrder
<1>10. Frames(inbox') = Frames(inbox) /\ Frames(send') = Frames(send) /\ Frames(ring') = Frames(ring)
  BY <1>7
<1>11. Pending' \subseteq Pending /\ Pending \subseteq Pending' \cup lost'
  BY <1>4, <1>9, <1>10 DEF Pending
<1>12. Numbered'
  BY <1>5, <1>7, <1>10, <1>11 DEF Numbered
<1>13. WayInOrder'
  BY <1>4, <1>5, <1>7, <1>9, <1>10, <1>11 DEF WayInOrder, Precede
<1>14. OnTheWay'
  BY <1>5, <1>7, <1>9, <1>10, <1>11 DEF OnTheWay
<1>15. SentWhole' /\ BacklogWhole' /\ NoSilentGap'
  BY <1>5, <1>7, <1>9, <1>10 DEF SentWhole, BacklogWhole, NoSilentGap
<1> QED  BY <1>12, <1>13, <1>14, <1>15 DEF FirstAttempt

LEMMA FirstLoseSubscription ==
    ASSUME LogTypeOK, FirstAttempt, LoseSubscription, att = 1
    PROVE  FirstAttempt'
<1>1. /\ wire' = <<>> /\ lost' = lost \cup Frames(wire)
      /\ UNCHANGED <<att, seq, unpublished, ring, inbox, send, backlog, lastSeq, view, registered,
                     hub, conn>>
  BY DEF LoseSubscription, writerVars, clientVars, viewVars
<1>2. Frames(wire') = {} /\ Ascending(wire')
  BY <1>1, FramesNone
<1>3. Numbered /\ WayInOrder /\ OnTheWay /\ SentWhole /\ BacklogWhole /\ NoSilentGap
  BY DEF FirstAttempt
<1>4. /\ Frames(inbox') = Frames(inbox) /\ Frames(send') = Frames(send) /\ Frames(ring') = Frames(ring)
      /\ Frames(unpublished') = Frames(unpublished)
  BY <1>1
<1>5. Pending' \subseteq Pending /\ Pending \subseteq Pending' \cup lost' /\ lost \subseteq lost'
  BY <1>1, <1>2, <1>4 DEF Pending
<1>6. Numbered' /\ WayInOrder'
  BY <1>1, <1>2, <1>3, <1>4, <1>5 DEF Numbered, WayInOrder, Precede
<1>7. OnTheWay'
  BY <1>1, <1>3, <1>4, <1>5 DEF OnTheWay
<1>8. SentWhole' /\ BacklogWhole' /\ NoSilentGap'
  BY <1>1, <1>3, <1>4, <1>5 DEF SentWhole, BacklogWhole, NoSilentGap
<1> QED  BY <1>6, <1>7, <1>8 DEF FirstAttempt

LEMMA FirstDeliver ==
    ASSUME LogTypeOK, FirstAttempt, Deliver, att = 1
    PROVE  FirstAttempt'
<1> DEFINE f == Head(inbox)
<1>1. /\ inbox \in Seq(Frame) /\ inbox # <<>> /\ inbox' = Tail(inbox) /\ send \in Seq(Frame)
      /\ UNCHANGED <<att, seq, unpublished, ring, wire, lost, backlog, lastSeq, view, registered, conn>>
  BY DEF LogTypeOK, Deliver, writerVars, viewVars
<1>2. Numbered /\ WayInOrder /\ OnTheWay /\ SentWhole /\ BacklogWhole /\ NoSilentGap
  BY DEF FirstAttempt
<1>3. /\ f \in Frame /\ Frames(inbox) = {f} \cup Frames(inbox')
      /\ Ascending(inbox') /\ Precede({f}, Frames(inbox'))
  BY <1>1, <1>2, FramesTail DEF WayInOrder
<1>4. /\ Frames(Append(send, f)) = Frames(send) \cup {f}
      /\ Ascending(send) /\ Precede(Frames(send), {f}) => Ascending(Append(send, f))
  BY <1>1, <1>3, FramesAppend
<1>5. \/ hub = "running" /\ registered /\ send' = Append(send, f) /\ hub' = hub
      \/ send' = send /\ (hub' = "dropping" \/ ~registered')
  BY <1>1 DEF Deliver
<1> HIDE DEF f
<1>6. /\ Frames(ring') = Frames(ring) /\ Frames(wire') = Frames(wire)
      /\ Frames(unpublished') = Frames(unpublished)
  BY <1>1
<1>7. Pending' \subseteq Pending /\ Pending = Pending' \cup {f}
  BY <1>2, <1>3, <1>6 DEF Pending, WayInOrder, Precede
<1>8. Precede({f}, Pending')
  BY <1>2, <1>3, <1>6 DEF Pending, WayInOrder, Precede
<1>9. Precede(Frames(inbox'), Frames(wire') \cup Frames(unpublished'))
  BY <1>2, <1>3, <1>6 DEF WayInOrder, Precede
<1>10. Precede(Frames(send), {f}) /\ Precede(Frames(send), Pending')
  BY <1>2, <1>7 DEF WayInOrder, Precede
<1>11. CASE hub = "running" /\ registered /\ send' = Append(send, f) /\ hub' = hub
  <2>1. Frames(send') = Frames(send) \cup {f} /\ Ascending(send')
    BY <1>2, <1>4, <1>10, <1>11 DEF WayInOrder
  <2>2. Numbered'
    BY <1>1, <1>2, <1>6, <1>7, <2>1 DEF Numbered
  <2>3. Precede(Frames(send'), Pending')
    BY <1>8, <1>10, <2>1 DEF Precede
  <2>4. WayInOrder'
    BY <1>1, <1>2, <1>3, <1>6, <1>9, <2>1, <2>3 DEF WayInOrder
  <2>5. OnTheWay'
    BY <1>1, <1>2, <1>6, <1>7, <1>11, <2>1 DEF OnTheWay
  <2>6. SentWhole'
    <3>1. SUFFICES ASSUME conn \in {"replay", "live"}, NEW g \in Frames(send'), NEW h \in Frames(ring),
                          lastSeq < h.seq, h.seq < g.seq
                   PROVE  h \in lost \cup backlog \cup Frames(send')
      BY <1>1, <1>6 DEF SentWhole
    <3>2. CASE g \in Frames(send)
      BY <1>2, <2>1, <3>1, <3>2 DEF SentWhole
    <3>3. CASE g = f
      <4>1. h \in lost \cup backlog \cup Frames(send) \cup Pending
        <5>1. h.seq > lastSeq
          <6>1. h \in Frame /\ lastSeq \in Nat
            BY FramesTyped DEF LogTypeOK
          <6> QED  BY <3>1, <6>1 DEF Frame
        <5> QED  BY <1>2, <1>11, <3>1, <5>1 DEF OnTheWay
      <4>2. h \notin Pending'
        <5>1. ASSUME h \in Pending'  PROVE FALSE
          <6>1. f.seq < h.seq
            BY <1>8, <5>1 DEF Precede
          <6>2. h \in Frame
            BY FramesTyped DEF LogTypeOK
          <6> QED  BY <6>1, <6>2, <1>3, <3>1, <3>3 DEF Frame
        <5> QED  BY <5>1
      <4> QED  BY <4>1, <4>2, <1>7, <2>1
    <3> QED  BY <2>1, <3>2, <3>3
  <2>7. BacklogWhole' /\ NoSilentGap'
    BY <1>1, <1>2, <1>6 DEF BacklogWhole, NoSilentGap
  <2> QED  BY <2>2, <2>4, <2>5, <2>6, <2>7 DEF FirstAttempt
<1>12. CASE send' = send /\ (hub' = "dropping" \/ ~registered')
  <2>1. Frames(send') = Frames(send)
    BY <1>12
  <2>2. Numbered'
    BY <1>1, <1>2, <1>6, <1>7, <2>1 DEF Numbered
  <2>3. WayInOrder'
    BY <1>1, <1>2, <1>3, <1>6, <1>9, <1>10, <1>12 DEF WayInOrder
  <2>4. OnTheWay'
    BY <1>12 DEF OnTheWay
  <2>5. SentWhole' /\ BacklogWhole' /\ NoSilentGap'
    BY <1>1, <1>2, <1>6, <2>1 DEF SentWhole, BacklogWhole, NoSilentGap
  <2> QED  BY <2>2, <2>3, <2>4, <2>5 DEF FirstAttempt
<1> QED  BY <1>5, <1>11, <1>12

LEMMA FirstReadBacklog ==
    ASSUME LogTypeOK, FirstAttempt, ReadBacklog, att = 1
    PROVE  FirstAttempt'
<1>1. /\ backlog' = {f \in Frames(ring) : f.seq > lastSeq}
      /\ UNCHANGED <<att, seq, unpublished, ring, wire, inbox, lost, send, lastSeq, view>>
  BY DEF ReadBacklog, writerVars, hubVars, viewVars
<1>2. Numbered /\ WayInOrder /\ NoSilentGap
  BY DEF FirstAttempt
<1>3. /\ Frames(inbox') = Frames(inbox) /\ Frames(send') = Frames(send) /\ Frames(ring') = Frames(ring)
      /\ Pending' = Pending
  BY <1>1 DEF Pending
<1>4. Numbered' /\ WayInOrder' /\ NoSilentGap'
  BY <1>1, <1>2, <1>3 DEF Numbered, WayInOrder, NoSilentGap
<1>5. \A f \in Frames(ring) : lastSeq < f.seq => f \in backlog'
  <2>1. Frames(ring) \subseteq Frame /\ lastSeq \in Nat
    BY FramesTyped DEF LogTypeOK
  <2> QED  BY <1>1, <2>1 DEF Frame
<1>6. OnTheWay'
  BY <1>1, <1>3 DEF OnTheWay
<1>7. SentWhole' /\ BacklogWhole'
  BY <1>1, <1>3, <1>5 DEF SentWhole, BacklogWhole
<1> QED  BY <1>4, <1>6, <1>7 DEF FirstAttempt

\* What the viewer shows next, from the backlog or from the send channel: no
\* stored line between the cursor and it is skipped.
LEMMA FirstShow ==
    ASSUME LogTypeOK, FirstAttempt, att = 1, NEW f \in Frame, Show(f), f.att = 1, f.seq <= seq,
           \A g \in Frames(ring) : lastSeq < g.seq /\ g.seq < f.seq => g \in lost,
           UNCHANGED <<att, seq, ring, lost>>
    PROVE  /\ lastSeq' \in Nat /\ lastSeq' <= seq' /\ lastSeq <= lastSeq' /\ f.seq <= lastSeq'
           /\ NoSilentGap'
<1>1. Frames(ring) \subseteq Frame /\ lastSeq \in Nat /\ seq \in Nat /\ f.seq \in Nat
  BY FramesTyped, FrameParts, Counted DEF LogTypeOK
<1>2. Numbered /\ NoSilentGap
  BY DEF FirstAttempt
<1>3. lastSeq' \in Nat /\ lastSeq' <= seq' /\ lastSeq <= lastSeq' /\ f.seq <= lastSeq'
  BY <1>1, <1>2 DEF Show, Numbered
<1>r. Frames(ring') = Frames(ring) /\ lost' = lost /\ att' = 1
  OBVIOUS
<1>4. CASE f.seq <= lastSeq
  <2>1. lastSeq' = lastSeq /\ view' = view
    BY <1>4 DEF Show
  <2> QED  BY <1>2, <1>3, <1>r, <2>1 DEF NoSilentGap
<1>5. CASE ~(f.seq <= lastSeq)
  <2>1. lastSeq' = f.seq /\ view' = view \cup {f}
    BY <1>5 DEF Show
  <2>2. SUFFICES ASSUME NEW g \in Frames(ring), g.seq <= f.seq
                 PROVE  g \in view \cup {f} \cup lost
    BY <1>3, <1>r, <2>1 DEF NoSilentGap
  <2>3. g \in Frame /\ g.seq \in Nat /\ g.att = 1
    BY <1>1, <1>2 DEF Frame, Numbered
  <2>4. CASE g.seq <= lastSeq
    BY <1>2, <2>4 DEF NoSilentGap
  <2>5. CASE g.seq = f.seq
    BY <2>3, <2>5 DEF Frame
  <2>6. CASE lastSeq < g.seq /\ g.seq < f.seq
    BY <2>6
  <2> QED  BY <1>1, <2>2, <2>3, <2>4, <2>5, <2>6
<1> QED  BY <1>3, <1>4, <1>5

LEMMA FirstReplay ==
    ASSUME LogTypeOK, FirstAttempt, Replay, att = 1
    PROVE  FirstAttempt'
<1>1. PICK f \in backlog : /\ \A g \in backlog \ {f} : Before(f, g)
                           /\ Show(f)
                           /\ backlog' = backlog \ {f}
  BY DEF Replay
<1>2. /\ conn = "replay"
      /\ UNCHANGED <<att, seq, unpublished, ring, wire, inbox, hub, lost, conn, registered, send>>
  BY DEF Replay, writerVars, hubVars
<1>3. Numbered /\ WayInOrder /\ OnTheWay /\ SentWhole /\ BacklogWhole /\ NoSilentGap
  BY DEF FirstAttempt
<1>4. /\ Frames(ring) \subseteq Frame /\ backlog \subseteq Frame /\ f \in Frame /\ lastSeq \in Nat
      /\ f.att = 1 /\ f.seq <= seq /\ seq \in Nat
      /\ \A g \in Frame : g.seq \in Nat /\ g.att \in Nat
  BY <1>3, FramesTyped, FrameParts, Counted DEF LogTypeOK, Numbered
<1>5. \A g \in Frames(ring) : ~(lastSeq < g.seq /\ g.seq < f.seq)
  <2>1. ASSUME NEW g \in Frames(ring), lastSeq < g.seq, g.seq < f.seq  PROVE FALSE
    <3>1. g \in backlog
      BY <1>2, <1>3, <2>1 DEF BacklogWhole
    <3>2. g # f /\ Before(f, g)
      BY <1>1, <1>4, <2>1, <3>1
    <3>3. g.att = 1
      BY <1>3, <3>1 DEF Numbered
    <3> QED  BY <1>4, <2>1, <3>2, <3>3 DEF Before
  <2> QED  BY <2>1
<1>6. /\ lastSeq' \in Nat /\ lastSeq' <= seq' /\ lastSeq <= lastSeq' /\ f.seq <= lastSeq'
      /\ NoSilentGap'
  BY <1>1, <1>2, <1>4, <1>5, FirstShow
<1>7. /\ Frames(inbox') = Frames(inbox) /\ Frames(send') = Frames(send) /\ Frames(ring') = Frames(ring)
      /\ Pending' = Pending
  BY <1>2 DEF Pending
<1>8. Numbered' /\ WayInOrder'
  BY <1>1, <1>2, <1>3, <1>6, <1>7 DEF Numbered, WayInOrder
<1>9. \A g \in Frames(ring) : lastSeq' < g.seq => lastSeq < g.seq /\ g.seq > lastSeq /\ g # f
  BY <1>4, <1>6
<1>10. \A g \in Frames(ring) : g.seq > lastSeq' => lastSeq' < g.seq
  BY <1>4, <1>6
<1>11. OnTheWay'
  BY <1>1, <1>2, <1>3, <1>7, <1>9, <1>10 DEF OnTheWay
<1>12. SentWhole' /\ BacklogWhole'
  BY <1>1, <1>2, <1>3, <1>7, <1>9 DEF SentWhole, BacklogWhole
<1> QED  BY <1>6, <1>8, <1>11, <1>12 DEF FirstAttempt

LEMMA FirstPumpFrame ==
    ASSUME LogTypeOK, StreamPhases, FirstAttempt, PumpFrame, att = 1
    PROVE  FirstAttempt'
<1> DEFINE f == Head(send)
<1>1. /\ conn = "live" /\ send \in Seq(Frame) /\ send # <<>> /\ send' = Tail(send) /\ Show(f)
      /\ UNCHANGED <<att, seq, unpublished, ring, wire, inbox, hub, lost, conn, registered, backlog>>
      /\ backlog = {}
  BY DEF PumpFrame, LogTypeOK, StreamPhases, writerVars, hubVars
<1>2. Numbered /\ WayInOrder /\ OnTheWay /\ SentWhole /\ BacklogWhole /\ NoSilentGap
  BY DEF FirstAttempt
<1>3. /\ f \in Frame /\ Frames(send) = {f} \cup Frames(send')
      /\ Ascending(send') /\ Precede({f}, Frames(send'))
  BY <1>1, <1>2, FramesTail DEF WayInOrder
<1> HIDE DEF f
<1>4. /\ Frames(ring) \subseteq Frame /\ lastSeq \in Nat
      /\ f.att = 1 /\ f.seq <= seq /\ seq \in Nat
      /\ \A g \in Frame : g.seq \in Nat
  BY <1>2, <1>3, FramesTyped, FrameParts, Counted DEF LogTypeOK, Numbered
<1>5. \A g \in Frames(ring) : lastSeq < g.seq /\ g.seq < f.seq => g \in lost
  <2>1. ASSUME NEW g \in Frames(ring), lastSeq < g.seq, g.seq < f.seq  PROVE g \in lost
    <3>1. g \in lost \cup Frames(send)
      BY <1>1, <1>2, <1>3, <2>1 DEF SentWhole
    <3>2. g \notin Frames(send') /\ g # f
      BY <1>3, <1>4, <2>1 DEF Precede
    <3> QED  BY <1>3, <3>1, <3>2
  <2> QED  BY <2>1
<1>6. /\ lastSeq' \in Nat /\ lastSeq' <= seq' /\ lastSeq <= lastSeq' /\ f.seq <= lastSeq'
      /\ NoSilentGap'
  BY <1>1, <1>3, <1>4, <1>5, FirstShow
<1>7. /\ Frames(inbox') = Frames(inbox) /\ Frames(ring') = Frames(ring) /\ Pending' = Pending
  BY <1>1 DEF Pending
<1>8. Numbered'
  BY <1>1, <1>2, <1>3, <1>6, <1>7 DEF Numbered
<1>9. WayInOrder'
  BY <1>1, <1>2, <1>3, <1>7 DEF WayInOrder, Precede
<1>10. \A g \in Frames(ring) : lastSeq' < g.seq => lastSeq < g.seq /\ g.seq > lastSeq /\ g # f
  BY <1>4, <1>6
<1>11. \A g \in Frames(ring) : g.seq > lastSeq' => lastSeq' < g.seq
  BY <1>4, <1>6
<1>12. OnTheWay'
  BY <1>1, <1>2, <1>3, <1>7, <1>10, <1>11 DEF OnTheWay
<1>13. SentWhole' /\ BacklogWhole'
  BY <1>1, <1>2, <1>3, <1>7, <1>10 DEF SentWhole, BacklogWhole
<1> QED  BY <1>6, <1>8, <1>9, <1>12, <1>13 DEF FirstAttempt

LEMMA FirstConnect ==
    ASSUME LogTypeOK, FirstAttempt, Connect, att = 1
    PROVE  FirstAttempt'
<1>1. /\ send' = <<>> /\ backlog' = {} /\ conn' = "register"
      /\ UNCHANGED <<att, seq, unpublished, ring, wire, inbox, lost, lastSeq, view>>
  BY DEF Connect, writerVars, hubVars
<1>2. Frames(send') = {} /\ Ascending(send')
  BY <1>1, FramesNone
<1>3. /\ Frames(inbox') = Frames(inbox) /\ Frames(ring') = Frames(ring) /\ Pending' = Pending
      /\ Frames(wire') = Frames(wire) /\ Frames(unpublished') = Frames(unpublished)
  BY <1>1 DEF Pending
<1>4. Numbered' /\ NoSilentGap'
  BY <1>1, <1>2, <1>3 DEF FirstAttempt, Numbered, NoSilentGap
<1>5. WayInOrder'
  BY <1>1, <1>2, <1>3 DEF FirstAttempt, WayInOrder, Precede
<1>6. OnTheWay' /\ SentWhole' /\ BacklogWhole'
  BY <1>1 DEF OnTheWay, SentWhole, BacklogWhole
<1> QED  BY <1>4, <1>5, <1>6 DEF FirstAttempt

\* The steps that move no frame: they end, or leave alone, what the client is owed.
LEMMA FirstQuiet ==
    ASSUME FirstAttempt, att = 1,
           UNCHANGED <<att, seq, unpublished, ring, wire, inbox, lost, send, backlog, lastSeq, view>>,
           conn' \in {"replay", "live"} => conn \in {"replay", "live"},
           conn' = "replay" => conn = "replay",
           registered' /\ hub' = "running" /\ conn' \in {"replay", "live"} =>
               registered /\ hub = "running"
    PROVE  FirstAttempt'
<1>1. /\ Frames(inbox') = Frames(inbox) /\ Frames(ring') = Frames(ring) /\ Pending' = Pending
      /\ Frames(wire') = Frames(wire) /\ Frames(unpublished') = Frames(unpublished)
      /\ Frames(send') = Frames(send)
  BY DEF Pending
<1>2. Numbered' /\ WayInOrder' /\ NoSilentGap'
  BY <1>1 DEF FirstAttempt, Numbered, WayInOrder, NoSilentGap
<1>3. OnTheWay' /\ SentWhole' /\ BacklogWhole'
  BY <1>1 DEF FirstAttempt, OnTheWay, SentWhole, BacklogWhole
<1> QED  BY <1>2, <1>3 DEF FirstAttempt

LEMMA FirstEvictStream ==
    ASSUME FirstAttempt, EvictStream, att = 1
    PROVE  FirstAttempt'
<1>1. /\ ring' = <<>>
      /\ UNCHANGED <<att, seq, unpublished, wire, inbox, hub, lost, conn, registered, send, backlog,
                     lastSeq, view>>
  BY DEF EvictStream, hubVars, clientVars, viewVars
<1>2. Frames(ring') = {} /\ Pending' = Pending /\ Frames(send') = Frames(send)
  BY <1>1, FramesNone DEF Pending
<1>3. Numbered' /\ WayInOrder'
  BY <1>1, <1>2 DEF FirstAttempt, Numbered, WayInOrder
<1>4. OnTheWay' /\ SentWhole' /\ BacklogWhole' /\ NoSilentGap'
  BY <1>1, <1>2 DEF OnTheWay, SentWhole, BacklogWhole, NoSilentGap
<1> QED  BY <1>3, <1>4 DEF FirstAttempt

LEMMA FirstAttemptKept ==
    ASSUME StreamIInv, [LogNext]_logVars
    PROVE  FirstAttempt'
<1> USE DEF hubVars, clientVars, viewVars, writerVars
<1>0. LogTypeOK /\ StreamPhases /\ FirstAttempt
  BY DEF StreamIInv
<1>1. SUFFICES ASSUME att' = 1  PROVE FirstAttempt'
  BY DEF FirstAttempt
<1>2. att = 1
  <2>1. att \in Nat /\ att >= 1
    BY <1>0, LogAssumption DEF LogTypeOK, MaxWrites
  <2>2. att' = att \/ att' = att + 1
    BY DEF LogNext, HubStep, ClientStep, PublishStep, logVars, Emit, RetryStage, EvictStream,
           LoseSubscription, Connect, Disconnect, Register, Unregister, Deliver, FlagVictim,
           CloseVictim, ReadBacklog, Replay, StartPumps, PumpFrame, PumpClosed, PumpLeaves,
           PublishMemory, PublishRedis, DrainWire, Resubscribe
  <2> QED  BY <1>1, <2>1, <2>2
<1>3. CASE Emit
  BY <1>0, <1>2, <1>3, FirstEmit
<1>4. CASE RetryStage
  BY <1>1, <1>2, <1>4 DEF RetryStage
<1>5. CASE EvictStream
  BY <1>0, <1>2, <1>5, FirstEvictStream
<1>6. CASE LoseSubscription
  BY <1>0, <1>2, <1>6, FirstLoseSubscription
<1>7. CASE Connect
  BY <1>0, <1>2, <1>7, FirstConnect
<1>8. CASE Disconnect
  BY <1>0, <1>2, <1>8, FirstQuiet DEF Disconnect
<1>9. CASE PublishMemory
  BY <1>0, <1>2, <1>9, FirstPublishMemory
<1>10. CASE PublishRedis
  BY <1>0, <1>2, <1>10, FirstPublishRedis
<1>11. CASE DrainWire
  BY <1>0, <1>2, <1>11, FirstDrainWire
<1>12. CASE Resubscribe
  BY <1>0, <1>2, <1>12, FirstQuiet DEF Resubscribe
<1>13. CASE Register
  BY <1>0, <1>2, <1>13, FirstQuiet DEF Register
<1>14. CASE Unregister
  BY <1>0, <1>2, <1>14, FirstQuiet DEF Unregister
<1>15. CASE Deliver
  BY <1>0, <1>2, <1>15, FirstDeliver
<1>16. CASE FlagVictim
  BY <1>0, <1>2, <1>16, FirstQuiet DEF FlagVictim
<1>17. CASE CloseVictim
  BY <1>0, <1>2, <1>17, FirstQuiet DEF CloseVictim, StreamPhases
<1>18. CASE ReadBacklog
  BY <1>0, <1>2, <1>18, FirstReadBacklog
<1>19. CASE Replay
  BY <1>0, <1>2, <1>19, FirstReplay
<1>20. CASE StartPumps
  BY <1>0, <1>2, <1>20, FirstQuiet DEF StartPumps
<1>21. CASE PumpFrame
  BY <1>0, <1>2, <1>21, FirstPumpFrame
<1>22. CASE PumpClosed
  BY <1>0, <1>2, <1>22, FirstQuiet DEF PumpClosed
<1>23. CASE PumpLeaves
  BY <1>0, <1>2, <1>23, FirstQuiet DEF PumpLeaves
<1>24. CASE UNCHANGED logVars
  BY <1>0, <1>2, <1>24, FirstQuiet DEF logVars
<1> QED
  BY <1>3, <1>4, <1>5, <1>6, <1>7, <1>8, <1>9, <1>10, <1>11, <1>12, <1>13, <1>14, <1>15, <1>16, <1>17,
     <1>18, <1>19, <1>20, <1>21, <1>22, <1>23, <1>24
     DEF LogNext, HubStep, ClientStep, PublishStep

LEMMA StreamInit == LogInit => StreamIInv
<1> SUFFICES ASSUME LogInit  PROVE StreamIInv
  OBVIOUS
<1>1. LogTypeOK
  <2>1. /\ Lines[1] \in Nat /\ 1 \in 1..Len(Lines) /\ RingCap \in Nat /\ InboxCap \in Nat
        /\ SendCap \in Nat /\ MaxConnects \in Nat /\ MaxLogFaults \in Nat
    BY LogAssumption
  <2>2. /\ <<>> \in Seq(Frame) /\ Len(<<>>) <= 1 /\ Len(<<>>) <= RingCap
        /\ Len(<<>>) <= InboxCap /\ Len(<<>>) <= SendCap
    BY <2>1
  <2>3. 0 \in Nat /\ 0 \in 0..Lines[1] /\ 0 \in 0..MaxConnects /\ 0 \in 0..MaxLogFaults
    BY <2>1
  <2>4. {} \subseteq Frame
    OBVIOUS
  <2> QED  BY <2>1, <2>2, <2>3, <2>4, Zenon DEF LogInit, LogTypeOK, MaxWrites
<1>2. StreamPhases
  BY DEF LogInit, StreamPhases
<1>3. FirstAttempt
  BY FramesNone DEF LogInit, FirstAttempt, Numbered, WayInOrder, Precede, Pending, OnTheWay, SentWhole,
                    BacklogWhole, NoSilentGap
<1> QED  BY <1>1, <1>2, <1>3 DEF StreamIInv

\* The live log of a stage (logbroadcast.go, logstore/memory.go, wshub_backend.go,
\* websocket.go, wshub_logs.go): with lines of any number, rings and channels of
\* any size, any number of connections and faults, the viewer's cursor passes no
\* line that the store still has and no backend dropped, the hub never sends on a
\* closed channel, and a viewer it cut off is told why.
THEOREM StreamInvariant == LogSpec => []StreamInv
<1>1. ASSUME StreamIInv, [LogNext]_logVars  PROVE StreamIInv'
  <2>1. LogTypeOK /\ StreamPhases
    BY <1>1 DEF StreamIInv
  <2> QED  BY <1>1, <2>1, StreamTypesKept, StreamPhasesKept, FirstAttemptKept DEF StreamIInv
<1>2. StreamIInv => StreamInv
  BY DEF StreamIInv, StreamPhases, FirstAttempt, StreamInv, NoSilentGap, SendOpen, CutIsTold
<1> QED  BY <1>1, <1>2, StreamInit, PTL DEF LogSpec

=============================================================================
