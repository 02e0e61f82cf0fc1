------------------------------ MODULE RateLimit ------------------------------
(***************************************************************************)
(* The rate limiter (server/ratelimit.go, server/ratelimit_redis.go):      *)
(* requests find or create the token bucket of their key under two locks   *)
(* that are never nested, and a sweeper forgets the keys that were idle.   *)
(***************************************************************************)
EXTENDS Integers, FiniteSets

CONSTANTS
    Hit,       \* requests
    Route,     \* Route[h]: "api", "localauth" or "webhook"
    Subject,   \* Subject[h]: the user of the claims, or "" without claims
    Burst,     \* capacity of a bucket
    MaxGen     \* bound on the buckets made for a key

ASSUME RateAssumption ==
    /\ Route \in [Hit -> {"api", "localauth", "webhook"}] /\ Subject \in [Hit -> STRING]
    /\ Burst \in Nat \ {0} /\ MaxGen \in Nat \ {0}

VARIABLES
    rateBackend, \* "memory" or "redis"
    bucket,   \* bucket[k]: the bucket in the map, 0 for none
    made,     \* buckets made for the key so far
    tokens,   \* tokens[k][g]: what bucket g of the key has left
    seen,     \* seen[k]: lastSeen: "none", "fresh", or "idle" for the interval
    doomed,   \* keys the sweeper has collected and will delete
    hit,      \* program point of each request
    holds,    \* the bucket each request got
    admitted  \* requests admitted per key since tokens were last added

rateVars == <<rateBackend, bucket, made, tokens, seen, doomed, hit, holds, admitted>>

\* rateLimitKey: the user, or the address of a request without claims.
rateLimitKey(h) == IF Subject[h] # "" THEN <<"user", Subject[h]>> ELSE <<"ip", "">>

\* localAuthMiddleware and webhookMiddleware count by address alone.
localAuthKey == <<"localauth-ip", "">>
webhookKey == <<"webhook-ip", "">>

LimitKey(h) ==
    CASE Route[h] = "api"       -> rateLimitKey(h)
      [] Route[h] = "localauth" -> localAuthKey
      [] Route[h] = "webhook"   -> webhookKey

LimitKeys == {LimitKey(h) : h \in Hit}

RateTypeOK ==
    /\ rateBackend \in {"memory", "redis"}
    /\ bucket \in [LimitKeys -> 0..MaxGen] /\ made \in [LimitKeys -> 0..MaxGen]
    /\ tokens \in [LimitKeys -> [1..MaxGen -> 0..Burst]]
    /\ seen \in [LimitKeys -> {"none", "fresh", "idle"}]
    /\ doomed \subseteq LimitKeys
    /\ hit \in [Hit -> {"new", "touch", "slow", "allow", "passed", "throttled"}]
    /\ holds \in [Hit -> 0..MaxGen]
    /\ admitted \in [LimitKeys -> Nat]

RateInit ==
    /\ rateBackend \in {"memory", "redis"}
    /\ bucket = [k \in LimitKeys |-> 0] /\ made = [k \in LimitKeys |-> 0]
    /\ tokens = [k \in LimitKeys |-> [g \in 1..MaxGen |-> Burst]]
    /\ seen = [k \in LimitKeys |-> "none"]
    /\ doomed = {}
    /\ hit = [h \in Hit |-> "new"] /\ holds = [h \in Hit |-> 0]
    /\ admitted = [k \in LimitKeys |-> 0]

\* limiterFor under the read lock
Look(h) ==
    LET k == LimitKey(h) IN
    /\ rateBackend = "memory" /\ hit[h] = "new"
    /\ hit' = [hit EXCEPT ![h] = IF bucket[k] # 0 THEN "touch" ELSE "slow"]
    /\ holds' = [holds EXCEPT ![h] = bucket[k]]
    /\ UNCHANGED <<rateBackend, bucket, made, tokens, seen, doomed, admitted>>

\* the fast path's lastSeen, under its own mutex
Touch(h) ==
    /\ hit[h] = "touch"
    /\ hit' = [hit EXCEPT ![h] = "allow"]
    /\ seen' = [seen EXCEPT ![LimitKey(h)] = "fresh"]
    /\ UNCHANGED <<rateBackend, bucket, made, tokens, doomed, holds, admitted>>

\* Mutant: a new bucket is not entered in lastSeen.
MakeBucketUnseen(h) ==
    LET k == LimitKey(h) IN
    /\ hit[h] = "slow"
    /\ IF bucket[k] # 0
         THEN UNCHANGED <<bucket, made>>
         ELSE /\ made[k] < MaxGen
              /\ made' = [made EXCEPT ![k] = @ + 1]
              /\ bucket' = [bucket EXCEPT ![k] = made'[k]]
    /\ hit' = [hit EXCEPT ![h] = "allow"]
    /\ holds' = [holds EXCEPT ![h] = bucket'[k]]
    /\ UNCHANGED <<rateBackend, tokens, seen, doomed, admitted>>

\* the slow path under the write lock: another request may have been faster
MakeBucket(h) ==
    LET k == LimitKey(h) IN
    /\ hit[h] = "slow"
    /\ IF bucket[k] # 0
         THEN UNCHANGED <<bucket, made, seen>>
         ELSE /\ made[k] < MaxGen
              /\ made' = [made EXCEPT ![k] = @ + 1]
              /\ bucket' = [bucket EXCEPT ![k] = made'[k]]
              /\ seen' = [seen EXCEPT ![k] = "fresh"]
    /\ hit' = [hit EXCEPT ![h] = "allow"]
    /\ holds' = [holds EXCEPT ![h] = bucket'[k]]
    /\ UNCHANGED <<rateBackend, tokens, doomed, admitted>>

\* middleware, localAuthMiddleware, webhookMiddleware: one token or a 429
AllowHit(h) ==
    LET k == LimitKey(h)
        g == holds[h]
        pass == tokens[k][g] > 0 IN
    /\ hit[h] = "allow"
    /\ hit' = [hit EXCEPT ![h] = IF pass THEN "passed" ELSE "throttled"]
    /\ tokens' = IF pass THEN [tokens EXCEPT ![k][g] = @ - 1] ELSE tokens
    /\ admitted' = IF pass THEN [admitted EXCEPT ![k] = @ + 1] ELSE admitted
    /\ UNCHANGED <<rateBackend, bucket, made, seen, doomed, holds>>

\* The Redis limiter decides in one call, and lets the request pass when Redis
\* does not answer.
AllowByRedis(h) ==
    LET k == LimitKey(h)
        pass == tokens[k][1] > 0 IN
    /\ rateBackend = "redis" /\ hit[h] = "new"
    /\ \/ /\ hit' = [hit EXCEPT ![h] = IF pass THEN "passed" ELSE "throttled"]
          /\ tokens' = IF pass THEN [tokens EXCEPT ![k][1] = @ - 1] ELSE tokens
          /\ admitted' = IF pass THEN [admitted EXCEPT ![k] = @ + 1] ELSE admitted
       \/ hit' = [hit EXCEPT ![h] = "passed"] /\ UNCHANGED <<tokens, admitted>>
    /\ UNCHANGED <<rateBackend, bucket, made, seen, doomed, holds>>

\* Time passes without requests of the key: its buckets are full again, and
\* what had started, the sweeper's own pass too, is over long before the
\* sweeper's interval is.
Idle(k) ==
    /\ seen[k] = "fresh" /\ k \notin doomed
    /\ \A h \in Hit : LimitKey(h) = k => hit[h] \notin {"touch", "slow", "allow"}
    /\ seen' = [seen EXCEPT ![k] = "idle"]
    /\ tokens' = [tokens EXCEPT ![k] = [g \in 1..MaxGen |-> Burst]]
    /\ admitted' = [admitted EXCEPT ![k] = 0]
    /\ UNCHANGED <<rateBackend, bucket, made, doomed, hit, holds>>

\* gc: idle keys are collected and struck from lastSeen under one lock ...
CollectIdle ==
    /\ doomed = {} /\ \E k \in LimitKeys : seen[k] = "idle"
    /\ doomed' = {k \in LimitKeys : seen[k] = "idle"}
    /\ seen' = [k \in LimitKeys |-> IF seen[k] = "idle" THEN "none" ELSE seen[k]]
    /\ UNCHANGED <<rateBackend, bucket, made, tokens, hit, holds, admitted>>

\* ... and their buckets deleted under the other.
DeleteIdle ==
    /\ doomed # {}
    /\ bucket' = [k \in LimitKeys |-> IF k \in doomed THEN 0 ELSE bucket[k]]
    /\ doomed' = {}
    /\ UNCHANGED <<rateBackend, made, tokens, seen, hit, holds, admitted>>

RateNext ==
    \/ \E h \in Hit : Look(h) \/ Touch(h) \/ MakeBucket(h) \/ AllowHit(h) \/ AllowByRedis(h)
    \/ \E k \in LimitKeys : Idle(k)
    \/ CollectIdle \/ DeleteIdle

RateSpec == RateInit /\ [][RateNext]_rateVars

-----------------------------------------------------------------------------
\* Every bucket in the map is known to the sweeper, now or through the next
\* deletion: the race between the two locks leaks no bucket.
BucketsTracked == \A k \in LimitKeys : bucket[k] # 0 => seen[k] # "none" \/ k \in doomed

\* A key gets at most one extra burst out of the sweeper deleting a bucket that
\* a request has just found, and nothing out of requests that race to make it.
BudgetBounded == \A k \in LimitKeys : admitted[k] <= 2 * Burst

\* The sweeper beside the requests loses track of no bucket and hands out at most
\* one extra burst.
RateInv == RateTypeOK /\ BucketsTracked /\ BudgetBounded

=============================================================================
