-------------------------- MODULE CloudInventory --------------------------
(***************************************************************************)
(* The cached view of cloud resources and cost                             *)
(* (cloud/cloudinventory/cloudinventory.go).  A read is served from the    *)
(* cache, joins the fetch that is running or becomes its leader; a refresh *)
(* empties the cache, starts a new generation and fetches on its own.  A   *)
(* fetch asks every provider; what it learns is cached only if no refresh  *)
(* started meanwhile, and only briefly if every provider failed.           *)
(*                                                                         *)
(* Each request makes one call, so a shared fetch is named by the request  *)
(* that leads it.  The resources are a counter of the changes made to      *)
(* them: a provider's answer is the count it saw.  At least one provider   *)
(* is configured; without one the service answers without any state.       *)
(***************************************************************************)
EXTENDS Naturals, FiniteSets

CONSTANTS
    Reader,      \* GET /cloud/inventory and /cloud/costs requests
    Refresher,   \* POST /cloud/refresh requests
    Provider,    \* the configured clouds
    TTL,         \* lifetime of a snapshot in the cache
    negativeTTL, \* lifetime of a snapshot in which every provider failed
    MaxChanges,  \* bound: changes of the resources
    MaxTime,     \* bound: clock
    MaxGone,     \* bound: clients that disconnect
    NoSnapshot,  \* an empty cache
    NoCall       \* no fetch in flight

ASSUME InventoryAssumption ==
    /\ IsFiniteSet(Refresher) /\ Reader \cap Refresher = {} /\ NoCall \notin Reader
    /\ TTL \in Nat /\ negativeTTL \in Nat
    /\ MaxChanges \in Nat /\ MaxTime \in Nat

Request == Reader \cup Refresher

VARIABLES
    changes,  \* changes made to the resources so far
    time,     \* the clock
    up,       \* the providers that answer
    cache,    \* Service.cache
    expiry,   \* Service.expiry
    generation,      \* Service.gen
    inflight, \* Service.inflight: the leader of the shared fetch
    req,      \* where each request is
    since,    \* the generation the request's fetch captured
    answers,  \* the answers its fetch has so far
    joined,   \* the leader a waiting reader waits for
    closed,   \* the calls whose done channel is closed
    gone,     \* the requests whose client has disconnected
    reply,    \* what a reader was answered: where it came from, what, when
    asked     \* changes made when the last refresh started

inventoryVars == <<changes, time, up, cache, expiry, generation, inflight, req, since, answers, joined, closed, gone, reply, asked>>
serviceVars == <<cache, expiry, generation, inflight, asked>>
cloudSide == <<changes, time, up>>

NoAnswer == [kind |-> "none", saw |-> 0]
Answer == {NoAnswer, [kind |-> "outage", saw |-> 0], [kind |-> "cancelled", saw |-> 0]}
          \cup [kind : {"ok"}, saw : 0 .. MaxChanges]
Snapshot == [results : [Provider -> Answer], fetchedAt : 0 .. MaxTime]
NoReply == [from |-> "none", what |-> NoSnapshot, when |-> 0]

InventoryTypeOK ==
    /\ changes \in 0 .. MaxChanges /\ time \in 0 .. MaxTime
    /\ up \subseteq Provider
    /\ cache \in Snapshot \cup {NoSnapshot}
    /\ expiry \in 0 .. MaxTime + TTL
    /\ generation \in 0 .. Cardinality(Refresher)
    /\ inflight \in Reader \cup {NoCall}
    /\ req \in [Request -> {"new", "fetching", "waiting", "end"}]
    /\ since \in [Request -> 0 .. Cardinality(Refresher)]
    /\ answers \in [Request -> [Provider -> Answer]]
    /\ joined \in [Reader -> Reader \cup {NoCall}]
    /\ closed \subseteq Reader /\ gone \subseteq Request
    /\ reply \in [Reader -> [from : {"none", "cache", "fetch", "join", "fallback", "panic"},
                              what : Snapshot \cup {NoSnapshot}, when : 0 .. MaxTime]]
    /\ asked \in 0 .. MaxChanges

InventoryInit ==
    /\ changes = 0 /\ time = 0 /\ up \in SUBSET Provider
    /\ cache = NoSnapshot /\ expiry = 0 /\ generation = 0 /\ inflight = NoCall
    /\ req = [r \in Request |-> "new"] /\ since = [r \in Request |-> 0]
    /\ answers = [r \in Request |-> [p \in Provider |-> NoAnswer]]
    /\ joined = [r \in Reader |-> NoCall]
    /\ closed = {} /\ gone = {}
    /\ reply = [r \in Reader |-> NoReply]
    /\ asked = 0

Respond(r, from, what) ==
    /\ req' = [req EXCEPT ![r] = "end"]
    /\ reply' = [q \in Reader |-> IF q = r THEN [from |-> from, what |-> what, when |-> time] ELSE reply[q]]

Fresh == cache # NoSnapshot /\ time < expiry

-----------------------------------------------------------------------------
\* Inventory serves the cached snapshot while it lasts.
ReadHit(r) ==
    /\ req[r] = "new" /\ Fresh
    /\ Respond(r, "cache", cache)
    /\ UNCHANGED <<cloudSide, serviceVars, since, answers, joined, closed, gone>>

\* A miss joins the fetch that is running ...
ReadJoin(r) ==
    /\ req[r] = "new" /\ ~Fresh /\ inflight # NoCall
    /\ req' = [req EXCEPT ![r] = "waiting"]
    /\ joined' = [joined EXCEPT ![r] = inflight]
    /\ UNCHANGED <<cloudSide, serviceVars, since, answers, closed, gone, reply>>

\* ... or leads a new one, on a context that its client cannot cancel.
ReadLead(r) ==
    /\ req[r] = "new" /\ ~Fresh /\ inflight = NoCall
    /\ inflight' = r
    /\ req' = [req EXCEPT ![r] = "fetching"]
    /\ since' = [since EXCEPT ![r] = generation]
    /\ UNCHANGED <<cloudSide, cache, expiry, generation, asked, answers, joined, closed, gone, reply>>

\* A joiner returns what the leader learned once the call is done ...
JoinDone(r) ==
    /\ req[r] = "waiting" /\ joined[r] \in closed
    /\ Respond(r, "join", reply[joined[r]].what)
    /\ UNCHANGED <<cloudSide, serviceVars, since, answers, joined, closed, gone>>

\* ... or, if its own client is gone, whatever is cached, expired or not.
snapshot(r) ==
    /\ req[r] = "waiting" /\ r \in gone
    /\ Respond(r, "fallback", cache)
    /\ UNCHANGED <<cloudSide, serviceVars, since, answers, joined, closed, gone>>

\* Refresh empties the cache and fetches on its own request's context.
Refresh(r) ==
    /\ req[r] = "new"
    /\ cache' = NoSnapshot /\ expiry' = 0
    /\ generation' = generation + 1
    /\ asked' = changes
    /\ req' = [req EXCEPT ![r] = "fetching"]
    /\ since' = [since EXCEPT ![r] = generation + 1]
    /\ UNCHANGED <<cloudSide, inflight, answers, joined, closed, gone, reply>>

\* Whether the context of a request's fetch is cancelled: a leader's is detached.
Cancelled(r) == r \in Refresher /\ r \in gone

\* The fetches of the providers run concurrently; an error of either call of a
\* provider (or the fetch timeout) drops that provider's data and no other's.
fetchOne(r, p) ==
    /\ req[r] = "fetching" /\ answers[r][p] = NoAnswer
    /\ answers' = [answers EXCEPT ![r][p] =
          CASE Cancelled(r) -> [kind |-> "cancelled", saw |-> 0]
            [] p \notin up /\ ~Cancelled(r) -> [kind |-> "outage", saw |-> 0]
            [] OTHER -> [kind |-> "ok", saw |-> changes]]
    /\ UNCHANGED <<cloudSide, serviceVars, req, since, joined, closed, gone, reply>>

allProvidersFailed(s) == \A p \in Provider : s.results[p].kind # "ok"

\* How long a snapshot may be served.
lifetime(s) == IF allProvidersFailed(s) /\ negativeTTL < TTL THEN negativeTTL ELSE TTL

\* Mutant: the generation is not compared.
CurrentUnchecked(r) == TRUE

\* A fetch stores its result unless a refresh started after it.
Current(r) == since[r] = generation

\* The leader's deferred function: the slot is free and the joiners wake.
Close(r) ==
    IF r \in Reader THEN inflight' = NoCall /\ closed' = closed \cup {r}
                    ELSE UNCHANGED <<inflight, closed>>

loadAndStore(r) ==
    /\ req[r] = "fetching" /\ \A p \in Provider : answers[r][p] # NoAnswer
    /\ LET inv == [results |-> answers[r], fetchedAt |-> time] IN
       /\ IF Current(r) THEN cache' = inv /\ expiry' = time + lifetime(inv)
                        ELSE UNCHANGED <<cache, expiry>>
       /\ Respond(r, "fetch", inv)
    /\ Close(r)
    /\ answers' = [answers EXCEPT ![r] = [p \in Provider |-> NoAnswer]]
    /\ UNCHANGED <<cloudSide, generation, asked, since, joined, gone>>

\* Mutant: the slot is cleared on the normal return only.
PanicKeepsSlot(r) ==
    /\ req[r] = "fetching"
    /\ Respond(r, "panic", NoSnapshot)
    /\ UNCHANGED <<cloudSide, serviceVars, since, answers, joined, closed, gone>>

\* A panic in the leader's goroutine: its joiners get the zero inventory.  (A
\* refresh that panics leaves no state behind that it had not before.)
Panic(r) ==
    /\ req[r] = "fetching"
    /\ Respond(r, "panic", NoSnapshot)
    /\ Close(r)
    /\ answers' = [answers EXCEPT ![r] = [p \in Provider |-> NoAnswer]]
    /\ UNCHANGED <<cloudSide, cache, expiry, generation, asked, since, joined, gone>>

\* The client of a request disconnects.
Disconnect(r) ==
    /\ req[r] \in {"fetching", "waiting"} /\ r \notin gone
    /\ Cardinality(gone) < MaxGone
    /\ gone' = gone \cup {r}
    /\ UNCHANGED <<cloudSide, serviceVars, req, since, answers, joined, closed, reply>>

ResourcesChange ==
    /\ changes < MaxChanges /\ changes' = changes + 1
    /\ UNCHANGED <<time, up, serviceVars, req, since, answers, joined, closed, gone, reply>>

TimePasses ==
    /\ time < MaxTime /\ time' = time + 1
    /\ UNCHANGED <<changes, up, serviceVars, req, since, answers, joined, closed, gone, reply>>

\* What a request does by itself once it was accepted.
Serve(r) ==
    \/ r \in Reader /\ (JoinDone(r) \/ snapshot(r))
    \/ (\E p \in Provider : fetchOne(r, p)) \/ loadAndStore(r)

InventoryNext ==
    \/ \E r \in Reader : ReadHit(r) \/ ReadJoin(r) \/ ReadLead(r) \/ Panic(r)
    \/ \E r \in Refresher : Refresh(r)
    \/ \E r \in Request : Serve(r) \/ Disconnect(r)
    \/ ResourcesChange \/ TimePasses

InventorySpec == InventoryInit /\ [][InventoryNext]_inventoryVars

-----------------------------------------------------------------------------
(***************************************************************************)
(* No answer in the cache is older than the last refresh: a fetch that was *)
(* running when Refresh emptied the cache does not put its result back     *)
(* (loadAndStore compares the generation it captured).                     *)
(***************************************************************************)
CachedSinceRefresh ==
    cache # NoSnapshot =>
        \A p \in Provider : cache.results[p].kind = "ok" => cache.results[p].saw >= asked

(***************************************************************************)
(* Reads never run two billed fan-outs at once, and the slot names the     *)
(* fetch that runs: whoever misses the cache joins it.                     *)
(***************************************************************************)
OneSharedFetch == {r \in Reader : req[r] = "fetching"} = {inflight} \ {NoCall}

(***************************************************************************)
(* A client that disconnects spoils its own answer and nobody's else: no   *)
(* shared fetch is cancelled, whoever led it (Inventory detaches the       *)
(* leader's context).                                                      *)
(***************************************************************************)
SharedNotCancelled ==
    \A r \in Reader : (reply[r].from \in {"fetch", "join"} /\ reply[r].what # NoSnapshot) =>
        \A p \in Provider : reply[r].what.results[p].kind # "cancelled"

(***************************************************************************)
(* A read answered from the cache with every provider failed, because of   *)
(* an outage or of a refresh whose client left, got it within the short    *)
(* lifetime, and never later than a good snapshot would have lasted.       *)
(***************************************************************************)
FailureServedBriefly ==
    \A r \in Reader : (reply[r].from = "cache" /\ allProvidersFailed(reply[r].what)) =>
        reply[r].when < reply[r].what.fetchedAt + (IF negativeTTL < TTL THEN negativeTTL ELSE TTL)

(***************************************************************************)
(* Every request that was accepted is answered, also when the leader it    *)
(* joined panics.                                                          *)
(***************************************************************************)
InventoryAnswers == \A r \in Request : (req[r] \in {"fetching", "waiting"}) ~> (req[r] = "end")

\* The cache never goes back behind a refresh, readers share one fetch that no
\* client cancels, and a total failure is served briefly.
InventoryInv ==
    InventoryTypeOK /\ CachedSinceRefresh /\ OneSharedFetch /\ SharedNotCancelled /\ FailureServedBriefly

=============================================================================
