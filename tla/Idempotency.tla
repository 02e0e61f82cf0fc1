----------------------------- MODULE Idempotency -----------------------------
(***************************************************************************)
(* The idempotency cache (server/middleware_idempotency.go and             *)
(* idempotency/idempotency.go): concurrent requests with keys look up the  *)
(* cache, run their handler on a miss and store a successful answer; the   *)
(* cache is bounded in bytes, entries expire and a sweeper removes them.   *)
(***************************************************************************)
EXTENDS Integers, FiniteSets

CONSTANTS
    Request,
    Key,
    KeyOf,     \* KeyOf[r]: the Idempotency-Key or X-GitHub-Delivery header of r
    SizeOf,    \* SizeOf[r]: bytes of its key and of its answer's body
    MaxBytes,  \* the cap, idempotencyMaxBytes
    NoAnswer   \* the answer of a request that has none yet

ASSUME IdemAssumption ==
    /\ IsFiniteSet(Request)
    /\ KeyOf \in [Request -> Key] /\ SizeOf \in [Request -> Nat \ {0}]
    /\ MaxBytes \in Nat \ {0} /\ NoAnswer \notin Request

VARIABLES
    cache,    \* the entries: of is the request answered, at the order of expiry
    memBytes, \* Memory.bytes
    req,      \* program point of each request
    answer,   \* the request whose execution answered each request
    twice     \* bytes counted off twice: of entries evicted while being overwritten

idemVars == <<cache, memBytes, req, answer, twice>>

CacheEntry == [key : Key, of : Request, at : Nat, stale : BOOLEAN]

\* len(key) + len(Body) of the entries in c, counted byte by byte.
Bytes(c) == UNION {{e} \X (1..SizeOf[e.of]) : e \in c}
Resident(c) == Cardinality(Bytes(c))

IdemTypeOK ==
    /\ cache \subseteq CacheEntry
    /\ \A d, e \in cache : d.key = e.key => d = e
    /\ memBytes \in Int
    /\ req \in [Request -> {"idle", "running", "succeeded", "failed", "stored", "refused", "replayed"}]
    /\ answer \in [Request -> Request \cup {NoAnswer}]
    /\ twice \in Nat

IdemInit ==
    /\ cache = {} /\ memBytes = 0
    /\ req = [r \in Request |-> "idle"]
    /\ answer = [r \in Request |-> NoAnswer]
    /\ twice = 0

Hits(r) == {e \in cache : e.key = KeyOf[r] /\ ~e.stale}

\* The middleware's lookup: a fresh entry is replayed and the handler skipped.
Lookup(r) ==
    /\ req[r] = "idle"
    /\ IF Hits(r) # {}
         THEN /\ req' = [req EXCEPT ![r] = "replayed"]
              /\ answer' = [answer EXCEPT ![r] = (CHOOSE e \in Hits(r) : TRUE).of]
         ELSE req' = [req EXCEPT ![r] = "running"] /\ UNCHANGED answer
    /\ UNCHANGED <<cache, memBytes, twice>>

\* The handler answers with a 2xx status and a body, or not.
Handle(r, outcome) ==
    /\ req[r] = "running"
    /\ req' = [req EXCEPT ![r] = outcome]
    /\ answer' = [answer EXCEPT ![r] = r]
    /\ UNCHANGED <<cache, memBytes, twice>>

\* evictUntilLocked: an entry goes if the bytes are above the target when all that
\* expire before it are gone.
Evicted(bytes, target) ==
    {e \in cache : bytes - Resident({o \in cache : o.at < e.at}) > target}

Entry(r) ==
    [key |-> KeyOf[r], of |-> r, at |-> Cardinality({q \in Request : req[q] = "stored"}), stale |-> FALSE]

\* Mutant: the size of what is evicted is not subtracted.
StoredUncounted(r) ==
    LET old == {e \in cache : e.key = KeyOf[r]}
        gone == IF memBytes + SizeOf[r] > MaxBytes THEN Evicted(memBytes, MaxBytes - SizeOf[r]) ELSE {}
    IN  [cache |-> ((cache \ gone) \ old) \cup {Entry(r)}, bytes |-> memBytes + SizeOf[r], twice |-> 0]

\* Set: an entry of the same key is discounted, and stays until it is
\* overwritten, unless the eviction takes it first.
Stored(r) ==
    LET old == {e \in cache : e.key = KeyOf[r]}
        discounted == memBytes - Resident(old)
        gone == IF discounted + SizeOf[r] > MaxBytes
                  THEN Evicted(discounted, MaxBytes - SizeOf[r]) ELSE {}
    IN  [cache |-> ((cache \ gone) \ old) \cup {Entry(r)},
         bytes |-> discounted - Resident(gone) + SizeOf[r],
         twice |-> Resident(old \cap gone)]

Store(r) ==
    /\ req[r] = "succeeded"
    /\ cache' = Stored(r).cache
    /\ memBytes' = Stored(r).bytes
    /\ twice' = twice + Stored(r).twice
    /\ req' = [req EXCEPT ![r] = "stored"]
    /\ UNCHANGED answer

\* A failure is not stored: a retry runs the handler again.
Done(r) ==
    /\ req[r] = "failed"
    /\ req' = [req EXCEPT ![r] = "refused"]
    /\ UNCHANGED <<cache, memBytes, answer, twice>>

\* The TTL of the oldest fresh entry passes.
Expire ==
    \E e \in cache :
        /\ ~e.stale /\ \A o \in cache : o.at < e.at => o.stale
        /\ cache' = (cache \ {e}) \cup {[e EXCEPT !.stale = TRUE]}
        /\ UNCHANGED <<memBytes, req, answer, twice>>

\* gc: a tick of the sweeper.
Sweep ==
    LET expired == {e \in cache : e.stale}
    IN  /\ expired # {}
        /\ cache' = cache \ expired
        /\ memBytes' = memBytes - Resident(expired)
        /\ UNCHANGED <<req, answer, twice>>

IdemNext ==
    \/ Expire \/ Sweep
    \/ \E r \in Request :
          Lookup(r) \/ Store(r) \/ Done(r) \/ \E o \in {"succeeded", "failed"} : Handle(r, o)

IdemSpec == IdemInit /\ [][IdemNext]_idemVars

-----------------------------------------------------------------------------
\* The counter that the cap is enforced with is the size of what is cached, less
\* the entries that an eviction took while Set was overwriting them and that were
\* counted off twice: through overwritten keys, evictions, expiries and sweeps it
\* is off by nothing else, and never too high.
BytesAccounted == memBytes = Resident(cache) - twice

\* Set brings the counter back under the cap, whatever it evicts, as long as no
\* single answer is larger than the cap.
CapEnforced == (\A r \in Request : SizeOf[r] <= MaxBytes) => memBytes <= MaxBytes

\* "MaxBytes caps the resident set" (idempotency.Memory): what is cached is never
\* more than the cap.
ResidentCapped == Resident(cache) <= MaxBytes

\* A replayed answer is the answer of a successful execution of the same key
\* that had ended, never of one that failed or is still running.
ReplayFaithful ==
    \A r \in Request : answer[r] \in Request \ {r} =>
        /\ KeyOf[answer[r]] = KeyOf[r]
        /\ req[answer[r]] = "stored"

\* The byte counter is kept under the cap and is short of what is cached by the
\* bytes counted off twice and by nothing else, and a retry is given the answer of
\* a request with its key that succeeded.
CacheInv == IdemTypeOK /\ BytesAccounted /\ CapEnforced /\ ReplayFaithful

=============================================================================
