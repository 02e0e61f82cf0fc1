-------------------------------- MODULE Hosts --------------------------------
(***************************************************************************)
(* Managed hosts: the rows (handler/host.go, service/host.go, stores), the *)
(* trust-on-first-use of SSH host keys and the SSH deploy target with its  *)
(* pool of connections (deploy/deploytarget/ssh).  One host, which         *)
(* operations deploy to while operators edit or delete it.  A connection   *)
(* may die on the wire; several dialers may find it dead.                  *)
(***************************************************************************)
EXTENDS Integers, FiniteSets

CONSTANTS
    Op,             \* deployments through the SSH target
    ImageOf,        \* ImageOf[o]
    Editor,         \* operators' edits of the host
    HostKey,        \* keys the server may offer
    Strict,         \* SSHStrictHostKey
    PinRetries,     \* pinHostKeyMaxRetries
    MaxConn,        \* bound on connections opened
    NoKey, NoConn, NoImage

ASSUME HostsAssumption ==
    /\ IsFiniteSet(Op) /\ Strict \in BOOLEAN /\ PinRetries \in Nat \ {0} /\ MaxConn \in Nat \ {0}
    /\ NoKey \notin HostKey /\ NoConn \notin 1..MaxConn

VARIABLES
    hostRow,        \* [known, ver, live]
    secret,         \* the private key is in the secrets manager
    deleter,        \* DeleteHost: "idle", "row", "secret", "done"
    edit,           \* edit[e]: program point, version, key it read, key of its own
    op,             \* program point of each deployment
    snap,           \* snap[o]: the pinned key it read
    pinned,         \* pinned[o]: the key it accepted on first use, else NoKey
    pinTry,         \* [n, ver]: attempts of PinHostKey, version it read
    conn,           \* conn[o]: the client it uses
    redial,         \* it has evicted and dials again
    cached,         \* clientCache
    open, dead,     \* connections that are open; that died on the wire
    nextConn,       \* connections opened so far
    gen,            \* connectMu: the current mutex (a generation), 0 for none
    nextGen,
    myGen,          \* myGen[o]: the mutex it took from the map
    holder,         \* holder[g]: who holds mutex g
    hostContainer,  \* the image that runs under the app's container name
    pulled          \* the operations whose pull succeeded

rowVars == <<hostRow, secret, deleter, edit>>
poolVars == <<cached, open, dead, nextConn, gen, nextGen, holder>>
opVars == <<op, snap, pinned, pinTry, conn, redial, myGen>>
dockerVars == <<hostContainer, pulled>>
hostVars == <<rowVars, poolVars, opVars, dockerVars>>

Conns == 1..MaxConn
Gens == 1..(2 * Cardinality(Op) + 2)

HostsTypeOK ==
    /\ hostRow \in [known : HostKey \cup {NoKey}, ver : Nat, live : BOOLEAN]
    /\ secret \in BOOLEAN /\ deleter \in {"idle", "row", "secret", "done"}
    /\ op \in [Op -> {"idle", "resolved", "locking", "dialing", "pinning", "pinput", "storing",
                      "connected", "evicting", "pulled", "stopped", "removed", "done", "failed"}]
    /\ cached \in Conns \cup {NoConn} /\ open \subseteq Conns /\ dead \subseteq Conns
    /\ nextConn \in 0..MaxConn /\ gen \in Gens \cup {0}
    /\ \A o \in Op : conn[o] \in Conns \cup {NoConn} /\ pinTry[o].n \in 0..PinRetries
    /\ pulled \subseteq Op

HostsInit ==
    /\ \E known \in HostKey \cup {NoKey} : hostRow = [known |-> known, ver |-> 1, live |-> TRUE]
    /\ secret = TRUE /\ deleter = "idle"
    /\ edit = [e \in Editor |-> [at |-> "idle", ver |-> 0, known |-> NoKey, own |-> NoKey]]
    /\ op = [o \in Op |-> "idle"] /\ snap = [o \in Op |-> NoKey] /\ pinned = [o \in Op |-> NoKey]
    /\ pinTry = [o \in Op |-> [n |-> 0, ver |-> 0]]
    /\ conn = [o \in Op |-> NoConn] /\ redial = [o \in Op |-> FALSE]
    /\ cached = NoConn /\ open = {} /\ dead = {} /\ nextConn = 0
    /\ gen = 0 /\ nextGen = 1 /\ myGen = [o \in Op |-> 0] /\ holder = [g \in Gens |-> "free"]
    /\ hostContainer = NoImage /\ pulled = {}

-----------------------------------------------------------------------------
(* Host rows *)

\* Mutant: the update does not look at the version.
UpdateRowBlind(ver, known) ==
    IF ~hostRow.live THEN "notFound" ELSE "ok"

\* Update of the store: only the version that was read may be replaced.
UpdateRow(ver, known) ==
    IF ~hostRow.live THEN "notFound" ELSE IF hostRow.ver # ver THEN "conflict" ELSE "ok"

\* UpdateHost: the handler reads the row.  The body carries the version that the
\* operator had, at most the one the handler reads, and may carry a host key.
UpdateHostGet(e) ==
    /\ edit[e].at = "idle" /\ hostRow.live
    /\ \E v \in 1..hostRow.ver, own \in HostKey \cup {NoKey} :
          edit' = [edit EXCEPT ![e] = [at |-> "got", ver |-> v, known |-> hostRow.known, own |-> own]]
    /\ UNCHANGED <<hostRow, secret, deleter, poolVars, opVars, dockerVars>>

\* The service's UpdateHost: a body without a host key keeps the one that was read.
KeyToWrite(e) == IF edit[e].own # NoKey THEN edit[e].own ELSE edit[e].known

\* ... and writes it.
UpdateHostPut(e) ==
    /\ edit[e].at = "got"
    /\ edit' = [edit EXCEPT ![e].at = "done"]
    /\ hostRow' = IF UpdateRow(edit[e].ver, KeyToWrite(e)) = "ok"
                    THEN [hostRow EXCEPT !.known = KeyToWrite(e), !.ver = @ + 1] ELSE hostRow
    /\ UNCHANGED <<secret, deleter, poolVars, opVars, dockerVars>>

\* DeleteHost: the row, then the private key, best effort ...
DeleteHostRow ==
    /\ deleter = "idle" /\ hostRow.live
    /\ hostRow' = [hostRow EXCEPT !.live = FALSE] /\ deleter' = "row"
    /\ UNCHANGED <<secret, edit, poolVars, opVars, dockerVars>>

DeleteHostSecret ==
    /\ deleter = "row" /\ deleter' = "secret"
    /\ secret' \in {FALSE, secret}
    /\ UNCHANGED <<hostRow, edit, poolVars, opVars, dockerVars>>

-----------------------------------------------------------------------------
(* The pool *)

\* Evict: the client and the mutex leave the maps, then the client is closed.
Evict ==
    /\ open' = IF cached = NoConn THEN open ELSE open \ {cached}
    /\ cached' = NoConn /\ gen' = 0

\* ... then OnDelete.
DeleteHostEvict ==
    /\ deleter = "secret" /\ deleter' = "done"
    /\ Evict
    /\ UNCHANGED <<hostRow, secret, edit, dead, nextConn, nextGen, holder, opVars, dockerVars>>

\* HostResolver: the row of the app's host.
Resolve(o) ==
    /\ op[o] = "idle"
    /\ op' = [op EXCEPT ![o] = IF hostRow.live THEN "resolved" ELSE "failed"]
    /\ snap' = [snap EXCEPT ![o] = hostRow.known]
    /\ UNCHANGED <<pinned, pinTry, conn, redial, myGen, rowVars, poolVars, dockerVars>>

\* dialHost: the cache, else the mutex of the host.
DialLookup(o) ==
    /\ op[o] = "resolved"
    /\ IF cached # NoConn
         THEN /\ op' = [op EXCEPT ![o] = "connected"] /\ conn' = [conn EXCEPT ![o] = cached]
              /\ UNCHANGED <<gen, nextGen, myGen>>
         ELSE /\ op' = [op EXCEPT ![o] = "locking"] /\ UNCHANGED conn
              /\ gen' = IF gen = 0 THEN nextGen ELSE gen
              /\ nextGen' = IF gen = 0 THEN nextGen + 1 ELSE nextGen
              /\ myGen' = [myGen EXCEPT ![o] = gen']
    /\ UNCHANGED <<snap, pinned, pinTry, redial, rowVars, cached, open, dead, nextConn, holder, dockerVars>>

\* The cache again, under the mutex.
DialLock(o) ==
    /\ op[o] = "locking" /\ holder[myGen[o]] = "free"
    /\ IF cached # NoConn
         THEN op' = [op EXCEPT ![o] = "connected"] /\ conn' = [conn EXCEPT ![o] = cached] /\ UNCHANGED holder
         ELSE op' = [op EXCEPT ![o] = "dialing"] /\ holder' = [holder EXCEPT ![myGen[o]] = "held"]
              /\ UNCHANGED conn
    /\ UNCHANGED <<snap, pinned, pinTry, redial, myGen, rowVars, cached, open, dead, nextConn, gen, nextGen,
                   dockerVars>>

\* hostKeyCallback: the pinned key, or on first use any key unless strict.
hostKeyCallback(known, key) == IF known # NoKey THEN key = known ELSE ~Strict

\* LoadPrivateKey and the dial: the server offers a key.
Dial(o, key) ==
    /\ op[o] = "dialing" /\ nextConn < MaxConn
    /\ IF secret /\ hostKeyCallback(snap[o], key)
         THEN /\ nextConn' = nextConn + 1 /\ open' = open \cup {nextConn + 1}
              /\ conn' = [conn EXCEPT ![o] = nextConn + 1]
              /\ pinned' = [pinned EXCEPT ![o] = key]
              /\ op' = [op EXCEPT ![o] = IF snap[o] = NoKey THEN "pinning" ELSE "storing"]
              /\ UNCHANGED holder
         ELSE /\ op' = [op EXCEPT ![o] = "failed"] /\ holder' = [holder EXCEPT ![myGen[o]] = "free"]
              /\ UNCHANGED <<nextConn, open, conn, pinned>>
    /\ UNCHANGED <<snap, pinTry, redial, myGen, rowVars, cached, dead, gen, nextGen, dockerVars>>

\* The dial fails on the network.
DialFail(o) ==
    /\ op[o] = "dialing"
    /\ op' = [op EXCEPT ![o] = "failed"] /\ holder' = [holder EXCEPT ![myGen[o]] = "free"]
    /\ UNCHANGED <<snap, pinned, pinTry, conn, redial, myGen, rowVars, cached, open, dead, nextConn, gen,
                   nextGen, dockerVars>>

\* PinHostKey: get ...
PinGet(o) ==
    /\ op[o] = "pinning"
    /\ IF ~hostRow.live \/ hostRow.known # NoKey \/ pinTry[o].n = PinRetries
         THEN op' = [op EXCEPT ![o] = "storing"] /\ UNCHANGED pinTry
         ELSE /\ op' = [op EXCEPT ![o] = "pinput"]
              /\ pinTry' = [pinTry EXCEPT ![o] = [n |-> @.n + 1, ver |-> hostRow.ver]]
    /\ UNCHANGED <<snap, pinned, conn, redial, myGen, rowVars, poolVars, dockerVars>>

\* ... and update; after a conflict once more.
PinUpdate(o) ==
    /\ op[o] = "pinput"
    /\ LET result == UpdateRow(pinTry[o].ver, pinned[o]) IN
       /\ hostRow' = IF result = "ok" THEN [hostRow EXCEPT !.known = pinned[o], !.ver = @ + 1] ELSE hostRow
       /\ op' = [op EXCEPT ![o] = IF result = "conflict" THEN "pinning" ELSE "storing"]
    /\ UNCHANGED <<snap, pinned, pinTry, conn, redial, myGen, secret, deleter, edit, poolVars, dockerVars>>

\* dialHost ends: the client is cached, the mutex released.
DialStore(o) ==
    /\ op[o] = "storing"
    /\ cached' = conn[o] /\ holder' = [holder EXCEPT ![myGen[o]] = "free"]
    /\ op' = [op EXCEPT ![o] = "connected"]
    /\ UNCHANGED <<snap, pinned, pinTry, conn, redial, myGen, rowVars, open, dead, nextConn, gen, nextGen,
                   dockerVars>>

-----------------------------------------------------------------------------
(* Deploy: pull, stop, rm, run *)

Alive(c) == c \in open \ dead

\* runCmdCtx for the pull: no session on a dead client, once per deployment a
\* reason to dial again; else docker's answer or the timeout.
Pull(o) ==
    /\ op[o] = "connected"
    /\ \/ /\ Alive(conn[o]) /\ op' = [op EXCEPT ![o] = "pulled"] /\ pulled' = pulled \cup {o}
       \/ /\ Alive(conn[o]) /\ op' = [op EXCEPT ![o] = "failed"] /\ UNCHANGED pulled
       \/ /\ ~Alive(conn[o]) /\ op' = [op EXCEPT ![o] = IF redial[o] THEN "failed" ELSE "evicting"]
          /\ UNCHANGED pulled
    /\ UNCHANGED <<snap, pinned, pinTry, conn, redial, myGen, rowVars, poolVars, hostContainer>>

\* dialHostFresh evicts whatever client is cached, and dials.
DialFresh(o) ==
    /\ op[o] = "evicting"
    /\ Evict
    /\ op' = [op EXCEPT ![o] = "resolved"] /\ redial' = [redial EXCEPT ![o] = TRUE]
    /\ UNCHANGED <<snap, pinned, pinTry, conn, myGen, rowVars, dead, nextConn, nextGen, holder, dockerVars>>

\* docker stop, best effort.
Stop(o) ==
    /\ op[o] = "pulled"
    /\ op' = [op EXCEPT ![o] = "stopped"]
    /\ \/ Alive(conn[o]) /\ hostContainer' = NoImage
       \/ UNCHANGED hostContainer
    /\ UNCHANGED <<snap, pinned, pinTry, conn, redial, myGen, rowVars, poolVars, pulled>>

\* docker rm, best effort: a running container is not removed.
Remove(o) ==
    /\ op[o] = "stopped"
    /\ op' = [op EXCEPT ![o] = "removed"]
    /\ UNCHANGED <<snap, pinned, pinTry, conn, redial, myGen, rowVars, poolVars, dockerVars>>

\* docker run: the name must be free.
Run(o) ==
    /\ op[o] = "removed"
    /\ \/ /\ Alive(conn[o]) /\ hostContainer = NoImage
          /\ hostContainer' = ImageOf[o] /\ op' = [op EXCEPT ![o] = "done"]
       \/ op' = [op EXCEPT ![o] = "failed"] /\ UNCHANGED hostContainer
    /\ UNCHANGED <<snap, pinned, pinTry, conn, redial, myGen, rowVars, poolVars, pulled>>

\* A connection dies on the wire.
LinkDies ==
    /\ dead = {}
    /\ \E c \in open : dead' = {c}
    /\ UNCHANGED <<cached, open, nextConn, gen, nextGen, holder, rowVars, opVars, dockerVars>>

\* The deployments connect; the server offers one of keys.
ConnectNext(keys) ==
    \E o \in Op :
        \/ Resolve(o) \/ DialLookup(o) \/ DialLock(o) \/ DialFail(o) \/ PinGet(o) \/ PinUpdate(o)
        \/ DialStore(o)
        \/ \E key \in keys : Dial(o, key)

CommandNext == \E o \in Op : Pull(o) \/ DialFresh(o) \/ Stop(o) \/ Remove(o) \/ Run(o)

EditNext == \E e \in Editor : UpdateHostGet(e) \/ UpdateHostPut(e)

DeleteNext == DeleteHostRow \/ DeleteHostSecret \/ DeleteHostEvict

HostsNext == ConnectNext(HostKey) \/ CommandNext \/ EditNext \/ DeleteNext \/ LinkDies

HostsSpec == HostsInit /\ [][HostsNext]_hostVars

-----------------------------------------------------------------------------
\* An edit that names its own key, by an operator whose version of the row is current.
Overrides(e) ==
    edit[e].at = "got" /\ edit[e].own # NoKey /\ edit[e].ver = hostRow.ver /\ hostRow'.known = edit[e].own

\* Once a host key is pinned it is never lost, and only an operator who names
\* another, and had the row as it stands, replaces it: no concurrent first
\* connection does ("refuse to silently overwrite"), no edit of other fields, and
\* no edit made from a page older than the pin.
PinKept ==
    [][hostRow.known # NoKey => hostRow'.known = hostRow.known \/ \E e \in Editor : Overrides(e)]_hostVars

\* The connections a deployment dials after it has read a pinned key are to a
\* server that offered that key.
PinnedServer == \A o \in Op : snap[o] # NoKey /\ pinned[o] # NoKey => pinned[o] = snap[o]

\* A client that dialHost hands out of the cache has not been closed by an
\* eviction.
CachedOpen == cached # NoConn => cached \in open

\* The running container is only ever taken down by a deployment that has its
\* new image on the host.
PulledFirst == [][hostContainer # NoImage /\ hostContainer' = NoImage => \E o \in pulled : op[o] = "pulled"]_hostVars

\* A host is reached only under the key pinned when the deployment read the row;
\* only an explicit edit of the current row replaces that key; the pool holds open
\* clients; and an image is on the host before the old container stops.
HostsCorrect == [](HostsTypeOK /\ PinnedServer /\ CachedOpen) /\ PinKept /\ PulledFirst

=============================================================================
