------------------------------ MODULE WsTickets ------------------------------
(***************************************************************************)
(* WebSocket tickets (server/wsticket.go, server/wsticket_redis.go): an    *)
(* authenticated caller mints a ticket for one WebSocket path, and the     *)
(* gate of the upgrade route consumes it.                                  *)
(***************************************************************************)
EXTENDS Integers, FiniteSets

CONSTANTS
    Ticket,        \* tokens, fresh random values
    Dial,          \* upgrade requests, concurrent
    TicketOf,      \* TicketOf[d]: the ticket in its query
    Path,          \* the registered WebSocket paths
    WritePath      \* the ones that need the operator or the admin role

ASSUME TicketAssumption ==
    TicketOf \in [Dial -> Ticket] /\ WritePath \subseteq Path /\ Path # {}

VARIABLES
    ticketStore,   \* "memory" or "redis"
    ticket,        \* state of each ticket in the store
    grant,         \* what each ticket was minted for
    dial,          \* outcome of each upgrade request
    dialled,       \* the path of each upgrade request
    burnt          \* bound on calls to Redis that fail

ticketVars == <<ticketStore, ticket, grant, dial, dialled, burnt>>

Role == {"viewer", "operator"}

TicketTypeOK ==
    /\ ticketStore \in {"memory", "redis"}
    /\ ticket \in [Ticket -> {"unborn", "live", "stale", "gone"}]
    /\ grant \in [Ticket -> [path : Path, role : Role]]
    /\ dial \in [Dial -> {"idle", "admitted", "denied"}]
    /\ dialled \in [Dial -> Path]
    /\ burnt \in 0..1

TicketInit ==
    /\ ticketStore \in {"memory", "redis"}
    /\ ticket = [t \in Ticket |-> "unborn"]
    /\ grant \in [Ticket -> {[path |-> CHOOSE p \in Path : TRUE, role |-> "viewer"]}]
    /\ dial = [d \in Dial |-> "idle"]
    /\ dialled \in [Dial -> {CHOOSE p \in Path : TRUE}]
    /\ burnt = 0

\* routeRoleRequirement and routeRoleAllowed
RoleAllows(role, path) == path \in WritePath => role = "operator"

\* issueWSTicket: an unknown path and a missing role are refused, and Redis may
\* fail to store the ticket.
IssueTicket(t, path, role) ==
    /\ ticket[t] = "unborn" /\ RoleAllows(role, path)
    /\ grant' = [grant EXCEPT ![t] = [path |-> path, role |-> role]]
    /\ \/ ticket' = [ticket EXCEPT ![t] = "live"] /\ UNCHANGED burnt
       \/ /\ ticketStore = "redis" /\ burnt = 0 /\ burnt' = 1
          /\ ticket' = [ticket EXCEPT ![t] = "gone"]
    /\ UNCHANGED <<ticketStore, dial, dialled>>

\* Mutant: the ticket is looked up and left in the store.
ConsumeKeeps(t) == UNCHANGED ticket

\* Consume, under the mutex or by GETDEL: the ticket leaves the store whatever
\* becomes of the request.
Consume(t) == ticket' = [ticket EXCEPT ![t] = IF @ = "unborn" THEN @ ELSE "gone"]

\* wsTicketGate
Gate(d, path) ==
    LET t == TicketOf[d]
        answered == IF ticketStore = "redis" /\ burnt = 0 THEN BOOLEAN ELSE {TRUE} IN
    /\ dial[d] = "idle"
    /\ dialled' = [dialled EXCEPT ![d] = path]
    /\ Consume(t)
    /\ \E reply \in answered :
          /\ burnt' = IF reply THEN burnt ELSE 1
          /\ dial' = [dial EXCEPT ![d] =
                        IF reply /\ ticket[t] = "live" /\ grant[t].path = path
                                 /\ RoleAllows(grant[t].role, path)
                          THEN "admitted" ELSE "denied"]
    /\ UNCHANGED <<ticketStore, grant>>

\* The TTL passes; the sweeper or Redis removes the ticket.
ExpireTicket(t) ==
    /\ ticket[t] = "live" /\ ticket' = [ticket EXCEPT ![t] = "stale"]
    /\ UNCHANGED <<ticketStore, grant, dial, dialled, burnt>>

CollectTicket(t) ==
    /\ ticket[t] = "stale" /\ ticket' = [ticket EXCEPT ![t] = "gone"]
    /\ UNCHANGED <<ticketStore, grant, dial, dialled, burnt>>

TicketNext ==
    \/ \E t \in Ticket : ExpireTicket(t) \/ CollectTicket(t)
    \/ \E t \in Ticket, p \in Path, role \in Role : IssueTicket(t, p, role)
    \/ \E d \in Dial, p \in Path : Gate(d, p)

TicketSpec == TicketInit /\ [][TicketNext]_ticketVars

-----------------------------------------------------------------------------
\* One ticket opens one connection, to the path it was minted for, however many
\* upgrade requests carry it at the same time, and write paths are opened only
\* by callers who held the role.
TicketAdmitsOnce ==
    \A d \in Dial : dial[d] = "admitted" =>
        LET t == TicketOf[d] IN
        /\ \A e \in Dial \ {d} : TicketOf[e] = t => dial[e] # "admitted"
        /\ dialled[d] = grant[t].path
        /\ dialled[d] \in WritePath => grant[t].role = "operator"

\* A ticket is worth one connection.
TicketInv == TicketTypeOK /\ TicketAdmitsOnce

=============================================================================
