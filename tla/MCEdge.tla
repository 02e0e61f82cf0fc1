------------------------------- MODULE MCEdge -------------------------------
(***************************************************************************)
(* What the server keeps in memory around its handlers, in six parts that  *)
(* share no state: the live log stream, the idempotency cache, the         *)
(* WebSocket tickets, the rate limiter, the process's own life, and the    *)
(* browser's end of the log stream.                                        *)
(***************************************************************************)
EXTENDS LogStream, Idempotency, WsTickets, RateLimit, ServerLifecycle, LiveViewer, TLC

CONSTANTS r1, r2, r3, r4, ka, kb, t1, t2, d1, d2, d3, pr, pw, g1, g2, h1, h2, h3, h4, h5

VARIABLE part

MCLines == <<3, 1>>
MCKeyOf == (r1 :> ka) @@ (r2 :> ka) @@ (r3 :> kb) @@ (r4 :> ka)
MCSizeOf == (r1 :> 2) @@ (r2 :> 1) @@ (r3 :> 2) @@ (r4 :> 2)
MCTicketOf == (d1 :> t1) @@ (d2 :> t1) @@ (d3 :> t2)
MCRoute == (h1 :> "api") @@ (h2 :> "api") @@ (h3 :> "api") @@ (h4 :> "api") @@ (h5 :> "webhook")
MCSubject == (h1 :> "u") @@ (h2 :> "u") @@ (h3 :> "u") @@ (h4 :> "u") @@ (h5 :> "")
MCEmitted == (g1 :> 3) @@ (g2 :> 1)
MCConfigs == SUBSET Feature

\* Only the part's own initial states vary.
MCInit ==
    /\ LogInit /\ IdemInit /\ TicketInit /\ RateInit /\ LifeInit /\ ViewerInit
    /\ part \in {"logs", "idempotency", "tickets", "limiter", "lifecycle", "viewer"}
    /\ part # "logs" => backend = "memory"
    /\ part # "tickets" => ticketStore = "memory"
    /\ part # "limiter" => rateBackend = "memory"
    /\ part # "lifecycle" => cfg = {}

MCNext ==
    \/ /\ part = "logs" /\ LogNext
       /\ UNCHANGED <<idemVars, ticketVars, rateVars, lifeVars, viewerVars, part>>
    \/ /\ part = "idempotency" /\ IdemNext
       /\ UNCHANGED <<logVars, ticketVars, rateVars, lifeVars, viewerVars, part>>
    \/ /\ part = "tickets" /\ TicketNext
       /\ UNCHANGED <<logVars, idemVars, rateVars, lifeVars, viewerVars, part>>
    \/ /\ part = "limiter" /\ RateNext
       /\ UNCHANGED <<logVars, idemVars, ticketVars, lifeVars, viewerVars, part>>
    \/ /\ part = "lifecycle" /\ LifeNext
       /\ UNCHANGED <<logVars, idemVars, ticketVars, rateVars, viewerVars, part>>
    \/ /\ part = "viewer" /\ ViewerNext(Log)
       /\ UNCHANGED <<logVars, idemVars, ticketVars, rateVars, lifeVars, part>>

MCVars == <<logVars, idemVars, ticketVars, rateVars, lifeVars, viewerVars, part>>

\* The idempotency cache alone.
MCCacheSpec == MCInit /\ part = "idempotency" /\ [][MCNext]_MCVars

\* The conjuncts of LogFairness and LifeFairness, each within its part.
InLogs(A) == part = "logs" /\ A
             /\ UNCHANGED <<idemVars, ticketVars, rateVars, lifeVars, viewerVars, part>>
InLife(A) == part = "lifecycle" /\ A
             /\ UNCHANGED <<logVars, idemVars, ticketVars, rateVars, viewerVars, part>>
InViewer(A) == part = "viewer" /\ A
               /\ UNCHANGED <<logVars, idemVars, ticketVars, rateVars, lifeVars, part>>

MCFairSpec ==
    /\ MCInit /\ [][MCNext]_MCVars
    /\ WF_MCVars(InLogs(HubStep)) /\ WF_MCVars(InLogs(ClientStep)) /\ WF_MCVars(InLogs(PublishStep))
    /\ WF_MCVars(InLife(BootStep \/ BootFails \/ Cleanup \/ BootFailed \/ Serve))
    /\ WF_MCVars(InLife(ServeFails \/ Signal))
    /\ WF_MCVars(InLife(Drain \/ Drained \/ CloseStep \/ Exit))
    /\ WF_MCVars(InViewer(ViewerStep))

\* A viewer of a finished stage has all of its log, a viewer that lost its socket
\* has a new one, and a process that is told to stop ends.
EdgeProgresses == ViewerCatchesUp /\ ProcessExits /\ ViewerReconnects

=============================================================================
