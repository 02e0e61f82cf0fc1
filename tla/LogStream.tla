------------------------------ MODULE LogStream ------------------------------
(***************************************************************************)
(* The live log of one stage: the stage's line writer                      *)
(* (service/logbroadcast.go) appends each line to the bounded log store    *)
(* (logstore/memory.go) and publishes it on the WebSocket hub              *)
(* (server/websocket.go) through the in-process or the Redis backend       *)
(* (server/wshub_backend.go); a viewer connects, replays the store and     *)
(* follows (server/wshub_logs.go), is dropped when it is slow, and         *)
(* reconnects with the last sequence number it has seen.                   *)
(***************************************************************************)
EXTENDS Integers, Sequences

CONSTANTS
    Lines,        \* Lines[a]: bound on the lines of attempt a of the stage
    RingCap,      \* lines the store retains (maxBytesPerStage)
    InboxCap,     \* capacity of the backend's local channel
    SendCap,      \* capacity of a client's send channel
    MaxConnects,  \* bound on the viewer's connections
    MaxLogFaults  \* bound on evictions, failed writes and lost subscriptions

ASSUME LogAssumption ==
    /\ Lines \in Seq(Nat \ {0}) /\ Lines # <<>>
    /\ RingCap \in Nat \ {0} /\ InboxCap \in Nat \ {0} /\ SendCap \in Nat \ {0}
    /\ MaxConnects \in Nat /\ MaxLogFaults \in Nat

VARIABLES
    backend,      \* "memory" or "redis"
    att, seq,     \* attempt of the stage, w.seq of its line writer
    unpublished,  \* frames appended to the store and not yet broadcast
    ring,         \* the store's entries of the stage
    wire,         \* frames in Redis on their way to this replica
    subscribed,   \* the Redis subscription is up
    inbox,        \* the backend's local channel
    hub,          \* "running", "dropping", "flagged"; Run's phase on a slow client
    conn,         \* phase of the viewer's connection
    registered,   \* the client is in hub.clients
    send, closed, \* client.send
    truncated,    \* client.truncated
    backlog,      \* entries read for the replay, still to write
    connects,
    lastSeq, view,\* the viewer's cursor and the frames it shows
    told,         \* the viewer was told that the stream was truncated
    lost,         \* frames a backend dropped
    logFaults

writerVars == <<att, seq, unpublished, ring>>
hubVars == <<wire, subscribed, inbox, hub, lost>>
clientVars == <<conn, registered, send, closed, truncated, backlog, connects>>
viewVars == <<lastSeq, view, told>>
logVars == <<backend, writerVars, hubVars, clientVars, viewVars, logFaults>>

Frames(s) == {s[i] : i \in DOMAIN s}
MaxWrites == Len(Lines)
Frame == [att : 1..MaxWrites, seq : Nat \ {0}]

LogTypeOK ==
    /\ backend \in {"memory", "redis"}
    /\ att \in 1..MaxWrites /\ seq \in 0..Lines[att]
    /\ unpublished \in Seq(Frame) /\ Len(unpublished) <= 1
    /\ ring \in Seq(Frame) /\ Len(ring) <= RingCap
    /\ wire \in Seq(Frame) /\ subscribed \in BOOLEAN
    /\ inbox \in Seq(Frame) /\ Len(inbox) <= InboxCap
    /\ hub \in {"running", "dropping", "flagged"}
    /\ conn \in {"off", "register", "read", "replay", "live", "ending", "leaving"}
    /\ registered \in BOOLEAN /\ closed \in BOOLEAN /\ truncated \in BOOLEAN
    /\ send \in Seq(Frame) /\ Len(send) <= SendCap
    /\ backlog \subseteq Frame
    /\ connects \in 0..MaxConnects
    /\ lastSeq \in Nat /\ view \subseteq Frame /\ told \in BOOLEAN
    /\ lost \subseteq Frame
    /\ logFaults \in 0..MaxLogFaults

LogInit ==
    /\ backend \in {"memory", "redis"}
    /\ att = 1 /\ seq = 0 /\ unpublished = <<>> /\ ring = <<>>
    /\ wire = <<>> /\ subscribed = TRUE /\ inbox = <<>> /\ hub = "running" /\ lost = {}
    /\ conn = "off" /\ registered = FALSE /\ send = <<>> /\ closed = FALSE
    /\ truncated = FALSE /\ backlog = {} /\ connects = 0
    /\ lastSeq = 0 /\ view = {} /\ told = FALSE
    /\ logFaults = 0

LogFault == logFaults < MaxLogFaults /\ logFaults' = logFaults + 1

-----------------------------------------------------------------------------
(* The stage *)

\* Append of the store: the oldest entries go when the cap is exceeded, the
\* newest one always stays.
Retain(entries) == IF Len(entries) > RingCap THEN Tail(entries) ELSE entries

\* emit: a complete line (or the flushed rest of one) is numbered and stored ...
Emit ==
    LET f == [att |-> att, seq |-> seq + 1] IN
    /\ unpublished = <<>> /\ seq < Lines[att]
    /\ seq' = seq + 1
    /\ ring' = Retain(Append(ring, f))
    /\ unpublished' = <<f>>
    /\ UNCHANGED <<backend, att, hubVars, clientVars, viewVars, logFaults>>

\* Put a frame on the local channel, or drop it when the channel is full.
Offer(f) ==
    IF Len(inbox) < InboxCap
      THEN inbox' = Append(inbox, f) /\ UNCHANGED lost
      ELSE lost' = lost \cup {f} /\ UNCHANGED inbox

\* ... and broadcast: Publish of the in-process backend,
PublishMemory ==
    /\ backend = "memory" /\ unpublished # <<>>
    /\ Offer(Head(unpublished))
    /\ unpublished' = <<>>
    /\ UNCHANGED <<backend, att, seq, ring, wire, subscribed, hub, clientVars, viewVars, logFaults>>

\* and of the Redis backend: a replica without a subscription misses it.
PublishRedis ==
    /\ backend = "redis" /\ unpublished # <<>>
    /\ IF subscribed
         THEN wire' = Append(wire, Head(unpublished)) /\ UNCHANGED lost
         ELSE lost' = lost \cup {Head(unpublished)} /\ UNCHANGED wire
    /\ unpublished' = <<>>
    /\ UNCHANGED <<backend, att, seq, ring, subscribed, inbox, hub, clientVars, viewVars, logFaults>>

\* The stage is retried: executeBuild and its siblings make a new line writer.
RetryStage ==
    /\ unpublished = <<>> /\ seq > 0 /\ att < MaxWrites
    /\ att' = att + 1 /\ seq' = 0
    /\ UNCHANGED <<backend, unpublished, ring, hubVars, clientVars, viewVars, logFaults>>

\* Appends to other stages push this one out of the store (maxStreams).
EvictStream ==
    /\ ring # <<>> /\ LogFault
    /\ ring' = <<>>
    /\ UNCHANGED <<backend, att, seq, unpublished, hubVars, clientVars, viewVars>>

-----------------------------------------------------------------------------
(* The Redis subscription *)

\* drain: a received message goes to the local channel.
DrainWire ==
    /\ wire # <<>>
    /\ Offer(Head(wire))
    /\ wire' = Tail(wire)
    /\ UNCHANGED <<backend, writerVars, subscribed, hub, clientVars, viewVars, logFaults>>

\* The subscription breaks: consume backs off and subscribes again.
LoseSubscription ==
    /\ backend = "redis" /\ subscribed /\ LogFault
    /\ subscribed' = FALSE
    /\ lost' = lost \cup Frames(wire) /\ wire' = <<>>
    /\ UNCHANGED <<backend, writerVars, inbox, hub, clientVars, viewVars>>

Resubscribe ==
    /\ ~subscribed
    /\ subscribed' = TRUE
    /\ UNCHANGED <<backend, writerVars, wire, inbox, hub, lost, clientVars, viewVars, logFaults>>

-----------------------------------------------------------------------------
(* The hub's loop *)

\* Run takes a client from the register channel.
Register ==
    /\ hub = "running" /\ conn = "register"
    /\ registered' = TRUE
    /\ conn' = "read"
    /\ UNCHANGED <<backend, writerVars, hubVars, send, closed, truncated, backlog, connects,
                   viewVars, logFaults>>

\* Run takes a client from the unregister channel, and closes its send channel
\* unless it was dropped before.
Unregister ==
    /\ hub = "running" /\ conn = "leaving"
    /\ registered' = FALSE
    /\ closed' = TRUE
    /\ conn' = "off"
    /\ UNCHANGED <<backend, writerVars, hubVars, send, truncated, backlog, connects, viewVars,
                   logFaults>>

\* Mutant: a frame for a slow client is dropped and the client kept.
DeliverQuiet ==
    /\ hub = "running" /\ inbox # <<>>
    /\ inbox' = Tail(inbox)
    /\ send' = IF registered /\ Len(send) < SendCap THEN Append(send, Head(inbox)) ELSE send
    /\ UNCHANGED <<backend, writerVars, wire, subscribed, hub, lost, conn, registered, closed,
                   truncated, backlog, connects, viewVars, logFaults>>

\* Run hands a broadcast to the clients of its channel; a full send channel
\* makes the client a victim.
Deliver ==
    /\ hub = "running" /\ inbox # <<>>
    /\ inbox' = Tail(inbox)
    /\ IF registered /\ Len(send) < SendCap
         THEN send' = Append(send, Head(inbox)) /\ UNCHANGED hub
         ELSE hub' = (IF registered THEN "dropping" ELSE hub) /\ UNCHANGED send
    /\ UNCHANGED <<backend, writerVars, wire, subscribed, lost, conn, registered, closed, truncated,
                   backlog, connects, viewVars, logFaults>>

\* The victim is removed and flagged,
FlagVictim ==
    /\ hub = "dropping"
    /\ hub' = "flagged"
    /\ registered' = FALSE /\ truncated' = TRUE
    /\ UNCHANGED <<backend, writerVars, wire, subscribed, inbox, lost, conn, send, closed, backlog,
                   connects, viewVars, logFaults>>

\* and its channel closed; its write pump may see that at once.
CloseVictim ==
    /\ hub = "flagged"
    /\ hub' = "running"
    /\ closed' = TRUE
    /\ UNCHANGED <<backend, writerVars, wire, subscribed, inbox, lost, conn, registered, send,
                   truncated, backlog, connects, viewVars, logFaults>>

-----------------------------------------------------------------------------
(* The connection *)

\* HandleStageLogs: upgrade, a new client, its registration requested.  The
\* viewer passes the cursor of useStageLogs.
Connect ==
    /\ conn = "off" /\ connects < MaxConnects /\ (connects = 0 \/ closed)
    /\ conn' = "register" /\ connects' = connects + 1
    /\ send' = <<>> /\ closed' = FALSE /\ truncated' = FALSE /\ backlog' = {}
    /\ told' = FALSE
    /\ UNCHANGED <<backend, writerVars, hubVars, registered, lastSeq, view, logFaults>>

\* Mutant: the line after the cursor is taken for seen.
ReadBacklogAfter ==
    /\ conn = "read"
    /\ backlog' = {f \in Frames(ring) : f.seq > lastSeq + 1}
    /\ conn' = "replay"
    /\ UNCHANGED <<backend, writerVars, hubVars, registered, send, closed, truncated, connects,
                   viewVars, logFaults>>

\* Read: the retained entries after the cursor.
ReadBacklog ==
    /\ conn = "read"
    /\ backlog' = {f \in Frames(ring) : f.seq > lastSeq}
    /\ conn' = "replay"
    /\ UNCHANGED <<backend, writerVars, hubVars, registered, send, closed, truncated, connects,
                   viewVars, logFaults>>

\* applyLogFrame: frames at or below the cursor are duplicates.
Show(f) ==
    IF f.seq <= lastSeq THEN UNCHANGED <<lastSeq, view>>
                        ELSE lastSeq' = f.seq /\ view' = view \cup {f}

\* The store's order.
Before(f, g) == f.att < g.att \/ (f.att = g.att /\ f.seq < g.seq)

\* The backlog is written to the connection, in order, before the pumps start.
Replay ==
    /\ conn = "replay"
    /\ \E f \in backlog :
          /\ \A g \in backlog \ {f} : Before(f, g)
          /\ Show(f)
          /\ backlog' = backlog \ {f}
    /\ UNCHANGED <<backend, writerVars, hubVars, conn, registered, send, closed, truncated, connects,
                   told, logFaults>>

StartPumps ==
    /\ conn = "replay" /\ backlog = {}
    /\ conn' = "live"
    /\ UNCHANGED <<backend, writerVars, hubVars, registered, send, closed, truncated, backlog,
                   connects, viewVars, logFaults>>

\* writePump writes what the hub queued,
PumpFrame ==
    /\ conn = "live" /\ send # <<>>
    /\ Show(Head(send))
    /\ send' = Tail(send)
    /\ UNCHANGED <<backend, writerVars, hubVars, conn, registered, closed, truncated, backlog,
                   connects, told, logFaults>>

\* and, when the channel is closed, the truncation notice and a close frame.
PumpClosed ==
    /\ conn = "live" /\ send = <<>> /\ closed
    /\ told' = truncated
    /\ conn' = "ending"
    /\ UNCHANGED <<backend, writerVars, hubVars, registered, send, closed, truncated, backlog,
                   connects, lastSeq, view, logFaults>>

\* readPump sees the connection end and asks to be unregistered.
PumpLeaves ==
    /\ conn = "ending"
    /\ conn' = "leaving"
    /\ UNCHANGED <<backend, writerVars, hubVars, registered, send, closed, truncated, backlog,
                   connects, viewVars, logFaults>>

\* A write fails or the viewer goes away: during the replay the client is
\* unregistered without pumps, later by its read pump.
Disconnect ==
    /\ conn \in {"replay", "live"} /\ LogFault
    /\ conn' = "leaving"
    /\ UNCHANGED <<backend, writerVars, hubVars, registered, send, closed, truncated, backlog,
                   connects, viewVars>>

-----------------------------------------------------------------------------
HubStep == Register \/ Unregister \/ Deliver \/ FlagVictim \/ CloseVictim
ClientStep == ReadBacklog \/ Replay \/ StartPumps \/ PumpFrame \/ PumpClosed \/ PumpLeaves
PublishStep == PublishMemory \/ PublishRedis \/ DrainWire \/ Resubscribe

LogNext ==
    \/ Emit \/ RetryStage \/ EvictStream \/ LoseSubscription \/ Connect \/ Disconnect
    \/ HubStep \/ ClientStep \/ PublishStep

LogSpec == LogInit /\ [][LogNext]_logVars

\* The hub's loop, the handler and the pumps run, and Redis comes back.
LogFairness == WF_logVars(HubStep) /\ WF_logVars(ClientStep) /\ WF_logVars(PublishStep)

-----------------------------------------------------------------------------
\* The viewer's cursor never passes a line that the store still has and no
\* backend dropped: the handover from the backlog to the live stream, slow
\* clients and reconnections with ?since leave no silent gap.  Stated for the
\* lines of the first attempt.
NoSilentGap ==
    att = 1 => \A f \in Frames(ring) : f.seq <= lastSeq => f \in view \cup lost

\* The hub never sends on a closed channel, and a client it does not know
\* receives nothing more.
SendOpen == registered => ~closed

\* "a dropped slow client can be told the stream was truncated rather than going
\* silent" (package logstore): a stream that the hub cut is never ended by a
\* plain close.
CutIsTold == conn = "ending" => told

\* A connected viewer catches up with the stage: a line it has not seen is
\* shown, or lost by a backend or the store, or the connection ends.
ViewerCatchesUp ==
    (conn = "live" /\ att = 1 /\ lastSeq < seq)
        ~> (lastSeq = seq \/ conn # "live" \/ att > 1 \/ lost # {} \/ ring = <<>>)

\* A viewer's stream has no gap it is not told of, and the hub neither sends to a
\* closed channel nor cuts a slow viewer off without the reason.
StreamInv == LogTypeOK /\ NoSilentGap /\ SendOpen /\ CutIsTold

=============================================================================
