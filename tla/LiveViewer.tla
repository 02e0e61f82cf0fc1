----------------------------- MODULE LiveViewer -----------------------------
(***************************************************************************)
(* The browser's end of the live logs: the hook that keeps a WebSocket     *)
(* open (frontend/src/hooks/useWebSocket.ts), the one that shows a stage's *)
(* log (useStageLogs.ts) and its line buffer (stageLogBuffer.ts).  One     *)
(* thread, with events in any order: answers to the ticket request and to  *)
(* the REST backfill, socket events, the reconnect timer, and the user who *)
(* selects another stage or none.                                          *)
(***************************************************************************)
EXTENDS Integers, Sequences

CONSTANTS
    Log,                \* stages, each with its own WebSocket url
    NoLog,              \* no stage selected
    Slot,               \* calls of connect, each with the socket it makes
    NoSlot,
    MaxEmitted,         \* MaxEmitted[g]: bound on the lines of a stage
    MaxShown,           \* MAX_LINES of the buffer
    MaxViewFaults       \* bound on refused tickets, lost sockets, evictions

ASSUME LiveViewerAssumption ==
    /\ NoLog \notin Log /\ NoSlot \notin Slot
    /\ MaxEmitted \in [Log -> Nat] /\ MaxShown \in Nat \ {0} /\ MaxViewFaults \in Nat

VARIABLES
    selected,           \* the stage whose log is shown
    sock,               \* sock[c]: [at, of, next] of a call and its socket
    wsRef,              \* the slot of the current socket
    closedByCaller,
    timer,              \* stage whose connect the reconnect timer will call
    hasOpened,
    backfill,           \* the REST request that is not aborted: [apply, of]
    buffer,             \* [lines, lastSeq, seeded, truncated]
    emitted, evicted,   \* server: lines of a stage, and how many left the ring
    crossed,            \* a selection overtook a ticket request or a socket
    gapped,             \* a replay began after lines that were evicted
    viewFaults

socketVars == <<sock, wsRef, closedByCaller, timer, hasOpened>>
viewerVars == <<selected, socketVars, backfill, buffer, emitted, evicted, crossed, gapped, viewFaults>>

Line == [of : Log, seq : Nat]
Free == [at |-> "free", of |-> NoLog, next |-> 0]
NoBackfill == [apply |-> "none", of |-> NoLog]
EmptyBuffer == [lines |-> <<>>, lastSeq |-> 0, seeded |-> FALSE, truncated |-> FALSE]

ViewerTypeOK ==
    /\ selected \in Log \cup {NoLog} /\ timer \in Log \cup {NoLog} /\ wsRef \in Slot \cup {NoSlot}
    /\ sock \in [Slot -> [at : {"free", "ticket", "connecting", "open", "closing"}, of : Log \cup {NoLog}, next : Nat]]
    /\ backfill.apply \in {"none", "seed", "merge"}
    /\ buffer.lines \in Seq(Line) /\ Len(buffer.lines) <= MaxShown

ViewerInit ==
    /\ selected = NoLog /\ sock = [c \in Slot |-> Free] /\ wsRef = NoSlot
    /\ closedByCaller = FALSE /\ timer = NoLog /\ hasOpened = FALSE
    /\ backfill = NoBackfill /\ buffer = EmptyBuffer
    /\ emitted = [g \in Log |-> 0] /\ evicted = [g \in Log |-> 0]
    /\ crossed = FALSE /\ gapped = FALSE /\ viewFaults = 0

Live(c) == sock[c].at \in {"connecting", "open"}

-----------------------------------------------------------------------------
(* The buffer *)

LinesOf(g, from, to) == [i \in 1..(to - from) |-> [of |-> g, seq |-> from + i]]

capLines(lines) == IF Len(lines) > MaxShown THEN SubSeq(lines, Len(lines) - MaxShown + 1, Len(lines)) ELSE lines

\* The answer of the mount-time request; a live line is worth more.
seedFromRest(g, n) ==
    IF buffer.lastSeq > 0 THEN buffer
    ELSE [lines |-> capLines(LinesOf(g, 0, n)), lastSeq |-> 0, seeded |-> TRUE,
          truncated |-> buffer.truncated \/ n > MaxShown]

\* A frame that was seen is dropped, the first one replaces the seed.
applyLogFrame(g, seq) ==
    LET base == IF buffer.seeded THEN <<>> ELSE buffer.lines
        lines == Append(base, [of |-> g, seq |-> seq])
    IN  IF seq <= buffer.lastSeq THEN buffer
        ELSE [lines |-> capLines(lines), lastSeq |-> seq, seeded |-> FALSE,
              truncated |-> (~buffer.seeded /\ buffer.truncated) \/ Len(lines) > MaxShown]

\* Mutant: the cursor stays where the last frame was.
MergedSeqOld(n) == buffer.lastSeq

\* The cursor after a merge.
MergedSeq(n) == n

\* The lines of the capture past the ones shown, after a reconnect.
mergeReconnectBackfill(g, n) ==
    LET lines == buffer.lines \o LinesOf(g, Len(buffer.lines), n)
    IN  IF buffer.lastSeq = 0 \/ buffer.truncated \/ n <= Len(buffer.lines) THEN buffer
        ELSE [lines |-> capLines(lines), lastSeq |-> MergedSeq(n), seeded |-> FALSE, truncated |-> n > MaxShown]

-----------------------------------------------------------------------------
(* The socket *)

\* connect up to its first await: the socket there is (s, w) loses its handlers
\* and is closed.
connect(g, s, w) ==
    LET old == IF w = NoSlot THEN s ELSE [s EXCEPT ![w] = Free]
        unused == {c \in Slot : old[c] = Free}
    IN  /\ unused # {}
        /\ sock' = [old EXCEPT ![CHOOSE c \in unused : TRUE] = [at |-> "ticket", of |-> g, next |-> 0]]
        /\ wsRef' = NoSlot /\ closedByCaller' = FALSE

\* scheduleReconnect, of the connect of stage g.
scheduleReconnect(g) == timer' = IF closedByCaller THEN timer ELSE g

\* Bounds: no fault, and no new selection, after a selection that crossed.
ViewFault == viewFaults < MaxViewFaults /\ ~crossed /\ viewFaults' = viewFaults + 1

\* "guard against unmount during ticket fetch"
ClosedMeanwhile == closedByCaller

\* The ticket is there: the socket asks for the lines after the cursor.
TicketGranted(c) ==
    /\ sock[c].at = "ticket"
    /\ IF ClosedMeanwhile
         THEN sock' = [sock EXCEPT ![c] = Free] /\ UNCHANGED wsRef
         ELSE /\ sock' = [sock EXCEPT ![c].at = "connecting", ![c].next = buffer.lastSeq + 1]
              /\ wsRef' = c
    /\ UNCHANGED <<selected, closedByCaller, timer, hasOpened, backfill, buffer, emitted, evicted, crossed, gapped, viewFaults>>

\* No ticket: an error, or a session that has expired.
TicketRefused(c) ==
    /\ sock[c].at = "ticket" /\ ViewFault
    /\ sock' = [sock EXCEPT ![c] = Free]
    /\ scheduleReconnect(sock[c].of)
    /\ UNCHANGED <<selected, wsRef, closedByCaller, hasOpened, backfill, buffer, emitted, evicted, crossed, gapped>>

\* onopen: every open after the first fetches the capture again.  The server
\* replays from its ring.
SocketOpens(c) ==
    LET from == sock[c].next
        gone == evicted[sock[c].of]
    IN  /\ sock[c].at = "connecting"
        /\ sock' = [sock EXCEPT ![c].at = "open", ![c].next = IF gone >= from THEN gone + 1 ELSE from]
        /\ gapped' = (gapped \/ gone >= from)
        /\ hasOpened' = TRUE
        /\ backfill' = IF hasOpened /\ selected # NoLog THEN [apply |-> "merge", of |-> selected] ELSE backfill
        /\ UNCHANGED <<selected, wsRef, closedByCaller, timer, buffer, emitted, evicted, crossed, viewFaults>>

\* onmessage with a log frame, of whichever stage.
SocketFrame(c) ==
    LET g == sock[c].of
    IN  /\ sock[c].at = "open" /\ sock[c].next <= emitted[g]
        /\ buffer' = applyLogFrame(g, sock[c].next)
        /\ sock' = [sock EXCEPT ![c].next = @ + 1]
        /\ UNCHANGED <<selected, wsRef, closedByCaller, timer, hasOpened, backfill, emitted, evicted, crossed, gapped, viewFaults>>

\* "stream-truncated": the hook connects again at once.
ControlFrame(c) ==
    /\ sock[c].at = "open" /\ selected # NoLog /\ ViewFault
    /\ connect(selected, sock, wsRef)
    /\ UNCHANGED <<selected, timer, hasOpened, backfill, buffer, emitted, evicted, crossed, gapped>>

\* onclose: the connection was lost, or the caller had closed it.
SocketCloses(c) ==
    /\ \/ Live(c) /\ ViewFault
       \/ sock[c].at = "closing" /\ UNCHANGED viewFaults
    /\ sock' = [sock EXCEPT ![c] = Free]
    /\ wsRef' = IF wsRef = c THEN NoSlot ELSE wsRef
    /\ scheduleReconnect(sock[c].of)
    /\ UNCHANGED <<selected, closedByCaller, hasOpened, backfill, buffer, emitted, evicted, crossed, gapped>>

TimerFires ==
    /\ timer # NoLog /\ timer' = NoLog
    /\ connect(timer, sock, wsRef)
    /\ UNCHANGED <<selected, hasOpened, backfill, buffer, emitted, evicted, crossed, gapped, viewFaults>>

-----------------------------------------------------------------------------
(* The effects *)

\* disconnect, in the clean-up: the timer is cleared, the socket is closing and
\* keeps its handlers.
Disconnected == IF wsRef = NoSlot THEN sock ELSE [sock EXCEPT ![wsRef].at = "closing"]

\* The clean-up aborts the request.
Abort == NoBackfill

Crossing == crossed \/ \E c \in Slot : sock[c].at # "free"

\* Another stage is selected: clean-up, then the buffer is reset, the capture
\* requested and the new socket begun.
SelectStage(g) ==
    /\ selected # g /\ ~crossed /\ selected' = g
    /\ buffer' = EmptyBuffer /\ hasOpened' = FALSE
    /\ backfill' = [apply |-> "seed", of |-> g]
    /\ timer' = NoLog /\ crossed' = Crossing
    /\ connect(g, Disconnected, NoSlot)
    /\ UNCHANGED <<emitted, evicted, gapped, viewFaults>>

\* No stage any more, or the page is left.
Deselect ==
    /\ selected # NoLog /\ selected' = NoLog
    /\ buffer' = EmptyBuffer /\ hasOpened' = FALSE /\ backfill' = Abort
    /\ timer' = NoLog /\ sock' = Disconnected /\ wsRef' = NoSlot /\ closedByCaller' = TRUE
    /\ UNCHANGED <<emitted, evicted, crossed, gapped, viewFaults>>

\* The capture on disk lags behind the lines.
BackfillAnswers ==
    /\ backfill.apply # "none" /\ backfill' = NoBackfill
    /\ \E n \in 0..emitted[backfill.of] :
          buffer' = IF backfill.apply = "seed" THEN seedFromRest(backfill.of, n)
                    ELSE mergeReconnectBackfill(backfill.of, n)
    /\ UNCHANGED <<selected, socketVars, emitted, evicted, crossed, gapped, viewFaults>>

BackfillFails ==
    /\ backfill.apply # "none" /\ backfill' = NoBackfill
    /\ UNCHANGED <<selected, socketVars, buffer, emitted, evicted, crossed, gapped, viewFaults>>

-----------------------------------------------------------------------------
(* The server *)

StageEmits(g) ==
    /\ emitted[g] < MaxEmitted[g] /\ emitted' = [emitted EXCEPT ![g] = @ + 1]
    /\ UNCHANGED <<selected, socketVars, backfill, buffer, evicted, crossed, gapped, viewFaults>>

RingEvicts(g) ==
    /\ evicted[g] < emitted[g] /\ ViewFault /\ evicted' = [evicted EXCEPT ![g] = @ + 1]
    /\ UNCHANGED <<selected, socketVars, backfill, buffer, emitted, crossed, gapped>>

\* What the browser and the server do by themselves.
ViewerStep ==
    \/ TimerFires
    \/ \E c \in Slot : TicketGranted(c) \/ SocketOpens(c) \/ SocketFrame(c) \/ (sock[c].at = "closing" /\ SocketCloses(c))

ViewerNext(logs) ==
    \/ ViewerStep \/ BackfillAnswers \/ BackfillFails
    \/ \E c \in Slot : TicketRefused(c) \/ ControlFrame(c) \/ (Live(c) /\ SocketCloses(c))
    \/ \E g \in Log : StageEmits(g) \/ RingEvicts(g)
    \/ \E g \in logs : SelectStage(g)
    \/ Deselect

ViewerSpec == ViewerInit /\ [][ViewerNext(Log)]_viewerVars

-----------------------------------------------------------------------------
\* "Detach the old socket's handlers so its onclose is a no-op": within one
\* selection there is never more than one connection going on, by ticket request,
\* socket or timer, and it is the selected stage's: no reconnect storm, however
\* drops, truncations and refused tickets follow each other.
OneSubscription ==
    ~crossed =>
        /\ \A c, d \in Slot : sock[c].at \in {"ticket", "connecting", "open"}
                                /\ sock[d].at \in {"ticket", "connecting", "open"} => c = d
        /\ \A c \in Slot : Live(c) => timer = NoLog /\ sock[c].of = selected
        /\ timer # NoLog => timer = selected /\ \A c \in Slot : sock[c].at # "ticket"

\* "No line is lost; none is duplicated": the buffer shows the last lines up to
\* its cursor, each once and in order, in whichever order frames and captures
\* arrive.  Stated while no replay began after an eviction.
BufferExact ==
    (~crossed /\ ~gapped /\ buffer.lastSeq > 0) =>
        buffer.lines = capLines(LinesOf(selected, 0, buffer.lastSeq))

\* "The abortRef guards against a fast triple-change": no line of a stage that was
\* selected before is shown, wherever its capture is on the way.
OwnLines == ~crossed => \A i \in DOMAIN buffer.lines : buffer.lines[i].of = selected

\* "eventually recovers without a page reload": a stage that stays selected gets an
\* open socket again after every refused ticket and every lost connection.
ViewerReconnects ==
    \A g \in Log :
        (selected = g /\ ~crossed)
          ~> (selected # g \/ crossed \/ \E c \in Slot : sock[c].at = "open" /\ sock[c].of = g)

\* The viewer has one live subscription, shows every line it was sent once and in
\* order, and only lines of the stage that is selected.
ViewerInv == ViewerTypeOK /\ OneSubscription /\ BufferExact /\ OwnLines

=============================================================================
