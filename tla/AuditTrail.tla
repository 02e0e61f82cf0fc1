----------------------------- MODULE AuditTrail -----------------------------
(***************************************************************************)
(* The audit trail: the middleware that emits an event for every mutating  *)
(* request (server/middleware_audit.go), the sinks that write them in the  *)
(* background (audit/audit.go: storeSink; the file sink differs only in    *)
(* the check before the send), the store and its retention sweep.          *)
(* Requests, the writer, the sweep and Close are concurrent.               *)
(***************************************************************************)
EXTENDS Integers, Sequences, SequencesExt, FiniteSets

CONSTANTS
    Mutation,      \* mutating requests; each emits one event
    Buffer,        \* capacity of the sink's channel
    RowLimit,      \* rows the memory store keeps
    Horizon        \* rows the retention cutoff leaves, at least

ASSUME AuditAssumption ==
    IsFiniteSet(Mutation) /\ Buffer \in Nat \ {0} /\ RowLimit \in Nat \ {0} /\ Horizon \in Nat

VARIABLES
    req,           \* program point of each request
    ch,            \* the channel
    chClosed,      \* close(ch) has run
    closed,        \* the flag Close sets first
    closer,        \* program point of Close
    dropped,       \* the counter of dropped events
    trail,         \* the rows, oldest first
    writing,       \* the event the writer holds, as a sequence of at most one
    lost,          \* events whose insert failed
    purged,        \* events the sweep or the ring removed
    stopped        \* the requests whose Emit met the closing sink: refused, or panicked

auditVars == <<req, ch, chClosed, closed, closer, dropped, trail, writing, lost, purged, stopped>>

AuditTypeOK ==
    /\ req \in [Mutation -> {"idle", "served", "checked", "emitted", "panicked"}]
    /\ ch \in Seq(Mutation) /\ Len(ch) <= Buffer
    /\ chClosed \in BOOLEAN /\ closed \in BOOLEAN
    /\ closer \in {"open", "flagged", "draining", "closed"}
    /\ dropped \in Nat
    /\ trail \in Seq(Mutation) /\ Len(trail) <= RowLimit
    /\ writing \in Seq(Mutation) /\ Len(writing) <= 1
    /\ lost \cup purged \cup stopped \subseteq Mutation

AuditInit ==
    /\ req = [m \in Mutation |-> "idle"]
    /\ ch = <<>> /\ chClosed = FALSE /\ closed = FALSE /\ closer = "open"
    /\ dropped = 0 /\ trail = <<>> /\ writing = <<>>
    /\ lost = {} /\ purged = {} /\ stopped = {}

-----------------------------------------------------------------------------
\* auditMiddleware: the handler runs first.
ServeMutation(m) ==
    /\ req[m] = "idle"
    /\ req' = [req EXCEPT ![m] = "served"]
    /\ UNCHANGED <<ch, chClosed, closed, closer, dropped, trail, writing, lost, purged, stopped>>

\* Emit looks at the flag under the mutex,
EmitCheck(m) ==
    /\ req[m] = "served"
    /\ req' = [req EXCEPT ![m] = IF closed THEN "emitted" ELSE "checked"]
    /\ stopped' = IF closed THEN stopped \cup {m} ELSE stopped
    /\ UNCHANGED <<ch, chClosed, closed, closer, dropped, trail, writing, lost, purged>>

\* ... and sends after the unlock: a channel closed in between panics (gin's
\* recovery catches it, the event is lost and in no counter), a full one drops
\* and counts.
EmitSend(m) ==
    /\ req[m] = "checked"
    /\ req' = [req EXCEPT ![m] = IF chClosed THEN "panicked" ELSE "emitted"]
    /\ \/ chClosed /\ stopped' = stopped \cup {m} /\ UNCHANGED <<ch, dropped>>
       \/ ~chClosed /\ Len(ch) < Buffer /\ ch' = Append(ch, m) /\ UNCHANGED <<dropped, stopped>>
       \/ ~chClosed /\ Len(ch) >= Buffer /\ dropped' = dropped + 1 /\ UNCHANGED <<ch, stopped>>
    /\ UNCHANGED <<chClosed, closed, closer, trail, writing, lost, purged>>

\* The writer's range over the channel,
RunReceive ==
    /\ writing = <<>> /\ ch # <<>>
    /\ writing' = <<Head(ch)>> /\ ch' = Tail(ch)
    /\ UNCHANGED <<req, chClosed, closed, closer, dropped, trail, lost, purged, stopped>>

\* Insert: the memory store keeps the newest RowLimit rows.
Insert(rows, e) ==
    LET grown == Append(rows, e)
    IN  IF Len(grown) > RowLimit THEN Tail(grown) ELSE grown

\* ... and WriteAuditEvent, whose failure is logged.
RunWrite ==
    /\ writing # <<>>
    /\ \/ /\ trail' = Insert(trail, Head(writing)) /\ UNCHANGED lost
          /\ purged' = purged \cup (ToSet(trail) \ ToSet(trail'))
       \/ lost' = lost \cup {Head(writing)} /\ UNCHANGED <<trail, purged>>
    /\ writing' = <<>>
    /\ UNCHANGED <<req, ch, chClosed, closed, closer, dropped, stopped>>

\* DeleteOlderThan of the retention sweep: the oldest rows go.
DeleteOlderThan ==
    /\ Len(trail) > Horizon
    /\ trail' = SubSeq(trail, Len(trail) - Horizon + 1, Len(trail))
    /\ purged' = purged \cup (ToSet(trail) \ ToSet(trail'))
    /\ UNCHANGED <<req, ch, chClosed, closed, closer, dropped, writing, lost, stopped>>

-----------------------------------------------------------------------------
\* Close: the flag, close(ch), then it waits for the writer.
CloseFlag ==
    /\ closer = "open"
    /\ closed' = TRUE /\ closer' = "flagged"
    /\ UNCHANGED <<req, ch, chClosed, dropped, trail, writing, lost, purged, stopped>>

CloseChannel ==
    /\ closer = "flagged"
    /\ chClosed' = TRUE /\ closer' = "draining"
    /\ UNCHANGED <<req, ch, closed, dropped, trail, writing, lost, purged, stopped>>

\* Mutant: Close does not wait for the channel to drain.
CloseDoneEarly ==
    /\ closer = "draining" /\ writing = <<>>
    /\ closer' = "closed"
    /\ UNCHANGED <<req, ch, chClosed, closed, dropped, trail, writing, lost, purged, stopped>>

CloseDone ==
    /\ closer = "draining" /\ writing = <<>> /\ ch = <<>>
    /\ closer' = "closed"
    /\ UNCHANGED <<req, ch, chClosed, closed, dropped, trail, writing, lost, purged, stopped>>

AuditNext ==
    \/ \E m \in Mutation : ServeMutation(m) \/ EmitCheck(m) \/ EmitSend(m)
    \/ RunReceive \/ RunWrite \/ DeleteOlderThan
    \/ CloseFlag \/ CloseChannel \/ CloseDone

AuditSpec == AuditInit /\ [][AuditNext]_auditVars

-----------------------------------------------------------------------------
\* Every event whose Emit ended, by returning or by the panic of its send, is
\* accounted for: queued, being written, in the trail, failed, purged, counted as
\* dropped, or lost to the closing sink, which happens to none before Close was
\* called; and when Close has returned nothing is left in the queue.
EventsAccounted ==
    /\ Cardinality({m \in Mutation : req[m] \in {"emitted", "panicked"}}) =
          Len(ch) + Len(writing) + Cardinality(ToSet(trail) \cup lost \cup purged \cup stopped) + dropped
    /\ stopped # {} => closed
    /\ closer = "closed" => ch = <<>> /\ writing = <<>>

\* Retention and the ring remove the oldest rows only: no row that was removed
\* was written after one that is kept.  The rows are in the order in which their
\* events were sent.
NewestKept ==
    [][\A i \in 1..Len(trail) : trail[i] \in ToSet(trail') =>
          \A j \in i..Len(trail) : trail[j] \in ToSet(trail')]_auditVars

\* Until Close no event disappears uncounted between Emit and the worker, Close
\* loses none that was queued, and what retention and the ring remove is older
\* than what they keep.
AuditCorrect == [](AuditTypeOK /\ EventsAccounted) /\ NewestKept

\* What the comment of Sink says: "Implementations must be safe for concurrent
\* use; they are called from request-handling goroutines".  Violated: the Close
\* of a shutdown whose drain timed out, between the check and the send of a
\* request that still runs, makes its Emit panic on the closed channel.
SinkSafe == \A m \in Mutation : req[m] # "panicked"

=============================================================================
