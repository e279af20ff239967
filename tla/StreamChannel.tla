--------------------------- MODULE StreamChannel ----------------------------
(***************************************************************************)
(* A Stream used the way StreamProtocolValidator asks for: the producer     *)
(* sends nothing after its close event and is not driven by the receiver it *)
(* feeds; the receiver may stop the stream from inside its callback, by     *)
(* closeByDownstream() or by throwing BackpressureStop, and it may fail.    *)
(* Such a stream (Disciplined) implements EventChannel.                     *)
(***************************************************************************)
EXTENDS Stream

Disciplined == Reentrant \subseteq {"closeByDownstream"} /\ AfterClose = FALSE

\* Without re-entrant receive() and sendTo() calls at most one call is waiting.
Rest == IF stack = <<>> THEN <<>> ELSE Top.rest

Channel == INSTANCE EventChannel WITH
    sent <- accepted,
    pending <- IF closedByDownstream THEN <<>> ELSE Rest \o backlog,
    got <- HandedEvents,
    attached <- receiver # NoReceiver,
    stopped <- closedByDownstream

\* Every step of the stream is a step of the channel: events come out in the
\* order they went in, at most once, nothing after the consumer has stopped, and
\* with a receiver attached whatever waits is handed over in the end.
ImplementsChannel == Channel!CSpec

\* The events of a stream are never split between two receivers, even though a
\* stream forgets its receiver when it is closed and then lets sendTo() set another.
OneReceiver ==
    \A i, j \in DOMAIN handed :
        {handed[i].to, handed[j].to} \subseteq Receiver => handed[i].to = handed[j].to

=============================================================================
