--------------------------- MODULE ActiveStreamSet --------------------------
(***************************************************************************)
(* The set of open streams at one end of a connection                       *)
(* (src/rqe/remote/ActiveStreamSet.ts), with the StreamProtocolValidator    *)
(* each stream gets when it is added.  A set is a record:                   *)
(*   open    the ids in `streams' (and in `validators')                     *)
(*   done    those whose validator has seen a done event                    *)
(*   closed  closedStreamIds                                                *)
(* A validator never reaches hasSentClose: receiveMessage() deletes it on   *)
(* the close event it lets through.  The streams are records of their own.  *)
(***************************************************************************)
LOCAL INSTANCE Naturals
LOCAL INSTANCE Sequences

\* A Stream with a reader, from the outside (see StreamChannel): its flags and
\* what the reader got.
NewStream == [closedByUpstream |-> FALSE, closedByDownstream |-> FALSE, got |-> <<>>]
IsClosed(s) == s.closedByUpstream \/ s.closedByDownstream
Stopped(s) == [s EXCEPT !.closedByDownstream = TRUE]

\* Mutant: only the type of an event arrives.
ReceivingType(s, e) == [s EXCEPT !.got = Append(@, [e EXCEPT !.n = 0])]

Receiving(s, e) ==
    IF s.closedByDownstream THEN s
    ELSE [s EXCEPT !.got = Append(@, e), !.closedByUpstream = @ \/ e.t = "close"]

NoStreams == [open |-> {}, done |-> {}, closed |-> {}]

StreamSets(Id) == [open : SUBSET Id, done : SUBSET Id, closed : SUBSET Id]

\* startStream() and addStream(); both throw when the id is in use.
AddStream(set, id) == [set EXCEPT !.open = @ \cup {id}, !.done = @ \ {id}]

Delete(set, id) == [set EXCEPT !.open = @ \ {id}, !.done = @ \ {id}]

\* Mutant: the validator is not consulted.
CheckNothing(set, id, t) == TRUE

\* StreamProtocolValidator.check() lets the event through.
CheckPasses(set, id, t) == id \in set.done => t = "close"

\* What becomes of a message for stream `id'.
Verdict(set, id, t) ==
    IF id \notin set.open
    THEN IF id \in set.closed THEN "ignored" ELSE "no stream with id"
    ELSE IF CheckPasses(set, id, t) THEN "received" ELSE "validation failed"

\* Mutant: a stream is deleted on its done event, and its id not remembered.
DeleteOnDone(set, id, t) ==
    CASE t = "close" -> [Delete(set, id) EXCEPT !.closed = @ \cup {id}]
      [] t = "done"  -> Delete(set, id)
      [] OTHER       -> set

\* The set once receiveMessage() has passed the event on.  The stream may throw
\* BackpressureStop; the catch tests a field that class does not have, so the
\* stream stays in the set like one that threw anything else.
AfterReceive(set, id, t) ==
    CASE t = "close" -> [Delete(set, id) EXCEPT !.closed = @ \cup {id}]
      [] t = "done"  -> [set EXCEPT !.done = @ \cup {id}]
      [] OTHER       -> set

\* closeAll() closes the streams by downstream and does not add to closedStreamIds.
CloseAll(set) == [set EXCEPT !.open = {}, !.done = {}]

=============================================================================
