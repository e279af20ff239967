----------------------------- MODULE HttpExchange ---------------------------
(***************************************************************************)
(* An HttpClient (src/rqe/remote/HttpClient.ts) and the HttpServer it posts  *)
(* to (src/rqe/node/server/HttpServer.ts).  Requests made within the flush  *)
(* delay form a batch: one post, whose response is the events of all its    *)
(* handlers, as JSON texts one after another.  The network cuts the          *)
(* response into chunks anywhere, so a text is two halves here, and the      *)
(* client's JsonMessageDecoder puts them together again.                     *)
(*                                                                          *)
(* fetch() and the response are external: a post may fail before or after   *)
(* the server got it, and a response may break off.  Handlers keep to the    *)
(* protocol.  Request number n has id n.                                     *)
(***************************************************************************)
EXTENDS Naturals, FiniteSets, SequencesExt, SeqFilter, ActiveStreamSet

CONSTANTS
    MaxRequests,        \* bound: requests
    MaxEvents,          \* bound: events per handler, the close event included
    Bodies              \* kinds of response body: "reader" (browser), "readable" (Node)

Id == 1..MaxRequests

ASSUME HttpAssumption ==
    MaxRequests \in Nat /\ MaxEvents \in Nat \ {0} /\ Bodies \subseteq {"reader", "readable"}

VARIABLES
    issued,             \* requests made, nextRequestId - 1
    queuedMessages,     \* their ids, until the flush
    flushTimer,         \* set
    streams,            \* the client's ActiveStreamSet
    output,             \* the streams of the requests
    batches,            \* the posts made
    handler,            \* the server's streams as their handler sees them
    emitted             \* history: the events each handler has emitted

clientVars == <<issued, queuedMessages, flushTimer>>
vars == <<clientVars, streams, output, batches, handler, emitted>>

Close == [t |-> "close", n |-> 0]
Error == [t |-> "error", n |-> 0]
Event == [t : {"item"}, n : 1..(MaxEvents - 1)] \cup {[t |-> "done", n |-> 0], Close}
Half == [id : Id, event : Event, part : {1, 2}]
Text(id, e) == <<[id |-> id, event |-> e, part |-> 1], [id |-> id, event |-> e, part |-> 2]>>

\* fetch     the post as the client sees it
\* body      the kind of response body, once there is a response
\* arrived   the server has the post
\* handled   how many of its requests handleOneMessage() was called for
\* openRequests, ended   of handlePostedRequest(); ended is closeResponse()
\* wire      what the server wrote and the client has not read
\* buffer    of the JsonMessageDecoder
NewBatch(ids) ==
    [ids |-> ids, fetch |-> "waiting", body |-> "none", arrived |-> FALSE, handled |-> 0,
     openRequests |-> {}, ended |-> FALSE, wire |-> <<>>, buffer |-> <<>>]

Init ==
    /\ issued = 0
    /\ queuedMessages = <<>>
    /\ flushTimer = FALSE
    /\ streams = NoStreams
    /\ output = [id \in Id |-> NewStream]
    /\ batches = <<>>
    /\ handler = [id \in Id |-> "none"]
    /\ emitted = [id \in Id |-> <<>>]

-----------------------------------------------------------------------------
\* ActiveStreamSet.receiveMessage() on the client's streams for a sequence of
\* messages, which end with the close event of their stream; what follows it is
\* ignored, and so are messages for a stream closed before.  Every id is open or
\* closed here and handlers obey the validator, so it does not throw.

Closes(e) == e.t = "close"

\* The events in messages for request `id'.
EventsFor(id, messages) ==
    LET mine == Kept(messages, {m \in ToSet(messages) : m.id = id})
    IN  [i \in DOMAIN mine |-> mine[i].event]

\* Those that reach its stream.
Received(id, messages) ==
    LET events == EventsFor(id, messages)
        end == SelectInSeq(events, Closes)
    IN  CASE id \notin streams.open -> <<>>
          [] id \in streams.open /\ end = 0 -> events
          [] OTHER -> SubSeq(events, 1, end)

ReceiveAll(messages) ==
    \E received \in {[id \in Id |-> Received(id, messages)]} :
    \E closers \in {{id \in Id : Close \in ToSet(received[id])}} :
        /\ streams' =
              [open   |-> streams.open \ closers,
               done   |-> {id \in streams.open \ closers :
                              \/ id \in streams.done
                              \/ \E e \in ToSet(received[id]) : e.t = "done"},
               closed |-> streams.closed \cup closers]
        /\ output' = [id \in Id |->
              IF output[id].closedByDownstream THEN output[id]
              ELSE [output[id] EXCEPT !.got = @ \o received[id],
                                      !.closedByUpstream = @ \/ id \in closers]]

\* The same event for each of the requests.
ToAll(ids, e) == [i \in DOMAIN ids |-> [id |-> ids[i], event |-> e]]
ErrorAndClose(ids) == ToAll(ids, Error) \o ToAll(ids, Close)

\* Mutant: onResponseStreamDone() leaves the streams alone.
NoneStillOpen(ids) == <<>>

\* The close events onResponseStreamDone() adds for streams that are still open;
\* for the others receiveMessage() ignores it.
StillOpen(ids) == ToAll(ids, Close)

-----------------------------------------------------------------------------
\* JsonMessageDecoder and splitJson()

Complete(text, n) ==
    \A i \in 1..n : /\ text[2 * i - 1].part = 1
                    /\ text[2 * i] = [text[2 * i - 1] EXCEPT !.part = 2]

\* The number of whole texts at the start of `text', and what follows them.
Whole(text) == Max({n \in 0..(Len(text) \div 2) : Complete(text, n)})

\* Mutant: itemStart stays at the last whole text.
RemainingWithLast(text) ==
    IF Whole(text) = 0 THEN text ELSE SubSeq(text, 2 * Whole(text) - 1, Len(text))

Remaining(text) == SubSeq(text, 2 * Whole(text) + 1, Len(text))

\* What `this.buffer' may be after receive(): the unfinished rest; but nothing
\* clears it when nothing remains, so it keeps what began the text just finished.
\* That stale prefix in front of a later text makes one that splitJson() finds no
\* end of, or that it or JSON.parse() refuses.
Buffers(text, buffer) ==
    LET rest == Remaining(text)
    IN  CASE rest = <<>>                      -> {buffer}
          [] Len(rest) = 1 /\ rest[1].part = 1 -> {rest}
          [] OTHER                            -> {rest, buffer}

Messages(text) == [i \in 1..Whole(text) |-> [id |-> text[2 * i].id, event |-> text[2 * i].event]]

\* receiveTextChunk() of batch b, followed by the messages in `more'.  (The text and
\* its messages are bound to variables so that TLC computes them once.)
ReceiveChunk(b, chunk, more) ==
    \E text \in {batches[b].buffer \o chunk} :
    \E messages \in {Messages(text) \o more} :
    \E buffer \in Buffers(text, batches[b].buffer) :
        /\ ReceiveAll(messages)
        /\ batches' = [batches EXCEPT
              ![b].buffer = buffer,
              ![b].wire = SubSeq(@, Len(chunk) + 1, Len(@)),
              ![b].fetch = IF more # <<>> /\ batches[b].ended THEN "ended" ELSE @]

-----------------------------------------------------------------------------
\* The client

SendRequest ==
    /\ issued < MaxRequests
    /\ issued' = issued + 1
    /\ queuedMessages' = Append(queuedMessages, issued')
    /\ flushTimer' = TRUE
    /\ UNCHANGED <<streams, output, batches, handler, emitted>>

\* Mutant: the queue is not replaced.
KeepQueuedMessages == queuedMessages

\* What _takeQueuedMessages() leaves.
TakeQueuedMessages == <<>>

\* The timer: flushPendingRequests() up to the fetch.
Flush ==
    /\ flushTimer
    /\ flushTimer' = FALSE
    /\ queuedMessages' = TakeQueuedMessages
    /\ batches' = Append(batches, NewBatch(queuedMessages))
    /\ streams' = [streams EXCEPT !.open = @ \cup ToSet(queuedMessages)]
    /\ UNCHANGED <<issued, output, handler, emitted>>

\* fetch() throws, or the status is not 200.
FetchFails(b) ==
    /\ batches[b].fetch = "waiting"
    /\ batches' = [batches EXCEPT ![b].fetch = "failed"]
    /\ ReceiveAll(ErrorAndClose(batches[b].ids))
    /\ UNCHANGED <<clientVars, handler, emitted>>

FetchResolves(b) ==
    /\ batches[b].fetch = "waiting"
    /\ batches[b].wire # <<>> \/ batches[b].ended
    /\ \E body \in Bodies :
          batches' = [batches EXCEPT ![b].fetch = "responding", ![b].body = body]
    /\ UNCHANGED <<clientVars, streams, output, handler, emitted>>

Responding(b, body) == batches[b].fetch = "responding" /\ batches[b].body = body

\* reader.read() resolves with a chunk.
ReadChunk(b) ==
    /\ Responding(b, "reader")
    /\ \E n \in 1..Len(batches[b].wire) : ReceiveChunk(b, SubSeq(batches[b].wire, 1, n), <<>>)
    /\ UNCHANGED <<clientVars, handler, emitted>>

\* reader.read() resolves with done.
ReadDone(b) ==
    /\ Responding(b, "reader")
    /\ batches[b].wire = <<>>
    /\ batches[b].ended
    /\ batches' = [batches EXCEPT ![b].fetch = "ended"]
    /\ ReceiveAll(StillOpen(batches[b].ids))
    /\ UNCHANGED <<clientVars, handler, emitted>>

\* The response breaks off: reader.read() rejects and nobody catches it, or the
\* body emits an error nobody listens for.
ReadFails(b) ==
    /\ batches[b].fetch = "responding"
    /\ batches' = [batches EXCEPT ![b].fetch = "broken"]
    /\ UNCHANGED <<clientVars, streams, output, handler, emitted>>

\* A `readable' event: what is there is read, and a read() without data taken for
\* the end of the response.
Readable(b) ==
    /\ Responding(b, "readable")
    /\ batches[b].wire # <<>> \/ batches[b].ended
    /\ ReceiveChunk(b, batches[b].wire, StillOpen(batches[b].ids))
    /\ UNCHANGED <<clientVars, handler, emitted>>

\* The reader of an output stops.
ConsumerStops(id) ==
    /\ id <= issued
    /\ ~IsClosed(output[id])
    /\ output' = [output EXCEPT ![id] = Stopped(@)]
    /\ UNCHANGED <<clientVars, streams, batches, handler, emitted>>

-----------------------------------------------------------------------------
\* The server

\* Mutant: openRequests starts with one request.
OpenedOne(b) == {Head(batches[b].ids)}

\* openRequests once the first loop has set it up.
OpenedFirst(b) == ToSet(batches[b].ids)

\* The post arrives: handlePostedRequest() up to its second loop.
Arrive(b) ==
    /\ ~batches[b].arrived
    /\ batches' = [batches EXCEPT ![b].arrived = TRUE, ![b].openRequests = OpenedFirst(b)]
    /\ UNCHANGED <<clientVars, streams, output, handler, emitted>>

\* The next turn of that loop; a handler may answer before the one after it.
HandleOne(b) ==
    LET id == batches[b].ids[batches[b].handled + 1]
    IN  /\ batches[b].arrived
        /\ batches[b].handled < Len(batches[b].ids)
        /\ batches' = [batches EXCEPT ![b].handled = @ + 1]
        /\ handler' = [handler EXCEPT ![id] = "running"]
        /\ UNCHANGED <<clientVars, streams, output, emitted>>

HasEmitted(id, t) == \E i \in DOMAIN emitted[id] : emitted[id][i].t = t

\* An event goes out, and afterStreamDone() follows a close event.
HandlerEmits(b, id, e) ==
    LET open == batches[b].openRequests \ {id}
    IN  /\ id \in ToSet(batches[b].ids)
        /\ handler[id] = "running"
        /\ (HasEmitted(id, "done") \/ Len(emitted[id]) = MaxEvents - 1) => e = Close
        /\ e.t = "item" => e.n = Len(emitted[id]) + 1
        /\ emitted' = [emitted EXCEPT ![id] = Append(@, e)]
        /\ handler' = [handler EXCEPT ![id] = IF e = Close THEN "ended" ELSE @]
        /\ batches' = [batches EXCEPT
                          ![b].wire = @ \o Text(id, e),
                          ![b].openRequests = IF e = Close THEN open ELSE @,
                          ![b].ended = @ \/ (e = Close /\ open = {})]
        /\ UNCHANGED <<clientVars, streams, output>>

Next ==
    \/ SendRequest \/ Flush
    \/ \E id \in Id : ConsumerStops(id)
    \/ \E b \in DOMAIN batches :
         \/ FetchFails(b) \/ FetchResolves(b)
         \/ ReadChunk(b) \/ ReadDone(b) \/ ReadFails(b) \/ Readable(b)
         \/ Arrive(b) \/ HandleOne(b)
         \/ \E id \in Id, e \in Event : HandlerEmits(b, id, e)

Spec == Init /\ [][Next]_vars

HandlerCloses(id) == \E b \in DOMAIN batches : HandlerEmits(b, id, Close)

\* A step of the post the network owes the client.
Progress(b) ==
    /\ b \in DOMAIN batches
    /\ \/ Arrive(b) \/ HandleOne(b)
       \/ FetchResolves(b) \/ ReadChunk(b) \/ ReadDone(b) \/ Readable(b)

\* The timer fires, what is written is read, and every handler closes its stream.
Fairness ==
    /\ WF_vars(Flush)
    /\ \A b \in Id : WF_vars(Progress(b))
    /\ \A id \in Id : WF_vars(HandlerCloses(id))

FairSpec == Spec /\ Fairness

-----------------------------------------------------------------------------
\* Properties

Outputs == [closedByUpstream : BOOLEAN, closedByDownstream : BOOLEAN, got : Seq(Event \cup {Error})]
Batch == [ids : Seq(Id), fetch : {"waiting", "failed", "responding", "ended", "broken"},
          body : {"none", "reader", "readable"}, arrived : BOOLEAN, handled : Nat,
          openRequests : SUBSET Id, ended : BOOLEAN, wire : Seq(Half), buffer : Seq(Half)]

TypeOK ==
    /\ issued \in 0..MaxRequests
    /\ queuedMessages \in Seq(Id)
    /\ flushTimer = (queuedMessages # <<>>)
    /\ streams \in StreamSets(Id)
    /\ output \in [Id -> Outputs]
    /\ batches \in Seq(Batch)
    /\ handler \in [Id -> {"none", "running", "ended"}]
    /\ emitted \in [Id -> Seq(Event)]

\* The output of a request gets what its own handler emitted, from the start and
\* without gaps, or an error in place of all of it, or is closed early: wherever
\* the chunks are cut, whichever batch it went in, whoever else answers.
OutputFollowsHandler ==
    \A id \in Id :
        LET got == output[id].got
        IN  \/ IsPrefix(got, emitted[id])
            \/ got # <<>> /\ Last(got) = Close /\ IsPrefix(Front(got), emitted[id])
            \/ IsPrefix(got, <<Error, Close>>)

\* The response of a post ends when its handlers have all closed their streams,
\* not before, even if one has before the next is called.
ResponseEndsLast ==
    \A b \in DOMAIN batches :
        batches[b].ended <=> \A id \in ToSet(batches[b].ids) : handler[id] = "ended"

\* Every output is closed in the end, also when the decoder has lost its place,
\* unless the response broke off.
RequestSettles ==
    \A id \in Id :
        id <= issued ~> \/ IsClosed(output[id])
                        \/ \E b \in DOMAIN batches :
                              id \in ToSet(batches[b].ids) /\ batches[b].fetch = "broken"

\* HttpServer.ts: "stream the results back as they are completed".  When a
\* response has been read to its end, outputs nobody stopped have it all.
OutputComplete ==
    \A b \in DOMAIN batches : \A id \in ToSet(batches[b].ids) :
        batches[b].fetch = "ended" /\ ~output[id].closedByDownstream
            => output[id].got = emitted[id]

=============================================================================
