--------------------------- MODULE WebSocketBridge --------------------------
(***************************************************************************)
(* A WebSocketClientConnection (src/rqe/remote/WebSocketClient.ts) at each  *)
(* end of a socket: the client sends requests, each with an output stream;  *)
(* the server's handler emits events into a stream of its own, which are    *)
(* posted back and received into the client's output.  The socket can drop  *)
(* at any time, and each end learns of it on its own.                       *)
(*                                                                          *)
(* Or a MessagePort (src/rqe/remote/MessagePort.ts) at each end of a port:   *)
(* open from the start, without a queue and without a close event; close()  *)
(* takes an end's listener off its port and tells nobody.                   *)
(*                                                                          *)
(* Request number n uses stream id n.  Sockets and ports are external:       *)
(* messages arrive in the order they were sent, or not at all once an end   *)
(* is closed.                                                               *)
(***************************************************************************)
EXTENDS Naturals, FiniteSets, SequencesExt, ActiveStreamSet

CONSTANTS
    MaxRequests,        \* bound: requests
    MaxItems,           \* bound: items per handler
    Unserializable      \* requests on which JSON.stringify(), or postMessage(), throws

Id == 1..MaxRequests

ASSUME BridgeAssumption ==
    MaxRequests \in Nat /\ MaxItems \in Nat /\ Unserializable \subseteq Id

VARIABLES
    transport,          \* what the two ends are connected by
    clientState,        \* readyState of the client's socket; of a port, whether it listens
    serverState,        \* the same of the server's
    issued,             \* requests sent, nextClientStreamId - 1
    outgoingQueue,      \* ids of requests made before the socket opened
    incomingStreams,    \* the client's ActiveStreamSet
    output,             \* the client's streams, by id
    outgoingStreams,    \* the server's ActiveStreamSet
    handler,            \* the server's streams as their handler sees them
    toServer, toClient, \* messages under way
    errors,             \* what receiveMessage() has thrown at the client; a port logs it
    emitted             \* history: the events each handler has emitted

clientVars == <<clientState, issued, outgoingQueue, incomingStreams, output, errors>>
serverVars == <<transport, serverState, outgoingStreams, handler, emitted>>
vars == <<clientVars, serverVars, toServer, toClient>>

Event == [t : {"item"}, n : 1..MaxItems] \cup [t : {"done", "close"}, n : {0}]
ItemsIn(events) == Cardinality({i \in DOMAIN events : events[i].t = "item"})

Init ==
    /\ \/ transport = "socket" /\ clientState = "connecting"
       \/ transport = "port" /\ clientState = "open"
    /\ serverState = "open"
    /\ issued = 0
    /\ outgoingQueue = <<>>
    /\ incomingStreams = NoStreams
    /\ output = [id \in Id |-> NewStream]
    /\ outgoingStreams = NoStreams
    /\ handler = [id \in Id |-> "none"]
    /\ toServer = <<>>
    /\ toClient = <<>>
    /\ errors = {}
    /\ emitted = [id \in Id |-> <<>>]

-----------------------------------------------------------------------------
\* The client

\* closeWithError(): the stream gets an error event and is closed.
SendRequestRefused ==
    /\ transport = "socket"
    /\ clientState = "closed"
    /\ issued < MaxRequests
    /\ issued' = issued + 1
    /\ output' = [output EXCEPT ![issued'].closedByUpstream = TRUE]
    /\ UNCHANGED <<clientState, outgoingQueue, incomingStreams, errors,
                   serverVars, toServer, toClient>>

\* ws.send(JSON.stringify(message)); an exception goes to sendRequest's caller
\* and leaves the output in the set.  A socket that is closing discards.
SendRequest ==
    /\ transport = "socket"
    /\ clientState # "closed"
    /\ issued < MaxRequests
    /\ issued' = issued + 1
    /\ incomingStreams' = AddStream(incomingStreams, issued')
    /\ outgoingQueue' = IF clientState = "connecting"
                        THEN Append(outgoingQueue, issued') ELSE outgoingQueue
    /\ toServer' = IF clientState = "open" /\ issued' \notin Unserializable
                   THEN Append(toServer, issued') ELSE toServer
    /\ UNCHANGED <<clientState, output, errors, serverVars, toClient>>

\* A port posts at once, also after close(), or throws.
PostRequest ==
    /\ transport = "port"
    /\ issued < MaxRequests
    /\ issued' = issued + 1
    /\ incomingStreams' = AddStream(incomingStreams, issued')
    /\ toServer' = IF issued' \in Unserializable THEN toServer ELSE Append(toServer, issued')
    /\ UNCHANGED <<clientState, outgoingQueue, output, errors, serverVars, toClient>>

\* Mutant: the last queued message is forgotten.
FlushedButLast(queue) == IF queue = <<>> THEN queue ELSE Front(queue)

\* The messages the open listener sends before the first that throws.
Flushed(queue) ==
    LET bad == {i \in DOMAIN queue : queue[i] \in Unserializable}
    IN  IF bad = {} THEN queue ELSE SubSeq(queue, 1, Min(bad) - 1)

ClientOpen ==
    /\ clientState = "connecting"
    /\ clientState' = "open"
    /\ toServer' = toServer \o Flushed(outgoingQueue)
    /\ outgoingQueue' = <<>>
    /\ UNCHANGED <<issued, incomingStreams, output, errors, serverVars, toClient>>

\* Mutant: streams that have had their done event are taken for closed.
StopNotDone(set) ==
    [id \in Id |-> IF id \in set.open \ set.done THEN Stopped(output[id]) ELSE output[id]]

StopAll(set) == [id \in Id |-> IF id \in set.open THEN Stopped(output[id]) ELSE output[id]]

\* close(): the close event of the socket comes later.
ClientClose ==
    /\ transport = "socket"
    /\ clientState \in {"connecting", "open"}
    /\ clientState' = "closing"
    /\ output' = StopAll(incomingStreams)
    /\ incomingStreams' = CloseAll(incomingStreams)
    /\ UNCHANGED <<issued, outgoingQueue, errors, serverVars, toServer, toClient>>

\* The close event, after close() or because the connection was lost.
ClientClosed ==
    /\ transport = "socket"
    /\ clientState # "closed"
    /\ clientState' = "closed"
    /\ outgoingQueue' = <<>>
    /\ output' = StopAll(incomingStreams)
    /\ incomingStreams' = CloseAll(incomingStreams)
    /\ UNCHANGED <<issued, errors, serverVars, toServer, toClient>>

\* MessagePort.close(): the streams of both sets stay open.
ClientClosesPort ==
    /\ transport = "port"
    /\ clientState = "open"
    /\ clientState' = "closed"
    /\ UNCHANGED <<issued, outgoingQueue, incomingStreams, output, errors, serverVars, toServer, toClient>>

\* A `receive' message: ActiveStreamSet.receiveMessage().
ClientReceive ==
    /\ clientState \in {"open", "closing"}
    /\ toClient # <<>>
    /\ LET id == Head(toClient).id
           e == Head(toClient).event
           verdict == Verdict(incomingStreams, id, e.t)
       IN  \/ /\ verdict = "received"
              /\ incomingStreams' = AfterReceive(incomingStreams, id, e.t)
              /\ output' = [output EXCEPT ![id] = Receiving(@, e)]
              /\ UNCHANGED errors
           \/ /\ verdict # "received"
              /\ errors' = IF verdict = "ignored" THEN errors
                           ELSE errors \cup {[id |-> id, error |-> verdict]}
              /\ UNCHANGED <<incomingStreams, output>>
    /\ toClient' = Tail(toClient)
    /\ UNCHANGED <<clientState, issued, outgoingQueue, serverVars, toServer>>

\* The reader of the output stops: output.closeByDownstream().
ConsumerStops(id) ==
    /\ id <= issued
    /\ ~IsClosed(output[id])
    /\ output' = [output EXCEPT ![id] = Stopped(@)]
    /\ UNCHANGED <<clientState, issued, outgoingQueue, incomingStreams, errors,
                   serverVars, toServer, toClient>>

-----------------------------------------------------------------------------
\* The server

\* A `request' message, at a socket or a port: startStream() and handleRequest().
ServerReceive ==
    /\ serverState = "open"
    /\ toServer # <<>>
    /\ outgoingStreams' = AddStream(outgoingStreams, Head(toServer))
    /\ handler' = [handler EXCEPT ![Head(toServer)] = "running"]
    /\ toServer' = Tail(toServer)
    /\ UNCHANGED <<clientVars, transport, serverState, emitted, toClient>>

\* The handler puts an event into its stream, whose receiver posts it, on a port
\* also after close().  Nothing here keeps a handler to the protocol but the
\* duplicate-close check of Stream.
HandlerEmits(id, e) ==
    /\ handler[id] = "running"
    /\ e.t = "item" => e.n = ItemsIn(emitted[id]) + 1
    /\ e.t = "done" => ~\E i \in DOMAIN emitted[id] : emitted[id][i].t = "done"
    /\ emitted' = [emitted EXCEPT ![id] = Append(@, e)]
    /\ handler' = [handler EXCEPT ![id] = IF e.t = "close" THEN "ended" ELSE @]
    /\ toClient' = Append(toClient, [id |-> id, event |-> e])
    /\ UNCHANGED <<clientVars, transport, serverState, outgoingStreams, toServer>>

\* The close event: the handlers' streams are closed by downstream.
ServerClosed ==
    /\ transport = "socket"
    /\ serverState = "open"
    /\ clientState # "connecting"
    /\ serverState' = "closed"
    /\ handler' = [id \in Id |-> IF handler[id] = "running" THEN "stopped" ELSE handler[id]]
    /\ outgoingStreams' = CloseAll(outgoingStreams)
    /\ UNCHANGED <<clientVars, transport, emitted, toServer, toClient>>

\* MessagePort.close() at the server: its handlers go on.
ServerClosesPort ==
    /\ transport = "port"
    /\ serverState = "open"
    /\ serverState' = "closed"
    /\ UNCHANGED <<clientVars, transport, outgoingStreams, handler, emitted, toServer, toClient>>

Next ==
    \/ SendRequestRefused \/ SendRequest \/ PostRequest
    \/ ClientOpen \/ ClientClose \/ ClientClosed \/ ClientClosesPort \/ ClientReceive
    \/ \E id \in Id : ConsumerStops(id)
    \/ ServerReceive \/ ServerClosed \/ ServerClosesPort
    \/ \E id \in Id, e \in Event : HandlerEmits(id, e)

Spec == Init /\ [][Next]_vars

\* A socket that is closing, or whose other end is gone, gets its close event.
ClientMustClose ==
    /\ clientState = "closing" \/ serverState = "closed"
    /\ ClientClosed

\* A connection attempt succeeds or fails.
ClientConnects == ClientOpen \/ (clientState = "connecting" /\ ClientClosed)

HandlerCloses(id) == HandlerEmits(id, [t |-> "close", n |-> 0])

\* Messages that can arrive do, and every handler closes its stream in the end.
Fairness ==
    /\ WF_vars(ClientConnects) /\ WF_vars(ClientMustClose)
    /\ WF_vars(ClientReceive) /\ WF_vars(ServerReceive)
    /\ \A id \in Id : WF_vars(HandlerCloses(id))

FairSpec == Spec /\ Fairness

-----------------------------------------------------------------------------
\* Properties

Outputs == [closedByUpstream : BOOLEAN, closedByDownstream : BOOLEAN, got : Seq(Event)]

TypeOK ==
    /\ transport \in {"socket", "port"}
    /\ clientState \in {"connecting", "open", "closing", "closed"}
    /\ serverState \in {"open", "closed"}
    /\ issued \in 0..MaxRequests
    /\ outgoingQueue \in Seq(Id)
    /\ incomingStreams \in StreamSets(Id)
    /\ output \in [Id -> Outputs]
    /\ outgoingStreams \in StreamSets(Id)
    /\ handler \in [Id -> {"none", "running", "ended", "stopped"}]
    /\ toServer \in Seq(Id)
    /\ toClient \in Seq([id : Id, event : Event])
    /\ errors \subseteq [id : Id, error : {"no stream with id", "validation failed"}]
    /\ emitted \in [Id -> Seq(Event)]

\* What the protocol leaves of a handler's events: after done only the close,
\* which is the last event of a handler.
Legal(events) ==
    LET done == {i \in DOMAIN events : events[i].t = "done"}
        close == IF Last(events).t = "close" THEN <<Last(events)>> ELSE <<>>
    IN  IF done = {} THEN events ELSE SubSeq(events, 1, Min(done)) \o close

\* The output of a request gets the events its own handler emitted, in their
\* order and without gaps or repeats, however requests interleave, wherever the
\* connection drops and whichever end stops listening to its port; a handler that goes on after done is not passed on.
OutputFollowsHandler ==
    \A id \in Id : IsPrefix(output[id].got, Legal(emitted[id]))

\* The client's listener meets `no stream with id' only for messages that
\* overlap a socket's close(), never on a port, and refuses an event only when the handler sent one
\* after its done event.
ErrorsExplained ==
    \A err \in errors :
        IF err.error = "no stream with id"
        THEN transport = "socket" /\ clientState \in {"closing", "closed"}
        ELSE Legal(emitted[err.id]) # emitted[err.id]

\* Once a socket has closed no output is left open, whether its request was
\* queued, under way, being answered, or made after close() was called.
NoOutputOpenAfterClose ==
    transport = "socket" /\ clientState = "closed" => \A id \in 1..issued : IsClosed(output[id])

\* The output of every request is closed in the end, by the handler's close
\* event or by the loss of the socket.  A socket's request waits for ever if it,
\* or one queued before it, could not be serialized; a port's if it could not be
\* posted itself or an end of the port was closed.
RequestSettles ==
    \A id \in Id :
        id <= issued ~>
            \/ IsClosed(output[id])
            \/ /\ transport = "socket"
               /\ \E bad \in Unserializable : bad <= id
            \/ /\ transport = "port"
               /\ id \in Unserializable \/ "closed" \in {clientState, serverState}

=============================================================================
