----------------------- MODULE WebSocketBridge_proofs -----------------------
(***************************************************************************)
(* Theorems about WebSocketBridge, for any number of requests and items and *)
(* for sockets and ports alike.                                             *)
(***************************************************************************)
EXTENDS WebSocketBridge, NumberLemmas

Rising(s) == \A i, j \in DOMAIN s : i < j => s[i] < s[j]

Pending(s, n, h) ==
    /\ Rising(s)
    /\ \A i \in DOMAIN s : s[i] <= n /\ h[s[i]] = "none"

\* A request is on its way to the server once, and before its handler runs.
RequestsInv ==
    /\ clientState = "connecting" => transport = "socket"
    /\ outgoingQueue # <<>> => transport = "socket" /\ clientState \in {"connecting", "closing"}
    /\ clientState = "connecting" \/ outgoingQueue # <<>> => toServer = <<>>
    /\ Pending(outgoingQueue, issued, handler) /\ Pending(toServer, issued, handler)
    /\ \A id \in Id : handler[id] # "none" => id <= issued

\* The events of a handler in state `h': one done at most, and nothing after the close.
EndsOnce(events, h) ==
    /\ h = "none" => events = <<>>
    /\ \A i \in DOMAIN events : events[i].t = "close" => i = Len(events) /\ h = "ended"
    /\ \A i, j \in DOMAIN events : events[i].t = "done" /\ events[j].t = "done" => i = j

HandlersInv == \A id \in Id : EndsOnce(emitted[id], handler[id])

\* The client has not called close() on a socket, nor lost it.
Listening == transport = "port" \/ clientState \in {"connecting", "open"}

\* The output of a request is in the client's set until it is closed.
StreamsInv ==
    /\ \A id \in Id : id > issued => id \notin incomingStreams.open /\ output[id] = NewStream
    /\ \A id \in 1..issued : id \in incomingStreams.open \/ IsClosed(output[id])
    /\ Listening => \A id \in 1..issued : id \in incomingStreams.open \cup incomingStreams.closed
    /\ NoOutputOpenAfterClose

Message == [id : Id, event : Event]

\* c[id] events of handler `id' have arrived at the client; message k has the one at pos[k].
Posted(c, pos, messages, events) ==
    /\ \A id \in Id : c[id] <= Len(events[id])
    /\ \A k \in DOMAIN messages :
          /\ c[messages[k].id] < pos[k]
          /\ pos[k] <= Len(events[messages[k].id])
          /\ messages[k].event = events[messages[k].id][pos[k]]
    /\ \A j, k \in DOMAIN messages :
          j < k /\ messages[j].id = messages[k].id => pos[j] < pos[k]
    /\ \A id \in Id : \A n \in 1..Len(events[id]) :
          c[id] < n => \E k \in DOMAIN messages : messages[k].id = id /\ pos[k] = n

\* The first events of `events', up to its done event at most.
UpToDone(got, events) ==
    /\ Len(got) <= Len(events)
    /\ \A i \in 1..Len(got) : got[i] = events[i]
    /\ \A i \in 1..Len(got) : i < Len(got) => events[i].t # "done"

\* The events of a handler up to done and then its close, which may be further on.
ClosedEarly(got, events) ==
    /\ Len(got) >= 2
    /\ \A i \in 1..Len(got) - 1 : got[i] = events[i]
    /\ Len(got) <= Len(events)
    /\ \A i \in 1..Len(got) - 1 : events[i].t = "done" <=> i = Len(got) - 1
    /\ events[Len(events)].t = "close"
    /\ got[Len(got)] = events[Len(events)]

\* The output `s' of request `id', and the client's set, when the first n of the events
\* of its handler have arrived.
Follows(s, id, set, events, n) ==
    /\ UpToDone(s.got, events) \/ ClosedEarly(s.got, events)
    /\ id \in set.open =>
          /\ \A i \in 1..n : events[i].t # "close"
          /\ id \in set.done <=> \E i \in 1..n : events[i].t = "done"
          /\ ~s.closedByDownstream =>
                /\ UpToDone(s.got, events)
                /\ id \in set.done => Len(s.got) \in 1..n /\ events[Len(s.got)].t = "done"
                /\ id \notin set.done => Len(s.got) = n

FlowInv ==
    \E c \in [Id -> Nat], pos \in [DOMAIN toClient -> Nat] :
       /\ Posted(c, pos, toClient, emitted)
       /\ \A id \in Id : Follows(output[id], id, incomingStreams, emitted[id], c[id])

\* A handler went on after its done event.
WentOn(events) ==
    \E d, i \in DOMAIN events : d < i /\ events[d].t = "done" /\ events[i].t # "close"

ErrorsInv ==
    \A err \in errors :
        IF err.error = "no stream with id"
        THEN transport = "socket" /\ clientState \in {"closing", "closed"}
        ELSE WentOn(emitted[err.id])

BridgeInv ==
    /\ RequestsInv
    /\ HandlersInv
    /\ StreamsInv
    /\ ErrorsInv
    /\ FlowInv

-----------------------------------------------------------------------------
\* What the operations of a set of streams return.

LEMMA AddStreamFacts ==
    ASSUME NEW set \in StreamSets(Id), NEW id \in Id
    PROVE  /\ AddStream(set, id) \in StreamSets(Id)
           /\ AddStream(set, id).open = set.open \cup {id}
           /\ AddStream(set, id).done = set.done \ {id}
           /\ AddStream(set, id).closed = set.closed
  BY DEF AddStream, StreamSets

LEMMA CloseAllFacts ==
    ASSUME NEW set \in StreamSets(Id)
    PROVE  /\ CloseAll(set) \in StreamSets(Id)
           /\ CloseAll(set).open = {}
           /\ CloseAll(set).closed = set.closed
  BY DEF CloseAll, StreamSets

LEMMA AfterReceiveFacts ==
    ASSUME NEW set \in StreamSets(Id), NEW id \in Id, NEW t
    PROVE  /\ AfterReceive(set, id, t) \in StreamSets(Id)
           /\ t = "close" =>
                /\ AfterReceive(set, id, t).open = set.open \ {id}
                /\ AfterReceive(set, id, t).done = set.done \ {id}
                /\ AfterReceive(set, id, t).closed = set.closed \cup {id}
           /\ t = "done" =>
                /\ AfterReceive(set, id, t).open = set.open
                /\ AfterReceive(set, id, t).done = set.done \cup {id}
                /\ AfterReceive(set, id, t).closed = set.closed
           /\ t \notin {"close", "done"} => AfterReceive(set, id, t) = set
  <1> DEFINE less == Delete(set, id)
  <1>1. less \in StreamSets(Id) /\ less.open = set.open \ {id} /\ less.done = set.done \ {id}
        /\ less.closed = set.closed
    BY DEF Delete, StreamSets
  <1>2. CASE t = "close"
    <2> HIDE DEF less
    <2>1. AfterReceive(set, id, t) = [less EXCEPT !.closed = @ \cup {id}]
      BY <1>2 DEF AfterReceive, less
    <2> QED BY <1>1, <1>2, <2>1 DEF StreamSets
  <1>3. CASE t = "done"
    BY <1>3 DEF AfterReceive, StreamSets
  <1>4. CASE t \notin {"close", "done"}
    BY <1>4 DEF AfterReceive, StreamSets
  <1> QED BY <1>2, <1>3, <1>4

LEMMA StreamFacts ==
    ASSUME NEW s \in Outputs, NEW e \in Event
    PROVE  /\ Stopped(s) \in Outputs /\ Receiving(s, e) \in Outputs
           /\ IsClosed(Stopped(s))
           /\ Stopped(s).got = s.got
           /\ Stopped(s).closedByDownstream = TRUE
           /\ Receiving(s, e).closedByDownstream = s.closedByDownstream
           /\ s.closedByDownstream => Receiving(s, e) = s
           /\ e.t = "close" \/ IsClosed(s) => IsClosed(Receiving(s, e))
  <1>1. /\ s.got \in Seq(Event) /\ s.closedByDownstream \in BOOLEAN /\ s.closedByUpstream \in BOOLEAN
        /\ s = [closedByUpstream |-> s.closedByUpstream, closedByDownstream |-> s.closedByDownstream,
                 got |-> s.got]
    BY DEF Outputs
  <1>2. /\ Stopped(s) \in Outputs /\ IsClosed(Stopped(s)) /\ Stopped(s).got = s.got
        /\ Stopped(s).closedByDownstream = TRUE
    BY <1>1 DEF Stopped, IsClosed, Outputs
  <1>3. CASE s.closedByDownstream
    BY <1>2, <1>3 DEF Receiving, IsClosed
  <1>4. CASE ~s.closedByDownstream
    <2> DEFINE r == Receiving(s, e)
               up == s.closedByUpstream \/ e.t = "close"
    <2>1. r = [s EXCEPT !.got = Append(s.got, e), !.closedByUpstream = up]
      BY <1>4 DEF Receiving
    <2>2. up \in BOOLEAN /\ Append(s.got, e) \in Seq(Event)
      BY <1>1
    <2>3. (e.t = "close" \/ IsClosed(s)) => up
      BY <1>4 DEF IsClosed
    <2> HIDE DEF up, r
    <2>4. /\ r \in Outputs /\ r.got = Append(s.got, e) /\ r.closedByUpstream = up
          /\ r.closedByDownstream = s.closedByDownstream
      BY <1>1, <2>1, <2>2 DEF Outputs
    <2> QED BY <1>2, <1>4, <2>3, <2>4 DEF IsClosed, r
  <1> QED BY <1>3, <1>4, <1>1

LEMMA NewStreamTyped == NewStream \in Outputs /\ NoStreams \in StreamSets(Id)
  BY DEF NewStream, Outputs, NoStreams, StreamSets

LEMMA StopAllFacts ==
    ASSUME TypeOK, NEW set \in StreamSets(Id)
    PROVE  /\ StopAll(set) \in [Id -> Outputs]
           /\ \A id \in Id :
                /\ StopAll(set)[id].got = output[id].got
                /\ id \in set.open => IsClosed(StopAll(set)[id])
                /\ id \notin set.open => StopAll(set)[id] = output[id]
  <1>1. \A id \in Id : output[id] \in Outputs
    BY DEF TypeOK
  <1>2. \A id \in Id :
           /\ Stopped(output[id]) \in Outputs
           /\ IsClosed(Stopped(output[id]))
           /\ Stopped(output[id]).got = output[id].got
    <2> SUFFICES ASSUME NEW id \in Id
                 PROVE  /\ Stopped(output[id]) \in Outputs
                        /\ IsClosed(Stopped(output[id]))
                        /\ Stopped(output[id]).got = output[id].got
      OBVIOUS
    <2>1. [t |-> "close", n |-> 0] \in Event
      BY DEF Event
    <2> QED BY <1>1, <2>1, StreamFacts
  <1> QED BY <1>1, <1>2 DEF StopAll

\* The messages the open listener sends are the first of the queue.
LEMMA FlushedFacts ==
    ASSUME NEW queue \in Seq(Id)
    PROVE  /\ Flushed(queue) \in Seq(Id)
           /\ Len(Flushed(queue)) <= Len(queue)
           /\ \A i \in 1..Len(Flushed(queue)) : Flushed(queue)[i] = queue[i]
  <1> DEFINE bad == {i \in DOMAIN queue : queue[i] \in Unserializable}
             m == Min(bad)
  <1>1. Len(queue) \in Nat /\ DOMAIN queue = 1..Len(queue) /\ \A i \in 1..Len(queue) : queue[i] \in Id
    BY LenProperties, ElementOfSeq
  <1>2. CASE bad = {}
    BY <1>1, <1>2 DEF Flushed
  <1>3. CASE bad # {}
    <2>1. bad \subseteq 1..Len(queue)
      BY <1>1
    <2>2. m \in bad
      <3> HIDE DEF bad
      <3>1. bad \in SUBSET Nat
        BY <1>1, <2>1
      <3> QED BY <1>3, <3>1, MinOfNumbers DEF m
    <2> HIDE DEF bad
    <2>3. m \in 1..Len(queue)
      BY <2>1, <2>2
    <2>4. Flushed(queue) = SubSeq(queue, 1, m - 1)
      BY <1>3 DEF Flushed, bad, m
    <2> HIDE DEF m
    <2>5. m - 1 \in Nat /\ \A i \in 1..m - 1 : queue[i] \in Id
      BY <1>1, <2>3
    <2> QED BY <1>1, <2>3, <2>4, <2>5, SubSeqProperties
  <1> QED BY <1>2, <1>3

-----------------------------------------------------------------------------
\* Types

\* The event an arriving message brings, and the set and the output it leaves.
LEMMA ReceiveTyped ==
    ASSUME TypeOK, ClientReceive
    PROVE  /\ incomingStreams' \in StreamSets(Id)
           /\ output' \in [Id -> Outputs]
           /\ errors' \subseteq [id : Id, error : {"no stream with id", "validation failed"}]
           /\ toClient' \in Seq([id : Id, event : Event])
  <1> DEFINE id == Head(toClient).id
             e == Head(toClient).event
             verdict == Verdict(incomingStreams, id, e.t)
  <1>1. toClient # <<>> /\ toClient' = Tail(toClient) /\ toClient \in Seq([id : Id, event : Event])
    BY DEF ClientReceive, TypeOK
  <1>2. Head(toClient) \in [id : Id, event : Event] /\ toClient' \in Seq([id : Id, event : Event])
    BY <1>1, HeadTailProperties
  <1>3. id \in Id /\ e \in Event
    BY <1>2
  <1>4. /\ \/ /\ incomingStreams' = AfterReceive(incomingStreams, id, e.t)
              /\ output' = [output EXCEPT ![id] = Receiving(@, e)]
           \/ UNCHANGED <<incomingStreams, output>>
        /\ \/ UNCHANGED errors
           \/ verdict \notin {"received", "ignored"} /\ errors' = errors \cup {[id |-> id, error |-> verdict]}
    BY DEF ClientReceive
  <1>5. verdict \in {"received", "ignored", "no stream with id", "validation failed"}
    BY DEF Verdict
  <1> HIDE DEF id, e, verdict
  <1>6. incomingStreams \in StreamSets(Id) /\ output \in [Id -> Outputs]
    BY DEF TypeOK
  <1>7. AfterReceive(incomingStreams, id, e.t) \in StreamSets(Id)
    BY <1>3, <1>6, AfterReceiveFacts
  <1>8. Receiving(output[id], e) \in Outputs
    BY <1>3, <1>6, StreamFacts
  <1>9. errors' \subseteq [id : Id, error : {"no stream with id", "validation failed"}]
    <2>1. CASE verdict \in {"received", "ignored"}
      BY <1>4, <2>1 DEF TypeOK
    <2>2. CASE verdict \notin {"received", "ignored"}
      <3>1. [id |-> id, error |-> verdict]
              \in [id : Id, error : {"no stream with id", "validation failed"}]
        BY <1>3, <1>5, <2>2
      <3>2. errors \subseteq [id : Id, error : {"no stream with id", "validation failed"}]
        BY DEF TypeOK
      <3>3. errors' = errors \/ errors' = errors \cup {[id |-> id, error |-> verdict]}
        BY <1>4
      <3> QED BY ONLY <3>1, <3>2, <3>3
    <2> QED BY <2>1, <2>2
  <1> QED BY <1>2, <1>3, <1>4, <1>6, <1>7, <1>8, <1>9

LEMMA TypeStep == TypeOK /\ [Next]_vars => TypeOK'
  <1> SUFFICES ASSUME TypeOK, [Next]_vars PROVE TypeOK'
    OBVIOUS
  <1> USE DEF TypeOK, serverVars, clientVars
  <1>1. MaxRequests \in Nat /\ Id = 1..MaxRequests
    BY BridgeAssumption DEF Id
  <1>2. ASSUME issued < MaxRequests, issued' = issued + 1
        PROVE  issued' \in Id /\ issued' \in 0..MaxRequests
    <2>1. issued \in 0..MaxRequests
      OBVIOUS
    <2> QED BY ONLY <1>1, <1>2, <2>1
  <1>3. CASE SendRequestRefused
    <2>1. issued' \in Id /\ issued' \in 0..MaxRequests
      BY <1>2, <1>3 DEF SendRequestRefused
    <2>2. output' \in [Id -> Outputs]
      BY <1>3, <2>1, ZenonT(60) DEF SendRequestRefused, Outputs
    <2> QED BY <1>3, <2>1, <2>2 DEF SendRequestRefused
  <1>4. CASE SendRequest
    <2>1. issued' \in Id /\ issued' \in 0..MaxRequests
      BY <1>2, <1>4 DEF SendRequest
    <2>2. incomingStreams' \in StreamSets(Id)
      BY <1>4, <2>1, AddStreamFacts DEF SendRequest
    <2>3. outgoingQueue' \in Seq(Id) /\ toServer' \in Seq(Id)
      <3>1. outgoingQueue \in Seq(Id) /\ toServer \in Seq(Id)
        OBVIOUS
      <3>2. Append(outgoingQueue, issued') \in Seq(Id) /\ Append(toServer, issued') \in Seq(Id)
        BY ONLY <2>1, <3>1, AppendProperties
      <3> QED BY <1>4, <3>1, <3>2 DEF SendRequest
    <2> QED BY <1>4, <2>1, <2>2, <2>3 DEF SendRequest
  <1>5. CASE PostRequest
    <2>1. issued' \in Id /\ issued' \in 0..MaxRequests
      BY <1>2, <1>5 DEF PostRequest
    <2>2. incomingStreams' \in StreamSets(Id)
      BY <1>5, <2>1, AddStreamFacts DEF PostRequest
    <2>3. toServer' \in Seq(Id)
      <3>1. toServer \in Seq(Id)
        OBVIOUS
      <3>2. Append(toServer, issued') \in Seq(Id)
        BY ONLY <2>1, <3>1, AppendProperties
      <3> QED BY <1>5, <3>1, <3>2 DEF PostRequest
    <2> QED BY <1>5, <2>1, <2>2, <2>3 DEF PostRequest
  <1>6. CASE ClientOpen
    <2>1. toServer' \in Seq(Id)
      <3>1. Flushed(outgoingQueue) \in Seq(Id) /\ toServer \in Seq(Id)
        BY FlushedFacts
      <3>2. toServer \o Flushed(outgoingQueue) \in Seq(Id)
        BY ONLY <3>1, ConcatProperties
      <3> QED BY <1>6, <3>2 DEF ClientOpen
    <2>2. outgoingQueue' \in Seq(Id) /\ clientState' = "open"
      <3>1. outgoingQueue' = <<>> /\ clientState' = "open"
        BY <1>6 DEF ClientOpen
      <3> QED BY ONLY <3>1
    <2> QED BY <1>6, <2>1, <2>2 DEF ClientOpen
  <1>7. CASE ClientClose
    BY <1>7, StopAllFacts, CloseAllFacts DEF ClientClose
  <1>8. CASE ClientClosed
    <2>1. output' \in [Id -> Outputs] /\ incomingStreams' \in StreamSets(Id)
      BY <1>8, StopAllFacts, CloseAllFacts DEF ClientClosed
    <2>2. outgoingQueue' \in Seq(Id) /\ clientState' = "closed"
      <3>1. outgoingQueue' = <<>> /\ clientState' = "closed"
        BY <1>8 DEF ClientClosed
      <3> QED BY ONLY <3>1
    <2> QED BY <1>8, <2>1, <2>2 DEF ClientClosed
  <1>9. CASE ClientClosesPort
    BY <1>9 DEF ClientClosesPort
  <1>10. CASE ClientReceive
    <2>1. UNCHANGED <<clientState, issued, outgoingQueue, serverVars, toServer>>
      BY <1>10 DEF ClientReceive
    <2> QED BY <1>10, <2>1, ReceiveTyped
  <1>11. ASSUME NEW id \in Id, ConsumerStops(id)
         PROVE  TypeOK'
    <2>1. Stopped(output[id]) \in Outputs
      BY DEF Stopped, Outputs
    <2>2. output' \in [Id -> Outputs]
      BY <1>11, <2>1 DEF ConsumerStops
    <2> QED BY <1>11, <2>2 DEF ConsumerStops
  <1>12. CASE ServerReceive
    <2>1. Head(toServer) \in Id /\ Tail(toServer) \in Seq(Id)
      BY <1>12, HeadTailProperties DEF ServerReceive
    <2>2. outgoingStreams' \in StreamSets(Id)
      BY <1>12, <2>1, AddStreamFacts DEF ServerReceive
    <2> QED BY <1>12, <2>1, <2>2 DEF ServerReceive
  <1>13. ASSUME NEW id \in Id, NEW e \in Event, HandlerEmits(id, e)
         PROVE  TypeOK'
    <2>1. Append(emitted[id], e) \in Seq(Event) /\ [id |-> id, event |-> e] \in [id : Id, event : Event]
      <3>1. emitted[id] \in Seq(Event)
        OBVIOUS
      <3> QED BY ONLY <3>1, AppendProperties
    <2>2. emitted' \in [Id -> Seq(Event)] /\ toClient' \in Seq([id : Id, event : Event])
      <3>1. /\ emitted' = [emitted EXCEPT ![id] = Append(@, e)]
            /\ toClient' = Append(toClient, [id |-> id, event |-> e])
        BY <1>13 DEF HandlerEmits
      <3>2. emitted \in [Id -> Seq(Event)] /\ toClient \in Seq([id : Id, event : Event])
        OBVIOUS
      <3>3. toClient' \in Seq([id : Id, event : Event])
        BY ONLY <2>1, <3>1, <3>2, AppendProperties
      <3>4. emitted' \in [Id -> Seq(Event)]
        BY ONLY <2>1, <3>1, <3>2
      <3> QED BY <3>3, <3>4
    <2>3. handler' \in [Id -> {"none", "running", "ended", "stopped"}]
      BY <1>13 DEF HandlerEmits
    <2> QED BY <1>13, <2>2, <2>3 DEF HandlerEmits
  <1>14. CASE ServerClosed
    BY <1>14, CloseAllFacts DEF ServerClosed
  <1>15. CASE ServerClosesPort
    BY <1>15 DEF ServerClosesPort
  <1>16. CASE UNCHANGED vars
    BY <1>16 DEF vars
  <1> QED
    BY <1>3, <1>4, <1>5, <1>6, <1>7, <1>8, <1>9, <1>10, <1>11, <1>12, <1>13, <1>14,
       <1>15, <1>16 DEF Next

LEMMA TypeInit == Init => TypeOK
  BY BridgeAssumption, NewStreamTyped DEF Init, TypeOK, Id

\* Every variable keeps its type, over sockets and over ports.
THEOREM BridgeTypeCorrect == Spec => []TypeOK
  BY TypeInit, TypeStep, PTL DEF Spec

-----------------------------------------------------------------------------
\* Requests on their way

LEMMA IdsAreNumbers == Id \subseteq Nat
  BY BridgeAssumption DEF Id

LEMMA IdsOf ==
    ASSUME NEW s \in Seq(Id)
    PROVE  /\ Len(s) \in Nat /\ DOMAIN s = 1..Len(s)
           /\ \A i \in 1..Len(s) : s[i] \in Id /\ s[i] \in Nat
  <1>1. Len(s) \in Nat /\ DOMAIN s = 1..Len(s) /\ \A i \in 1..Len(s) : s[i] \in Id
    BY ElementOfSeq, LenProperties
  <1> QED BY <1>1, IdsAreNumbers

\* Pending in the next state.
LEMMA PendingNext ==
    /\ Pending(outgoingQueue, issued, handler)' = Pending(outgoingQueue', issued', handler')
    /\ Pending(toServer, issued, handler)' = Pending(toServer', issued', handler')
  BY Zenon DEF Pending, Rising

LEMMA PendingEmpty ==
    ASSUME NEW n, NEW h
    PROVE  Pending(<<>>, n, h)
  BY DEF Pending, Rising

LEMMA PendingLater ==
    ASSUME NEW s \in Seq(Id), NEW n \in Nat, NEW m \in Nat, n <= m, NEW h, NEW g,
           \A id \in Id : h[id] = "none" => g[id] = "none",
           Pending(s, n, h)
    PROVE  Pending(s, m, g)
  <1>1. \A i \in DOMAIN s : s[i] \in Id /\ s[i] \in Nat
    BY IdsOf
  <1> QED BY <1>1 DEF Pending

LEMMA PendingAppend ==
    ASSUME NEW s \in Seq(Id), NEW n \in Nat, NEW h, Pending(s, n, h), h[n + 1] = "none"
    PROVE  Pending(Append(s, n + 1), n + 1, h)
  <1> DEFINE t == Append(s, n + 1)
             k == Len(s)
  <1>1. k \in Nat /\ DOMAIN s = 1..k /\ \A i \in 1..k : s[i] \in Nat
    BY IdsOf
  <1>2. DOMAIN t = 1..k + 1 /\ (\A i \in 1..k : t[i] = s[i]) /\ t[k + 1] = n + 1
    BY AppendProperties, LenProperties
  <1> HIDE DEF t, k
  <1>3. \A i \in 1..k + 1 : i \in 1..k \/ i = k + 1
    BY <1>1
  <1>4. \A i \in 1..k : s[i] < n + 1 /\ s[i] <= n + 1 /\ h[s[i]] = "none"
    <2>1. \A i \in 1..k : s[i] \in Nat /\ s[i] <= n /\ h[s[i]] = "none"
      BY <1>1 DEF Pending
    <2>2. \A x \in Nat : x <= n => x < n + 1 /\ x <= n + 1
      OBVIOUS
    <2> QED BY <2>1, <2>2
  <1>5. ASSUME NEW i \in 1..k + 1, NEW j \in 1..k + 1, i < j
        PROVE  t[i] < t[j]
    <2>1. i \in 1..k
      BY <1>1, <1>5
    <2>2. CASE j \in 1..k
      BY <1>1, <1>2, <1>5, <2>1, <2>2 DEF Pending, Rising
    <2>3. CASE j = k + 1
      BY <1>2, <1>4, <2>1, <2>3
    <2> QED BY <1>3, <2>2, <2>3
  <1>6. \A i \in 1..k + 1 : t[i] <= n + 1 /\ h[t[i]] = "none"
    BY <1>2, <1>3, <1>4
  <1>7. Pending(t, n + 1, h)
    BY <1>2, <1>5, <1>6 DEF Pending, Rising
  <1> QED BY <1>7 DEF t

LEMMA PendingFirst ==
    ASSUME NEW s \in Seq(Id), NEW t \in Seq(Id), Len(t) <= Len(s),
           \A i \in 1..Len(t) : t[i] = s[i], NEW n, NEW h, Pending(s, n, h)
    PROVE  Pending(t, n, h)
  <1>1. DOMAIN s = 1..Len(s) /\ DOMAIN t = 1..Len(t) /\ Len(s) \in Nat /\ Len(t) \in Nat
    BY LenProperties
  <1>2. \A i \in 1..Len(t) : i \in 1..Len(s)
    BY <1>1
  <1> QED BY <1>1, <1>2 DEF Pending, Rising

\* The handler of the request that arrives first starts: the others have none yet.
LEMMA PendingTail ==
    ASSUME NEW s \in Seq(Id), s # <<>>, NEW n, NEW h, NEW g, Pending(s, n, h),
           \A id \in Id : id # Head(s) => g[id] = h[id]
    PROVE  Pending(Tail(s), n, g)
  <1> DEFINE k == Len(s)
             t == Tail(s)
  <1>1. /\ k \in Nat \ {0} /\ DOMAIN s = 1..k /\ Head(s) = s[1]
        /\ \A i \in 1..k : s[i] \in Id /\ s[i] \in Nat
    BY IdsOf, EmptySeq, HeadTailProperties
  <1>2. t \in Seq(Id) /\ Len(t) = k - 1 /\ \A i \in 1..k - 1 : t[i] = s[i + 1]
    BY HeadTailProperties
  <1>3. DOMAIN t = 1..k - 1
    BY <1>2, LenProperties
  <1> HIDE DEF k, t
  <1>4. 1 \in 1..k /\ \A i \in 1..k - 1 : i + 1 \in 1..k /\ 1 < i + 1
    BY <1>1
  <1>5. ASSUME NEW i \in 1..k - 1
        PROVE  t[i] <= n /\ g[t[i]] = "none"
    <2>1. /\ t[i] = s[i + 1] /\ s[i + 1] \in Id /\ s[1] < s[i + 1] /\ s[1] \in Nat
          /\ s[i + 1] \in Nat /\ s[i + 1] <= n /\ h[s[i + 1]] = "none"
      BY <1>1, <1>2, <1>4 DEF Pending, Rising
    <2>2. s[i + 1] # Head(s)
      BY <1>1, <2>1
    <2> QED BY <2>1, <2>2
  <1>6. ASSUME NEW i \in 1..k - 1, NEW j \in 1..k - 1, i < j
        PROVE  t[i] < t[j]
    <2>1. i + 1 < j + 1 /\ i + 1 \in DOMAIN s /\ j + 1 \in DOMAIN s
      BY <1>1, <1>4, <1>6
    <2>2. s[i + 1] < s[j + 1]
      BY <2>1 DEF Pending, Rising
    <2> QED BY <1>2, <2>2
  <1>7. Pending(t, n, g)
    BY <1>3, <1>5, <1>6 DEF Pending, Rising
  <1> QED BY <1>7 DEF t

\* A handler goes on from one state to another, and the request it serves is not pending.
LEMMA HandlersOnly ==
    ASSUME TypeOK, RequestsInv, UNCHANGED <<clientState, transport, outgoingQueue, toServer, issued>>,
           \A id \in Id : handler'[id] = "none" <=> handler[id] = "none"
    PROVE  RequestsInv'
  <1>1. issued \in Nat /\ issued <= issued /\ outgoingQueue \in Seq(Id) /\ toServer \in Seq(Id)
    <2>1. issued \in 0..MaxRequests /\ outgoingQueue \in Seq(Id) /\ toServer \in Seq(Id)
      BY Zenon DEF TypeOK
    <2> QED BY ONLY <2>1, BridgeAssumption
  <1>2. Pending(outgoingQueue, issued, handler') /\ Pending(toServer, issued, handler')
    <2>1. Pending(outgoingQueue, issued, handler) /\ Pending(toServer, issued, handler)
      BY DEF RequestsInv
    <2> QED BY <1>1, <2>1, PendingLater
  <1> QED BY <1>2, PendingNext DEF RequestsInv

LEMMA RequestsStep == TypeOK /\ TypeOK' /\ RequestsInv /\ [Next]_vars => RequestsInv'
  <1> SUFFICES ASSUME TypeOK, TypeOK', RequestsInv, [Next]_vars PROVE RequestsInv'
    OBVIOUS
  <1> USE DEF serverVars, clientVars
  <1>1. /\ issued \in Nat /\ issued' \in Nat
        /\ outgoingQueue \in Seq(Id) /\ toServer \in Seq(Id)
        /\ outgoingQueue' \in Seq(Id) /\ toServer' \in Seq(Id)
        /\ handler \in [Id -> {"none", "running", "ended", "stopped"}]
        /\ issued' \in 0..MaxRequests /\ MaxRequests \in Nat
    <2>1. /\ issued \in 0..MaxRequests /\ outgoingQueue \in Seq(Id) /\ toServer \in Seq(Id)
          /\ handler \in [Id -> {"none", "running", "ended", "stopped"}]
      BY Zenon DEF TypeOK
    <2>2. issued' \in 0..MaxRequests /\ outgoingQueue' \in Seq(Id) /\ toServer' \in Seq(Id)
      BY Zenon DEF TypeOK
    <2>3. MaxRequests \in Nat /\ issued \in Nat /\ issued' \in Nat
      BY ONLY <2>1, <2>2, BridgeAssumption
    <2> QED BY <2>1, <2>2, <2>3
  <1>2. /\ Pending(outgoingQueue, issued, handler) /\ Pending(toServer, issued, handler)
        /\ \A id \in Id : handler[id] # "none" => id <= issued
        /\ clientState = "connecting" => transport = "socket"
        /\ outgoingQueue # <<>> => transport = "socket" /\ clientState \in {"connecting", "closing"}
        /\ clientState = "connecting" \/ outgoingQueue # <<>> => toServer = <<>>
    BY DEF RequestsInv
  \* One request more.
  <1>3. ASSUME issued' = issued + 1, UNCHANGED handler
        PROVE  /\ Pending(outgoingQueue, issued', handler') /\ Pending(toServer, issued', handler')
               /\ Pending(Append(outgoingQueue, issued'), issued', handler')
               /\ Pending(Append(toServer, issued'), issued', handler')
               /\ \A id \in Id : handler'[id] # "none" => id <= issued'
    <2>1. issued <= issued' /\ issued' \in Id
      BY <1>1, <1>3 DEF Id
    <2>2. handler[issued'] = "none"
      BY <1>1, <1>2, <1>3, <2>1
    <2>3. Pending(outgoingQueue, issued', handler') /\ Pending(toServer, issued', handler')
      BY <1>1, <1>2, <1>3, <2>1, PendingLater
    <2>4. /\ Pending(Append(outgoingQueue, issued'), issued', handler')
          /\ Pending(Append(toServer, issued'), issued', handler')
      BY <1>1, <1>2, <1>3, <2>2, PendingAppend
    <2>5. \A id \in Id : id <= issued => id <= issued'
      BY <1>1, <1>3, IdsAreNumbers
    <2> QED BY <1>2, <1>3, <2>3, <2>4, <2>5
  <1>4. CASE SendRequestRefused
    <2>1. issued' = issued + 1 /\ UNCHANGED <<handler, clientState, transport, outgoingQueue, toServer>>
      BY <1>4 DEF SendRequestRefused
    <2> QED BY <1>2, <1>3, <2>1, PendingNext DEF RequestsInv
  <1>5. CASE SendRequest
    <2>1. /\ issued' = issued + 1 /\ UNCHANGED <<handler, clientState, transport>>
          /\ clientState # "closed" /\ transport = "socket"
      BY <1>5 DEF SendRequest
    <2>2. /\ outgoingQueue' = IF clientState = "connecting"
                              THEN Append(outgoingQueue, issued') ELSE outgoingQueue
          /\ toServer' = IF clientState = "open" /\ issued' \notin Unserializable
                         THEN Append(toServer, issued') ELSE toServer
      BY <1>5 DEF SendRequest
    <2>3. Pending(outgoingQueue', issued', handler') /\ Pending(toServer', issued', handler')
      BY <1>3, <2>1, <2>2
    <2>4. outgoingQueue' # <<>> => clientState \in {"connecting", "closing"}
      BY <1>2, <2>2
    <2>5. clientState = "connecting" \/ outgoingQueue' # <<>> => toServer' = <<>>
      BY <1>2, <2>2
    <2> QED BY <1>2, <1>3, <2>1, <2>3, <2>4, <2>5, PendingNext DEF RequestsInv
  <1>6. CASE PostRequest
    <2>1. /\ issued' = issued + 1 /\ UNCHANGED <<handler, clientState, transport, outgoingQueue>>
          /\ transport = "port"
          /\ toServer' = IF issued' \in Unserializable THEN toServer ELSE Append(toServer, issued')
      BY <1>6 DEF PostRequest
    <2>2. Pending(toServer', issued', handler')
      BY <1>3, <2>1
    <2> QED BY <1>2, <1>3, <2>1, <2>2, PendingNext DEF RequestsInv
  <1>7. CASE ClientOpen
    <2>1. /\ clientState = "connecting" /\ clientState' = "open" /\ outgoingQueue' = <<>>
          /\ toServer' = toServer \o Flushed(outgoingQueue)
          /\ UNCHANGED <<issued, handler, transport>>
      BY <1>7 DEF ClientOpen
    <2>2. /\ Flushed(outgoingQueue) \in Seq(Id)
          /\ Len(Flushed(outgoingQueue)) <= Len(outgoingQueue)
          /\ \A i \in 1..Len(Flushed(outgoingQueue)) : Flushed(outgoingQueue)[i] = outgoingQueue[i]
      BY <1>1, FlushedFacts
    <2>3. toServer' = Flushed(outgoingQueue)
      BY <1>2, <2>1, <2>2
    <2>4. Pending(toServer', issued, handler)
      BY <1>1, <1>2, <2>2, <2>3, PendingFirst
    <2> QED BY <1>2, <2>1, <2>4, PendingNext, PendingEmpty DEF RequestsInv
  <1>8. CASE ClientClose
    <2>1. /\ transport = "socket" /\ clientState \in {"connecting", "open"} /\ clientState' = "closing"
          /\ UNCHANGED <<issued, outgoingQueue, toServer, handler, transport>>
      BY <1>8 DEF ClientClose
    <2> QED BY <1>2, <2>1, PendingNext DEF RequestsInv
  <1>9. CASE ClientClosed
    <2>1. /\ clientState' = "closed" /\ outgoingQueue' = <<>>
          /\ UNCHANGED <<issued, toServer, handler, transport>>
      BY <1>9 DEF ClientClosed
    <2> QED BY <1>2, <2>1, PendingNext, PendingEmpty DEF RequestsInv
  <1>10. CASE ClientClosesPort
    <2>1. /\ transport = "port" /\ clientState' = "closed"
          /\ UNCHANGED <<issued, outgoingQueue, toServer, handler, transport>>
      BY <1>10 DEF ClientClosesPort
    <2> QED BY <1>2, <2>1, PendingNext DEF RequestsInv
  <1>11. CASE ClientReceive \/ (\E id \in Id : ConsumerStops(id)) \/ ServerClosesPort \/ UNCHANGED vars
    BY <1>11, HandlersOnly DEF ClientReceive, ConsumerStops, ServerClosesPort, vars
  <1>12. CASE ServerReceive
    <2>1. /\ toServer # <<>> /\ toServer' = Tail(toServer)
          /\ handler' = [handler EXCEPT ![Head(toServer)] = "running"]
          /\ UNCHANGED <<issued, outgoingQueue, clientState, transport>>
      BY <1>12 DEF ServerReceive
    <2>2. outgoingQueue = <<>> /\ clientState # "connecting"
      BY <1>2, <2>1
    <2>3. Head(toServer) \in Id /\ Head(toServer) <= issued
      BY <1>1, <1>2, <2>1, IdsOf, HeadTailProperties, EmptySeq DEF Pending
    <2>4. \A id \in Id : id # Head(toServer) => handler'[id] = handler[id]
      BY <1>1, <2>1
    <2>5. Pending(toServer', issued, handler')
      BY <1>1, <1>2, <2>1, <2>4, PendingTail
    <2>6. \A id \in Id : handler'[id] # "none" => id <= issued
      BY <1>2, <2>3, <2>4
    <2> QED BY <2>1, <2>2, <2>5, <2>6, PendingNext, PendingEmpty DEF RequestsInv
  <1>13. ASSUME NEW id \in Id, NEW e \in Event, HandlerEmits(id, e)
         PROVE  RequestsInv'
    <2>1. UNCHANGED <<clientState, transport, outgoingQueue, toServer, issued>>
      BY <1>13 DEF HandlerEmits
    <2>2. \A other \in Id : handler'[other] = "none" <=> handler[other] = "none"
      BY <1>1, <1>13 DEF HandlerEmits
    <2> QED BY <2>1, <2>2, HandlersOnly
  <1>14. CASE ServerClosed
    <2>1. UNCHANGED <<clientState, transport, outgoingQueue, toServer, issued>>
      BY <1>14 DEF ServerClosed
    <2>2. \A other \in Id : handler'[other] = "none" <=> handler[other] = "none"
      BY <1>1, <1>14 DEF ServerClosed
    <2> QED BY <2>1, <2>2, HandlersOnly
  <1> QED
    BY <1>4, <1>5, <1>6, <1>7, <1>8, <1>9, <1>10, <1>11, <1>12, <1>13, <1>14 DEF Next

-----------------------------------------------------------------------------
\* What a handler emits

LEMMA EventsOf ==
    ASSUME NEW s \in Seq(Event)
    PROVE  Len(s) \in Nat /\ DOMAIN s = 1..Len(s) /\ \A i \in 1..Len(s) : s[i] \in Event
  BY ElementOfSeq, LenProperties

LEMMA EndsOnceAppend ==
    ASSUME NEW s \in Seq(Event), NEW e \in Event, EndsOnce(s, "running"),
           e.t = "done" => ~\E i \in DOMAIN s : s[i].t = "done"
    PROVE  EndsOnce(Append(s, e), IF e.t = "close" THEN "ended" ELSE "running")
  <1> DEFINE t == Append(s, e)
             k == Len(s)
             h == IF e.t = "close" THEN "ended" ELSE "running"
  <1>1. k \in Nat /\ DOMAIN s = 1..k
    BY EventsOf
  <1>2. DOMAIN t = 1..k + 1 /\ Len(t) = k + 1 /\ (\A i \in 1..k : t[i] = s[i]) /\ t[k + 1] = e
    BY AppendProperties, LenProperties
  <1> HIDE DEF t, k
  <1>3. \A i \in 1..k + 1 : i \in 1..k \/ i = k + 1
    BY <1>1
  <1>4. \A i \in 1..k : t[i].t # "close"
    BY <1>1, <1>2 DEF EndsOnce
  <1>5. \A i \in 1..k + 1 : t[i].t = "close" => i = Len(t) /\ h = "ended"
    BY <1>2, <1>3, <1>4
  <1>6. \A i, j \in 1..k + 1 : t[i].t = "done" /\ t[j].t = "done" => i = j
    <2> SUFFICES ASSUME NEW i \in 1..k + 1, NEW j \in 1..k + 1, t[i].t = "done", t[j].t = "done"
                 PROVE  i = j
      OBVIOUS
    <2>1. CASE e.t = "done"
      BY <1>1, <1>2, <1>3, <2>1
    <2>2. CASE e.t # "done"
      <3>1. i \in 1..k /\ j \in 1..k
        BY <1>2, <1>3, <2>2
      <3> QED BY <1>1, <1>2, <3>1 DEF EndsOnce
    <2> QED BY <2>1, <2>2
  <1>7. EndsOnce(t, h)
    BY <1>2, <1>5, <1>6 DEF EndsOnce
  <1> QED BY <1>7 DEF t

LEMMA EndsOnceElsewhere ==
    ASSUME NEW s
    PROVE  /\ EndsOnce(s, "none") => s = <<>>
           /\ EndsOnce(s, "none") => EndsOnce(s, "running")
           /\ EndsOnce(s, "running") => EndsOnce(s, "stopped")
  BY DEF EndsOnce

LEMMA HandlersStep ==
    TypeOK /\ RequestsInv /\ HandlersInv /\ [Next]_vars => HandlersInv'
  <1> SUFFICES ASSUME TypeOK, RequestsInv, HandlersInv, [Next]_vars,
                      NEW id \in Id
               PROVE  EndsOnce(emitted'[id], handler'[id])
    BY DEF HandlersInv
  <1>1. /\ handler \in [Id -> {"none", "running", "ended", "stopped"}]
        /\ emitted \in [Id -> Seq(Event)] /\ toServer \in Seq(Id)
        /\ EndsOnce(emitted[id], handler[id])
    BY DEF TypeOK, HandlersInv
  <1>2. CASE ServerReceive
    <2>1. /\ handler' = [handler EXCEPT ![Head(toServer)] = "running"] /\ emitted' = emitted
          /\ toServer # <<>>
      BY <1>2 DEF ServerReceive
    <2>2. handler[Head(toServer)] = "none"
      BY <1>1, <2>1, IdsOf, HeadTailProperties, EmptySeq DEF RequestsInv, Pending
    <2> QED BY <1>1, <2>1, <2>2, EndsOnceElsewhere
  <1>3. ASSUME NEW other \in Id, NEW e \in Event, HandlerEmits(other, e)
        PROVE  EndsOnce(emitted'[id], handler'[id])
    <2>1. /\ emitted' = [emitted EXCEPT ![other] = Append(@, e)]
          /\ handler' = [handler EXCEPT ![other] = IF e.t = "close" THEN "ended" ELSE @]
          /\ handler[other] = "running"
          /\ e.t = "done" => ~\E i \in DOMAIN emitted[other] : emitted[other][i].t = "done"
      BY <1>3 DEF HandlerEmits
    <2>2. CASE id = other
      <3>1. /\ emitted'[id] = Append(emitted[id], e)
            /\ handler'[id] = IF e.t = "close" THEN "ended" ELSE "running"
        BY <1>1, <2>1, <2>2
      <3>2. emitted[id] \in Seq(Event) /\ EndsOnce(emitted[id], "running")
        BY <1>1, <2>1, <2>2
      <3> QED BY <2>1, <2>2, <3>1, <3>2, EndsOnceAppend
    <2>3. CASE id # other
      BY <1>1, <2>1, <2>3
    <2> QED BY <2>2, <2>3
  <1>4. CASE ServerClosed
    <2>1. /\ handler' = [x \in Id |-> IF handler[x] = "running" THEN "stopped" ELSE handler[x]]
          /\ emitted' = emitted
      BY <1>4 DEF ServerClosed
    <2> QED BY <1>1, <2>1, EndsOnceElsewhere
  <1>5. CASE UNCHANGED <<handler, emitted>>
    BY <1>1, <1>5
  <1> QED
    BY <1>2, <1>3, <1>4, <1>5
       DEF Next, SendRequestRefused, SendRequest, PostRequest, ClientOpen, ClientClose, ClientClosed,
           ClientClosesPort, ClientReceive, ConsumerStops, ServerClosesPort, vars, serverVars

-----------------------------------------------------------------------------
\* The client's set

LEMMA RequestIds ==
    ASSUME TypeOK
    PROVE  /\ issued \in Nat /\ 1..issued \subseteq Id
           /\ \A id \in Id : id \in Nat /\ (id \in 1..issued <=> id <= issued)
           /\ \A id \in Id : id > issued <=> ~(id <= issued)
  <1>1. issued \in 0..MaxRequests
    BY Zenon DEF TypeOK
  <1>2. MaxRequests \in Nat /\ Id = 1..MaxRequests
    BY BridgeAssumption DEF Id
  <1> QED BY ONLY <1>1, <1>2

LEMMA NewRequest ==
    ASSUME TypeOK, issued < MaxRequests, issued' = issued + 1
    PROVE  /\ issued' \in Id /\ issued' > issued
           /\ \A id \in 1..issued' : id \in 1..issued \/ id = issued'
           /\ \A id \in Id : id > issued' => id > issued /\ id # issued'
  <1>1. issued \in 0..MaxRequests
    BY Zenon DEF TypeOK
  <1>2. MaxRequests \in Nat /\ Id = 1..MaxRequests
    BY BridgeAssumption DEF Id
  <1>3. issued < MaxRequests /\ issued' = issued + 1
    OBVIOUS
  <1> QED BY ONLY <1>1, <1>2, <1>3

\* A message is received into a stream of the set only.
LEMMA ReceivedWhere ==
    ASSUME TypeOK, ClientReceive
    PROVE  LET id == Head(toClient).id
               e == Head(toClient).event
               verdict == Verdict(incomingStreams, id, e.t)
           IN  /\ id \in Id /\ e \in Event
               /\ \/ /\ verdict = "received" /\ id \in incomingStreams.open
                     /\ id \in incomingStreams.done => e.t = "close"
                     /\ incomingStreams' = AfterReceive(incomingStreams, id, e.t)
                     /\ output' = [output EXCEPT ![id] = Receiving(@, e)]
                     /\ UNCHANGED errors
                  \/ /\ verdict = "validation failed"
                     /\ id \in incomingStreams.done /\ id \in incomingStreams.open /\ e.t # "close"
                     /\ UNCHANGED <<incomingStreams, output>>
                     /\ errors' = errors \cup {[id |-> id, error |-> "validation failed"]}
                  \/ /\ verdict = "no stream with id"
                     /\ id \notin incomingStreams.open /\ id \notin incomingStreams.closed
                     /\ UNCHANGED <<incomingStreams, output>>
                     /\ errors' = errors \cup {[id |-> id, error |-> "no stream with id"]}
                  \/ /\ verdict = "ignored"
                     /\ id \notin incomingStreams.open
                     /\ UNCHANGED <<incomingStreams, output, errors>>
  <1> DEFINE id == Head(toClient).id
             e == Head(toClient).event
             verdict == Verdict(incomingStreams, id, e.t)
  <1>1. toClient # <<>> /\ toClient \in Seq(Message)
    BY DEF ClientReceive, TypeOK, Message
  <1>2. Head(toClient) \in Message
    BY <1>1, HeadTailProperties
  <1>3. id \in Id /\ e \in Event
    BY <1>2 DEF Message
  <1>4. \/ /\ verdict = "received"
           /\ incomingStreams' = AfterReceive(incomingStreams, id, e.t)
           /\ output' = [output EXCEPT ![id] = Receiving(@, e)]
           /\ UNCHANGED errors
        \/ /\ verdict # "received"
           /\ errors' = IF verdict = "ignored" THEN errors
                        ELSE errors \cup {[id |-> id, error |-> verdict]}
           /\ UNCHANGED <<incomingStreams, output>>
    BY DEF ClientReceive
  <1> HIDE DEF id, e
  <1>5. \/ verdict = "received" /\ id \in incomingStreams.open
           /\ (id \in incomingStreams.done => e.t = "close")
        \/ verdict = "validation failed" /\ id \in incomingStreams.done
           /\ id \in incomingStreams.open /\ e.t # "close"
        \/ verdict = "no stream with id" /\ id \notin incomingStreams.open
           /\ id \notin incomingStreams.closed
        \/ verdict = "ignored" /\ id \notin incomingStreams.open
    BY DEF Verdict, CheckPasses
  <1> HIDE DEF verdict
  <1>6. \/ /\ verdict = "received" /\ id \in incomingStreams.open
           /\ id \in incomingStreams.done => e.t = "close"
           /\ incomingStreams' = AfterReceive(incomingStreams, id, e.t)
           /\ output' = [output EXCEPT ![id] = Receiving(@, e)]
           /\ UNCHANGED errors
        \/ /\ verdict = "validation failed"
           /\ id \in incomingStreams.done /\ id \in incomingStreams.open /\ e.t # "close"
           /\ UNCHANGED <<incomingStreams, output>>
           /\ errors' = errors \cup {[id |-> id, error |-> "validation failed"]}
        \/ /\ verdict = "no stream with id"
           /\ id \notin incomingStreams.open /\ id \notin incomingStreams.closed
           /\ UNCHANGED <<incomingStreams, output>>
           /\ errors' = errors \cup {[id |-> id, error |-> "no stream with id"]}
        \/ /\ verdict = "ignored"
           /\ id \notin incomingStreams.open
           /\ UNCHANGED <<incomingStreams, output, errors>>
    BY <1>4, <1>5
  <1> QED BY <1>3, <1>6 DEF id, e, verdict

LEMMA StreamsStep == TypeOK /\ RequestsInv /\ StreamsInv /\ [Next]_vars => StreamsInv'
  <1> SUFFICES ASSUME TypeOK, RequestsInv, StreamsInv, [Next]_vars PROVE StreamsInv'
    OBVIOUS
  <1> USE DEF serverVars, clientVars
  <1>1. /\ incomingStreams \in StreamSets(Id) /\ output \in [Id -> Outputs]
        /\ transport \in {"socket", "port"}
        /\ \A id \in Id : output[id] \in Outputs
    BY DEF TypeOK
  <1>2. /\ \A id \in Id : id > issued => id \notin incomingStreams.open /\ output[id] = NewStream
        /\ \A id \in 1..issued : id \in incomingStreams.open \/ IsClosed(output[id])
        /\ Listening => \A id \in 1..issued : id \in incomingStreams.open \cup incomingStreams.closed
        /\ transport = "socket" /\ clientState = "closed" => \A id \in 1..issued : IsClosed(output[id])
    BY DEF StreamsInv, NoOutputOpenAfterClose
  <1>3. CASE SendRequestRefused
    <2>1. /\ issued < MaxRequests /\ issued' = issued + 1
          /\ output' = [output EXCEPT ![issued'].closedByUpstream = TRUE]
          /\ transport = "socket" /\ clientState = "closed"
          /\ UNCHANGED <<incomingStreams, clientState, transport>>
      BY <1>3 DEF SendRequestRefused
    <2>2. /\ issued' \in Id /\ issued' > issued
          /\ \A id \in 1..issued' : id \in 1..issued \/ id = issued'
          /\ \A id \in Id : id > issued' => id > issued /\ id # issued'
      BY <2>1, NewRequest
    <2>3. \A id \in Id : id # issued' => output'[id] = output[id]
      BY <1>1, <2>1
    <2>4. IsClosed(output'[issued'])
      <3>1. output[issued'] = NewStream
        BY <1>2, <2>2
      <3>2. output'[issued'] = [NewStream EXCEPT !.closedByUpstream = TRUE]
        BY <1>1, <2>1, <2>2, <3>1
      <3> QED BY <3>2 DEF NewStream, IsClosed
    <2>5. \A id \in 1..issued : id # issued' /\ id \in Id
      BY <2>2, RequestIds
    <2>6. \A id \in 1..issued' : IsClosed(output'[id])
      BY <1>2, <2>1, <2>2, <2>3, <2>4, <2>5
    <2>7. ~Listening'
      BY <2>1 DEF Listening
    <2> QED BY <1>2, <2>1, <2>2, <2>3, <2>6, <2>7 DEF StreamsInv, NoOutputOpenAfterClose
  <1>4. ASSUME issued < MaxRequests, issued' = issued + 1,
               incomingStreams' = AddStream(incomingStreams, issued'),
               UNCHANGED <<output, clientState, transport>>, transport = "port" \/ clientState # "closed"
        PROVE  StreamsInv'
    <2>1. /\ issued' \in Id /\ issued' > issued
          /\ \A id \in 1..issued' : id \in 1..issued \/ id = issued'
          /\ \A id \in Id : id > issued' => id > issued /\ id # issued'
      BY <1>4, NewRequest
    <2>2. /\ incomingStreams'.open = incomingStreams.open \cup {issued'}
          /\ incomingStreams'.closed = incomingStreams.closed
      BY <1>1, <1>4, <2>1, AddStreamFacts
    <2>3. Listening' = Listening
      BY <1>4 DEF Listening
    <2> QED BY <1>2, <1>4, <2>1, <2>2, <2>3 DEF StreamsInv, NoOutputOpenAfterClose
  <1>5. CASE SendRequest
    BY <1>4, <1>5 DEF SendRequest
  <1>6. CASE PostRequest
    BY <1>4, <1>6 DEF PostRequest
  <1>7. CASE ClientOpen
    <2>1. /\ clientState = "connecting" /\ clientState' = "open"
          /\ UNCHANGED <<issued, incomingStreams, output, transport>>
      BY <1>7 DEF ClientOpen
    <2> QED BY <1>2, <2>1 DEF StreamsInv, NoOutputOpenAfterClose, Listening
  \* close(), or the socket's close event.
  <1>8. ASSUME transport = "socket", clientState' \in {"closing", "closed"},
               output' = StopAll(incomingStreams), incomingStreams' = CloseAll(incomingStreams),
               UNCHANGED <<issued, transport>>
        PROVE  StreamsInv'
    <2>1. incomingStreams'.open = {}
      BY <1>1, <1>8, CloseAllFacts
    <2>2. \A id \in Id : /\ id \in incomingStreams.open => IsClosed(output'[id])
                         /\ id \notin incomingStreams.open => output'[id] = output[id]
      BY <1>1, <1>8, StopAllFacts
    <2>3. \A id \in 1..issued : id \in Id
      BY RequestIds
    <2>4. \A id \in 1..issued : IsClosed(output'[id])
      BY <1>2, <2>2, <2>3
    <2>5. ~Listening'
      BY <1>8 DEF Listening
    <2> QED BY <1>2, <1>8, <2>1, <2>2, <2>4, <2>5 DEF StreamsInv, NoOutputOpenAfterClose
  <1>9. CASE ClientClose
    BY <1>8, <1>9 DEF ClientClose
  <1>10. CASE ClientClosed
    BY <1>8, <1>10 DEF ClientClosed
  <1>11. CASE ClientClosesPort
    <2>1. transport = "port" /\ UNCHANGED <<issued, incomingStreams, output, transport>>
      BY <1>11 DEF ClientClosesPort
    <2> QED BY <1>2, <2>1 DEF StreamsInv, NoOutputOpenAfterClose, Listening
  <1>12. CASE ClientReceive
    <2> DEFINE id == Head(toClient).id
               e == Head(toClient).event
    <2>1. UNCHANGED <<issued, clientState, transport>> /\ Listening' = Listening
      BY <1>12 DEF ClientReceive, Listening
    <2>2. CASE UNCHANGED <<incomingStreams, output>>
      BY <1>2, <2>1, <2>2 DEF StreamsInv, NoOutputOpenAfterClose
    <2>3. CASE ~UNCHANGED <<incomingStreams, output>>
      <3>1. /\ id \in Id /\ e \in Event /\ id \in incomingStreams.open
            /\ incomingStreams' = AfterReceive(incomingStreams, id, e.t)
            /\ output' = [output EXCEPT ![id] = Receiving(@, e)]
        BY <1>12, <2>3, ReceivedWhere
      <3> HIDE DEF id, e
      <3>2. output'[id] = Receiving(output[id], e) /\ \A x \in Id : x # id => output'[x] = output[x]
        BY <1>1, <3>1
      <3>3. e.t = "close" \/ IsClosed(output[id]) => IsClosed(output'[id])
        BY <1>1, <3>1, <3>2, StreamFacts
      <3>4. \/ /\ incomingStreams'.open = incomingStreams.open \ {id} /\ e.t = "close"
               /\ incomingStreams'.closed = incomingStreams.closed \cup {id}
            \/ /\ incomingStreams'.open = incomingStreams.open
               /\ incomingStreams'.closed = incomingStreams.closed
        <4>1. e.t = "close" \/ e.t = "done" \/ e.t \notin {"close", "done"}
          OBVIOUS
        <4> QED BY <1>1, <3>1, <4>1, AfterReceiveFacts
      <3>5. \A x \in 1..issued : x \in Id
        BY RequestIds
      <3>6. ~(id > issued)
        BY <1>2, <3>1
      <3>7. \A x \in Id : x > issued => x \notin incomingStreams'.open /\ output'[x] = NewStream
        BY <1>2, <3>2, <3>4, <3>6
      <3>8. \A x \in 1..issued : IsClosed(output[x]) => IsClosed(output'[x])
        BY <3>2, <3>3, <3>5
      <3>9. \A x \in 1..issued : x \in incomingStreams'.open \/ IsClosed(output'[x])
        BY <1>2, <3>3, <3>4, <3>8
      <3> QED BY <1>2, <2>1, <3>4, <3>7, <3>8, <3>9 DEF StreamsInv, NoOutputOpenAfterClose
    <2> QED BY <2>2, <2>3
  <1>13. ASSUME NEW id \in Id, ConsumerStops(id)
         PROVE  StreamsInv'
    <2>1. /\ id <= issued /\ output' = [output EXCEPT ![id] = Stopped(@)]
          /\ UNCHANGED <<incomingStreams, issued, clientState, transport>>
      BY <1>13 DEF ConsumerStops
    <2>2. /\ output'[id] = Stopped(output[id]) /\ \A x \in Id : x # id => output'[x] = output[x]
          /\ ~(id > issued)
      BY <1>1, <2>1, RequestIds
    <2>3. IsClosed(output'[id])
      BY <1>1, <2>2 DEF Stopped, IsClosed, Outputs
    <2>4. \A x \in 1..issued : x \in Id
      BY RequestIds
    <2>5. Listening' = Listening
      BY <2>1 DEF Listening
    <2> QED BY <1>2, <2>1, <2>2, <2>3, <2>4, <2>5 DEF StreamsInv, NoOutputOpenAfterClose
  <1>14. CASE UNCHANGED <<clientVars, transport>>
    BY <1>2, <1>14 DEF StreamsInv, NoOutputOpenAfterClose, Listening
  <1> QED
    BY <1>3, <1>5, <1>6, <1>7, <1>9, <1>10, <1>11, <1>12, <1>13, <1>14
       DEF Next, ServerReceive, ServerClosed, ServerClosesPort, HandlerEmits, vars

-----------------------------------------------------------------------------
\* Messages under way

LEMMA PostedAppend ==
    ASSUME NEW messages \in Seq(Message), NEW events \in [Id -> Seq(Event)],
           NEW c \in [Id -> Nat], NEW pos \in [DOMAIN messages -> Nat],
           Posted(c, pos, messages, events), NEW id \in Id, NEW e \in Event,
           NEW m \in Message, m.id = id, m.event = e,
           NEW longer \in [Id -> Seq(Event)], longer[id] = Append(events[id], e),
           \A other \in Id : other # id => longer[other] = events[other]
    PROVE  \E q \in [DOMAIN Append(messages, m) -> Nat] : Posted(c, q, Append(messages, m), longer)
  <1> DEFINE k == Len(messages)
             n == Len(events[id])
             q == [i \in 1..k + 1 |-> IF i = k + 1 THEN n + 1 ELSE pos[i]]
             all == Append(messages, m)
  <1>0. \A x \in Id : \A v \in 1..Len(events[x]) :
           c[x] < v => \E j \in DOMAIN messages : messages[j].id = x /\ pos[j] = v
    BY Zenon DEF Posted
  <1>1. k \in Nat /\ DOMAIN messages = 1..k /\ \A i \in 1..k : messages[i] \in Message
    BY ElementOfSeq, LenProperties
  <1>2. \A x \in Id : Len(events[x]) \in Nat /\ c[x] \in Nat /\ Len(longer[x]) \in Nat
    BY EventsOf
  <1>3. /\ DOMAIN all = 1..k + 1 /\ (\A i \in 1..k : all[i] = messages[i]) /\ all[k + 1] = m
    BY AppendProperties, LenProperties
  <1>4. /\ Len(longer[id]) = n + 1 /\ longer[id][n + 1] = e /\ n \in Nat
        /\ \A i \in 1..n : longer[id][i] = events[id][i]
    BY AppendProperties, <1>2
  <1>5. \A i \in 1..k : q[i] = pos[i] /\ pos[i] \in Nat
    <2>1. \A i \in 1..k : i \in 1..k + 1 /\ i # k + 1
      BY <1>1
    <2> QED BY <1>1, <2>1
  <1>6. q[k + 1] = n + 1 /\ q \in [1..k + 1 -> Nat]
    BY <1>1, <1>4, <1>5
  <1>7. \A i \in 1..k + 1 : i \in 1..k \/ i = k + 1
    BY <1>1
  <1>8. \A i \in 1..k : messages[i].id \in Id
    BY <1>1 DEF Message
  <1> HIDE DEF k, n, q, all
  <1>9. \A x \in Id : c[x] <= Len(longer[x]) /\ Len(events[x]) <= Len(longer[x])
    <2>1. \A x \in Id : c[x] <= Len(events[x])
      BY DEF Posted
    <2>2. \A x \in Id : Len(events[x]) <= Len(longer[x])
      <3>1. Len(events[id]) <= Len(longer[id])
        BY <1>4 DEF n
      <3>2. \A x \in Id : x # id => Len(events[x]) <= Len(longer[x])
        BY <1>2
      <3> QED BY <3>1, <3>2
    <2> QED BY <1>2, <2>1, <2>2
  <1>10. ASSUME NEW i \in 1..k + 1
         PROVE  /\ c[all[i].id] < q[i] /\ q[i] <= Len(longer[all[i].id])
                /\ all[i].event = longer[all[i].id][q[i]]
    <2>1. CASE i = k + 1
      <3>1. c[id] <= n /\ c[id] \in Nat
        BY <1>2 DEF Posted, n
      <3> QED BY <1>3, <1>4, <1>6, <2>1, <3>1
    <2>2. CASE i \in 1..k
      <3> DEFINE x == messages[i].id
      <3>1. /\ c[x] < pos[i] /\ pos[i] <= Len(events[x]) /\ messages[i].event = events[x][pos[i]]
            /\ x \in Id
        BY <1>1, <1>8, <2>2 DEF Posted
      <3>2. all[i].id = x /\ all[i].event = messages[i].event /\ q[i] = pos[i] /\ pos[i] \in Nat
        BY <1>3, <1>5, <2>2
      <3> HIDE DEF x
      <3>3. pos[i] <= Len(longer[x]) /\ pos[i] \in 1..Len(events[x])
        BY <1>2, <1>9, <3>1, <3>2
      <3>4. longer[x][pos[i]] = events[x][pos[i]]
        <4>1. x = id => pos[i] \in 1..n
          BY <3>3 DEF n
        <4>2. x # id => longer[x] = events[x]
          BY <3>1
        <4> QED BY <1>4, <4>1, <4>2
      <3> QED BY <3>1, <3>2, <3>3, <3>4
    <2> QED BY <1>7, <2>1, <2>2
  <1>11. ASSUME NEW i \in 1..k + 1, NEW j \in 1..k + 1, i < j, all[i].id = all[j].id
         PROVE  q[i] < q[j]
    <2>1. i \in 1..k
      BY <1>1, <1>11
    <2>2. CASE j \in 1..k
      <3>1. messages[i].id = messages[j].id
        BY <1>3, <1>11, <2>1, <2>2
      <3> QED BY <1>1, <1>5, <1>11, <2>1, <2>2, <3>1 DEF Posted
    <2>3. CASE j = k + 1
      <3>1. messages[i].id = id
        BY <1>3, <1>11, <2>1, <2>3
      <3>2. pos[i] <= n
        BY <1>1, <2>1, <3>1 DEF Posted, n
      <3> QED BY <1>4, <1>5, <1>6, <2>1, <2>3, <3>2
    <2> QED BY <1>7, <2>2, <2>3
  <1>12. ASSUME NEW x \in Id, NEW i \in 1..Len(longer[x]), c[x] < i
         PROVE  \E j \in DOMAIN all : all[j].id = x /\ q[j] = i
    <2>1. CASE i \in 1..Len(events[x])
      <3>1. PICK j \in DOMAIN messages : messages[j].id = x /\ pos[j] = i
        BY <1>0, <1>12, <2>1
      <3>2. j \in DOMAIN all /\ j \in 1..k
        BY <1>1, <1>3, <3>1
      <3> QED BY <1>3, <1>5, <3>1, <3>2
    <2>2. CASE i \notin 1..Len(events[x])
      <3>1. x = id /\ i = n + 1
        BY <1>2, <1>4, <1>12, <2>2 DEF n
      <3>2. k + 1 \in DOMAIN all
        BY <1>1, <1>3
      <3> QED BY <1>3, <1>6, <3>1, <3>2
    <2> QED BY <2>1, <2>2
  <1>13. Posted(c, q, all, longer)
    <2>1. \A i \in DOMAIN all : /\ c[all[i].id] < q[i] /\ q[i] <= Len(longer[all[i].id])
                             /\ all[i].event = longer[all[i].id][q[i]]
      BY <1>3, <1>10
    <2>2. \A i, j \in DOMAIN all : i < j /\ all[i].id = all[j].id => q[i] < q[j]
      BY <1>3, <1>11
    <2>3. \A x \in Id : \A i \in 1..Len(longer[x]) :
             c[x] < i => \E j \in DOMAIN all : all[j].id = x /\ q[j] = i
      BY <1>12
    <2>4. \A x \in Id : c[x] <= Len(longer[x])
      BY <1>9
    <2> QED BY ONLY <2>1, <2>2, <2>3, <2>4, Zenon DEF Posted
  <1> QED BY <1>3, <1>6, <1>13 DEF all

\* The message that arrives first has the next event of its handler.
LEMMA PostedTail ==
    ASSUME NEW messages \in Seq(Message), messages # <<>>, NEW events \in [Id -> Seq(Event)],
           NEW c \in [Id -> Nat], NEW pos \in [DOMAIN messages -> Nat],
           Posted(c, pos, messages, events), NEW id, id = Head(messages).id
    PROVE  /\ id \in Id
           /\ c[id] + 1 \in 1..Len(events[id])
           /\ Head(messages).event = events[id][c[id] + 1]
           /\ \E q \in [DOMAIN Tail(messages) -> Nat] :
                 Posted([c EXCEPT ![id] = c[id] + 1], q, Tail(messages), events)
  <1> DEFINE k == Len(messages)
             rest == Tail(messages)
             q == [i \in 1..k - 1 |-> pos[i + 1]]
             d == [c EXCEPT ![id] = c[id] + 1]
  <1>0. \A x \in Id : \A n \in 1..Len(events[x]) :
           c[x] < n => \E j \in DOMAIN messages : messages[j].id = x /\ pos[j] = n
    BY Zenon DEF Posted
  <1>1. /\ k \in Nat \ {0} /\ DOMAIN messages = 1..k /\ Head(messages) = messages[1]
        /\ \A i \in 1..k : messages[i] \in Message
    BY ElementOfSeq, LenProperties, EmptySeq, HeadTailProperties
  <1>2. rest \in Seq(Message) /\ Len(rest) = k - 1 /\ \A i \in 1..k - 1 : rest[i] = messages[i + 1]
    BY HeadTailProperties
  <1>3. DOMAIN rest = 1..k - 1
    BY <1>2, LenProperties
  <1>4. \A x \in Id : Len(events[x]) \in Nat /\ c[x] \in Nat
    BY EventsOf
  <1>5. \A i \in 1..k : messages[i].id \in Id /\ pos[i] \in Nat
    BY <1>1 DEF Message
  <1>6. 1 \in 1..k /\ \A i \in 1..k - 1 : i + 1 \in 1..k
    BY <1>1
  <1>7. id \in Id /\ messages[1].id = id
    BY <1>1, <1>5, <1>6
  <1>8. d[id] = c[id] + 1 /\ d \in [Id -> Nat] /\ \A x \in Id : x # id => d[x] = c[x]
    BY <1>4, <1>7
  <1>9. q \in [1..k - 1 -> Nat] /\ \A i \in 1..k - 1 : q[i] = pos[i + 1]
    BY <1>5, <1>6
  <1> HIDE DEF k, rest, q, d
  <1>10. c[id] < pos[1] /\ pos[1] <= Len(events[id]) /\ messages[1].event = events[id][pos[1]]
    BY <1>1, <1>6, <1>7 DEF Posted
  \* No other message has an event of this handler before that one.
  <1>11. pos[1] = c[id] + 1
    <2>1. c[id] + 1 \in 1..Len(events[id]) /\ c[id] < c[id] + 1
      BY <1>4, <1>5, <1>6, <1>7, <1>10
    <2>2. PICK j \in DOMAIN messages : messages[j].id = id /\ pos[j] = c[id] + 1
      BY <1>0, <1>7, <2>1
    <2>3. CASE j = 1
      BY <2>2, <2>3
    <2>4. CASE j # 1
      <3>1. 1 < j
        BY <1>1, <2>4
      <3>2. pos[1] < pos[j]
        BY <1>1, <1>6, <1>7, <2>2, <3>1 DEF Posted
      <3> QED BY <1>4, <1>5, <1>6, <1>7, <1>10, <2>2, <3>2
    <2> QED BY <2>3, <2>4
  <1>12. c[id] + 1 \in 1..Len(events[id])
    BY <1>4, <1>5, <1>6, <1>7, <1>10, <1>11
  <1>13. \A x \in Id : d[x] <= Len(events[x])
    <2>1. \A x \in Id : c[x] <= Len(events[x])
      BY DEF Posted
    <2>2. d[id] <= Len(events[id])
      BY <1>4, <1>7, <1>8, <1>12
    <2> QED BY <1>8, <2>1, <2>2
  <1>14. ASSUME NEW i \in 1..k - 1
         PROVE  /\ d[rest[i].id] < q[i] /\ q[i] <= Len(events[rest[i].id])
                /\ rest[i].event = events[rest[i].id][q[i]]
    <2> DEFINE x == messages[i + 1].id
    <2>1. /\ c[x] < pos[i + 1] /\ pos[i + 1] <= Len(events[x])
          /\ messages[i + 1].event = events[x][pos[i + 1]] /\ x \in Id
      BY <1>1, <1>5, <1>6 DEF Posted
    <2>2. x = id => pos[1] < pos[i + 1]
      <3>1. 1 < i + 1 /\ 1 \in DOMAIN messages /\ i + 1 \in DOMAIN messages
        BY <1>1, <1>6
      <3> QED BY <1>7, <3>1 DEF Posted
    <2> HIDE DEF x
    <2>3. d[x] < pos[i + 1]
      BY <1>8, <1>11, <2>1, <2>2
    <2> QED BY <1>2, <1>9, <2>1, <2>3 DEF x
  <1>15. ASSUME NEW i \in 1..k - 1, NEW j \in 1..k - 1, i < j, rest[i].id = rest[j].id
         PROVE  q[i] < q[j]
    <2>1. i + 1 \in DOMAIN messages /\ j + 1 \in DOMAIN messages /\ i + 1 < j + 1
      BY <1>1, <1>6, <1>15
    <2>2. messages[i + 1].id = messages[j + 1].id
      BY <1>2, <1>15
    <2> QED BY <1>9, <2>1, <2>2 DEF Posted
  <1>16. ASSUME NEW x \in Id, NEW n \in 1..Len(events[x]), d[x] < n
         PROVE  \E j \in DOMAIN rest : rest[j].id = x /\ q[j] = n
    <2>1. c[x] < n /\ n \in Nat /\ (x = id => n # pos[1])
      <3>1. n \in Nat /\ c[x] \in Nat /\ c[id] \in Nat
        BY <1>4, <1>7
      <3> QED BY <1>8, <1>11, <1>16, <3>1
    <2>2. PICK j \in DOMAIN messages : messages[j].id = x /\ pos[j] = n
      BY <1>0, <2>1
    <2>3. j # 1
      BY <1>7, <2>1, <2>2
    <2>4. j - 1 \in DOMAIN rest /\ j - 1 \in 1..k - 1 /\ (j - 1) + 1 = j
      BY <1>1, <1>3, <2>3
    <2>5. rest[j - 1].id = x /\ q[j - 1] = n
      BY <1>2, <1>9, <2>2, <2>4
    <2> QED BY <2>4, <2>5
  <1>17. Posted(d, q, rest, events)
    <2>1. \A i \in DOMAIN rest : /\ d[rest[i].id] < q[i] /\ q[i] <= Len(events[rest[i].id])
                             /\ rest[i].event = events[rest[i].id][q[i]]
      BY <1>3, <1>14
    <2>2. \A i, j \in DOMAIN rest : i < j /\ rest[i].id = rest[j].id => q[i] < q[j]
      BY <1>3, <1>15
    <2>3. \A x \in Id : \A n \in 1..Len(events[x]) :
             d[x] < n => \E j \in DOMAIN rest : rest[j].id = x /\ q[j] = n
      BY <1>16
    <2> QED BY ONLY <1>13, <2>1, <2>2, <2>3, Zenon DEF Posted
  <1>18. Head(messages).event = events[id][c[id] + 1]
    BY <1>1, <1>10, <1>11
  <1>19. \E r \in [DOMAIN rest -> Nat] : Posted(d, r, rest, events)
    BY <1>3, <1>9, <1>17
  <1> QED BY <1>7, <1>12, <1>18, <1>19 DEF d, rest

-----------------------------------------------------------------------------
\* An output and the events of its handler

\* Nothing but the flags of the output and its place in the set changes.
LEMMA FollowsAlike ==
    ASSUME NEW id, NEW events, NEW n, NEW s, NEW set, Follows(s, id, set, events, n),
           NEW r, r.got = s.got, ~r.closedByDownstream => ~s.closedByDownstream,
           NEW also, id \in also.open => id \in set.open /\ (id \in also.done <=> id \in set.done)
    PROVE  Follows(r, id, also, events, n)
  BY DEF Follows

\* An event for a stream that is not in the set changes nothing.
LEMMA FollowsOutside ==
    ASSUME NEW id, NEW events, NEW n, NEW s, NEW set, Follows(s, id, set, events, n),
           id \notin set.open, NEW m
    PROVE  Follows(s, id, set, events, m)
  BY DEF Follows

LEMMA FollowsNothing ==
    ASSUME NEW id, NEW s, s.got = <<>>, NEW set, id \notin set.done
    PROVE  Follows(s, id, set, <<>>, 0)
  BY DEF Follows, UpToDone

\* The handler emits one more event.
LEMMA FollowsLonger ==
    ASSUME NEW id, NEW events \in Seq(Event), NEW e \in Event, NEW n \in Nat, n <= Len(events),
           NEW s \in Outputs, NEW set, Follows(s, id, set, events, n), EndsOnce(events, "running")
    PROVE  Follows(s, id, set, Append(events, e), n)
  <1> DEFINE longer == Append(events, e)
             k == Len(events)
             got == s.got
  <1>1. k \in Nat /\ DOMAIN events = 1..k
    BY EventsOf
  <1>2. longer \in Seq(Event) /\ Len(longer) = k + 1 /\ \A i \in 1..k : longer[i] = events[i]
    BY AppendProperties
  <1>3. got \in Seq(Event) /\ Len(got) \in Nat
    BY EventsOf DEF Outputs
  <1>4. \A i \in 1..k : events[i].t # "close"
    BY <1>1 DEF EndsOnce
  <1> HIDE DEF longer, k, got
  <1>5. UpToDone(got, events) => UpToDone(got, longer)
    <2> SUFFICES ASSUME UpToDone(got, events) PROVE UpToDone(got, longer)
      OBVIOUS
    <2>1. Len(got) <= k /\ \A i \in 1..Len(got) : i \in 1..k
      BY <1>1, <1>3 DEF UpToDone, k
    <2> QED BY <1>1, <1>2, <1>3, <2>1 DEF UpToDone
  <1>6. ~ClosedEarly(got, events)
    <2> SUFFICES ASSUME ClosedEarly(got, events) PROVE FALSE
      OBVIOUS
    <2>1. k \in 1..k /\ events[k].t = "close"
      BY <1>1, <1>3 DEF ClosedEarly, k
    <2> QED BY <1>4, <2>1
  <1>7. \A i \in 1..n : longer[i] = events[i]
    BY <1>1, <1>2 DEF k
  <1>8. UpToDone(got, longer) \/ ClosedEarly(got, longer)
    BY <1>5, <1>6 DEF Follows, got
  <1>9. ASSUME id \in set.open
        PROVE  /\ \A i \in 1..n : longer[i].t # "close"
               /\ id \in set.done <=> \E i \in 1..n : longer[i].t = "done"
               /\ ~s.closedByDownstream =>
                     /\ UpToDone(got, longer)
                     /\ id \in set.done => Len(got) \in 1..n /\ longer[Len(got)].t = "done"
                     /\ id \notin set.done => Len(got) = n
    BY <1>5, <1>7, <1>9 DEF Follows, got
  <1> QED BY <1>8, <1>9 DEF Follows, got, longer

\* An event after done that is not the close is refused.
LEMMA FollowsRefused ==
    ASSUME NEW id, NEW events \in Seq(Event), NEW n \in Nat, n + 1 \in 1..Len(events),
           NEW s, NEW set, Follows(s, id, set, events, n),
           id \in set.open, id \in set.done, events[n + 1].t # "close"
    PROVE  Follows(s, id, set, events, n + 1) /\ WentOn(events)
  <1>1. \A i \in 1..n + 1 : i \in 1..n \/ i = n + 1
    OBVIOUS
  <1>2. \A i \in 1..n : i \in 1..n + 1 /\ i \in DOMAIN events /\ i < n + 1
    BY EventsOf
  <1>3. /\ UpToDone(s.got, events) \/ ClosedEarly(s.got, events)
        /\ \A i \in 1..n : events[i].t # "close"
        /\ \E i \in 1..n : events[i].t = "done"
        /\ ~s.closedByDownstream =>
              UpToDone(s.got, events) /\ Len(s.got) \in 1..n /\ events[Len(s.got)].t = "done"
    BY DEF Follows
  <1>4. WentOn(events)
    <2>1. n + 1 \in DOMAIN events
      BY EventsOf
    <2> QED BY <1>2, <1>3, <2>1 DEF WentOn
  <1>5. \A i \in 1..n + 1 : events[i].t # "close"
    BY <1>1, <1>3
  <1>6. \E i \in 1..n + 1 : events[i].t = "done"
    BY <1>2, <1>3
  <1> QED BY <1>2, <1>3, <1>4, <1>5, <1>6 DEF Follows

\* The next event arrives, and the protocol allows it.
LEMMA FollowsReceived ==
    ASSUME NEW id \in Id, NEW events \in Seq(Event), NEW h, EndsOnce(events, h),
           NEW n \in Nat, n + 1 \in 1..Len(events), NEW e, e = events[n + 1],
           NEW s \in Outputs, NEW set \in StreamSets(Id), Follows(s, id, set, events, n),
           id \in set.open, id \in set.done => e.t = "close"
    PROVE  Follows(Receiving(s, e), id, AfterReceive(set, id, e.t), events, n + 1)
  <1> DEFINE got == s.got
             r == Receiving(s, e)
             next == AfterReceive(set, id, e.t)
  <1>1. Len(events) \in Nat /\ DOMAIN events = 1..Len(events) /\ e \in Event
    BY EventsOf
  <1>2. got \in Seq(Event) /\ Len(got) \in Nat
    BY EventsOf DEF Outputs
  <1>3. /\ UpToDone(got, events) \/ ClosedEarly(got, events)
        /\ \A i \in 1..n : events[i].t # "close"
        /\ id \in set.done <=> \E i \in 1..n : events[i].t = "done"
        /\ ~s.closedByDownstream =>
              /\ UpToDone(got, events)
              /\ id \in set.done => Len(got) \in 1..n /\ events[Len(got)].t = "done"
              /\ id \notin set.done => Len(got) = n
    BY DEF Follows
  <1>4. \A i \in 1..n + 1 : i \in 1..n \/ i = n + 1
    OBVIOUS
  <1>5. /\ r.closedByDownstream = s.closedByDownstream
        /\ s.closedByDownstream => r = s
        /\ ~s.closedByDownstream => r.got = Append(got, e)
    <2>1. e \in Event /\ s \in Outputs
      BY <1>1
    <2> HIDE DEF got
    <2>2. /\ Receiving(s, e).closedByDownstream = s.closedByDownstream
          /\ s.closedByDownstream => Receiving(s, e) = s
      BY ONLY <2>1, StreamFacts
    <2>3. ~s.closedByDownstream => Receiving(s, e).got = Append(s.got, e)
      BY ONLY <2>1 DEF Receiving, Outputs
    <2> QED BY <2>2, <2>3 DEF got
  <1>6. CASE e.t = "close"
    <2>1. id \notin next.open
      BY <1>6, AfterReceiveFacts
    <2>2. n + 1 = Len(events)
      BY <1>1, <1>6 DEF EndsOnce
    <2>3. UpToDone(r.got, events) \/ ClosedEarly(r.got, events)
      <3>1. CASE s.closedByDownstream
        BY <1>3, <1>5, <3>1
      <3>2. CASE ~s.closedByDownstream /\ id \notin set.done
        <4>1. Len(got) = n /\ UpToDone(got, events) /\ r.got = Append(got, e)
          BY <1>3, <1>5, <3>2
        <4>2. \A i \in 1..n : events[i].t # "done"
          BY <1>3, <3>2
        <4>3. /\ Len(Append(got, e)) = n + 1 /\ Append(got, e)[n + 1] = e
              /\ \A i \in 1..n : Append(got, e)[i] = got[i]
          BY <1>2, <4>1, AppendProperties
        <4>4. \A i \in 1..n : got[i] = events[i]
          BY <4>1 DEF UpToDone
        <4> HIDE DEF got, r
        <4> DEFINE all == Append(got, e)
        <4>5. Len(all) = n + 1 /\ \A i \in 1..n + 1 : all[i] = events[i]
          BY <1>4, <4>3, <4>4
        <4>6. \A i \in 1..n + 1 : i < n + 1 => events[i].t # "done"
          BY <1>4, <4>2
        <4> HIDE DEF all
        <4>7. UpToDone(all, events)
          BY <4>5, <4>6 DEF UpToDone
        <4> QED BY <4>1, <4>7 DEF all
      <3>3. CASE ~s.closedByDownstream /\ id \in set.done
        <4> DEFINE d == Len(got)
                   all == Append(got, e)
        <4>1. d \in 1..n /\ events[d].t = "done" /\ UpToDone(got, events) /\ r.got = all
          BY <1>3, <1>5, <3>3
        <4>2. /\ Len(all) = d + 1 /\ all[d + 1] = e /\ \A i \in 1..d : all[i] = got[i]
          BY <1>2, AppendProperties
        <4>3. \A i \in 1..d : got[i] = events[i] /\ i \in DOMAIN events
          BY <1>1, <4>1 DEF UpToDone
        <4> HIDE DEF all, got, r, d
        <4>4. \A i \in 1..d : events[i].t = "done" <=> i = d
          BY <4>1, <4>3 DEF EndsOnce
        <4>5. Len(all) - 1 = d /\ Len(all) >= 2 /\ Len(all) <= Len(events) /\ Len(all) = d + 1
          BY <2>2, <4>1, <4>2
        <4>6. ClosedEarly(all, events)
          BY <1>6, <2>2, <4>2, <4>3, <4>4, <4>5 DEF ClosedEarly
        <4> QED BY <4>1, <4>6
      <3> QED BY <3>1, <3>2, <3>3
    <2> QED BY <2>1, <2>3 DEF Follows
  <1>7. CASE e.t # "close"
    <2>1. id \notin set.done
      BY <1>7
    <2>2. \A i \in 1..n : events[i].t # "done"
      BY <1>3, <2>1
    <2>3. id \in next.done <=> e.t = "done"
      <3>1. CASE e.t = "done"
        BY <3>1, AfterReceiveFacts
      <3>2. CASE e.t # "done"
        BY <1>7, <2>1, <3>2, AfterReceiveFacts
      <3> QED BY <3>1, <3>2
    <2>4. \A i \in 1..n + 1 : events[i].t # "close"
      BY <1>3, <1>4, <1>7
    <2>5. id \in next.done <=> \E i \in 1..n + 1 : events[i].t = "done"
      <3>1. n + 1 \in 1..n + 1
        OBVIOUS
      <3> QED BY <1>4, <2>2, <2>3, <3>1
    <2>6. CASE s.closedByDownstream
      BY <1>3, <1>5, <2>4, <2>5, <2>6 DEF Follows
    <2>7. CASE ~s.closedByDownstream
      <3>1. Len(got) = n /\ UpToDone(got, events) /\ r.got = Append(got, e)
        BY <1>3, <1>5, <2>1, <2>7
      <3>2. /\ Len(Append(got, e)) = n + 1 /\ Append(got, e)[n + 1] = e
            /\ \A i \in 1..n : Append(got, e)[i] = got[i]
        BY <1>2, <3>1, AppendProperties
      <3>3. \A i \in 1..n : got[i] = events[i]
        BY <3>1 DEF UpToDone
      <3> HIDE DEF got, r
      <3> DEFINE all == Append(got, e)
      <3>4. Len(all) = n + 1 /\ \A i \in 1..n + 1 : all[i] = events[i]
        BY <1>4, <3>2, <3>3
      <3>5. \A i \in 1..n + 1 : i < n + 1 => events[i].t # "done"
        BY <1>4, <2>2
      <3> HIDE DEF all
      <3>6. UpToDone(all, events)
        BY <3>4, <3>5 DEF UpToDone
      <3>7. r.got = all
        BY <3>1 DEF all
      <3>8. n + 1 \in 1..n + 1
        OBVIOUS
      <3> QED BY <2>3, <2>4, <2>5, <3>4, <3>6, <3>7, <3>8 DEF Follows, r
    <2> QED BY <2>6, <2>7
  <1> QED BY <1>6, <1>7

-----------------------------------------------------------------------------
\* From the handlers to the outputs

LEMMA FlowNext ==
    ASSUME NEW c \in [Id -> Nat], NEW pos \in [DOMAIN toClient' -> Nat],
           Posted(c, pos, toClient', emitted'),
           \A id \in Id : Follows(output'[id], id, incomingStreams', emitted'[id], c[id])
    PROVE  FlowInv'
  <1>1. Posted(c, pos, toClient, emitted)'
    BY Zenon DEF Posted
  <1>2. \A id \in Id : Follows(output[id], id, incomingStreams, emitted[id], c[id])'
    BY Zenon DEF Follows, UpToDone, ClosedEarly
  <1> QED BY <1>1, <1>2 DEF FlowInv

\* A request that has not been made has no events and no place in the set.
LEMMA NothingYet ==
    ASSUME TypeOK, RequestsInv, HandlersInv, StreamsInv, NEW id \in Id, id > issued
    PROVE  emitted[id] = <<>> /\ output[id] = NewStream
  <1>1. handler[id] = "none"
    BY RequestIds DEF RequestsInv
  <1> QED BY <1>1 DEF HandlersInv, EndsOnce, StreamsInv

LEMMA FlowStep ==
    TypeOK /\ RequestsInv /\ HandlersInv /\ StreamsInv /\ FlowInv /\ [Next]_vars => FlowInv'
  <1> SUFFICES ASSUME TypeOK, RequestsInv, HandlersInv, StreamsInv, FlowInv, [Next]_vars
               PROVE  FlowInv'
    OBVIOUS
  <1> USE DEF serverVars, clientVars
  <1>1. /\ incomingStreams \in StreamSets(Id) /\ output \in [Id -> Outputs]
        /\ emitted \in [Id -> Seq(Event)] /\ toClient \in Seq(Message)
        /\ \A id \in Id : output[id] \in Outputs /\ emitted[id] \in Seq(Event)
    BY DEF TypeOK, Message
  <1>2. PICK c \in [Id -> Nat], pos \in [DOMAIN toClient -> Nat] :
           /\ Posted(c, pos, toClient, emitted)
           /\ \A id \in Id : Follows(output[id], id, incomingStreams, emitted[id], c[id])
    BY DEF FlowInv
  <1>3. \A id \in Id : c[id] \in Nat /\ c[id] <= Len(emitted[id])
    BY <1>2 DEF Posted
  \* Steps that move no event.
  <1>4. ASSUME UNCHANGED <<toClient, emitted>>,
               \A id \in Id : Follows(output'[id], id, incomingStreams', emitted[id], c[id])
        PROVE  FlowInv'
    BY <1>2, <1>4, FlowNext
  <1>5. CASE SendRequestRefused
    <2>1. /\ issued < MaxRequests /\ issued' = issued + 1
          /\ output' = [output EXCEPT ![issued'].closedByUpstream = TRUE]
          /\ UNCHANGED <<incomingStreams, toClient, emitted>>
      BY <1>5 DEF SendRequestRefused
    <2>2. issued' \in Id
      BY <2>1, NewRequest
    <2>3. \A id \in Id : /\ output'[id].got = output[id].got
                         /\ output'[id].closedByDownstream = output[id].closedByDownstream
      BY <1>1, <2>1, <2>2 DEF Outputs
    <2>4. ASSUME NEW id \in Id
          PROVE  Follows(output'[id], id, incomingStreams', emitted[id], c[id])
      BY <1>2, <2>1, <2>3, FollowsAlike, ZenonT(60)
    <2> QED BY <1>4, <2>1, <2>4
  <1>6. ASSUME issued < MaxRequests, issued' = issued + 1,
               incomingStreams' = AddStream(incomingStreams, issued'),
               UNCHANGED <<output, toClient, emitted>>
        PROVE  FlowInv'
    <2>1. issued' \in Id /\ issued' > issued
      BY <1>6, NewRequest
    <2>2. /\ incomingStreams'.open = incomingStreams.open \cup {issued'}
          /\ incomingStreams'.done = incomingStreams.done \ {issued'}
      BY <1>1, <1>6, <2>1, AddStreamFacts
    <2>3. emitted[issued'] = <<>> /\ output[issued'] = NewStream
      BY <2>1, NothingYet
    <2>4. c[issued'] = 0 /\ output[issued'].got = <<>>
      <3>1. Len(emitted[issued']) = 0
        BY <2>3
      <3>2. c[issued'] = 0
        BY <1>3, <2>1, <3>1
      <3> QED BY <2>3, <3>2 DEF NewStream
    <2>5. ASSUME NEW id \in Id
          PROVE  Follows(output'[id], id, incomingStreams', emitted[id], c[id])
      <3>1. CASE id = issued'
        BY <1>6, <2>2, <2>3, <2>4, <3>1, FollowsNothing
      <3>2. CASE id # issued'
        BY <1>2, <1>6, <2>2, <3>2, FollowsAlike
      <3> QED BY <3>1, <3>2
    <2> QED BY <1>4, <1>6, <2>5
  <1>7. CASE SendRequest
    BY <1>6, <1>7 DEF SendRequest
  <1>8. CASE PostRequest
    BY <1>6, <1>8 DEF PostRequest
  <1>9. ASSUME output' = StopAll(incomingStreams), incomingStreams' = CloseAll(incomingStreams),
               UNCHANGED <<toClient, emitted>>
        PROVE  FlowInv'
    <2>1. incomingStreams'.open = {}
      BY <1>1, <1>9, CloseAllFacts
    <2>2. ASSUME NEW id \in Id
          PROVE  Follows(output'[id], id, incomingStreams', emitted[id], c[id])
      <3>1. output'[id].got = output[id].got
        BY <1>1, <1>9, StopAllFacts
      <3> QED BY <1>2, <2>1, <3>1 DEF Follows
    <2> QED BY <1>4, <1>9, <2>2
  <1>10. CASE ClientClose
    BY <1>9, <1>10 DEF ClientClose
  <1>11. CASE ClientClosed
    BY <1>9, <1>11 DEF ClientClosed
  <1>12. ASSUME NEW id \in Id, ConsumerStops(id)
         PROVE  FlowInv'
    <2>1. /\ output' = [output EXCEPT ![id] = Stopped(@)]
          /\ UNCHANGED <<incomingStreams, toClient, emitted>>
      BY <1>12 DEF ConsumerStops
    <2>2. /\ output'[id] = Stopped(output[id])
          /\ \A other \in Id : other # id => output'[other] = output[other]
      BY <1>1, <2>1
    <2>3. output'[id].got = output[id].got /\ output'[id].closedByDownstream = TRUE
      BY <1>1, <2>2 DEF Stopped, Outputs
    <2>4. ASSUME NEW other \in Id
          PROVE  Follows(output'[other], other, incomingStreams', emitted[other], c[other])
      <3>1. CASE other = id
        BY <1>2, <2>1, <2>3, <3>1, FollowsAlike
      <3>2. CASE other # id
        BY <1>2, <2>1, <2>2, <3>2
      <3> QED BY <3>1, <3>2
    <2> QED BY <1>4, <2>1, <2>4
  <1>13. CASE UNCHANGED <<output, incomingStreams, toClient, emitted>>
    BY <1>2, <1>4, <1>13
  <1>14. ASSUME NEW id \in Id, NEW e \in Event, HandlerEmits(id, e)
         PROVE  FlowInv'
    <2> DEFINE m == [id |-> id, event |-> e]
    <2>1. /\ handler[id] = "running"
          /\ emitted' = [emitted EXCEPT ![id] = Append(@, e)]
          /\ toClient' = Append(toClient, m)
          /\ UNCHANGED <<output, incomingStreams>>
      BY <1>14 DEF HandlerEmits
    <2>2. m \in Message /\ m.id = id /\ m.event = e
      BY DEF Message
    <2> HIDE DEF m
    <2>3. /\ emitted' \in [Id -> Seq(Event)] /\ emitted'[id] = Append(emitted[id], e)
          /\ \A other \in Id : other # id => emitted'[other] = emitted[other]
      <3>1. Append(emitted[id], e) \in Seq(Event)
        BY <1>1, AppendProperties
      <3> QED BY <1>1, <2>1, <3>1
    <2>4. PICK q \in [DOMAIN toClient' -> Nat] : Posted(c, q, toClient', emitted')
      <3>1. \E q \in [DOMAIN Append(toClient, m) -> Nat] : Posted(c, q, Append(toClient, m), emitted')
        BY <1>1, <1>2, <2>2, <2>3, PostedAppend, ZenonT(60)
      <3> QED BY <2>1, <3>1
    <2>5. ASSUME NEW other \in Id
          PROVE  Follows(output'[other], other, incomingStreams', emitted'[other], c[other])
      <3>1. CASE other = id
        <4>1. EndsOnce(emitted[id], "running")
          BY <2>1 DEF HandlersInv
        <4> QED BY <1>1, <1>2, <1>3, <2>1, <2>3, <3>1, <4>1, FollowsLonger
      <3>2. CASE other # id
        BY <1>2, <2>1, <2>3, <3>2
      <3> QED BY <3>1, <3>2
    <2> QED BY <2>4, <2>5, FlowNext
  <1>15. CASE ClientReceive
    <2> DEFINE id == Head(toClient).id
               e == Head(toClient).event
               d == [c EXCEPT ![id] = c[id] + 1]
    <2>1. toClient # <<>> /\ toClient' = Tail(toClient) /\ emitted' = emitted
      BY <1>15 DEF ClientReceive
    <2>2. /\ id \in Id /\ c[id] + 1 \in 1..Len(emitted[id]) /\ e = emitted[id][c[id] + 1]
          /\ \E q \in [DOMAIN Tail(toClient) -> Nat] : Posted(d, q, Tail(toClient), emitted)
      <3> HIDE DEF id, e, d
      <3>1. \A v : v = Head(toClient).id =>
              /\ v \in Id /\ c[v] + 1 \in 1..Len(emitted[v])
              /\ Head(toClient).event = emitted[v][c[v] + 1]
              /\ \E q \in [DOMAIN Tail(toClient) -> Nat] :
                    Posted([c EXCEPT ![v] = c[v] + 1], q, Tail(toClient), emitted)
        BY <1>1, <1>2, <2>1, PostedTail
      <3> QED BY <3>1 DEF id, e, d
    <2>3. PICK q \in [DOMAIN toClient' -> Nat] : Posted(d, q, toClient', emitted')
      BY <2>1, <2>2
    <2>4. /\ e \in Event
          /\ \/ /\ id \in incomingStreams.open /\ (id \in incomingStreams.done => e.t = "close")
                /\ incomingStreams' = AfterReceive(incomingStreams, id, e.t)
                /\ output' = [output EXCEPT ![id] = Receiving(@, e)]
             \/ /\ id \in incomingStreams.done /\ id \in incomingStreams.open /\ e.t # "close"
                /\ UNCHANGED <<incomingStreams, output>>
             \/ id \notin incomingStreams.open /\ UNCHANGED <<incomingStreams, output>>
      BY <1>15, ReceivedWhere
    <2>5. d \in [Id -> Nat] /\ d[id] = c[id] + 1 /\ \A x \in Id : x # id => d[x] = c[x]
      BY <1>3, <2>2
    <2> HIDE DEF id, e, d
    <2>6. Follows(output'[id], id, incomingStreams', emitted[id], c[id] + 1)
      <3>1. Follows(output[id], id, incomingStreams, emitted[id], c[id]) /\ c[id] \in Nat
            /\ EndsOnce(emitted[id], handler[id])
        BY <1>2, <1>3, <2>2 DEF HandlersInv
      <3>2. CASE /\ id \in incomingStreams.open /\ (id \in incomingStreams.done => e.t = "close")
                 /\ incomingStreams' = AfterReceive(incomingStreams, id, e.t)
                 /\ output' = [output EXCEPT ![id] = Receiving(@, e)]
        <4>1. output'[id] = Receiving(output[id], e)
          BY <1>1, <2>2, <3>2
        <4>2. Follows(Receiving(output[id], e), id, AfterReceive(incomingStreams, id, e.t),
                      emitted[id], c[id] + 1)
          BY <1>1, <2>2, <3>1, <3>2, FollowsReceived
        <4> QED BY <3>2, <4>1, <4>2
      <3>3. CASE /\ id \in incomingStreams.done /\ id \in incomingStreams.open /\ e.t # "close"
                 /\ UNCHANGED <<incomingStreams, output>>
        BY <1>1, <2>2, <3>1, <3>3, FollowsRefused
      <3>4. CASE id \notin incomingStreams.open /\ UNCHANGED <<incomingStreams, output>>
        BY <3>1, <3>4, FollowsOutside
      <3> QED BY <2>4, <3>2, <3>3, <3>4
    <2>7. ASSUME NEW x \in Id, x # id
          PROVE  Follows(output'[x], x, incomingStreams', emitted[x], c[x])
      <3>1. output'[x] = output[x]
        BY <1>1, <2>4, <2>7
      <3>2. x \in incomingStreams'.open =>
              x \in incomingStreams.open /\ (x \in incomingStreams'.done <=> x \in incomingStreams.done)
        <4>1. CASE UNCHANGED incomingStreams
          BY <4>1
        <4>2. CASE incomingStreams' = AfterReceive(incomingStreams, id, e.t)
          <5>1. CASE e.t = "close"
            BY <1>1, <2>2, <2>7, <4>2, <5>1, AfterReceiveFacts
          <5>2. CASE e.t = "done"
            BY <1>1, <2>2, <2>7, <4>2, <5>2, AfterReceiveFacts
          <5>3. CASE e.t \notin {"close", "done"}
            BY <1>1, <2>2, <4>2, <5>3, AfterReceiveFacts
          <5> QED BY <5>1, <5>2, <5>3
        <4> QED BY <2>4, <4>1, <4>2
      <3> QED BY <1>2, <3>1, <3>2, FollowsAlike
    <2>8. ASSUME NEW x \in Id
          PROVE  Follows(output'[x], x, incomingStreams', emitted'[x], d[x])
      BY <2>1, <2>5, <2>6, <2>7
    <2> QED BY <2>3, <2>5, <2>8, FlowNext
  <1> QED
    BY <1>5, <1>7, <1>8, <1>10, <1>11, <1>12, <1>13, <1>14, <1>15
       DEF Next, ClientOpen, ClientClosesPort, ServerReceive, ServerClosed, ServerClosesPort, vars

LEMMA ErrorsStep ==
    TypeOK /\ RequestsInv /\ HandlersInv /\ StreamsInv /\ ErrorsInv /\ FlowInv /\ [Next]_vars
       => ErrorsInv'
  <1> SUFFICES ASSUME TypeOK, RequestsInv, HandlersInv, StreamsInv, ErrorsInv, FlowInv, [Next]_vars,
                      NEW err \in errors'
               PROVE  IF err.error = "no stream with id"
                      THEN transport' = "socket" /\ clientState' \in {"closing", "closed"}
                      ELSE WentOn(emitted'[err.id])
    BY Zenon DEF ErrorsInv, WentOn
  <1> USE DEF serverVars, clientVars
  <1>1. /\ incomingStreams \in StreamSets(Id) /\ output \in [Id -> Outputs]
        /\ emitted \in [Id -> Seq(Event)] /\ toClient \in Seq(Message)
        /\ transport \in {"socket", "port"}
        /\ \A x \in errors : x.id \in Id
    BY DEF TypeOK, Message
  \* What has been thrown stays explained.
  <1>2. ASSUME err \in errors,
               transport' = transport,
               transport = "socket" /\ clientState \in {"closing", "closed"}
                  => clientState' \in {"closing", "closed"},
               \A id \in Id : WentOn(emitted[id]) => WentOn(emitted'[id])
        PROVE  IF err.error = "no stream with id"
               THEN transport' = "socket" /\ clientState' \in {"closing", "closed"}
               ELSE WentOn(emitted'[err.id])
    BY <1>1, <1>2 DEF ErrorsInv
  <1>3. CASE ClientReceive
    <2> DEFINE id == Head(toClient).id
               e == Head(toClient).event
    <2>1. toClient # <<>> /\ UNCHANGED <<clientState, transport, emitted>>
          /\ clientState \in {"open", "closing"}
      BY <1>3 DEF ClientReceive
    <2>2. PICK c \in [Id -> Nat], pos \in [DOMAIN toClient -> Nat] :
             /\ Posted(c, pos, toClient, emitted)
             /\ \A x \in Id : Follows(output[x], x, incomingStreams, emitted[x], c[x])
      BY DEF FlowInv
    <2>3. id \in Id /\ c[id] + 1 \in 1..Len(emitted[id]) /\ e = emitted[id][c[id] + 1]
      BY <1>1, <2>1, <2>2, PostedTail, ZenonT(60)
    <2>4. \/ errors' = errors
          \/ /\ id \in incomingStreams.done /\ id \in incomingStreams.open /\ e.t # "close"
             /\ errors' = errors \cup {[id |-> id, error |-> "validation failed"]}
          \/ /\ id \notin incomingStreams.open /\ id \notin incomingStreams.closed
             /\ errors' = errors \cup {[id |-> id, error |-> "no stream with id"]}
      BY <1>3, ReceivedWhere
    <2> HIDE DEF id, e
    <2>5. CASE err \in errors
      BY <1>2, <2>1, <2>5
    <2>6. CASE /\ id \in incomingStreams.done /\ id \in incomingStreams.open /\ e.t # "close"
               /\ err = [id |-> id, error |-> "validation failed"]
      <3>1. Follows(output[id], id, incomingStreams, emitted[id], c[id]) /\ c[id] \in Nat
        BY <2>2, <2>3
      <3>2. emitted[id] \in Seq(Event)
        BY <1>1, <2>3
      <3>3. WentOn(emitted[id])
        BY <2>3, <2>6, <3>1, <3>2, FollowsRefused
      <3> QED BY <2>1, <2>6, <3>3
    <2>7. CASE /\ id \notin incomingStreams.open /\ id \notin incomingStreams.closed
               /\ err = [id |-> id, error |-> "no stream with id"]
      <3>1. emitted[id] # <<>>
        <4>1. Len(emitted[id]) # 0
          BY <1>1, <2>2, <2>3
        <4> QED BY <4>1
      <3>2. id \in 1..issued
        <4>1. handler[id] # "none"
          BY <2>3, <3>1 DEF HandlersInv, EndsOnce
        <4> QED BY <2>3, <4>1, RequestIds DEF RequestsInv
      <3>3. ~Listening
        BY <2>7, <3>2 DEF StreamsInv
      <3> QED BY <1>1, <2>1, <2>7, <3>3 DEF Listening
    <2> QED BY <2>4, <2>5, <2>6, <2>7
  <1>4. ASSUME NEW id \in Id, NEW e \in Event, HandlerEmits(id, e)
        PROVE  IF err.error = "no stream with id"
               THEN transport' = "socket" /\ clientState' \in {"closing", "closed"}
               ELSE WentOn(emitted'[err.id])
    <2>1. /\ emitted' = [emitted EXCEPT ![id] = Append(@, e)]
          /\ UNCHANGED <<clientState, transport, errors>>
      BY <1>4 DEF HandlerEmits
    <2>2. /\ emitted'[id] = Append(emitted[id], e) /\ emitted[id] \in Seq(Event)
          /\ \A x \in Id : x # id => emitted'[x] = emitted[x]
      BY <1>1, <2>1
    <2>3. WentOn(emitted[id]) => WentOn(emitted'[id])
      <3> DEFINE s == emitted[id]
                 k == Len(s)
                 t == Append(s, e)
      <3>1. k \in Nat /\ DOMAIN s = 1..k /\ DOMAIN t = 1..k + 1 /\ \A i \in 1..k : t[i] = s[i]
        BY <2>2, EventsOf, AppendProperties, LenProperties
      <3> HIDE DEF s, t, k
      <3>2. \A i \in DOMAIN s : i \in DOMAIN t /\ t[i] = s[i]
        BY <3>1
      <3>3. WentOn(s) => WentOn(t)
        BY <3>2 DEF WentOn
      <3> QED BY <2>2, <3>3 DEF s, t
    <2>4. \A x \in Id : WentOn(emitted[x]) => WentOn(emitted'[x])
      BY <2>2, <2>3
    <2> QED BY <1>2, <2>1, <2>4
  <1>5. ASSUME UNCHANGED <<emitted, errors, transport>>,
               transport = "socket" /\ clientState \in {"closing", "closed"}
                  => clientState' \in {"closing", "closed"}
        PROVE  IF err.error = "no stream with id"
               THEN transport' = "socket" /\ clientState' \in {"closing", "closed"}
               ELSE WentOn(emitted'[err.id])
    BY <1>2, <1>5
  <1>6. CASE ClientOpen \/ ClientClose \/ ClientClosed \/ ClientClosesPort
    BY <1>5, <1>6 DEF ClientOpen, ClientClose, ClientClosed, ClientClosesPort
  <1>7. CASE UNCHANGED <<emitted, errors, transport, clientState>>
    BY <1>5, <1>7
  <1> QED
    BY <1>3, <1>4, <1>6, <1>7
       DEF Next, SendRequestRefused, SendRequest, PostRequest, ConsumerStops,
           ServerReceive, ServerClosed, ServerClosesPort, vars

-----------------------------------------------------------------------------
\* The invariant

LEMMA BridgeInit == Init => BridgeInv
  <1> SUFFICES ASSUME Init PROVE BridgeInv
    OBVIOUS
  <1> USE DEF Init
  <1>1. RequestsInv
    BY PendingEmpty DEF RequestsInv
  <1>2. HandlersInv
    BY DEF HandlersInv, EndsOnce
  <1>3. 1..issued = {}
    OBVIOUS
  <1>4. StreamsInv
    BY <1>3 DEF StreamsInv, NoOutputOpenAfterClose, NoStreams
  <1>5. ErrorsInv
    BY DEF ErrorsInv
  <1>6. FlowInv
    <2> DEFINE c == [id \in Id |-> 0]
               pos == [k \in DOMAIN toClient |-> 0]
    <2>1. DOMAIN toClient = {} /\ c \in [Id -> Nat] /\ pos \in [DOMAIN toClient -> Nat]
      OBVIOUS
    <2>2. \A id \in Id : emitted[id] = <<>> /\ Len(emitted[id]) = 0 /\ c[id] = 0
      OBVIOUS
    <2>3. Posted(c, pos, toClient, emitted)
      <3> HIDE DEF c, pos
      <3>1. 1..0 = {}
        OBVIOUS
      <3> QED BY <2>1, <2>2, <3>1 DEF Posted
    <2>4. \A id \in Id : Follows(output[id], id, incomingStreams, emitted[id], c[id])
      <3> SUFFICES ASSUME NEW id \in Id
                   PROVE  Follows(output[id], id, incomingStreams, emitted[id], c[id])
        OBVIOUS
      <3>1. output[id].got = <<>> /\ id \notin incomingStreams.done
        BY DEF NewStream, NoStreams
      <3> QED BY <2>2, <3>1, FollowsNothing
    <2> HIDE DEF c, pos
    <2> QED BY <2>1, <2>3, <2>4 DEF FlowInv
  <1> QED BY <1>1, <1>2, <1>4, <1>5, <1>6 DEF BridgeInv

THEOREM BridgeInvariant == Spec => [](TypeOK /\ BridgeInv)
  <1>1. TypeOK /\ TypeOK' /\ BridgeInv /\ [Next]_vars => BridgeInv'
    BY RequestsStep, HandlersStep, StreamsStep, FlowStep, ErrorsStep DEF BridgeInv
  <1> QED BY <1>1, TypeInit, TypeStep, BridgeInit, PTL DEF Spec

-----------------------------------------------------------------------------
\* What the invariant says

\* The legal part of a handler's events, element by element: those up to its
\* first done event, and then the close if that is the last.
LEMMA LegalFacts ==
    ASSUME NEW events \in Seq(Event)
    PROVE  LET n == Len(Legal(events))
               k == Len(events)
           IN  /\ Legal(events) \in Seq(Event) /\ n \in Nat
               /\ (\A i \in 1..k : events[i].t # "done") => Legal(events) = events
               /\ \A d \in 1..k :
                     events[d].t = "done" /\ (\A i \in 1..k : events[i].t = "done" => d <= i) =>
                        /\ \A i \in 1..d : Legal(events)[i] = events[i]
                        /\ events[k].t = "close" => n = d + 1 /\ Legal(events)[n] = events[k]
                        /\ events[k].t # "close" => n = d
  <1> DEFINE k == Len(events)
             done == {i \in DOMAIN events : events[i].t = "done"}
             m == Min(done)
             first == SubSeq(events, 1, m)
             close == IF Last(events).t = "close" THEN <<Last(events)>> ELSE <<>>
  <1>1. k \in Nat /\ DOMAIN events = 1..k /\ \A i \in 1..k : events[i] \in Event
    BY EventsOf
  <1>2. CASE done = {}
    <2>1. Legal(events) = events
      BY <1>2 DEF Legal
    <2>2. \A d \in 1..k : events[d].t # "done"
      BY <1>1, <1>2
    <2> QED BY <1>1, <2>1, <2>2
  <1>3. CASE done # {}
    <2>1. Legal(events) = first \o close
      BY <1>3 DEF Legal
    <2>2. m \in done /\ \A y \in done : m <= y
      <3>1. done \in SUBSET Nat
        BY <1>1
      <3> HIDE DEF done
      <3> QED BY <1>3, <3>1, MinOfNumbers DEF m
    <2> HIDE DEF m
    <2>3. m \in 1..k /\ events[m].t = "done" /\ \A y \in 1..k : events[y].t = "done" => m <= y
      BY <1>1, <2>2
    <2> HIDE DEF done
    <2>4. first \in Seq(Event) /\ Len(first) = m /\ \A i \in 1..m : first[i] = events[i]
      <3>1. \A i \in 1..m : events[i] \in Event
        BY <1>1, <2>3
      <3> QED BY <1>1, <2>3, <3>1, SubSeqProperties
    <2>5. Last(events) = events[k] /\ events[k] \in Event
      BY <1>1, <2>3 DEF Last
    <2>6. /\ close \in Seq(Event)
          /\ events[k].t = "close" => Len(close) = 1 /\ close[1] = events[k]
          /\ events[k].t # "close" => Len(close) = 0
      BY <2>5
    <2> HIDE DEF first, close
    <2>7. /\ first \o close \in Seq(Event) /\ Len(first \o close) = m + Len(close)
          /\ \A i \in 1..m + Len(close) :
                (first \o close)[i] = IF i <= m THEN first[i] ELSE close[i - m]
      BY <2>4, <2>6, ConcatProperties
    <2> DEFINE all == first \o close
               n == Len(all)
    <2>8. \A i \in 1..m : all[i] = events[i]
      BY <2>3, <2>4, <2>6, <2>7
    <2>9. events[k].t = "close" => n = m + 1 /\ all[n] = events[k]
      <3> SUFFICES ASSUME events[k].t = "close" PROVE n = m + 1 /\ all[n] = events[k]
        OBVIOUS
      <3>1. m \in Nat /\ Len(close) = 1 /\ close[1] = events[k]
        BY <1>1, <2>3, <2>6
      <3>2. m + 1 \in 1..m + 1 /\ ~(m + 1 <= m) /\ (m + 1) - m = 1
        BY ONLY <3>1
      <3> QED BY <2>7, <3>1, <3>2
    <2>10. events[k].t # "close" => n = m
      BY <2>3, <2>6, <2>7
    <2>11. all \in Seq(Event) /\ n \in Nat
      BY <2>7, LenProperties
    <2>12. \A d \in 1..k :
              events[d].t = "done" /\ (\A i \in 1..k : events[i].t = "done" => d <= i) => d = m
      BY <2>3
    <2>13. Legal(events) = all
      BY <2>1
    <2> HIDE DEF all, n, k
    <2> DEFINE n2 == Len(Legal(events))
    <2>14. n2 = n
      BY <2>13 DEF n
    <2> HIDE DEF n2
    <2>15. ~\A i \in 1..k : events[i].t # "done"
      BY <2>3
    <2>16. /\ Legal(events) \in Seq(Event) /\ n2 \in Nat
           /\ \A d \in 1..k :
                events[d].t = "done" /\ (\A i \in 1..k : events[i].t = "done" => d <= i) =>
                   /\ \A i \in 1..d : Legal(events)[i] = events[i]
                   /\ events[k].t = "close" => n2 = d + 1 /\ Legal(events)[n2] = events[k]
                   /\ events[k].t # "close" => n2 = d
      BY <2>8, <2>9, <2>10, <2>11, <2>12, <2>13, <2>14
    <2> QED BY <2>15, <2>16 DEF n2, k
  <1> QED BY <1>2, <1>3

LEMMA FollowsLegal ==
    ASSUME NEW events \in Seq(Event), NEW h, EndsOnce(events, h), NEW got \in Seq(Event),
           UpToDone(got, events) \/ ClosedEarly(got, events)
    PROVE  IsPrefix(got, Legal(events))
  <1> DEFINE k == Len(events)
             g == Len(got)
             legal == Legal(events)
             n == Len(legal)
  <1>1. k \in Nat /\ DOMAIN events = 1..k /\ g \in Nat
    BY EventsOf
  <1>2. /\ legal \in Seq(Event) /\ n \in Nat
        /\ (\A i \in 1..k : events[i].t # "done") => legal = events
        /\ \A d \in 1..k :
              events[d].t = "done" /\ (\A i \in 1..k : events[i].t = "done" => d <= i) =>
                 /\ \A i \in 1..d : legal[i] = events[i]
                 /\ events[k].t = "close" => n = d + 1 /\ legal[n] = events[k]
                 /\ events[k].t # "close" => n = d
    BY LegalFacts
  <1> HIDE DEF k, g, legal, n
  <1>3. \A i, j \in 1..k : events[i].t = "done" /\ events[j].t = "done" => i = j
    BY <1>1 DEF EndsOnce
  <1>4. CASE UpToDone(got, events)
    <2>1. g <= k /\ (\A i \in 1..g : got[i] = events[i])
          /\ \A i \in 1..g : i < g => events[i].t # "done"
      BY <1>4 DEF UpToDone, k, g
    <2>2. CASE \A i \in 1..k : events[i].t # "done"
      BY <1>2, <2>1, <2>2, PrefixOf DEF k, g, legal
    <2>3. CASE ~\A i \in 1..k : events[i].t # "done"
      <3>1. PICK d \in 1..k : events[d].t = "done"
        BY <2>3
      <3>2. \A i \in 1..k : events[i].t = "done" => d <= i
        BY <1>1, <1>3, <3>1
      <3>3. (\A i \in 1..d : legal[i] = events[i]) /\ d <= n
        <4>1. n = d + 1 \/ n = d
          BY <1>2, <3>1, <3>2
        <4> QED BY <1>1, <1>2, <3>1, <3>2, <4>1
      <3>4. g <= d
        <4>1. ~(d < g)
          BY <1>1, <2>1, <3>1
        <4> QED BY <1>1, <4>1
      <3>5. g <= n /\ \A i \in 1..g : got[i] = legal[i]
        <4>1. \A i \in 1..g : i \in 1..d
          BY <1>1, <3>4
        <4> QED BY <1>1, <1>2, <2>1, <3>3, <3>4, <4>1
      <3> QED BY <1>2, <3>5, PrefixOf DEF g, n, legal
    <2> QED BY <2>2, <2>3
  <1>5. CASE ClosedEarly(got, events)
    <2> DEFINE d == g - 1
    <2>1. /\ g >= 2 /\ g <= k /\ d \in 1..k
          /\ \A i \in 1..d : got[i] = events[i]
          /\ \A i \in 1..d : events[i].t = "done" <=> i = d
          /\ events[k].t = "close" /\ got[g] = events[k]
      <3>1. /\ g >= 2 /\ g <= k
            /\ \A i \in 1..d : got[i] = events[i]
            /\ \A i \in 1..d : events[i].t = "done" <=> i = d
            /\ events[k].t = "close" /\ got[g] = events[k]
        BY <1>5, Zenon DEF ClosedEarly, k, g
      <3>2. d \in 1..k
        BY <1>1, <3>1
      <3> QED BY <3>1, <3>2
    <2>2. d \in 1..d /\ d + 1 = g
      BY <1>1, <2>1
    <2> HIDE DEF d
    <2>3. events[d].t = "done"
      BY <2>1, <2>2
    <2>4. \A i \in 1..k : events[i].t = "done" => d <= i
      BY <1>1, <1>3, <2>1, <2>3
    <2>5. (\A i \in 1..d : legal[i] = events[i]) /\ n = g /\ legal[g] = events[k]
      BY <1>2, <2>1, <2>2, <2>3, <2>4
    <2>6. \A i \in 1..g : i \in 1..d \/ i = g
      BY <1>1, <2>2 DEF d
    <2>7. g <= n /\ \A i \in 1..g : got[i] = legal[i]
      BY <1>1, <2>1, <2>5, <2>6
    <2> QED BY <1>2, <2>7, PrefixOf DEF g, n, legal
  <1> QED BY <1>4, <1>5

LEMMA WentOnCutsOff ==
    ASSUME NEW events \in Seq(Event), NEW h, EndsOnce(events, h), WentOn(events)
    PROVE  Legal(events) # events
  <1> DEFINE k == Len(events)
  <1>1. k \in Nat /\ DOMAIN events = 1..k
    BY EventsOf
  <1>2. PICK d \in 1..k, i \in 1..k : d < i /\ events[d].t = "done" /\ events[i].t # "close"
    BY <1>1 DEF WentOn
  <1>3. \A j \in 1..k : events[j].t = "done" => d <= j
    BY <1>1, <1>2 DEF EndsOnce
  <1>4. Len(Legal(events)) = IF events[k].t = "close" THEN d + 1 ELSE d
    BY <1>2, <1>3, LegalFacts
  <1> HIDE DEF k
  <1>5. CASE events[k].t = "close"
    <2>1. i < k
      BY <1>1, <1>2, <1>5
    <2>2. Len(Legal(events)) < k
      BY <1>1, <1>2, <1>4, <1>5, <2>1
    <2> QED BY <1>1, <2>2 DEF k
  <1>6. CASE events[k].t # "close"
    <2>1. Len(Legal(events)) < k
      BY <1>1, <1>2, <1>4, <1>6
    <2> QED BY <1>1, <2>1 DEF k
  <1> QED BY <1>5, <1>6

\* Whatever drops or stops, an output has the first of its own handler's events,
\* and none from beyond done but the close.
THEOREM OutputsFollowHandlers == Spec => []OutputFollowsHandler
  <1>1. TypeOK /\ BridgeInv => OutputFollowsHandler
    <2> SUFFICES ASSUME TypeOK, BridgeInv, NEW id \in Id
                 PROVE  IsPrefix(output[id].got, Legal(emitted[id]))
      BY DEF OutputFollowsHandler
    <2>1. emitted[id] \in Seq(Event) /\ output[id].got \in Seq(Event)
      BY DEF TypeOK, Outputs
    <2>2. EndsOnce(emitted[id], handler[id])
      BY DEF BridgeInv, HandlersInv
    <2>3. UpToDone(output[id].got, emitted[id]) \/ ClosedEarly(output[id].got, emitted[id])
      BY DEF BridgeInv, FlowInv, Follows
    <2> QED BY <2>1, <2>2, <2>3, FollowsLegal
  <1> QED BY <1>1, BridgeInvariant, PTL

\* The client's listener throws for messages that overlap close() of a socket, and
\* for handlers that go on after done; for nothing else.
THEOREM ErrorsHaveCauses == Spec => []ErrorsExplained
  <1>1. TypeOK /\ BridgeInv => ErrorsExplained
    <2> SUFFICES ASSUME TypeOK, BridgeInv, NEW err \in errors, err.error # "no stream with id"
                 PROVE  Legal(emitted[err.id]) # emitted[err.id]
      BY DEF BridgeInv, ErrorsInv, ErrorsExplained
    <2>1. err.id \in Id /\ emitted[err.id] \in Seq(Event)
      BY DEF TypeOK
    <2>2. EndsOnce(emitted[err.id], handler[err.id]) /\ WentOn(emitted[err.id])
      BY <2>1 DEF BridgeInv, HandlersInv, ErrorsInv
    <2> QED BY <2>1, <2>2, WentOnCutsOff
  <1> QED BY <1>1, BridgeInvariant, PTL

\* The loss of the socket closes the output of every request made so far, and a
\* request made later is refused with a closed one.
THEOREM NothingLeftOpen == Spec => []NoOutputOpenAfterClose
  <1>1. TypeOK /\ BridgeInv => NoOutputOpenAfterClose
    BY DEF BridgeInv, StreamsInv
  <1> QED BY <1>1, BridgeInvariant, PTL

=============================================================================
