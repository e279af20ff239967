------------------------- MODULE HttpExchange_proofs ------------------------
(***************************************************************************)
(* Theorems about HttpExchange, for any number of requests and events and    *)
(* however the response is cut into chunks.                                  *)
(***************************************************************************)
EXTENDS HttpExchange, NumberLemmas

\* TypeOK but for the client's streams.
PostsTyped ==
    /\ issued \in 0..MaxRequests
    /\ queuedMessages \in Seq(Id)
    /\ flushTimer = (queuedMessages # <<>>)
    /\ batches \in Seq(Batch)
    /\ handler \in [Id -> {"none", "running", "ended"}]
    /\ emitted \in [Id -> Seq(Event)]

\* A request waits in the queue once, before it is posted.
QueueInv ==
    /\ \A i \in DOMAIN queuedMessages :
          queuedMessages[i] <= issued /\ handler[queuedMessages[i]] = "none"
    /\ \A i, j \in DOMAIN queuedMessages : queuedMessages[i] = queuedMessages[j] => i = j
    /\ \A id \in Id : handler[id] # "none" => id <= issued

\* It is posted once.
PostsInv ==
    /\ \A b \in DOMAIN batches : batches[b].ids # <<>>
    /\ \A b \in DOMAIN batches : \A i \in DOMAIN batches[b].ids :
          /\ batches[b].ids[i] <= issued
          /\ \A j \in DOMAIN queuedMessages : queuedMessages[j] # batches[b].ids[i]
    /\ \A b, c \in DOMAIN batches : \A i \in DOMAIN batches[b].ids, j \in DOMAIN batches[c].ids :
          batches[b].ids[i] = batches[c].ids[j] => b = c /\ i = j

\* How far the server is with a post whose handlers are in the states h.
Served(post, h) ==
    /\ post.handled \in 0..Len(post.ids)
    /\ \A i \in DOMAIN post.ids : h[post.ids[i]] = "none" <=> post.handled < i
    /\ post.arrived => post.openRequests = {id \in ToSet(post.ids) : h[id] # "ended"}
    /\ ~post.arrived => post.handled = 0 /\ ~post.ended
    /\ post.arrived => (post.ended <=> post.openRequests = {})

ServedInv == \A b \in DOMAIN batches : Served(batches[b], handler)

HttpInv == QueueInv /\ PostsInv /\ ServedInv

-----------------------------------------------------------------------------
\* Posts

LEMMA UpdateFacts ==
    ASSUME NEW s \in Seq(Batch), NEW b \in DOMAIN s, NEW p \in Batch
    PROVE  /\ [s EXCEPT ![b] = p] \in Seq(Batch)
           /\ DOMAIN [s EXCEPT ![b] = p] = DOMAIN s
           /\ [s EXCEPT ![b] = p][b] = p
           /\ \A c \in DOMAIN s : c # b => [s EXCEPT ![b] = p][c] = s[c]
  <1> DEFINE t == [s EXCEPT ![b] = p]
  <1>1. DOMAIN t = DOMAIN s /\ t[b] = p /\ \A c \in DOMAIN s : c # b => t[c] = s[c]
    OBVIOUS
  <1>2. t \in Seq(Batch)
    BY ExceptSeq, LenProperties
  <1> QED BY <1>1, <1>2

\* What the server knows of a post.
SameAtServer(p, q) ==
    /\ p.ids = q.ids /\ p.handled = q.handled /\ p.openRequests = q.openRequests
    /\ p.arrived = q.arrived /\ p.ended = q.ended

LEMMA WholeFacts ==
    ASSUME NEW text \in Seq(Half)
    PROVE  Whole(text) \in Nat /\ 2 * Whole(text) <= Len(text)
  <1> DEFINE N == Len(text) \div 2
             S == {n \in 0..N : Complete(text, n)}
  <1>1. N \in Nat /\ 2 * N <= Len(text)
    BY LenProperties
  <1>2. 0 \in S
    <2>1. 1..0 = {}
      OBVIOUS
    <2> QED BY <1>1, <2>1 DEF Complete
  <1> HIDE DEF N
  <1>3. Max(S) \in 0..N
    <2> DEFINE T == S
    <2>1. T \in SUBSET (0..N) /\ T # {}
      BY <1>2
    <2> HIDE DEF T
    <2>2. Max(T) \in 0..N
      BY <1>1, <2>1, MaxOfNumbers
    <2> QED BY <2>2 DEF T
  <1>4. Whole(text) = Max(S)
    BY DEF Whole, N
  <1> HIDE DEF S
  <1>5. Len(text) \in Nat
    BY LenProperties
  <1> QED BY <1>1, <1>3, <1>4, <1>5

LEMMA RestTyped ==
    ASSUME NEW s \in Seq(Half), NEW m \in Nat
    PROVE  SubSeq(s, m + 1, Len(s)) \in Seq(Half)
  <1>1. Len(s) \in Nat /\ \A i \in 1..Len(s) : s[i] \in Half
    BY LenProperties, ElementOfSeq
  <1>2. \A i \in m + 1..Len(s) : s[i] \in Half
    BY <1>1
  <1> QED BY <1>1, <1>2, SubSeqProperties

LEMMA BuffersTyped ==
    ASSUME NEW text \in Seq(Half), NEW old \in Seq(Half), NEW buffer \in Buffers(text, old)
    PROVE  buffer \in Seq(Half)
  <1>1. Remaining(text) \in Seq(Half)
    <2>1. 2 * Whole(text) \in Nat
      BY WholeFacts
    <2> QED BY <2>1, RestTyped DEF Remaining
  <1>2. buffer \in {Remaining(text), old}
    BY DEF Buffers
  <1> QED BY <1>1, <1>2

LEMMA PostTyped ==
    ASSUME NEW p \in Batch
    PROVE  /\ p.ids \in Seq(Id) /\ p.handled \in Nat /\ p.openRequests \in SUBSET Id
           /\ p.arrived \in BOOLEAN /\ p.ended \in BOOLEAN
           /\ p.wire \in Seq(Half) /\ p.buffer \in Seq(Half)
  BY DEF Batch

\* A chunk is read into the buffer.
LEMMA ChunkPost ==
    ASSUME PostsTyped, NEW b \in DOMAIN batches, NEW n \in Nat, n <= Len(batches[b].wire),
           NEW more, ReceiveChunk(b, SubSeq(batches[b].wire, 1, n), more)
    PROVE  \E p \in Batch : SameAtServer(p, batches[b]) /\ batches' = [batches EXCEPT ![b] = p]
  <1> DEFINE q == batches[b]
             chunk == SubSeq(q.wire, 1, n)
  <1>1. q \in Batch /\ batches \in Seq(Batch)
    BY ElementOfSeq, LenProperties DEF PostsTyped
  <1> HIDE DEF q
  <1>2. q.wire \in Seq(Half) /\ q.buffer \in Seq(Half) /\ Len(q.wire) \in Nat
    BY <1>1, PostTyped, LenProperties
  <1>3. chunk \in Seq(Half) /\ Len(chunk) \in Nat
    <2>1. \A i \in 1..Len(q.wire) : q.wire[i] \in Half
      BY <1>2, ElementOfSeq
    <2>2. \A i \in 1..n : q.wire[i] \in Half
      BY <1>2, <2>1 DEF q
    <2>3. chunk \in Seq(Half)
      BY <2>2, SubSeqProperties
    <2> HIDE DEF chunk
    <2> QED BY <2>3, LenProperties
  <1>4. q.buffer \o chunk \in Seq(Half)
    BY <1>2, <1>3, ConcatProperties
  <1>5. PICK buffer \in Buffers(q.buffer \o chunk, q.buffer) :
           batches' = [batches EXCEPT
              ![b].buffer = buffer,
              ![b].wire = SubSeq(@, Len(chunk) + 1, Len(@)),
              ![b].fetch = IF more # <<>> /\ batches[b].ended THEN "ended" ELSE @]
    BY DEF ReceiveChunk, q
  <1> HIDE DEF chunk
  <1>6. buffer \in Seq(Half)
    BY <1>2, <1>4, BuffersTyped
  <1> DEFINE wire == SubSeq(q.wire, Len(chunk) + 1, Len(q.wire))
             fetch == IF more # <<>> /\ q.ended THEN "ended" ELSE q.fetch
             p == [q EXCEPT !.buffer = buffer, !.wire = wire, !.fetch = fetch]
  <1>7. wire \in Seq(Half)
    BY <1>2, <1>3, RestTyped
  <1>8. batches' = [batches EXCEPT ![b] = p]
    BY <1>5 DEF q
  <1> HIDE DEF wire
  <1>9. fetch \in {"waiting", "failed", "responding", "ended", "broken"}
    BY <1>1 DEF Batch
  <1> HIDE DEF fetch
  <1>10. p \in Batch /\ SameAtServer(p, q)
    BY <1>1, <1>6, <1>7, <1>9 DEF Batch, SameAtServer
  <1> QED BY <1>8, <1>10 DEF q

ClientOf(b) ==
    FetchFails(b) \/ FetchResolves(b) \/ ReadChunk(b) \/ ReadDone(b) \/ ReadFails(b) \/ Readable(b)

\* Nothing the client does to a post is known to the server.
LEMMA ClientPost ==
    ASSUME PostsTyped, NEW b \in DOMAIN batches, ClientOf(b)
    PROVE  /\ \E p \in Batch : SameAtServer(p, batches[b]) /\ batches' = [batches EXCEPT ![b] = p]
           /\ UNCHANGED <<clientVars, handler, emitted>>
  <1> DEFINE q == batches[b]
  <1>1. q \in Batch /\ batches \in Seq(Batch)
    BY ElementOfSeq, LenProperties DEF PostsTyped
  <1>2. q.wire \in Seq(Half) /\ Len(q.wire) \in Nat
    BY <1>1, PostTyped, LenProperties
  <1>3. UNCHANGED <<clientVars, handler, emitted>>
    BY DEF ClientOf, FetchFails, FetchResolves, ReadChunk, ReadDone, ReadFails, Readable
  <1>4. ASSUME NEW fetch \in {"waiting", "failed", "responding", "ended", "broken"},
               batches' = [batches EXCEPT ![b].fetch = fetch]
        PROVE  \E p \in Batch : SameAtServer(p, q) /\ batches' = [batches EXCEPT ![b] = p]
    <2> DEFINE p == [q EXCEPT !.fetch = fetch]
    <2>1. batches' = [batches EXCEPT ![b] = p]
      BY <1>4
    <2> HIDE DEF q
    <2>2. p \in Batch /\ SameAtServer(p, q)
      BY <1>1 DEF Batch, SameAtServer
    <2> QED BY <2>1, <2>2
  <1>5. CASE FetchFails(b)
    BY <1>4, <1>5 DEF FetchFails
  <1>6. CASE FetchResolves(b)
    <2>1. PICK body \in Bodies :
             batches' = [batches EXCEPT ![b].fetch = "responding", ![b].body = body]
      BY <1>6 DEF FetchResolves
    <2> DEFINE p == [q EXCEPT !.fetch = "responding", !.body = body]
    <2>2. batches' = [batches EXCEPT ![b] = p]
      BY <2>1
    <2>3. body \in {"none", "reader", "readable"}
      BY HttpAssumption
    <2> HIDE DEF q
    <2>4. p \in Batch /\ SameAtServer(p, q)
      BY <1>1, <2>3 DEF Batch, SameAtServer
    <2> QED BY <1>3, <2>2, <2>4 DEF q
  <1>7. CASE ReadChunk(b)
    <2>1. PICK n \in 1..Len(q.wire) : ReceiveChunk(b, SubSeq(q.wire, 1, n), <<>>)
      BY <1>7 DEF ReadChunk
    <2>2. n \in Nat /\ n <= Len(q.wire)
      BY <1>2
    <2> QED BY <1>3, <2>1, <2>2, ChunkPost
  <1>8. CASE ReadDone(b)
    BY <1>4, <1>3, <1>8 DEF ReadDone
  <1>9. CASE ReadFails(b)
    BY <1>4, <1>3, <1>9 DEF ReadFails
  <1>10. CASE Readable(b)
    <2>1. ReceiveChunk(b, q.wire, StillOpen(q.ids))
      BY <1>10 DEF Readable
    <2>2. SubSeq(q.wire, 1, Len(q.wire)) = q.wire
      BY <1>2, SubSeqFull
    <2>3. ReceiveChunk(b, SubSeq(q.wire, 1, Len(q.wire)), StillOpen(q.ids))
      BY <2>1, <2>2, Zenon
    <2> DEFINE n == Len(q.wire)
               more == StillOpen(q.ids)
    <2>4. n \in Nat /\ n <= Len(q.wire) /\ ReceiveChunk(b, SubSeq(q.wire, 1, n), more)
      BY <1>2, <2>3
    <2> HIDE DEF n, more
    <2>5. \E p \in Batch : SameAtServer(p, q) /\ batches' = [batches EXCEPT ![b] = p]
      BY <2>4, ChunkPost
    <2> QED BY <1>3, <2>5
  <1> QED BY <1>3, <1>5, <1>6, <1>7, <1>8, <1>9, <1>10 DEF ClientOf

\* The post after a step of the server.
LEMMA ArrivePost ==
    ASSUME PostsTyped, NEW b \in DOMAIN batches, Arrive(b)
    PROVE  \E p \in Batch :
              /\ batches' = [batches EXCEPT ![b] = p]
              /\ p.ids = batches[b].ids /\ p.handled = batches[b].handled /\ p.ended = batches[b].ended
              /\ p.arrived = TRUE /\ p.openRequests = ToSet(batches[b].ids)
              /\ p.fetch = batches[b].fetch /\ p.wire = batches[b].wire /\ p.buffer = batches[b].buffer
  <1> DEFINE q == batches[b]
             all == ToSet(q.ids)
             p == [q EXCEPT !.arrived = TRUE, !.openRequests = all]
  <1>1. q \in Batch
    BY ElementOfSeq, LenProperties DEF PostsTyped
  <1>2. batches' = [batches EXCEPT ![b] = p]
    BY DEF Arrive, OpenedFirst
  <1> HIDE DEF q
  <1>3. all \in SUBSET Id
    <2>1. q.ids \in Seq(Id)
      BY <1>1, PostTyped
    <2> QED BY <2>1, ElementOfSeq, LenProperties DEF ToSet
  <1> HIDE DEF all
  <1>4. /\ p \in Batch /\ p.ids = q.ids /\ p.handled = q.handled /\ p.ended = q.ended
        /\ p.arrived = TRUE /\ p.openRequests = all
        /\ p.fetch = q.fetch /\ p.wire = q.wire /\ p.buffer = q.buffer
    BY <1>1, <1>3 DEF Batch
  <1> QED BY <1>2, <1>4 DEF q, all

LEMMA HandlePost ==
    ASSUME PostsTyped, NEW b \in DOMAIN batches, HandleOne(b)
    PROVE  \E p \in Batch :
              /\ batches' = [batches EXCEPT ![b] = p]
              /\ p.ids = batches[b].ids /\ p.handled = batches[b].handled + 1
              /\ p.ended = batches[b].ended /\ p.arrived = batches[b].arrived
              /\ p.openRequests = batches[b].openRequests
              /\ p.fetch = batches[b].fetch /\ p.wire = batches[b].wire /\ p.buffer = batches[b].buffer
  <1> DEFINE q == batches[b]
             p == [q EXCEPT !.handled = q.handled + 1]
  <1>1. q \in Batch
    BY ElementOfSeq, LenProperties DEF PostsTyped
  <1>2. batches' = [batches EXCEPT ![b] = p]
    BY DEF HandleOne
  <1> HIDE DEF q
  <1>3. q.handled + 1 \in Nat
    BY <1>1, PostTyped
  <1>4. /\ p \in Batch /\ p.ids = q.ids /\ p.handled = q.handled + 1
        /\ p.ended = q.ended /\ p.arrived = q.arrived /\ p.openRequests = q.openRequests
        /\ p.fetch = q.fetch /\ p.wire = q.wire /\ p.buffer = q.buffer
    BY <1>1, <1>3 DEF Batch
  <1> QED BY <1>2, <1>4 DEF q

LEMMA EmitPost ==
    ASSUME PostsTyped, NEW b \in DOMAIN batches, NEW id \in Id, NEW e \in Event, HandlerEmits(b, id, e)
    PROVE  \E p \in Batch :
              /\ batches' = [batches EXCEPT ![b] = p]
              /\ p.ids = batches[b].ids /\ p.handled = batches[b].handled
              /\ p.arrived = batches[b].arrived
              /\ e = Close => p.openRequests = batches[b].openRequests \ {id}
              /\ e # Close => p.openRequests = batches[b].openRequests
              /\ p.ended <=> batches[b].ended \/ (e = Close /\ batches[b].openRequests \ {id} = {})
              /\ p.fetch = batches[b].fetch /\ p.wire = batches[b].wire \o Text(id, e) /\ p.buffer = batches[b].buffer
  <1> DEFINE q == batches[b]
             less == q.openRequests \ {id}
             wire == q.wire \o Text(id, e)
             open == IF e = Close THEN less ELSE q.openRequests
             ended == q.ended \/ (e = Close /\ less = {})
             p == [q EXCEPT !.wire = wire, !.openRequests = open, !.ended = ended]
  <1>1. q \in Batch
    BY ElementOfSeq, LenProperties DEF PostsTyped
  <1>2. batches' = [batches EXCEPT ![b] = p]
    BY DEF HandlerEmits
  <1> HIDE DEF q
  <1>3. wire \in Seq(Half)
    <2>1. q.wire \in Seq(Half)
      BY <1>1, PostTyped
    <2>2. Text(id, e) \in Seq(Half)
      BY DEF Text, Half
    <2> QED BY <2>1, <2>2, ConcatProperties
  <1>4. open \in SUBSET Id /\ ended \in BOOLEAN
    BY <1>1, PostTyped
  <1> HIDE DEF wire, open, ended
  <1>5. /\ p \in Batch /\ p.ids = q.ids /\ p.handled = q.handled /\ p.arrived = q.arrived
        /\ p.openRequests = open /\ p.ended = ended
        /\ p.fetch = q.fetch /\ p.wire = wire /\ p.buffer = q.buffer
    BY <1>1, <1>3, <1>4 DEF Batch
  <1> QED BY <1>2, <1>5 DEF q, open, ended, wire

-----------------------------------------------------------------------------
\* Types

LEMMA IdNumbers ==
    ASSUME NEW n \in 0..MaxRequests
    PROVE  /\ n \in Nat /\ n <= n
           /\ n < MaxRequests => n + 1 \in Id /\ n + 1 \in 0..MaxRequests /\ n <= n + 1
           /\ \A id \in Id : id \in Nat /\ (id <= n => id <= n + 1)
  BY HttpAssumption DEF Id

LEMMA PostsTypedStep == PostsTyped /\ [Next]_vars => PostsTyped'
  <1> SUFFICES ASSUME PostsTyped, [Next]_vars PROVE PostsTyped'
    OBVIOUS
  <1>1. /\ issued \in 0..MaxRequests /\ queuedMessages \in Seq(Id)
        /\ flushTimer = (queuedMessages # <<>>) /\ batches \in Seq(Batch)
        /\ handler \in [Id -> {"none", "running", "ended"}] /\ emitted \in [Id -> Seq(Event)]
    BY DEF PostsTyped
  <1> USE DEF clientVars
  <1>2. CASE SendRequest
    <2>1. /\ issued < MaxRequests /\ issued' = issued + 1 /\ flushTimer' = TRUE
          /\ queuedMessages' = Append(queuedMessages, issued')
          /\ UNCHANGED <<batches, handler, emitted>>
      BY <1>2 DEF SendRequest
    <2>2. issued' \in Id /\ issued' \in 0..MaxRequests
      BY <1>1, <2>1, IdNumbers
    <2>3. queuedMessages' \in Seq(Id) /\ queuedMessages' # <<>>
      BY <1>1, <2>1, <2>2, AppendProperties
    <2> QED BY <1>1, <2>1, <2>2, <2>3 DEF PostsTyped
  <1>3. CASE Flush
    <2>1. /\ flushTimer' = FALSE /\ queuedMessages' = <<>>
          /\ batches' = Append(batches, NewBatch(queuedMessages))
          /\ UNCHANGED <<issued, handler, emitted>>
      BY <1>3 DEF Flush, TakeQueuedMessages
    <2>2. NewBatch(queuedMessages) \in Batch
      BY <1>1 DEF NewBatch, Batch
    <2>3. batches' \in Seq(Batch)
      BY <1>1, <2>1, <2>2, AppendProperties
    <2>4. flushTimer' = (queuedMessages' # <<>>)
      BY ONLY <2>1
    <2> QED BY <1>1, <2>1, <2>3, <2>4 DEF PostsTyped
  <1>4. CASE (\E id \in Id : ConsumerStops(id)) \/ UNCHANGED vars
    BY <1>1, <1>4 DEF ConsumerStops, vars, PostsTyped
  <1>5. ASSUME NEW b \in DOMAIN batches, NEW p \in Batch, batches' = [batches EXCEPT ![b] = p]
        PROVE  batches' \in Seq(Batch)
    BY <1>1, <1>5, UpdateFacts
  <1>6. ASSUME NEW b \in DOMAIN batches, ClientOf(b)
        PROVE  PostsTyped'
    BY <1>1, <1>5, <1>6, ClientPost DEF PostsTyped
  <1>7. ASSUME NEW b \in DOMAIN batches, Arrive(b)
        PROVE  PostsTyped'
    <2>1. batches' \in Seq(Batch)
      BY <1>5, <1>7, ArrivePost
    <2> QED BY <1>1, <1>7, <2>1 DEF Arrive, PostsTyped
  <1>8. ASSUME NEW b \in DOMAIN batches, HandleOne(b)
        PROVE  PostsTyped'
    <2>1. batches' \in Seq(Batch)
      BY <1>5, <1>8, HandlePost
    <2>2. /\ \E id : handler' = [handler EXCEPT ![id] = "running"]
          /\ UNCHANGED <<clientVars, emitted>>
      BY <1>8 DEF HandleOne
    <2> QED BY <1>1, <2>1, <2>2 DEF PostsTyped
  <1>9. ASSUME NEW b \in DOMAIN batches, NEW id \in Id, NEW e \in Event, HandlerEmits(b, id, e)
        PROVE  PostsTyped'
    <2>1. batches' \in Seq(Batch)
      BY <1>5, <1>9, EmitPost
    <2>2. /\ emitted' = [emitted EXCEPT ![id] = Append(@, e)]
          /\ handler' = [handler EXCEPT ![id] = IF e = Close THEN "ended" ELSE @]
          /\ UNCHANGED clientVars
      BY <1>9 DEF HandlerEmits
    <2>3. Append(emitted[id], e) \in Seq(Event)
      BY <1>1, AppendProperties
    <2>4. emitted' \in [Id -> Seq(Event)] /\ handler' \in [Id -> {"none", "running", "ended"}]
      BY <1>1, <2>2, <2>3
    <2> QED BY <1>1, <2>1, <2>2, <2>4 DEF PostsTyped
  <1> QED BY <1>2, <1>3, <1>4, <1>6, <1>7, <1>8, <1>9 DEF Next, ClientOf

LEMMA PostsTypedInit == Init => PostsTyped
  <1> SUFFICES ASSUME Init PROVE PostsTyped
    OBVIOUS
  <1>1. flushTimer = (queuedMessages # <<>>)
    BY DEF Init
  <1> QED BY <1>1, HttpAssumption DEF Init, PostsTyped, Id

-----------------------------------------------------------------------------
\* How far the server is

LEMMA IdsSeq ==
    ASSUME NEW s \in Seq(Id)
    PROVE  /\ Len(s) \in Nat /\ DOMAIN s = 1..Len(s)
           /\ \A i \in DOMAIN s : s[i] \in Id /\ i \in Nat
           /\ s # <<>> => 1 \in DOMAIN s
  <1>1. Len(s) \in Nat /\ DOMAIN s = 1..Len(s) /\ \A i \in 1..Len(s) : s[i] \in Id
    BY ElementOfSeq, LenProperties
  <1>2. s # <<>> => Len(s) # 0
    BY EmptySeq
  <1> QED BY <1>1, <1>2

LEMMA ServedSame ==
    ASSUME NEW p, NEW q, SameAtServer(p, q), NEW h, NEW g, Served(q, h),
           \A i \in DOMAIN q.ids : g[q.ids[i]] = h[q.ids[i]]
    PROVE  Served(p, g)
  <1>1. \A id \in ToSet(q.ids) : g[id] = h[id]
    BY DEF ToSet
  <1> QED BY <1>1 DEF Served, SameAtServer

LEMMA ServedArrive ==
    ASSUME NEW q \in Batch, q.ids # <<>>, ~q.arrived, NEW h, Served(q, h), NEW p \in Batch,
           p.ids = q.ids, p.handled = q.handled, p.ended = q.ended,
           p.arrived = TRUE, p.openRequests = ToSet(q.ids)
    PROVE  Served(p, h)
  <1>1. /\ q.ids \in Seq(Id) /\ 1 \in DOMAIN q.ids
        /\ \A i \in DOMAIN q.ids : i \in Nat
    BY PostTyped, IdsSeq
  <1>2. q.handled = 0 /\ ~q.ended
    BY DEF Served
  <1>3. \A i \in DOMAIN q.ids : h[q.ids[i]] = "none" <=> 0 < i
    BY <1>2 DEF Served
  <1>4. \A i \in DOMAIN q.ids : 0 < i
    <2>1. \A i \in DOMAIN q.ids : i \in 1..Len(q.ids)
      BY <1>1, IdsSeq
    <2> QED BY <1>1, <2>1
  <1>5. \A id \in ToSet(q.ids) : h[id] = "none"
    BY <1>3, <1>4 DEF ToSet
  <1>6. p.openRequests = {id \in ToSet(p.ids) : h[id] # "ended"} /\ q.ids[1] \in p.openRequests
    BY <1>1, <1>5 DEF ToSet
  <1> QED BY <1>2, <1>3, <1>6 DEF Served

LEMMA ServedHandle ==
    ASSUME NEW q \in Batch, q.arrived, NEW h \in [Id -> {"none", "running", "ended"}], Served(q, h),
           \A i, j \in DOMAIN q.ids : q.ids[i] = q.ids[j] => i = j,
           q.handled < Len(q.ids), NEW g, g = [h EXCEPT ![q.ids[q.handled + 1]] = "running"],
           NEW p \in Batch, p.ids = q.ids, p.handled = q.handled + 1, p.ended = q.ended,
           p.arrived = q.arrived, p.openRequests = q.openRequests
    PROVE  Served(p, g)
  <1> DEFINE ids == q.ids
             n == q.handled
  <1>1. /\ ids \in Seq(Id) /\ n \in Nat /\ Len(ids) \in Nat /\ DOMAIN ids = 1..Len(ids)
        /\ \A i \in DOMAIN ids : ids[i] \in Id /\ i \in Nat
    BY PostTyped, IdsSeq
  <1>2. n + 1 \in DOMAIN ids /\ n + 1 \in 0..Len(ids)
    BY <1>1
  <1>3. g[ids[n + 1]] = "running" /\ \A id \in Id : id # ids[n + 1] => g[id] = h[id]
    BY <1>1, <1>2
  <1>4. h[ids[n + 1]] = "none"
    BY <1>1, <1>2 DEF Served
  <1>5. \A i \in DOMAIN ids : g[ids[i]] = "none" <=> n + 1 < i
    <2> SUFFICES ASSUME NEW i \in DOMAIN ids PROVE g[ids[i]] = "none" <=> n + 1 < i
      OBVIOUS
    <2>1. CASE i = n + 1
      BY <1>3, <1>1, <2>1
    <2>2. CASE i # n + 1
      <3>1. g[ids[i]] = h[ids[i]]
        BY <1>1, <1>2, <1>3, <2>2
      <3>2. h[ids[i]] = "none" <=> n < i
        BY DEF Served
      <3> QED BY <1>1, <2>2, <3>1, <3>2
    <2> QED BY <2>1, <2>2
  <1>6. ToSet(ids) \subseteq Id
    BY <1>1 DEF ToSet
  <1>7. {id \in ToSet(ids) : g[id] # "ended"} = {id \in ToSet(ids) : h[id] # "ended"}
    BY <1>3, <1>4, <1>6
  <1> QED BY <1>2, <1>5, <1>7 DEF Served

\* What an event e of handler `id' changes: the post q becomes p, the states h become g.
Emitting(q, p, h, g, id, e) ==
    /\ id \in ToSet(q.ids) /\ h[id] = "running"
    /\ p.ids = q.ids /\ p.handled = q.handled /\ p.arrived = q.arrived
    /\ e = Close => g[id] = "ended" /\ p.openRequests = q.openRequests \ {id}
    /\ e # Close => g[id] = "running" /\ p.openRequests = q.openRequests
    /\ \A x \in Id : x # id => g[x] = h[x]
    /\ p.ended <=> q.ended \/ (e = Close /\ q.openRequests \ {id} = {})

LEMMA ServedEmit ==
    ASSUME NEW q \in Batch, NEW p \in Batch, NEW h \in [Id -> {"none", "running", "ended"}],
           NEW g, NEW id \in Id, NEW e, Served(q, h), Emitting(q, p, h, g, id, e)
    PROVE  Served(p, g)
  <1> USE DEF Emitting
  <1>1. /\ q.ids \in Seq(Id) /\ ToSet(q.ids) \subseteq Id
        /\ \A i \in DOMAIN q.ids : q.ids[i] \in Id /\ i \in 1..Len(q.ids)
    BY PostTyped, IdsSeq DEF ToSet
  <1>3. \A i \in DOMAIN q.ids : g[q.ids[i]] = "none" <=> q.handled < i
    <2>1. \A x \in Id : g[x] = "none" <=> h[x] = "none"
      OBVIOUS
    <2> QED BY <1>1, <2>1 DEF Served
  <1>4. q.arrived
    <2>1. PICK i \in DOMAIN q.ids : q.ids[i] = id
      BY DEF ToSet
    <2>2. ~(q.handled < i) /\ 0 < i
      BY <1>1, <2>1 DEF Served
    <2> QED BY <2>2 DEF Served
  <1>5. q.openRequests = {x \in ToSet(q.ids) : h[x] # "ended"} /\ id \in q.openRequests /\ ~q.ended
    BY <1>4 DEF Served
  <1>6. p.openRequests = {x \in ToSet(p.ids) : g[x] # "ended"}
    BY <1>1, <1>5
  <1>7. p.ended <=> p.openRequests = {}
    BY <1>5
  <1> QED BY <1>3, <1>4, <1>6, <1>7 DEF Served

-----------------------------------------------------------------------------
\* The invariant

LEMMA HttpStep == PostsTyped /\ PostsTyped' /\ HttpInv /\ [Next]_vars => HttpInv'
  <1> SUFFICES ASSUME PostsTyped, PostsTyped', HttpInv, [Next]_vars PROVE HttpInv'
    OBVIOUS
  <1>1. /\ issued \in 0..MaxRequests /\ queuedMessages \in Seq(Id)
        /\ batches \in Seq(Batch) /\ DOMAIN batches = 1..Len(batches) /\ Len(batches) \in Nat
        /\ handler \in [Id -> {"none", "running", "ended"}]
        /\ flushTimer = (queuedMessages # <<>>)
        /\ \A b \in DOMAIN batches : batches[b] \in Batch /\ batches[b].ids \in Seq(Id)
    <2>1. batches \in Seq(Batch)
      BY DEF PostsTyped
    <2>2. DOMAIN batches = 1..Len(batches) /\ Len(batches) \in Nat
          /\ \A b \in DOMAIN batches : batches[b] \in Batch
      BY <2>1, ElementOfSeq, LenProperties
    <2> QED BY <2>2, PostTyped DEF PostsTyped
  <1>2. QueueInv /\ PostsInv /\ ServedInv
    BY DEF HttpInv
  <1> USE DEF clientVars
  <1>3. CASE SendRequest
    <2>1. /\ issued < MaxRequests /\ issued' = issued + 1
          /\ queuedMessages' = Append(queuedMessages, issued')
          /\ UNCHANGED <<batches, handler>>
      BY <1>3 DEF SendRequest
    <2>2. /\ issued' \in Id /\ issued' \in Nat /\ issued \in Nat
          /\ \A id \in Id : id \in Nat /\ (id <= issued => id <= issued' /\ id # issued')
      BY <1>1, <2>1, IdNumbers
    <2> DEFINE k == Len(queuedMessages)
    <2>3. /\ k \in Nat /\ DOMAIN queuedMessages = 1..k /\ DOMAIN queuedMessages' = 1..k + 1
          /\ queuedMessages'[k + 1] = issued' /\ \A i \in 1..k : queuedMessages'[i] = queuedMessages[i]
      BY <1>1, <2>1, <2>2, IdsSeq, AppendProperties, LenProperties
    <2> HIDE DEF k
    <2>4. \A i \in 1..k + 1 : i \in 1..k \/ i = k + 1
      BY <2>3
    <2>5. \A i \in 1..k : /\ queuedMessages[i] \in Id /\ queuedMessages[i] <= issued
                          /\ handler[queuedMessages[i]] = "none"
      BY <1>1, <1>2, <2>3, IdsSeq DEF QueueInv
    <2>6. handler[issued'] = "none"
      BY <1>2, <2>1, <2>2 DEF QueueInv
    <2>7. QueueInv'
      <3>1. \A i \in 1..k + 1 : queuedMessages'[i] <= issued' /\ handler[queuedMessages'[i]] = "none"
        <4> SUFFICES ASSUME NEW i \in 1..k + 1
                     PROVE  queuedMessages'[i] <= issued' /\ handler[queuedMessages'[i]] = "none"
          OBVIOUS
        <4>1. CASE i \in 1..k
          BY <2>2, <2>3, <2>5, <4>1
        <4>2. CASE i = k + 1
          BY <2>2, <2>3, <2>6, <4>2
        <4> QED BY <2>4, <4>1, <4>2
      <3>2. \A i, j \in 1..k + 1 : queuedMessages'[i] = queuedMessages'[j] => i = j
        BY <1>2, <2>2, <2>3, <2>4, <2>5 DEF QueueInv
      <3>3. \A id \in Id : handler[id] # "none" => id <= issued'
        BY <1>2, <2>2 DEF QueueInv
      <3> QED BY <2>1, <2>3, <3>1, <3>2, <3>3 DEF QueueInv
    <2>8. PostsInv'
      <3>1. \A b \in DOMAIN batches : \A i \in DOMAIN batches[b].ids :
               batches[b].ids[i] \in Id /\ batches[b].ids[i] <= issued
        BY <1>1, <1>2, IdsSeq DEF PostsInv
      <3>2. \A b \in DOMAIN batches : \A i \in DOMAIN batches[b].ids :
               /\ batches[b].ids[i] <= issued'
               /\ \A j \in DOMAIN queuedMessages' : queuedMessages'[j] # batches[b].ids[i]
        <4> SUFFICES ASSUME NEW b \in DOMAIN batches, NEW i \in DOMAIN batches[b].ids,
                            NEW j \in DOMAIN queuedMessages'
                     PROVE  /\ batches[b].ids[i] <= issued'
                            /\ queuedMessages'[j] # batches[b].ids[i]
          BY <2>2, <3>1
        <4>1. batches[b].ids[i] <= issued' /\ batches[b].ids[i] # issued'
          BY <2>2, <3>1
        <4>2. CASE j \in 1..k
          BY <1>2, <2>3, <4>1, <4>2 DEF PostsInv
        <4>3. CASE j = k + 1
          BY <2>3, <4>1, <4>3
        <4> QED BY <2>3, <2>4, <4>2, <4>3
      <3> QED BY <1>2, <2>1, <3>2 DEF PostsInv
    <2> QED BY <1>2, <2>1, <2>7, <2>8 DEF HttpInv, ServedInv
  <1>4. CASE Flush
    <2> DEFINE post == NewBatch(queuedMessages)
               n == Len(batches)
    <2>1. /\ flushTimer /\ queuedMessages' = <<>> /\ batches' = Append(batches, post)
          /\ UNCHANGED <<issued, handler>>
      BY <1>4 DEF Flush, TakeQueuedMessages
    <2>2. post \in Batch
      BY <1>1 DEF NewBatch, Batch
    <2>3. /\ post.ids = queuedMessages /\ post.handled = 0 /\ post.arrived = FALSE /\ post.ended = FALSE
      BY DEF NewBatch
    <2> HIDE DEF post, n
    <2>4. /\ n \in Nat /\ DOMAIN batches = 1..n /\ DOMAIN batches' = 1..n + 1
          /\ batches'[n + 1] = post /\ \A b \in 1..n : batches'[b] = batches[b]
      BY <1>1, <2>1, <2>2, AppendProperties, LenProperties DEF n
    <2>5. \A b \in 1..n + 1 : b \in 1..n \/ b = n + 1
      BY <2>4
    <2>6. DOMAIN queuedMessages' = {}
      BY <2>1
    <2>7. queuedMessages # <<>>
      BY <1>1, <2>1
    <2>8. QueueInv'
      BY <1>2, <2>1, <2>6 DEF QueueInv
    <2>9. \A b \in 1..n + 1 : batches'[b].ids # <<>>
      BY <1>2, <2>3, <2>4, <2>5, <2>7 DEF PostsInv
    <2>10. \A b \in 1..n + 1 : \A i \in DOMAIN batches'[b].ids : batches'[b].ids[i] <= issued
      BY <1>2, <2>3, <2>4, <2>5 DEF PostsInv, QueueInv
    <2>11. ASSUME NEW b \in 1..n + 1, NEW c \in 1..n + 1, NEW i \in DOMAIN batches'[b].ids,
                  NEW j \in DOMAIN batches'[c].ids, batches'[b].ids[i] = batches'[c].ids[j]
           PROVE  b = c /\ i = j
      <3>1. CASE b \in 1..n /\ c \in 1..n
        BY <1>2, <2>4, <2>11, <3>1 DEF PostsInv
      <3>2. CASE b = n + 1 /\ c = n + 1
        BY <1>2, <2>3, <2>4, <2>11, <3>2 DEF QueueInv
      <3>3. CASE b \in 1..n /\ c = n + 1
        BY <1>2, <2>3, <2>4, <2>11, <3>3 DEF PostsInv
      <3>4. CASE b = n + 1 /\ c \in 1..n
        BY <1>2, <2>3, <2>4, <2>11, <3>4 DEF PostsInv
      <3> QED BY <2>5, <3>1, <3>2, <3>3, <3>4
    <2>12. PostsInv'
      BY <2>1, <2>4, <2>6, <2>9, <2>10, <2>11 DEF PostsInv
    <2>13. Served(post, handler)
      <3>1. Len(queuedMessages) \in Nat /\ \A i \in DOMAIN queuedMessages : 0 < i
        <4>1. Len(queuedMessages) \in Nat /\ DOMAIN queuedMessages = 1..Len(queuedMessages)
          BY <1>1, IdsSeq
        <4> QED BY <4>1
      <3>2. \A i \in DOMAIN queuedMessages : handler[queuedMessages[i]] = "none"
        BY <1>2 DEF QueueInv
      <3> QED BY <2>3, <3>1, <3>2 DEF Served
    <2>14. \A b \in 1..n + 1 : Served(batches'[b], handler)
      BY <1>2, <2>4, <2>5, <2>13 DEF ServedInv
    <2>15. ServedInv'
      BY <2>1, <2>4, <2>14 DEF ServedInv
    <2> QED BY <2>8, <2>12, <2>15 DEF HttpInv
  <1>5. CASE (\E id \in Id : ConsumerStops(id)) \/ UNCHANGED vars
    <2>1. UNCHANGED <<issued, queuedMessages, batches, handler>>
      BY <1>5 DEF ConsumerStops, vars
    <2> QED BY <1>2, <2>1 DEF HttpInv, QueueInv, PostsInv, ServedInv
  \* A step on one post.
  <1>6. ASSUME NEW b \in DOMAIN batches, NEW p \in Batch, batches' = [batches EXCEPT ![b] = p],
               p.ids = batches[b].ids, UNCHANGED <<issued, queuedMessages>>,
               \A id \in Id : id \notin ToSet(batches[b].ids) => handler'[id] = handler[id],
               \A id \in Id : handler[id] = "none" /\ handler'[id] # "none" =>
                  id \in ToSet(batches[b].ids),
               Served(p, handler')
        PROVE  HttpInv'
    <2>1. /\ DOMAIN batches' = DOMAIN batches /\ batches'[b] = p
          /\ \A c \in DOMAIN batches : c # b => batches'[c] = batches[c]
      BY <1>1, <1>6, UpdateFacts
    <2>2. \A c \in DOMAIN batches : batches'[c].ids = batches[c].ids
      BY <1>6, <2>1
    <2>3. PostsInv'
      BY <1>2, <1>6, <2>1, <2>2 DEF PostsInv
    <2>4. \A id \in ToSet(batches[b].ids) :
             id \in Id /\ id <= issued /\ \A j \in DOMAIN queuedMessages : queuedMessages[j] # id
      BY <1>1, <1>2, IdsSeq DEF PostsInv, ToSet
    <2>5. QueueInv'
      <3>1. \A i \in DOMAIN queuedMessages : handler'[queuedMessages[i]] = "none"
        <4>1. \A i \in DOMAIN queuedMessages : queuedMessages[i] \in Id
          BY <1>1, IdsSeq
        <4> QED BY <1>2, <1>6, <2>4, <4>1 DEF QueueInv
      <3>2. \A id \in Id : handler'[id] # "none" => id <= issued
        BY <1>2, <1>6, <2>4 DEF QueueInv
      <3> QED BY <1>2, <1>6, <3>1, <3>2 DEF QueueInv
    <2>6. ASSUME NEW c \in DOMAIN batches, c # b
          PROVE  Served(batches[c], handler')
      <3>1. \A i \in DOMAIN batches[c].ids :
               batches[c].ids[i] \in Id /\ batches[c].ids[i] \notin ToSet(batches[b].ids)
        BY <1>1, <1>2, <2>6, IdsSeq DEF PostsInv, ToSet
      <3>2. \A i \in DOMAIN batches[c].ids : handler'[batches[c].ids[i]] = handler[batches[c].ids[i]]
        BY <1>6, <3>1
      <3>3. Served(batches[c], handler) /\ SameAtServer(batches[c], batches[c])
        BY <1>2 DEF ServedInv, SameAtServer
      <3> QED BY <3>2, <3>3, ServedSame
    <2>7. \A c \in DOMAIN batches : Served(batches'[c], handler')
      BY <1>6, <2>1, <2>6
    <2>8. ServedInv'
      BY <2>1, <2>7 DEF ServedInv
    <2> QED BY <2>3, <2>5, <2>8 DEF HttpInv
  <1>7. ASSUME NEW b \in DOMAIN batches, ClientOf(b)
        PROVE  HttpInv'
    <2>1. PICK p \in Batch : SameAtServer(p, batches[b]) /\ batches' = [batches EXCEPT ![b] = p]
      BY <1>7, ClientPost
    <2>2. UNCHANGED <<issued, queuedMessages, handler>>
      BY <1>7, ClientPost
    <2>3. Served(p, handler)
      BY <1>2, <2>1, ServedSame DEF ServedInv
    <2>4. p.ids = batches[b].ids
      BY <2>1 DEF SameAtServer
    <2> QED BY <1>6, <2>1, <2>2, <2>3, <2>4
  <1>8. ASSUME NEW b \in DOMAIN batches, Arrive(b)
        PROVE  HttpInv'
    <2>1. PICK p \in Batch :
              /\ batches' = [batches EXCEPT ![b] = p]
              /\ p.ids = batches[b].ids /\ p.handled = batches[b].handled /\ p.ended = batches[b].ended
              /\ p.arrived = TRUE /\ p.openRequests = ToSet(batches[b].ids)
      BY <1>8, ArrivePost
    <2>2. UNCHANGED <<issued, queuedMessages, handler>> /\ ~batches[b].arrived
      BY <1>8 DEF Arrive
    <2>3. Served(p, handler)
      BY <1>1, <1>2, <2>1, <2>2, ServedArrive DEF ServedInv, PostsInv
    <2> QED BY <1>6, <2>1, <2>2, <2>3
  <1>9. ASSUME NEW b \in DOMAIN batches, HandleOne(b)
        PROVE  HttpInv'
    <2> DEFINE q == batches[b]
               id == q.ids[q.handled + 1]
    <2>1. PICK p \in Batch :
              /\ batches' = [batches EXCEPT ![b] = p]
              /\ p.ids = q.ids /\ p.handled = q.handled + 1
              /\ p.ended = q.ended /\ p.arrived = q.arrived /\ p.openRequests = q.openRequests
      BY <1>9, HandlePost
    <2>2. /\ UNCHANGED <<issued, queuedMessages>> /\ q.arrived /\ q.handled < Len(q.ids)
          /\ handler' = [handler EXCEPT ![id] = "running"]
      BY <1>9 DEF HandleOne
    <2>3. q \in Batch /\ q.ids \in Seq(Id) /\ q.handled \in Nat /\ Served(q, handler)
      BY <1>1, <1>2, PostTyped DEF ServedInv
    <2>4. \A i, j \in DOMAIN q.ids : q.ids[i] = q.ids[j] => i = j
      BY <1>2 DEF PostsInv
    <2>5. id \in Id /\ id \in ToSet(q.ids)
      <3>1. q.handled + 1 \in DOMAIN q.ids
        BY <2>2, <2>3, IdsSeq
      <3> QED BY <2>3, <3>1, IdsSeq DEF ToSet
    <2> HIDE DEF q
    <2>6. Served(p, handler')
      BY <1>1, <2>1, <2>2, <2>3, <2>4, ServedHandle
    <2> HIDE DEF id
    <2>7. \A x \in Id : x \notin ToSet(q.ids) => handler'[x] = handler[x]
      BY <1>1, <2>2, <2>5
    <2>8. \A x \in Id : handler[x] = "none" /\ handler'[x] # "none" => x \in ToSet(q.ids)
      BY <2>7
    <2> QED BY <1>6, <2>1, <2>2, <2>6, <2>7, <2>8 DEF q
  <1>10. ASSUME NEW b \in DOMAIN batches, NEW id \in Id, NEW e \in Event, HandlerEmits(b, id, e)
         PROVE  HttpInv'
    <2> DEFINE q == batches[b]
    <2>1. PICK p \in Batch :
              /\ batches' = [batches EXCEPT ![b] = p]
              /\ p.ids = q.ids /\ p.handled = q.handled
              /\ p.arrived = q.arrived
              /\ e = Close => p.openRequests = q.openRequests \ {id}
              /\ e # Close => p.openRequests = q.openRequests
              /\ p.ended <=> q.ended \/ (e = Close /\ q.openRequests \ {id} = {})
      BY <1>10, EmitPost
    <2>2. /\ UNCHANGED <<issued, queuedMessages>> /\ id \in ToSet(q.ids) /\ handler[id] = "running"
          /\ handler' = [handler EXCEPT ![id] = IF e = Close THEN "ended" ELSE @]
      BY <1>10 DEF HandlerEmits
    <2>3. q \in Batch /\ Served(q, handler)
      BY <1>1, <1>2 DEF ServedInv
    <2> HIDE DEF q
    <2>4. /\ e = Close => handler'[id] = "ended"
          /\ e # Close => handler'[id] = "running"
          /\ \A x \in Id : x # id => handler'[x] = handler[x]
      BY <1>1, <2>2
    <2>5. Emitting(q, p, handler, handler', id, e)
      BY <2>1, <2>2, <2>4 DEF Emitting
    <2>6. Served(p, handler')
      BY <1>1, <2>3, <2>5, ServedEmit
    <2>7. \A x \in Id : x \notin ToSet(q.ids) => handler'[x] = handler[x]
      BY <2>2, <2>4
    <2>8. \A x \in Id : handler[x] = "none" /\ handler'[x] # "none" => x \in ToSet(q.ids)
      BY <2>7
    <2> QED BY <1>6, <2>1, <2>2, <2>6, <2>7, <2>8 DEF q
  <1> QED BY <1>3, <1>4, <1>5, <1>7, <1>8, <1>9, <1>10 DEF Next, ClientOf

LEMMA HttpInit == Init => HttpInv
  BY DEF Init, HttpInv, QueueInv, PostsInv, ServedInv

\* A response is ended when the last handler of its post has closed its stream,
\* not before, also while later requests of the post have not been handled.
THEOREM ResponsesEndLast == Spec => []ResponseEndsLast
  <1>1. PostsTyped /\ HttpInv => ResponseEndsLast
    <2> SUFFICES ASSUME PostsTyped, HttpInv, NEW b \in DOMAIN batches
                 PROVE  batches[b].ended <=> \A id \in ToSet(batches[b].ids) : handler[id] = "ended"
      BY DEF ResponseEndsLast
    <2> DEFINE q == batches[b]
    <2>1. q \in Batch /\ q.ids # <<>> /\ Served(q, handler)
      BY ElementOfSeq, LenProperties DEF PostsTyped, HttpInv, PostsInv, ServedInv
    <2> HIDE DEF q
    <2>2. q.ids \in Seq(Id) /\ 1 \in DOMAIN q.ids
      BY <2>1, PostTyped, IdsSeq
    <2>3. CASE q.arrived
      BY <2>1, <2>3 DEF Served, q
    <2>4. CASE ~q.arrived
      <3>1. handler[q.ids[1]] = "none" /\ ~q.ended
        BY <2>1, <2>2, <2>4 DEF Served
      <3>2. q.ids[1] \in ToSet(q.ids)
        BY <2>2 DEF ToSet
      <3> QED BY <3>1, <3>2 DEF q
    <2> QED BY <2>3, <2>4
  <1> QED BY <1>1, PostsTypedInit, PostsTypedStep, HttpInit, HttpStep, PTL DEF Spec

-----------------------------------------------------------------------------
\* What the messages in a chunk bring a stream

Message == [id : Id, event : Event \cup {Error}]

Begins(s, t) == Len(s) <= Len(t) /\ \A i \in 1..Len(s) : s[i] = t[i]

Mine(id) == {m \in Message : m.id = id}
EventsOf(mine) == [i \in DOMAIN mine |-> mine[i].event]

LEMMA EventsForMine ==
    ASSUME NEW id, NEW s \in Seq(Message)
    PROVE  EventsFor(id, s) = EventsOf(Kept(s, Mine(id)))
  <1> DEFINE T == {m \in ToSet(s) : m.id = id}
  <1>1. \A i \in 1..Len(s) : s[i] \in T <=> s[i] \in Mine(id)
    <2> TAKE i \in 1..Len(s)
    <2>1. s[i] \in Message /\ s[i] \in ToSet(s)
      BY ElementOfSeq, LenProperties DEF ToSet
    <2> QED BY <2>1 DEF Mine
  <1> HIDE DEF T
  <1>2. Kept(s, T) = Kept(s, Mine(id))
    BY <1>1, KeptSame
  <1> QED BY <1>2 DEF EventsFor, EventsOf, T

LEMMA EventsOfSeq ==
    ASSUME NEW T \in SUBSET Message, NEW mine \in Seq(T)
    PROVE  /\ EventsOf(mine) \in Seq(Event \cup {Error}) /\ Len(EventsOf(mine)) = Len(mine)
           /\ \A i \in 1..Len(mine) : EventsOf(mine)[i] = mine[i].event /\ mine[i] \in T
  <1> DEFINE n == Len(mine)
             row == [i \in 1..n |-> mine[i].event]
  <1>1. n \in Nat /\ DOMAIN mine = 1..n /\ \A i \in 1..n : mine[i] \in T
    BY LenProperties, ElementOfSeq
  <1>2. EventsOf(mine) = row
    BY <1>1 DEF EventsOf
  <1>3. \A i \in 1..n : mine[i].event \in Event \cup {Error}
    <2> HIDE DEF n
    <2> QED BY <1>1 DEF Message
  <1>4. row \in [1..n -> Event \cup {Error}]
    BY <1>3
  <1>5. row \in Seq(Event \cup {Error}) /\ Len(row) = n
    <2> HIDE DEF row, n
    <2>1. row \in Seq(Event \cup {Error})
      BY <1>1, <1>4, SeqDef
    <2>2. DOMAIN row = 1..n
      BY <1>4
    <2> QED BY <1>1, <2>1, <2>2, LenProperties
  <1> QED BY <1>1, <1>2, <1>5

LEMMA EventsForTyped ==
    ASSUME NEW id, NEW s \in Seq(Message)
    PROVE  /\ EventsFor(id, s) \in Seq(Event \cup {Error})
           /\ \A i \in 1..Len(EventsFor(id, s)) :
                \E j \in 1..Len(s) : s[j].id = id /\ s[j].event = EventsFor(id, s)[i]
  <1> DEFINE R == {s[j] : j \in 1..Len(s)}
             T == R \cap Mine(id)
             mine == Kept(s, Mine(id))
  <1>1. s \in Seq(R)
    BY LenProperties, SeqDef
  <1>2. T \in SUBSET Message
    BY DEF Mine
  <1>3. mine \in Seq(T)
    <2> HIDE DEF R
    <2> QED BY <1>1, KeptType
  <1>4. \A m \in T : \E j \in 1..Len(s) : m = s[j] /\ m.id = id
    BY DEF Mine
  <1> HIDE DEF T, mine
  <1>5. /\ EventsOf(mine) \in Seq(Event \cup {Error}) /\ Len(EventsOf(mine)) = Len(mine)
        /\ \A i \in 1..Len(mine) : EventsOf(mine)[i] = mine[i].event /\ mine[i] \in T
    BY <1>2, <1>3, EventsOfSeq
  <1>6. EventsFor(id, s) = EventsOf(mine)
    BY EventsForMine DEF mine
  <1> QED BY <1>4, <1>5, <1>6

LEMMA EventsForConcat ==
    ASSUME NEW id, NEW s \in Seq(Message), NEW t \in Seq(Message)
    PROVE  s \o t \in Seq(Message) /\ EventsFor(id, s \o t) = EventsFor(id, s) \o EventsFor(id, t)
  <1> DEFINE T == Message \cap Mine(id)
             a == Kept(s, Mine(id))
             b == Kept(t, Mine(id))
             c == Kept(s \o t, Mine(id))
  <1>1. s \o t \in Seq(Message)
    BY ConcatProperties
  <1>2. a \in Seq(T) /\ b \in Seq(T) /\ c = a \o b
    BY KeptType, KeptConcat
  <1>3. T \in SUBSET Message
    OBVIOUS
  <1>4. /\ EventsFor(id, s) = EventsOf(a) /\ EventsFor(id, t) = EventsOf(b)
        /\ EventsFor(id, s \o t) = EventsOf(c)
    BY <1>1, EventsForMine
  <1> HIDE DEF a, b, c, T
  <1> DEFINE m == Len(a)
             n == Len(b)
             x == EventsOf(a)
             y == EventsOf(b)
             z == EventsOf(c)
             E == Event \cup {Error}
  <1>5. /\ m \in Nat /\ n \in Nat /\ c \in Seq(T) /\ Len(c) = m + n
        /\ \A i \in 1..m : c[i] = a[i]
        /\ \A i \in 1..n : c[m + i] = b[i]
    BY <1>2, ConcatProperties, LenProperties
  <1>6. /\ x \in Seq(E) /\ y \in Seq(E) /\ z \in Seq(E) /\ Len(x) = m /\ Len(y) = n /\ Len(z) = m + n
        /\ \A i \in 1..m : x[i] = a[i].event
        /\ \A i \in 1..n : y[i] = b[i].event
        /\ \A i \in 1..m + n : z[i] = c[i].event
    BY <1>2, <1>3, <1>5, EventsOfSeq
  <1> HIDE DEF m, n, x, y, z, E
  <1>7. /\ x \o y \in Seq(E) /\ Len(x \o y) = m + n
        /\ \A i \in 1..m : (x \o y)[i] = x[i]
        /\ \A i \in 1..n : (x \o y)[m + i] = y[i]
    <2> DEFINE w == x \o y
    <2>1. /\ w \in Seq(E) /\ Len(w) = Len(x) + Len(y)
          /\ \A i \in 1..Len(x) + Len(y) : w[i] = IF i <= Len(x) THEN x[i] ELSE y[i - Len(x)]
      BY ONLY <1>6, ConcatProperties
    <2> HIDE DEF w
    <2>2. /\ w \in Seq(E) /\ Len(w) = m + n
          /\ \A i \in 1..m + n : w[i] = IF i <= m THEN x[i] ELSE y[i - m]
      BY <1>6, <2>1
    <2>3. ASSUME NEW i \in 1..m PROVE w[i] = x[i]
      BY <1>5, <2>2
    <2>4. ASSUME NEW i \in 1..n PROVE w[m + i] = y[i]
      <3>1. m + i \in 1..m + n /\ ~(m + i <= m) /\ (m + i) - m = i
        BY <1>5
      <3> QED BY <2>2, <3>1
    <2> QED BY <2>2, <2>3, <2>4 DEF w
  <1>8. ASSUME NEW i \in 1..m + n PROVE z[i] = (x \o y)[i]
    <2>1. CASE i \in 1..m
      <3>1. z[i] = c[i].event /\ c[i] = a[i]
        BY <1>5, <1>6, <2>1
      <3> QED BY <1>6, <1>7, <2>1, <3>1
    <2>2. CASE i \notin 1..m
      <3>1. PICK j \in 1..n : i = m + j
        <4>1. i - m \in 1..n /\ i = m + (i - m)
          BY <1>5, <2>2
        <4> QED BY <4>1
      <3>2. z[m + j] = c[m + j].event /\ c[m + j] = b[j]
        BY <1>5, <1>6, <3>1
      <3> QED BY <1>6, <1>7, <3>1, <3>2
    <2> QED BY <2>1, <2>2
  <1>9. z = x \o y
    <2> DEFINE w == x \o y
    <2> HIDE DEF w
    <2>1. z \in Seq(E) /\ w \in Seq(E) /\ Len(z) = Len(w) /\ \A i \in 1..Len(z) : z[i] = w[i]
      BY <1>6, <1>7, <1>8 DEF w
    <2>2. z = w
      BY ONLY <2>1, SeqEqual
    <2> QED BY <2>2 DEF w
  <1> QED BY <1>1, <1>4, <1>9 DEF x, y, z

LEMMA CloseEvents == Close \in Event /\ Error \notin Event /\ \A e \in Event \cup {Error} : Closes(e) <=> e = Close
  BY DEF Close, Error, Event, Closes

\* All of them up to the first close event.
LEMMA ReceivedFacts ==
    ASSUME NEW id \in Id, NEW s \in Seq(Message)
    PROVE  /\ Received(id, s) \in Seq(Event \cup {Error})
           /\ id \notin streams.open => Received(id, s) = <<>>
           /\ Begins(Received(id, s), EventsFor(id, s))
           /\ id \in streams.open =>
                \/ Received(id, s) = EventsFor(id, s) /\ Close \notin ToSet(Received(id, s))
                \/ \E n \in 1..Len(EventsFor(id, s)) :
                     /\ Len(Received(id, s)) = n /\ Received(id, s)[n] = Close
                     /\ \A i \in 1..n - 1 : Received(id, s)[i] # Close
  <1> DEFINE E == Event \cup {Error}
             ev == EventsFor(id, s)
             end == SelectInSeq(ev, Closes)
             I == {i \in 1..Len(ev) : Closes(ev[i])}
             r == Received(id, s)
  <1>1. ev \in Seq(E)
    BY EventsForTyped
  <1>2. r = CASE id \notin streams.open -> <<>>
              [] id \in streams.open /\ end = 0 -> ev
              [] OTHER -> SubSeq(ev, 1, end)
    BY DEF Received
  <1>3. end = IF I # {} THEN Min(I) ELSE 0
    BY DEF SelectInSeq
  <1> HIDE DEF ev, end, r
  <1>4. /\ Len(ev) \in Nat /\ DOMAIN ev = 1..Len(ev)
        /\ \A i \in 1..Len(ev) : ev[i] \in E /\ (Closes(ev[i]) <=> ev[i] = Close)
    BY <1>1, LenProperties, ElementOfSeq, CloseEvents
  <1>5. CASE id \notin streams.open
    <2>1. r = <<>>
      BY <1>2, <1>5
    <2> QED BY <1>4, <1>5, <2>1, EmptySeq DEF Begins, r, ev
  <1>6. CASE id \in streams.open /\ I = {}
    <2>1. r = ev
      BY <1>2, <1>3, <1>6
    <2>2. Close \notin ToSet(r)
      BY <1>4, <1>6, <2>1 DEF ToSet
    <2>3. Begins(r, ev)
      BY <1>4, <2>1 DEF Begins
    <2> QED BY <1>1, <1>6, <2>1, <2>2, <2>3 DEF r, ev
  <1>7. CASE id \in streams.open /\ I # {}
    <2>1. I \in SUBSET Nat
      OBVIOUS
    <2>2. end \in I /\ \A i \in I : end <= i
      <3> HIDE DEF I
      <3> QED BY <1>3, <1>7, <2>1, MinOfNumbers
    <2>3. end \in 1..Len(ev) /\ ev[end] = Close /\ end # 0
      BY <1>4, <2>2
    <2>4. \A i \in 1..end - 1 : ev[i] # Close
      BY <1>4, <2>2, <2>3
    <2>5. r = SubSeq(ev, 1, end)
      BY <1>2, <1>7, <2>3
    <2>6. r \in Seq(E) /\ Len(r) = end /\ \A i \in 1..end : r[i] = ev[i]
      <3>1. \A i \in 1..end : ev[i] \in E
        BY <1>4, <2>3
      <3> QED BY <1>4, <2>3, <2>5, <3>1, SubSeqProperties
    <2>7. /\ end \in Nat /\ end \in 1..end /\ end <= Len(ev)
          /\ \A i \in 1..end - 1 : i \in 1..end /\ i \in 1..Len(ev)
      BY <1>4, <2>3
    <2>8. Begins(r, ev) /\ r[end] = Close /\ \A i \in 1..end - 1 : r[i] # Close
      BY <2>3, <2>4, <2>6, <2>7 DEF Begins
    <2> QED BY <1>7, <2>3, <2>6, <2>8 DEF r, ev
  <1> QED BY <1>5, <1>6, <1>7

-----------------------------------------------------------------------------
\* Types of the client's streams

Given(o, r, closes) == [o EXCEPT !.got = @ \o r, !.closedByUpstream = @ \/ closes]

LEMMA OutputFacts ==
    ASSUME NEW o \in Outputs, NEW r \in Seq(Event \cup {Error}), NEW closes \in BOOLEAN
    PROVE  /\ Given(o, r, closes) \in Outputs
           /\ Given(o, r, closes).got = o.got \o r
           /\ Given(o, r, closes).closedByDownstream = o.closedByDownstream
           /\ Stopped(o) \in Outputs /\ Stopped(o).got = o.got /\ Stopped(o).closedByDownstream
  <1> DEFINE got == o.got \o r
             up == o.closedByUpstream \/ closes
  <1>1. /\ o.got \in Seq(Event \cup {Error}) /\ o.closedByUpstream \in BOOLEAN
        /\ o.closedByDownstream \in BOOLEAN
    BY DEF Outputs
  <1>2. got \in Seq(Event \cup {Error}) /\ up \in BOOLEAN
    BY <1>1, ConcatProperties
  <1> HIDE DEF got, up
  <1>3. /\ [o EXCEPT !.got = got, !.closedByUpstream = up] \in Outputs
        /\ [o EXCEPT !.got = got, !.closedByUpstream = up].got = got
        /\ [o EXCEPT !.got = got, !.closedByUpstream = up].closedByDownstream = o.closedByDownstream
    BY <1>1, <1>2 DEF Outputs
  <1>4. Stopped(o) \in Outputs /\ Stopped(o).got = o.got /\ Stopped(o).closedByDownstream
    BY <1>1 DEF Outputs, Stopped
  <1> QED BY <1>3, <1>4 DEF got, up, Given

LEMMA ReceiveAllFacts ==
    ASSUME output \in [Id -> Outputs], streams \in StreamSets(Id), NEW s \in Seq(Message), ReceiveAll(s)
    PROVE  /\ streams' \in StreamSets(Id) /\ output' \in [Id -> Outputs]
           /\ \A id \in Id :
                /\ id \in streams'.open <=> id \in streams.open /\ Close \notin ToSet(Received(id, s))
                /\ output'[id].closedByDownstream = output[id].closedByDownstream
                /\ output[id].closedByDownstream => output'[id].got = output[id].got
                /\ ~output[id].closedByDownstream => output'[id].got = output[id].got \o Received(id, s)
  <1> DEFINE received == [id \in Id |-> Received(id, s)]
             closers == {id \in Id : Close \in ToSet(received[id])}
             done == {id \in streams.open \ closers :
                         id \in streams.done \/ \E e \in ToSet(received[id]) : e.t = "done"}
             After(id) == [output[id] EXCEPT !.got = @ \o received[id],
                                             !.closedByUpstream = @ \/ id \in closers]
  <1>1. /\ streams' = [open |-> streams.open \ closers, done |-> done,
                       closed |-> streams.closed \cup closers]
        /\ output' = [id \in Id |-> IF output[id].closedByDownstream THEN output[id] ELSE After(id)]
    BY ZenonT(60) DEF ReceiveAll
  <1>2. \A id \in Id : received[id] = Received(id, s) /\ received[id] \in Seq(Event \cup {Error})
    BY ReceivedFacts
  <1>3. streams.open \in SUBSET Id /\ streams.closed \in SUBSET Id /\ closers \in SUBSET Id
    BY DEF StreamSets
  <1>4. done \in SUBSET Id
    BY <1>3
  <1>5. \A id \in Id : id \in closers <=> Close \in ToSet(Received(id, s))
    BY <1>2
  <1> HIDE DEF closers, received, done
  <1>6. streams' \in StreamSets(Id) /\ streams'.open = streams.open \ closers
    BY <1>1, <1>3, <1>4 DEF StreamSets
  <1>7. ASSUME NEW id \in Id
        PROVE  /\ After(id) \in Outputs /\ After(id).got = output[id].got \o received[id]
               /\ After(id).closedByDownstream = output[id].closedByDownstream
    <2> DEFINE o == output[id]
               r == received[id]
               c == id \in closers
    <2>1. o \in Outputs /\ r \in Seq(Event \cup {Error}) /\ c \in BOOLEAN
      BY <1>2
    <2>2. After(id) = Given(o, r, c)
      BY DEF Given
    <2> HIDE DEF After, o, r, c
    <2>3. /\ Given(o, r, c) \in Outputs /\ Given(o, r, c).got = o.got \o r
          /\ Given(o, r, c).closedByDownstream = o.closedByDownstream
      BY ONLY <2>1, OutputFacts
    <2> QED BY <2>2, <2>3 DEF o, r
  <1> HIDE DEF After
  <1>8. output' \in [Id -> Outputs]
    BY <1>1, <1>7
  <1>9. ASSUME NEW id \in Id
        PROVE  /\ output'[id].closedByDownstream = output[id].closedByDownstream
               /\ output[id].closedByDownstream => output'[id].got = output[id].got
               /\ ~output[id].closedByDownstream => output'[id].got = output[id].got \o Received(id, s)
    <2>1. output'[id] = IF output[id].closedByDownstream THEN output[id] ELSE After(id)
      BY <1>1
    <2> QED BY <1>2, <1>7, <2>1
  <1> QED BY <1>3, <1>5, <1>6, <1>8, <1>9

LEMMA ToAllTyped ==
    ASSUME NEW ids \in Seq(Id), NEW e \in Event \cup {Error}
    PROVE  /\ ToAll(ids, e) \in Seq(Message) /\ Len(ToAll(ids, e)) = Len(ids)
           /\ \A i \in 1..Len(ids) : ToAll(ids, e)[i] = [id |-> ids[i], event |-> e]
  <1> DEFINE n == Len(ids)
             row == [i \in 1..n |-> [id |-> ids[i], event |-> e]]
  <1>1. n \in Nat /\ DOMAIN ids = 1..n /\ \A i \in 1..n : ids[i] \in Id
    BY LenProperties, ElementOfSeq
  <1>2. ToAll(ids, e) = row
    BY <1>1 DEF ToAll
  <1>3. row \in [1..n -> Message]
    <2> HIDE DEF n
    <2> QED BY <1>1 DEF Message
  <1>4. row \in Seq(Message) /\ Len(row) = n
    <2> HIDE DEF row, n
    <2>1. row \in Seq(Message)
      BY <1>1, <1>3, SeqDef
    <2>2. DOMAIN row = 1..n
      BY <1>3
    <2> QED BY <1>1, <2>1, <2>2, LenProperties
  <1> QED BY <1>2, <1>4

LEMMA MessagesTyped ==
    ASSUME NEW text \in Seq(Half)
    PROVE  /\ Messages(text) \in Seq(Message) /\ Len(Messages(text)) = Whole(text)
           /\ \A i \in 1..Whole(text) :
                Messages(text)[i] = [id |-> text[2 * i].id, event |-> text[2 * i].event]
  <1> DEFINE n == Whole(text)
             row == [i \in 1..n |-> [id |-> text[2 * i].id, event |-> text[2 * i].event]]
  <1>1. n \in Nat /\ 2 * n <= Len(text) /\ Len(text) \in Nat
    BY WholeFacts, LenProperties
  <1>2. Messages(text) = row
    BY DEF Messages
  <1> HIDE DEF n
  <1>3. ASSUME NEW i \in 1..n PROVE [id |-> text[2 * i].id, event |-> text[2 * i].event] \in Message
    <2>1. 2 * i \in 1..Len(text)
      BY <1>1
    <2>2. text[2 * i] \in Half
      BY <2>1, ElementOfSeq
    <2> QED BY <2>2 DEF Half, Message
  <1>4. row \in [1..n -> Message]
    BY <1>3
  <1>5. row \in Seq(Message) /\ Len(row) = n
    <2> HIDE DEF row
    <2>1. row \in Seq(Message)
      BY <1>1, <1>4, SeqDef
    <2>2. DOMAIN row = 1..n
      BY <1>4
    <2> QED BY <1>1, <2>1, <2>2, LenProperties
  <1> QED BY <1>2, <1>5 DEF n

\* What becomes of the post: nothing is read of it, or a chunk.  (`more' follows.)
Reads(b) ==
    \E n \in Nat, more \in Seq(Message) :
        /\ n <= Len(batches[b].wire)
        /\ more \in {<<>>, StillOpen(batches[b].ids)}
        /\ ReceiveChunk(b, SubSeq(batches[b].wire, 1, n), more)

LEMMA PostFacts ==
    ASSUME PostsTyped, NEW b \in DOMAIN batches
    PROVE  /\ batches[b] \in Batch
           /\ batches[b].ids \in Seq(Id) /\ ToSet(batches[b].ids) \in SUBSET Id
           /\ batches[b].wire \in Seq(Half) /\ batches[b].buffer \in Seq(Half)
           /\ Len(batches[b].wire) \in Nat /\ Len(batches[b].buffer) \in Nat
           /\ SubSeq(batches[b].wire, 1, Len(batches[b].wire)) = batches[b].wire
  <1> DEFINE q == batches[b]
  <1>1. q \in Batch
    BY ElementOfSeq, LenProperties DEF PostsTyped
  <1> HIDE DEF q
  <1>2. q.ids \in Seq(Id) /\ q.wire \in Seq(Half) /\ q.buffer \in Seq(Half)
    BY <1>1, PostTyped
  <1>3. ToSet(q.ids) \in SUBSET Id
    BY <1>2, ElementOfSeq, LenProperties DEF ToSet
  <1> QED BY <1>1, <1>2, <1>3, LenProperties, SubSeqFull DEF q

LEMMA ClientReads ==
    ASSUME PostsTyped, NEW b \in DOMAIN batches, ClientOf(b)
    PROVE  \/ FetchFails(b) \/ FetchResolves(b) \/ ReadDone(b) \/ ReadFails(b)
           \/ Reads(b) /\ batches[b].fetch = "responding"
  <1> DEFINE q == batches[b]
             more == StillOpen(q.ids)
  <1>1. q.ids \in Seq(Id) /\ Len(q.wire) \in Nat /\ SubSeq(q.wire, 1, Len(q.wire)) = q.wire
    BY PostFacts
  <1>2. more \in Seq(Message)
    BY <1>1, CloseEvents, ToAllTyped DEF StillOpen
  <1>3. CASE ReadChunk(b)
    <2>1. PICK n \in 1..Len(q.wire) : ReceiveChunk(b, SubSeq(q.wire, 1, n), <<>>)
      BY <1>3 DEF ReadChunk
    <2>2. n \in Nat /\ n <= Len(q.wire) /\ <<>> \in Seq(Message)
      BY <1>1, EmptySeq
    <2>3. q.fetch = "responding"
      BY <1>3 DEF ReadChunk, Responding
    <2> QED BY <2>1, <2>2, <2>3 DEF Reads
  <1>4. CASE Readable(b)
    <2>1. ReceiveChunk(b, q.wire, more)
      BY <1>4 DEF Readable
    <2> DEFINE n == Len(q.wire)
    <2>2. SubSeq(q.wire, 1, n) = q.wire /\ n \in Nat /\ n <= Len(q.wire)
      BY <1>1
    <2> HIDE DEF n, more
    <2>3. ReceiveChunk(b, SubSeq(q.wire, 1, n), more)
      BY <2>1, <2>2, Zenon
    <2>4. q.fetch = "responding"
      BY <1>4 DEF Readable, Responding
    <2> QED BY <1>2, <2>2, <2>3, <2>4 DEF Reads, more
  <1> QED BY <1>3, <1>4 DEF ClientOf

StreamsTyped == streams \in StreamSets(Id) /\ output \in [Id -> Outputs]

LEMMA ClientStreams ==
    ASSUME PostsTyped, StreamsTyped, NEW b \in DOMAIN batches, ClientOf(b)
    PROVE  \/ UNCHANGED <<streams, output>>
           \/ \E s \in Seq(Message) : ReceiveAll(s)
  <1> DEFINE q == batches[b]
  <1>1. q.ids \in Seq(Id) /\ q.wire \in Seq(Half) /\ q.buffer \in Seq(Half)
    BY PostFacts
  <1> HIDE DEF q
  <1>2. \A e \in Event \cup {Error} : ToAll(q.ids, e) \in Seq(Message)
    BY <1>1, ToAllTyped
  <1>3. StillOpen(q.ids) \in Seq(Message) /\ ErrorAndClose(q.ids) \in Seq(Message)
    BY <1>2, CloseEvents, ConcatProperties DEF StillOpen, ErrorAndClose
  <1>4. CASE FetchFails(b)
    BY <1>3, <1>4 DEF FetchFails, q
  <1>5. CASE FetchResolves(b) \/ ReadFails(b)
    BY <1>5 DEF FetchResolves, ReadFails
  <1>6. CASE ReadDone(b)
    BY <1>3, <1>6 DEF ReadDone, q
  <1>7. CASE Reads(b)
    <2>1. PICK n \in Nat, more \in Seq(Message) :
             n <= Len(q.wire) /\ ReceiveChunk(b, SubSeq(q.wire, 1, n), more)
      BY <1>7 DEF Reads, q
    <2> DEFINE text == q.buffer \o SubSeq(q.wire, 1, n)
    <2>2. ReceiveAll(Messages(text) \o more)
      BY <2>1 DEF ReceiveChunk, q
    <2>3. SubSeq(q.wire, 1, n) \in Seq(Half)
      <3>1. \A i \in 1..n : q.wire[i] \in Half
        BY <1>1, <2>1, ElementOfSeq, LenProperties
      <3> QED BY <3>1, SubSeqProperties
    <2>4. text \in Seq(Half)
      BY <1>1, <2>3, ConcatProperties
    <2> HIDE DEF text
    <2>5. Messages(text) \o more \in Seq(Message)
      BY <2>4, MessagesTyped, ConcatProperties
    <2> QED BY <2>2, <2>5
  <1> QED BY <1>4, <1>5, <1>6, <1>7, ClientReads

LEMMA StreamsTypedStep == PostsTyped /\ StreamsTyped /\ [Next]_vars => StreamsTyped'
  <1> SUFFICES ASSUME PostsTyped, StreamsTyped, [Next]_vars PROVE StreamsTyped'
    OBVIOUS
  <1>1. streams \in StreamSets(Id) /\ output \in [Id -> Outputs]
    BY DEF StreamsTyped
  <1>2. CASE Flush
    <2>1. output' = output /\ streams' = [streams EXCEPT !.open = @ \cup ToSet(queuedMessages)]
      BY <1>2 DEF Flush
    <2>2. ToSet(queuedMessages) \in SUBSET Id
      BY ElementOfSeq, LenProperties DEF PostsTyped, ToSet
    <2> QED BY <1>1, <2>1, <2>2 DEF StreamsTyped, StreamSets
  <1>3. ASSUME NEW id \in Id, ConsumerStops(id) PROVE StreamsTyped'
    <2>1. streams' = streams /\ output' = [output EXCEPT ![id] = Stopped(@)]
      BY <1>3 DEF ConsumerStops
    <2>2. Stopped(output[id]) \in Outputs
      BY <1>1, EmptySeq, OutputFacts
    <2> QED BY <1>1, <2>1, <2>2 DEF StreamsTyped
  <1>4. ASSUME NEW b \in DOMAIN batches, ClientOf(b) PROVE StreamsTyped'
    BY <1>1, <1>4, ClientStreams, ReceiveAllFacts DEF StreamsTyped
  <1>5. CASE UNCHANGED <<streams, output>>
    BY <1>1, <1>5 DEF StreamsTyped
  <1>6. CASE SendRequest \/ UNCHANGED vars
    BY <1>5, <1>6 DEF SendRequest, vars
  <1>7. ASSUME NEW b \in DOMAIN batches,
               Arrive(b) \/ HandleOne(b) \/ \E id \in Id, e \in Event : HandlerEmits(b, id, e)
        PROVE  StreamsTyped'
    BY <1>5, <1>7 DEF Arrive, HandleOne, HandlerEmits
  <1> QED BY <1>2, <1>3, <1>4, <1>6, <1>7 DEF Next, ClientOf

LEMMA StreamsTypedInit == Init => StreamsTyped
  <1> SUFFICES ASSUME Init PROVE StreamsTyped
    OBVIOUS
  <1>1. NewStream \in Outputs
    BY EmptySeq DEF NewStream, Outputs
  <1> QED BY <1>1 DEF Init, StreamsTyped, NoStreams, StreamSets

\* Every variable keeps its type, in particular what the streams get: messages cut
\* out of a response are whole events, also of a decoder that has lost its place.
THEOREM ExchangeTypeCorrect == Spec => []TypeOK
  <1>1. PostsTyped /\ StreamsTyped => TypeOK
    BY DEF PostsTyped, StreamsTyped, TypeOK
  <1> QED BY <1>1, PostsTypedInit, PostsTypedStep, StreamsTypedInit, StreamsTypedStep, PTL DEF Spec

-----------------------------------------------------------------------------
\* The decoder

Posted == [id : Id, event : Event]
Half1(m) == [id |-> m.id, event |-> m.event, part |-> 1]
Half2(m) == [id |-> m.id, event |-> m.event, part |-> 2]

\* The texts of messages, one after another.
Spells(text, msgs) ==
    /\ Len(text) = 2 * Len(msgs)
    /\ \A i \in 1..Len(msgs) : text[2 * i - 1] = Half1(msgs[i]) /\ text[2 * i] = Half2(msgs[i])

LEMMA HalvesOf ==
    ASSUME NEW m \in Posted
    PROVE  /\ Half1(m) \in Half /\ Half2(m) \in Half /\ Half1(m).part = 1
           /\ Half2(m) = [Half1(m) EXCEPT !.part = 2]
           /\ Half2(m).id = m.id /\ Half2(m).event = m.event
           /\ m = [id |-> m.id, event |-> m.event]
  BY DEF Posted, Half, Half1, Half2

LEMMA SpellsAppend ==
    ASSUME NEW text \in Seq(Half), NEW msgs \in Seq(Posted), Spells(text, msgs), NEW m \in Posted
    PROVE  Spells(text \o Text(m.id, m.event), Append(msgs, m))
  <1> DEFINE n == Len(msgs)
             two == Text(m.id, m.event)
             full == text \o two
             all == Append(msgs, m)
  <1>1. /\ n \in Nat /\ Len(text) = 2 * n
        /\ \A i \in 1..n : text[2 * i - 1] = Half1(msgs[i]) /\ text[2 * i] = Half2(msgs[i])
    BY LenProperties DEF Spells
  <1>2. /\ two \in Seq(Half) /\ Len(two) = 2 /\ two[1] = Half1(m) /\ two[2] = Half2(m)
    <2>1. two = <<Half1(m), Half2(m)>>
      BY DEF Text, Half1, Half2
    <2> HIDE DEF two
    <2> QED BY <2>1, HalvesOf
  <1>3. Len(all) = n + 1 /\ all[n + 1] = m /\ \A i \in 1..n : all[i] = msgs[i]
    BY AppendProperties
  <1> HIDE DEF n, two, all
  <1>4. /\ Len(full) = 2 * n + 2
        /\ \A i \in 1..2 * n : full[i] = text[i]
        /\ full[2 * n + 1] = two[1] /\ full[2 * n + 2] = two[2]
    <2>1. /\ Len(full) = 2 * n + 2
          /\ \A i \in 1..2 * n + 2 : full[i] = IF i <= 2 * n THEN text[i] ELSE two[i - 2 * n]
      <3>1. /\ Len(full) = Len(text) + Len(two)
            /\ \A i \in 1..Len(text) + Len(two) :
                  full[i] = IF i <= Len(text) THEN text[i] ELSE two[i - Len(text)]
        BY <1>2, ConcatProperties
      <3> HIDE DEF full
      <3> QED BY <1>1, <1>2, <3>1
    <2> HIDE DEF full
    <2>2. 2 * n + 1 \in 1..2 * n + 2 /\ 2 * n + 2 \in 1..2 * n + 2
          /\ (2 * n + 1) - 2 * n = 1 /\ (2 * n + 2) - 2 * n = 2
      BY <1>1
    <2>3. full[2 * n + 1] = two[(2 * n + 1) - 2 * n] /\ full[2 * n + 2] = two[(2 * n + 2) - 2 * n]
      BY <1>1, <2>1, <2>2
    <2>4. \A i \in 1..2 * n : full[i] = text[i]
      BY <1>1, <2>1
    <2> QED BY <2>1, <2>2, <2>3, <2>4
  <1> HIDE DEF full
  <1>5. ASSUME NEW i \in 1..n + 1 PROVE full[2 * i - 1] = Half1(all[i]) /\ full[2 * i] = Half2(all[i])
    <2>1. CASE i = n + 1
      <3>1. 2 * i - 1 = 2 * n + 1 /\ 2 * i = 2 * n + 2
        BY <1>1, <2>1
      <3> QED BY <1>2, <1>3, <1>4, <2>1, <3>1
    <2>2. CASE i # n + 1
      <3>1. i \in 1..n /\ 2 * i - 1 \in 1..2 * n /\ 2 * i \in 1..2 * n
        BY <1>1, <2>2
      <3>2. full[2 * i - 1] = text[2 * i - 1] /\ full[2 * i] = text[2 * i]
        BY <1>4, <3>1
      <3> QED BY <1>1, <1>3, <3>1, <3>2
    <2> QED BY <2>1, <2>2
  <1>6. Len(full) = 2 * Len(all)
    BY <1>1, <1>3, <1>4
  <1> QED BY <1>3, <1>5, <1>6 DEF Spells, full, all, two

\* Whole(text) for a text that is whole texts and at most a first half.
LEMMA WholeOf ==
    ASSUME NEW text \in Seq(Half), NEW k \in Nat, Len(text) \in {2 * k, 2 * k + 1}, Complete(text, k)
    PROVE  Whole(text) = k
  <1> DEFINE N == Len(text) \div 2
             S == {n \in 0..N : Complete(text, n)}
  <1>1. N = k
    OBVIOUS
  <1>2. S \in SUBSET (0..k) /\ k \in S
    BY <1>1
  <1>3. Whole(text) = Max(S)
    BY DEF Whole
  <1> HIDE DEF S
  <1>4. Max(S) \in S /\ k <= Max(S)
    BY <1>2, MaxOfNumbers
  <1>5. Max(S) \in 0..k
    BY <1>2, <1>4
  <1> QED BY <1>3, <1>4, <1>5

\* Where a chunk ends within the texts.
LEMMA CutTexts ==
    ASSUME NEW msgs \in Seq(Posted), NEW text \in Seq(Half), NEW tail \in Seq(Half),
           Spells(text \o tail, msgs)
    PROVE  \E k \in 0..Len(msgs) :
              /\ Len(text) \in {2 * k, 2 * k + 1}
              /\ Messages(text) = SubSeq(msgs, 1, k)
              /\ Remaining(text) \in Seq(Half) /\ Len(Remaining(text)) = Len(text) - 2 * k
              /\ Len(text) = 2 * k + 1 => Remaining(text)[1].part = 1
              /\ Spells(Remaining(text) \o tail, SubSeq(msgs, k + 1, Len(msgs)))
  <1> DEFINE n == Len(msgs)
             l == Len(text)
             full == text \o tail
             k == l \div 2
             rest == Remaining(text)
             more == SubSeq(msgs, k + 1, n)
             first == SubSeq(msgs, 1, k)
  <1>1. /\ n \in Nat /\ l \in Nat /\ Len(tail) \in Nat /\ \A i \in 1..n : msgs[i] \in Posted
    BY LenProperties, ElementOfSeq
  <1>2. /\ l + Len(tail) = 2 * n
        /\ \A i \in 1..l : full[i] = text[i]
        /\ \A i \in 1..Len(tail) : full[l + i] = tail[i]
        /\ \A i \in 1..n : full[2 * i - 1] = Half1(msgs[i]) /\ full[2 * i] = Half2(msgs[i])
    BY ConcatProperties, LenProperties DEF Spells
  <1>3. k \in 0..n /\ (l = 2 * k \/ l = 2 * k + 1)
    BY <1>1, <1>2
  <1> HIDE DEF n, l, full, k
  <1>4. \A i \in 1..k : text[2 * i - 1] = Half1(msgs[i]) /\ text[2 * i] = Half2(msgs[i]) /\ i \in 1..n
    <2> TAKE i \in 1..k
    <2>1. 2 * i - 1 \in 1..l /\ 2 * i \in 1..l /\ i \in 1..n
      BY <1>1, <1>3
    <2>2. text[2 * i - 1] = full[2 * i - 1] /\ text[2 * i] = full[2 * i]
      BY <1>2, <2>1
    <2> QED BY <1>2, <2>1, <2>2
  <1>5. Complete(text, k)
    <2> SUFFICES ASSUME NEW i \in 1..k
                 PROVE  text[2 * i - 1].part = 1 /\ text[2 * i] = [text[2 * i - 1] EXCEPT !.part = 2]
      BY DEF Complete
    <2>1. text[2 * i - 1] = Half1(msgs[i]) /\ text[2 * i] = Half2(msgs[i]) /\ msgs[i] \in Posted
      BY <1>1, <1>4
    <2> QED BY <2>1, HalvesOf
  <1>6. Whole(text) = k
    <2>1. Len(text) \in {2 * k, 2 * k + 1} /\ k \in Nat
      BY <1>1, <1>3 DEF l
    <2> QED BY <1>5, <2>1, WholeOf
  <1>7. Messages(text) = first
    <2>1. /\ Messages(text) \in Seq(Message) /\ Len(Messages(text)) = k
          /\ \A i \in 1..k : Messages(text)[i] = [id |-> text[2 * i].id, event |-> text[2 * i].event]
      BY <1>6, MessagesTyped
    <2>2. first \in Seq(Posted) /\ Len(first) = k /\ \A i \in 1..k : first[i] = msgs[i]
      <3>1. \A i \in 1..k : msgs[i] \in Posted
        BY <1>1, <1>4
      <3> QED BY <1>1, <1>3, <3>1, SubSeqProperties
    <2>3. Posted \subseteq Message
      BY DEF Posted, Message
    <2>4. first \in Seq(Message)
      <3> HIDE DEF first
      <3> QED BY <2>2, <2>3, SeqMonotonic
    <2>5. ASSUME NEW i \in 1..k PROVE Messages(text)[i] = first[i]
      <3>1. text[2 * i] = Half2(msgs[i]) /\ msgs[i] \in Posted /\ first[i] = msgs[i]
        BY <1>1, <1>4, <2>2
      <3> HIDE DEF first
      <3>2. Messages(text)[i] = [id |-> text[2 * i].id, event |-> text[2 * i].event]
        BY <2>1
      <3>3. /\ text[2 * i].id = msgs[i].id /\ text[2 * i].event = msgs[i].event
            /\ msgs[i] = [id |-> msgs[i].id, event |-> msgs[i].event]
        BY <3>1, HalvesOf
      <3> QED BY <3>1, <3>2, <3>3
    <2> HIDE DEF first
    <2> DEFINE a == Messages(text)
    <2>6. a \in Seq(Message) /\ first \in Seq(Message) /\ Len(a) = Len(first) /\ \A i \in 1..Len(a) : a[i] = first[i]
      BY <2>1, <2>2, <2>4, <2>5
    <2> HIDE DEF a
    <2>7. a = first
      BY ONLY <2>6, SeqEqual
    <2> QED BY <2>7 DEF a
  <1>8. /\ rest \in Seq(Half) /\ Len(rest) = l - 2 * k
        /\ \A i \in 1..l - 2 * k : rest[i] = text[2 * k + i]
    <2>1. rest = SubSeq(text, 2 * k + 1, l)
      BY <1>6 DEF Remaining, l
    <2>2. \A i \in 2 * k + 1..l : text[i] \in Half
      BY <1>1, <1>3, ElementOfSeq DEF l
    <2> HIDE DEF rest
    <2>3. /\ rest \in Seq(Half) /\ Len(rest) = IF 2 * k + 1 <= l THEN l - (2 * k + 1) + 1 ELSE 0
          /\ \A i \in 1..l - (2 * k + 1) + 1 : rest[i] = text[2 * k + 1 + i - 1]
      BY <1>1, <1>3, <2>1, <2>2, SubSeqProperties
    <2>4. Len(rest) = l - 2 * k
      BY <1>1, <1>3, <2>3
    <2>5. ASSUME NEW i \in 1..l - 2 * k PROVE rest[i] = text[2 * k + i]
      <3>1. i \in 1..l - (2 * k + 1) + 1 /\ 2 * k + 1 + i - 1 = 2 * k + i
        BY <1>1, <1>3
      <3> QED BY <2>3, <3>1
    <2> QED BY <2>3, <2>4, <2>5
  <1> HIDE DEF rest
  <1>9. l = 2 * k + 1 => rest[1] = Half1(msgs[k + 1]) /\ k + 1 \in 1..n
    <2> HAVE l = 2 * k + 1
    <2>1. k + 1 \in 1..n /\ 2 * k + 1 \in 1..l /\ 2 * (k + 1) - 1 = 2 * k + 1 /\ 1 \in 1..l - 2 * k
      BY <1>1, <1>2, <1>3
    <2>2. rest[1] = text[2 * k + 1]
      BY <1>8, <2>1
    <2> QED BY <1>2, <2>1, <2>2
  <1>10. l = 2 * k + 1 => rest[1].part = 1
    BY <1>1, <1>9, HalvesOf
  <1>11. Spells(rest \o tail, more)
    <2>1. more \in Seq(Posted) /\ Len(more) = n - k /\ \A i \in 1..n - k : more[i] = msgs[k + i]
      <3>1. \A i \in k + 1..n : msgs[i] \in Posted
        BY <1>1, <1>3
      <3>2. /\ more \in Seq(Posted) /\ Len(more) = IF k + 1 <= n THEN n - (k + 1) + 1 ELSE 0
            /\ \A i \in 1..n - (k + 1) + 1 : more[i] = msgs[k + 1 + i - 1]
        BY <1>1, <1>3, <3>1, SubSeqProperties
      <3> HIDE DEF more
      <3>3. Len(more) = n - k
        BY <1>1, <1>3, <3>2
      <3>4. ASSUME NEW i \in 1..n - k PROVE more[i] = msgs[k + i]
        <4>1. i \in 1..n - (k + 1) + 1 /\ k + 1 + i - 1 = k + i
          BY <1>1, <1>3
        <4> QED BY <3>2, <4>1
      <3> QED BY <3>2, <3>3, <3>4
    <2> DEFINE left == rest \o tail
               r == l - 2 * k
    <2>2. /\ Len(left) = r + Len(tail) /\ r \in Nat
          /\ \A i \in 1..r : left[i] = rest[i]
          /\ \A i \in 1..Len(tail) : left[r + i] = tail[i]
      <3>1. /\ Len(left) = Len(rest) + Len(tail)
            /\ \A i \in 1..Len(rest) + Len(tail) :
                  left[i] = IF i <= Len(rest) THEN rest[i] ELSE tail[i - Len(rest)]
        BY <1>8, ConcatProperties
      <3>2. r \in Nat /\ Len(rest) = r
        BY <1>1, <1>3, <1>8
      <3> HIDE DEF left, r
      <3>3. \A i \in 1..Len(tail) : r + i \in 1..r + Len(tail) /\ ~(r + i <= r) /\ (r + i) - r = i
        BY <1>1, <3>2
      <3>4. \A i \in 1..Len(tail) : left[r + i] = tail[(r + i) - r]
        BY <3>1, <3>2, <3>3
      <3>5. \A i \in 1..r : left[i] = rest[i]
        BY <1>1, <3>1, <3>2
      <3> QED BY <3>1, <3>2, <3>3, <3>4, <3>5
    <2>3. Len(left) = 2 * (n - k)
      BY <1>1, <1>2, <1>3, <2>2
    <2> HIDE DEF left, more
    \* What is left is the full text from position 2k + 1.
    <2>4. ASSUME NEW i \in 1..2 * (n - k) PROVE left[i] = full[2 * k + i]
      <3>1. CASE i \in 1..r
        <4>1. 2 * k + i \in 1..l /\ i \in 1..l - 2 * k
          BY <1>1, <1>3, <3>1
        <4> HIDE DEF r
        <4>2. left[i] = rest[i] /\ rest[i] = text[2 * k + i]
          BY <1>8, <2>2, <3>1, <4>1
        <4> QED BY <1>2, <4>1, <4>2
      <3>2. CASE i \notin 1..r
        <4>1. PICK j \in 1..Len(tail) : i = r + j /\ 2 * k + i = l + j
          <5>1. i - r \in 1..Len(tail) /\ i = r + (i - r) /\ 2 * k + i = l + (i - r)
            BY <1>1, <1>2, <1>3, <3>2
          <5> QED BY <5>1
        <4> HIDE DEF r
        <4>2. left[i] = tail[j] /\ full[l + j] = tail[j]
          BY <1>2, <2>2, <4>1
        <4> QED BY <4>1, <4>2
      <3> QED BY <3>1, <3>2
    <2>5. ASSUME NEW i \in 1..n - k
          PROVE  left[2 * i - 1] = Half1(more[i]) /\ left[2 * i] = Half2(more[i])
      <3>1. /\ 2 * i - 1 \in 1..2 * (n - k) /\ 2 * i \in 1..2 * (n - k) /\ k + i \in 1..n
            /\ 2 * k + (2 * i - 1) = 2 * (k + i) - 1 /\ 2 * k + 2 * i = 2 * (k + i)
        BY <1>1, <1>3
      <3>2. left[2 * i - 1] = full[2 * (k + i) - 1] /\ left[2 * i] = full[2 * (k + i)]
        BY <2>4, <3>1
      <3> QED BY <1>2, <2>1, <3>1, <3>2
    <2>6. Len(left) = 2 * Len(more)
      BY <2>1, <2>3
    <2> QED BY <2>1, <2>5, <2>6 DEF Spells, left
  <1> QED BY <1>3, <1>7, <1>8, <1>10, <1>11 DEF n, l, rest

-----------------------------------------------------------------------------
\* Outputs and their handlers

\* The requests whose outputs still get events.
Live == {id \in streams.open : ~output[id].closedByDownstream}

\* A handler emits nothing before it is called, nothing after its close event and
\* no event twice.
EmittedInv ==
    \A id \in Id :
        /\ handler[id] = "none" => emitted[id] = <<>>
        /\ handler[id] = "running" => Close \notin ToSet(emitted[id])
        /\ \A i \in DOMAIN emitted[id] : emitted[id][i].t = "item" => emitted[id][i].n = i

PostOf(b) == ToSet(batches[b].ids)

\* An output gets nothing before its request is posted, nor before the response.
QuietInv ==
    /\ \A id \in Id : (\A b \in DOMAIN batches : id \notin PostOf(b)) =>
          id \notin streams.open /\ output[id].got = <<>>
    /\ \A b \in DOMAIN batches : batches[b].fetch = "waiting" =>
          batches[b].buffer = <<>> /\ \A id \in PostOf(b) : output[id].got = <<>>

\* What OutputFollowsHandler says of an output; one that is live has what its
\* handler emitted and nothing else.
Fits(got, em) ==
    \/ Begins(got, em)
    \/ got # <<>> /\ got[Len(got)] = Close
       /\ Len(got) - 1 <= Len(em) /\ \A i \in 1..Len(got) - 1 : got[i] = em[i]
    \/ Begins(got, <<Error, Close>>)

FollowsInv ==
    \A id \in Id : /\ Fits(output[id].got, emitted[id])
                   /\ id \in Live => Begins(output[id].got, emitted[id])

\* The decoder holds at most a first half, and what it has not read are the
\* messages `msgs': different ones, which their handlers emitted.
Aligned(b, buffer, wire, msgs) ==
    /\ Spells(buffer \o wire, msgs)
    /\ Len(buffer) <= 1
    /\ \A i \in 1..Len(msgs) :
          msgs[i].id \in PostOf(b) /\ msgs[i].event \in ToSet(emitted[msgs[i].id])
    /\ \A i, j \in 1..Len(msgs) : msgs[i] = msgs[j] => i = j

\* With them each live output of the post has all its handler emitted.
InPlace(b, msgs) ==
    /\ Aligned(b, batches[b].buffer, batches[b].wire, msgs)
    /\ \A id \in PostOf(b) :
          id \in Live => output[id].got \o EventsFor(id, msgs) = emitted[id]

Second(half) == [half EXCEPT !.part = 2]

\* The decoder kept the first half of a text whose second half it has had, and as
\* that half does not come again it finds no message any more.
Misplaced(b, buffer, wire) ==
    /\ buffer # <<>>
    /\ buffer[1].part = 1 /\ buffer[1].id \in PostOf(b)
    /\ buffer[1].event \in ToSet(emitted[buffer[1].id])
    /\ Len(buffer) > 1 => buffer[2] # Second(buffer[1])
    /\ \A i \in 1..Len(wire) : wire[i] # Second(buffer[1])

OutOfPlace(b) == Misplaced(b, batches[b].buffer, batches[b].wire)

Decoder(b) == (\E msgs \in Seq(Posted) : InPlace(b, msgs)) \/ OutOfPlace(b)
Decoded == {b \in DOMAIN batches : Decoder(b)}
DecoderInv == DOMAIN batches = Decoded

OutputsInv == EmittedInv /\ QuietInv /\ FollowsInv /\ DecoderInv

LEMMA PostsDisjoint ==
    ASSUME PostsInv, NEW b \in DOMAIN batches, NEW c \in DOMAIN batches, NEW id,
           id \in PostOf(b), id \in PostOf(c)
    PROVE  b = c
  BY DEF PostsInv, PostOf, ToSet

\* A post of which neither side does anything.
LEMMA DecoderSame ==
    ASSUME PostsTyped, NEW b \in DOMAIN batches, Decoder(b), b \in DOMAIN batches',
           batches'[b].ids = batches[b].ids, batches'[b].buffer = batches[b].buffer,
           batches'[b].wire = batches[b].wire,
           \A id \in PostOf(b) : /\ emitted'[id] = emitted[id]
                                 /\ id \in Live' => id \in Live /\ output'[id].got = output[id].got
    PROVE  b \in Decoded'
  <1> SUFFICES Decoder(b)'
    BY DEF Decoded
  <1>0. PostOf(b)' = PostOf(b)
    BY DEF PostOf
  <1>1. CASE OutOfPlace(b)
    <2>1. OutOfPlace(b)'
      BY <1>0, <1>1 DEF OutOfPlace, Misplaced
    <2> QED BY <2>1 DEF Decoder
  <1>2. CASE \E msgs \in Seq(Posted) : InPlace(b, msgs)
    <2>1. PICK msgs \in Seq(Posted) : InPlace(b, msgs)
      BY <1>2
    <2>2. InPlace(b, msgs)'
      BY <1>0, <2>1 DEF InPlace, Aligned
    <2> QED BY <2>2 DEF Decoder
  <1> QED BY <1>1, <1>2 DEF Decoder

LEMMA EventsForEmpty == \A id : EventsFor(id, <<>>) = <<>>
  <1> SUFFICES ASSUME NEW id PROVE EventsFor(id, <<>>) = <<>>
    OBVIOUS
  <1>1. Kept(<<>>, Mine(id)) = <<>>
    <2>1. <<>> \in Seq(Message) /\ \A i \in 1..Len(<<>>) : <<>>[i] \notin Mine(id)
      BY EmptySeq
    <2> QED BY <2>1, KeptNone
  <1>2. EventsFor(id, <<>>) = EventsOf(<<>>)
    BY <1>1, EmptySeq, EventsForMine
  <1> QED BY <1>2 DEF EventsOf

LEMMA BeginsConcat ==
    ASSUME NEW S, NEW g \in Seq(S), NEW x \in Seq(S), NEW y \in Seq(S)
    PROVE  /\ Begins(g, g \o x) /\ Begins(g, g)
           /\ Begins(g \o x, y) => Begins(g, y)
  <1> DEFINE gx == g \o x
             n == Len(g)
  <1>1. /\ n \in Nat /\ Len(x) \in Nat /\ Len(y) \in Nat /\ Len(gx) = n + Len(x)
        /\ \A i \in 1..n : gx[i] = g[i] /\ i \in 1..Len(gx)
    <2>1. /\ n \in Nat /\ Len(x) \in Nat /\ Len(y) \in Nat
      BY LenProperties
    <2>2. Len(gx) = n + Len(x) /\ \A i \in 1..n + Len(x) : gx[i] = IF i <= n THEN g[i] ELSE x[i - n]
      BY ConcatProperties
    <2> HIDE DEF gx, n
    <2>3. \A i \in 1..n : i \in 1..n + Len(x) /\ i <= n
      BY <2>1
    <2> QED BY <2>1, <2>2, <2>3
  <1> HIDE DEF gx
  <1>2. Begins(g, gx) /\ Begins(g, g)
    BY <1>1 DEF Begins
  <1>3. ASSUME Begins(gx, y) PROVE Begins(g, y)
    BY <1>1, <1>3 DEF Begins
  <1> QED BY <1>2, <1>3 DEF gx

\* An output gets the first of the events y and z, to the first close event; those
\* in z are close events.
LEMMA StillFits ==
    ASSUME NEW g \in Seq(Event \cup {Error}), NEW y \in Seq(Event \cup {Error}),
           NEW z \in Seq(Event \cup {Error}), NEW r \in Seq(Event \cup {Error}), NEW em \in Seq(Event),
           Begins(g \o y, em), \A i \in 1..Len(z) : z[i] = Close,
           Begins(r, y \o z),
           NEW n \in 1..Len(y \o z), Len(r) = n, r[n] = Close, \A i \in 1..n - 1 : r[i] # Close
    PROVE  Fits(g \o r, em)
  <1> DEFINE E == Event \cup {Error}
             gl == Len(g)
             yl == Len(y)
             gy == g \o y
             yz == y \o z
             gr == g \o r
  <1>1. /\ gl \in Nat /\ yl \in Nat /\ Len(z) \in Nat /\ Len(em) \in Nat
        /\ yz \in Seq(E)
    BY LenProperties, ConcatProperties
  <1>2. Len(gy) = gl + yl /\ \A i \in 1..gl + yl : gy[i] = IF i <= gl THEN g[i] ELSE y[i - gl]
    BY ConcatProperties
  <1>3. Len(yz) = yl + Len(z) /\ \A i \in 1..yl + Len(z) : yz[i] = IF i <= yl THEN y[i] ELSE z[i - yl]
    BY ConcatProperties
  <1>4. Len(gr) = gl + n /\ \A i \in 1..gl + n : gr[i] = IF i <= gl THEN g[i] ELSE r[i - gl]
    BY ConcatProperties, ZenonT(60)
  <1>5. /\ n \in 1..Len(yz) /\ n \in Nat /\ Begins(gy, em) /\ Begins(r, yz)
    BY <1>1, LenProperties
  <1> HIDE DEF gl, yl, gy, yz, gr, E
  <1>6. gl + yl <= Len(em) /\ \A i \in 1..gl + yl : gy[i] = em[i]
    BY <1>2, <1>5 DEF Begins
  <1>7. \A i \in 1..n : r[i] = yz[i]
    BY <1>5 DEF Begins
  \* As far as y goes.
  <1>8. ASSUME NEW i \in 1..gl + n, i <= gl + yl PROVE gr[i] = em[i]
    <2>1. i \in 1..gl + yl
      BY <1>1, <1>8
    <2>2. CASE i <= gl
      BY <1>2, <1>4, <1>6, <2>1, <2>2
    <2>3. CASE ~(i <= gl)
      <3>1. i - gl \in 1..n /\ i - gl \in 1..yl + Len(z) /\ i - gl <= yl
        BY <1>1, <1>3, <1>5, <1>8, <2>3
      <3>2. r[i - gl] = yz[i - gl] /\ yz[i - gl] = y[i - gl]
        BY <1>3, <1>7, <3>1
      <3> QED BY <1>2, <1>4, <1>6, <2>1, <2>3, <3>2
    <2> QED BY <2>2, <2>3
  <1>9. CASE n <= yl
    <2>1. \A i \in 1..gl + n : i <= gl + yl
      BY <1>1, <1>5, <1>9
    <2>2. \A i \in 1..gl + n : gr[i] = em[i]
      BY <1>8, <2>1
    <2>3. gl + n <= Len(em)
      BY <1>1, <1>5, <1>6, <1>9
    <2> QED BY <1>4, <2>2, <2>3 DEF Fits, Begins, gr
  <1>10. CASE ~(n <= yl)
    <2>1. n = yl + 1
      <3> SUFFICES ASSUME n # yl + 1 PROVE FALSE
        OBVIOUS
      <3>1. /\ yl + 1 \in 1..n - 1 /\ yl + 1 \in 1..n /\ yl + 1 \in 1..yl + Len(z)
            /\ ~(yl + 1 <= yl) /\ (yl + 1) - yl = 1 /\ 1 \in 1..Len(z)
        BY <1>1, <1>3, <1>5, <1>10
      <3>2. yz[yl + 1] = z[(yl + 1) - yl]
        BY <1>3, <3>1
      <3>3. r[yl + 1] = Close
        BY <1>7, <3>1, <3>2
      <3> QED BY <3>1, <3>3
    <2>2. /\ gl + n \in 1..gl + n /\ ~(gl + n <= gl) /\ (gl + n) - gl = n /\ (gl + n) - 1 = gl + yl
          /\ \A i \in 1..(gl + n) - 1 : i \in 1..gl + n /\ i <= gl + yl
      BY <1>1, <1>5, <2>1
    <2>3. gr[gl + n] = r[(gl + n) - gl]
      BY <1>4, <2>2
    <2>4. gr[gl + n] = Close
      BY <2>2, <2>3
    <2>5. \A i \in 1..(gl + n) - 1 : gr[i] = em[i]
      BY <1>8, <2>2
    <2>6. gr # <<>>
      <3>1. Len(<<>>) = 0 /\ Len(gr) # 0
        BY <1>1, <1>4, <1>5
      <3> QED BY <3>1
    <2>7. Len(gr) - 1 <= Len(em) /\ gr[Len(gr)] = Close /\ \A i \in 1..Len(gr) - 1 : gr[i] = em[i]
      BY <1>4, <1>6, <2>2, <2>4, <2>5
    <2> QED BY <2>6, <2>7 DEF Fits, gr
  <1> QED BY <1>9, <1>10

\* What is in messages that are all for requests of one post.
LEMMA EventsForOthers ==
    ASSUME NEW id, NEW s \in Seq(Message), \A i \in 1..Len(s) : s[i].id # id
    PROVE  EventsFor(id, s) = <<>>
  <1> DEFINE x == EventsFor(id, s)
  <1>1. x \in Seq(Event \cup {Error}) /\ \A i \in 1..Len(x) : \E j \in 1..Len(s) : s[j].id = id
    BY EventsForTyped
  <1> HIDE DEF x
  <1>2. \A i \in 1..Len(x) : FALSE
    BY <1>1
  <1>3. x = <<>>
    BY <1>1, <1>2, EmptySeq, LenProperties
  <1> QED BY <1>3 DEF x

LEMMA EventsForAll ==
    ASSUME NEW id, NEW ids \in Seq(Id), NEW e \in Event \cup {Error}
    PROVE  /\ \A i \in 1..Len(EventsFor(id, ToAll(ids, e))) : EventsFor(id, ToAll(ids, e))[i] = e
           /\ id \notin ToSet(ids) => EventsFor(id, ToAll(ids, e)) = <<>>
           /\ id \in ToSet(ids) /\ (\A i, j \in DOMAIN ids : ids[i] = ids[j] => i = j)
                => EventsFor(id, ToAll(ids, e)) = <<e>>
  <1> DEFINE s == ToAll(ids, e)
             x == EventsFor(id, s)
  <1>1. /\ s \in Seq(Message) /\ Len(s) = Len(ids) /\ DOMAIN ids = 1..Len(ids) /\ Len(ids) \in Nat
        /\ \A i \in 1..Len(ids) : s[i] = [id |-> ids[i], event |-> e]
    BY ToAllTyped, LenProperties
  <1>0. \A i \in 1..Len(s) : s[i].id = ids[i] /\ s[i].event = e /\ i \in DOMAIN ids
    <2> HIDE DEF s
    <2> TAKE i \in 1..Len(s)
    <2>1. i \in DOMAIN ids /\ s[i] = [id |-> ids[i], event |-> e]
      BY <1>1
    <2> QED BY <2>1
  <1> HIDE DEF s
  <1>2. \A i \in 1..Len(x) : \E j \in 1..Len(s) : s[j].event = x[i]
    BY <1>1, EventsForTyped
  <1>3. \A i \in 1..Len(x) : x[i] = e
    <2> HIDE DEF x
    <2> QED BY <1>0, <1>2
  <1>4. ASSUME id \notin ToSet(ids) PROVE x = <<>>
    <2>1. \A i \in 1..Len(s) : s[i].id # id
      BY <1>0, <1>4 DEF ToSet
    <2> QED BY <1>1, <2>1, EventsForOthers
  <1>5. ASSUME id \in ToSet(ids), \A i, j \in DOMAIN ids : ids[i] = ids[j] => i = j
        PROVE  x = <<e>>
    <2>1. PICK k \in 1..Len(s) : ids[k] = id
      BY <1>1, <1>5 DEF ToSet
    <2>2. s[k] \in Mine(id)
      <3>1. s[k] \in Message /\ s[k] = [id |-> id, event |-> e]
        BY <1>1, <2>1, ElementOfSeq
      <3> QED BY <3>1 DEF Mine
    <2>3. ASSUME NEW i \in 1..Len(s), i # k PROVE s[i] \notin Mine(id)
      <3>1. s[i].id = ids[i] /\ ids[i] # id
        BY <1>0, <1>5, <2>1, <2>3
      <3> QED BY <3>1 DEF Mine
    <2>4. Kept(s, Mine(id)) = <<s[k]>>
      BY <1>1, <2>2, <2>3, KeptOne
    <2>5. s[k] = [id |-> id, event |-> e]
      BY <1>1, <2>1
    <2>6. EventsOf(<<s[k]>>) = <<e>>
      BY <2>5 DEF EventsOf
    <2> QED BY <1>1, <2>4, <2>6, EventsForMine
  <1> QED BY <1>3, <1>4, <1>5 DEF s

\* A step in which the outputs of one post get the messages `first' of their
\* handlers and then those in `more'.
Follows(b, first) ==
    \A id \in Id :
        /\ Fits(output'[id].got, emitted[id])
        /\ output'[id].closedByDownstream = output[id].closedByDownstream
        /\ id \in Live' => /\ id \in Live /\ Begins(output'[id].got, emitted[id])
                        /\ output'[id].got = output[id].got \o EventsFor(id, first)
        /\ id \notin PostOf(b) => /\ output'[id].got = output[id].got
                                  /\ id \in streams'.open <=> id \in streams.open

LEMMA ReceivingFollows ==
    ASSUME PostsTyped, StreamsTyped, FollowsInv, NEW b \in DOMAIN batches,
           NEW first \in Seq(Message), \A i \in 1..Len(first) : first[i].id \in PostOf(b),
           \A id \in PostOf(b) : id \in Live =>
              Begins(output[id].got \o EventsFor(id, first), emitted[id]),
           NEW more \in Seq(Message), more \in {<<>>, StillOpen(batches[b].ids)},
           ReceiveAll(first \o more)
    PROVE  Follows(b, first)
  <1> DEFINE s == first \o more
             E == Event \cup {Error}
  <1>1. s \in Seq(Message) /\ \A id : EventsFor(id, s) = EventsFor(id, first) \o EventsFor(id, more)
    BY EventsForConcat
  <1>2. /\ output \in [Id -> Outputs] /\ streams \in StreamSets(Id) /\ batches[b].ids \in Seq(Id)
        /\ emitted \in [Id -> Seq(Event)]
    BY PostFacts DEF StreamsTyped, PostsTyped
  <1>3. \A id : /\ \A i \in 1..Len(EventsFor(id, more)) : EventsFor(id, more)[i] = Close
                /\ id \notin PostOf(b) => EventsFor(id, more) = <<>>
    <2> TAKE id
    <2>1. CASE more = <<>>
      BY <2>1, EventsForEmpty, EmptySeq
    <2>2. CASE more = StillOpen(batches[b].ids)
      BY <1>2, <2>2, CloseEvents, EventsForAll DEF StillOpen, PostOf
    <2> QED BY <2>1, <2>2
  <1> HIDE DEF s
  <1>4. \A id \in Id :
          /\ id \in streams'.open <=> id \in streams.open /\ Close \notin ToSet(Received(id, s))
          /\ output'[id].closedByDownstream = output[id].closedByDownstream
          /\ output[id].closedByDownstream => output'[id].got = output[id].got
          /\ ~output[id].closedByDownstream => output'[id].got = output[id].got \o Received(id, s)
    BY <1>1, <1>2, ReceiveAllFacts DEF s
  <1> SUFFICES ASSUME NEW id \in Id
               PROVE  /\ Fits(output'[id].got, emitted[id])
                      /\ output'[id].closedByDownstream = output[id].closedByDownstream
                      /\ id \in Live' => /\ id \in Live /\ Begins(output'[id].got, emitted[id])
                                      /\ output'[id].got = output[id].got \o EventsFor(id, first)
                      /\ id \notin PostOf(b) => /\ output'[id].got = output[id].got
                                                /\ id \in streams'.open <=> id \in streams.open
    BY DEF Follows
  <1> DEFINE g == output[id].got
             r == Received(id, s)
             y == EventsFor(id, first)
             z == EventsFor(id, more)
  <1>5. /\ g \in Seq(E) /\ r \in Seq(E) /\ y \in Seq(E) /\ z \in Seq(E) /\ g \o <<>> = g
        /\ Fits(g, emitted[id])
    <2>1. g \in Seq(E)
      BY <1>2 DEF Outputs
    <2> QED BY <1>1, <2>1, ReceivedFacts, EventsForTyped, ConcatEmptySeq DEF FollowsInv
  <1>6. EventsFor(id, s) = y \o z /\ Begins(r, y \o z)
    <2>1. s \in Seq(Message) /\ EventsFor(id, s) = y \o z
      BY <1>1, Zenon
    <2>2. Begins(Received(id, s), EventsFor(id, s))
      BY <2>1, ReceivedFacts, Zenon
    <2> QED BY <2>1, <2>2, Zenon
  <1>7. id \notin PostOf(b) => y = <<>> /\ z = <<>>
    <2> HAVE id \notin PostOf(b)
    <2>1. \A i \in 1..Len(first) : first[i].id # id
      OBVIOUS
    <2> QED BY <1>3, <2>1, EventsForOthers
  <1>8. /\ Close \in ToSet(r) => \E i \in 1..Len(r) : r[i] = Close
        /\ Len(r) \in Nat /\ \A i \in 1..Len(r) : r[i] \in ToSet(r)
    BY <1>5, LenProperties DEF ToSet
  <1>9. id \notin PostOf(b) => r = <<>> /\ Close \notin ToSet(r)
    <2> HAVE id \notin PostOf(b)
    <2>1. y \o z = <<>>
      BY <1>7
    <2>2. Len(r) = 0
      <3> HIDE DEF y, z, r
      <3>1. Len(<<>>) = 0
        OBVIOUS
      <3> QED BY <1>6, <1>8, <2>1, <3>1 DEF Begins
    <2> HIDE DEF r
    <2>3. r = <<>>
      BY <1>5, <2>2, EmptySeq
    <2> QED BY <1>8, <2>2, <2>3
  <1>10. id \in streams.open =>
           \/ r = y \o z /\ Close \notin ToSet(r)
           \/ \E n \in 1..Len(y \o z) :
                 Len(r) = n /\ r[n] = Close /\ \A i \in 1..n - 1 : r[i] # Close
    BY <1>1, <1>6, ReceivedFacts
  <1>11. id \notin streams.open => r = <<>>
    BY <1>1, ReceivedFacts
  <1>12. \A i \in 1..Len(z) : z[i] = Close
    BY <1>3
  <1> HIDE DEF r, y, z, g
  <1>13. ASSUME id \in streams.open, Close \notin ToSet(r) PROVE r = y
    <2>1. r = y \o z
      <3>1. ASSUME NEW n \in 1..Len(y \o z), Len(r) = n, r[n] = Close PROVE FALSE
        <4>1. n \in 1..Len(r)
          BY <1>8, <3>1
        <4> QED BY <1>8, <1>13, <3>1, <4>1
      <3> QED BY <1>10, <1>13, <3>1
    <2>2. z = <<>>
      <3> SUFFICES ASSUME z # <<>> PROVE FALSE
        OBVIOUS
      <3>1. Len(z) \in Nat \ {0} /\ Len(y) \in Nat
        BY <1>5, EmptySeq, LenProperties
      <3>2. /\ Len(r) = Len(y) + Len(z)
            /\ \A i \in 1..Len(y) + Len(z) : r[i] = IF i <= Len(y) THEN y[i] ELSE z[i - Len(y)]
        BY <1>5, <2>1, ConcatProperties
      <3>3. /\ Len(y) + 1 \in 1..Len(y) + Len(z) /\ ~(Len(y) + 1 <= Len(y))
            /\ (Len(y) + 1) - Len(y) = 1 /\ 1 \in 1..Len(z)
        BY <3>1
      <3>4. r[Len(y) + 1] = z[1]
        BY <3>2, <3>3
      <3>5. r[Len(y) + 1] = Close /\ Len(y) + 1 \in 1..Len(r)
        BY <1>12, <3>2, <3>3, <3>4
      <3> QED BY <1>8, <1>13, <3>5
    <2> QED BY <1>5, <2>1, <2>2, ConcatEmptySeq
  <1>14. Fits(output'[id].got, emitted[id])
    <2>1. CASE output[id].closedByDownstream \/ r = <<>>
      BY <1>4, <1>5, <2>1 DEF r, g
    <2>2. CASE ~output[id].closedByDownstream /\ r # <<>>
      <3>1. id \in streams.open /\ id \in Live /\ output'[id].got = g \o r /\ id \in PostOf(b)
        BY <1>4, <1>9, <1>11, <2>2 DEF Live, r, g
      <3>2. Begins(g \o y, emitted[id])
        BY <3>1 DEF g, y
      <3>3. emitted[id] \in Seq(Event)
        BY <1>2
      <3>4. CASE Close \notin ToSet(r)
        <4>1. Begins(g \o r, emitted[id])
          BY <1>13, <3>1, <3>2, <3>4
        <4> QED BY <3>1, <4>1 DEF Fits
      <3>5. CASE Close \in ToSet(r)
        <4>1. PICK n \in 1..Len(y \o z) : Len(r) = n /\ r[n] = Close /\ \A i \in 1..n - 1 : r[i] # Close
          BY <1>10, <3>1, <3>5
        <4>2. Fits(g \o r, emitted[id])
          BY <1>5, <1>6, <1>12, <3>2, <3>3, <4>1, StillFits DEF E
        <4> QED BY <3>1, <4>2
      <3> QED BY <3>4, <3>5
    <2> QED BY <2>1, <2>2
  <1>15. id \in Live' => id \in Live /\ output'[id].got = g \o y
    <2> HAVE id \in Live'
    <2>1. id \in streams.open /\ Close \notin ToSet(r) /\ id \in Live /\ output'[id].got = g \o r
      BY <1>4 DEF Live, r, g
    <2> QED BY <1>13, <2>1
  <1>16. id \in Live' => Begins(output'[id].got, emitted[id])
    <2> HAVE id \in Live'
    <2>1. id \in Live /\ output'[id].got = g \o y
      BY <1>15
    <2>2. CASE id \in PostOf(b)
      <3>1. Begins(g \o y, emitted[id])
        BY <2>1, <2>2 DEF g, y
      <3> QED BY <2>1, <3>1
    <2>3. CASE id \notin PostOf(b)
      <3>1. g \o y = g /\ Begins(g, emitted[id])
        BY <1>5, <1>7, <2>1, <2>3 DEF FollowsInv, g
      <3> QED BY <2>1, <3>1
    <2> QED BY <2>2, <2>3
  <1>17. id \notin PostOf(b) => output'[id].got = g /\ (id \in streams'.open <=> id \in streams.open)
    BY <1>4, <1>5, <1>9 DEF g, r
  <1> QED BY <1>4, <1>14, <1>15, <1>16, <1>17 DEF g, y

\* The decoder keeps its place on a chunk, or loses it: then it read a whole text
\* and kept its first half.
LEMMA ChunkInPlace ==
    ASSUME PostsTyped, NEW b \in DOMAIN batches, NEW buffer \in Seq(Half), NEW chunk \in Seq(Half),
           NEW tail \in Seq(Half), NEW msgs \in Seq(Posted), Aligned(b, buffer, chunk \o tail, msgs),
           NEW after \in Buffers(buffer \o chunk, buffer)
    PROVE  \E k \in 0..Len(msgs) :
              /\ Messages(buffer \o chunk) = SubSeq(msgs, 1, k)
              /\ \/ Aligned(b, after, tail, SubSeq(msgs, k + 1, Len(msgs)))
                 \/ Misplaced(b, after, tail)
  <1> DEFINE text == buffer \o chunk
             n == Len(msgs)
  <1>1. text \in Seq(Half) /\ n \in Nat /\ \A i \in 1..n : msgs[i] \in Posted
    BY ConcatProperties, LenProperties, ElementOfSeq
  <1>2. text \o tail = buffer \o (chunk \o tail)
    BY ConcatAssociative
  <1>3. Spells(text \o tail, msgs)
    BY <1>2, Zenon DEF Aligned
  <1>4. /\ Len(text) \in Nat /\ Len(buffer) \in {0, 1} /\ Len(text) = Len(buffer) + Len(chunk)
        /\ Len(buffer) = 1 => text[1] = buffer[1]
        /\ Len(buffer) = 0 => buffer = <<>>
    <2>1. Len(text) \in Nat /\ Len(buffer) \in Nat /\ Len(chunk) \in Nat
          /\ Len(text) = Len(buffer) + Len(chunk)
          /\ \A i \in 1..Len(buffer) + Len(chunk) :
                text[i] = IF i <= Len(buffer) THEN buffer[i] ELSE chunk[i - Len(buffer)]
      BY ConcatProperties, LenProperties
    <2>2. Len(buffer) <= 1
      BY DEF Aligned
    <2> HIDE DEF text
    <2>3. Len(buffer) = 1 => text[1] = buffer[1]
      BY <2>1
    <2>4. Len(buffer) = 0 => buffer = <<>>
      BY EmptySeq
    <2>5. Len(buffer) \in {0, 1}
      <3> DEFINE l == Len(buffer)
      <3>1. l \in Nat /\ l <= 1
        BY <2>1, <2>2
      <3> HIDE DEF l
      <3>2. l \in {0, 1}
        BY <3>1
      <3> QED BY <3>2 DEF l
    <2> QED BY <2>1, <2>3, <2>4, <2>5
  <1> HIDE DEF text
  <1>5. PICK k \in 0..n :
          /\ Len(text) \in {2 * k, 2 * k + 1}
          /\ Messages(text) = SubSeq(msgs, 1, k)
          /\ Remaining(text) \in Seq(Half) /\ Len(Remaining(text)) = Len(text) - 2 * k
          /\ Len(text) = 2 * k + 1 => Remaining(text)[1].part = 1
          /\ Spells(Remaining(text) \o tail, SubSeq(msgs, k + 1, Len(msgs)))
    BY <1>1, <1>3, CutTexts
  <1> DEFINE rest == SubSeq(msgs, k + 1, n)
  <1>6. rest \in Seq(Posted) /\ Len(rest) = n - k /\ \A i \in 1..n - k : rest[i] = msgs[k + i] /\ k + i \in 1..n
    <2>1. \A i \in k + 1..n : msgs[i] \in Posted
      BY <1>1
    <2>2. /\ rest \in Seq(Posted) /\ Len(rest) = IF k + 1 <= n THEN n - (k + 1) + 1 ELSE 0
          /\ \A i \in 1..n - (k + 1) + 1 : rest[i] = msgs[k + 1 + i - 1]
      BY <1>1, <2>1, SubSeqProperties
    <2> HIDE DEF rest
    <2>3. Len(rest) = n - k
      BY <1>1, <2>2
    <2>4. ASSUME NEW i \in 1..n - k PROVE rest[i] = msgs[k + i] /\ k + i \in 1..n
      <3>1. i \in 1..n - (k + 1) + 1 /\ k + 1 + i - 1 = k + i /\ k + i \in 1..n
        BY <1>1
      <3> QED BY <2>2, <3>1
    <2> QED BY <2>2, <2>3, <2>4
  <1>7. /\ \A i \in 1..n : msgs[i].id \in PostOf(b) /\ msgs[i].event \in ToSet(emitted[msgs[i].id])
        /\ \A i, j \in 1..n : msgs[i] = msgs[j] => i = j
    BY DEF Aligned
  <1>8. Spells(Remaining(text) \o tail, rest)
    BY <1>5
  <1> HIDE DEF rest, n
  <1>9. /\ \A i \in 1..Len(rest) : rest[i].id \in PostOf(b) /\ rest[i].event \in ToSet(emitted[rest[i].id])
        /\ \A i, j \in 1..Len(rest) : rest[i] = rest[j] => i = j
    <2>1. \A i \in 1..Len(rest) : rest[i].id \in PostOf(b) /\ rest[i].event \in ToSet(emitted[rest[i].id])
      BY <1>6, <1>7
    <2>2. ASSUME NEW i \in 1..n - k, NEW j \in 1..n - k, rest[i] = rest[j] PROVE i = j
      <3>1. k + i = k + j
        BY <1>6, <1>7, <2>2
      <3> QED BY <1>1, <3>1
    <2> QED BY <1>6, <2>1, <2>2
  <1>10. CASE Len(text) = 2 * k + 1
    <2>1. Len(Remaining(text)) = 1 /\ Remaining(text)[1].part = 1 /\ Remaining(text) # <<>>
      <3> DEFINE r == Remaining(text)
      <3>1. Len(r) = 1 /\ r[1].part = 1
        BY <1>5, <1>10
      <3> HIDE DEF r
      <3>2. Len(<<>>) = 0 /\ Len(r) # 0
        BY <3>1
      <3>3. r # <<>>
        BY <3>2
      <3> QED BY <3>1, <3>3 DEF r
    <2>2. after = Remaining(text)
      BY <2>1 DEF Buffers, text
    <2>3. Spells(after \o tail, rest) /\ Len(after) <= 1
      <3>1. Len(after) = 1
        BY <2>1, <2>2
      <3>2. Spells(after \o tail, rest)
        BY <1>8, <2>2, Zenon
      <3> QED BY <3>1, <3>2
    <2>4. Aligned(b, after, tail, rest)
      BY <1>9, <2>3 DEF Aligned
    <2> QED BY <1>5, <2>4 DEF rest, n, text
  <1>11. CASE Len(text) = 2 * k
    <2>1. Remaining(text) = <<>>
      <3>1. Len(Remaining(text)) = 0
        BY <1>5, <1>11
      <3> QED BY <1>5, <3>1, EmptySeq
    <2>2. after = buffer
      BY <2>1 DEF Buffers, text
    <2>3. CASE Len(buffer) = 0
      <3>1. after = Remaining(text) /\ Len(after) <= 1
        BY <1>4, <2>1, <2>2, <2>3
      <3>2. Aligned(b, after, tail, rest)
        BY <1>8, <1>9, <3>1 DEF Aligned
      <3> QED BY <1>5, <3>2 DEF rest, n, text
    <2>4. CASE Len(buffer) = 1
      <3>1. 1 <= k /\ 1 \in 1..n
        <4>1. Len(chunk) \in Nat
          BY LenProperties
        <4> QED BY <1>1, <1>4, <1>11, <2>4, <4>1
      <3>2. buffer[1] = Half1(msgs[1]) /\ msgs[1] \in Posted
        <4>1. (text \o tail)[2 * 1 - 1] = Half1(msgs[1])
          BY <1>3, <3>1 DEF Spells, n
        <4>2. 1 \in 1..Len(text) + Len(tail) /\ 1 <= Len(text) /\ 2 * 1 - 1 = 1
          <5>1. Len(tail) \in Nat
            BY LenProperties
          <5> QED BY <1>4, <1>11, <3>1, <5>1
        <4>3. (text \o tail)[1] = text[1]
          BY <1>1, <4>2, ConcatProperties
        <4>4. (text \o tail)[1] = Half1(msgs[1])
          BY <4>1, <4>2
        <4> QED BY <1>1, <1>4, <2>4, <3>1, <4>3, <4>4
      <3>3. tail = Remaining(text) \o tail
        BY <2>1, ConcatEmptySeq
      <3>4. Spells(tail, rest)
        BY <1>8, <3>3, Zenon
      <3>5. ASSUME NEW i \in 1..Len(tail), tail[i] = Second(buffer[1]) PROVE FALSE
        <4>1. Len(tail) = 2 * (n - k) /\ \A j \in 1..n - k : tail[2 * j - 1] = Half1(rest[j]) /\ tail[2 * j] = Half2(rest[j])
          BY <1>6, <3>4 DEF Spells
        <4>2. Second(buffer[1]) = Half2(msgs[1])
          BY <3>2, HalvesOf DEF Second
        <4>3. PICK j \in 1..n - k : i = 2 * j - 1 \/ i = 2 * j
          <5>1. \E j \in 1..n - k : i = 2 * j - 1 \/ i = 2 * j
            <6> DEFINE j == (i + 1) \div 2
            <6>1. j \in 1..n - k /\ (i = 2 * j - 1 \/ i = 2 * j)
              BY <1>1, <4>1
            <6> QED BY <6>1
          <5> QED BY <5>1
        <4>4. msgs[k + j] = rest[j] /\ k + j \in 1..n /\ rest[j] \in Posted /\ k + j # 1
          BY <1>1, <1>6, <3>1
        <4>5. CASE i = 2 * j - 1
          <5>1. Half1(rest[j]) = Half2(msgs[1])
            BY <3>5, <4>1, <4>2, <4>5
          <5> QED BY <5>1 DEF Half1, Half2
        <4>6. CASE i = 2 * j
          <5>1. Half2(rest[j]) = Half2(msgs[1])
            BY <3>5, <4>1, <4>2, <4>6
          <5>2. rest[j] = msgs[1]
            <6> DEFINE x == rest[j]
                       y == msgs[1]
            <6>1. x \in Posted /\ y \in Posted /\ Half2(x) = Half2(y)
              BY <3>2, <4>4, <5>1
            <6> HIDE DEF x, y
            <6>2. /\ x = [id |-> Half2(x).id, event |-> Half2(x).event]
                  /\ y = [id |-> Half2(y).id, event |-> Half2(y).event]
              BY <6>1, HalvesOf
            <6>3. x = y
              BY <6>1, <6>2
            <6> QED BY <6>3 DEF x, y
          <5> QED BY <1>7, <3>1, <4>4, <5>2
        <4> QED BY <4>3, <4>5, <4>6
      <3>6. buffer # <<>>
        <4>1. Len(<<>>) = 0 /\ Len(buffer) # 0
          BY <2>4
        <4> QED BY <2>4, <4>1
      <3>7. buffer[1].part = 1 /\ buffer[1].id \in PostOf(b) /\ buffer[1].event \in ToSet(emitted[buffer[1].id])
        <4>1. buffer[1].part = 1 /\ buffer[1].id = msgs[1].id /\ buffer[1].event = msgs[1].event
          BY <3>2 DEF Half1
        <4> QED BY <1>7, <3>1, <4>1
      <3>8. ~(Len(buffer) > 1)
        BY <2>4
      <3>9. Misplaced(b, after, tail)
        BY <2>2, <3>5, <3>6, <3>7, <3>8 DEF Misplaced
      <3> QED BY <1>5, <3>9 DEF n, text
    <2> QED BY <1>4, <2>3, <2>4
  <1> QED BY <1>5, <1>10, <1>11

\* It finds no message any more.
LEMMA ChunkMisplaced ==
    ASSUME PostsTyped, NEW b \in DOMAIN batches, NEW buffer \in Seq(Half), NEW chunk \in Seq(Half),
           NEW tail \in Seq(Half), Misplaced(b, buffer, chunk \o tail),
           NEW after \in Buffers(buffer \o chunk, buffer)
    PROVE  Messages(buffer \o chunk) = <<>> /\ Misplaced(b, after, tail)
  <1> DEFINE text == buffer \o chunk
             wire == chunk \o tail
             m == Len(buffer)
             c == Len(chunk)
             t == Len(tail)
  <1>1. /\ text \in Seq(Half) /\ m \in Nat \ {0} /\ c \in Nat /\ t \in Nat
        /\ Len(text) = m + c
        /\ \A i \in 1..m + c : text[i] = IF i <= m THEN buffer[i] ELSE chunk[i - m]
    <2>1. buffer # <<>>
      BY DEF Misplaced
    <2> QED BY <2>1, ConcatProperties, LenProperties, EmptySeq
  <1>2. Len(wire) = c + t /\ \A i \in 1..c + t : wire[i] = IF i <= c THEN chunk[i] ELSE tail[i - c]
    BY ConcatProperties
  <1>3. /\ buffer[1].part = 1 /\ buffer[1].id \in PostOf(b)
        /\ buffer[1].event \in ToSet(emitted[buffer[1].id])
        /\ m > 1 => buffer[2] # Second(buffer[1])
        /\ \A i \in 1..Len(wire) : wire[i] # Second(buffer[1])
    BY DEF Misplaced
  <1> HIDE DEF text, wire, m, c, t
  <1>4. text[1] = buffer[1]
    BY <1>1
  <1>5. Len(text) > 1 => text[2] # Second(text[1])
    <2> HAVE Len(text) > 1
    <2>1. CASE m > 1
      BY <1>1, <1>3, <1>4, <2>1
    <2>2. CASE ~(m > 1)
      <3>1. m = 1 /\ 2 \in 1..m + c /\ ~(2 <= m) /\ 2 - m = 1 /\ 1 \in 1..c /\ 1 \in 1..c + t /\ 1 <= c
        BY <1>1, <2>2
      <3>2. text[2] = chunk[1] /\ wire[1] = chunk[1]
        BY <1>1, <1>2, <3>1
      <3> QED BY <1>2, <1>3, <1>4, <3>1, <3>2
    <2> QED BY <2>1, <2>2
  <1>6. ASSUME NEW i \in 1..t PROVE tail[i] # Second(buffer[1])
    <2>1. c + i \in 1..c + t /\ ~(c + i <= c) /\ (c + i) - c = i
      BY <1>1
    <2>2. wire[c + i] = tail[(c + i) - c]
      BY <1>2, <2>1
    <2> QED BY <1>2, <1>3, <2>1, <2>2
  <1>7. Whole(text) = 0
    <2> DEFINE N == Len(text) \div 2
               S == {n \in 0..N : Complete(text, n)}
    <2>1. N \in Nat /\ 2 * N <= Len(text)
      BY <1>1
    <2>2. ASSUME NEW n \in 0..N, Complete(text, n), n # 0 PROVE FALSE
      <3>1. 1 \in 1..n /\ Len(text) > 1 /\ 2 * 1 = 2 /\ 2 * 1 - 1 = 1
        BY <1>1, <2>1, <2>2
      <3>2. text[2 * 1] = [text[2 * 1 - 1] EXCEPT !.part = 2]
        BY <2>2, <3>1 DEF Complete
      <3> QED BY <1>5, <3>1, <3>2 DEF Second
    <2>3. Complete(text, 0)
      <3>1. 1..0 = {}
        OBVIOUS
      <3> QED BY <3>1 DEF Complete
    <2>4. S = {0}
      BY <2>1, <2>2, <2>3
    <2>5. Whole(text) = Max(S)
      BY DEF Whole
    <2> HIDE DEF S
    <2>6. Max(S) \in S
      <3>1. S \in SUBSET (0..0) /\ S # {}
        BY <2>4
      <3> QED BY <3>1, MaxOfNumbers
    <2> QED BY <2>4, <2>5, <2>6
  <1>8. Messages(text) = <<>>
    <2>1. Messages(text) \in Seq(Message) /\ Len(Messages(text)) = 0
      BY <1>1, <1>7, MessagesTyped
    <2> QED BY <2>1, EmptySeq
  <1>9. Remaining(text) = text
    <2>1. Remaining(text) = SubSeq(text, 1, Len(text))
      BY <1>7 DEF Remaining
    <2> QED BY <1>1, <2>1, SubSeqFull
  <1>10. after \in {text, buffer}
    BY <1>9 DEF Buffers, text
  <1>11. text # <<>>
    <2>1. Len(<<>>) = 0 /\ Len(text) # 0
      BY <1>1
    <2> QED BY <2>1
  <1>12. CASE after = text
    <2>1. Misplaced(b, text, tail)
      BY <1>3, <1>4, <1>5, <1>6, <1>11 DEF Misplaced, t
    <2> QED BY <1>8, <1>12, <2>1 DEF text
  <1>13. CASE after = buffer
    <2>1. Misplaced(b, buffer, tail)
      BY <1>3, <1>6 DEF Misplaced, t, m
    <2> QED BY <1>8, <1>13, <2>1 DEF text
  <1> QED BY <1>10, <1>12, <1>13

-----------------------------------------------------------------------------
\* The steps of the client

KeepsOthers(b) ==
    /\ DOMAIN batches' = DOMAIN batches
    /\ batches'[b].ids = batches[b].ids
    /\ \A c \in DOMAIN batches : c # b => batches'[c] = batches[c]

\* A post with a new state of fetch, of the buffer and of what is to read.
LEMMA PostAfter ==
    ASSUME PostsTyped, NEW b \in DOMAIN batches, NEW n \in Nat, NEW more,
           ReceiveChunk(b, SubSeq(batches[b].wire, 1, n), more), n <= Len(batches[b].wire)
    PROVE  \E after \in Buffers(batches[b].buffer \o SubSeq(batches[b].wire, 1, n), batches[b].buffer) :
              /\ KeepsOthers(b)
              /\ batches'[b].buffer = after
              /\ batches'[b].wire = SubSeq(batches[b].wire, n + 1, Len(batches[b].wire))
              /\ batches'[b].fetch \in {"ended", batches[b].fetch}
  <1> DEFINE q == batches[b]
             chunk == SubSeq(q.wire, 1, n)
  <1>1. q \in Batch /\ q.wire \in Seq(Half) /\ Len(q.wire) \in Nat
    BY PostFacts
  <1>2. Len(chunk) = n
    <2>1. \A i \in 1..n : q.wire[i] \in Half
      <3> HIDE DEF q
      <3> QED BY <1>1, ElementOfSeq DEF q
    <2> HIDE DEF q
    <2>2. Len(chunk) = IF 1 <= n THEN n - 1 + 1 ELSE 0
      BY <2>1, SubSeqProperties
    <2> HIDE DEF chunk
    <2> QED BY <2>2
  <1>3. PICK after \in Buffers(q.buffer \o chunk, q.buffer) :
           batches' = [batches EXCEPT
              ![b].buffer = after,
              ![b].wire = SubSeq(@, Len(chunk) + 1, Len(@)),
              ![b].fetch = IF more # <<>> /\ batches[b].ended THEN "ended" ELSE @]
    BY DEF ReceiveChunk
  <1> DEFINE wire == SubSeq(q.wire, n + 1, Len(q.wire))
             fetch == IF more # <<>> /\ q.ended THEN "ended" ELSE q.fetch
             p == [q EXCEPT !.buffer = after, !.wire = wire, !.fetch = fetch]
  <1>4. batches' = [batches EXCEPT ![b] = p]
    <2> HIDE DEF chunk
    <2> QED BY <1>2, <1>3
  <1>5. fetch \in {"ended", q.fetch}
    OBVIOUS
  <1> HIDE DEF wire, fetch
  <1>6. p.ids = q.ids /\ p.buffer = after /\ p.wire = wire /\ p.fetch = fetch
    <2> HIDE DEF q
    <2> QED BY <1>1 DEF Batch
  <1> HIDE DEF p
  <1>7. batches'[b] = p /\ DOMAIN batches' = DOMAIN batches /\ \A c \in DOMAIN batches : c # b => batches'[c] = batches[c]
    <2> HIDE DEF q
    <2>1. batches \in Seq(Batch) /\ DOMAIN batches = 1..Len(batches)
      BY LenProperties DEF PostsTyped
    <2> QED BY <1>4
  <1>8. KeepsOthers(b)
    BY <1>6, <1>7 DEF KeepsOthers
  <1> QED BY <1>5, <1>6, <1>7, <1>8 DEF wire

LEMMA ReadsOutputs ==
    ASSUME PostsTyped, StreamsTyped, FollowsInv, NEW b \in DOMAIN batches, Decoder(b), Reads(b),
           emitted' = emitted
    PROVE  /\ \E first \in Seq(Message) : Follows(b, first)
           /\ KeepsOthers(b) /\ batches'[b].fetch \in {"ended", batches[b].fetch}
           /\ b \in Decoded'
  <1> DEFINE q == batches[b]
  <1>1. PICK n \in Nat, more \in Seq(Message) :
            /\ n <= Len(q.wire)
            /\ more \in {<<>>, StillOpen(q.ids)}
            /\ ReceiveChunk(b, SubSeq(q.wire, 1, n), more)
    BY DEF Reads
  <1> DEFINE chunk == SubSeq(q.wire, 1, n)
             tail == SubSeq(q.wire, n + 1, Len(q.wire))
             text == q.buffer \o chunk
  <1>2. q.wire \in Seq(Half) /\ q.buffer \in Seq(Half) /\ Len(q.wire) \in Nat
    BY PostFacts
  <1>3. PICK after \in Buffers(text, q.buffer) :
           /\ KeepsOthers(b) /\ batches'[b].buffer = after /\ batches'[b].wire = tail
           /\ batches'[b].fetch \in {"ended", q.fetch}
    BY <1>1, PostAfter
  <1>4. ReceiveAll(Messages(text) \o more)
    BY <1>1 DEF ReceiveChunk
  <1>5. PostOf(b)' = PostOf(b)
    BY <1>3 DEF KeepsOthers, PostOf
  <1> HIDE DEF q
  <1>6. chunk \in Seq(Half) /\ tail \in Seq(Half) /\ chunk \o tail = q.wire
    <2>1. \A i \in 1..Len(q.wire) : q.wire[i] \in Half
      BY <1>2, ElementOfSeq
    <2>2. \A i \in 1..n : q.wire[i] \in Half
      BY <1>1, <1>2, <2>1
    <2>3. \A i \in n + 1..Len(q.wire) : q.wire[i] \in Half
      BY <1>2, <2>1
    <2>4. chunk \in Seq(Half)
      BY <2>2, SubSeqProperties
    <2>5. tail \in Seq(Half)
      BY <1>2, <2>3, SubSeqProperties
    <2>6. chunk \o tail = SubSeq(q.wire, 1, Len(q.wire))
      <3> DEFINE l == Len(q.wire)
      <3>1. 1 \in 1..l + 1 /\ n \in 1 - 1..l /\ l \in n..l
        BY <1>1, <1>2
      <3> QED BY <1>2, <3>1, ConcatAdjacentSubSeq
    <2> QED BY <1>2, <2>4, <2>5, <2>6, SubSeqFull
  <1>7. \A id \in Id : /\ output[id].got \in Seq(Event \cup {Error}) /\ emitted[id] \in Seq(Event)
                       /\ emitted[id] \in Seq(Event \cup {Error})
    <2>1. \A id \in Id : emitted[id] \in Seq(Event)
      BY DEF PostsTyped
    <2>2. \A id \in Id : emitted[id] \in Seq(Event \cup {Error})
      BY <2>1, SeqMonotonic
    <2> QED BY <2>1, <2>2 DEF StreamsTyped, Outputs
  <1>8. PostOf(b) \in SUBSET Id
    BY PostFacts DEF PostOf
  <1> HIDE DEF chunk, tail
  <1>9. CASE OutOfPlace(b)
    <2>1. Misplaced(b, q.buffer, chunk \o tail)
      BY <1>6, <1>9 DEF OutOfPlace, q
    <2>2. Messages(text) = <<>> /\ Misplaced(b, after, tail)
      BY <1>2, <1>3, <1>6, <2>1, ChunkMisplaced
    <2>3. <<>> \in Seq(Message) /\ \A i \in 1..Len(<<>>) : <<>>[i].id \in PostOf(b)
      BY EmptySeq
    <2>4. \A id \in PostOf(b) : id \in Live =>
             Begins(output[id].got \o EventsFor(id, <<>>), emitted[id])
      <3> SUFFICES ASSUME NEW id \in PostOf(b), id \in Live
                   PROVE  Begins(output[id].got \o EventsFor(id, <<>>), emitted[id])
        OBVIOUS
      <3>1. output[id].got \o <<>> = output[id].got /\ EventsFor(id, <<>>) = <<>>
        BY <1>7, <1>8, EventsForEmpty, ConcatEmptySeq
      <3>2. Begins(output[id].got, emitted[id])
        BY <1>8 DEF FollowsInv
      <3>3. output[id].got \o EventsFor(id, <<>>) = output[id].got
        BY <3>1
      <3> QED BY <3>2, <3>3, Zenon
    <2>5. ReceiveAll(<<>> \o more)
      BY <1>4, <2>2, Zenon
    <2>6. Follows(b, <<>>)
      BY <1>1, <2>3, <2>4, <2>5, ReceivingFollows DEF q
    <2>7. Misplaced(b, batches[b].buffer, batches[b].wire)'
      BY <1>3, <1>5, <2>2 DEF Misplaced
    <2>8. Decoder(b)'
      BY <2>7 DEF Decoder, OutOfPlace
    <2> QED BY <1>3, <2>3, <2>6, <2>8 DEF Decoded, KeepsOthers, q
  <1>10. CASE \E msgs \in Seq(Posted) : InPlace(b, msgs)
    <2>1. PICK msgs \in Seq(Posted) : InPlace(b, msgs)
      BY <1>10
    <2>2. Aligned(b, q.buffer, chunk \o tail, msgs)
      BY <1>6, <2>1 DEF InPlace, q
    <2>3. PICK k \in 0..Len(msgs) :
              /\ Messages(text) = SubSeq(msgs, 1, k)
              /\ \/ Aligned(b, after, tail, SubSeq(msgs, k + 1, Len(msgs)))
                 \/ Misplaced(b, after, tail)
      <3> DEFINE old == q.buffer
      <3>1. old \in Seq(Half) /\ chunk \in Seq(Half) /\ tail \in Seq(Half)
            /\ Aligned(b, old, chunk \o tail, msgs) /\ after \in Buffers(old \o chunk, old)
        BY <1>2, <1>3, <1>6, <2>2
      <3> HIDE DEF old, text
      <3>2. text = old \o chunk
        BY DEF text, old
      <3>3. \E k \in 0..Len(msgs) :
              /\ Messages(old \o chunk) = SubSeq(msgs, 1, k)
              /\ \/ Aligned(b, after, tail, SubSeq(msgs, k + 1, Len(msgs)))
                 \/ Misplaced(b, after, tail)
        BY <3>1, ChunkInPlace
      <3> QED BY <3>2, <3>3, Zenon
    <2> DEFINE first == SubSeq(msgs, 1, k)
               rest == SubSeq(msgs, k + 1, Len(msgs))
    <2>4. Len(msgs) \in Nat /\ k \in Nat /\ k <= Len(msgs) /\ \A i \in 1..Len(msgs) : msgs[i] \in Posted
      BY LenProperties, ElementOfSeq
    <2>5. /\ first \in Seq(Posted) /\ rest \in Seq(Posted) /\ first \o rest = msgs
          /\ \A i \in 1..Len(first) : first[i] = msgs[i] /\ i \in 1..Len(msgs)
      <3>1. /\ first \in Seq(Posted) /\ Len(first) = IF 1 <= k THEN k - 1 + 1 ELSE 0
            /\ \A i \in 1..k - 1 + 1 : first[i] = msgs[1 + i - 1]
        <4>1. \A i \in 1..k : msgs[i] \in Posted
          BY <2>4
        <4> QED BY <2>4, <4>1, SubSeqProperties
      <3>2. rest \in Seq(Posted)
        <4>1. \A i \in k + 1..Len(msgs) : msgs[i] \in Posted
          BY <2>4
        <4> QED BY <2>4, <4>1, SubSeqProperties
      <3>3. first \o rest = SubSeq(msgs, 1, Len(msgs))
        <4> DEFINE l == Len(msgs)
        <4>1. 1 \in 1..l + 1 /\ k \in 1 - 1..l /\ l \in k..l
          BY <2>4
        <4> QED BY <4>1, ConcatAdjacentSubSeq
      <3>4. first \o rest = msgs
        BY <3>3, SubSeqFull
      <3>5. ASSUME NEW i \in 1..Len(first) PROVE first[i] = msgs[i] /\ i \in 1..Len(msgs)
        <4> HIDE DEF first
        <4>1. Len(first) = k
          BY <2>4, <3>1
        <4>2. i \in 1..k - 1 + 1 /\ 1 + i - 1 = i /\ i \in 1..Len(msgs)
          BY <2>4, <4>1
        <4> QED BY <3>1, <4>2
      <3> QED BY <3>1, <3>2, <3>4, <3>5
    <2>6. first \in Seq(Message) /\ rest \in Seq(Message)
      <3>1. Posted \subseteq Message
        BY DEF Posted, Message
      <3> HIDE DEF first, rest
      <3> QED BY <2>5, <3>1, SeqMonotonic
    <2>7. Messages(text) = first /\ (Aligned(b, after, tail, rest) \/ Misplaced(b, after, tail))
      BY <2>3
    <2> HIDE DEF first, rest
    <2>8. \A id \in PostOf(b) : id \in Live =>
             /\ (output[id].got \o EventsFor(id, first)) \o EventsFor(id, rest) = emitted[id]
             /\ Begins(output[id].got \o EventsFor(id, first), emitted[id])
      <3> SUFFICES ASSUME NEW id \in PostOf(b), id \in Live
                   PROVE  /\ (output[id].got \o EventsFor(id, first)) \o EventsFor(id, rest) = emitted[id]
                          /\ Begins(output[id].got \o EventsFor(id, first), emitted[id])
        OBVIOUS
      <3> DEFINE g == output[id].got
                 x == EventsFor(id, first)
                 y == EventsFor(id, rest)
                 E == Event \cup {Error}
      <3>1. g \in Seq(E) /\ x \in Seq(E) /\ y \in Seq(E)
        BY <1>7, <1>8, <2>6, EventsForTyped
      <3>2. g \o EventsFor(id, msgs) = emitted[id]
        BY <2>1 DEF InPlace
      <3>3. EventsFor(id, msgs) = x \o y
        BY <2>5, <2>6, EventsForConcat
      <3> HIDE DEF g, x, y, E
      <3>4. (g \o x) \o y = emitted[id]
        <4>1. (g \o x) \o y = g \o (x \o y)
          BY ONLY <3>1, ConcatAssociative, SMTT(60)
        <4>2. g \o (x \o y) = emitted[id]
          BY <3>2, <3>3, Zenon
        <4> QED BY <4>1, <4>2, Zenon
      <3>5. g \o x \in Seq(E)
        BY <3>1, ConcatProperties
      <3>6. Begins(g \o x, emitted[id])
        BY <3>1, <3>4, <3>5, BeginsConcat
      <3> QED BY <3>4, <3>6 DEF g, x, y
    <2>9. \A i \in 1..Len(first) : first[i].id \in PostOf(b)
      BY <2>2, <2>5 DEF Aligned
    <2>10. ReceiveAll(first \o more)
      BY <1>4, <2>7, Zenon
    <2>11. Follows(b, first)
      BY <1>1, <2>6, <2>8, <2>9, <2>10, ReceivingFollows DEF q
    <2>12. CASE Misplaced(b, after, tail)
      <3>1. Misplaced(b, batches[b].buffer, batches[b].wire)'
        BY <1>3, <1>5, <2>12 DEF Misplaced
      <3>2. Decoder(b)'
        BY <3>1 DEF Decoder, OutOfPlace
      <3> QED BY <1>3, <2>6, <2>11, <3>2 DEF Decoded, KeepsOthers, q
    <2>13. CASE Aligned(b, after, tail, rest)
      <3>1. Aligned(b, batches[b].buffer, batches[b].wire, rest)'
        BY <1>3, <1>5, <2>13 DEF Aligned
      <3>2. \A id \in PostOf(b) : id \in Live' => output'[id].got \o EventsFor(id, rest) = emitted[id]
        <4> SUFFICES ASSUME NEW id \in PostOf(b), id \in Live'
                     PROVE  output'[id].got \o EventsFor(id, rest) = emitted[id]
          OBVIOUS
        <4>1. id \in Live /\ output'[id].got = output[id].got \o EventsFor(id, first)
          BY <1>8, <2>11 DEF Follows
        <4> QED BY <2>8, <4>1
      <3>3. InPlace(b, rest)'
        BY <1>5, <3>1, <3>2 DEF InPlace
      <3>4. Decoder(b)'
        BY <2>5, <3>3 DEF Decoder
      <3> QED BY <1>3, <2>6, <2>11, <3>4 DEF Decoded, KeepsOthers, q
    <2> QED BY <2>7, <2>12, <2>13
  <1> QED BY <1>9, <1>10 DEF Decoder

\* The requests of a post that failed.
LEMMA FailsFollows ==
    ASSUME PostsTyped, StreamsTyped, FollowsInv, QuietInv, PostsInv, NEW b \in DOMAIN batches,
           FetchFails(b)
    PROVE  Follows(b, <<>>)
  <1> DEFINE ids == batches[b].ids
             s == ErrorAndClose(ids)
             E == Event \cup {Error}
  <1>1. ids \in Seq(Id) /\ output \in [Id -> Outputs] /\ streams \in StreamSets(Id)
        /\ batches[b].fetch = "waiting" /\ ReceiveAll(s)
    BY PostFacts DEF StreamsTyped, FetchFails
  <1>2. /\ ToAll(ids, Error) \in Seq(Message) /\ ToAll(ids, Close) \in Seq(Message)
    BY <1>1, CloseEvents, ToAllTyped
  <1>3. s \in Seq(Message)
        /\ \A id : EventsFor(id, s) = EventsFor(id, ToAll(ids, Error)) \o EventsFor(id, ToAll(ids, Close))
    BY <1>2, EventsForConcat DEF ErrorAndClose
  <1>4. \A i, j \in DOMAIN ids : ids[i] = ids[j] => i = j
    BY DEF PostsInv
  <1>5. \A id : /\ id \in PostOf(b) => EventsFor(id, s) = <<Error, Close>>
                /\ id \notin PostOf(b) => EventsFor(id, s) = <<>>
    <2> TAKE id
    <2> DEFINE x == EventsFor(id, ToAll(ids, Error))
               y == EventsFor(id, ToAll(ids, Close))
    <2>1. id \in PostOf(b) => x = <<Error>> /\ y = <<Close>>
      BY <1>1, <1>4, CloseEvents, EventsForAll DEF PostOf
    <2>2. id \notin PostOf(b) => x = <<>> /\ y = <<>>
      BY <1>1, CloseEvents, EventsForAll DEF PostOf
    <2>3. EventsFor(id, s) = x \o y
      BY <1>3
    <2> HIDE DEF x, y, s
    <2>4. <<Error>> \o <<Close>> = <<Error, Close>>
      <3> DEFINE a == <<Error>> \o <<Close>>
                 c == <<Error, Close>>
      <3>1. <<Error>> \in Seq(E) /\ <<Close>> \in Seq(E) /\ c \in Seq(E)
        BY CloseEvents
      <3>2. /\ Len(<<Error>>) = 1 /\ <<Error>>[1] = Error /\ Len(<<Close>>) = 1 /\ <<Close>>[1] = Close
            /\ Len(c) = 2 /\ c[1] = Error /\ c[2] = Close
        OBVIOUS
      <3>3. a \in Seq(E) /\ Len(a) = 2 /\ a[1] = Error /\ a[2] = Close
        <4> DEFINE u == <<Error>>
                   v == <<Close>>
        <4>1. u \in Seq(E) /\ v \in Seq(E) /\ Len(u) = 1 /\ u[1] = Error /\ Len(v) = 1 /\ v[1] = Close
          BY <3>1, <3>2
        <4> HIDE DEF u, v
        <4>2. u \o v \in Seq(E) /\ Len(u \o v) = 2 /\ (u \o v)[1] = Error /\ (u \o v)[2] = Close
          BY <4>1, ConcatProperties, SMTT(40)
        <4> QED BY <4>2 DEF u, v
      <3> HIDE DEF a, c
      <3>4. a = c
        BY <3>1, <3>2, <3>3, SeqEqual
      <3> QED BY <3>4 DEF a, c
    <2>5. <<>> \o <<>> = <<>>
      BY EmptySeq, ConcatEmptySeq
    <2> QED BY <2>5, <2>1, <2>2, <2>3, <2>4
  <1> HIDE DEF s, ids
  <1>6. \A id \in Id :
          /\ id \in streams'.open <=> id \in streams.open /\ Close \notin ToSet(Received(id, s))
          /\ output'[id].closedByDownstream = output[id].closedByDownstream
          /\ output[id].closedByDownstream => output'[id].got = output[id].got
          /\ ~output[id].closedByDownstream => output'[id].got = output[id].got \o Received(id, s)
    BY <1>1, <1>3, ReceiveAllFacts
  <1> SUFFICES ASSUME NEW id \in Id
               PROVE  /\ Fits(output'[id].got, emitted[id])
                      /\ output'[id].closedByDownstream = output[id].closedByDownstream
                      /\ id \in Live' => /\ id \in Live /\ Begins(output'[id].got, emitted[id])
                                      /\ output'[id].got = output[id].got \o EventsFor(id, <<>>)
                      /\ id \notin PostOf(b) => /\ output'[id].got = output[id].got
                                                /\ id \in streams'.open <=> id \in streams.open
    BY DEF Follows
  <1> DEFINE r == Received(id, s)
             g == output[id].got
  <1>7. /\ r \in Seq(E) /\ g \in Seq(E) /\ g \o <<>> = g /\ Fits(g, emitted[id])
        /\ Begins(r, EventsFor(id, s))
        /\ id \notin streams.open => r = <<>>
        /\ id \in streams.open => Close \in ToSet(r) \/ r = EventsFor(id, s)
    <2>1. g \in Seq(E)
      BY <1>1 DEF Outputs
    <2>2. /\ r \in Seq(E)
          /\ Begins(r, EventsFor(id, s))
          /\ id \notin streams.open => r = <<>>
      BY <1>3, ReceivedFacts
    <2>3. id \in streams.open =>
            \/ r = EventsFor(id, s)
            \/ \E n \in 1..Len(EventsFor(id, s)) : Len(r) = n /\ r[n] = Close
      BY <1>3, ReceivedFacts
    <2> HIDE DEF r
    <2>4. DOMAIN r = 1..Len(r) /\ Len(r) \in Nat
      BY <2>2, LenProperties
    <2>5. (\E n \in 1..Len(EventsFor(id, s)) : Len(r) = n /\ r[n] = Close) => Close \in ToSet(r)
      BY <2>4 DEF ToSet
    <2> QED BY <2>1, <2>2, <2>3, <2>5, ConcatEmptySeq DEF FollowsInv
  <1> HIDE DEF r, g
  <1>8. CASE id \in PostOf(b)
    <2>1. g = <<>> /\ EventsFor(id, s) = <<Error, Close>>
      BY <1>1, <1>5, <1>8 DEF QuietInv, g
    <2>2. <<>> \o r = r
      BY <1>7, ConcatEmptySeq
    <2>3. Fits(r, emitted[id])
      BY <1>7, <2>1 DEF Fits
    <2>4. Fits(output'[id].got, emitted[id])
      BY <1>6, <1>7, <2>1, <2>2, <2>3 DEF g, r
    <2>5. id \in streams.open => Close \in ToSet(r)
      <3>1. Close \in ToSet(<<Error, Close>>)
        <4>1. 2 \in DOMAIN <<Error, Close>> /\ <<Error, Close>>[2] = Close
          OBVIOUS
        <4> QED BY <4>1 DEF ToSet
      <3> QED BY <1>7, <2>1, <3>1
    <2>6. id \notin streams'.open
      BY <1>6, <2>5 DEF r
    <2> QED BY <1>6, <1>8, <2>4, <2>6 DEF Live
  <1>9. CASE id \notin PostOf(b)
    <2>1. r = <<>>
      <3>1. EventsFor(id, s) = <<>> /\ Len(<<>>) = 0 /\ Len(r) \in Nat
        BY <1>5, <1>7, <1>9, LenProperties
      <3>2. Len(r) = 0
        BY <1>7, <3>1 DEF Begins
      <3> QED BY <1>7, <3>2, EmptySeq
    <2>2. output'[id].got = g
      BY <1>6, <1>7, <2>1 DEF r, g
    <2>3. Close \notin ToSet(r)
      BY <2>1 DEF ToSet
    <2>4. id \in streams'.open <=> id \in streams.open
      BY <1>6, <2>3 DEF r
    <2>5. id \in Live' => id \in Live /\ Begins(g, emitted[id])
      BY <1>6, <2>4 DEF Live, FollowsInv, g
    <2> QED BY <1>6, <1>7, <2>2, <2>4, <2>5, EventsForEmpty DEF g
  <1> QED BY <1>8, <1>9

\* Whatever the client does to a post, its streams get the events of `first'.
LEMMA ClientOutputs ==
    ASSUME PostsTyped, StreamsTyped, PostsInv, QuietInv, FollowsInv, DecoderInv,
           NEW b \in DOMAIN batches, ClientOf(b)
    PROVE  /\ \E first \in Seq(Message) : Follows(b, first)
           /\ KeepsOthers(b) /\ batches'[b].fetch # "waiting"
           /\ b \in Decoded'
  <1> DEFINE q == batches[b]
  <1>1. /\ q \in Batch /\ batches \in Seq(Batch) /\ DOMAIN batches = 1..Len(batches)
        /\ Decoder(b) /\ emitted' = emitted /\ <<>> \in Seq(Message)
    BY PostFacts, ClientPost, EmptySeq, LenProperties DEF PostsTyped, DecoderInv, Decoded
  <1>2. \A id \in Id : output[id].got \o EventsFor(id, <<>>) = output[id].got
    <2> TAKE id \in Id
    <2>1. output[id].got \in Seq(Event \cup {Error})
      BY DEF StreamsTyped, Outputs
    <2>2. EventsFor(id, <<>>) = <<>> /\ output[id].got \o <<>> = output[id].got
      BY <2>1, EventsForEmpty, ConcatEmptySeq
    <2> QED BY <2>2
  \* Only the state of its fetch, and the kind of body, are new.
  <1>3. ASSUME NEW p \in Batch, batches' = [batches EXCEPT ![b] = p], p.ids = q.ids,
               p.buffer = q.buffer, p.wire = q.wire, p.fetch # "waiting", Follows(b, <<>>)
        PROVE  /\ KeepsOthers(b) /\ batches'[b].fetch # "waiting"
               /\ b \in Decoded'
    <2>1. /\ DOMAIN batches' = DOMAIN batches /\ batches'[b] = p
          /\ \A c \in DOMAIN batches : c # b => batches'[c] = batches[c]
      BY <1>1, <1>3, UpdateFacts
    <2>2. KeepsOthers(b)
      BY <1>3, <2>1 DEF KeepsOthers
    <2>3. PostOf(b) \in SUBSET Id
      BY PostFacts DEF PostOf
    <2>4. \A id \in PostOf(b) : /\ emitted'[id] = emitted[id]
                                /\ id \in Live' => id \in Live /\ output'[id].got = output[id].got
      BY <1>1, <1>2, <1>3, <2>3 DEF Follows
    <2>5. batches'[b].ids = batches[b].ids /\ batches'[b].buffer = batches[b].buffer
          /\ batches'[b].wire = batches[b].wire
      BY <1>3, <2>1
    <2>6. b \in Decoded'
      BY <1>1, <2>1, <2>4, <2>5, DecoderSame
    <2> QED BY <1>3, <2>1, <2>2, <2>6
  <1>4. UNCHANGED <<streams, output>> => Follows(b, <<>>)
    <2> HAVE UNCHANGED <<streams, output>>
    <2>1. \A id \in Id : /\ Fits(output[id].got, emitted[id])
                         /\ id \in Live => Begins(output[id].got, emitted[id])
      BY DEF FollowsInv
    <2>2. output' = output /\ streams' = streams /\ \A id \in Id : id \in Live' <=> id \in Live
      BY DEF Live
    <2>3. \A id \in Id : output'[id].got = output[id].got \o EventsFor(id, <<>>)
      BY <1>2, <2>2
    <2> SUFFICES ASSUME NEW id \in Id
                 PROVE  /\ Fits(output'[id].got, emitted[id])
                        /\ output'[id].closedByDownstream = output[id].closedByDownstream
                        /\ id \in Live' => /\ id \in Live /\ Begins(output'[id].got, emitted[id])
                                        /\ output'[id].got = output[id].got \o EventsFor(id, <<>>)
                        /\ id \notin PostOf(b) => /\ output'[id].got = output[id].got
                                                  /\ id \in streams'.open <=> id \in streams.open
      BY DEF Follows
    <2>4. /\ Fits(output'[id].got, emitted[id])
          /\ id \in Live' => id \in Live /\ Begins(output'[id].got, emitted[id])
      <3>1. output'[id].got = output[id].got
        BY <2>2
      <3>2. Fits(output[id].got, emitted[id])
        BY <2>1
      <3>3. id \in Live' => id \in Live /\ Begins(output[id].got, emitted[id])
        BY <2>1, <2>2
      <3> QED BY <3>1, <3>2, <3>3, Zenon
    <2>5. output'[id].got = output[id].got \o EventsFor(id, <<>>)
      BY <2>3
    <2> QED BY <2>2, <2>4, <2>5
  <1>5. ASSUME NEW fetch \in {"failed", "responding", "ended", "broken"},
               batches' = [batches EXCEPT ![b].fetch = fetch], Follows(b, <<>>)
        PROVE  KeepsOthers(b) /\ batches'[b].fetch # "waiting" /\ b \in Decoded'
    <2> DEFINE p == [q EXCEPT !.fetch = fetch]
    <2>1. batches' = [batches EXCEPT ![b] = p]
      BY <1>5
    <2> HIDE DEF q
    <2>2. p \in Batch /\ p.ids = q.ids /\ p.buffer = q.buffer /\ p.wire = q.wire /\ p.fetch # "waiting"
      BY <1>1 DEF Batch
    <2> HIDE DEF p
    <2> QED BY <1>3, <1>5, <2>1, <2>2
  <1>6. CASE FetchFails(b)
    <2>1. Follows(b, <<>>)
      BY <1>6, FailsFollows
    <2>2. batches' = [batches EXCEPT ![b].fetch = "failed"]
      BY <1>6 DEF FetchFails
    <2> QED BY <1>1, <1>5, <2>1, <2>2
  <1>7. CASE FetchResolves(b)
    <2>1. PICK body \in Bodies :
             batches' = [batches EXCEPT ![b].fetch = "responding", ![b].body = body]
      BY <1>7 DEF FetchResolves
    <2> DEFINE p == [q EXCEPT !.fetch = "responding", !.body = body]
    <2>2. batches' = [batches EXCEPT ![b] = p]
      BY <2>1
    <2>3. body \in {"none", "reader", "readable"}
      BY HttpAssumption
    <2>4. Follows(b, <<>>)
      BY <1>4, <1>7 DEF FetchResolves
    <2> HIDE DEF q
    <2>5. p \in Batch /\ p.ids = q.ids /\ p.buffer = q.buffer /\ p.wire = q.wire /\ p.fetch # "waiting"
      BY <1>1, <2>3 DEF Batch
    <2> HIDE DEF p
    <2> QED BY <1>1, <1>3, <2>2, <2>4, <2>5
  <1>8. CASE ReadFails(b)
    <2>1. Follows(b, <<>>)
      BY <1>4, <1>8 DEF ReadFails
    <2>2. batches' = [batches EXCEPT ![b].fetch = "broken"]
      BY <1>8 DEF ReadFails
    <2> QED BY <1>1, <1>5, <2>1, <2>2
  <1>9. CASE ReadDone(b)
    <2> DEFINE more == StillOpen(q.ids)
    <2>1. more \in Seq(Message)
      BY PostFacts, CloseEvents, ToAllTyped DEF StillOpen
    <2>2. ReceiveAll(<<>> \o more)
      <3>1. <<>> \o more = more
        BY <2>1, ConcatEmptySeq
      <3>2. ReceiveAll(more)
        BY <1>9 DEF ReadDone
      <3> QED BY <3>1, <3>2, Zenon
    <2>3. \A id \in PostOf(b) : id \in Live =>
             Begins(output[id].got \o EventsFor(id, <<>>), emitted[id])
      <3>1. PostOf(b) \in SUBSET Id
        BY PostFacts DEF PostOf
      <3> SUFFICES ASSUME NEW id \in PostOf(b), id \in Live
                   PROVE  Begins(output[id].got \o EventsFor(id, <<>>), emitted[id])
        OBVIOUS
      <3>2. Begins(output[id].got, emitted[id])
        BY <3>1 DEF FollowsInv
      <3>3. output[id].got \o EventsFor(id, <<>>) = output[id].got
        BY <1>2, <3>1
      <3> QED BY <3>2, <3>3, Zenon
    <2>4. \A i \in 1..Len(<<>>) : <<>>[i].id \in PostOf(b)
      BY EmptySeq
    <2> HIDE DEF more
    <2>5. Follows(b, <<>>)
      BY <1>1, <2>1, <2>2, <2>3, <2>4, ReceivingFollows DEF more
    <2>6. batches' = [batches EXCEPT ![b].fetch = "ended"]
      BY <1>9 DEF ReadDone
    <2> QED BY <1>1, <1>5, <2>5, <2>6
  <1>10. CASE Reads(b) /\ batches[b].fetch = "responding"
    BY <1>1, <1>10, ReadsOutputs
  <1> QED BY <1>6, <1>7, <1>8, <1>9, <1>10, ClientReads

-----------------------------------------------------------------------------
\* The invariant of the outputs

LEMMA ClientOutputsInv ==
    ASSUME PostsTyped, StreamsTyped, PostsInv, OutputsInv, NEW b \in DOMAIN batches, ClientOf(b)
    PROVE  OutputsInv'
  <1>1. EmittedInv /\ QuietInv /\ FollowsInv /\ DecoderInv
    BY DEF OutputsInv
  <1>2. PICK first \in Seq(Message) : Follows(b, first)
    BY <1>1, ClientOutputs
  <1>3. KeepsOthers(b) /\ batches'[b].fetch # "waiting" /\ b \in Decoded'
    BY <1>1, ClientOutputs
  <1>4. emitted' = emitted /\ handler' = handler
    BY ClientPost
  <1>5. /\ DOMAIN batches' = DOMAIN batches
        /\ \A c \in DOMAIN batches : c # b => batches'[c] = batches[c]
        /\ \A c \in DOMAIN batches : PostOf(c)' = PostOf(c)
    BY <1>3 DEF KeepsOthers, PostOf
  <1>6. EmittedInv'
    BY <1>1, <1>4 DEF EmittedInv
  <1>7. FollowsInv'
    <2> SUFFICES ASSUME NEW id \in Id
                 PROVE  /\ Fits(output'[id].got, emitted[id])
                        /\ id \in Live' => Begins(output'[id].got, emitted[id])
      BY <1>4 DEF FollowsInv
    <2>1. Fits(output'[id].got, emitted[id])
      BY <1>2 DEF Follows
    <2>2. id \in Live' => Begins(output'[id].got, emitted[id])
      BY <1>2 DEF Follows
    <2> QED BY <2>1, <2>2
  <1>8. QuietInv'
    <2>1. ASSUME NEW id \in Id, \A c \in DOMAIN batches : id \notin PostOf(c)
          PROVE  id \notin streams'.open /\ output'[id].got = <<>>
      BY <1>1, <1>2, <2>1 DEF QuietInv, Follows
    <2>2. ASSUME NEW c \in DOMAIN batches, batches'[c].fetch = "waiting"
          PROVE  batches'[c].buffer = <<>> /\ \A id \in PostOf(c) : output'[id].got = <<>>
      <3>1. c # b /\ batches'[c] = batches[c]
        BY <1>3, <1>5, <2>2
      <3>2. batches[c].buffer = <<>> /\ \A id \in PostOf(c) : output[id].got = <<>>
        BY <1>1, <2>2, <3>1 DEF QuietInv
      <3>3. \A id \in PostOf(c) : id \in Id /\ id \notin PostOf(b)
        BY <3>1, PostFacts, PostsDisjoint DEF PostOf
      <3>4. \A id \in PostOf(c) : output'[id].got = output[id].got
        BY <1>2, <3>3 DEF Follows
      <3> QED BY <3>1, <3>2, <3>4
    <2> QED BY <1>5, <2>1, <2>2 DEF QuietInv
  <1>9. DecoderInv'
    <2>1. ASSUME NEW c \in DOMAIN batches, c # b PROVE c \in Decoded'
      <3>1. batches'[c] = batches[c] /\ Decoder(c)
        BY <1>1, <1>5, <2>1 DEF DecoderInv, Decoded
      <3>2. \A id \in PostOf(c) : id \in Id /\ id \notin PostOf(b)
        BY <2>1, PostFacts, PostsDisjoint DEF PostOf
      <3>3. \A id \in PostOf(c) : /\ emitted'[id] = emitted[id]
                                  /\ id \in Live' => id \in Live /\ output'[id].got = output[id].got
        BY <1>2, <1>4, <3>2 DEF Follows
      <3>4. /\ batches'[c].ids = batches[c].ids /\ batches'[c].buffer = batches[c].buffer
            /\ batches'[c].wire = batches[c].wire
        BY <3>1
      <3>5. Decoder(c)
        BY <3>1
      <3> QED BY <1>5, <2>1, <3>3, <3>4, <3>5, DecoderSame
    <2> QED BY <1>3, <1>5, <2>1 DEF DecoderInv, Decoded
  <1> QED BY <1>6, <1>7, <1>8, <1>9 DEF OutputsInv

\* A step of anyone else that leaves responses and what the outputs got alone.
LEMMA QuietStep ==
    ASSUME PostsTyped, QuietInv, FollowsInv, DecoderInv,
           DOMAIN batches' = DOMAIN batches,
           \A b \in DOMAIN batches :
              /\ batches'[b].ids = batches[b].ids /\ batches'[b].fetch = batches[b].fetch
              /\ batches'[b].buffer = batches[b].buffer /\ batches'[b].wire = batches[b].wire,
           emitted' = emitted,
           \A id \in Id : /\ output'[id].got = output[id].got
                          /\ id \in Live' => id \in Live
                          /\ id \in streams'.open => id \in streams.open
    PROVE  QuietInv' /\ FollowsInv' /\ DecoderInv'
  <1>1. \A b \in DOMAIN batches : PostOf(b)' = PostOf(b) /\ PostOf(b) \in SUBSET Id
    BY PostFacts DEF PostOf
  <1>2. QuietInv'
    <2>1. ASSUME NEW id \in Id, \A b \in DOMAIN batches : id \notin PostOf(b)
          PROVE  id \notin streams'.open /\ output'[id].got = <<>>
      BY <2>1 DEF QuietInv
    <2>2. ASSUME NEW b \in DOMAIN batches, batches'[b].fetch = "waiting"
          PROVE  batches'[b].buffer = <<>> /\ \A id \in PostOf(b) : output'[id].got = <<>>
      BY <1>1, <2>2 DEF QuietInv
    <2> QED BY <1>1, <2>1, <2>2 DEF QuietInv
  <1>3. FollowsInv'
    <2> SUFFICES ASSUME NEW id \in Id
                 PROVE  /\ Fits(output'[id].got, emitted[id])
                        /\ id \in Live' => Begins(output'[id].got, emitted[id])
      BY DEF FollowsInv
    <2>1. output'[id].got = output[id].got
      OBVIOUS
    <2>2. Fits(output[id].got, emitted[id])
      BY DEF FollowsInv
    <2>3. id \in Live' => Begins(output[id].got, emitted[id])
      BY DEF FollowsInv
    <2> QED BY <2>1, <2>2, <2>3, Zenon
  <1>4. ASSUME NEW b \in DOMAIN batches PROVE b \in Decoded'
    <2>1. Decoder(b)
      BY DEF DecoderInv, Decoded
    <2>2. \A id \in PostOf(b) : /\ emitted'[id] = emitted[id]
                                /\ id \in Live' => id \in Live /\ output'[id].got = output[id].got
      BY <1>1
    <2> QED BY <2>1, <2>2, DecoderSame
  <1>5. DecoderInv'
    BY <1>4 DEF DecoderInv, Decoded
  <1> QED BY <1>2, <1>3, <1>5

\* A post just made.
LEMMA NewDecoder ==
    ASSUME NEW b \in DOMAIN batches', batches'[b].buffer = <<>>, batches'[b].wire = <<>>,
           \A id \in ToSet(batches'[b].ids) : output'[id].got = <<>> /\ emitted'[id] = <<>>
    PROVE  b \in Decoded'
  <1> SUFFICES Decoder(b)'
    BY DEF Decoded
  <1>1. /\ Len(<<>>) = 0 /\ <<>> \in Seq(Posted) /\ <<>> \o <<>> = <<>>
        /\ \A id : EventsFor(id, <<>>) = <<>>
    BY EmptySeq, EventsForEmpty, ConcatEmptySeq
  <1>2. Spells(<<>>, <<>>)
    BY <1>1 DEF Spells
  <1>3. Aligned(b, batches[b].buffer, batches[b].wire, <<>>)'
    BY <1>1, <1>2 DEF Aligned
  <1>4. InPlace(b, <<>>)'
    BY <1>1, <1>3 DEF InPlace, PostOf
  <1> QED BY <1>1, <1>4 DEF Decoder

LEMMA FlushOutputs ==
    ASSUME PostsTyped, HttpInv, EmittedInv, QuietInv, FollowsInv, DecoderInv, Flush
    PROVE  QuietInv' /\ FollowsInv' /\ DecoderInv'
  <1> DEFINE post == NewBatch(queuedMessages)
             n == Len(batches)
             queued == ToSet(queuedMessages)
  <1>1. /\ batches' = Append(batches, post) /\ UNCHANGED <<output, emitted>>
        /\ streams' = [streams EXCEPT !.open = @ \cup queued]
    BY DEF Flush
  <1>2. /\ post.ids = queuedMessages /\ post.fetch = "waiting" /\ post.wire = <<>> /\ post.buffer = <<>>
    BY DEF NewBatch
  <1>3. batches \in Seq(Batch) /\ queuedMessages \in Seq(Id) /\ post \in Batch
    BY DEF PostsTyped, NewBatch, Batch
  <1> HIDE DEF post, n
  <1>4. /\ n \in Nat /\ DOMAIN batches = 1..n /\ DOMAIN batches' = 1..n + 1
        /\ batches'[n + 1] = post /\ \A b \in 1..n : batches'[b] = batches[b]
    BY <1>1, <1>3, AppendProperties, LenProperties DEF n
  <1>5. \A b \in 1..n + 1 : b \in 1..n \/ b = n + 1
    BY <1>4
  <1>6. QueueInv /\ PostsInv
    BY DEF HttpInv
  <1>7. \A id \in queued : /\ id \in Id /\ handler[id] = "none"
                           /\ \A b \in DOMAIN batches : id \notin PostOf(b)
    BY <1>3, <1>6, IdsSeq DEF QueueInv, PostsInv, ToSet, PostOf
  <1>8. \A id \in queued : output[id].got = <<>> /\ emitted[id] = <<>>
    BY <1>7 DEF EmittedInv, QuietInv
  <1>9. /\ \A b \in 1..n : ToSet(batches'[b].ids) = PostOf(b) /\ PostOf(b) \in SUBSET Id
        /\ ToSet(batches'[n + 1].ids) = queued
    <2>1. \A b \in 1..n : ToSet(batches'[b].ids) = PostOf(b) /\ PostOf(b) \in SUBSET Id
      BY <1>4, PostFacts DEF PostOf
    <2>2. ToSet(batches'[n + 1].ids) = queued
      BY <1>2, <1>4
    <2> QED BY <2>1, <2>2
  <1> HIDE DEF queued
  <1>10. \A id \in Id : /\ id \in streams'.open => id \in streams.open \/ id \in queued
                        /\ id \in Live' => id \in Live \/ id \in queued
    BY <1>1 DEF Live
  <1>11. QuietInv'
    <2>1. ASSUME NEW id \in Id, \A b \in 1..n + 1 : id \notin ToSet(batches'[b].ids)
          PROVE  id \notin streams'.open /\ output'[id].got = <<>>
      <3>1. id \notin queued /\ \A b \in 1..n : id \notin PostOf(b)
        BY <1>4, <1>9, <2>1
      <3>2. id \notin streams.open /\ output[id].got = <<>>
        BY <1>4, <3>1 DEF QuietInv
      <3> QED BY <1>1, <1>10, <3>1, <3>2
    <2>2. ASSUME NEW b \in 1..n + 1, batches'[b].fetch = "waiting"
          PROVE  batches'[b].buffer = <<>> /\ \A id \in ToSet(batches'[b].ids) : output'[id].got = <<>>
      <3>1. CASE b \in 1..n
        BY <1>1, <1>4, <1>9, <2>2, <3>1 DEF QuietInv
      <3>2. CASE b = n + 1
        BY <1>1, <1>2, <1>4, <1>8, <1>9, <3>2
      <3> QED BY <1>5, <3>1, <3>2
    <2> QED BY <1>4, <2>1, <2>2 DEF QuietInv, PostOf
  <1>12. FollowsInv'
    <2> SUFFICES ASSUME NEW id \in Id
                 PROVE  /\ Fits(output[id].got, emitted[id])
                        /\ id \in Live' => Begins(output[id].got, emitted[id])
      BY <1>1 DEF FollowsInv
    <2>1. Fits(output[id].got, emitted[id])
      BY DEF FollowsInv
    <2>2. CASE id \in queued
      <3>1. output[id].got = <<>> /\ emitted[id] = <<>>
        BY <1>8, <2>2
      <3> QED BY <2>1, <3>1 DEF Begins
    <2>3. CASE id \notin queued
      BY <1>10, <2>1, <2>3 DEF FollowsInv
    <2> QED BY <2>2, <2>3
  <1>13. ASSUME NEW b \in 1..n PROVE b \in Decoded'
    <2>1. Decoder(b) /\ b \in DOMAIN batches /\ b \in DOMAIN batches'
      BY <1>4, <1>5 DEF DecoderInv, Decoded
    <2>2. batches'[b] = batches[b]
      BY <1>4
    <2>3. \A id \in PostOf(b) : id \notin queued /\ id \in Id
      BY <1>7, <1>9, <2>1
    <2>4. \A id \in PostOf(b) : /\ emitted'[id] = emitted[id]
                                /\ id \in Live' => id \in Live /\ output'[id].got = output[id].got
      BY <1>1, <1>10, <2>3
    <2> QED BY <2>1, <2>2, <2>4, DecoderSame
  <1>14. n + 1 \in Decoded'
    <2>1. n + 1 \in DOMAIN batches'
      BY <1>4
    <2>2. ToSet(batches'[n + 1].ids) = queued
      BY <1>2, <1>4 DEF queued
    <2> QED BY <1>1, <1>2, <1>4, <1>8, <2>1, <2>2, NewDecoder
  <1>15. DecoderInv'
    BY <1>4, <1>5, <1>13, <1>14 DEF DecoderInv, Decoded
  <1> QED BY <1>11, <1>12, <1>15

-----------------------------------------------------------------------------
\* A handler emits

LEMMA BeginsAppend ==
    ASSUME NEW g \in Seq(Event \cup {Error}), NEW em \in Seq(Event), NEW e \in Event
    PROVE  /\ Append(em, e) \in Seq(Event) /\ Len(Append(em, e)) = Len(em) + 1
           /\ Append(em, e)[Len(em) + 1] = e /\ \A i \in 1..Len(em) : Append(em, e)[i] = em[i]
           /\ Begins(g, em) => Begins(g, Append(em, e))
           /\ Fits(g, em) => Fits(g, Append(em, e))
           /\ ToSet(Append(em, e)) = ToSet(em) \cup {e}
  <1> DEFINE a == Append(em, e)
             n == Len(em)
             k == Len(g)
  <1>1. /\ a \in Seq(Event) /\ Len(a) = n + 1 /\ n \in Nat /\ k \in Nat /\ a[n + 1] = e
        /\ \A i \in 1..n : a[i] = em[i]
        /\ DOMAIN a = 1..n + 1 /\ DOMAIN em = 1..n
    BY AppendProperties, LenProperties
  <1> HIDE DEF a, n
  <1>2. \A m \in Nat : m <= n => m <= n + 1 /\ \A i \in 1..m : i \in 1..n
    BY <1>1
  <1>3. Begins(g, em) => Begins(g, a)
    BY <1>1, <1>2 DEF Begins, n
  <1>4. Fits(g, em) => Fits(g, a)
    <2>1. ASSUME g # <<>>, g[k] = Close, k - 1 <= n, \A i \in 1..k - 1 : g[i] = em[i]
          PROVE  k - 1 <= n + 1 /\ \A i \in 1..k - 1 : g[i] = a[i]
      BY <1>1, <2>1
    <2> QED BY <1>1, <1>3, <2>1 DEF Fits, n
  <1>5. ToSet(a) = ToSet(em) \cup {e}
    <2>1. \A i \in 1..n + 1 : i \in 1..n \/ i = n + 1
      BY <1>1
    <2>2. n + 1 \in 1..n + 1 /\ \A i \in 1..n : i \in 1..n + 1
      BY <1>1
    <2> QED BY <1>1, <2>1, <2>2 DEF ToSet
  <1> QED BY <1>1, <1>3, <1>4, <1>5 DEF a, n

\* What a handler emits it has not emitted before.
LEMMA Fresh ==
    ASSUME PostsTyped, EmittedInv, NEW b, NEW id \in Id, NEW e \in Event, HandlerEmits(b, id, e)
    PROVE  /\ e \notin ToSet(emitted[id]) /\ Close \notin ToSet(emitted[id])
           /\ e.t = "item" => e.n = Len(emitted[id]) + 1
  <1> DEFINE em == emitted[id]
  <1>1. em \in Seq(Event) /\ handler[id] = "running"
    BY DEF PostsTyped, HandlerEmits
  <1>2. Close \notin ToSet(em) /\ \A i \in DOMAIN em : em[i].t = "item" => em[i].n = i
    BY <1>1 DEF EmittedInv
  <1>3. /\ e.t = "item" => e.n = Len(em) + 1
        /\ (\E i \in DOMAIN em : em[i].t = "done") => e = Close
    BY DEF HandlerEmits, HasEmitted
  <1>4. ASSUME NEW i \in DOMAIN em, em[i] = e PROVE FALSE
    <2>1. i \in 1..Len(em) /\ Len(em) \in Nat
      BY <1>1, LenProperties
    <2>2. CASE e.t = "item"
      BY <1>2, <1>3, <1>4, <2>1, <2>2
    <2>3. CASE e.t = "done"
      <3>1. e = Close
        BY <1>3, <1>4, <2>3
      <3> QED BY <2>3, <3>1 DEF Close
    <2>4. CASE e = Close
      BY <1>2, <1>4, <2>4 DEF ToSet
    <2>5. e.t = "item" \/ e.t = "done" \/ e = Close
      BY DEF Event
    <2> QED BY <2>2, <2>3, <2>4, <2>5
  <1>5. e \notin ToSet(em)
    BY <1>4 DEF ToSet
  <1> QED BY <1>2, <1>3, <1>5

LEMMA EmittedStep ==
    ASSUME PostsTyped, EmittedInv, NEW b, NEW id \in Id, NEW e \in Event, HandlerEmits(b, id, e)
    PROVE  EmittedInv'
  <1> DEFINE em == emitted[id]
             new == Append(em, e)
  <1>1. em \in Seq(Event) /\ e \notin ToSet(em) /\ Close \notin ToSet(em)
        /\ (e.t = "item" => e.n = Len(em) + 1) /\ handler[id] = "running"
    BY Fresh DEF PostsTyped, HandlerEmits
  <1>2. /\ new \in Seq(Event) /\ Len(new) = Len(em) + 1 /\ new[Len(em) + 1] = e
        /\ \A i \in 1..Len(em) : new[i] = em[i]
        /\ ToSet(new) = ToSet(em) \cup {e}
        /\ DOMAIN new = 1..Len(em) + 1 /\ DOMAIN em = 1..Len(em) /\ Len(em) \in Nat
    <2>1. <<>> \in Seq(Event \cup {Error})
      BY EmptySeq
    <2>2. /\ new \in Seq(Event) /\ Len(new) = Len(em) + 1 /\ new[Len(em) + 1] = e
          /\ \A i \in 1..Len(em) : new[i] = em[i]
          /\ ToSet(new) = ToSet(em) \cup {e}
      BY <1>1, <2>1, BeginsAppend
    <2> HIDE DEF new
    <2> QED BY <1>1, <2>2, LenProperties
  <1>3. /\ emitted'[id] = new
        /\ e = Close => handler'[id] = "ended"
        /\ e # Close => handler'[id] = "running"
        /\ \A x \in Id : x # id => emitted'[x] = emitted[x] /\ handler'[x] = handler[x]
    BY <1>1 DEF PostsTyped, HandlerEmits
  <1> HIDE DEF new
  <1>4. ASSUME NEW i \in DOMAIN new, new[i].t = "item" PROVE new[i].n = i
    <2>1. CASE i \in 1..Len(em)
      <3>1. new[i] = em[i] /\ i \in DOMAIN em
        BY <1>2, <2>1
      <3> QED BY <1>4, <3>1 DEF EmittedInv
    <2>2. CASE i = Len(em) + 1
      BY <1>1, <1>2, <1>4, <2>2
    <2>3. i \in 1..Len(em) \/ i = Len(em) + 1
      BY <1>2
    <2> QED BY <2>1, <2>2, <2>3
  <1>5. ASSUME NEW x \in Id
        PROVE  /\ handler'[x] = "none" => emitted'[x] = <<>>
               /\ handler'[x] = "running" => Close \notin ToSet(emitted'[x])
               /\ \A i \in DOMAIN emitted'[x] : emitted'[x][i].t = "item" => emitted'[x][i].n = i
    <2>1. CASE x = id
      BY <1>1, <1>2, <1>3, <1>4, <2>1
    <2>2. CASE x # id
      <3>1. emitted'[x] = emitted[x] /\ handler'[x] = handler[x]
        BY <1>3, <2>2
      <3> QED BY <3>1 DEF EmittedInv
    <2> QED BY <2>1, <2>2
  <1> QED BY <1>5 DEF EmittedInv

LEMMA EventsForAppend ==
    ASSUME NEW msgs \in Seq(Posted), NEW m \in Posted
    PROVE  /\ Append(msgs, m) \in Seq(Posted)
           /\ EventsFor(m.id, Append(msgs, m)) = EventsFor(m.id, msgs) \o <<m.event>>
           /\ \A x : x # m.id => EventsFor(x, Append(msgs, m)) = EventsFor(x, msgs)
  <1> DEFINE one == <<m>>
  <1>1. Posted \subseteq Message
    BY DEF Posted, Message
  <1>2. msgs \in Seq(Message) /\ m \in Message
    <2>1. Len(msgs) \in Nat /\ \A i \in 1..Len(msgs) : msgs[i] \in Message
      BY <1>1, LenProperties, ElementOfSeq
    <2>2. msgs \in [1..Len(msgs) -> Message]
      BY <2>1, LenProperties
    <2> QED BY <1>1, <2>1, <2>2, SeqDef
  <1>3. one \in Seq(Message) /\ Len(one) = 1 /\ one[1] = m
    BY <1>2
  <1>4. Append(msgs, m) = msgs \o one
    BY <1>2
  <1> HIDE DEF one
  <1>5. \A x : EventsFor(x, Append(msgs, m)) = EventsFor(x, msgs) \o EventsFor(x, one)
    BY <1>2, <1>3, <1>4, EventsForConcat
  <1>6. EventsFor(m.id, one) = <<m.event>>
    <2>1. m \in Mine(m.id) /\ 1 \in 1..Len(one)
      BY <1>2, <1>3 DEF Mine
    <2>2. \A i \in 1..Len(one) : i = 1
      BY <1>3
    <2>3. Kept(one, Mine(m.id)) = <<m>>
      BY <1>3, <2>1, <2>2, KeptOne
    <2>4. EventsOf(<<m>>) = <<m.event>>
      BY DEF EventsOf
    <2> QED BY <1>3, <2>3, <2>4, EventsForMine
  <1>7. ASSUME NEW x, x # m.id PROVE EventsFor(x, Append(msgs, m)) = EventsFor(x, msgs)
    <2>1. \A i \in 1..Len(one) : one[i].id # x
      BY <1>3, <1>7
    <2>2. EventsFor(x, one) = <<>>
      BY <1>3, <2>1, EventsForOthers
    <2>3. EventsFor(x, msgs) \in Seq(Event \cup {Error})
      BY <1>2, EventsForTyped
    <2> QED BY <1>5, <2>2, <2>3, ConcatEmptySeq
  <1>8. Append(msgs, m) \in Seq(Posted)
    BY AppendProperties
  <1> QED BY <1>5, <1>6, <1>7, <1>8

\* The handler of a request of post b emits e: its text goes to the end of the response.
LEMMA EmitDecoder ==
    ASSUME PostsTyped, StreamsTyped, NEW b \in DOMAIN batches, Decoder(b), b \in DOMAIN batches',
           NEW id \in PostOf(b), NEW e \in Event, e \notin ToSet(emitted[id]),
           batches'[b].ids = batches[b].ids, batches'[b].buffer = batches[b].buffer,
           batches'[b].wire = batches[b].wire \o Text(id, e),
           output' = output, streams' = streams,
           emitted'[id] = Append(emitted[id], e),
           \A x \in Id : x # id => emitted'[x] = emitted[x]
    PROVE  b \in Decoded'
  <1> SUFFICES Decoder(b)'
    BY DEF Decoded
  <1> DEFINE em == emitted[id]
             buffer == batches[b].buffer
             wire == batches[b].wire
             m == [id |-> id, event |-> e]
             two == Text(id, e)
  <1>1. /\ PostOf(b) \in SUBSET Id /\ id \in Id /\ PostOf(b)' = PostOf(b)
        /\ buffer \in Seq(Half) /\ wire \in Seq(Half)
    BY PostFacts DEF PostOf
  <1>2. m \in Posted /\ m.id = id /\ m.event = e
    BY <1>1 DEF Posted
  <1>3. /\ two \in Seq(Half) /\ Len(two) = 2
        /\ two[1] = Half1(m) /\ two[2] = Half2(m)
    <2>1. two = <<Half1(m), Half2(m)>> /\ Half1(m) \in Half /\ Half2(m) \in Half
      BY <1>2, HalvesOf DEF Text, Half1, Half2
    <2> HIDE DEF two
    <2> QED BY <2>1
  <1>4. Live' = Live
    BY DEF Live
  <1>5. em \in Seq(Event) /\ ToSet(emitted'[id]) = ToSet(em) \cup {e}
    <2>1. em \in Seq(Event) /\ <<>> \in Seq(Event \cup {Error})
      BY <1>1, EmptySeq DEF PostsTyped
    <2>2. ToSet(Append(em, e)) = ToSet(em) \cup {e}
      BY <2>1, BeginsAppend
    <2> QED BY <2>1, <2>2
  <1>6. \A x \in Id : \A y : y \in ToSet(emitted[x]) => y \in ToSet(emitted'[x])
    <2> SUFFICES ASSUME NEW x \in Id PROVE \A y : y \in ToSet(emitted[x]) => y \in ToSet(emitted'[x])
      OBVIOUS
    <2>1. CASE x = id
      BY <1>5, <2>1
    <2>2. CASE x # id
      BY <2>2
    <2> QED BY <2>1, <2>2
  <1>7. CASE \E msgs \in Seq(Posted) : InPlace(b, msgs)
    <2>1. PICK msgs \in Seq(Posted) : InPlace(b, msgs)
      BY <1>7
    <2> DEFINE more == Append(msgs, m)
               n == Len(msgs)
    <2> HIDE DEF m, two, buffer, wire
    <2>2. /\ more \in Seq(Posted) /\ Len(more) = n + 1 /\ n \in Nat /\ more[n + 1] = m
          /\ \A i \in 1..n : more[i] = msgs[i]
      BY <1>2, AppendProperties, LenProperties
    <2>3. \A i \in 1..n + 1 : i \in 1..n \/ i = n + 1
      BY <2>2
    <2>4. /\ Spells(buffer \o wire, msgs) /\ Len(buffer) <= 1
          /\ \A i \in 1..n : msgs[i].id \in PostOf(b) /\ msgs[i].event \in ToSet(emitted[msgs[i].id])
          /\ \A i, j \in 1..n : msgs[i] = msgs[j] => i = j
          /\ \A x \in PostOf(b) : x \in Live => output[x].got \o EventsFor(x, msgs) = emitted[x]
      BY <2>1 DEF InPlace, Aligned, buffer, wire
    <2>5. Spells(buffer \o (wire \o two), more)
      <3>1. buffer \o wire \in Seq(Half)
        BY <1>1, ConcatProperties
      <3>2. Spells((buffer \o wire) \o two, more)
        BY <1>2, <2>4, <3>1, SpellsAppend DEF two
      <3>3. (buffer \o wire) \o two = buffer \o (wire \o two)
        <4>1. buffer \in Seq(Half) /\ wire \in Seq(Half) /\ two \in Seq(Half)
          BY <1>1, <1>3
        <4> QED BY ONLY <4>1, ConcatAssociative, SMTT(40)
      <3> QED BY <3>2, <3>3, Zenon
    <2>6. \A i \in 1..n : msgs[i] # m
      BY <1>2, <2>4
    <2> HIDE DEF more, n
    <2>7. \A i \in 1..n + 1 : more[i].id \in PostOf(b) /\ more[i].event \in ToSet(emitted'[more[i].id])
      <3> SUFFICES ASSUME NEW i \in 1..n + 1
                   PROVE  more[i].id \in PostOf(b) /\ more[i].event \in ToSet(emitted'[more[i].id])
        OBVIOUS
      <3>1. CASE i \in 1..n
        BY <1>1, <1>6, <2>2, <2>4, <3>1
      <3>2. CASE i = n + 1
        BY <1>2, <1>5, <2>2, <3>2
      <3> QED BY <2>3, <3>1, <3>2
    <2>8. \A i, j \in 1..n + 1 : more[i] = more[j] => i = j
      BY <2>2, <2>3, <2>4, <2>6
    <2>9. Aligned(b, batches[b].buffer, batches[b].wire, more)'
      BY <1>1, <2>2, <2>4, <2>5, <2>7, <2>8 DEF Aligned, buffer, wire, two, n
    <2>10. ASSUME NEW x \in PostOf(b), x \in Live
           PROVE  output[x].got \o EventsFor(x, more) = emitted'[x]
      <3>0. /\ x \in Id /\ output[x].got \in Seq(Event \cup {Error})
            /\ EventsFor(x, msgs) \in Seq(Event \cup {Error})
        <4>1. x \in Id /\ output[x] \in Outputs
          BY <1>1 DEF StreamsTyped
        <4>2. msgs \in Seq(Message)
          <5>1. Len(msgs) \in Nat /\ \A i \in 1..Len(msgs) : msgs[i] \in Posted
            BY LenProperties, ElementOfSeq
          <5>2. Posted \subseteq Message
            BY DEF Posted, Message
          <5>3. msgs \in [1..Len(msgs) -> Message]
            BY <5>1, <5>2, LenProperties
          <5> QED BY <5>1, <5>3, SeqDef
        <4> QED BY <4>1, <4>2, EventsForTyped DEF Outputs
      <3>1. CASE x = id
        <4>1. EventsFor(x, more) = EventsFor(x, msgs) \o <<e>>
          BY <1>2, <3>1, EventsForAppend DEF more
        <4>2. <<e>> \in Seq(Event \cup {Error})
          OBVIOUS
        <4>3. output[x].got \o (EventsFor(x, msgs) \o <<e>>) = (output[x].got \o EventsFor(x, msgs)) \o <<e>>
          <5> DEFINE s == output[x].got
                     t == EventsFor(x, msgs)
                     u == <<e>>
                     E == Event \cup {Error}
          <5>1. s \in Seq(E) /\ t \in Seq(E) /\ u \in Seq(E)
            BY <3>0, <4>2
          <5> HIDE DEF s, t, u, E
          <5>2. s \o (t \o u) = (s \o t) \o u
            BY ONLY <5>1, ConcatAssociative, SMTT(40)
          <5> QED BY <5>2 DEF s, t, u
        <4>4. output[x].got \o EventsFor(x, msgs) = em
          BY <2>4, <2>10, <3>1
        <4>5. em \o <<e>> = Append(em, e)
          BY <1>5
        <4> QED BY <3>1, <4>1, <4>3, <4>4, <4>5
      <3>2. CASE x # id
        <4>1. EventsFor(x, more) = EventsFor(x, msgs)
          BY <1>2, <3>2, EventsForAppend DEF more
        <4> QED BY <2>4, <2>10, <3>0, <3>2, <4>1
      <3> QED BY <3>1, <3>2
    <2>11. InPlace(b, more)'
      BY <1>1, <1>4, <2>9, <2>10 DEF InPlace
    <2> QED BY <2>2, <2>11 DEF Decoder
  <1>8. CASE OutOfPlace(b)
    <2>1. Misplaced(b, buffer, wire)
      BY <1>8 DEF OutOfPlace
    <2> DEFINE first == buffer[1]
               k == Len(wire)
    <2>2. /\ buffer # <<>> /\ first.part = 1 /\ first.id \in PostOf(b)
          /\ first.event \in ToSet(emitted[first.id])
          /\ Len(buffer) > 1 => buffer[2] # Second(first)
          /\ \A i \in 1..k : wire[i] # Second(first)
      BY <2>1 DEF Misplaced
    <2>3. first \in Half
      BY <1>1, <2>2, EmptySeq, ElementOfSeq, LenProperties
    <2> HIDE DEF first, m, two, buffer, wire
    <2>4. Second(first).id = first.id /\ Second(first).event = first.event /\ Second(first).part = 2
      BY <2>3 DEF Second, Half
    <2>5. two[1] # Second(first) /\ two[2] # Second(first)
      <3>1. Half1(m).part = 1 /\ Half2(m).id = id /\ Half2(m).event = e
        BY <1>2, HalvesOf
      <3>2. first.id # id \/ first.event # e
        BY <2>2
      <3> QED BY <1>3, <2>4, <3>1, <3>2
    <2>6. \A i \in 1..Len(wire \o two) : (wire \o two)[i] # Second(first)
      <3>1. /\ k \in Nat /\ Len(wire \o two) = k + 2
            /\ \A i \in 1..k + 2 : (wire \o two)[i] = IF i <= k THEN wire[i] ELSE two[i - k]
        <4>1. wire \in Seq(Half) /\ two \in Seq(Half) /\ Len(two) = 2
          BY <1>1, <1>3
        <4> DEFINE w == wire \o two
        <4>2. /\ Len(w) = Len(wire) + Len(two)
              /\ \A i \in 1..Len(wire) + Len(two) : w[i] = IF i <= Len(wire) THEN wire[i] ELSE two[i - Len(wire)]
          BY ONLY <4>1, ConcatProperties
        <4>3. Len(wire) \in Nat
          BY ONLY <4>1, LenProperties
        <4> HIDE DEF w
        <4> QED BY <4>1, <4>2, <4>3 DEF w
      <3> HIDE DEF k
      <3> SUFFICES ASSUME NEW i \in 1..k + 2 PROVE (wire \o two)[i] # Second(first)
        BY <3>1
      <3>2. CASE i <= k
        BY <2>2, <3>1, <3>2
      <3>3. CASE ~(i <= k)
        <4>1. i - k = 1 \/ i - k = 2
          BY <3>1, <3>3
        <4> QED BY <2>5, <3>1, <3>3, <4>1
      <3> QED BY <3>2, <3>3
    <2>7. first.event \in ToSet(emitted'[first.id])
      BY <1>1, <1>6, <2>2
    <2>8. OutOfPlace(b)'
      BY <1>1, <2>2, <2>6, <2>7 DEF OutOfPlace, Misplaced, buffer, wire, first, two
    <2> QED BY <2>8 DEF Decoder
  <1> QED BY <1>7, <1>8 DEF Decoder

LEMMA EmitOutputs ==
    ASSUME PostsTyped, StreamsTyped, PostsInv, OutputsInv, NEW b \in DOMAIN batches,
           NEW id \in Id, NEW e \in Event, HandlerEmits(b, id, e)
    PROVE  OutputsInv'
  <1>1. EmittedInv /\ QuietInv /\ FollowsInv /\ DecoderInv
    BY DEF OutputsInv
  <1>2. PICK p \in Batch :
              /\ batches' = [batches EXCEPT ![b] = p]
              /\ p.ids = batches[b].ids
              /\ p.fetch = batches[b].fetch /\ p.wire = batches[b].wire \o Text(id, e)
              /\ p.buffer = batches[b].buffer
    BY EmitPost
  <1>3. /\ DOMAIN batches' = DOMAIN batches /\ batches'[b] = p
        /\ \A c \in DOMAIN batches : c # b => batches'[c] = batches[c]
    BY <1>2, UpdateFacts DEF PostsTyped
  <1>4. /\ id \in PostOf(b) /\ UNCHANGED <<streams, output>>
        /\ emitted'[id] = Append(emitted[id], e)
        /\ \A x \in Id : x # id => emitted'[x] = emitted[x]
    BY DEF PostsTyped, HandlerEmits, PostOf
  <1>5. \A c \in DOMAIN batches : /\ PostOf(c)' = PostOf(c) /\ PostOf(c) \in SUBSET Id
                                  /\ batches'[c].fetch = batches[c].fetch
                                  /\ batches'[c].buffer = batches[c].buffer
    BY <1>2, <1>3, PostFacts DEF PostOf
  <1>6. Live' = Live
    BY <1>4 DEF Live
  <1>7. EmittedInv'
    BY <1>1, EmittedStep
  <1>8. QuietInv'
    BY <1>1, <1>3, <1>4, <1>5 DEF QuietInv
  <1>9. FollowsInv'
    <2> SUFFICES ASSUME NEW x \in Id
                 PROVE  /\ Fits(output'[x].got, emitted'[x])
                        /\ x \in Live' => Begins(output'[x].got, emitted'[x])
      BY DEF FollowsInv
    <2>1. /\ Fits(output[x].got, emitted[x])
          /\ x \in Live' => Begins(output[x].got, emitted[x])
      BY <1>1, <1>6 DEF FollowsInv
    <2>2. output'[x].got = output[x].got
      BY <1>4
    <2>3. /\ Fits(output[x].got, emitted'[x])
          /\ x \in Live' => Begins(output[x].got, emitted'[x])
      <3>1. CASE x = id
        <4>1. output[x].got \in Seq(Event \cup {Error}) /\ emitted[x] \in Seq(Event)
          BY DEF PostsTyped, StreamsTyped, Outputs
        <4>2. /\ Fits(output[x].got, Append(emitted[x], e))
              /\ x \in Live' => Begins(output[x].got, Append(emitted[x], e))
          BY <2>1, <4>1, BeginsAppend
        <4>3. emitted'[x] = Append(emitted[x], e)
          BY <1>4, <3>1
        <4> QED BY <4>2, <4>3, Zenon
      <3>2. CASE x # id
        <4>1. emitted'[x] = emitted[x]
          BY <1>4, <3>2
        <4> QED BY <2>1, <4>1, Zenon
      <3> QED BY <3>1, <3>2
    <2> QED BY <2>2, <2>3, Zenon
  <1>10. ASSUME NEW c \in DOMAIN batches PROVE c \in Decoded'
    <2>1. Decoder(c) /\ c \in DOMAIN batches'
      BY <1>1, <1>3 DEF DecoderInv, Decoded
    <2>2. CASE c = b
      <3>1. e \notin ToSet(emitted[id])
        BY <1>1, Fresh
      <3>2. /\ batches'[c].ids = batches[c].ids /\ batches'[c].buffer = batches[c].buffer
            /\ batches'[c].wire = batches[c].wire \o Text(id, e) /\ id \in PostOf(c)
        BY <1>2, <1>3, <1>4, <2>2
      <3> QED BY <1>4, <2>1, <3>1, <3>2, EmitDecoder
    <2>3. CASE c # b
      <3>1. batches'[c] = batches[c]
        BY <1>3, <2>3
      <3>2. \A x \in PostOf(c) : x # id /\ x \in Id
        BY <1>4, <1>5, <2>3, PostsDisjoint
      <3>3. \A x \in PostOf(c) : /\ emitted'[x] = emitted[x]
                                 /\ x \in Live' => x \in Live /\ output'[x].got = output[x].got
        BY <1>4, <1>6, <3>2
      <3> QED BY <2>1, <3>1, <3>3, DecoderSame
    <2> QED BY <2>2, <2>3
  <1>11. DecoderInv'
    BY <1>3, <1>10 DEF DecoderInv, Decoded
  <1> QED BY <1>7, <1>8, <1>9, <1>11 DEF OutputsInv

\* The server takes the next request of a post.
LEMMA HandleEmitted ==
    ASSUME PostsTyped, HttpInv, EmittedInv, NEW b \in DOMAIN batches, HandleOne(b)
    PROVE  EmittedInv'
  <1> DEFINE q == batches[b]
             id == q.ids[q.handled + 1]
  <1>1. /\ q.ids \in Seq(Id) /\ q.handled \in Nat /\ q.handled < Len(q.ids)
        /\ handler' = [handler EXCEPT ![id] = "running"] /\ emitted' = emitted
        /\ Served(q, handler)
    BY PostFacts, PostTyped DEF HandleOne, HttpInv, ServedInv
  <1> HIDE DEF q
  <1>2. q.handled + 1 \in DOMAIN q.ids /\ id \in Id
    BY <1>1, IdsSeq
  <1>3. handler[id] = "none"
    BY <1>1, <1>2 DEF Served
  <1> HIDE DEF id
  <1>4. /\ emitted[id] = <<>> /\ Close \notin ToSet(<<>>)
        /\ handler'[id] = "running" /\ \A x \in Id : x # id => handler'[x] = handler[x]
    BY <1>1, <1>2, <1>3 DEF EmittedInv, PostsTyped, ToSet
  <1> QED BY <1>1, <1>4 DEF EmittedInv

LEMMA OutputsStep ==
    PostsTyped /\ StreamsTyped /\ HttpInv /\ OutputsInv /\ [Next]_vars => OutputsInv'
  <1> SUFFICES ASSUME PostsTyped, StreamsTyped, HttpInv, OutputsInv, [Next]_vars PROVE OutputsInv'
    OBVIOUS
  <1>1. EmittedInv /\ QuietInv /\ FollowsInv /\ DecoderInv /\ PostsInv
    BY DEF OutputsInv, HttpInv
  <1>2. CASE Flush
    <2>1. UNCHANGED <<handler, emitted>>
      BY <1>2 DEF Flush
    <2> QED BY <1>1, <1>2, <2>1, FlushOutputs DEF EmittedInv, OutputsInv
  <1>3. CASE UNCHANGED <<streams, output, batches, handler, emitted>>
    <2>1. QuietInv' /\ FollowsInv' /\ DecoderInv'
      BY <1>1, <1>3, QuietStep DEF Live
    <2> QED BY <1>1, <1>3, <2>1 DEF EmittedInv, OutputsInv
  <1>4. CASE SendRequest \/ UNCHANGED vars
    BY <1>3, <1>4 DEF SendRequest, vars
  <1>5. ASSUME NEW id \in Id, ConsumerStops(id) PROVE OutputsInv'
    <2>1. UNCHANGED <<streams, batches, handler, emitted>> /\ output' = [output EXCEPT ![id] = Stopped(@)]
      BY <1>5 DEF ConsumerStops
    <2>2. /\ output \in [Id -> Outputs]
          /\ Stopped(output[id]).got = output[id].got /\ Stopped(output[id]).closedByDownstream
      BY EmptySeq, OutputFacts DEF StreamsTyped
    <2>3. output'[id].closedByDownstream /\ \A x \in Id : /\ output'[x].got = output[x].got
                                                          /\ x # id => output'[x] = output[x]
      BY <2>1, <2>2
    <2>4. \A x \in Id : x \in Live' => x \in Live
      BY <2>1, <2>3 DEF Live
    <2>5. QuietInv' /\ FollowsInv' /\ DecoderInv'
      BY <1>1, <2>1, <2>3, <2>4, QuietStep
    <2> QED BY <1>1, <2>1, <2>5 DEF EmittedInv, OutputsInv
  <1>6. ASSUME NEW b \in DOMAIN batches, NEW p \in Batch, batches' = [batches EXCEPT ![b] = p],
               p.ids = batches[b].ids, p.fetch = batches[b].fetch, p.wire = batches[b].wire,
               p.buffer = batches[b].buffer, UNCHANGED <<streams, output, emitted>>
        PROVE  QuietInv' /\ FollowsInv' /\ DecoderInv'
    <2>1. /\ DOMAIN batches' = DOMAIN batches /\ batches'[b] = p
          /\ \A c \in DOMAIN batches : c # b => batches'[c] = batches[c]
      BY <1>6, UpdateFacts DEF PostsTyped
    <2>2. \A c \in DOMAIN batches :
              /\ batches'[c].ids = batches[c].ids /\ batches'[c].fetch = batches[c].fetch
              /\ batches'[c].buffer = batches[c].buffer /\ batches'[c].wire = batches[c].wire
      BY <1>6, <2>1
    <2>3. Live' = Live
      BY <1>6 DEF Live
    <2> QED BY <1>1, <1>6, <2>1, <2>2, <2>3, QuietStep
  <1>7. ASSUME NEW b \in DOMAIN batches, Arrive(b) PROVE OutputsInv'
    <2>1. QuietInv' /\ FollowsInv' /\ DecoderInv'
      BY <1>6, <1>7, ArrivePost, ZenonT(60) DEF Arrive
    <2>2. UNCHANGED <<handler, emitted>>
      BY <1>7 DEF Arrive
    <2> QED BY <1>1, <2>1, <2>2 DEF EmittedInv, OutputsInv
  <1>8. ASSUME NEW b \in DOMAIN batches, HandleOne(b) PROVE OutputsInv'
    <2>0. UNCHANGED <<streams, output, emitted>>
      BY <1>8 DEF HandleOne
    <2>1. QuietInv' /\ FollowsInv' /\ DecoderInv'
      BY <1>6, <1>8, <2>0, HandlePost
    <2>2. EmittedInv'
      BY <1>1, <1>8, HandleEmitted
    <2> QED BY <2>1, <2>2 DEF OutputsInv
  <1>9. ASSUME NEW b \in DOMAIN batches, ClientOf(b) PROVE OutputsInv'
    BY <1>1, <1>9, ClientOutputsInv
  <1>10. ASSUME NEW b \in DOMAIN batches, NEW id \in Id, NEW e \in Event, HandlerEmits(b, id, e)
         PROVE  OutputsInv'
    BY <1>1, <1>10, EmitOutputs
  <1> QED BY <1>2, <1>4, <1>5, <1>7, <1>8, <1>9, <1>10 DEF Next, ClientOf

LEMMA OutputsInit == Init => OutputsInv
  <1> SUFFICES ASSUME Init PROVE OutputsInv
    OBVIOUS
  <1>1. /\ \A id \in Id : output[id].got = <<>> /\ emitted[id] = <<>> /\ handler[id] = "none"
        /\ batches = <<>> /\ streams.open = {}
    BY DEF Init, NewStream, NoStreams
  <1>2. DOMAIN batches = {} /\ Len(<<>>) = 0
    BY <1>1
  <1>3. \A id \in Id : Begins(output[id].got, emitted[id])
    BY <1>1, <1>2 DEF Begins
  <1> QED BY <1>1, <1>2, <1>3 DEF OutputsInv, EmittedInv, QuietInv, FollowsInv, Fits, DecoderInv, Decoded

\* However a response is cut into chunks, and whichever other requests share its
\* post, an output gets what its own handler emitted, in order and without gaps,
\* until it is closed; or it gets the error of a post that failed and nothing else.
THEOREM OutputsFollowHandlers == Spec => []OutputFollowsHandler
  <1>1. PostsTyped /\ StreamsTyped /\ OutputsInv => OutputFollowsHandler
    <2> SUFFICES ASSUME PostsTyped, StreamsTyped, OutputsInv, NEW id \in Id
                 PROVE  \/ IsPrefix(output[id].got, emitted[id])
                        \/ /\ output[id].got # <<>> /\ Last(output[id].got) = Close
                           /\ IsPrefix(Front(output[id].got), emitted[id])
                        \/ IsPrefix(output[id].got, <<Error, Close>>)
      BY DEF OutputFollowsHandler
    <2> DEFINE E == Event \cup {Error}
               got == output[id].got
               em == emitted[id]
               failed == <<Error, Close>>
               front == Front(got)
    <2>1. got \in Seq(E) /\ em \in Seq(Event) /\ Fits(got, em)
      BY DEF PostsTyped, StreamsTyped, Outputs, OutputsInv, FollowsInv
    <2>2. em \in Seq(E) /\ failed \in Seq(E)
      <3>1. em \in [1..Len(em) -> E] /\ Len(em) \in Nat
        BY <2>1, LenProperties, ElementOfSeq
      <3>2. em \in Seq(E)
        BY <3>1, SeqDef
      <3> QED BY <3>2, CloseEvents
    <2> HIDE DEF E, got, em, failed
    <2>3. CASE Begins(got, em)
      <3>1. IsPrefix(got, em)
        BY <2>1, <2>2, <2>3, PrefixOf DEF Begins
      <3> QED BY <3>1 DEF got, em
    <2>4. CASE Begins(got, failed)
      <3>1. IsPrefix(got, failed)
        BY <2>1, <2>2, <2>4, PrefixOf DEF Begins
      <3> QED BY <3>1 DEF got, failed
    <2>5. CASE /\ got # <<>> /\ got[Len(got)] = Close
               /\ Len(got) - 1 <= Len(em) /\ \A i \in 1..Len(got) - 1 : got[i] = em[i]
      <3>1. Len(got) \in Nat /\ Len(got) # 0 /\ \A i \in 1..Len(got) : got[i] \in E
        BY <2>1, <2>5, EmptySeq, LenProperties, ElementOfSeq
      <3>2. /\ front \in Seq(E) /\ Len(front) = Len(got) - 1
            /\ \A i \in 1..Len(got) - 1 : front[i] = got[i]
        <4> DEFINE n == Len(got) - 1
        <4>1. n \in Nat /\ \A i \in 1..n : i \in 1..Len(got)
          BY <3>1
        <4>2. front = SubSeq(got, 1, n)
          BY DEF Front
        <4> HIDE DEF n, front
        <4>3. \A i \in 1..n : got[i] \in E
          BY <3>1, <4>1
        <4>4. /\ SubSeq(got, 1, n) \in Seq(E)
              /\ Len(SubSeq(got, 1, n)) = IF 1 <= n THEN n - 1 + 1 ELSE 0
              /\ \A i \in 1..n - 1 + 1 : SubSeq(got, 1, n)[i] = got[1 + i - 1]
          <5>1. \A i \in 1..n : got[i] \in E
            BY <4>3
          <5>2. SubSeq(got, 1, n) \in Seq(E)
            BY <4>1, <5>1, SubSeqProperties
          <5>3. Len(SubSeq(got, 1, n)) = IF 1 <= n THEN n - 1 + 1 ELSE 0
            BY <4>1, <5>1, SubSeqProperties
          <5>4. \A i \in 1..n - 1 + 1 : SubSeq(got, 1, n)[i] = got[1 + i - 1]
            BY <4>1, <5>1, SubSeqProperties
          <5> QED BY <5>2, <5>3, <5>4
        <4>5. \A i \in 1..n : 1 + i - 1 = i /\ i \in 1..n - 1 + 1
          BY <4>1
        <4>6. Len(front) = n /\ \A i \in 1..n : front[i] = got[i]
          BY <4>1, <4>2, <4>4, <4>5
        <4> QED BY <4>2, <4>4, <4>6 DEF n
      <3> HIDE DEF front
      <3>3. IsPrefix(front, em)
        <4>1. Len(front) <= Len(em) /\ \A i \in 1..Len(front) : front[i] = em[i]
          BY <2>5, <3>2
        <4> QED BY <2>2, <3>2, <4>1, PrefixOf
      <3>4. Last(got) = Close
        BY <2>5 DEF Last
      <3> QED BY <2>5, <3>3, <3>4 DEF got, em, front
    <2> QED BY <2>1, <2>3, <2>4, <2>5 DEF Fits, failed
  <1> QED BY <1>1, PostsTypedInit, PostsTypedStep, StreamsTypedInit, StreamsTypedStep, HttpInit, HttpStep,
            OutputsInit, OutputsStep, PTL DEF Spec

=============================================================================
