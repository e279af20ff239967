# Verification of rqe

rqe is a TypeScript library of in-memory tables, a query parser and planner, and
streams that carry results between them, between processes and to user
interfaces.  This directory holds TLA+ models of its core, the TLC runs that
check them, and proofs checked by TLAPS.  Paths are relative to `src/src/rqe/`.

The program is single-threaded JavaScript.  What is hard in it is not
parallelism but callbacks that call back into the object that is calling them,
events that arrive between two asynchronous steps, exceptions that leave an
operation half done, and sockets that go away.

## 1. The system

| Component | State | Operations | Talks to |
| --- | --- | --- | --- |
| `Stream.ts` | receiver, backlog, two close flags | `receive`, `sendTo`, `takeBacklog`, `closeByDownstream`, wrappers (`promiseItems`, `wait`, iterator, `transform`) | everything: results are streams |
| `validation/StreamProtocolValidator.ts` | done and close seen | `check` | one per stream of an ActiveStreamSet |
| `remote/ActiveStreamSet.ts` | open streams and validators by id, ids closed | `startStream`, `addStream`, `receiveMessage`, `closeStream`, `closeAll` | WebSocketClient, MessagePort, HttpClient |
| `remote/WebSocketClient.ts` | socket, queue, two stream sets | `sendRequest`, `close`, socket events | socket, handlers |
| `remote/MessagePort.ts` | two stream sets | `sendRequest`, `close`, port messages | port, handlers |
| `remote/DurableWebSocketClient.ts` | connection, table of attempts, timer | `tryReconnect`, `sendRequest`, `close` | WebSocketClient, timers |
| `remote/HttpClient.ts`, `node/server/HttpServer.ts` | queue, timer, stream set; open requests of a post | `sendRequest`, flush, chunks | fetch, handlers |
| `cache/FunctionCache.ts`, `cache/CacheItemHandle.ts` | items by key, listeners, reference counts; handles | `getItem`, `refreshItem`, `listenToItem`, `refresh`, `startListening`, `close` | Table, Stream, handlers, readers |
| `cache/InProgressStreamCache.ts` | events, listeners | `addListener`, `receive` | streams |
| `table/` | indexes, auto ids, listeners, status | `insert`, `preInsert`, `update`, `delete_with_`, `deleteAll`, `replaceAll`, `listen`, `diff`, `listenToStream`, `waitForData` | Stream, cache, attempts |
| `handler/`, `query/`, `graph/`, `task/` | handlers, plans | match a query, plan it, run it, adapt a native callback's result | Table, Stream |
| `utils/` | per helper | `joinStreams`, `streamingAggregate`, `Debounce`, `RecurringCallback`, `splitJson`, `MultiMap` | streams, timers |
| `lexer/`, `parser/` | none | text to queries | query |
| `node/`, `repl/`, `testing/`, `csv/` | processes, files, console | I/O and layout | operating system |

What makes each part correct:

* Stream: an event is handed over once, to one consumer, in order; it is lost
  only when somebody closed the stream or a consumer failed; nothing arrives
  after the consumer has stopped.
* A bridge (ActiveStreamSet and its users): the output of a request is a prefix
  of what its own handler emitted, and it is closed in the end whatever happens
  to the connection.
* FunctionCache: one handler run serves all handles of a key, the item lives as
  long as somebody listens, and a reader sees exactly the current item's events.
* Table: all indexes hold the same items, listeners can follow them; one that a
  stream fills has the stream's items, and a loading status ends for those who wait.
* Durable client: it retries while it may and one connection is open at a time.
* Lexer and parser: tokens tile the text, brackets pair, a query keeps the words of
  its text, and a printed handler parses to itself.
* Query: a callback gets the values its declaration requires, and its result, in the
  shape the query asks for, comes to the caller once, in order and to an end.

## 2. Modules

| Module | Models | Checked by | Proofs |
| --- | --- | --- | --- |
| `Stream` | one Stream with every nesting of callbacks | `stream` | `Stream_proofs` |
| `EventChannel` | abstract: a FIFO queue with one consumer | | |
| `StreamChannel` | a Stream with disciplined callers, mapped to EventChannel | `stream_channel` | `Stream_proofs` |
| `ActiveStreamSet` | the set, and streams seen from outside, as records with operators | through the two modules below | |
| `WebSocketBridge` | a connection at each end of a socket that can drop, or of a port | `websocket_bridge` | `WebSocketBridge_proofs` |
| `HttpExchange` | an HttpClient, its posts and the server that answers them | `http`, `http_complete` | `HttpExchange_proofs` |
| `DurableClient` | attempts, timers and sockets of a client that reconnects | `durable_client` | `DurableClient_proofs` |
| `FunctionCache` | cache, items, delivery loops and handles | `function_cache`, `cache_delete` | `FunctionCache_proofs` |
| `SeqFilter` | `array.filter()` with a set for its test | through the modules that filter | `NumberLemmas` |
| `TableIndexes` | the indexes of a table and the loops over them, as operators | through the two modules below | `Table_proofs` |
| `Table` | tables with several indexes and a listener | `table` | `Table_proofs` |
| `StreamToTable` | a table that streams fill, its status, and who listens to that | `stream_to_table` | `Table_proofs` |
| `Lexer` | text to tokens, as operators | through the modules below | |
| `LexedText` | a text that grows piece by piece, and its tokens | through `QueryText` | `Query_proofs` |
| `QueryTree` | what a parsed query is | through the modules below | |
| `QueryParser` | tokens to queries and handlers, and a handler back to text | through the two modules below: `MCGraphQuery` makes its queries with it | |
| `QueryText` | what both parsers make of a `LexedText` | `query_text` | |
| `GraphQuery` | exposed functions, one query, and the streams from a callback to the reader | `query` | `Query_proofs` |

`MCStream`, `MCFunctionCache`, `MCStreamToTable`, `MCQueryText` and `MCGraphQuery` give
constants and symmetry sets to TLC.  `NumberLemmas` holds lemmas several proofs need:
least numbers, iterated steps, prefixes, `SeqFilter`.
Definitions marked `Mutant` are wrong versions of the definition that follows
them; nothing refers to them.  They record the mistake the properties are there
to find.

### Stream

`receiver`, `closedByUpstream`, `closedByDownstream` and `backlog` are the fields;
`hasBacklog` is FALSE after `delete this.backlog`.  A call that hands an event to
a receiver does not return until the callback has, so `receive` and `sendTo` are
split where they call it: the action before the callback pushes a frame onto
`stack`, and `CallbackReturns`, `CallbackStops` (the callback threw
`BackpressureStop`) and `CallbackThrows` pop it and go on.  Every other action is
a call made by the caller or, when `stack` is not empty and the call is in
`Reentrant`, by the running callback.  A `sendTo` frame carries the part of the
captured backlog that is still to be sent.  `accepted`, `handed`, `lost`, `late` and
`receiverFailed` are history.  The v1 `done` event of `receive` is two calls of it
and needs no action.

`EventChannel` is what users of a stream count on.  `StreamChannel` restricts the
callers as `StreamProtocolValidator` and the code's own use do (no receive from
inside the callback it feeds, nothing after close; `Disciplined`) and maps the fields: what is
pending is the rest of the loop followed by the backlog.

### The bridge

An `ActiveStreamSet` is a record of three sets of ids; the streams themselves are
in `WebSocketBridge`, as the two flags and the events their reader got.  The two
sides run the same class; the model gives the client the requests and the server
the handler, as the applications do.  The socket delivers in order and stops
delivering when the receiving end closes; it may close at either end at any
time, each end learns of it by its own action, and `close()` at the client
precedes the close event.  A handler may emit anything, also after `done`.
`Unserializable` requests make `JSON.stringify` throw.

`transport` is fixed by `Init`: the same two ends may be `MessagePort`s.  A port is
open at once and has no queue; `close()` only takes the listener off
(`ClientClosesPort`, `ServerClosesPort`), so that the streams of both ends stay open,
requests are still posted and handlers still answer, to nobody.  What
`receiveMessage` throws out of a socket's listener, a port's logs: both are `errors`.

### HTTP

A post is a record of `batches`: the client's view of it (`fetch`, `body`, `buffer`), the
server's (`arrived`, `handled`, `openRequests`, `ended`), and `wire` between them.  An
event is written as one JSON text; a text is two halves, so that a chunk, which ends
anywhere, may end inside one.  `Whole` and `Remaining` are `splitJson`, `Buffers` what
`JsonMessageDecoder` keeps: a completed message leaves its first part in the
buffer, and a text behind that stale part is never recognised.  Whether the decoder
then keeps all of it or throws depends on the characters, so both are allowed.
`ReadChunk`, `ReadDone` and `ReadFails` are the browser's reader; `Readable` is Node's
`readable` event, after which the client closes the outputs at once.  A chunk is
decoded and received in one step, as in the code.  Handlers keep the stream protocol;
the bridge covers those that do not.

### The durable client

Time is kept as the ages of attempts and what is left of timers, in units of 500 ms,
the unit of all the delays; so there is no clock and no bound on time, and ages stop
once they are beyond `Window`.  A timer fires within its unit, before or after
whatever else happens in it (in the code up to 10 ms count as due).  `strays` are timers
that `reconnectTimer` no longer refers to: `tryReconnect` sets a timer of 0 ms also
when it has just reconnected, and a socket that drops before that fires makes it a
stray, which from then on runs beside the named one.  `_reconnect` inserts an attempt
whether `getSocket` throws or not.

### FunctionCache

Items, listeners and handles are records in `objects`, and a call is an operator
from one value of `objects` to the next, so that calls made of calls compose and
those that throw half-way return what they had done.  `delivery` is the loop over
`item.listeners`, in the receiver of the result stream or in `refreshItem`; it
takes a turn per step, and while a reader runs inside it the reader may call any
handle.  `seen` is what a reader got since the last `restart`.

### Table

Indexes (`TableIndexes`) are functions from keys to sets of items.  The operators `Stored`
and `Removed` are the loops of `insert` and `deleteWithAttr`; `reserved` holds the ids
`preInsert` gave to items a caller has yet to insert; `replica` is a listener that
applies the events.  Callers respect the attributes of map indexes other than the
automatic id, as the documentation asks ("Implies (but doesn't require)").

### StreamToTable

`t` is everything a call may change: the indexes of `TableIndexes`, the status, the listeners of the
status in their order, and the input streams.  A call is an operator from one `t` to
the next with the exception it throws in `threw`; listeners and receivers run inside
it, as in the code, so the order in which an event reaches the table, the status and
each listener is the order of the operators.  `Round` and `Flushed` are the loops of
`sendToListeners` and `sendTo`.  The status is one of `none` (the `{}` it
starts with), `loading`, `done`, `error` and `null`.  A waiter is a caller of
`waitForData`; `observed` is what a callback of `listenToValueChange` was told last.
Streams may hold a backlog before the table listens, be listened to twice, end, fail,
restart, or be stopped when they are done.

### Text

A character stands for its class: every member of `Word` is a run of letters, and what
the lexer tells apart (digits, quotes, the backslash, newlines, punctuation) are
characters of their own.  `Lexer` and `QueryParser` follow the code function by
function; a parse returns the position after it, or `Failed` where the code throws.
`LexedText` grows a text from the pieces of one alphabet and has its tokens; `QueryText`
adds what it is as a query and as a declaration.  `Word` is disjoint from the other
characters (`WordAssumption`): a character has one class.

### Query

`c` is the chain of streams from the callback's own (`source`) through `result`, `task`
(the reshaping filter) and `output` to the reader.  `Receive` and `SendTo` are
those of `Stream`, for streams that feed each other: a put at one end runs to the
reader before it returns, and the exception, if any, is in `thrown`; a
`BackpressureStop` stops each stream it passes.  `ReceiveWith` is `receive`, given what the
receiver does; `ToOutput`, `ToTask`, `ToResult` and `ToSource` are the four streams, each
with the next for its receiver.  `PutAll` and `Flushed` are calls in a row and the loop of
`sendTo`: an exception ends both.  `Resolve`, `CallbackToStream` and
`CatchRejection` are `NativeCallback.ts`; `made` is what the result stands for.  An item
is its set of attributes, and the filter says for each attribute it fills where the
value comes from: the item, the query or nowhere.

## 3. Runs

| Run | Shows | Bounds, and why they are enough |
| --- | --- | --- |
| `stream` | `EachEventOnce`, `OvertakesOnlyDuringFlush`, `NothingLostWhileOpen` for callers who do anything | 5 events, 4 nested callbacks, 2 receivers: a backlog of three, a nested loop, and events on both sides of each close |
| `stream_channel` | refinement of `EventChannel` with its liveness; `OneReceiver` | 5 events; disciplined callers never nest more than one callback |
| `websocket_bridge` | `OutputFollowsHandler`, `ErrorsExplained`, `NoOutputOpenAfterClose`, `RequestSettles` | sockets and ports; 3 requests, one that cannot be serialized between two that can; per handler one item, done and close in any order |
| `http` | `OutputFollowsHandler`, `ResponseEndsLast`, `RequestSettles` | 2 requests in one post or two, 2 events per handler, both kinds of body: messages of two handlers alternate on the wire, a cut falls inside the first of them, posts overlap |
| `http_complete` | violation: events after a cut message never arrive | as above, reader only |
| `durable_client` | `OneSocket`, `FiveInWindow`, `StopsOnlyWhen`, `Reconnects` | a Window of 16 s, so that five attempts the longest delay apart are within it, as in the code; 2 stray timers (more come only from more sockets that drop at once) |
| `function_cache` | `RefsCountUsers`, `ViewFollowsItem` | 2 handles, a key with and one without handler, 2 items, 3 listeners, 1 event and its close, 1 refresh: an item outlived by a handle, a replaced item, a listener added in a delivery |
| `cache_delete` | violation: an item in use is deleted by key | as above |
| `table` | `IndexesAgree`, `ReplicaFollows` | ids, names and groups 1..3: three items, two in one group |
| `stream_to_table` | `ContentsFollow`, `ObserverFollows`, `WaitersSettle` | 2 streams, 2 events before their close events, 3 items (two of a group, one under the id of another), a waiter and an observer: a backlog of two events and a close, a stream that overtakes another, a listener that closes before the next |
| `query_text` | `TokensTile`, `BracketsPair`, `ParseKeepsWords`, `ThrowsInBrackets`, `HandlerRoundTrips` | every text of up to 5 pieces of each of five alphabets: operators and newlines, quotes and brackets, tags and bars, the special forms, values |
| `query` | `ArgsGiven`, `ItemsAnswerQuery`, `ResultDelivered`, `ExceptionsExplained`, `QuerySettles` | up to 2 handlers, 8 queries, every kind of result, at once or from a promise; 2 events put later besides those put before and the close: an item after done, a stop between two events |

The passing runs check for deadlock except `websocket_bridge`, `http`, `query`,
`query_text` and `stream_to_table`, where everything may have been said.  In the others
some call is always possible, or time passes.  Symmetry is used over receivers and handles, in runs without liveness.

### Fairness

`StreamChannel` assumes that a callback ends (`WF(CallbackEnds)`): it is a
synchronous function.  `WebSocketBridge` assumes weak fairness of the socket
(connecting succeeds or fails, a message that can arrive does, a closing socket
gets its close event) and of handlers, which close their stream in the end.
`HttpExchange` assumes that the flush timer fires, that a post that does not fail is
answered and its response read, and the same of handlers; `ReadFails` may still happen
at any time, and then nothing is promised.  `DurableClient` assumes that time passes
and due timers fire; sockets may fail for ever.  `GraphQuery` assumes that the promise of
a callback settles and that a stream it returned is closed in the end, and
`StreamToTable` that the producers of its streams close them: a handler that never ends
keeps its callers waiting in the code too.
Nothing is assumed of those who read.

### What the violations say, and what else the checks met

* `HttpClient.ts:39` (run `http_complete`): the buffer of the decoder is set and never
  cleared, so a message cut in two costs the response everything after the chunk that
  completes it.
* `FunctionCache.ts:63` (run `cache_delete`) deletes by key.  A handle of an item that was
  replaced deletes the replacement when it lets go.

The passing runs describe the rest as the code does it; their properties name what they
excuse.

* `ActiveStreamSet.ts:68` tests `backpressure_stop`; `Stream.ts:500` sets
  `is_backpressure_stop`.  Streams whose reader stopped stay in the set.
* `MessagePort.ts:116`: after `close()` at either end no output of a port ends
  (the last disjunct of `RequestSettles`).
* `FunctionCache.ts:227` drops closed listeners, and a handler's `close` closes
  all of them.  `refreshItem` then reaches no handle.
* `DurableWebSocketClient.ts:55`: when `getSocket` throws on a first attempt no timer is
  set (the second disjunct of `StopsOnlyWhen`); the comment of line 97 has the client
  give up after five.  Timers that lost their name pile up, harmlessly but for good.
* `RuntimeFunctions.ts:12` does not move the automatic id past an explicit one: with
  `ExplicitIds = TRUE` TLC refutes `IndexesAgree`.
* `streamToTable.ts:67`: a `delete` event throws to the producer, because no table has
  `delete`.  Line 96: after a restart the status is `null`, and a waiter's `isLoading`
  throws on it before later listeners hear of it.
* `streamToTable.ts:64` inserts an item under a known id without removing the old one
  from the multimap indexes.
* `streamToTable.ts:23` sets the status before `sendTo` may throw.  Line 42 closes the
  input inside a flush: events behind `done` in its backlog become a TypeError.
* `StatusTable.ts:51`: `waitForData` on a table that is loaded already waits for ever.
* `parseQueryTag.ts:97`: a value ends at an integer, `x=1.5` is `x=1.` and a tag `5`.
  `parseQuery.ts:62`: `wait 5` loses its duration.  An unclosed quote loses its last
  character.  Text behind a `)` that nothing opened is not read.
* `Context.ts:104` counts a token as a newline by its first character, so that columns
  are wrong behind a quoted string with a newline in it.
* `executePlan.ts:131` looks a `Map` up as an object: a required parameter is missing
  even when it was given.  Lines 124 and 132 end with `done` and never close the output.
* `QueryPlan.ts` and `Query.ts`: `Graph.query` throws on a query of several steps, and on
  `$input` (`Plannable`).
* `NativeCallback.ts:93`: a `BackpressureStop` thrown at once leaves the stream open for
  ever (`StoppedAtOnce`).  Line 62: after the reader has stopped `catch()` itself throws.
  A table, which line 13 promises to send, throws at `output.t`.
* `Stream.ts:246`: an item after `done` is a TypeError in `promiseItems`.

## 4. Proofs

All bounds and sets are arbitrary in the proofs; the assumptions are the `ASSUME`s
of the modules, and `Disciplined` where a theorem names it.

* `TypeCorrect` (Stream): `Spec => []TypeOK`.  `TypeOK` is inductive.  It is split
  into flags and data because Boolean membership and sequences need different
  provers.
* `NothingLost` (Stream): `Spec => []NothingLostWhileOpen`.  The inductive invariant
  `LossInv` adds why it holds: a stream that has had a receiver (its backlog is
  deleted, or a callback is running) and has none now was closed by one side, so
  `receive` always finds a receiver or a backlog and the flush loop a receiver.
* `NothingTwiceOrMislaid` and `OvertakersAreLate` (Stream): `Spec => []EachEventOnce` and
  `Spec => []OvertakesOnlyDuringFlush`.  `PlacesInv` says where every accepted event is:
  handed over, lost, or waiting in the backlog or in the rest of a loop that is under
  way at some depth of `stack`.  Each loop is increasing; it holds older events than the
  loops of the calls made inside it and than the backlog, and what those hold is in `late`;
  so is an event handed over before one that waits.  Events are compared through the frames of `stack`, so the lemmas
  speak of pushing, popping and shortening a frame.
* `ImplementsChannelSafety` (StreamChannel), of a stream that is `Disciplined`: the initial state maps to
  `Channel!CInit` and each step to a step of `EventChannel` or a stutter.  It needs
  `TypeOK`, `LossInv` and `DisciplineInv`: at most one call is waiting, the backlog is
  empty while one waits, and the receiver goes away under a waiting call only when
  the consumer stops.
* `ReceiversNeverShare` (StreamChannel), likewise: `Spec => []OneReceiver`.  `OneReceiver` is not
  inductive: a closed stream forgets its receiver, and `sendTo` sets another.  `ReceiverInv`
  adds that nothing waits in the backlog once a receiver has had an event, and that the
  receiver a waiting loop goes on with is the one it began with.

* `TableIndexesAgree`, `ListenerFollows`, `TableTypeCorrect` (Table), for every schema, if
  `ExplicitIds` is FALSE: `Spec => []IndexesAgree` and so on.  The inductive invariant
  `TableInv` adds what the loops of `insert` and `deleteWithAttr` rely on: items are under
  their own keys, a map index has one item per key, and (`IdsNumbered`) every id in the
  table or reserved by `preInsert` is below `next` and no id is in both.  Without
  `IdsNumbered` the next automatic id might be taken, as it is with `ExplicitIds`.
  The lemmas `StoredAgrees`, `RemovedAgrees` and `ReplacedAgree` are about the loops
  alone: they keep agreeing indexes in agreement, whatever the table did before.

* `TableHoldsStream`, `StatusObserved`, `FeedTypeCorrect` (StreamToTable), for every
  schema and any streams, items and waiters: `FeedSpec => []ContentsFollow`,
  `FeedSpec => []ObserverFollows` and `FeedSpec => []FeedTypeOK` (which no run checks).  `ContentsFollow` speaks of
  all that was put since the last restart, and is not inductive: whether a table holds it
  depends on every event on the way.  `Holds(events, n, ix)` says it of the first n events,
  and `HoldsNext` that one event more, with the indexes it leaves (`AfterEvent`), keeps it.
  `FlushedDoes` follows this through the loop of `sendTo` over the backlog, whose events are
  all that was put (`FeedTypeOK`), `PutReceivedKeeps` through a put that goes straight to
  the table.  Two items under one unique key make its premise false; a restart makes it
  true again, and leaves an empty table.
  `FeedInv` has besides that a table nobody feeds is empty, and of the status that the
  observer is among the listeners: a round of any length tells it (`RoundTells`) unless a
  waiter throws in the middle, which it does on a status of `null` only; so setting
  `loading` cannot throw (`SetStatusHears`), and an event that throws has failed its
  producer or its `listenToStream`.

* `ClientHasOneSocket` (DurableClient): `Spec => []OneSocket`.  `OneSocket` is inductive
  with the types of its variables: `TryReconnectOpens` says that `tryReconnect` opens a
  socket only where there is no connection and nothing after `close`, so it does not
  matter which timer called it.
* `ClientTypeCorrect`, `AtMostFiveInWindow`, `GivesUpOnlyThen` (DurableClient), for every
  `Window` of at least 8 units: `TypeOK`, `FiveInWindow` and `StopsOnlyWhen`.  The
  invariant `Few` bounds the rows of the attempts by five: each attempt is made after
  `Recent` has left fewer than five, and ages only grow.  `StopsOnlyWhen` is an action
  property and follows from the same case split of `TryReconnect`.

* `BridgeTypeCorrect`, `OutputsFollowHandlers`, `ErrorsHaveCauses`, `NothingLeftOpen`
  (WebSocketBridge), over sockets and ports and for any requests, those that cannot be
  serialized included.  `BridgeInv` has five parts.  `RequestsInv`: a request waits in one
  queue, once, and only before its handler runs.  `HandlersInv`: a handler's events have
  one `done` and end with `close`.  `StreamsInv`: an output is in the client's set until it
  is closed.  `FlowInv`: there is a number of events per handler that have arrived, and a
  position for each message on the way, such that the messages are the handler's events
  beyond those that arrived, each once and in order; the output has the first of what
  arrived, up to its close or to an event after `done`.  `ErrorsInv`: an error has a cause that lasts.
  `FlowInv` quantifies over these numbers, because the state does not hold them; each step
  names the new ones.

* `ExchangeTypeCorrect`, `ResponsesEndLast`, `OutputsFollowHandlers` (HttpExchange), for any
  number of requests and posts.  `HttpInv` says that a request is queued once or posted
  once, and that `openRequests` are the requests of the post whose handlers have not ended,
  whether their turn in the loop has come or not.  `OutputsInv` is about the decoder.  It is
  in one of two states.  In place (`InPlace`), buffer and wire together spell whole texts
  of different events, and an output that is open and has a reader has what it got plus its
  events among those: all its handler emitted.  Out of place (`OutOfPlace`), the buffer begins with a
  first half whose second half has been read and, as no handler emits an event twice, never
  comes again: no text is complete, so nothing is received.  `ChunkInPlace` shows that a
  chunk cut anywhere leads from the first state to itself or to the second, and
  `ChunkMisplaced` that the second stays.  So what `http_complete` shows to be lost is all
  that goes wrong: never a wrong event, nor one after a gap.

* `CacheTypeCorrect`, `RefsCounted` (FunctionCache), for any handles, keys and
  re-entrant calls: `Spec => []TypeOK` and `Spec => []RefsCountUsers`.  Calls are operators on
  `objects`, so the lemmas (`GetItemGood`, `CloseListenerGood`, `OpenListenerGood`,
  `MoveToGood`, ...) say of each that it keeps `Good`: the types, the counts, and that a
  handle that listens has a reader and an item.  A handle that throws half-way is between two such
  operators.  Delivering events, also those of `CatchUp`, changes nothing the counts
  depend on (`Alike`).
* `ViewsFollow` (FunctionCache): `Spec => []ViewFollowsItem`, for any handles and keys.
  `View` is inductive with the types and the counts, and has four parts.  `Owned`: a
  listener that is open is the one its handle has.  `Listed`: an item has each listener
  once, and the open ones are those of the handles at the item.  `Delivered`: the event
  being passed on is the last the item has had.  `Followed` says what a reader has seen
  at any moment of a loop over listeners: if the loop has yet to reach its listener,
  the reader needs just the event of the loop; otherwise it has seen all.  `View` keeps
  the two apart by the position of the listener in the list (`ToCome`).  A listener that
  joins while an event is passed on goes to the end of the list: it catches up with
  all events, the one of the loop included, and is reached by the loop too.  So `Passed`
  gives that event twice, as the code does; and after a `restart`, whose loop finds
  no events, the reader starts again with nothing.  Every lemma on a call
  (`ClosedView`, `JoinedView`, `PutView`, `MoveToView`, ...) is about any state and whatever
  loop is running, so a call from inside a loop and one from outside are one case.

* `QueryTypeCorrect`, `ResultsDelivered`, `ExceptionsHaveReasons`, `ArgumentsGiven`,
  `ItemsAnswer` (GraphQuery), for any handlers and queries, any results of callbacks and streams
  of any length: `TypeOK`, `ResultDelivered`, `ExceptionsExplained`, `ArgsGiven` and
  `ItemsAnswerQuery`.  None but `TypeOK` is inductive.  The invariant `Inv` has two parts.
  `FlowInv` is about the chain between two calls.  Either the reader has stopped, or
  `promiseItems` was given an item after `done`, or (`Smooth`) all is well: what the reader has
  and the backlog of `output` together are the schema and what the filter shows of `made`,
  and while a producer may still put, all its streams are open and lead to the reader.  `Waiting` is
  the chain of a promise that has not settled, to which nothing was put.  A put runs through four streams and
  may come back as an exception through as many, so the lemmas go stream by stream: what each
  does with an event (`Took`), or how it fails (`Overrun`).  `PutAll` and `Flushed` are loops of any
  length, each with lemmas about rows of calls: one that succeeds takes all events in
  order (`AllTook`), one that breaks off does so for a reader that stopped or for an item after
  `done`.  `CallbackReturns` and `PromiseSettled` say of every kind of result, at once or from a
  promise, that it ends in one of the three.
  `MatchInv` is about the plan: the handler that runs was exposed and matches, no parameter is
  missing, and shape and arguments are those of the plan.  `ArgumentsGiven` and `ItemsAnswer`
  follow from it and from what `Matches`, `OutputShape` and `FixedItem` do (`ShapeOf`,
  `LastTag`): it takes both the match and the check for parameters to give every required value.

* `TokensCoverText`, `BracketsMatch` (LexedText), for any letters, pieces and lengths of texts:
  `TokensTile` and `BracketsPair`.  They are about what one call of `tokenizeString` computes, so
  the invariant that matters is that of its loop, on the lexer's context between two
  tokens.  `Tiled`: the tokens so far are in their places, the last ends at `index`, and, as
  long as no quoted string had a newline in it, `line` and `column` are those of `index`.
  `Nested`: pairs are as `BracketsPair` says, and the stack has, in rising order, exactly the
  opening brackets that have no pair, so a right bracket, which looks at the last of them only,
  has nothing open between itself and the one it closes.  `ConsumeNextLexed` says what any
  scanner may return: one character, or several without a newline, or a quoted string, alone
  in reaching one character beyond the text (`QuotedEnds`, by iteration over the loop of
  `consumeQuotedString`).  `NestedKept` and `TiledKept` are the step; `TokenizeGoes` runs the loop
  and shows that it reaches the end: every pass moves `index`, which the code only asserts
  ("lexer stalled").

Some notes on technique.  Nothing in the library gives induction over numbers without an
operator parameter, so `NumberLemmas` derives it from a well-founded order on finite sets:
a set of numbers has a least member (`MinOfNumbers`), so a set that holds 0 and the
successors of its members holds all (`AllNumbers`).  From this come `StaysIn`, for what
each step of a loop preserves, and `IterationExists`: the recursive function of a loop,
a `CHOOSE` in TLA+, exists and satisfies its equation.  Filters are `SeqFilter!Kept`, a recursive function,
rather than `SelectSeq`, whose test is an operator; `KeptUnfolds` and the lemmas below
it say what a filter returns for a sequence, for two in a row and when nothing passes.

Only model-checked: what the parsers make of a text (`ParseKeepsWords`, `ThrowsInBrackets`,
`HandlerRoundTrips`).  These speak of what `QueryParser` computes, RECURSIVE operators (a nested
query is parsed by the parser that calls for it), and hold by induction over the text;
neither is in reach of the prover.
Liveness (the fairness part of `ImplementsChannel`, `RequestSettles`, `Reconnects`,
`QuerySettles`, `WaitersSettle`) is out of the prover's reach.

## 5. Not modelled

* `expire_at`: the code never sets it to anything but 0.
* `listenOnce`: no caller; it pushes an object that is not a stream and the next
  event throws.
* Deliveries inside deliveries (a reader that calls `refreshItem`, a handler driven
  by a reader).
* list indexes, `single_value` ones but for a status, `update` (it throws on tables with
  a multimap or, by attribute, with more than one index), `diffTables`, reads of tables
  (`has` on a multimap answers true after the last item of a key was deleted).
* Posts answered with status 400, the reader's limit of a million chunks.
* Comments and the other lexer settings no parser turns on (an unterminated block
  comment would loop).
* Queries of several steps and verbs other than a handler's, which `Graph.query` cannot
  run; graph tables.
* `joinStreams`, `streamingAggregate`, `streamingTransform`, `InProgressStreamCache`,
  `Debounce`, `RecurringCallback`, `wrapStreamInValidator`: no module of the repository uses them.
* The other receivers of `Stream.ts` (`collectEvents`, `wait`, the iterators, `transform`).
* Status callbacks, logging, the text of messages; files, processes, console.

## 6. Plan

What is left, in this order:

1. The other receivers of `Stream.ts`, above all the asynchronous iterator, whose reader
   runs between events.
2. `diffTables`, and the reads of tables against `ItemsOf`.
