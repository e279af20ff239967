----------------------------- MODULE GraphQuery -----------------------------
(***************************************************************************)
(* Graph.query(): find the handler a query asks for, plan, and connect what *)
(* the handler's callback returns to the stream the caller reads            *)
(* (src/rqe/graph, query, handler, task).                                   *)
(*                                                                          *)
(* Events flow source -> result -> task -> output -> reader: "source" is a  *)
(* stream the callback may return, "result" the stream                      *)
(* declaredFunctionToHandler() makes for it, "task" the reshaping filter    *)
(* and "output" the stream query() returns.  An item is the set of the      *)
(* attributes it has; the filter turns it into a function that says where   *)
(* the value of each attribute comes from.                                  *)
(***************************************************************************)
EXTENDS Naturals, FiniteSets, SequencesExt, FiniteSetsExt, SeqFilter, QueryTree

CONSTANTS
    Graphs,             \* the lists of handlers that get exposed, and their prefixes
    Queries,            \* what parseQuery() makes of the callers' queries
    Params,             \* the attributes a caller may pass parameters for
    Results,            \* what a callback may return, see Resolve
    Items,              \* the items a callback may put
    MaxEvents           \* bound: events the callback puts to a stream it returned

\* parseHandler() and parseQuery() make lists of tags; a tag that requires a
\* value is a parameter.
IsList(s) == s \in Seq(ToSet(s))
ASSUME GraphsAssumption ==
    /\ <<>> \in Graphs
    /\ \A hs \in Graphs : IsList(hs) /\ \A i \in DOMAIN hs :
        /\ IsList(hs[i])
        /\ \A j \in DOMAIN hs[i] : hs[i][j].requiresValue => hs[i][j].isParameter
ASSUME QueriesAssumption == \A q \in Queries : q.t = "query" => IsList(q.tags)

VARIABLES
    handlers,           \* Graph.eachHandler(): in the order they were exposed
    call,               \* the query and its plan
    promise,            \* "none", "pending" or "settled": the callback's promise
    c,                  \* the chain of streams and its reader
    producer,           \* what the last put to source threw
    unhandled,          \* what the catch() handler of the promise threw
    \* history
    args,               \* what the callback was called with
    made                \* the events the callback's result stands for

vars == <<handlers, call, promise, c, producer, unhandled, args, made>>

Item(item) == [t |-> "item", item |-> item]
Schema == [t |-> "schema"]
Done == [t |-> "done"]
Error == [t |-> "error"]
Close == [t |-> "close"]
Event == [t : {"item"}, item : Items] \cup [t : {"schema", "done", "error", "close"}]

\* A callback that has closed its stream puts nothing more to it.
ASSUME ResultsAssumption ==
    \A r \in Results :
        /\ r.t \in {"items", "stream", "taken", "table", "throws", "stops"}
        /\ r.t = "items" => r.items \in Seq(Items)
        /\ r.t = "stream" =>
            /\ r.before \in Seq(Event)
            /\ \A i \in DOMAIN r.before : r.before[i] = Close => i = Len(r.before)
ASSUME EventsAssumption == MaxEvents \in Nat

-----------------------------------------------------------------------------
\* FindMatch

HandlerTags(h, attr) == {h[i] : i \in {j \in DOMAIN h : h[j].attr = attr}}
HasAttr(h, attr) == HandlerTags(h, attr) # {}
RequiresValue(h, attr) == \E tag \in HandlerTags(h, attr) : tag.requiresValue

TagMatches(h, tag) == HasAttr(h, tag.attr) /\ (RequiresValue(h, tag.attr) => HasValue(tag))

\* A tag without an attribute is skipped; an optional one that the handler
\* does not match still counts as there for what the handler requires.
Named(q) == {i \in DOMAIN q.tags : q.tags[i].attr # <<>>}
UnusedOptionals(h, q) == {i \in Named(q) : q.tags[i].isAttrOptional /\ ~TagMatches(h, q.tags[i])}

Matches(h, q) ==
    /\ \A i \in Named(q) : TagMatches(h, q.tags[i]) \/ q.tags[i].isAttrOptional
    /\ \A j \in DOMAIN h : h[j].required => \E i \in Named(q) : q.tags[i].attr = h[j].attr

\* The first of those with the fewest unused optional tags, 0 if none matches.
MatchHandler(hs, q) ==
    LET unused(i) == Cardinality(UnusedOptionals(hs[i], q))
        matching == {i \in DOMAIN hs : Matches(hs[i], q)}
    IN  IF matching = {} THEN 0
        ELSE Min({i \in matching : \A j \in matching : unused(i) <= unused(j)})

-----------------------------------------------------------------------------
\* QueryPlan and executePlan

\* Otherwise createPlan() throws: no query or several steps, no verb, or the
\* join verb.
Plannable(node, params) ==
    /\ node.t = "query"
    /\ node.tags # <<>> /\ node.tags[1].attr # <<>>
    /\ <<"$input">> \notin params

\* Mutant: the planner relies on the match for required values.
MutantMissingParameter(h, q) == FALSE

\* Values are checked per tag, and looked up as `parameters[attr]' of a Map:
\* a parameter that is given is missing all the same.
MissingParameter(h, q) ==
    \E i \in DOMAIN q.tags : RequiresValue(h, q.tags[i].attr) /\ ~HasValue(q.tags[i])

\* The tags the handler knows.
ShownTags(h, q) == Kept(q.tags, {tag \in ToSet(q.tags) : HasAttr(h, tag.attr)})

\* Mutant: every attribute is read from the item.
MutantOutputShape(h, q) ==
    LET shown == ShownTags(h, q)
    IN  [i \in DOMAIN shown |-> [attr |-> shown[i].attr, t |-> "from_item"]]

OutputShape(h, q) ==
    LET shown == ShownTags(h, q)
    IN  [i \in DOMAIN shown |-> [attr |-> shown[i].attr,
                                 t |-> IF HasValue(shown[i]) THEN "constant" ELSE "from_item"]]

\* The last tag with an attribute decides, in fixedItem and in tagsByAttr.
LastWith(seq, attr) == seq[Max({i \in DOMAIN seq : seq[i].attr = attr})]
Attrs(seq) == {seq[i].attr : i \in DOMAIN seq}

FixedItem(shape, item) ==
    [attr \in Attrs(shape) |->
        CASE attr \in item -> "item"
          [] attr \notin item /\ LastWith(shape, attr).t = "constant" -> "query"
          [] attr \notin item /\ LastWith(shape, attr).t = "from_item" -> "null"]

UsesItem(shape, item) == \E i \in DOMAIN shape : shape[i].t = "from_item" /\ shape[i].attr \in item

\* The arguments: Task.getValue() looks at the parameters first.
ArgOf(q, params, attr) ==
    CASE attr \notin Attrs(q.tags) -> "null"
      [] attr \in Attrs(q.tags) /\ attr \in params -> "parameter"
      [] attr \in Attrs(q.tags) /\ attr \notin params ->
            IF HasValue(LastWith(q.tags, attr)) THEN "query" ELSE "null"

ArgsOf(h, q, params) ==
    [attr \in {h[i].attr : i \in {j \in DOMAIN h : h[j].isParameter}} |-> ArgOf(q, params, attr)]

-----------------------------------------------------------------------------
\* The streams.  Each operator returns the chain after a call, with what the
\* call threw: "stop" is BackpressureStop.

NewStream == [attached |-> FALSE, hasBacklog |-> TRUE, backlog |-> <<>>, up |-> FALSE, down |-> FALSE]

NewChain ==
    [source |-> NewStream, result |-> NewStream, task |-> NewStream, output |-> NewStream,
     shape |-> <<>>, reader |-> "none", ended |-> FALSE, got |-> <<>>, thrown |-> "none"]

Threw(chain, what) == [chain EXCEPT !.thrown = what]
Caught(chain) == Threw(chain, "none")

\* Mutant: closeByDownstream() keeps the receiver.
MutantClosedByDownstream(s) == [s EXCEPT !.down = TRUE, !.backlog = <<>>]

ClosedByDownstream(s) ==
    IF s.down THEN s ELSE [s EXCEPT !.down = TRUE, !.attached = FALSE, !.backlog = <<>>]

The(S) == CHOOSE x \in S : TRUE

\* Mutant: an error ends the list too.
MutantRead(chain, e) ==
    IF chain.reader = "items" /\ chain.ended /\ e.t = "item" THEN Threw(chain, "failed")
    ELSE [chain EXCEPT !.got = Append(@, e), !.ended = @ \/ e \in {Done, Error, Close}]

\* promiseItems() has no list any more once it has seen done or close.
Read(chain, e) ==
    IF chain.reader = "items" /\ chain.ended /\ e.t = "item" THEN Threw(chain, "failed")
    ELSE [chain EXCEPT !.got = Append(@, e), !.ended = @ \/ e \in {Done, Close}]

\* _sendToReceiver() stops the stream where the receiver throws a
\* BackpressureStop, and rethrows everything else.
AfterSend(chain, k) ==
    IF chain.thrown = "stop" THEN Caught([chain EXCEPT ![k] = ClosedByDownstream(@)]) ELSE chain

\* A stream that is closed lets go of its receiver.
AfterReceive(chain, k) ==
    IF chain.thrown = "none" /\ chain[k].up THEN [chain EXCEPT ![k].attached = FALSE] ELSE chain

\* receive() of a stream, and what its receiver does with the event.
ReceiveWith(chain, k, e, Deliver(_, _)) ==
    LET s == chain[k]
        marked == [chain EXCEPT ![k].up = s.up \/ e = Close]
    IN  CASE s.down -> Threw(chain, "stop")
          [] ~s.down /\ e = Close /\ s.up -> Threw(chain, "protocol")
          [] OTHER ->
                CASE s.attached -> The({AfterReceive(AfterSend(d, k), k) : d \in {Deliver(marked, e)}})
                  [] ~s.attached /\ s.hasBacklog -> [marked EXCEPT ![k].backlog = Append(@, e)]
                  [] ~s.attached /\ ~s.hasBacklog -> marked

ToOutput(chain, e) == ReceiveWith(chain, "output", e, Read)

\* The reshaping filter.
Reshaped(shape, e) == IF e.t = "item" THEN Item(FixedItem(shape, e.item)) ELSE e
Shows(shape, e) == e.t = "item" => UsesItem(shape, e.item)
Filter(chain, e) == IF Shows(chain.shape, e) THEN ToOutput(chain, Reshaped(chain.shape, e)) ELSE chain

ToTask(chain, e) == ReceiveWith(chain, "task", e, Filter)
ToResult(chain, e) == ReceiveWith(chain, "result", e, ToTask)
ToSource(chain, e) == ReceiveWith(chain, "source", e, ToResult)

Receive(chain, k, e) ==
    CASE k = "source" -> ToSource(chain, e)
      [] k = "result" -> ToResult(chain, e)
      [] k = "task" -> ToTask(chain, e)
      [] k = "output" -> ToOutput(chain, e)

Deliver(chain, k, e) ==
    CASE k = "source" -> ToResult(chain, e)
      [] k = "result" -> ToTask(chain, e)
      [] k = "output" -> Read(chain, e)

\* Calls of receive() in a row, until one throws.
PutNext(chain, k, e) == IF chain.thrown = "none" THEN Receive(chain, k, e) ELSE chain
PutAll(chain, k, events) ==
    LET after[n \in 0..Len(events)] ==
            IF n = 0 THEN chain ELSE PutNext(after[n - 1], k, events[n])
    IN  after[Len(events)]

Attached(s) == [s EXCEPT !.attached = TRUE, !.hasBacklog = FALSE, !.backlog = <<>>]

\* Mutant: sendTo() forgets the backlog.
MutantSendTo(chain, k) ==
    IF chain[k].attached THEN Threw(chain, "usage")
    ELSE [chain EXCEPT ![k] = Attached(@)]

\* The loop of sendTo() goes on when the stream has lost its receiver: the
\* next event is a TypeError.
HandOver(chain, k, e) ==
    CASE chain.thrown # "none" -> chain
      [] chain.thrown = "none" /\ ~chain[k].attached -> Threw(chain, "failed")
      [] chain.thrown = "none" /\ chain[k].attached ->
            The({AfterSend(d, k) : d \in {Deliver(chain, k, e)}})
Flushed(chain, k, events) ==
    LET after[n \in 0..Len(events)] ==
            IF n = 0 THEN chain ELSE HandOver(after[n - 1], k, events[n])
    IN  after[Len(events)]

SendTo(chain, k) ==
    IF chain[k].attached THEN Threw(chain, "usage")
    ELSE Flushed([chain EXCEPT ![k] = Attached(@)], k, chain[k].backlog)

-----------------------------------------------------------------------------
\* NativeCallback.  A result is a list of items ("items", also for nothing and
\* for one object), a stream ("stream", with the events that were put to it
\* before), a stream that has a receiver ("taken"), a table ("table": even
\* `output.t' throws), an exception ("throws"; "stops" is a BackpressureStop).

ListEvents(items) == [i \in DOMAIN items |-> Item(items[i])] \o <<Done, Close>>

Resolve(chain, result) ==
    CASE result.t = "items" -> PutAll(chain, "result", ListEvents(result.items))
      [] result.t = "stream" -> SendTo(chain, "source")
      [] result.t = "taken" -> Threw(chain, "usage")
      [] result.t = "table" -> Threw(chain, "failed")
      [] result.t = "throws" -> Threw(chain, "failed")
      [] result.t = "stops" -> Threw(chain, "stop")

\* The events a result stands for; those of a stream come from its producer.
EventsOf(result, awaited) ==
    CASE result.t = "items" -> ListEvents(result.items)
      [] result.t = "stream" -> result.before
      [] result.t \in {"taken", "table", "throws"} -> <<Error, Close>>
      [] result.t = "stops" -> IF awaited THEN <<Close>> ELSE <<>>

\* The callback itself fails within the callbackToStream() of result; what
\* resolveOutputToStream() throws there is caught in that of task.
AfterResolve(chain) ==
    IF chain.thrown = "none" THEN SendTo(chain, "result")
    ELSE PutAll(Caught(chain), "task", <<Error, Close>>)

CallbackToStream(chain, result) ==
    CASE result.t = "stops" -> SendTo(chain, "result")
      [] result.t = "throws" -> SendTo(PutAll(chain, "result", <<Error, Close>>), "result")
      [] OTHER -> The({AfterResolve(d) : d \in {Resolve(chain, result)}})

\* Mutant: a BackpressureStop is no error and needs nothing, as in CallbackToStream.
MutantCatchRejection(chain) ==
    IF chain.result.up \/ chain.thrown = "stop" THEN Caught(chain)
    ELSE PutAll(Caught(chain), "result", <<Error, Close>>)

\* catch() of the promise.
CatchRejection(chain) ==
    CASE chain.result.up -> Caught(chain)
      [] ~chain.result.up /\ chain.thrown = "stop" -> Receive(Caught(chain), "result", Close)
      [] OTHER -> PutAll(Caught(chain), "result", <<Error, Close>>)

-----------------------------------------------------------------------------
NoCall == [state |-> "idle", node |-> NoNode, handler |-> <<>>]

Init ==
    /\ handlers = <<>>
    /\ call = NoCall
    /\ promise = "none"
    /\ c = NewChain
    /\ producer = "none"
    /\ unhandled = "none"
    /\ args = <<>>
    /\ made = <<>>

\* exposeFunc(): a module of its own for the handler.
ExposeFunc ==
    \E g \in Graphs :
        /\ call = NoCall
        /\ g # <<>> /\ handlers = Front(g)
        /\ handlers' = g
        /\ UNCHANGED <<call, promise, c, producer, unhandled, args, made>>

QueryThrows(node, params) ==
    /\ ~Plannable(node, params)
    /\ call' = [NoCall EXCEPT !.state = "threw"]
    /\ UNCHANGED <<handlers, promise, c, producer, unhandled, args, made>>

\* The plan has an error: the output is never closed.
QueryFails(node, params) ==
    /\ Plannable(node, params)
    /\ \E i \in {MatchHandler(handlers, node)} :
        /\ i # 0 => MissingParameter(handlers[i], node)
        /\ call' = [state |-> "failed", node |-> node, handler |-> IF i = 0 THEN <<>> ELSE handlers[i]]
    /\ c' = PutAll(c, "output", <<Error, Done>>)
    /\ UNCHANGED <<handlers, promise, producer, unhandled, args, made>>

\* The schema is the first event; then the callback runs and returns a result
\* or a promise.
QueryRuns(node, params, result, awaited) ==
    /\ Plannable(node, params)
    /\ \E i \in {MatchHandler(handlers, node)} \ {0} :
        /\ ~MissingParameter(handlers[i], node)
        /\ call' = [state |-> "ran", node |-> node, handler |-> handlers[i]]
        /\ args' = ArgsOf(handlers[i], node, params)
        /\ \E d \in {Receive([c EXCEPT !.shape = OutputShape(handlers[i], node),
                                       !.task = [@ EXCEPT !.attached = TRUE, !.hasBacklog = FALSE]],
                             "task", Schema)} :
            c' = IF awaited THEN SendTo(d, "result")
                 ELSE CallbackToStream(IF result.t = "stream" THEN PutAll(d, "source", result.before) ELSE d,
                                       result)
    /\ promise' = IF awaited THEN "pending" ELSE "none"
    /\ made' = IF awaited THEN <<>> ELSE EventsOf(result, FALSE)
    /\ producer' = IF ~awaited /\ result.t = "stream" THEN "puts" ELSE "none"
    /\ UNCHANGED <<handlers, unhandled>>

Query ==
    \E node \in Queries, params \in SUBSET Params :
        /\ call = NoCall
        /\ \/ QueryThrows(node, params)
           \/ QueryFails(node, params)
           \/ QueryRuns(node, params, [t |-> "items", items |-> <<>>], TRUE)
           \/ \E result \in Results : QueryRuns(node, params, result, FALSE)

\* The promise resolves, or rejects ("throws" and "stops").
PromiseSettles ==
    \E result \in Results :
        /\ promise = "pending"
        /\ promise' = "settled"
        /\ made' = EventsOf(result, TRUE)
        /\ producer' = IF result.t = "stream" THEN "puts" ELSE "none"
        /\ \E d \in {Resolve(IF result.t = "stream" THEN PutAll(c, "source", result.before) ELSE c, result)} :
            \E f \in {IF d.thrown = "none" THEN d ELSE CatchRejection(d)} :
                /\ c' = Caught(f)
                /\ unhandled' = f.thrown
        /\ UNCHANGED <<handlers, call, args>>

\* The callback goes on putting events to the stream it returned, until it
\* has closed it or a put throws.
Put(e) ==
    /\ producer = "puts"
    /\ ~c.source.up
    /\ \E d \in {Receive(c, "source", e)} :
        /\ c' = Caught(d)
        /\ producer' = IF d.thrown = "none" THEN "puts" ELSE d.thrown
    /\ made' = Append(made, e)
    /\ UNCHANGED <<handlers, call, promise, unhandled, args>>

SourcePuts ==
    /\ Len(made) < MaxEvents
    /\ \/ \E item \in Items : Put(Item(item))
       \/ Put(Done)
       \/ Put(Error)

SourceCloses == Put(Close)

\* sendTo() with a listener, or promiseItems().
ReaderAttaches(mode) ==
    /\ call.state \in {"failed", "ran"}
    /\ c.reader = "none"
    /\ ~c.output.down
    /\ c' = Caught(SendTo([c EXCEPT !.reader = mode], "output"))
    /\ UNCHANGED <<handlers, call, promise, producer, unhandled, args, made>>

ReaderStops ==
    /\ call.state \in {"failed", "ran"}
    /\ ~c.output.down
    /\ c' = [c EXCEPT !.output = ClosedByDownstream(@)]
    /\ UNCHANGED <<handlers, call, promise, producer, unhandled, args, made>>

Next ==
    \/ ExposeFunc
    \/ Query
    \/ PromiseSettles
    \/ SourcePuts
    \/ SourceCloses
    \/ \E mode \in {"listener", "items"} : ReaderAttaches(mode)
    \/ ReaderStops

\* A callback's promise settles, and it closes the stream it returned.
Fairness ==
    /\ WF_vars(PromiseSettles)
    /\ WF_vars(SourceCloses)

Spec == Init /\ [][Next]_vars /\ Fairness

-----------------------------------------------------------------------------
\* Properties

Exceptions == {"none", "stop", "protocol", "usage", "failed"}

Delivered == c.got \o c.output.backlog
Fixed(shape, events) ==
    LET shown == Kept(events, {e \in ToSet(events) : Shows(shape, e)})
    IN  [i \in DOMAIN shown |-> Reshaped(shape, shown[i])]

\* The state of a query and of its streams: exceptions never stay in the
\* chain, nothing is put to a stream that has lost its backlog and has no
\* receiver but by close or by a stop.
TypeOK ==
    /\ handlers \in Graphs
    /\ call.state \in {"idle", "threw", "failed", "ran"}
    /\ promise \in {"none", "pending", "settled"}
    /\ producer \in Exceptions \cup {"puts"}
    /\ unhandled \in Exceptions
    /\ c.thrown = "none"
    /\ \A k \in {"source", "result", "task", "output"} :
        /\ c[k].attached => ~c[k].hasBacklog /\ ~c[k].down
        /\ ~c[k].hasBacklog => c[k].backlog = <<>>

\* A callback runs only with a value for every attribute its declaration
\* marks with `$', if it requires the attribute or the query names it: what
\* matching lets through for an optional tag, or for a tag that is there
\* twice, the check for parameters refuses.
ArgsGiven ==
    call.state = "ran" =>
        \A i \in DOMAIN call.handler :
            LET tag == call.handler[i]
            IN  tag.requiresValue /\ (tag.required \/ tag.attr \in Attrs(call.node.tags))
                    => args[tag.attr] # "null"

\* Every item a caller is given has the attributes the query asks for, with a
\* value where the query gives one, at least one value that is the item's,
\* and nothing else.
ItemsAnswerQuery ==
    \A i \in DOMAIN Delivered : Delivered[i].t = "item" =>
        LET item == Delivered[i].item
            tags == call.node.tags
        IN  /\ DOMAIN item \subseteq Attrs(tags)
            /\ \E attr \in DOMAIN item : item[attr] = "item"
            /\ \A j \in Named(call.node) :
                /\ ~tags[j].isAttrOptional => tags[j].attr \in DOMAIN item
                /\ tags[j].attr \in DOMAIN item /\ HasValue(LastWith(tags, tags[j].attr))
                        => item[tags[j].attr] # "null"

\* The caller is given the schema and then, in order and once, every event of
\* the callback's result that the filter shows, whether the result came at
\* once, as a promise or as a stream, and whenever the caller starts to read.
ResultDelivered ==
    c.reader # "items" /\ ~c.output.down =>
        /\ call.state = "ran" => Delivered = <<Schema>> \o Fixed(c.shape, made)
        /\ call.state = "failed" => Delivered = <<Error, Done>>

\* A callback's puts throw, and the catch() of its promise throws, only
\* because the caller has stopped reading; or promiseItems() is given an item
\* after done.
ItemAfterDone ==
    c.reader = "items" /\ \E i, j \in DOMAIN made : i < j /\ made[i] = Done /\ made[j].t = "item"
ExceptionsExplained ==
    /\ unhandled # "none" => c.output.down
    /\ producer \notin {"none", "puts"} => c.output.down \/ ItemAfterDone

\* Every query ends, for a caller that reads it, in done, error or close, unless
\* the caller stops, or the callback is stopped at once by another stream.
StoppedAtOnce == call.state = "ran" /\ promise = "none" /\ producer = "none" /\ made = <<>>
Ended == \E i \in DOMAIN c.got : c.got[i] \in {Done, Error, Close}
QuerySettles ==
    c.reader # "none" ~> Ended \/ c.output.down \/ StoppedAtOnce
=============================================================================
