--------------------------- MODULE StreamToTable ----------------------------
(***************************************************************************)
(* table.listenToStream(): streams that fill a table, the status they set   *)
(* (src/rqe/table/streamToTable.ts), and those who listen to the status:    *)
(* callers of waitForData() (StatusTable.ts) and of listenToValueChange().  *)
(*                                                                          *)
(* The table is its indexes, those of TableIndexes.                         *)
(* An event an attached stream receives is in the table, and all listeners  *)
(* of the status have heard of it, before receive() returns; whatever one   *)
(* of them throws is thrown to the producer of the stream.                  *)
(***************************************************************************)
EXTENDS TableIndexes, Sequences

CONSTANTS
    Input,              \* streams
    Waiter,             \* callers of waitForData()
    Items,              \* the items streams are put
    MaxEvents           \* bound: events put to all streams, but for close events

VARIABLES
    t,                  \* the table, its status and listeners, and the streams
    producer,           \* what the last put to each stream threw
    listenFailed,       \* listenToStream() has thrown, or attached to a used stream
    put                 \* history: what each stream was put

feedVars == <<t, producer, listenFailed, put>>

\* The one listener of status that calls listenToValueChange().
Observer == "observer"

ASSUME FeedAssumption == MaxEvents \in Nat /\ Items \subseteq Item /\ Observer \notin Waiter

Event == [t : {"item"}, item : Items] \cup [t : {"delete", "error", "done", "restart"}]
Close == [t |-> "close"]

\* stopsOnDone: an afterDone() callback was given, and no continuousUpdates.
NewStream == [attached |-> FALSE, hasBacklog |-> TRUE, backlog |-> <<>>, up |-> FALSE, down |-> FALSE,
              stopsOnDone |-> FALSE]

\* status is "none" for the {} it starts with and "null" for null; observed is
\* what listenToValueChange() told its caller last.
FeedInit ==
    /\ t = [indexes |-> NoItems, status |-> "none", listeners |-> <<>>,
            waiter |-> [w \in Waiter |-> "idle"], observed |-> "nothing",
            input |-> [k \in Input |-> NewStream], threw |-> FALSE]
    /\ producer = [k \in Input |-> "puts"]
    /\ listenFailed = FALSE
    /\ put = [k \in Input |-> <<>>]

-----------------------------------------------------------------------------
\* The status table

\* A waiter that has resolved has closed its stream and is passed over.  On a
\* status that is null isLoading() is a TypeError, and nobody after it hears.
Tell(d, l) ==
    CASE d.threw -> d
      [] ~d.threw /\ l = Observer -> [d EXCEPT !.observed = d.status]
      [] ~d.threw /\ l # Observer ->
            CASE d.waiter[l] = "resolved" \/ d.status = "loading" -> d
              [] d.waiter[l] = "waiting" /\ d.status = "null" -> [d EXCEPT !.threw = TRUE]
              [] OTHER -> [d EXCEPT !.waiter[l] = "resolved"]

\* Mutant: a closed stream ends the round.
MutantRound(d, listeners) ==
    LET closed(l) == l # Observer /\ d.waiter[l] = "resolved"
        told[n \in 0..Len(listeners)] ==
            IF n = 0 \/ \E i \in 1..n : closed(listeners[i]) THEN d
            ELSE Tell(told[n - 1], listeners[n])
    IN  told[Len(listeners)]

\* The loop of sendToListeners().
Round(d, listeners) ==
    LET told[n \in 0..Len(listeners)] ==
            IF n = 0 THEN d ELSE Tell(told[n - 1], listeners[n])
    IN  told[Len(listeners)]

SetStatus(d, status) == Round([d EXCEPT !.status = status], d.listeners)

-----------------------------------------------------------------------------
\* tableReceiveStreamEvent()

\* Mutant: the items stay.
MutantRestarted(d) == SetStatus(d, "null")

Restarted(d) == SetStatus([d EXCEPT !.indexes = NoItems], "null")

\* Mutant: a close event needs no answer.
MutantEnded(d) == d

\* An answer that ends before it is done is incomplete.
Ended(d) == IF d.status \in {"error", "done"} THEN d ELSE SetStatus(d, "error")

\* No table has a function delete(): the Proxy throws.
ReceiveEvent(d, e) ==
    CASE e.t = "item" -> [d EXCEPT !.indexes = Stored(@, e.item)]
      [] e.t = "delete" -> [d EXCEPT !.threw = TRUE]
      [] e.t \in {"error", "done"} -> IF d.status = "error" THEN d ELSE SetStatus(d, e.t)
      [] e.t = "close" -> Ended(d)
      [] e.t = "restart" -> Restarted(d)

\* The callbacks' exceptions are caught.
AfterUpdate(d, k, e) ==
    IF ~d.threw /\ e.t = "done" /\ d.input[k].stopsOnDone
    THEN [d EXCEPT !.input[k].down = TRUE, !.input[k].attached = FALSE]
    ELSE d

TableReceives(d, k, e) == AfterUpdate(ReceiveEvent(d, e), k, e)

-----------------------------------------------------------------------------
\* Stream.receive() and Stream.sendTo()

Detached(d, k) == IF d.threw \/ ~d.input[k].up THEN d ELSE [d EXCEPT !.input[k].attached = FALSE]

Receive(d, k, e) ==
    CASE d.input[k].attached -> Detached(TableReceives([d EXCEPT !.input[k].up = e = Close], k, e), k)
      [] ~d.input[k].attached /\ d.input[k].hasBacklog ->
            [d EXCEPT !.input[k].up = e = Close, !.input[k].backlog = Append(@, e)]

\* A backlog that goes on after the stream was stopped is a TypeError.
HandOver(d, k, e) ==
    CASE d.threw -> d
      [] ~d.threw /\ ~d.input[k].attached -> [d EXCEPT !.threw = TRUE]
      [] ~d.threw /\ d.input[k].attached -> TableReceives(d, k, e)

\* The loop of sendTo().
Flushed(d, k, events) ==
    LET handed[n \in 0..Len(events)] ==
            IF n = 0 THEN d ELSE HandOver(handed[n - 1], k, events[n])
    IN  handed[Len(events)]

SendTo(d, k) ==
    Flushed([d EXCEPT !.input[k] = [@ EXCEPT !.attached = TRUE, !.hasBacklog = FALSE, !.backlog = <<>>]],
            k, d.input[k].backlog)

-----------------------------------------------------------------------------
\* The callers

\* streamToTable() sets the status before it knows that it can have the stream.
ListenToStream(k, stopsOnDone) ==
    /\ t.input[k].hasBacklog
    /\ \E d \in {SendTo([SetStatus(t, "loading") EXCEPT !.input[k].stopsOnDone = stopsOnDone], k)} :
        /\ t' = [d EXCEPT !.threw = FALSE]
        /\ listenFailed' = (listenFailed \/ d.threw)
    /\ UNCHANGED <<producer, put>>

\* A stream that was listened to before: sendTo() throws if it still has its
\* receiver; otherwise it takes the new one, who will hear nothing.
ListenToUsed(k) ==
    /\ ~t.input[k].hasBacklog
    /\ t' = [SetStatus(t, "loading") EXCEPT !.input[k].attached = TRUE]
    /\ listenFailed' = TRUE
    /\ UNCHANGED <<producer, put>>

WaitForData(w) ==
    /\ t.waiter[w] = "idle"
    /\ t' = [t EXCEPT !.waiter[w] = "waiting", !.listeners = Append(@, w)]
    /\ UNCHANGED <<producer, listenFailed, put>>

\* listenToValueChange(): the caller is told of the status at once.
ListenToStatus ==
    /\ t.observed = "nothing"
    /\ t' = [t EXCEPT !.observed = t.status, !.listeners = Append(@, Observer)]
    /\ UNCHANGED <<producer, listenFailed, put>>

PutEvent(k, e) ==
    /\ producer[k] = "puts"
    /\ ~t.input[k].up
    /\ put' = [put EXCEPT ![k] = Append(@, e)]
    /\ UNCHANGED listenFailed

\* The producer of a stream that was stopped gets a BackpressureStop.
PutStopped(k, e) ==
    /\ PutEvent(k, e)
    /\ t.input[k].down
    /\ producer' = [producer EXCEPT ![k] = "stop"]
    /\ UNCHANGED t

PutReceived(k, e) ==
    /\ PutEvent(k, e)
    /\ ~t.input[k].down
    /\ t.input[k].attached \/ t.input[k].hasBacklog
    /\ \E d \in {Receive(t, k, e)} :
        /\ t' = [d EXCEPT !.threw = FALSE]
        /\ producer' = IF d.threw THEN [producer EXCEPT ![k] = "failed"] ELSE producer

Put(k) ==
    /\ Cardinality(UNION {{j} \X DOMAIN put[j] : j \in Input}) < MaxEvents
    /\ \E e \in Event : PutStopped(k, e) \/ PutReceived(k, e)

CloseInput(k) == PutStopped(k, Close) \/ PutReceived(k, Close)

FeedNext ==
    \/ \E k \in Input :
        \/ \E stopsOnDone \in BOOLEAN : ListenToStream(k, stopsOnDone)
        \/ ListenToUsed(k)
        \/ Put(k)
        \/ CloseInput(k)
    \/ \E w \in Waiter : WaitForData(w)
    \/ ListenToStatus

\* Producers end their streams.
FeedFairness == \A k \in Input : WF_feedVars(CloseInput(k))

FeedSpec == FeedInit /\ [][FeedNext]_feedVars /\ FeedFairness

-----------------------------------------------------------------------------
\* Properties

Failed == listenFailed \/ \E k \in Input : producer[k] = "failed"

Status == {"none", "loading", "error", "done", "null"}
Indexes == [Attr -> UNION {[keys -> SUBSET Item] : keys \in SUBSET Value}]
Streams == [attached : BOOLEAN, hasBacklog : BOOLEAN, backlog : Seq(Event \cup {Close}),
            up : BOOLEAN, down : BOOLEAN, stopsOnDone : BOOLEAN]
Stores ==
    [indexes : Indexes, status : Status, listeners : Seq(Waiter \cup {Observer}),
     waiter : [Waiter -> {"idle", "waiting", "resolved"}], observed : Status \cup {"nothing"},
     input : [Input -> Streams], threw : BOOLEAN]

\* What the table, its listeners and its streams can be between two calls: a
\* stream nobody has listened to keeps all it was put, and one that a table
\* listens to keeps nothing.
FeedTypeOK ==
    /\ t \in Stores /\ ~t.threw
    /\ producer \in [Input -> {"puts", "stop", "failed"}]
    /\ listenFailed \in BOOLEAN
    /\ put \in [Input -> Seq(Event \cup {Close})]
    /\ \A k \in Input :
        IF t.input[k].hasBacklog
        THEN /\ ~t.input[k].attached /\ ~t.input[k].down
             /\ t.input[k].backlog = put[k]
        ELSE t.input[k].backlog = <<>>

\* The items put since the last restart, by their places.
Current(events) ==
    {i \in DOMAIN events : events[i].t = "item" /\ \A j \in i..Len(events) : events[j].t # "restart"}

\* A table that one stream fills has, in every index and under its key, exactly
\* the items the stream was put since it restarted, whether before or after the
\* table began to listen; unless a put threw, or the stream put a new item
\* under a unique key it had put before: insert() leaves the old one in the
\* other indexes.
ContentsFollow ==
    \A k \in Input :
        LET events == put[k]
        IN  /\ ~t.input[k].hasBacklog
            /\ \A other \in Input \ {k} : t.input[other].hasBacklog
            /\ producer[k] = "puts" /\ ~listenFailed
            /\ \A i, j \in Current(events), a \in Attr \ Multi :
                  events[i].item[a] = events[j].item[a] => i = j
            => /\ Agree(t.indexes)
               /\ ItemsOf(t.indexes[Primary]) = {events[i].item : i \in Current(events)}

\* Who listens to the status knows it, whatever waitForData() closes of the
\* listener streams meanwhile, unless a put threw half-way through them.
ObserverFollows == t.observed # "nothing" /\ ~Failed => t.observed = t.status

\* Data that is waited for while the table is loading comes, or an error does:
\* streams that end early, that fail or that another one overtakes set a status
\* that resolves it.
WaitersSettle ==
    \A w \in Waiter :
        t.waiter[w] = "waiting" /\ t.status = "loading" ~> t.waiter[w] = "resolved" \/ Failed
=============================================================================
