---------------------------- MODULE FunctionCache ---------------------------
(***************************************************************************)
(* A FunctionCache (src/rqe/cache/FunctionCache.ts) and the                 *)
(* CacheItemHandles through which its values are used                       *)
(* (src/rqe/cache/CacheItemHandle.ts).  The cache keeps one item per key;   *)
(* an item's handler emits events, which the item records and passes on to  *)
(* its listeners.  A handle listens to one item at a time and puts what it  *)
(* hears into its updateStream, for a reader.                               *)
(*                                                                          *)
(* Passing an event on is a loop over item.listeners that calls the readers *)
(* one by one.  `delivery' is that loop; while a reader's callback runs it  *)
(* may call the handles, as a React component does when it renders again.   *)
(* (It does not call refreshItem() or drive a handler: see README.)         *)
(*                                                                          *)
(* A call is a sequence of steps on the objects, written as operators from  *)
(* one state `s' of the objects to the next.  expire_at is 0 in every item, *)
(* so no item expires.                                                      *)
(***************************************************************************)
EXTENDS Naturals, FiniteSets, SequencesExt, SeqFilter

CONSTANTS
    Handle,
    Key,                \* formatItem(params)
    Unhandled,          \* the keys findHandler() finds no handler for
    Reentrant,          \* the calls a reader makes from its callback
    MaxItems,           \* bound: cache items made
    MaxListeners,       \* bound: listenToItem() calls
    MaxEvents,          \* bound: events of one run of a handler
    MaxRefreshes        \* bound: refreshItem() calls of the application

ASSUME UnhandledAssumption == Unhandled \subseteq Key
ASSUME ReentrantAssumption == Reentrant \subseteq {"refresh", "startListening", "close"}
ASSUME CacheBoundAssumption ==
    {MaxItems, MaxListeners, MaxEvents, MaxRefreshes} \subseteq Nat

VARIABLES
    objects,            \* the cache's table, its items, their listeners, the handles
    delivery,           \* the loop over item.listeners that is under way
    refreshes           \* refreshItem() calls so far

vars == <<objects, delivery, refreshes>>

\* Items and listeners are numbered as they are made; 0 is null.
None == 0
ItemId == 1..MaxItems
ListenerId == 1..MaxListeners
Close == [t |-> "close", n |-> 0]
Restart == [t |-> "restart", n |-> 0]
Event == [t : {"item"}, n : 1..MaxEvents] \cup {Close, Restart}

\* Mutant: the handler of a new item is not called.
NewItemIdle(k) == [key |-> k, live_ref_count |-> 0, received_events |-> <<>>,
                   listeners |-> <<>>, source |-> "idle"]

\* source is the state of the result_stream: no handler feeds it, or one does, or
\* it has closed it.
NewItem(k) == [key |-> k, live_ref_count |-> 0, received_events |-> <<>>,
               listeners |-> <<>>, source |-> IF k \in Unhandled THEN "none" ELSE "running"]

\* joined (history) is the number of events its item had, for a listener that was
\* added while the last of them was being passed on.
NewListener == [of |-> None, closedByUpstream |-> FALSE, closedByDownstream |-> FALSE, joined |-> 0]

\* update is the updateStream, and seen what its reader got since the last restart.
NewHandle == [current |-> None, listener |-> None, update |-> "none", seen |-> <<>>]

NoDelivery == [item |-> None, event |-> Close, next |-> 1, anyClosed |-> FALSE, inCallback |-> FALSE]

Init ==
    /\ objects = [table |-> [k \in Key |-> None], item |-> <<>>,
                  listener |-> <<>>, handle |-> [h \in Handle |-> NewHandle]]
    /\ delivery = NoDelivery
    /\ refreshes = 0

CanCall(call) == delivery.item # None => delivery.inCallback /\ call \in Reentrant

-----------------------------------------------------------------------------
\* Streams

IsClosed(s, l) == s.listener[l].closedByUpstream \/ s.listener[l].closedByDownstream

\* The callback of _openListener(): close events are kept from the updateStream,
\* and one that its reader has closed stops the listener.
ListenerReceives(s, l, e) ==
    LET h == s.listener[l].of
        update == s.handle[h].update
    IN  IF IsClosed(s, l) THEN s
        ELSE CASE e = Close -> [s EXCEPT !.listener[l].closedByUpstream = TRUE]
               [] e # Close /\ update = "stopped" ->
                     [s EXCEPT !.listener[l].closedByDownstream = TRUE]
               [] e = Restart /\ update = "open" ->
                     [s EXCEPT !.handle[h].seen = <<>>, !.listener[l].joined = 0]
               [] OTHER -> [s EXCEPT !.handle[h].seen = Append(@, e)]

\* Whether that calls the reader.
ReaderHears(s, l, e) ==
    ~IsClosed(s, l) /\ e # Close /\ s.handle[s.listener[l].of].update = "open"

-----------------------------------------------------------------------------
\* The cache

\* getItem()
GetItem(s, k) ==
    IF s.table[k] # None THEN s
    ELSE [s EXCEPT !.table[k] = Len(s.item) + 1, !.item = Append(@, NewItem(k))]

\* findHandler() finds none for a new item: getItem() throws, and the item stays.
GetItemThrows(s, k) == s.table[k] = None /\ k \in Unhandled

\* Mutant: decRef() forgets to count.
DecRefLastOnly(s, i) ==
    IF s.item[i].live_ref_count = 1 THEN [s EXCEPT !.table[s.item[i].key] = None] ELSE s

\* stopUsingCacheItem(): the last use deletes the item by its key, whichever item
\* the table holds under that key now.
DecRef(s, i) ==
    LET refs == s.item[i].live_ref_count
    IN  IF refs = 0 THEN s
        ELSE [s EXCEPT !.item[i].live_ref_count = refs - 1,
                       !.table[s.item[i].key] = IF refs = 1 THEN None ELSE @]

\* The loop of listenToItem() over the item's events, into its new listener l.
CatchUp(s, l, events) ==
    LET after[n \in 0..Len(events)] ==
          IF n = 0 THEN s ELSE ListenerReceives(after[n - 1], l, events[n])
    IN  after[Len(events)]

WithListener(it, l) == [it EXCEPT !.listeners = Append(@, l), !.live_ref_count = @ + 1]

\* listenToItem(), incRef() and sendTo() for handle h: the new listener catches up
\* on the events the item has had.
OpenListener(s, h) ==
    LET i == s.handle[h].current
        l == Len(s.listener) + 1
        new == [NewListener EXCEPT
                    !.of = h,
                    !.joined = IF delivery.item = i THEN Len(s.item[i].received_events) ELSE 0]
        open == [s EXCEPT !.listener = Append(@, new),
                          !.item[i] = WithListener(@, l),
                          !.handle[h].listener = l]
    IN  CatchUp(open, l, s.item[i].received_events)

-----------------------------------------------------------------------------
\* The handle

\* Mutant: the reader is not told to start over.
CloseListenerQuietly(s, h) ==
    LET l == s.handle[h].listener
    IN  IF l = None THEN s
        ELSE DecRef([s EXCEPT !.listener[l].closedByDownstream = TRUE,
                              !.handle[h].listener = None], s.handle[h].current)

\* _closeListener(), but for putRestart() throwing when the reader has gone.
CloseListener(s, h) ==
    LET l == s.handle[h].listener
    IN  IF l = None THEN s
        ELSE DecRef([s EXCEPT !.listener[l].closedByDownstream = TRUE,
                              !.handle[h].listener = None,
                              !.handle[h].seen = IF s.handle[h].update = "open" THEN <<>> ELSE @],
                    s.handle[h].current)

CloseListenerThrows(s, h) == s.handle[h].listener # None /\ s.handle[h].update = "stopped"

\* refresh() with the item getItem() returned.
MoveTo(s, h, i) ==
    LET closed == CloseListener(s, h)
        moved == [closed EXCEPT !.handle[h].current = i]
    IN  CASE s.handle[h].current = i      -> s
          [] s.handle[h].current # i /\ s.handle[h].update = "none" ->
                [s EXCEPT !.handle[h].current = i]
          [] s.handle[h].current # i /\ CloseListenerThrows(s, h) -> closed
          [] OTHER -> OpenListener(moved, h)

Bounded == Len(objects'.item) <= MaxItems /\ Len(objects'.listener) <= MaxListeners

Refresh(h, k) ==
    /\ CanCall("refresh")
    /\ LET found == GetItem(objects, k)
       IN  objects' = IF GetItemThrows(objects, k) THEN found ELSE MoveTo(found, h, found.table[k])
    /\ Bounded
    /\ UNCHANGED <<delivery, refreshes>>

\* Without a current item listenToItem() throws, and the updateStream stays.
StartListening(h) ==
    /\ CanCall("startListening")
    /\ objects.handle[h].update = "none"
    /\ LET s == [objects EXCEPT !.handle[h].update = "open"]
       IN  objects' = IF s.handle[h].current = None THEN s ELSE OpenListener(s, h)
    /\ Bounded
    /\ UNCHANGED <<delivery, refreshes>>

\* close(), which does not set hasClosed.  It throws when the reader has gone (from
\* putRestart() or from updateStream.close()) and when there is no updateStream.
CloseHandle(h) ==
    /\ CanCall("close")
    /\ LET closed == CloseListener(objects, h)
           update == objects.handle[h].update
       IN  objects' = CASE CloseListenerThrows(objects, h) -> closed
                        [] update = "open" -> [closed EXCEPT !.handle[h] = NewHandle]
                        [] OTHER -> [closed EXCEPT !.handle[h].current = None]
    /\ UNCHANGED <<delivery, refreshes>>

\* The reader closes the updateStream by downstream.
ReaderStops(h) ==
    /\ CanCall("close")
    /\ objects.handle[h].update = "open"
    /\ objects' = [objects EXCEPT !.handle[h].update = "stopped"]
    /\ UNCHANGED <<delivery, refreshes>>

-----------------------------------------------------------------------------
\* Events

StartDelivery(i, e) == delivery' = [NoDelivery EXCEPT !.item = i, !.event = e]

\* The handler puts an event into the result_stream, whose receiver records it.
HandlerEmits(i, e) ==
    LET it == objects.item[i]
    IN  /\ delivery = NoDelivery
        /\ it.source = "running"
        /\ e # Restart
        /\ e.t = "item" => e.n = Len(it.received_events) + 1
        /\ objects' = [objects EXCEPT
                          !.item[i].received_events = Append(@, e),
                          !.item[i].source = IF e = Close THEN "ended" ELSE @]
        /\ StartDelivery(i, e)
        /\ UNCHANGED refreshes

\* refreshItem() up to its loop: a new result_stream, no events.
RefreshItem(i) ==
    /\ delivery = NoDelivery
    /\ refreshes < MaxRefreshes
    /\ refreshes' = refreshes + 1
    /\ objects' = [objects EXCEPT !.item[i].received_events = <<>>, !.item[i].source = "none"]
    /\ StartDelivery(i, Restart)

Listeners == objects.item[delivery.item].listeners

\* The next turn of either loop.  The one in refreshItem() has no isClosed() test,
\* and a listener that its handle has closed throws BackpressureStop out of it.
PassOn ==
    /\ delivery.item # None
    /\ delivery.next <= Len(Listeners)
    /\ LET l == Listeners[delivery.next]
           e == delivery.event
       IN  IF e = Restart /\ objects.listener[l].closedByDownstream
           THEN delivery' = NoDelivery /\ UNCHANGED objects
           ELSE /\ objects' = ListenerReceives(objects, l, e)
                /\ delivery' = [delivery EXCEPT
                                   !.next = @ + 1,
                                   !.anyClosed = @ \/ IsClosed(objects', l),
                                   !.inCallback = ReaderHears(objects, l, e)]
    /\ UNCHANGED refreshes

\* The end of the loop: cacheItemFilterClosedStreams() if it met a closed listener;
\* in refreshItem(), the handler is called.
EndDelivery ==
    /\ delivery.item # None
    /\ delivery.next > Len(Listeners)
    /\ delivery' = NoDelivery
    /\ LET i == delivery.item
           open == {l \in DOMAIN objects.listener : ~IsClosed(objects, l)}
       IN  objects' =
             CASE delivery.event = Restart ->
                    [objects EXCEPT !.item[i].source = NewItem(objects.item[i].key).source]
               [] delivery.event # Restart /\ delivery.anyClosed ->
                    [objects EXCEPT !.item[i].listeners = Kept(@, open)]
               [] OTHER -> objects
    /\ UNCHANGED refreshes

Next ==
    \/ \E h \in Handle :
         \/ \E k \in Key : Refresh(h, k)
         \/ StartListening(h)
         \/ CloseHandle(h)
         \/ ReaderStops(h)
    \/ \E i \in DOMAIN objects.item : RefreshItem(i) \/ \E e \in Event : HandlerEmits(i, e)
    \/ PassOn
    \/ EndDelivery

Spec == Init /\ [][Next]_vars

-----------------------------------------------------------------------------
\* Properties

Items == [key : Key, live_ref_count : Nat, received_events : Seq(Event),
          listeners : Seq(ListenerId), source : {"none", "running", "ended"}]
ListenerStreams == [of : Handle, closedByUpstream : BOOLEAN, closedByDownstream : BOOLEAN, joined : Nat]
Handles == [current : ItemId \cup {None}, listener : ListenerId \cup {None},
            update : {"none", "open", "stopped"}, seen : Seq(Event)]

TypeOK ==
    /\ objects.table \in [Key -> ItemId \cup {None}]
    /\ objects.item \in Seq(Items)
    /\ objects.listener \in Seq(ListenerStreams)
    /\ objects.handle \in [Handle -> Handles]
    /\ delivery \in [item : ItemId \cup {None}, event : Event, next : Nat,
                     anyClosed : BOOLEAN, inCallback : BOOLEAN]
    /\ refreshes \in 0..MaxRefreshes

Users(i) == {h \in Handle : objects.handle[h].listener # None /\ objects.handle[h].current = i}

\* live_ref_count is the number of handles that listen to the item, whatever
\* refresh() and close() calls failed half-way because a reader had gone or a
\* handler was missing.
RefsCountUsers ==
    \A i \in DOMAIN objects.item : objects.item[i].live_ref_count = Cardinality(Users(i))

ItemEvents == {e \in Event : e.t = "item"}

\* What a listener has passed on of its item's events: one that was added while
\* the last event was being passed on is reached by that loop too, and passes that
\* event on twice.
Passed(events, joined) ==
    Kept(SubSeq(events, 1, joined) \o SubSeq(events, IF joined = 0 THEN 1 ELSE joined, Len(events)), ItemEvents)

\* A reader has seen, since its last restart, the events of the item its handle
\* listens to and nothing else, in order and without gaps, however handles move
\* between items, close and start again; refreshItem() calls that broke off aside.
ViewFollowsItem ==
    \A h \in Handle :
        LET i == objects.handle[h].current
            l == objects.handle[h].listener
        IN  /\ l # None
            /\ objects.handle[h].update = "open"
            /\ ~IsClosed(objects, l)
            /\ delivery.item # i
            /\ objects.item[i].source # "none"
            => objects.handle[h].seen =
                  Passed(objects.item[i].received_events, objects.listener[l].joined)

\* FunctionCache.ts, the message of stopUsingCacheItem(): `deleting cache item
\* (unused)'.  An item leaves the table only when no handle listens to it.
UsedItemsNotDeleted ==
    [][\A k \in Key, i \in ItemId :
          objects.table[k] = i /\ objects'.table[k] = None => Users(i)' = {}]_vars

=============================================================================
