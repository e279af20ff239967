------------------------ MODULE FunctionCache_proofs ------------------------
(***************************************************************************)
(* Proofs about FunctionCache: the types, that an item's reference count is *)
(* the number of handles that listen to it, and that the reader of a handle *)
(* that moves with its item sees what the item has received.                *)
(***************************************************************************)
EXTENDS FunctionCache, NumberLemmas

-----------------------------------------------------------------------------
\* The states of the objects, with n items and m listeners so far.

ItemRecords(m) == [key : Key, live_ref_count : Nat, received_events : Seq(Event),
                   listeners : Seq(1..m), source : {"none", "running", "ended"}]
HandleRecords(n, m) == [current : 0..n, listener : 0..m,
                        update : {"none", "open", "stopped"}, seen : Seq(Event)]
States(n, m) == [table : [Key -> 0..n], item : Seq(ItemRecords(m)),
                 listener : Seq(ListenerStreams), handle : [Handle -> HandleRecords(n, m)]]

Typed(s) == s \in States(Len(s.item), Len(s.listener))

UsersIn(s, i) == {h \in Handle : s.handle[h].listener # None /\ s.handle[h].current = i}

\* Every use of an item is counted, and only handles that have a reader and an item
\* listen.
Counted(s) ==
    /\ \A i \in 1..Len(s.item) :
          IsFiniteSet(UsersIn(s, i)) /\ s.item[i].live_ref_count = Cardinality(UsersIn(s, i))
    /\ \A h \in Handle : s.handle[h].listener # None =>
          s.handle[h].update # "none" /\ s.handle[h].current # None

Good(s) == Typed(s) /\ Counted(s)

LEMMA TypedParts ==
    ASSUME NEW s, Typed(s)
    PROVE  /\ Len(s.item) \in Nat /\ DOMAIN s.item = 1..Len(s.item)
           /\ Len(s.listener) \in Nat /\ DOMAIN s.listener = 1..Len(s.listener)
           /\ s.table \in [Key -> 0..Len(s.item)]
           /\ s.item \in Seq(ItemRecords(Len(s.listener)))
           /\ s.listener \in Seq(ListenerStreams)
           /\ s.handle \in [Handle -> HandleRecords(Len(s.item), Len(s.listener))]
           /\ s = [table |-> s.table, item |-> s.item, listener |-> s.listener, handle |-> s.handle]
  <1>1. /\ s.table \in [Key -> 0..Len(s.item)]
        /\ s.item \in Seq(ItemRecords(Len(s.listener)))
        /\ s.listener \in Seq(ListenerStreams)
        /\ s.handle \in [Handle -> HandleRecords(Len(s.item), Len(s.listener))]
        /\ s = [table |-> s.table, item |-> s.item, listener |-> s.listener, handle |-> s.handle]
    BY DEF Typed, States
  <1>2. /\ Len(s.item) \in Nat /\ DOMAIN s.item = 1..Len(s.item)
        /\ Len(s.listener) \in Nat /\ DOMAIN s.listener = 1..Len(s.listener)
    BY <1>1, LenProperties
  <1> QED BY <1>1, <1>2

LEMMA UpdatedParts ==
    ASSUME NEW s, s = [table |-> s.table, item |-> s.item, listener |-> s.listener, handle |-> s.handle],
           NEW ls, NEW hs
    PROVE  [s EXCEPT !.listener = ls, !.handle = hs]
             = [table |-> s.table, item |-> s.item, listener |-> ls, handle |-> hs]
  <1> DEFINE u == [s EXCEPT !.listener = ls]
  <1>1. u = [table |-> s.table, item |-> s.item, listener |-> ls, handle |-> s.handle]
    OBVIOUS
  <1>2. [s EXCEPT !.listener = ls, !.handle = hs] = [u EXCEPT !.handle = hs]
    OBVIOUS
  <1> HIDE DEF u
  <1>3. [u EXCEPT !.handle = hs] = [table |-> s.table, item |-> s.item, listener |-> ls, handle |-> hs]
    BY ONLY <1>1
  <1> QED BY ONLY <1>2, <1>3, Zenon

LEMMA EventTypes == Close \in Event /\ Restart \in Event /\ NewHandle.seen \in Seq(Event)
  BY EmptySeq DEF Event, NewHandle

-----------------------------------------------------------------------------
\* Delivering an event touches only what listeners and readers have received.

Alike(s) == {t \in States(Len(s.item), Len(s.listener)) :
                /\ t.table = s.table /\ t.item = s.item
                /\ Len(t.listener) = Len(s.listener)
                /\ \A h \in Handle : /\ t.handle[h].current = s.handle[h].current
                                     /\ t.handle[h].listener = s.handle[h].listener
                                     /\ t.handle[h].update = s.handle[h].update}

LEMMA AlikeGood ==
    ASSUME NEW s, Good(s), NEW t \in Alike(s)
    PROVE  Good(t)
  <1>1. Typed(t)
    BY DEF Alike, Typed
  <1>2. \A i : UsersIn(t, i) = UsersIn(s, i)
    BY DEF Alike, UsersIn
  <1>3. Counted(t)
    BY <1>2 DEF Good, Counted, Alike
  <1> QED BY <1>1, <1>3 DEF Good

LEMMA ReceivesAlike ==
    ASSUME NEW s, Typed(s), NEW t \in Alike(s), NEW l \in 1..Len(s.listener), NEW e \in Event
    PROVE  ListenerReceives(t, l, e) \in Alike(s)
  <1> DEFINE n == Len(s.item)
             m == Len(s.listener)
             h == t.listener[l].of
             heard == Append(t.handle[h].seen, e)
  <1>1. /\ t \in States(n, m) /\ Len(t.listener) = m /\ m \in Nat
        /\ t.listener \in Seq(ListenerStreams) /\ DOMAIN t.listener = 1..m
        /\ t.handle \in [Handle -> HandleRecords(n, m)]
    BY TypedParts, LenProperties DEF Alike, States
  <1>2. t.listener[l] \in ListenerStreams
    BY <1>1, ElementOfSeq
  <1>3. h \in Handle
    BY <1>2 DEF ListenerStreams
  <1>4. t.handle[h] \in HandleRecords(n, m) /\ heard \in Seq(Event) /\ <<>> \in Seq(Event)
    BY <1>1, <1>3, AppendProperties, EmptySeq DEF HandleRecords
  <1>5. \A r \in ListenerStreams : [t EXCEPT !.listener[l] = r] \in Alike(s)
    <2> TAKE r \in ListenerStreams
    <2> DEFINE ls == [t.listener EXCEPT ![l] = r]
    <2>1. ls \in Seq(ListenerStreams) /\ Len(ls) = m
      BY <1>1, ExceptSeq
    <2> HIDE DEF ls
    <2>2. [t EXCEPT !.listener = ls] \in Alike(s)
      BY <1>1, <2>1 DEF Alike, States
    <2> QED BY <2>2 DEF ls
  <1>6. \A u \in Alike(s), v \in Seq(Event) : [u EXCEPT !.handle[h].seen = v] \in Alike(s)
    <2> TAKE u \in Alike(s), v \in Seq(Event)
    <2> DEFINE hs == [u.handle EXCEPT ![h].seen = v]
    <2>1. u \in States(n, m) /\ u.handle \in [Handle -> HandleRecords(n, m)]
      BY DEF Alike, States
    <2>2. /\ hs \in [Handle -> HandleRecords(n, m)]
          /\ \A g \in Handle : /\ hs[g].current = u.handle[g].current
                               /\ hs[g].listener = u.handle[g].listener
                               /\ hs[g].update = u.handle[g].update
      BY <1>3, <2>1 DEF HandleRecords
    <2> HIDE DEF hs
    <2>3. [u EXCEPT !.handle = hs] \in Alike(s)
      BY <2>1, <2>2 DEF Alike, States
    <2> QED BY <2>3 DEF hs
  <1> HIDE DEF n, m, heard
  <1>7. CASE IsClosed(t, l)
    BY <1>7 DEF ListenerReceives
  <1>8. CASE ~IsClosed(t, l) /\ e = Close
    <2>1. ListenerReceives(t, l, e) = [t EXCEPT !.listener[l] = [@ EXCEPT !.closedByUpstream = TRUE]]
      BY <1>8 DEF ListenerReceives, Close, Restart
    <2> QED BY <2>1, <1>2, <1>5 DEF ListenerStreams
  <1>9. CASE ~IsClosed(t, l) /\ e # Close /\ t.handle[h].update = "stopped"
    <2>1. ListenerReceives(t, l, e) = [t EXCEPT !.listener[l] = [@ EXCEPT !.closedByDownstream = TRUE]]
      BY <1>9 DEF ListenerReceives
    <2> QED BY <2>1, <1>2, <1>5 DEF ListenerStreams
  <1>10. CASE ~IsClosed(t, l) /\ e = Restart /\ t.handle[h].update = "open"
    <2> DEFINE u == [t EXCEPT !.listener[l] = [@ EXCEPT !.joined = 0]]
    <2>1. e # Close
      BY <1>10 DEF Close, Restart
    <2>2. ListenerReceives(t, l, e) = [u EXCEPT !.handle[h].seen = <<>>]
      BY <1>10, <2>1, <1>1 DEF ListenerReceives, States
    <2>3. u \in Alike(s)
      BY <1>2, <1>5 DEF ListenerStreams
    <2> QED BY <2>2, <2>3, <1>6, <1>4
  <1>11. CASE ~IsClosed(t, l) /\ e # Close /\ t.handle[h].update # "stopped"
                /\ ~(e = Restart /\ t.handle[h].update = "open")
    <2>1. ListenerReceives(t, l, e) = [t EXCEPT !.handle[h].seen = heard]
      BY <1>11 DEF ListenerReceives, heard
    <2> QED BY <2>1, <1>6, <1>4
  <1> QED BY <1>7, <1>8, <1>9, <1>10, <1>11

\* Catching up as the last of a row of states.
Delivers(f, s, l, events) ==
    /\ CatchUp(s, l, events) = f[Len(events)]
    /\ f[0] = s
    /\ \A n \in 1..Len(events) : f[n] = ListenerReceives(f[n - 1], l, events[n])

LEMMA CatchUpUnfolds ==
    ASSUME NEW s, Typed(s), NEW l \in 1..Len(s.listener), NEW events \in Seq(Event)
    PROVE  \E f \in [0..Len(events) -> Alike(s)] : Delivers(f, s, l, events)
  <1> DEFINE N == Len(events)
             step == [p \in (1..N) \X Alike(s) |-> ListenerReceives(p[2], l, events[p[1]])]
             Body(n, x) == IF n = 0 THEN s ELSE ListenerReceives(x, l, events[n])
             after == CHOOSE g : g = [n \in 0..N |-> Body(n, g[n - 1])]
  <1>1. N \in Nat /\ \A n \in 1..N : events[n] \in Event
    BY LenProperties, ElementOfSeq
  <1>2. s \in Alike(s)
    BY DEF Typed, Alike
  <1>3. \A n \in 1..N, x \in Alike(s) : ListenerReceives(x, l, events[n]) \in Alike(s)
    BY <1>1, ReceivesAlike
  <1>4. /\ step \in [(1..N) \X Alike(s) -> Alike(s)]
        /\ \A n \in 1..N, x \in Alike(s) : step[<<n, x>>] = ListenerReceives(x, l, events[n])
    <2> HIDE DEF N
    <2> QED BY <1>3
  <1>5. PICK f \in [0..N -> Alike(s)] : Iterates(f, N, s, step)
    <2> HIDE DEF N, step
    <2> QED BY <1>1, <1>2, <1>4, IterationExists
  <1> HIDE DEF step
  <1>6. \A n \in 0..N : f[n] = Body(n, f[n - 1])
    <2> TAKE n \in 0..N
    <2>1. CASE n = 0
      BY <2>1, <1>5 DEF Iterates
    <2>2. CASE n # 0
      <3>1. n \in 1..N /\ n - 1 \in 0..N
        BY <2>2, <1>1
      <3>2. f[n - 1] \in Alike(s)
        BY <3>1, <1>5
      <3> HIDE DEF N
      <3>3. f[n] = step[<<n, f[n - 1]>>]
        BY <3>1, <1>5 DEF Iterates
      <3> QED BY <3>1, <3>2, <3>3, <1>4, <2>2
    <2> QED BY <2>1, <2>2
  <1>7. f = [n \in 0..N |-> Body(n, f[n - 1])]
    <2> HIDE DEF Body, N
    <2> QED BY <1>5, <1>6
  <1>8. after = [n \in 0..N |-> Body(n, after[n - 1])]
    <2> HIDE DEF Body, N
    <2> QED BY <1>7
  <1>9. CatchUp(s, l, events) = after[N]
    BY DEF CatchUp
  <1> HIDE DEF after, N
  <1>10. after[0] = s /\ \A n \in 1..N : after[n] = ListenerReceives(after[n - 1], l, events[n])
    <2>1. after[0] = s
      BY <1>8, <1>1
    <2>2. ASSUME NEW n \in 1..N PROVE after[n] = ListenerReceives(after[n - 1], l, events[n])
      <3>1. n \in 0..N /\ n # 0
        BY <1>1
      <3>2. after[n] = Body(n, after[n - 1])
        <4> HIDE DEF Body
        <4> QED BY <1>8, <3>1
      <3> QED BY <3>1, <3>2
    <2> QED BY <2>1, <2>2
  <1> HIDE DEF Body
  <1>11. \A n \in 0..N : after[n] \in Alike(s)
    <2>1. after[0] \in Alike(s) /\ \A n \in 1..N : after[n - 1] \in Alike(s) => after[n] \in Alike(s)
      BY <1>2, <1>3, <1>10
    <2> QED BY <1>1, <2>1, StaysIn
  <1>12. after \in [0..N -> Alike(s)]
    BY <1>8, <1>11
  <1> QED BY <1>9, <1>10, <1>12 DEF Delivers, N

LEMMA CatchUpAlike ==
    ASSUME NEW s, Typed(s), NEW l \in 1..Len(s.listener), NEW events \in Seq(Event)
    PROVE  CatchUp(s, l, events) \in Alike(s)
  <1>1. PICK f \in [0..Len(events) -> Alike(s)] : Delivers(f, s, l, events)
    BY CatchUpUnfolds
  <1>2. Len(events) \in 0..Len(events)
    BY LenProperties
  <1> QED BY <1>1, <1>2 DEF Delivers

-----------------------------------------------------------------------------
\* The operations of the cache and of a handle.

\* Numbers of items and listeners may grow under the records that hold them.
LEMMA MoreRecords ==
    ASSUME NEW n \in Nat, NEW m \in Nat, NEW n2 \in Nat, NEW m2 \in Nat, n <= n2, m <= m2
    PROVE  /\ ItemRecords(m) \subseteq ItemRecords(m2)
           /\ Seq(ItemRecords(m)) \subseteq Seq(ItemRecords(m2))
           /\ HandleRecords(n, m) \subseteq HandleRecords(n2, m2)
           /\ 0..n \subseteq 0..n2
  <1>1. 0..n \subseteq 0..n2 /\ 0..m \subseteq 0..m2 /\ 1..m \subseteq 1..m2
    OBVIOUS
  <1>2. Seq(1..m) \subseteq Seq(1..m2)
    BY <1>1, SeqMonotonic
  <1>3. ItemRecords(m) \subseteq ItemRecords(m2)
    BY <1>2 DEF ItemRecords
  <1>4. Seq(ItemRecords(m)) \subseteq Seq(ItemRecords(m2))
    BY <1>3, SeqMonotonic
  <1> QED BY <1>1, <1>3, <1>4 DEF HandleRecords

LEMMA NoneListening ==
    ASSUME NEW s, Typed(s), NEW i \in Nat, i > Len(s.item)
    PROVE  IsFiniteSet(UsersIn(s, i)) /\ Cardinality(UsersIn(s, i)) = 0
  <1>1. UsersIn(s, i) = {}
    BY TypedParts DEF UsersIn, HandleRecords
  <1> QED BY <1>1, FS_EmptySet

\* t is s, with an item more or not.
ItemAdded(s, t, k) ==
    /\ t.handle = s.handle /\ t.listener = s.listener
    /\ \A i \in 1..Len(s.item) : t.item[i] = s.item[i]
    /\ \/ Len(t.item) = Len(s.item)
       \/ Len(t.item) = Len(s.item) + 1 /\ t.item[Len(s.item) + 1] = NewItem(k)

LEMMA GetItemGood ==
    ASSUME NEW s, Good(s), NEW k \in Key
    PROVE  /\ Good(GetItem(s, k))
           /\ ItemAdded(s, GetItem(s, k), k)
           /\ GetItem(s, k).table[k] \in 1..Len(GetItem(s, k).item)
  <1> DEFINE n == Len(s.item)
             m == Len(s.listener)
             t == GetItem(s, k)
  <1>1. /\ n \in Nat /\ m \in Nat /\ s.table \in [Key -> 0..n] /\ s.item \in Seq(ItemRecords(m))
        /\ s.listener \in Seq(ListenerStreams) /\ s.handle \in [Handle -> HandleRecords(n, m)]
    BY TypedParts DEF Good
  <1>2. CASE s.table[k] # None
    BY <1>1, <1>2 DEF GetItem, None, ItemAdded
  <1>3. CASE s.table[k] = None
    <2>1. NewItem(k) \in ItemRecords(m) /\ NewItem(k).live_ref_count = 0
      BY EmptySeq DEF NewItem, ItemRecords
    <2>2. /\ Append(s.item, NewItem(k)) \in Seq(ItemRecords(m))
          /\ Len(Append(s.item, NewItem(k))) = n + 1
          /\ \A i \in 1..n : Append(s.item, NewItem(k))[i] = s.item[i]
          /\ Append(s.item, NewItem(k))[n + 1] = NewItem(k)
      BY <1>1, <2>1, AppendProperties
    <2> HIDE DEF n, m
    <2>3. /\ t.table = [s.table EXCEPT ![k] = n + 1] /\ t.item = Append(s.item, NewItem(k))
          /\ t.listener = s.listener /\ t.handle = s.handle
          /\ t = [table |-> [s.table EXCEPT ![k] = n + 1], item |-> Append(s.item, NewItem(k)),
                  listener |-> s.listener, handle |-> s.handle]
      <3>1. t = [s EXCEPT !.table[k] = n + 1, !.item = Append(@, NewItem(k))]
        BY <1>3 DEF GetItem, n
      <3>2. s = [table |-> s.table, item |-> s.item, listener |-> s.listener, handle |-> s.handle]
        BY TypedParts DEF Good
      <3> QED BY <3>1, <3>2
    <2> HIDE DEF t
    <2>4. t.table \in [Key -> 0..(n + 1)] /\ t.table[k] = n + 1
      BY <1>1, <2>3
    <2>5. s.handle \in [Handle -> HandleRecords(n + 1, m)]
      BY <1>1, MoreRecords
    <2>6. Typed(t)
      <3>1. Len(t.item) = n + 1 /\ Len(t.listener) = m
        BY <2>2, <2>3 DEF m
      <3>2. t \in States(n + 1, m)
        BY <1>1, <2>2, <2>3, <2>4, <2>5 DEF States
      <3> QED BY <3>1, <3>2 DEF Typed
    <2>7. \A i : UsersIn(t, i) = UsersIn(s, i)
      BY <2>3 DEF UsersIn
    <2>8. IsFiniteSet(UsersIn(s, n + 1)) /\ Cardinality(UsersIn(s, n + 1)) = 0
      BY <1>1, NoneListening DEF Good, n
    <2>9. \A i \in 1..(n + 1) :
             IsFiniteSet(UsersIn(t, i)) /\ t.item[i].live_ref_count = Cardinality(UsersIn(t, i))
      <3> TAKE i \in 1..(n + 1)
      <3>1. CASE i = n + 1
        BY <3>1, <2>1, <2>2, <2>3, <2>7, <2>8
      <3>2. CASE i # n + 1
        <4>1. i \in 1..n
          BY <1>1, <3>2
        <4> QED BY <4>1, <2>2, <2>3, <2>7, ZenonT(60) DEF Good, Counted, n
      <3> QED BY <3>1, <3>2
    <2>10. Counted(t)
      BY <2>2, <2>3, <2>9 DEF Good, Counted
    <2>11. ItemAdded(s, t, k)
      BY <2>2, <2>3 DEF ItemAdded, n
    <2> QED BY <1>1, <2>2, <2>3, <2>4, <2>6, <2>10, <2>11 DEF Good, t
  <1> QED BY <1>2, <1>3

\* t is s with the listener of h closed.
ListenerClosed(s, t, h) ==
    /\ \A i \in 1..Len(s.item) : /\ t.item[i].listeners = s.item[i].listeners
                                 /\ t.item[i].received_events = s.item[i].received_events
                                 /\ t.item[i].source = s.item[i].source
    /\ t.listener[s.handle[h].listener].closedByDownstream
    /\ \A l \in 1..Len(s.listener) : l # s.handle[h].listener => t.listener[l] = s.listener[l]
    /\ \A g \in Handle : g # h => t.handle[g] = s.handle[g]
    /\ t.handle[h].seen = IF s.handle[h].update = "open" THEN <<>> ELSE s.handle[h].seen

\* closeListener() gives one use back, of the item the handle is still at.
LEMMA CloseListenerGood ==
    ASSUME NEW s, Good(s), NEW h \in Handle
    PROVE  /\ Good(CloseListener(s, h))
           /\ CloseListener(s, h).handle[h].listener = None
           /\ CloseListener(s, h).handle[h].update = s.handle[h].update
           /\ Len(CloseListener(s, h).item) = Len(s.item)
           /\ Len(CloseListener(s, h).listener) = Len(s.listener)
           /\ s.handle[h].listener = None => CloseListener(s, h) = s
           /\ s.handle[h].listener # None => ListenerClosed(s, CloseListener(s, h), h)
  <1> DEFINE n == Len(s.item)
             m == Len(s.listener)
             l == s.handle[h].listener
             i == s.handle[h].current
             refs == s.item[i].live_ref_count
             t == CloseListener(s, h)
             seen == IF s.handle[h].update = "open" THEN <<>> ELSE s.handle[h].seen
             ls == [s.listener EXCEPT ![l].closedByDownstream = TRUE]
             moved == [s.handle[h] EXCEPT !.listener = None, !.seen = seen]
             hs == [s.handle EXCEPT ![h] = moved]
             its == [s.item EXCEPT ![i].live_ref_count = refs - 1]
             table == [s.table EXCEPT ![s.item[i].key] = IF refs = 1 THEN None ELSE @]
  <1>1. /\ n \in Nat /\ m \in Nat /\ s.table \in [Key -> 0..n] /\ s.item \in Seq(ItemRecords(m))
        /\ s.listener \in Seq(ListenerStreams) /\ s.handle \in [Handle -> HandleRecords(n, m)]
        /\ DOMAIN s.item = 1..n /\ DOMAIN s.listener = 1..m
    BY TypedParts DEF Good
  <1>2. s.handle[h] \in HandleRecords(n, m)
    BY <1>1
  <1>3. CASE l = None
    BY <1>3 DEF CloseListener
  <1>4. CASE l # None
    <2>1. l \in 1..m /\ i \in 1..n /\ seen \in Seq(Event)
      <3>1. l \in 0..m /\ i \in 0..n /\ s.handle[h].seen \in Seq(Event)
        BY <1>2 DEF HandleRecords
      <3> QED BY <3>1, <1>1, <1>4, EmptySeq DEF Good, Counted, None
    <2>2. s.item[i] \in ItemRecords(m) /\ s.listener[l] \in ListenerStreams
      BY <1>1, <2>1, ElementOfSeq
    <2>3. /\ h \in UsersIn(s, i) /\ IsFiniteSet(UsersIn(s, i))
          /\ refs = Cardinality(UsersIn(s, i))
      BY <1>4, <2>1 DEF UsersIn, Good, Counted
    <2>4. /\ IsFiniteSet(UsersIn(s, i) \ {h})
          /\ Cardinality(UsersIn(s, i) \ {h}) = refs - 1
      BY <2>3, FS_RemoveElement
    <2>5. refs \in Nat /\ refs - 1 \in Nat
      BY <2>4, <2>2, FS_CardinalityType DEF ItemRecords
    <2>6. t = [table |-> table, item |-> its, listener |-> ls, handle |-> hs]
      <3>1. s = [table |-> s.table, item |-> s.item, listener |-> s.listener, handle |-> s.handle]
        BY TypedParts DEF Good
      <3>2. t = DecRef([s EXCEPT !.listener[l].closedByDownstream = TRUE,
                              !.handle[h].listener = None,
                              !.handle[h].seen = IF s.handle[h].update = "open" THEN <<>> ELSE @], i)
        BY <1>4 DEF CloseListener
      <3>3. [s EXCEPT !.listener[l].closedByDownstream = TRUE,
                              !.handle[h].listener = None,
                              !.handle[h].seen = IF s.handle[h].update = "open" THEN <<>> ELSE @]
              = [table |-> s.table, item |-> s.item, listener |-> ls, handle |-> hs]
        <4> DEFINE hs2 == [s.handle EXCEPT ![h].listener = None,
                                           ![h].seen = IF s.handle[h].update = "open" THEN <<>> ELSE @]
        <4>1. hs2 = hs
          BY <1>1, <1>2 DEF HandleRecords
        <4>2. [s EXCEPT !.listener[l].closedByDownstream = TRUE,
                              !.handle[h].listener = None,
                              !.handle[h].seen = IF s.handle[h].update = "open" THEN <<>> ELSE @]
                = [s EXCEPT !.listener = ls, !.handle = hs2]
          BY <3>1
        <4> HIDE DEF ls, hs, hs2
        <4>3. [s EXCEPT !.listener = ls, !.handle = hs2]
                = [table |-> s.table, item |-> s.item, listener |-> ls, handle |-> hs2]
          BY ONLY <3>1, UpdatedParts
        <4> QED BY ONLY <4>1, <4>2, <4>3, Zenon
      <3>4. refs # 0
        BY <2>5
      <3> HIDE DEF ls, hs
      <3>5. t = DecRef([table |-> s.table, item |-> s.item, listener |-> ls, handle |-> hs], i)
        BY <3>2, <3>3
      <3> QED BY <3>4, <3>5 DEF DecRef
    <2>7. /\ table \in [Key -> 0..n]
          /\ its \in Seq(ItemRecords(m)) /\ Len(its) = n
          /\ ls \in Seq(ListenerStreams) /\ Len(ls) = m
          /\ hs \in [Handle -> HandleRecords(n, m)]
      <3>1. table \in [Key -> 0..n]
        <4>1. s.item[i].key \in Key
          BY <2>2 DEF ItemRecords
        <4>2. (IF refs = 1 THEN None ELSE s.table[s.item[i].key]) \in 0..n
          <5> DEFINE key == s.item[i].key
          <5>1. key \in Key
            BY <4>1
          <5> HIDE DEF refs, n, key
          <5>2. s.table[key] \in 0..n
            BY <5>1, <1>1
          <5>3. None \in 0..n
            BY <1>1 DEF None
          <5> QED BY <5>2, <5>3 DEF key
        <4> HIDE DEF refs, n
        <4> QED BY <4>1, <4>2, <1>1
      <3>2. [s.item[i] EXCEPT !.live_ref_count = refs - 1] \in ItemRecords(m)
        BY <2>2, <2>5 DEF ItemRecords
      <3>3. its \in Seq(ItemRecords(m)) /\ Len(its) = n
        BY <3>2, <1>1, <2>1, ExceptSeq
      <3>4. [s.listener[l] EXCEPT !.closedByDownstream = TRUE] \in ListenerStreams
        BY <2>2 DEF ListenerStreams
      <3>5. ls \in Seq(ListenerStreams) /\ Len(ls) = m
        BY <3>4, <1>1, <2>1, ExceptSeq
      <3>6. hs \in [Handle -> HandleRecords(n, m)]
        <4> HIDE DEF seen
        <4>1. moved \in HandleRecords(n, m)
          <5>1. 0 \in 0..m
            BY <1>1
          <5> HIDE DEF n, m
          <5> QED BY <5>1, <1>2, <2>1 DEF HandleRecords, None
        <4> HIDE DEF moved
        <4> QED BY <1>1, <4>1
      <3> QED BY <3>1, <3>3, <3>5, <3>6
    <2>8. /\ \A j \in 1..n : its[j].live_ref_count
                               = IF j = i THEN refs - 1 ELSE s.item[j].live_ref_count
          /\ hs[h].listener = None /\ hs[h].update = s.handle[h].update
          /\ hs[h].current = s.handle[h].current
          /\ \A g \in Handle \ {h} : hs[g] = s.handle[g]
      BY <1>1, <1>2, <2>1, <2>2 DEF HandleRecords, ItemRecords
    <2>13. /\ \A j \in 1..n : /\ its[j].listeners = s.item[j].listeners
                              /\ its[j].received_events = s.item[j].received_events
                              /\ its[j].source = s.item[j].source
           /\ ls[l].closedByDownstream
           /\ \A k \in 1..m : k # l => ls[k] = s.listener[k]
           /\ hs[h].seen = seen
      <3>1. \A j \in 1..n : /\ its[j].listeners = s.item[j].listeners
                            /\ its[j].received_events = s.item[j].received_events
                            /\ its[j].source = s.item[j].source
        BY <1>1, <2>1, <2>2 DEF ItemRecords
      <3>2. ls[l].closedByDownstream /\ \A k \in 1..m : k # l => ls[k] = s.listener[k]
        BY <1>1, <2>1, <2>2 DEF ListenerStreams
      <3>3. hs[h].seen = seen
        <4> HIDE DEF seen
        <4> QED BY <1>1, <1>2, <2>1 DEF HandleRecords
      <3> QED BY <3>1, <3>2, <3>3
    <2> HIDE DEF table, its, ls, hs, t, refs, n, m
    <2>14. ListenerClosed(s, t, h)
      BY <2>6, <2>8, <2>13 DEF ListenerClosed, n, m
    <2>9. Typed(t)
      BY <2>6, <2>7 DEF Typed, States
    <2>10. UsersIn(t, i) = UsersIn(s, i) \ {h} /\ \A j \in 1..n : j # i => UsersIn(t, j) = UsersIn(s, j)
      BY <2>6, <2>8 DEF UsersIn
    <2>11. \A j \in 1..n :
              IsFiniteSet(UsersIn(t, j)) /\ t.item[j].live_ref_count = Cardinality(UsersIn(t, j))
      <3> TAKE j \in 1..n
      <3>1. CASE j = i
        BY <3>1, <2>4, <2>6, <2>8, <2>10
      <3>2. CASE j # i
        BY <3>2, <2>6, <2>8, <2>10 DEF Good, Counted, n
      <3> QED BY <3>1, <3>2
    <2>12. Counted(t)
      BY <2>6, <2>7, <2>8, <2>11 DEF Good, Counted
    <2> QED BY <1>4, <2>6, <2>7, <2>8, <2>9, <2>12, <2>14 DEF Good, t, n, m
  <1> QED BY <1>3, <1>4

\* Changes of a handle that is at no item's listeners, or stays where it is.
LEMMA HandleGood ==
    ASSUME NEW s, Good(s), NEW h \in Handle,
           NEW r \in HandleRecords(Len(s.item), Len(s.listener)),
           r.listener = s.handle[h].listener,
           r.listener # None => r.update # "none" /\ r.current = s.handle[h].current
    PROVE  /\ Good([s EXCEPT !.handle[h] = r])
           /\ [s EXCEPT !.handle[h] = r].item = s.item
           /\ [s EXCEPT !.handle[h] = r].listener = s.listener
           /\ [s EXCEPT !.handle[h] = r].table = s.table
           /\ [s EXCEPT !.handle[h] = r].handle[h] = r
           /\ \A g \in Handle \ {h} : [s EXCEPT !.handle[h] = r].handle[g] = s.handle[g]
  <1> DEFINE n == Len(s.item)
             m == Len(s.listener)
             hs == [s.handle EXCEPT ![h] = r]
             t == [s EXCEPT !.handle[h] = r]
  <1>1. /\ n \in Nat /\ m \in Nat /\ s.table \in [Key -> 0..n] /\ s.item \in Seq(ItemRecords(m))
        /\ s.listener \in Seq(ListenerStreams) /\ s.handle \in [Handle -> HandleRecords(n, m)]
        /\ s = [table |-> s.table, item |-> s.item, listener |-> s.listener, handle |-> s.handle]
    BY TypedParts DEF Good
  <1>2. /\ hs \in [Handle -> HandleRecords(n, m)] /\ hs[h] = r
        /\ \A g \in Handle \ {h} : hs[g] = s.handle[g]
    <2> HIDE DEF n, m
    <2> QED BY <1>1 DEF n, m
  <1>3. t = [table |-> s.table, item |-> s.item, listener |-> s.listener, handle |-> hs]
    <2>1. t = [s EXCEPT !.handle = hs]
      OBVIOUS
    <2> HIDE DEF hs
    <2> QED BY ONLY <1>1, <2>1
  <1> HIDE DEF hs, t
  <1>4. Typed(t)
    BY <1>1, <1>2, <1>3 DEF Typed, States
  <1>5. \A i : UsersIn(t, i) = UsersIn(s, i)
    BY <1>2, <1>3 DEF UsersIn
  <1>6. \A g \in Handle : t.handle[g].listener # None =>
           t.handle[g].update # "none" /\ t.handle[g].current # None
    <2> TAKE g \in Handle
    <2>1. CASE g = h
      BY <2>1, <1>2, <1>3 DEF Good, Counted
    <2>2. CASE g # h
      BY <2>2, <1>2, <1>3 DEF Good, Counted
    <2> QED BY <2>1, <2>2
  <1>7. Counted(t)
    BY <1>3, <1>5, <1>6 DEF Good, Counted
  <1> QED BY <1>2, <1>3, <1>4, <1>7 DEF Good, t

\* u is s with a new listener of h, which has yet to catch up.
ListenerAdded(s, u, h) ==
    LET i == s.handle[h].current
        l == Len(s.listener) + 1
        n == Len(s.item[i].listeners)
    IN  /\ Len(u.item) = Len(s.item) /\ Len(u.listener) = l
        /\ \A j \in 1..Len(s.item) : j # i => u.item[j] = s.item[j]
        /\ u.item[i].received_events = s.item[i].received_events /\ u.item[i].source = s.item[i].source
        /\ Len(u.item[i].listeners) = n + 1 /\ u.item[i].listeners[n + 1] = l
        /\ \A p \in 1..n : u.item[i].listeners[p] = s.item[i].listeners[p]
        /\ \A k \in 1..Len(s.listener) : u.listener[k] = s.listener[k]
        /\ u.listener[l].of = h /\ ~IsClosed(u, l)
        /\ u.listener[l].joined = IF delivery.item = i THEN Len(s.item[i].received_events) ELSE 0
        /\ \A g \in Handle : g # h => u.handle[g] = s.handle[g]
        /\ u.handle[h] = [s.handle[h] EXCEPT !.listener = l]

\* A listener more is a use more.
LEMMA OpenListenerGood ==
    ASSUME NEW s, Good(s), NEW h \in Handle, s.handle[h].listener = None,
           s.handle[h].update # "none", s.handle[h].current # None
    PROVE  /\ Good(OpenListener(s, h))
           /\ Len(OpenListener(s, h).item) = Len(s.item)
           /\ \E u : /\ Good(u) /\ ListenerAdded(s, u, h)
                     /\ OpenListener(s, h) =
                          CatchUp(u, Len(s.listener) + 1, s.item[s.handle[h].current].received_events)
  <1> DEFINE n == Len(s.item)
             m == Len(s.listener)
             i == s.handle[h].current
             l == m + 1
             it == s.item[i]
             new == [NewListener EXCEPT
                       !.of = h, !.joined = IF delivery.item = i THEN Len(it.received_events) ELSE 0]
             ls == Append(s.listener, new)
             used == WithListener(it, l)
             its == [s.item EXCEPT ![i] = used]
             moved == [s.handle[h] EXCEPT !.listener = l]
             hs == [s.handle EXCEPT ![h] = moved]
             open == [table |-> s.table, item |-> its, listener |-> ls, handle |-> hs]
             t == CatchUp(open, l, it.received_events)
  <1>1. /\ n \in Nat /\ m \in Nat /\ s.table \in [Key -> 0..n] /\ s.item \in Seq(ItemRecords(m))
        /\ s.listener \in Seq(ListenerStreams) /\ s.handle \in [Handle -> HandleRecords(n, m)]
        /\ DOMAIN s.item = 1..n /\ DOMAIN s.listener = 1..m
        /\ s = [table |-> s.table, item |-> s.item, listener |-> s.listener, handle |-> s.handle]
    BY TypedParts DEF Good
  <1>2. s.handle[h] \in HandleRecords(n, m)
    BY <1>1
  <1>3. i \in 1..n
    <2>1. i \in 0..n
      BY <1>2 DEF HandleRecords
    <2> QED BY <2>1, <1>1 DEF None
  <1>4. it \in ItemRecords(m) /\ it.received_events \in Seq(Event) /\ it.live_ref_count \in Nat
        /\ it.listeners \in Seq(1..m)
    <2>1. it \in ItemRecords(m)
      BY <1>1, <1>3, ElementOfSeq
    <2> HIDE DEF it
    <2> QED BY <2>1 DEF ItemRecords
  <1>5. OpenListener(s, h) = t
    <2> DEFINE hs2 == [s.handle EXCEPT ![h].listener = l]
               flat == [s EXCEPT !.listener = Append(@, new), !.item[i] = WithListener(@, l),
                                 !.handle[h].listener = l]
    <2>1. OpenListener(s, h) = CatchUp(flat, l, it.received_events)
      BY DEF OpenListener
    <2>2. hs2 = hs
      OBVIOUS
    <2>3. flat = [s EXCEPT !.listener = ls, !.item = its, !.handle = hs2]
      BY <1>1
    <2>4. s = [table |-> s.table, item |-> s.item, listener |-> s.listener, handle |-> s.handle]
      BY <1>1
    <2> HIDE DEF its, hs, hs2, i, l, it, new, ls, flat
    <2> DEFINE a1 == [s EXCEPT !.listener = ls]
               a2 == [a1 EXCEPT !.item = its]
               a3 == [a2 EXCEPT !.handle = hs2]
    <2>5. flat = a3
      BY ONLY <2>3
    <2>6. a1 = [table |-> s.table, item |-> s.item, listener |-> ls, handle |-> s.handle]
      BY ONLY <2>4
    <2> HIDE DEF a1
    <2>7. a2 = [table |-> s.table, item |-> its, listener |-> ls, handle |-> s.handle]
      BY ONLY <2>6
    <2> HIDE DEF a2
    <2>8. a3 = [table |-> s.table, item |-> its, listener |-> ls, handle |-> hs2]
      BY ONLY <2>7
    <2> HIDE DEF a3
    <2>9. flat = open
      BY ONLY <2>2, <2>5, <2>8, Zenon DEF open
    <2> QED BY ONLY <2>1, <2>9, Zenon DEF t
  <1>6. new \in ListenerStreams
    <2>1. Len(it.received_events) \in Nat
      BY <1>4, LenProperties
    <2> HIDE DEF it, i
    <2> QED BY <2>1 DEF NewListener, ListenerStreams
  <1>7. ls \in Seq(ListenerStreams) /\ Len(ls) = m + 1
    <2> HIDE DEF new
    <2> QED BY <1>1, <1>6, AppendProperties
  <1>8. used \in ItemRecords(m + 1) /\ used.live_ref_count = it.live_ref_count + 1
    <2>1. it \in ItemRecords(m + 1) /\ it.listeners \in Seq(1..(m + 1)) /\ l \in 1..(m + 1)
      <3>1. it \in ItemRecords(m + 1)
        <4> HIDE DEF it, m, n
        <4>1. ItemRecords(m) \subseteq ItemRecords(m + 1)
          BY <1>1, MoreRecords
        <4> QED BY <4>1, <1>4
      <3> HIDE DEF it
      <3> QED BY <3>1, <1>1 DEF ItemRecords
    <2>2. Append(it.listeners, l) \in Seq(1..(m + 1))
      <3> HIDE DEF it
      <3> QED BY <2>1, AppendProperties
    <2> HIDE DEF it, l, m
    <2>3. used = [it EXCEPT !.listeners = Append(it.listeners, l),
                            !.live_ref_count = it.live_ref_count + 1]
      BY <2>1 DEF ItemRecords, WithListener
    <2>4. it.live_ref_count + 1 \in Nat
      BY <1>4
    <2> DEFINE more == Append(it.listeners, l)
               count == it.live_ref_count + 1
    <2> HIDE DEF used, more, count
    <2>5. used = [it EXCEPT !.listeners = more, !.live_ref_count = count]
      BY <2>3 DEF more, count
    <2>6. more \in Seq(1..(m + 1)) /\ count \in Nat
      BY <2>2, <2>4 DEF more, count
    <2>7. used \in ItemRecords(m + 1) /\ used.live_ref_count = count
      BY <2>1, <2>5, <2>6 DEF ItemRecords
    <2> QED BY <2>7 DEF count
  <1>9. its \in Seq(ItemRecords(m + 1)) /\ Len(its) = n
        /\ its[i] = used /\ \A j \in (1..n) \ {i} : its[j] = s.item[j]
    <2>1. s.item \in Seq(ItemRecords(m + 1))
      <3> HIDE DEF m
      <3> QED BY <1>1, MoreRecords, SMTT(40)
    <2> HIDE DEF used, i, m
    <2> QED BY <2>1, <1>1, <1>3, <1>8, ExceptSeq
  <1>10. /\ moved \in HandleRecords(n, m + 1) /\ moved.listener = l /\ moved.current = i
         /\ moved.update = s.handle[h].update
    <2>1. s.handle[h] \in HandleRecords(n, m + 1) /\ l \in 0..(m + 1)
      <3> HIDE DEF n, m
      <3> QED BY <1>1, <1>2, MoreRecords
    <2> HIDE DEF l, n, m
    <2> QED BY <2>1 DEF HandleRecords
  <1>11. /\ hs \in [Handle -> HandleRecords(n, m + 1)] /\ hs[h] = moved
         /\ \A g \in Handle \ {h} : hs[g] = s.handle[g]
    <2>1. s.handle \in [Handle -> HandleRecords(n, m + 1)]
      <3> HIDE DEF n, m
      <3> QED BY <1>1, MoreRecords
    <2> HIDE DEF n, m, moved
    <2> QED BY <2>1, <1>10, <1>1
  <1>12. l # None /\ i # None /\ l \in 1..(m + 1)
    BY <1>1, <1>3 DEF None
  <1>20. ListenerAdded(s, open, h)
    <2> DEFINE joined == IF delivery.item = i THEN Len(it.received_events) ELSE 0
    <2>1. /\ ls[l] = new /\ \A k \in 1..m : ls[k] = s.listener[k]
      <3> HIDE DEF new
      <3> QED BY <1>1, <1>6, AppendProperties
    <2>2. new.of = h /\ ~new.closedByUpstream /\ ~new.closedByDownstream /\ new.joined = joined
      <3> HIDE DEF joined
      <3>1. new = [NewListener EXCEPT !.of = h, !.joined = joined]
        BY DEF joined
      <3> QED BY <3>1 DEF NewListener
    <2>3. /\ used.received_events = it.received_events /\ used.source = it.source
          /\ used.listeners = Append(it.listeners, l)
      <3> HIDE DEF it
      <3> QED BY <1>4 DEF WithListener, ItemRecords
    <2>4. /\ Len(used.listeners) = Len(it.listeners) + 1 /\ used.listeners[Len(it.listeners) + 1] = l
          /\ \A p \in 1..Len(it.listeners) : used.listeners[p] = it.listeners[p]
      <3>1. it.listeners \in Seq(Nat) /\ l \in Nat
        <4>1. 1..m \subseteq Nat
          BY <1>1
        <4>2. Seq(1..m) \subseteq Seq(Nat)
          BY <4>1, SeqMonotonic
        <4> HIDE DEF it, m
        <4> QED BY <1>1, <1>4, <4>2
      <3> HIDE DEF used, it, l
      <3> QED BY <2>3, <3>1, AppendProperties
    <2> HIDE DEF n, m, l, new, ls, used, its, moved, hs, it, joined
    <2>5. /\ open.item = its /\ open.listener = ls /\ open.handle = hs
      OBVIOUS
    <2> HIDE DEF open
    <2>6. /\ Len(open.item) = n /\ Len(open.listener) = l
          /\ \A j \in 1..n : j # i => open.item[j] = s.item[j]
          /\ open.item[i] = used /\ open.listener[l] = new
          /\ \A k \in 1..m : open.listener[k] = s.listener[k]
          /\ \A g \in Handle : g # h => open.handle[g] = s.handle[g]
          /\ open.handle[h] = moved
      BY <1>7, <1>9, <1>11, <2>1, <2>5 DEF l
    <2> QED BY <2>2, <2>3, <2>4, <2>6 DEF ListenerAdded, IsClosed, n, m, l, i, it, moved, joined
  <1> HIDE DEF n, m, i, l, new, ls, used, its, moved, hs, it
  <1>13. Typed(open)
    BY <1>1, <1>7, <1>9, <1>11 DEF Typed, States
  <1>14. /\ UsersIn(open, i) = UsersIn(s, i) \cup {h} /\ h \notin UsersIn(s, i)
         /\ \A j \in 1..n : j # i => UsersIn(open, j) = UsersIn(s, j)
    BY <1>10, <1>11, <1>12 DEF UsersIn
  <1>15. \A j \in 1..n :
            IsFiniteSet(UsersIn(open, j)) /\ its[j].live_ref_count = Cardinality(UsersIn(open, j))
    <2> TAKE j \in 1..n
    <2> HIDE DEF open
    <2>1. IsFiniteSet(UsersIn(s, j)) /\ s.item[j].live_ref_count = Cardinality(UsersIn(s, j))
      BY DEF Good, Counted, n
    <2>2. CASE j = i
      <3>1. /\ IsFiniteSet(UsersIn(s, i) \cup {h})
            /\ Cardinality(UsersIn(s, i) \cup {h}) = Cardinality(UsersIn(s, i)) + 1
        BY <2>1, <2>2, <1>14, FS_AddElement
      <3>2. its[j].live_ref_count = Cardinality(UsersIn(s, i)) + 1
        BY <2>1, <2>2, <1>8, <1>9 DEF it
      <3> QED BY <3>1, <3>2, <2>2, <1>14
    <2>3. CASE j # i
      BY <2>1, <2>3, <1>9, <1>14
    <2> QED BY <2>2, <2>3
  <1>16. \A g \in Handle : hs[g].listener # None => hs[g].update # "none" /\ hs[g].current # None
    <2> TAKE g \in Handle
    <2>1. CASE g = h
      BY <2>1, <1>10, <1>11, <1>12
    <2>2. CASE g # h
      BY <2>2, <1>11 DEF Good, Counted
    <2> QED BY <2>1, <2>2
  <1>17. Good(open) /\ Len(open.listener) = m + 1 /\ Len(open.item) = n
    BY <1>7, <1>9, <1>13, <1>15, <1>16 DEF Good, Counted
  <1> HIDE DEF open
  <1>18. t \in Alike(open)
    BY <1>4, <1>12, <1>17, CatchUpAlike DEF Good
  <1>19. Good(t) /\ t.item = open.item
    <2> HIDE DEF t
    <2> QED BY <1>17, <1>18, AlikeGood DEF Alike
  <1>21. OpenListener(s, h)
           = CatchUp(open, Len(s.listener) + 1, s.item[s.handle[h].current].received_events)
    BY <1>5 DEF t, l, m, it, i
  <1> QED BY <1>5, <1>17, <1>19, <1>20, <1>21 DEF n

\* t is s with a handle that has no listener at item i.
HandlePut(s, t, h, i) ==
    /\ t.item = s.item /\ t.listener = s.listener
    /\ \A g \in Handle : g # h => t.handle[g] = s.handle[g]
    /\ s.handle[h].listener = None /\ t.handle[h].listener = None
    /\ t.handle[h].current = i
    /\ t.handle[h].update = s.handle[h].update /\ t.handle[h].seen = s.handle[h].seen

LEMMA HandlePutGood ==
    ASSUME NEW s, Good(s), NEW h \in Handle, s.handle[h].listener = None, NEW i \in 0..Len(s.item)
    PROVE  Good([s EXCEPT !.handle[h].current = i]) /\ HandlePut(s, [s EXCEPT !.handle[h].current = i], h, i)
  <1> DEFINE r == [s.handle[h] EXCEPT !.current = i]
             t == [s EXCEPT !.handle[h] = r]
  <1>1. s.handle[h] \in HandleRecords(Len(s.item), Len(s.listener))
    BY TypedParts DEF Good
  <1>2. /\ r \in HandleRecords(Len(s.item), Len(s.listener)) /\ r.listener = s.handle[h].listener
        /\ r.current = i /\ r.update = s.handle[h].update /\ r.seen = s.handle[h].seen
    BY <1>1 DEF HandleRecords
  <1>3. t = [s EXCEPT !.handle[h].current = i]
    BY TypedParts DEF Good
  <1>4. /\ Good(t) /\ t.item = s.item /\ t.listener = s.listener /\ t.handle[h] = r
        /\ \A g \in Handle \ {h} : t.handle[g] = s.handle[g]
    <2> HIDE DEF r
    <2> QED BY <1>2, HandleGood
  <1> HIDE DEF r, t
  <1> QED BY <1>2, <1>3, <1>4 DEF HandlePut

LEMMA MoveToCases ==
    ASSUME NEW s, Good(s), NEW h \in Handle, NEW i \in 1..Len(s.item), NEW t, t = MoveTo(s, h, i)
    PROVE  \/ t = s
           \/ Good(t) /\ HandlePut(s, t, h, i)
           \/ t = CloseListener(s, h)
           \/ \E u : /\ Good(u) /\ HandlePut(CloseListener(s, h), u, h, i)
                     /\ s.handle[h].update # "none" /\ t = OpenListener(u, h)
  <1> DEFINE closed == CloseListener(s, h)
             moved == [closed EXCEPT !.handle[h].current = i]
  <1>1. /\ Good(closed) /\ closed.handle[h].listener = None
        /\ closed.handle[h].update = s.handle[h].update /\ Len(closed.item) = Len(s.item)
    BY CloseListenerGood
  <1>2. i \in 0..Len(s.item)
    BY TypedParts DEF Good
  <1>3. CASE s.handle[h].current = i
    BY <1>3 DEF MoveTo
  <1>4. CASE s.handle[h].current # i /\ s.handle[h].update = "none"
    <2>1. s.handle[h].listener = None
      BY <1>4 DEF Good, Counted
    <2>2. t = [s EXCEPT !.handle[h].current = i]
      BY <1>4 DEF MoveTo, CloseListenerThrows
    <2> QED BY <1>2, <2>1, <2>2, HandlePutGood
  <1>5. CASE s.handle[h].current # i /\ s.handle[h].update # "none" /\ CloseListenerThrows(s, h)
    BY <1>5 DEF MoveTo
  <1>6. CASE s.handle[h].current # i /\ s.handle[h].update # "none" /\ ~CloseListenerThrows(s, h)
    <2>1. t = OpenListener(moved, h)
      BY <1>6 DEF MoveTo
    <2> HIDE DEF closed
    <2>2. Good(moved) /\ HandlePut(closed, moved, h, i)
      BY <1>1, <1>2, HandlePutGood
    <2> HIDE DEF moved
    <2> QED BY <1>6, <2>1, <2>2 DEF closed
  <1> QED BY <1>3, <1>4, <1>5, <1>6

LEMMA MoveToGood ==
    ASSUME NEW s, Good(s), NEW h \in Handle, NEW i \in 1..Len(s.item)
    PROVE  /\ Good(MoveTo(s, h, i))
           /\ Len(MoveTo(s, h, i).item) = Len(s.item)
  <1> DEFINE t == MoveTo(s, h, i)
             closed == CloseListener(s, h)
  <1>1. /\ Good(closed) /\ closed.handle[h].listener = None
        /\ closed.handle[h].update = s.handle[h].update /\ Len(closed.item) = Len(s.item)
    BY CloseListenerGood
  <1>2. i # None
    BY TypedParts DEF Good, None
  <1>3. \/ t = s
        \/ Good(t) /\ HandlePut(s, t, h, i)
        \/ t = closed
        \/ \E u : /\ Good(u) /\ HandlePut(closed, u, h, i)
                  /\ s.handle[h].update # "none" /\ t = OpenListener(u, h)
    BY MoveToCases
  <1> HIDE DEF t, closed
  <1>4. ASSUME NEW u, Good(u), HandlePut(closed, u, h, i), s.handle[h].update # "none", t = OpenListener(u, h)
        PROVE  Good(t) /\ Len(t.item) = Len(s.item)
    <2>1. /\ u.handle[h].listener = None /\ u.handle[h].update # "none" /\ u.handle[h].current # None
          /\ Len(u.item) = Len(s.item)
      BY <1>1, <1>2, <1>4 DEF HandlePut
    <2> QED BY <1>4, <2>1, OpenListenerGood
  <1>5. Good(t) /\ Len(t.item) = Len(s.item)
    BY <1>1, <1>3, <1>4 DEF HandlePut
  <1> QED BY <1>5 DEF t

-----------------------------------------------------------------------------
\* The inductive invariant.

DeliveryTyped ==
    delivery \in [item : 0..Len(objects.item), event : Event, next : Nat \ {0},
                  anyClosed : BOOLEAN, inCallback : BOOLEAN]

InBounds == Len(objects.item) <= MaxItems /\ Len(objects.listener) <= MaxListeners

CacheInv ==
    /\ Good(objects)
    /\ DeliveryTyped
    /\ InBounds
    /\ refreshes \in 0..MaxRefreshes

LEMMA InitCache == Init => CacheInv
  <1> SUFFICES ASSUME Init PROVE CacheInv
    OBVIOUS
  <1> DEFINE hs == [h \in Handle |-> NewHandle]
             table == [k \in Key |-> None]
  <1>1. /\ objects = [table |-> table, item |-> <<>>, listener |-> <<>>, handle |-> hs]
        /\ Len(objects.item) = 0 /\ Len(objects.listener) = 0
    BY EmptySeq DEF Init
  <1>2. Typed(objects)
    <2>1. /\ hs \in [Handle -> HandleRecords(0, 0)] /\ table \in [Key -> 0..0]
          /\ <<>> \in Seq(ItemRecords(0)) /\ <<>> \in Seq(ListenerStreams)
      BY EmptySeq DEF HandleRecords, NewHandle, None
    <2> HIDE DEF hs, table
    <2> QED BY <1>1, <2>1 DEF Typed, States
  <1>3. Counted(objects)
    BY <1>1 DEF Counted, NewHandle
  <1>4. DeliveryTyped
    BY <1>1, EventTypes DEF DeliveryTyped, Init, NoDelivery, None
  <1>5. InBounds /\ refreshes \in 0..MaxRefreshes
    BY <1>1, CacheBoundAssumption DEF InBounds, Init
  <1> QED BY <1>2, <1>3, <1>4, <1>5 DEF CacheInv, Good

\* What the invariant asks of a call, which leaves delivery alone.
LEMMA CallKeeps ==
    ASSUME CacheInv, Good(objects)', Len(objects.item) <= Len(objects'.item), Bounded,
           UNCHANGED <<delivery, refreshes>>
    PROVE  CacheInv'
  <1>1. Len(objects.item) \in Nat /\ Len(objects'.item) \in Nat
    BY TypedParts DEF CacheInv, Good
  <1>2. DeliveryTyped'
    BY <1>1 DEF CacheInv, DeliveryTyped
  <1> QED BY <1>2 DEF CacheInv, InBounds, Bounded

LEMMA RefreshKeeps ==
    ASSUME CacheInv, NEW h \in Handle, NEW k \in Key, Refresh(h, k)
    PROVE  CacheInv'
  <1> DEFINE found == GetItem(objects, k)
             i == found.table[k]
  <1>1. Good(found) /\ i \in 1..Len(found.item) /\ Len(objects.item) <= Len(found.item)
    <2>1. Good(found) /\ i \in 1..Len(found.item)
      BY GetItemGood DEF CacheInv
    <2>2. CASE objects.table[k] # None
      BY <2>1, <2>2, TypedParts DEF GetItem, Good
    <2>3. CASE objects.table[k] = None
      <3>1. found.item = Append(objects.item, NewItem(k))
        BY <2>3, TypedParts DEF GetItem, CacheInv, Good
      <3>2. objects.item \in Seq(ItemRecords(Len(objects.listener)))
            /\ NewItem(k) \in ItemRecords(Len(objects.listener))
        BY TypedParts, EmptySeq DEF NewItem, ItemRecords, CacheInv, Good
      <3>3. Len(found.item) = Len(objects.item) + 1 /\ Len(objects.item) \in Nat
        BY <3>1, <3>2, AppendProperties, LenProperties
      <3> QED BY <2>1, <3>3
    <2> QED BY <2>1, <2>2, <2>3
  <1> HIDE DEF found
  <1>2. Good(MoveTo(found, h, i)) /\ Len(MoveTo(found, h, i).item) = Len(found.item)
    BY <1>1, MoveToGood
  <1>3. objects' = found \/ objects' = MoveTo(found, h, i)
    BY DEF Refresh, found
  <1>4. Good(objects)' /\ Len(objects.item) <= Len(objects'.item)
    BY <1>1, <1>2, <1>3
  <1>5. Bounded /\ UNCHANGED <<delivery, refreshes>>
    BY DEF Refresh
  <1> QED BY <1>4, <1>5, CallKeeps

LEMMA StartListeningKeeps ==
    ASSUME CacheInv, NEW h \in Handle, StartListening(h)
    PROVE  CacheInv'
  <1> DEFINE n == Len(objects.item)
             m == Len(objects.listener)
             r == [objects.handle[h] EXCEPT !.update = "open"]
             s == [objects EXCEPT !.handle[h] = r]
  <1>1. Good(objects) /\ objects.handle[h] \in HandleRecords(n, m) /\ n \in Nat
    BY TypedParts DEF CacheInv, Good
  <1>2. r \in HandleRecords(n, m) /\ r.listener = None /\ r.update = "open"
        /\ objects.handle[h].listener = None /\ r.current = objects.handle[h].current
    BY <1>1 DEF StartListening, Good, Counted, HandleRecords
  <1>3. Good(s) /\ s.item = objects.item /\ s.handle[h] = r
    <2> HIDE DEF r
    <2> QED BY <1>1, <1>2, HandleGood
  <1>4. s = [objects EXCEPT !.handle[h].update = "open"]
    BY <1>1, TypedParts DEF Good
  <1>5. objects' = s \/ (s.handle[h].current # None /\ objects' = OpenListener(s, h))
    <2> HIDE DEF s
    <2> QED BY <1>4 DEF StartListening
  <1> HIDE DEF s, r
  <1>6. s.handle[h].current # None => Good(OpenListener(s, h)) /\ Len(OpenListener(s, h).item) = n
    BY <1>2, <1>3, OpenListenerGood
  <1>7. Good(objects)' /\ Len(objects.item) <= Len(objects'.item)
    <2>1. Len(objects'.item) = n
      BY <1>3, <1>5, <1>6
    <2>2. Good(objects')
      BY <1>3, <1>5, <1>6
    <2> QED BY <1>1, <2>1, <2>2
  <1>8. Bounded /\ UNCHANGED <<delivery, refreshes>>
    BY DEF StartListening
  <1> QED BY <1>7, <1>8, CallKeeps

\* A call of a handle that makes no item and no listener.
LEMMA HandleCallKeeps ==
    ASSUME CacheInv, Good(objects)', Len(objects'.item) = Len(objects.item),
           Len(objects'.listener) = Len(objects.listener), UNCHANGED <<delivery, refreshes>>
    PROVE  CacheInv'
  <1>1. Len(objects.item) <= Len(objects'.item)
    BY TypedParts DEF CacheInv, Good
  <1>2. Bounded
    BY DEF Bounded, CacheInv, InBounds
  <1> QED BY <1>1, <1>2, CallKeeps

LEMMA CloseHandleKeeps ==
    ASSUME CacheInv, NEW h \in Handle, CloseHandle(h)
    PROVE  CacheInv'
  <1> DEFINE closed == CloseListener(objects, h)
             n == Len(closed.item)
             m == Len(closed.listener)
             gone == [closed.handle[h] EXCEPT !.current = None]
             s == [closed EXCEPT !.handle[h] = gone]
             t == [closed EXCEPT !.handle[h] = NewHandle]
  <1>1. /\ Good(closed) /\ closed.handle[h].listener = None
        /\ n = Len(objects.item) /\ m = Len(objects.listener)
    BY CloseListenerGood DEF CacheInv
  <1>2. n \in Nat /\ m \in Nat /\ closed.handle[h] \in HandleRecords(n, m)
    BY <1>1, TypedParts DEF Good
  <1>3. gone \in HandleRecords(n, m) /\ gone.listener = None
    <2> HIDE DEF closed
    <2> QED BY <1>1, <1>2 DEF HandleRecords, None
  <1>4. NewHandle \in HandleRecords(n, m) /\ NewHandle.listener = None
    BY <1>2, EventTypes DEF NewHandle, HandleRecords, None
  <1>5. Good(s) /\ s.item = closed.item /\ s.listener = closed.listener
    <2> HIDE DEF closed, gone
    <2> QED BY <1>1, <1>3, HandleGood
  <1>6. Good(t) /\ t.item = closed.item /\ t.listener = closed.listener
    <2> HIDE DEF closed
    <2> QED BY <1>1, <1>4, HandleGood
  <1>7. s = [closed EXCEPT !.handle[h].current = None]
    <2> HIDE DEF closed
    <2> QED BY <1>1, TypedParts DEF Good
  <1>8. objects' \in {closed, s, t}
    <2> HIDE DEF s
    <2>1. CASE CloseListenerThrows(objects, h)
      <3>1. objects.handle[h].update # "open"
        BY <2>1 DEF CloseListenerThrows
      <3> QED BY <2>1, <3>1 DEF CloseHandle
    <2>2. CASE ~CloseListenerThrows(objects, h) /\ objects.handle[h].update = "open"
      BY <2>2 DEF CloseHandle
    <2>3. CASE ~CloseListenerThrows(objects, h) /\ objects.handle[h].update # "open"
      BY <2>3, <1>7 DEF CloseHandle
    <2> QED BY <2>1, <2>2, <2>3
  <1>9. UNCHANGED <<delivery, refreshes>>
    BY DEF CloseHandle
  <1> HIDE DEF s, t, closed
  <1>10. /\ Good(objects)' /\ Len(objects'.item) = Len(objects.item)
         /\ Len(objects'.listener) = Len(objects.listener)
    BY <1>1, <1>5, <1>6, <1>8
  <1> QED BY <1>9, <1>10, HandleCallKeeps

LEMMA ReaderStopsKeeps ==
    ASSUME CacheInv, NEW h \in Handle, ReaderStops(h)
    PROVE  CacheInv'
  <1> DEFINE n == Len(objects.item)
             m == Len(objects.listener)
             r == [objects.handle[h] EXCEPT !.update = "stopped"]
             s == [objects EXCEPT !.handle[h] = r]
  <1>1. Good(objects) /\ objects.handle[h] \in HandleRecords(n, m)
    BY TypedParts DEF CacheInv, Good
  <1>2. r \in HandleRecords(n, m) /\ r.listener = objects.handle[h].listener
        /\ r.update # "none" /\ r.current = objects.handle[h].current
    BY <1>1 DEF HandleRecords
  <1>3. Good(s) /\ s.item = objects.item /\ s.listener = objects.listener
    <2> HIDE DEF r
    <2> QED BY <1>1, <1>2, HandleGood
  <1>4. objects' = s
    BY <1>1, TypedParts DEF ReaderStops, Good
  <1>5. UNCHANGED <<delivery, refreshes>>
    BY DEF ReaderStops
  <1> HIDE DEF s
  <1> QED BY <1>3, <1>4, <1>5, HandleCallKeeps

-----------------------------------------------------------------------------
\* Events, which leave the counts alone.

LEMMA ItemGood ==
    ASSUME NEW s, Good(s), NEW i \in 1..Len(s.item), NEW r \in ItemRecords(Len(s.listener)),
           r.live_ref_count = s.item[i].live_ref_count
    PROVE  /\ Good([s EXCEPT !.item[i] = r])
           /\ Len([s EXCEPT !.item[i] = r].item) = Len(s.item)
           /\ [s EXCEPT !.item[i] = r].listener = s.listener
           /\ [s EXCEPT !.item[i] = r].handle = s.handle
           /\ [s EXCEPT !.item[i] = r].item[i] = r
           /\ \A j \in (1..Len(s.item)) \ {i} : [s EXCEPT !.item[i] = r].item[j] = s.item[j]
  <1> DEFINE n == Len(s.item)
             m == Len(s.listener)
             its == [s.item EXCEPT ![i] = r]
             t == [s EXCEPT !.item[i] = r]
  <1>1. /\ n \in Nat /\ m \in Nat /\ s.table \in [Key -> 0..n] /\ s.item \in Seq(ItemRecords(m))
        /\ s.listener \in Seq(ListenerStreams) /\ s.handle \in [Handle -> HandleRecords(n, m)]
        /\ s = [table |-> s.table, item |-> s.item, listener |-> s.listener, handle |-> s.handle]
    BY TypedParts DEF Good
  <1>2. /\ its \in Seq(ItemRecords(m)) /\ Len(its) = n
        /\ its[i] = r /\ \A j \in (1..n) \ {i} : its[j] = s.item[j]
    <2>1. r \in ItemRecords(m)
      OBVIOUS
    <2> HIDE DEF m
    <2> QED BY <1>1, <2>1, ExceptSeq
  <1>3. t = [table |-> s.table, item |-> its, listener |-> s.listener, handle |-> s.handle]
    <2>1. t = [s EXCEPT !.item = its]
      OBVIOUS
    <2>2. s = [table |-> s.table, item |-> s.item, listener |-> s.listener, handle |-> s.handle]
      BY <1>1
    <2> HIDE DEF its, t
    <2> QED BY ONLY <2>1, <2>2
  <1> HIDE DEF its, t
  <1>4. Typed(t)
    BY <1>1, <1>2, <1>3 DEF Typed, States
  <1>5. \A j : UsersIn(t, j) = UsersIn(s, j)
    BY <1>3 DEF UsersIn
  <1>6. \A j \in 1..n :
           IsFiniteSet(UsersIn(t, j)) /\ its[j].live_ref_count = Cardinality(UsersIn(t, j))
    <2> TAKE j \in 1..n
    <2>1. CASE j = i
      BY <2>1, <1>2, <1>5 DEF Good, Counted
    <2>2. CASE j # i
      BY <2>2, <1>2, <1>5 DEF Good, Counted
    <2> QED BY <2>1, <2>2
  <1>7. Counted(t)
    BY <1>2, <1>3, <1>6 DEF Good, Counted
  <1> QED BY <1>2, <1>3, <1>4, <1>7 DEF Good, t

\* What the invariant asks of a step of a delivery.
LEMMA EventKeeps ==
    ASSUME CacheInv, Good(objects)', Len(objects'.item) = Len(objects.item),
           Len(objects'.listener) = Len(objects.listener), DeliveryTyped', refreshes' \in 0..MaxRefreshes
    PROVE  CacheInv'
  BY DEF CacheInv, InBounds

LEMMA HandlerEmitsKeeps ==
    ASSUME CacheInv, NEW i \in DOMAIN objects.item, NEW e \in Event, HandlerEmits(i, e)
    PROVE  CacheInv'
  <1> DEFINE m == Len(objects.listener)
             it == objects.item[i]
             events == Append(it.received_events, e)
             source == IF e = Close THEN "ended" ELSE it.source
             r == [it EXCEPT !.received_events = events, !.source = source]
             s == [objects EXCEPT !.item[i] = r]
  <1>1. /\ Good(objects) /\ i \in 1..Len(objects.item) /\ it \in ItemRecords(m)
        /\ Len(objects.item) \in Nat
    BY TypedParts, ElementOfSeq DEF CacheInv, Good
  <1>2. events \in Seq(Event) /\ source \in {"none", "running", "ended"}
    <2> HIDE DEF it
    <2>1. it.received_events \in Seq(Event) /\ it.source \in {"none", "running", "ended"}
      BY <1>1 DEF ItemRecords
    <2> QED BY <2>1, AppendProperties
  <1>3. r \in ItemRecords(m) /\ r.live_ref_count = it.live_ref_count
    <2> HIDE DEF it, events, source
    <2> QED BY <1>1, <1>2 DEF ItemRecords
  <1>4. Good(s) /\ Len(s.item) = Len(objects.item) /\ s.listener = objects.listener
    <2> HIDE DEF r
    <2> QED BY <1>1, <1>3, ItemGood
  <1>5. objects' = s
    <2> DEFINE flat == [objects.item EXCEPT ![i].received_events = Append(@, e),
                                            ![i].source = IF e = Close THEN "ended" ELSE @]
    <2>1. flat = [objects.item EXCEPT ![i] = r]
      BY <1>1, TypedParts DEF CacheInv, Good, ItemRecords
    <2>2. objects' = [objects EXCEPT !.item = flat]
      BY <1>1, TypedParts DEF HandlerEmits, Good
    <2>3. s = [objects EXCEPT !.item = [objects.item EXCEPT ![i] = r]]
      OBVIOUS
    <2> QED BY ONLY <2>1, <2>2, <2>3, Zenon
  <1>6. delivery' = [item |-> i, event |-> e, next |-> 1, anyClosed |-> FALSE, inCallback |-> FALSE]
    BY DEF HandlerEmits, StartDelivery, NoDelivery
  <1> HIDE DEF s
  <1>7. DeliveryTyped'
    BY <1>1, <1>4, <1>5, <1>6 DEF DeliveryTyped
  <1>8. refreshes' \in 0..MaxRefreshes
    BY DEF HandlerEmits, CacheInv
  <1> QED BY <1>4, <1>5, <1>7, <1>8, EventKeeps

LEMMA RefreshItemKeeps ==
    ASSUME CacheInv, NEW i \in DOMAIN objects.item, RefreshItem(i)
    PROVE  CacheInv'
  <1> DEFINE m == Len(objects.listener)
             it == objects.item[i]
             r == [it EXCEPT !.received_events = <<>>, !.source = "none"]
             s == [objects EXCEPT !.item[i] = r]
  <1>1. /\ Good(objects) /\ i \in 1..Len(objects.item) /\ it \in ItemRecords(m)
        /\ Len(objects.item) \in Nat
    BY TypedParts, ElementOfSeq DEF CacheInv, Good
  <1>2. r \in ItemRecords(m) /\ r.live_ref_count = it.live_ref_count
    <2> HIDE DEF it
    <2> QED BY <1>1, EmptySeq DEF ItemRecords
  <1>3. Good(s) /\ Len(s.item) = Len(objects.item) /\ s.listener = objects.listener
    <2> HIDE DEF r
    <2> QED BY <1>1, <1>2, ItemGood
  <1>4. objects' = s
    <2> DEFINE flat == [objects.item EXCEPT ![i].received_events = <<>>, ![i].source = "none"]
    <2>1. flat = [objects.item EXCEPT ![i] = r]
      BY <1>1, TypedParts DEF CacheInv, Good, ItemRecords
    <2>2. objects' = [objects EXCEPT !.item = flat]
      BY <1>1, TypedParts DEF RefreshItem, Good
    <2>3. s = [objects EXCEPT !.item = [objects.item EXCEPT ![i] = r]]
      OBVIOUS
    <2> QED BY ONLY <2>1, <2>2, <2>3, Zenon
  <1>5. delivery' = [item |-> i, event |-> Restart, next |-> 1, anyClosed |-> FALSE, inCallback |-> FALSE]
    BY DEF RefreshItem, StartDelivery, NoDelivery
  <1> HIDE DEF s
  <1>6. DeliveryTyped'
    BY <1>1, <1>3, <1>4, <1>5, EventTypes DEF DeliveryTyped
  <1>7. refreshes' \in 0..MaxRefreshes
    BY CacheBoundAssumption DEF RefreshItem, CacheInv
  <1> QED BY <1>3, <1>4, <1>6, <1>7, EventKeeps

LEMMA PassOnKeeps ==
    ASSUME CacheInv, PassOn
    PROVE  CacheInv'
  <1> DEFINE i == delivery.item
             n == Len(objects.item)
             m == Len(objects.listener)
             l == Listeners[delivery.next]
             e == delivery.event
  <1>1. /\ Good(objects) /\ Typed(objects) /\ n \in Nat /\ m \in Nat
        /\ i \in 1..n /\ delivery.next \in Nat \ {0} /\ e \in Event
        /\ delivery \in [item : 0..n, event : Event, next : Nat \ {0},
                         anyClosed : BOOLEAN, inCallback : BOOLEAN]
    BY TypedParts DEF CacheInv, Good, DeliveryTyped, PassOn, None
  <1>2. Listeners \in Seq(1..m)
    <2>1. objects.item[i] \in ItemRecords(m)
      BY <1>1, TypedParts, ElementOfSeq
    <2> QED BY <2>1 DEF ItemRecords, Listeners
  <1>3. l \in 1..m
    BY <1>1, <1>2, LenProperties, ElementOfSeq DEF PassOn
  <1> HIDE DEF l, e
  <1>4. CASE objects' = objects /\ delivery' = NoDelivery
    <2>1. DeliveryTyped'
      BY <1>1, <1>4, EventTypes DEF DeliveryTyped, NoDelivery, None
    <2> QED BY <1>4, <2>1, EventKeeps DEF PassOn, CacheInv
  <1>5. CASE /\ objects' = ListenerReceives(objects, l, e)
             /\ delivery' = [delivery EXCEPT
                                   !.next = @ + 1,
                                   !.anyClosed = @ \/ IsClosed(objects', l),
                                   !.inCallback = ReaderHears(objects, l, e)]
    <2>1. objects' \in Alike(objects)
      <3>1. objects \in Alike(objects)
        BY <1>1 DEF Alike, Typed
      <3> QED BY <1>1, <1>3, <1>5, <3>1, ReceivesAlike
    <2>2. Good(objects)' /\ objects'.item = objects.item /\ Len(objects'.listener) = m
      BY <1>1, <2>1, AlikeGood DEF Alike
    <2>3. IsClosed(objects', l) \in BOOLEAN /\ ReaderHears(objects, l, e) \in BOOLEAN
      <3>1. objects.listener[l] \in ListenerStreams /\ objects'.listener[l] \in ListenerStreams
        <4>1. objects.listener \in Seq(ListenerStreams) /\ objects'.listener \in Seq(ListenerStreams)
          BY <1>1, <2>2, TypedParts DEF Good
        <4> QED BY <1>3, <2>2, <4>1, ElementOfSeq
      <3> QED BY <3>1 DEF IsClosed, ReaderHears, ListenerStreams
    <2>4. DeliveryTyped'
      <3> DEFINE any == delivery.anyClosed \/ IsClosed(objects', l)
                 hears == ReaderHears(objects, l, e)
      <3>1. any \in BOOLEAN /\ hears \in BOOLEAN
        BY <1>1, <2>3
      <3> HIDE DEF any, hears
      <3>2. delivery' = [delivery EXCEPT !.next = @ + 1, !.anyClosed = any, !.inCallback = hears]
        BY <1>5 DEF any, hears
      <3> DEFINE next == delivery.next + 1
      <3>3. next \in Nat \ {0}
        BY <1>1
      <3> HIDE DEF next
      <3>4. delivery' = [item |-> i, event |-> delivery.event, next |-> next,
                         anyClosed |-> any, inCallback |-> hears]
        <4>1. delivery = [item |-> i, event |-> delivery.event, next |-> delivery.next,
                          anyClosed |-> delivery.anyClosed, inCallback |-> delivery.inCallback]
          BY <1>1
        <4> DEFINE d1 == [delivery EXCEPT !.next = next]
                   d2 == [d1 EXCEPT !.anyClosed = any]
                   d3 == [d2 EXCEPT !.inCallback = hears]
        <4>2. delivery' = d3
          BY <3>2 DEF next
        <4>3. d1 = [item |-> i, event |-> delivery.event, next |-> next,
                    anyClosed |-> delivery.anyClosed, inCallback |-> delivery.inCallback]
          BY ONLY <4>1
        <4> HIDE DEF d1
        <4>4. d2 = [item |-> i, event |-> delivery.event, next |-> next,
                    anyClosed |-> any, inCallback |-> delivery.inCallback]
          BY ONLY <4>3
        <4> HIDE DEF d2
        <4>5. d3 = [item |-> i, event |-> delivery.event, next |-> next,
                    anyClosed |-> any, inCallback |-> hears]
          BY ONLY <4>4
        <4> QED BY ONLY <4>2, <4>5, Zenon
      <3> QED BY <1>1, <2>2, <3>1, <3>3, <3>4 DEF DeliveryTyped
    <2> QED BY <2>2, <2>4, EventKeeps DEF PassOn, CacheInv
  <1> QED BY <1>4, <1>5 DEF PassOn, l, e

LEMMA EndDeliveryKeeps ==
    ASSUME CacheInv, EndDelivery
    PROVE  CacheInv'
  <1> DEFINE i == delivery.item
             m == Len(objects.listener)
             it == objects.item[i]
             open == {l \in DOMAIN objects.listener : ~IsClosed(objects, l)}
             kept == Kept(it.listeners, open)
             source == NewItem(it.key).source
             r1 == [it EXCEPT !.source = source]
             r2 == [it EXCEPT !.listeners = kept]
  <1>1. /\ Good(objects) /\ i \in 1..Len(objects.item) /\ it \in ItemRecords(m)
        /\ Len(objects.item) \in Nat
    <2>1. i \in 1..Len(objects.item) /\ Len(objects.item) \in Nat
      BY TypedParts DEF CacheInv, Good, DeliveryTyped, EndDelivery, None
    <2> QED BY <2>1, TypedParts, ElementOfSeq DEF CacheInv, Good
  <1>2. kept \in Seq(1..m)
    <2> HIDE DEF open, it, m
    <2>1. it.listeners \in Seq(1..m)
      BY <1>1 DEF ItemRecords
    <2>2. kept \in Seq((1..m) \cap open)
      BY <2>1, KeptType
    <2>3. Seq((1..m) \cap open) \subseteq Seq(1..m)
      BY SeqMonotonic
    <2> QED BY <2>2, <2>3
  <1>3. source \in {"none", "running", "ended"}
    BY DEF NewItem
  <1>4. /\ r1 \in ItemRecords(m) /\ r1.live_ref_count = it.live_ref_count
        /\ r2 \in ItemRecords(m) /\ r2.live_ref_count = it.live_ref_count
    <2> HIDE DEF it, kept, source, m
    <2> QED BY <1>1, <1>2, <1>3 DEF ItemRecords
  <1>5. objects' \in {objects, [objects EXCEPT !.item[i] = r1], [objects EXCEPT !.item[i] = r2]}
    <2> HIDE DEF m
    <2>1. [objects EXCEPT !.item[i].source = source] = [objects EXCEPT !.item[i] = r1]
      OBVIOUS
    <2>2. [objects EXCEPT !.item[i].listeners = Kept(@, open)] = [objects EXCEPT !.item[i] = r2]
      OBVIOUS
    <2> QED BY <2>1, <2>2 DEF EndDelivery
  <1>6. /\ Good(objects)' /\ Len(objects'.item) = Len(objects.item)
        /\ Len(objects'.listener) = Len(objects.listener)
    <2> HIDE DEF r1, r2, kept, source, open
    <2>1. \A r \in {r1, r2} : /\ Good([objects EXCEPT !.item[i] = r])
                              /\ Len([objects EXCEPT !.item[i] = r].item) = Len(objects.item)
                              /\ [objects EXCEPT !.item[i] = r].listener = objects.listener
      BY <1>1, <1>4, ItemGood
    <2> QED BY <1>1, <1>5, <2>1
  <1>7. DeliveryTyped'
    BY <1>1, <1>6, EventTypes DEF EndDelivery, DeliveryTyped, NoDelivery, None
  <1> QED BY <1>6, <1>7, EventKeeps DEF EndDelivery, CacheInv

-----------------------------------------------------------------------------

LEMMA CacheStep == CacheInv /\ [Next]_vars => CacheInv'
  <1> SUFFICES ASSUME CacheInv, [Next]_vars PROVE CacheInv'
    OBVIOUS
  <1>1. ASSUME NEW h \in Handle, NEW k \in Key, Refresh(h, k) PROVE CacheInv'
    BY <1>1, RefreshKeeps
  <1>2. ASSUME NEW h \in Handle, StartListening(h) PROVE CacheInv'
    BY <1>2, StartListeningKeeps
  <1>3. ASSUME NEW h \in Handle, CloseHandle(h) PROVE CacheInv'
    BY <1>3, CloseHandleKeeps
  <1>4. ASSUME NEW h \in Handle, ReaderStops(h) PROVE CacheInv'
    BY <1>4, ReaderStopsKeeps
  <1>5. ASSUME NEW i \in DOMAIN objects.item, RefreshItem(i) PROVE CacheInv'
    BY <1>5, RefreshItemKeeps
  <1>6. ASSUME NEW i \in DOMAIN objects.item, NEW e \in Event, HandlerEmits(i, e) PROVE CacheInv'
    BY <1>6, HandlerEmitsKeeps
  <1>7. CASE PassOn
    BY <1>7, PassOnKeeps
  <1>8. CASE EndDelivery
    BY <1>8, EndDeliveryKeeps
  <1>9. CASE UNCHANGED vars
    BY <1>9 DEF vars, CacheInv, DeliveryTyped, InBounds
  <1> QED BY <1>1, <1>2, <1>3, <1>4, <1>5, <1>6, <1>7, <1>8, <1>9 DEF Next

\* The items of the cache, the listeners, the handles and the loop over an item's
\* listeners have the right types, after every call and every event.
THEOREM CacheTypeCorrect == Spec => []TypeOK
  <1>1. CacheInv => TypeOK
    <2> SUFFICES ASSUME CacheInv PROVE TypeOK
      OBVIOUS
    <2> DEFINE n == Len(objects.item)
               m == Len(objects.listener)
    <2>1. /\ n \in Nat /\ m \in Nat /\ n <= MaxItems /\ m <= MaxListeners
          /\ MaxItems \in Nat /\ MaxListeners \in Nat
      BY TypedParts, CacheBoundAssumption DEF CacheInv, Good, InBounds
    <2>2. 0..n \subseteq ItemId \cup {None} /\ 0..m \subseteq ListenerId \cup {None}
          /\ 1..m \subseteq ListenerId
      BY <2>1 DEF ItemId, ListenerId, None
    <2>3. /\ objects.table \in [Key -> 0..n] /\ objects.item \in Seq(ItemRecords(m))
          /\ objects.listener \in Seq(ListenerStreams)
          /\ objects.handle \in [Handle -> HandleRecords(n, m)]
      BY TypedParts DEF CacheInv, Good
    <2> HIDE DEF n, m
    <2>4. ItemRecords(m) \subseteq Items
      <3>1. Seq(1..m) \subseteq Seq(ListenerId)
        BY <2>2, SeqMonotonic
      <3> QED BY <3>1 DEF ItemRecords, Items
    <2>5. objects.item \in Seq(Items)
      BY <2>3, <2>4, SeqMonotonic
    <2>6. HandleRecords(n, m) \subseteq Handles
      BY <2>2 DEF HandleRecords, Handles
    <2>7. delivery \in [item : ItemId \cup {None}, event : Event, next : Nat,
                     anyClosed : BOOLEAN, inCallback : BOOLEAN]
      BY <2>2 DEF CacheInv, DeliveryTyped, n
    <2> QED BY <2>2, <2>3, <2>5, <2>6, <2>7 DEF TypeOK, CacheInv
  <1> QED BY <1>1, InitCache, CacheStep, PTL DEF Spec

\* FunctionCache.ts, live_ref_count: it is the number of handles that listen to the
\* item, although refresh() and close() may throw half-way, readers stop and handles
\* move while an event is being passed on.
THEOREM RefsCounted == Spec => []RefsCountUsers
  <1>1. CacheInv => RefsCountUsers
    BY TypedParts DEF CacheInv, Good, Counted, RefsCountUsers, Users, UsersIn
  <1> QED BY <1>1, InitCache, CacheStep, PTL DEF Spec

-----------------------------------------------------------------------------
\* What readers see.  A reader's view with one event more, if it is an item.

Plus(seen, e) == IF e \in ItemEvents THEN Append(seen, e) ELSE seen

LEMMA SubSeqOf ==
    ASSUME NEW S, NEW s \in Seq(S), NEW p \in 1..Len(s) + 1, NEW q \in 0..Len(s), p <= q + 1
    PROVE  /\ SubSeq(s, p, q) \in Seq(S) /\ Len(SubSeq(s, p, q)) = q + 1 - p
           /\ \A i \in 1..q + 1 - p : SubSeq(s, p, q)[i] = s[p + i - 1]
  <1>1. Len(s) \in Nat /\ \A i \in 1..Len(s) : s[i] \in S
    BY LenProperties, ElementOfSeq
  <1>2. p \in Int /\ q \in Int /\ \A i \in p..q : s[i] \in S
    BY <1>1
  <1>3. /\ SubSeq(s, p, q) \in Seq(S)
        /\ Len(SubSeq(s, p, q)) = IF p <= q THEN q - p + 1 ELSE 0
        /\ \A i \in 1..q - p + 1 : SubSeq(s, p, q)[i] = s[p + i - 1]
    BY <1>2, SubSeqProperties
  <1>4. q + 1 - p = q - p + 1 /\ (~(p <= q) => q - p + 1 = 0)
    BY <1>1
  <1> QED BY <1>3, <1>4

\* The two parts of Passed() when an event is added.
LEMMA SubSeqAppend ==
    ASSUME NEW S, NEW s \in Seq(S), NEW e \in S, NEW j \in 0..Len(s), NEW p \in 1..Len(s) + 1
    PROVE  /\ SubSeq(Append(s, e), 1, j) = SubSeq(s, 1, j)
           /\ SubSeq(Append(s, e), p, Len(s) + 1) = Append(SubSeq(s, p, Len(s)), e)
  <1> DEFINE n == Len(s)
             t == Append(s, e)
  <1>1. n \in Nat /\ t \in Seq(S) /\ Len(t) = n + 1 /\ t[n + 1] = e /\ \A i \in 1..n : t[i] = s[i]
    BY LenProperties, AppendProperties
  <1>2. j \in 0..n /\ p \in 1..n + 1
    OBVIOUS
  <1> HIDE DEF n, t
  <1>3. SubSeq(t, 1, j) = SubSeq(s, 1, j)
    <2> DEFINE x == SubSeq(t, 1, j)
               y == SubSeq(s, 1, j)
    <2>1. x \in Seq(S) /\ Len(x) = j + 1 - 1 /\ \A i \in 1..j + 1 - 1 : x[i] = t[1 + i - 1]
      <3>1. 1 \in 1..Len(t) + 1 /\ j \in 0..Len(t) /\ 1 <= j + 1
        BY <1>1, <1>2
      <3> QED BY <1>1, <3>1, SubSeqOf
    <2>2. y \in Seq(S) /\ Len(y) = j + 1 - 1 /\ \A i \in 1..j + 1 - 1 : y[i] = s[1 + i - 1]
      <3>1. 1 \in 1..Len(s) + 1 /\ j \in 0..Len(s) /\ 1 <= j + 1
        BY <1>1, <1>2 DEF n
      <3> QED BY <3>1, SubSeqOf
    <2> HIDE DEF x, y
    <2>3. \A i \in 1..Len(x) : x[i] = y[i]
      BY <1>1, <1>2, <2>1, <2>2
    <2>4. x = y
      BY <2>1, <2>2, <2>3, SeqEqual
    <2> QED BY <2>4 DEF x, y
  <1>4. SubSeq(t, p, n + 1) = Append(SubSeq(s, p, n), e)
    <2> DEFINE x == SubSeq(t, p, n + 1)
               y == SubSeq(s, p, n)
               z == Append(y, e)
    <2>1. /\ x \in Seq(S) /\ Len(x) = (n + 1) + 1 - p
          /\ \A i \in 1..(n + 1) + 1 - p : x[i] = t[p + i - 1]
      <3>1. p \in 1..Len(t) + 1 /\ n + 1 \in 0..Len(t) /\ p <= (n + 1) + 1
        BY <1>1, <1>2
      <3> QED BY <1>1, <3>1, SubSeqOf
    <2>2. y \in Seq(S) /\ Len(y) = n + 1 - p /\ \A i \in 1..n + 1 - p : y[i] = s[p + i - 1]
      <3>1. p \in 1..Len(s) + 1 /\ n \in 0..Len(s) /\ p <= n + 1
        BY <1>1, <1>2 DEF n
      <3> QED BY <3>1, SubSeqOf
    <2> HIDE DEF x, y
    <2>3. z \in Seq(S) /\ Len(z) = Len(y) + 1 /\ z[Len(y) + 1] = e /\ \A i \in 1..Len(y) : z[i] = y[i]
      BY <2>2, AppendProperties
    <2> HIDE DEF z
    <2>4. Len(x) = Len(z)
      BY <1>1, <1>2, <2>1, <2>2, <2>3
    <2>5. ASSUME NEW i \in 1..Len(x) PROVE x[i] = z[i]
      <3>1. CASE i = n + 2 - p
        <4>1. p + i - 1 = n + 1 /\ i = Len(y) + 1 /\ i \in 1..(n + 1) + 1 - p
          BY <1>1, <1>2, <2>1, <2>2, <3>1
        <4> QED BY <1>1, <2>1, <2>3, <4>1
      <3>2. CASE i # n + 2 - p
        <4>1. i \in 1..n + 1 - p /\ p + i - 1 \in 1..n /\ i \in 1..(n + 1) + 1 - p
          BY <1>1, <1>2, <2>1, <3>2
        <4> QED BY <1>1, <2>1, <2>2, <2>3, <4>1
      <3> QED BY <3>1, <3>2
    <2>6. x = z
      BY <2>1, <2>3, <2>4, <2>5, SeqEqual
    <2> QED BY <2>6 DEF x, y, z
  <1> QED BY <1>3, <1>4 DEF n, t

LEMMA KeptPlus ==
    ASSUME NEW events \in Seq(Event), NEW e \in Event
    PROVE  Kept(Append(events, e), ItemEvents) = Plus(Kept(events, ItemEvents), e)
  BY KeptAppend DEF Plus

\* The listeners that were there when an event came.
LEMMA PassedAll ==
    ASSUME NEW events \in Seq(Event)
    PROVE  Passed(events, 0) = Kept(events, ItemEvents)
  <1>1. SubSeq(events, 1, 0) = <<>>
    BY SubSeqEmpty
  <1>2. SubSeq(events, 1, Len(events)) = events
    BY SubSeqFull
  <1>3. <<>> \o events = events
    BY ConcatEmptySeq
  <1> QED BY <1>1, <1>2, <1>3 DEF Passed

LEMMA PassedAppend ==
    ASSUME NEW events \in Seq(Event), NEW e \in Event, NEW j \in 0..Len(events)
    PROVE  Passed(Append(events, e), j) = Plus(Passed(events, j), e)
  <1> DEFINE n == Len(events)
             p == IF j = 0 THEN 1 ELSE j
             t == Append(events, e)
             x == SubSeq(events, 1, j)
             y == SubSeq(events, p, n)
  <1>1. n \in Nat /\ Len(t) = n + 1 /\ p \in 1..n + 1
    BY LenProperties, AppendProperties
  <1>2. x \in Seq(Event) /\ y \in Seq(Event)
    <2>1. 1 \in 1..n + 1 /\ j \in 0..n /\ 1 <= j + 1 /\ n \in 0..n /\ p <= n + 1
      BY <1>1
    <2> HIDE DEF p
    <2> QED BY <1>1, <2>1, SubSeqOf
  <1>3. SubSeq(t, 1, j) = x /\ SubSeq(t, p, Len(t)) = Append(y, e)
    <2> HIDE DEF p
    <2> QED BY <1>1, SubSeqAppend
  <1>4. Passed(t, j) = Kept(SubSeq(t, 1, j) \o SubSeq(t, p, Len(t)), ItemEvents)
        /\ Passed(events, j) = Kept(x \o y, ItemEvents)
    BY DEF Passed
  <1> HIDE DEF x, y, t, p
  <1>5. x \o Append(y, e) = Append(x \o y, e)
    BY <1>2, ConcatAppend
  <1>6. x \o y \in Seq(Event)
    BY <1>2, ConcatProperties
  <1> QED BY <1>3, <1>4, <1>5, <1>6, KeptPlus DEF t

\* A listener that is added while the last event is passed on.
LEMMA PassedTwice ==
    ASSUME NEW events \in Seq(Event), events # <<>>
    PROVE  Passed(events, Len(events)) = Plus(Kept(events, ItemEvents), events[Len(events)])
  <1> DEFINE n == Len(events)
             e == events[n]
             one == SubSeq(events, n, n)
  <1>1. n \in Nat /\ n # 0
    BY LenProperties, EmptySeq
  <1>2. e \in Event
    BY <1>1, ElementOfSeq
  <1>3. SubSeq(events, 1, n) = events
    BY SubSeqFull
  <1>4. one \in Seq(Event) /\ Len(one) = 1 /\ one[1] = e
    <2>1. n \in 1..n + 1 /\ n \in 0..n /\ n <= n + 1 /\ (n + 1) - n = 1 /\ n + 1 - 1 = n /\ 1 \in 1..1
      BY <1>1
    <2>2. /\ one \in Seq(Event) /\ Len(one) = (n + 1) - n
          /\ \A i \in 1..(n + 1) - n : one[i] = events[n + i - 1]
      BY <2>1, SubSeqOf
    <2> HIDE DEF one
    <2> QED BY <2>1, <2>2
  <1>5. Passed(events, n) = Kept(SubSeq(events, 1, n) \o one, ItemEvents)
    BY <1>1 DEF Passed
  <1>6. one = <<e>>
    <2> DEFINE w == <<e>>
    <2>1. w \in Seq(Event) /\ Len(w) = 1 /\ w[1] = e
      BY <1>2
    <2> HIDE DEF w, one, e
    <2>2. \A i \in 1..Len(one) : one[i] = w[i]
      BY <1>4, <2>1
    <2>3. one = w
      BY <1>4, <2>1, <2>2, SeqEqual
    <2> QED BY <2>3 DEF w
  <1> HIDE DEF one, e
  <1>7. events \o <<e>> = Append(events, e)
    BY <1>2, AppendIsConcat
  <1>8. Kept(Append(events, e), ItemEvents) = Plus(Kept(events, ItemEvents), e)
    BY <1>2, KeptPlus
  <1> QED BY <1>3, <1>5, <1>6, <1>7, <1>8 DEF e

LEMMA PassedNone == Passed(<<>>, 0) = <<>>
  <1>1. <<>> \in Seq(Event) /\ Len(<<>>) = 0
    BY EmptySeq
  <1>2. Kept(<<>>, ItemEvents) = <<>>
    <2> DEFINE none == <<>>
    <2>1. none \in Seq(Event) /\ \A i \in 1..Len(none) : none[i] \notin ItemEvents
      BY <1>1
    <2> HIDE DEF none
    <2>2. Kept(none, ItemEvents) = <<>>
      BY <2>1, KeptNone
    <2> QED BY <2>2 DEF none
  <1> QED BY <1>1, <1>2, PassedAll

-----------------------------------------------------------------------------
\* The inductive invariant of the views.  Listeners and handles belong together: a
\* listener that is open is the one its handle has, and a handle without one has an
\* empty view, or a reader that has gone.

Owned(s) ==
    /\ \A h \in Handle : s.handle[h].listener # None => s.listener[s.handle[h].listener].of = h
    /\ \A l \in 1..Len(s.listener) : ~IsClosed(s, l) => s.handle[s.listener[l].of].listener = l
    /\ \A h \in Handle : s.handle[h].listener = None /\ s.handle[h].update # "stopped"
                            => s.handle[h].seen = <<>>

\* An item's listeners are there once, and the open ones are those of the handles
\* that are at the item.
Listed(s) ==
    /\ \A i \in 1..Len(s.item) : \A p, q \in 1..Len(s.item[i].listeners) :
          s.item[i].listeners[p] = s.item[i].listeners[q] => p = q
    /\ \A i \in 1..Len(s.item) : \A p \in 1..Len(s.item[i].listeners) :
          ~IsClosed(s, s.item[i].listeners[p])
             => s.handle[s.listener[s.item[i].listeners[p]].of].current = i
    /\ \A h \in Handle : s.handle[h].listener # None /\ ~IsClosed(s, s.handle[h].listener)
             => \E p \in 1..Len(s.item[s.handle[h].current].listeners) :
                   s.item[s.handle[h].current].listeners[p] = s.handle[h].listener

\* The event that is being passed on is the last the item has had.
Delivered(s, d) ==
    /\ \A i \in 1..Len(s.item) : \A p \in 1..Len(s.item[i].received_events) :
          s.item[i].received_events[p] # Restart
    /\ d.item # None =>
          /\ d.next <= Len(s.item[d.item].listeners) + 1
          /\ d.event = Restart => /\ s.item[d.item].received_events = <<>>
                                  /\ s.item[d.item].source = "none"
          /\ d.event # Restart =>
                /\ s.item[d.item].source # "none"
                /\ s.item[d.item].received_events # <<>>
                /\ s.item[d.item].received_events[Len(s.item[d.item].received_events)] = d.event

Listens(s, h) ==
    /\ s.handle[h].listener # None
    /\ s.handle[h].update = "open"
    /\ ~IsClosed(s, s.handle[h].listener)

\* The loop has yet to reach the listener of the handle.
ToCome(s, d, h) ==
    /\ d.item = s.handle[h].current
    /\ \E p \in 1..Len(s.item[s.handle[h].current].listeners) :
          p >= d.next /\ s.item[s.handle[h].current].listeners[p] = s.handle[h].listener

\* What a reader has seen of events, joined late at j, with an item that it has seen
\* or not; d is the loop, and i its item.
Sees(seen, events, source, j, d, toCome, here) ==
    IF toCome
    THEN d.event # Restart => j <= Len(events) /\ Plus(seen, d.event) = Passed(events, j)
    ELSE source # "none" \/ here => j <= Len(events) /\ seen = Passed(events, j)

Followed(s, d, h) ==
    Sees(s.handle[h].seen, s.item[s.handle[h].current].received_events,
         s.item[s.handle[h].current].source, s.listener[s.handle[h].listener].joined,
         d, ToCome(s, d, h), d.item = s.handle[h].current)

View(s, d) ==
    /\ Owned(s)
    /\ Listed(s)
    /\ Delivered(s, d)
    /\ \A h \in Handle : Listens(s, h) => Followed(s, d, h)

\* The types those parts are stated about.
LEMMA Records ==
    ASSUME NEW s, Good(s)
    PROVE  /\ Len(s.item) \in Nat /\ Len(s.listener) \in Nat
           /\ \A i \in 1..Len(s.item) :
                 /\ s.item[i] \in ItemRecords(Len(s.listener))
                 /\ s.item[i].received_events \in Seq(Event)
                 /\ s.item[i].listeners \in Seq(1..Len(s.listener))
                 /\ Len(s.item[i].listeners) \in Nat /\ Len(s.item[i].received_events) \in Nat
                 /\ \A p \in 1..Len(s.item[i].listeners) : s.item[i].listeners[p] \in 1..Len(s.listener)
           /\ \A l \in 1..Len(s.listener) :
                 /\ s.listener[l] \in ListenerStreams
                 /\ s.listener[l].of \in Handle /\ s.listener[l].joined \in Nat
           /\ \A h \in Handle :
                 /\ s.handle[h] \in HandleRecords(Len(s.item), Len(s.listener))
                 /\ s.handle[h].current \in 0..Len(s.item)
                 /\ s.handle[h].listener \in 0..Len(s.listener)
                 /\ s.handle[h].seen \in Seq(Event)
                 /\ s.handle[h].listener # None =>
                       s.handle[h].listener \in 1..Len(s.listener) /\ s.handle[h].current \in 1..Len(s.item)
                          /\ s.handle[h].update # "none"
  <1> DEFINE n == Len(s.item)
             m == Len(s.listener)
  <1>1. /\ n \in Nat /\ m \in Nat /\ s.item \in Seq(ItemRecords(m))
        /\ s.listener \in Seq(ListenerStreams) /\ s.handle \in [Handle -> HandleRecords(n, m)]
    BY TypedParts DEF Good
  <1>2. ASSUME NEW i \in 1..n
        PROVE  /\ s.item[i] \in ItemRecords(m) /\ s.item[i].received_events \in Seq(Event)
               /\ s.item[i].listeners \in Seq(1..m)
               /\ Len(s.item[i].listeners) \in Nat /\ Len(s.item[i].received_events) \in Nat
               /\ \A p \in 1..Len(s.item[i].listeners) : s.item[i].listeners[p] \in 1..m
    <2>1. s.item[i] \in ItemRecords(m)
      BY <1>1, ElementOfSeq
    <2> HIDE DEF m
    <2>2. s.item[i].received_events \in Seq(Event) /\ s.item[i].listeners \in Seq(1..m)
      BY <2>1 DEF ItemRecords
    <2> QED BY <2>1, <2>2, LenProperties, ElementOfSeq
  <1>3. ASSUME NEW l \in 1..m
        PROVE  s.listener[l] \in ListenerStreams /\ s.listener[l].of \in Handle /\ s.listener[l].joined \in Nat
    <2>1. s.listener[l] \in ListenerStreams
      BY <1>1, ElementOfSeq
    <2> QED BY <2>1 DEF ListenerStreams
  <1>4. ASSUME NEW h \in Handle
        PROVE  /\ s.handle[h] \in HandleRecords(n, m)
               /\ s.handle[h].current \in 0..n /\ s.handle[h].listener \in 0..m
               /\ s.handle[h].seen \in Seq(Event)
               /\ s.handle[h].listener # None =>
                     s.handle[h].listener \in 1..m /\ s.handle[h].current \in 1..n
                        /\ s.handle[h].update # "none"
    <2>1. s.handle[h] \in HandleRecords(n, m)
      BY <1>1
    <2> HIDE DEF n, m
    <2>2. /\ s.handle[h].current \in 0..n /\ s.handle[h].listener \in 0..m
          /\ s.handle[h].seen \in Seq(Event)
      BY <2>1 DEF HandleRecords
    <2>3. s.handle[h].listener # None => s.handle[h].update # "none" /\ s.handle[h].current # None
      BY DEF Good, Counted
    <2> QED BY <1>1, <2>1, <2>2, <2>3 DEF None
  <1> QED BY <1>1, <1>2, <1>3, <1>4

LEMMA ViewParts ==
    ASSUME NEW s, NEW d, View(s, d)
    PROVE  /\ Owned(s) /\ Listed(s) /\ Delivered(s, d)
           /\ \A h \in Handle : Listens(s, h) => Followed(s, d, h)
  BY DEF View

LEMMA ListedOnce ==
    ASSUME NEW s, Listed(s), NEW i \in 1..Len(s.item), NEW p \in 1..Len(s.item[i].listeners),
           NEW q \in 1..Len(s.item[i].listeners), s.item[i].listeners[p] = s.item[i].listeners[q]
    PROVE  p = q
  BY Zenon DEF Listed

LEMMA ListedHere ==
    ASSUME NEW s, Listed(s), NEW i \in 1..Len(s.item), NEW p \in 1..Len(s.item[i].listeners),
           ~IsClosed(s, s.item[i].listeners[p])
    PROVE  s.handle[s.listener[s.item[i].listeners[p]].of].current = i
  BY Zenon DEF Listed

LEMMA ListedOpen ==
    ASSUME NEW s, Listed(s), NEW h \in Handle, s.handle[h].listener # None,
           ~IsClosed(s, s.handle[h].listener)
    PROVE  \E p \in 1..Len(s.item[s.handle[h].current].listeners) :
              s.item[s.handle[h].current].listeners[p] = s.handle[h].listener
  BY Zenon DEF Listed

\* A handle that has no listener is changed, or its reader goes.
LEMMA HandleView ==
    ASSUME NEW s, NEW d, Good(s), View(s, d), NEW h \in Handle, NEW t,
           t.item = s.item, t.listener = s.listener,
           \A g \in Handle : g # h => t.handle[g] = s.handle[g],
           t.handle[h].listener = s.handle[h].listener,
           t.handle[h].listener = None /\ t.handle[h].update # "stopped" => t.handle[h].seen = <<>>,
           t.handle[h].listener # None =>
              t.handle[h].current = s.handle[h].current /\ t.handle[h].update = "stopped"
    PROVE  View(t, d)
  <1>1. \A l : IsClosed(t, l) <=> IsClosed(s, l)
    BY DEF IsClosed
  <1>2. \A g \in Handle : /\ t.handle[g].listener = s.handle[g].listener
                          /\ t.handle[g].listener # None => t.handle[g].current = s.handle[g].current
    OBVIOUS
  <1>3. Owned(t)
    <2>1. \A g \in Handle : t.handle[g].listener # None => t.listener[t.handle[g].listener].of = g
      BY <1>2 DEF View, Owned
    <2>2. \A l \in 1..Len(t.listener) : ~IsClosed(t, l) => t.handle[t.listener[l].of].listener = l
      BY <1>1, <1>2, Records DEF View, Owned
    <2>3. \A g \in Handle : t.handle[g].listener = None /\ t.handle[g].update # "stopped"
                               => t.handle[g].seen = <<>>
      BY DEF View, Owned
    <2> QED BY <2>1, <2>2, <2>3 DEF Owned
  <1>4. Listed(t)
    <2>0. Listed(s)
      BY ViewParts
    <2>1. ASSUME NEW i \in 1..Len(t.item), NEW p \in 1..Len(t.item[i].listeners),
                 NEW q \in 1..Len(t.item[i].listeners), t.item[i].listeners[p] = t.item[i].listeners[q]
          PROVE  p = q
      <3>1. /\ i \in 1..Len(s.item) /\ p \in 1..Len(s.item[i].listeners)
            /\ q \in 1..Len(s.item[i].listeners) /\ s.item[i].listeners[p] = s.item[i].listeners[q]
        BY <2>1
      <3> QED BY ONLY <2>0, <3>1, ListedOnce, Zenon
    <2>2. ASSUME NEW i \in 1..Len(t.item), NEW p \in 1..Len(t.item[i].listeners),
                 ~IsClosed(t, t.item[i].listeners[p])
          PROVE  t.handle[t.listener[t.item[i].listeners[p]].of].current = i
      <3> DEFINE l == t.item[i].listeners[p]
                 g == s.listener[l].of
      <3>1. l \in 1..Len(s.listener) /\ g \in Handle /\ ~IsClosed(s, l)
        BY <1>1, <2>2, Records
      <3>2. s.handle[g].current = i
        <4>1. /\ i \in 1..Len(s.item) /\ p \in 1..Len(s.item[i].listeners)
              /\ ~IsClosed(s, s.item[i].listeners[p])
          BY <2>2, <3>1
        <4>2. s.handle[s.listener[s.item[i].listeners[p]].of].current = i
          BY ONLY <2>0, <4>1, ListedHere, Zenon
        <4> QED BY <4>2
      <3>3. s.handle[g].listener = l
        BY <3>1 DEF View, Owned
      <3>4. s.handle[g].listener # None
        <4>1. l # None
          BY <3>1 DEF None
        <4> QED BY ONLY <3>3, <4>1
      <3> QED BY <1>2, <3>1, <3>2, <3>4
    <2>3. ASSUME NEW g \in Handle, t.handle[g].listener # None, ~IsClosed(t, t.handle[g].listener)
          PROVE  \E p \in 1..Len(t.item[t.handle[g].current].listeners) :
                    t.item[t.handle[g].current].listeners[p] = t.handle[g].listener
      <3>1. t.handle[g].current = s.handle[g].current /\ t.handle[g].listener = s.handle[g].listener
        BY <1>2, <2>3
      <3>2. \E p \in 1..Len(s.item[s.handle[g].current].listeners) :
               s.item[s.handle[g].current].listeners[p] = s.handle[g].listener
        BY <1>1, <2>0, <2>3, <3>1, ListedOpen
      <3> QED BY <3>1, <3>2
    <2> QED BY <2>1, <2>2, <2>3 DEF Listed
  <1>5. Delivered(t, d)
    BY DEF View, Delivered
  <1>6. ASSUME NEW g \in Handle, Listens(t, g) PROVE Followed(t, d, g)
    <2>1. g # h
      BY <1>6 DEF Listens
    <2>2. t.handle[g] = s.handle[g]
      BY <2>1
    <2>3. Listens(s, g)
      BY <1>1, <1>6, <2>2 DEF Listens
    <2>4. Followed(s, d, g)
      BY <2>3 DEF View
    <2> QED BY <2>2, <2>4 DEF Followed, ToCome
  <1> QED BY <1>3, <1>4, <1>5, <1>6 DEF View

\* The listener of a handle is closed and its view, if it has a reader, is empty.
LEMMA CloseView ==
    ASSUME NEW s, NEW d, Good(s), View(s, d), d.item \in 0..Len(s.item), NEW h \in Handle, NEW t,
           s.handle[h].listener # None, Len(t.item) = Len(s.item),
           \A i \in 1..Len(s.item) : /\ t.item[i].listeners = s.item[i].listeners
                                     /\ t.item[i].received_events = s.item[i].received_events
                                     /\ t.item[i].source = s.item[i].source,
           Len(t.listener) = Len(s.listener), IsClosed(t, s.handle[h].listener),
           \A l \in 1..Len(s.listener) : l # s.handle[h].listener => t.listener[l] = s.listener[l],
           \A g \in Handle : g # h => t.handle[g] = s.handle[g],
           t.handle[h].listener = None,
           t.handle[h].update # "stopped" => t.handle[h].seen = <<>>
    PROVE  View(t, d)
  <1> DEFINE c == s.handle[h].listener
  <1>1. \A l \in 1..Len(s.listener) : l # c => (IsClosed(t, l) <=> IsClosed(s, l))
    BY DEF IsClosed
  <1>2. \A g \in Handle : g # h /\ s.handle[g].listener # None => s.handle[g].listener # c
    BY DEF View, Owned
  <1>3. \A g \in Handle : t.handle[g].listener # None =>
           /\ g # h /\ t.handle[g] = s.handle[g] /\ s.handle[g].listener \in 1..Len(s.listener)
           /\ t.handle[g].listener # c
           /\ t.listener[t.handle[g].listener] = s.listener[s.handle[g].listener]
    BY <1>2, Records
  <1>4. \A l \in 1..Len(s.listener) : ~IsClosed(t, l) =>
           /\ ~IsClosed(s, l) /\ t.listener[l] = s.listener[l] /\ s.listener[l].of \in Handle
           /\ s.handle[s.listener[l].of].listener = l /\ s.listener[l].of # h
           /\ t.handle[s.listener[l].of] = s.handle[s.listener[l].of]
    <2> SUFFICES ASSUME NEW l \in 1..Len(s.listener), ~IsClosed(t, l)
                 PROVE  /\ ~IsClosed(s, l) /\ t.listener[l] = s.listener[l] /\ s.listener[l].of \in Handle
                        /\ s.handle[s.listener[l].of].listener = l /\ s.listener[l].of # h
                        /\ t.handle[s.listener[l].of] = s.handle[s.listener[l].of]
      OBVIOUS
    <2>1. l # c
      OBVIOUS
    <2>2. ~IsClosed(s, l) /\ t.listener[l] = s.listener[l] /\ s.listener[l].of \in Handle
      BY <1>1, <2>1, Records
    <2>3. s.handle[s.listener[l].of].listener = l
      BY <2>2 DEF View, Owned
    <2> QED BY <2>1, <2>2, <2>3
  <1>5. Owned(t)
    <2>1. \A g \in Handle : t.handle[g].listener # None => t.listener[t.handle[g].listener].of = g
      <3>1. \A g \in Handle : s.handle[g].listener # None => s.listener[s.handle[g].listener].of = g
        BY ViewParts, Zenon DEF Owned
      <3> QED BY ONLY <1>3, <3>1
    <2>2. \A l \in 1..Len(t.listener) : ~IsClosed(t, l) => t.handle[t.listener[l].of].listener = l
      BY <1>4
    <2>3. \A g \in Handle : t.handle[g].listener = None /\ t.handle[g].update # "stopped"
                               => t.handle[g].seen = <<>>
      BY DEF View, Owned
    <2> QED BY <2>1, <2>2, <2>3 DEF Owned
  <1>6. Listed(t)
    <2>0. Listed(s)
      BY ViewParts
    <2>1. ASSUME NEW i \in 1..Len(t.item), NEW p \in 1..Len(t.item[i].listeners),
                 NEW q \in 1..Len(t.item[i].listeners), t.item[i].listeners[p] = t.item[i].listeners[q]
          PROVE  p = q
      <3>1. /\ i \in 1..Len(s.item) /\ p \in 1..Len(s.item[i].listeners)
            /\ q \in 1..Len(s.item[i].listeners) /\ s.item[i].listeners[p] = s.item[i].listeners[q]
        BY <2>1
      <3> QED BY ONLY <2>0, <3>1, ListedOnce, Zenon
    <2>2. ASSUME NEW i \in 1..Len(t.item), NEW p \in 1..Len(t.item[i].listeners),
                 ~IsClosed(t, t.item[i].listeners[p])
          PROVE  t.handle[t.listener[t.item[i].listeners[p]].of].current = i
      <3> DEFINE l == t.item[i].listeners[p]
      <3>1. l \in 1..Len(s.listener) /\ l = s.item[i].listeners[p] /\ p \in 1..Len(s.item[i].listeners)
        BY <2>2, Records
      <3>2. /\ ~IsClosed(s, l) /\ t.listener[l] = s.listener[l]
            /\ t.handle[s.listener[l].of] = s.handle[s.listener[l].of]
        BY <1>4, <2>2, <3>1
      <3>3. s.handle[s.listener[l].of].current = i
        <4>1. /\ i \in 1..Len(s.item) /\ p \in 1..Len(s.item[i].listeners)
              /\ ~IsClosed(s, s.item[i].listeners[p])
          BY <2>2, <3>1, <3>2
        <4>2. s.handle[s.listener[s.item[i].listeners[p]].of].current = i
          BY ONLY <2>0, <4>1, ListedHere, Zenon
        <4> QED BY <3>1, <4>2
      <3> QED BY <3>2, <3>3
    <2>3. ASSUME NEW g \in Handle, t.handle[g].listener # None, ~IsClosed(t, t.handle[g].listener)
          PROVE  \E p \in 1..Len(t.item[t.handle[g].current].listeners) :
                    t.item[t.handle[g].current].listeners[p] = t.handle[g].listener
      <3>1. t.handle[g] = s.handle[g] /\ s.handle[g].current \in 1..Len(s.item)
            /\ s.handle[g].listener # None /\ ~IsClosed(s, s.handle[g].listener)
        BY <1>1, <1>3, <2>3, Records
      <3>2. \E p \in 1..Len(s.item[s.handle[g].current].listeners) :
               s.item[s.handle[g].current].listeners[p] = s.handle[g].listener
        BY <2>0, <3>1, ListedOpen
      <3>3. t.item[s.handle[g].current].listeners = s.item[s.handle[g].current].listeners
        BY <3>1
      <3> QED BY ONLY <3>1, <3>2, <3>3
    <2> QED BY <2>1, <2>2, <2>3 DEF Listed
  <1>7. Delivered(t, d)
    <2>1. d.item # None => d.item \in 1..Len(s.item)
      BY Records DEF None
    <2>2. \A i \in 1..Len(t.item) : \A p \in 1..Len(t.item[i].received_events) :
             t.item[i].received_events[p] # Restart
      <3>1. \A i \in 1..Len(s.item) : \A p \in 1..Len(s.item[i].received_events) :
               s.item[i].received_events[p] # Restart
        <4>1. Delivered(s, d)
          BY ViewParts
        <4> QED BY ONLY <4>1, Zenon DEF Delivered
      <3> QED BY <3>1
    <2>3. CASE d.item # None
      <3>1. /\ t.item[d.item].listeners = s.item[d.item].listeners
            /\ t.item[d.item].received_events = s.item[d.item].received_events
            /\ t.item[d.item].source = s.item[d.item].source
        BY <2>1, <2>3
      <3>2. Delivered(s, d)
        BY ViewParts
      <3> QED BY <2>2, <2>3, <3>1, <3>2, Zenon DEF Delivered
    <2> QED BY <2>2, <2>3 DEF Delivered
  <1>8. ASSUME NEW g \in Handle, Listens(t, g) PROVE Followed(t, d, g)
    <2>1. t.handle[g] = s.handle[g] /\ s.handle[g].current \in 1..Len(s.item)
          /\ t.listener[s.handle[g].listener] = s.listener[s.handle[g].listener]
      BY <1>3, <1>8, Records DEF Listens
    <2>2. Listens(s, g)
      BY <1>8, <2>1 DEF Listens, IsClosed
    <2>3. Followed(s, d, g)
      BY <2>2 DEF View
    <2>4. /\ t.item[s.handle[g].current].listeners = s.item[s.handle[g].current].listeners
          /\ t.item[s.handle[g].current].received_events = s.item[s.handle[g].current].received_events
          /\ t.item[s.handle[g].current].source = s.item[s.handle[g].current].source
      BY <2>1
    <2>5. ToCome(t, d, g) <=> ToCome(s, d, g)
      BY ONLY <2>1, <2>4, ZenonT(30) DEF ToCome
    <2> QED BY <2>1, <2>3, <2>4, <2>5, Zenon DEF Followed, Sees
  <1> QED BY <1>5, <1>6, <1>7, <1>8 DEF View

-----------------------------------------------------------------------------
\* What one event does, and a row of them.

LEMMA KindsOfEvents ==
    /\ Close # Restart /\ Close \notin ItemEvents /\ Restart \notin ItemEvents
    /\ \A e \in Event : e = Close \/ e = Restart \/ e \in ItemEvents
  BY DEF Close, Restart, ItemEvents, Event

\* Listener l and the reader of its handle are all that an event touches.
Apart(s, t, l) ==
    /\ \A k \in 1..Len(s.listener) : k # l => t.listener[k] = s.listener[k]
    /\ \A g \in Handle : g # s.listener[l].of => t.handle[g] = s.handle[g]
    /\ t.listener[l].of = s.listener[l].of
    /\ IsClosed(s, l) => IsClosed(t, l)

\* The reader of handle h has been passed e, and its listener l goes on.
Heard(s, t, l, h, e) ==
    t.handle[h].seen = Append(s.handle[h].seen, e) /\ t.listener[l] = s.listener[l]

LEMMA Receives ==
    ASSUME NEW s, Typed(s), NEW l \in 1..Len(s.listener), NEW e \in Event, NEW h, h = s.listener[l].of,
           NEW t, t = ListenerReceives(s, l, e)
    PROVE  /\ Apart(s, t, l)
           /\ IsClosed(s, l) => t = s
           /\ ~IsClosed(s, l) =>
                 /\ e = Close => IsClosed(t, l)
                 /\ s.handle[h].update = "stopped" => IsClosed(t, l)
                 /\ e = Restart /\ s.handle[h].update = "open" =>
                       t.handle[h].seen = <<>> /\ t.listener[l].joined = 0
                 /\ e \in ItemEvents /\ s.handle[h].update = "open" => Heard(s, t, l, h, e)
  <1> DEFINE m == Len(s.listener)
             heard == Append(s.handle[h].seen, e)
  <1>1. /\ s.listener \in Seq(ListenerStreams) /\ DOMAIN s.listener = 1..m /\ m \in Nat
        /\ s.handle \in [Handle -> HandleRecords(Len(s.item), m)]
        /\ s = [table |-> s.table, item |-> s.item, listener |-> s.listener, handle |-> s.handle]
    BY TypedParts
  <1>2. s.listener[l] \in ListenerStreams
    BY <1>1, ElementOfSeq
  <1>3. h \in Handle
    BY <1>2 DEF ListenerStreams
  <1>4. s.handle[h] \in HandleRecords(Len(s.item), m)
    BY <1>1, <1>3
  <1>5. /\ e = Close => e # Restart /\ e \notin ItemEvents
        /\ e = Restart => e # Close /\ e \notin ItemEvents
        /\ e \in ItemEvents => e # Close /\ e # Restart
    BY KindsOfEvents
  <1>6. ASSUME NEW r, r \in ListenerStreams, r.of = s.listener[l].of
        PROVE  LET u == [s EXCEPT !.listener = [s.listener EXCEPT ![l] = r]]
               IN  /\ u.listener[l] = r /\ u.handle = s.handle
                   /\ \A k \in 1..m : k # l => u.listener[k] = s.listener[k]
    BY <1>1
  <1>7. ASSUME NEW v
        PROVE  /\ [s.handle EXCEPT ![h].seen = v][h].seen = v
               /\ \A g \in Handle : g # h => [s.handle EXCEPT ![h].seen = v][g] = s.handle[g]
    BY <1>1, <1>3, <1>4 DEF HandleRecords
  <1> HIDE DEF m, heard
  <1>8. CASE IsClosed(s, l)
    <2>1. t = s
      BY <1>8 DEF ListenerReceives
    <2>2. Apart(s, s, l)
      BY DEF Apart
    <2> QED BY <1>8, <2>1, <2>2
  <1>9. CASE ~IsClosed(s, l) /\ e = Close
    <2> DEFINE r == [s.listener[l] EXCEPT !.closedByUpstream = TRUE]
    <2>1. t = [s EXCEPT !.listener = [s.listener EXCEPT ![l] = r]]
      BY <1>9 DEF ListenerReceives, Close, Restart
    <2>2. r \in ListenerStreams /\ r.of = s.listener[l].of /\ r.closedByUpstream = TRUE
      BY <1>2 DEF ListenerStreams
    <2> HIDE DEF r
    <2>3. /\ t.listener[l] = r /\ t.handle = s.handle
          /\ \A k \in 1..m : k # l => t.listener[k] = s.listener[k]
      BY <1>6, <2>1, <2>2
    <2>4. IsClosed(t, l)
      BY <2>2, <2>3 DEF IsClosed
    <2>5. Apart(s, t, l)
      BY <2>2, <2>3, <2>4 DEF Apart, m
    <2> QED BY <1>5, <1>9, <2>4, <2>5
  <1>10. CASE ~IsClosed(s, l) /\ e # Close /\ s.handle[h].update = "stopped"
    <2> DEFINE r == [s.listener[l] EXCEPT !.closedByDownstream = TRUE]
    <2>1. t = [s EXCEPT !.listener = [s.listener EXCEPT ![l] = r]]
      BY <1>10 DEF ListenerReceives
    <2>2. r \in ListenerStreams /\ r.of = s.listener[l].of /\ r.closedByDownstream = TRUE
      BY <1>2 DEF ListenerStreams
    <2> HIDE DEF r
    <2>3. /\ t.listener[l] = r /\ t.handle = s.handle
          /\ \A k \in 1..m : k # l => t.listener[k] = s.listener[k]
      BY <1>6, <2>1, <2>2
    <2>4. IsClosed(t, l)
      BY <2>2, <2>3 DEF IsClosed
    <2>5. Apart(s, t, l)
      BY <2>2, <2>3, <2>4 DEF Apart, m
    <2> QED BY <1>10, <2>4, <2>5
  <1>11. CASE ~IsClosed(s, l) /\ e = Restart /\ s.handle[h].update = "open"
    <2> DEFINE r == [s.listener[l] EXCEPT !.joined = 0]
               u == [s EXCEPT !.listener = [s.listener EXCEPT ![l] = r]]
               ls == [s.listener EXCEPT ![l] = r]
    <2>1. t = [u EXCEPT !.handle = [u.handle EXCEPT ![h].seen = <<>>]]
      <3>1. t = [s EXCEPT !.handle[h].seen = <<>>, !.listener[l].joined = 0]
        BY <1>5, <1>11 DEF ListenerReceives
      <3> QED BY <1>1, <3>1
    <2>2. r \in ListenerStreams /\ r.of = s.listener[l].of /\ r.joined = 0
      BY <1>2 DEF ListenerStreams
    <2>3. u = [table |-> u.table, item |-> u.item, listener |-> u.listener, handle |-> u.handle]
      <3> HIDE DEF ls
      <3>1. [s EXCEPT !.listener = ls] = [table |-> s.table, item |-> s.item, listener |-> ls, handle |-> s.handle]
        BY ONLY <1>1
      <3> QED BY <3>1 DEF ls
    <2> HIDE DEF r
    <2>4. /\ u.listener[l] = r /\ u.handle = s.handle
          /\ \A k \in 1..m : k # l => u.listener[k] = s.listener[k]
      BY <1>6, <2>2
    <2> HIDE DEF u, ls
    <2>5. /\ t.handle[h].seen = <<>> /\ t.listener = u.listener
          /\ \A g \in Handle : g # h => t.handle[g] = s.handle[g]
      <3> DEFINE hs == [s.handle EXCEPT ![h].seen = <<>>]
      <3>1. hs[h].seen = <<>> /\ \A g \in Handle : g # h => hs[g] = s.handle[g]
        BY <1>7
      <3>2. t = [u EXCEPT !.handle = hs]
        BY <2>1, <2>4
      <3> HIDE DEF hs
      <3>3. t.handle = hs /\ t.listener = u.listener
        BY ONLY <2>3, <3>2
      <3> QED BY <3>1, <3>3
    <2>6. Apart(s, t, l)
      BY <1>11, <2>2, <2>4, <2>5 DEF Apart, m
    <2> QED BY <1>5, <1>11, <2>2, <2>4, <2>5, <2>6
  <1>12. CASE ~IsClosed(s, l) /\ e # Close /\ s.handle[h].update # "stopped"
                /\ ~(e = Restart /\ s.handle[h].update = "open")
    <2>1. t = [s EXCEPT !.handle = [s.handle EXCEPT ![h].seen = heard]]
      BY <1>12 DEF ListenerReceives, heard
    <2>2. /\ t.handle[h].seen = heard /\ t.listener = s.listener
          /\ \A g \in Handle : g # h => t.handle[g] = s.handle[g]
      <3> DEFINE hs == [s.handle EXCEPT ![h].seen = heard]
      <3>1. hs[h].seen = heard /\ \A g \in Handle : g # h => hs[g] = s.handle[g]
        BY <1>7
      <3>2. t = [s EXCEPT !.handle = hs]
        BY <2>1
      <3> HIDE DEF hs
      <3>3. t.handle = hs /\ t.listener = s.listener
        BY ONLY <1>1, <3>2
      <3> QED BY <3>1, <3>3
    <2>3. Apart(s, t, l)
      BY <1>12, <2>2 DEF Apart
    <2>4. Heard(s, t, l, h, e)
      BY <2>2 DEF Heard, heard
    <2> QED BY <1>5, <1>12, <2>2, <2>3, <2>4
  <1> QED BY <1>8, <1>9, <1>10, <1>11, <1>12

\* A listener that catches up and stays open has passed on the items of the events.
LEMMA CaughtUp ==
    ASSUME NEW s, Typed(s), NEW l \in 1..Len(s.listener), NEW events \in Seq(Event),
           \A p \in 1..Len(events) : events[p] # Restart, NEW h, h = s.listener[l].of,
           s.handle[h].update = "open" => s.handle[h].seen = <<>>,
           NEW t, t = CatchUp(s, l, events)
    PROVE  /\ t \in Alike(s) /\ Apart(s, t, l)
           /\ s.handle[h].update = "open" /\ ~IsClosed(t, l) =>
                 t.handle[h].seen = Kept(events, ItemEvents) /\ t.listener[l] = s.listener[l]
  <1> DEFINE N == Len(events)
  <1>1. N \in Nat /\ \A n \in 1..N : events[n] \in Event
    BY LenProperties, ElementOfSeq
  <1>2. PICK f \in [0..Len(events) -> Alike(s)] : Delivers(f, s, l, events)
    BY CatchUpUnfolds
  <1>3. PICK g \in [0..Len(events) -> Seq(Event \cap ItemEvents)] : KeepsUpTo(g, events, ItemEvents)
    BY KeptUnfolds
  <1>4. h \in Handle /\ s \in Alike(s)
    <2>1. s.listener[l] \in ListenerStreams
      BY TypedParts, ElementOfSeq
    <2> QED BY <2>1 DEF ListenerStreams, Typed, Alike
  <1> DEFINE Upto(u, seen) ==
                /\ Apart(s, u, l)
                /\ s.handle[h].update = "open" /\ ~IsClosed(u, l) =>
                      u.handle[h].seen = seen /\ u.listener[l] = s.listener[l]
             Q == {n \in Nat : n <= N => Upto(f[n], g[n])}
  <1>5. 0 \in Q
    <2>1. f[0] = s /\ g[0] = <<>> /\ Apart(s, s, l)
      BY <1>2, <1>3 DEF Delivers, KeepsUpTo, Apart
    <2> QED BY <2>1
  <1>6. ASSUME NEW n \in Nat, n < N, n \in Q PROVE n + 1 \in Q
    <2> DEFINE u == f[n]
               v == f[n + 1]
               e == events[n + 1]
               seen == g[n]
    <2>1. n + 1 \in 1..N /\ (n + 1) - 1 = n /\ n \in 0..N /\ Upto(u, seen)
      BY <1>1, <1>6
    <2>2. /\ v = ListenerReceives(u, l, e) /\ u \in Alike(s)
          /\ g[n + 1] = IF e \in ItemEvents THEN Append(seen, e) ELSE seen
      BY <1>2, <1>3, <2>1 DEF Delivers, KeepsUpTo
    <2>3. e \in Event /\ (e = Close \/ e \in ItemEvents) /\ ~(e = Close /\ e \in ItemEvents)
      BY <1>1, <2>1, KindsOfEvents
    <2> HIDE DEF Upto, u, v, e, seen
    <2>4. /\ Typed(u) /\ l \in 1..Len(u.listener) /\ Len(u.listener) = Len(s.listener)
          /\ u.handle[h].update = s.handle[h].update
      BY <1>4, <2>2 DEF Alike, Typed
    <2>5. /\ Apart(s, u, l)
          /\ s.handle[h].update = "open" /\ ~IsClosed(u, l) =>
                u.handle[h].seen = seen /\ u.listener[l] = s.listener[l]
      BY <2>1 DEF Upto
    <2>6. h = u.listener[l].of
      BY <2>5 DEF Apart
    <2>7. /\ Apart(u, v, l)
          /\ IsClosed(u, l) => v = u
          /\ ~IsClosed(u, l) =>
                /\ e = Close => IsClosed(v, l)
                /\ e \in ItemEvents /\ u.handle[h].update = "open" => Heard(u, v, l, h, e)
      <3>1. /\ Apart(u, v, l)
            /\ IsClosed(u, l) => v = u
            /\ ~IsClosed(u, l) =>
                  /\ e = Close => IsClosed(v, l)
                  /\ u.handle[h].update = "stopped" => IsClosed(v, l)
                  /\ e \in ItemEvents /\ u.handle[h].update = "open" => Heard(u, v, l, h, e)
        <4> DEFINE r == ListenerReceives(u, l, e)
        <4>1. /\ Typed(u) /\ l \in 1..Len(u.listener) /\ e \in Event /\ h = u.listener[l].of /\ v = r
          BY <2>2, <2>3, <2>4, <2>6
        <4>2. Apart(u, v, l)
          BY ONLY <4>1, Receives
        <4>3. IsClosed(u, l) => v = u
          BY ONLY <4>1, Receives
        <4>4. /\ ~IsClosed(u, l) /\ e = Close => IsClosed(v, l)
              /\ ~IsClosed(u, l) /\ u.handle[h].update = "stopped" => IsClosed(v, l)
          BY ONLY <4>1, Receives
        <4>5. ~IsClosed(u, l) /\ e \in ItemEvents /\ u.handle[h].update = "open" => Heard(u, v, l, h, e)
          BY ONLY <4>1, Receives
        <4> QED BY ONLY <4>2, <4>3, <4>4, <4>5
      <3> QED BY <3>1
    <2>8. Apart(s, v, l)
      BY <2>4, <2>5, <2>6, <2>7 DEF Apart
    <2>9. ASSUME s.handle[h].update = "open", ~IsClosed(v, l)
          PROVE  v.handle[h].seen = g[n + 1] /\ v.listener[l] = s.listener[l]
      <3>1. ~IsClosed(u, l)
        BY <2>7, <2>9 DEF Apart
      <3>2. e \in ItemEvents
        BY <2>3, <2>7, <2>9, <3>1
      <3>3. Heard(u, v, l, h, e)
        BY <2>4, <2>7, <2>9, <3>1, <3>2
      <3> QED BY <2>2, <2>5, <2>9, <3>1, <3>2, <3>3 DEF Heard
    <2>10. Upto(v, g[n + 1])
      BY <2>8, <2>9 DEF Upto
    <2> QED BY <2>10 DEF v
  <1>7. N \in Q
    <2> HIDE DEF Q
    <2>1. \A n \in 0..N : n \in Q
      BY <1>1, <1>5, <1>6, NumbersUpTo
    <2> QED BY <1>1, <2>1
  <1>8. Upto(f[N], g[N]) /\ f[N] \in Alike(s)
    BY <1>1, <1>2, <1>7
  <1>9. t = f[N] /\ g[N] = Kept(events, ItemEvents)
    BY <1>2, <1>3 DEF Delivers, KeepsUpTo
  <1> QED BY <1>8, <1>9

-----------------------------------------------------------------------------
\* The steps keep the views.

\* t is s with a new listener l of h, which has caught up with item i.
Joined(s, t, h, i, l) ==
    /\ Len(t.item) = Len(s.item) /\ Len(t.listener) = l
    /\ \A j \in 1..Len(s.item) :
          /\ t.item[j].received_events = s.item[j].received_events
          /\ t.item[j].source = s.item[j].source
          /\ Len(t.item[j].listeners) = Len(s.item[j].listeners) + (IF j = i THEN 1 ELSE 0)
          /\ \A p \in 1..Len(s.item[j].listeners) : t.item[j].listeners[p] = s.item[j].listeners[p]
    /\ t.item[i].listeners[Len(s.item[i].listeners) + 1] = l
    /\ \A k \in 1..Len(s.listener) : t.listener[k] = s.listener[k]
    /\ t.listener[l].of = h
    /\ \A g \in Handle : g # h => t.handle[g] = s.handle[g]
    /\ t.handle[h].listener = l /\ t.handle[h].current = i
    /\ t.handle[h].update = "open" /\ ~IsClosed(t, l) =>
          /\ t.handle[h].seen = Kept(s.item[i].received_events, ItemEvents)
          /\ t.listener[l].joined = IF delivery.item = i THEN Len(s.item[i].received_events) ELSE 0

LEMMA OpensListener ==
    ASSUME NEW s, Good(s), Owned(s), NEW h \in Handle, s.handle[h].listener = None,
           s.handle[h].update # "none", s.handle[h].current # None,
           \A p \in 1..Len(s.item[s.handle[h].current].received_events) :
              s.item[s.handle[h].current].received_events[p] # Restart
    PROVE  Joined(s, OpenListener(s, h), h, s.handle[h].current, Len(s.listener) + 1)
  <1> DEFINE i == s.handle[h].current
             m == Len(s.listener)
             l == m + 1
             events == s.item[i].received_events
             t == OpenListener(s, h)
  <1>1. PICK u : Good(u) /\ ListenerAdded(s, u, h) /\ t = CatchUp(u, l, events)
    BY OpenListenerGood
  <1> HIDE DEF t
  <1>2. /\ m \in Nat /\ Len(s.item) \in Nat /\ i \in 1..Len(s.item) /\ events \in Seq(Event)
        /\ s.handle[h] \in HandleRecords(Len(s.item), m)
        /\ \A j \in 1..Len(s.item) : Len(s.item[j].listeners) \in Nat
    <2>1. i \in 0..Len(s.item) /\ Len(s.item) \in Nat
      BY Records
    <2>2. i \in 1..Len(s.item)
      BY <2>1 DEF None
    <2> QED BY <2>1, <2>2, Records
  <1>3. /\ Len(u.item) = Len(s.item) /\ Len(u.listener) = l
        /\ \A j \in 1..Len(s.item) : j # i => u.item[j] = s.item[j]
        /\ u.item[i].received_events = events /\ u.item[i].source = s.item[i].source
        /\ Len(u.item[i].listeners) = Len(s.item[i].listeners) + 1
        /\ u.item[i].listeners[Len(s.item[i].listeners) + 1] = l
        /\ \A p \in 1..Len(s.item[i].listeners) : u.item[i].listeners[p] = s.item[i].listeners[p]
        /\ \A k \in 1..m : u.listener[k] = s.listener[k]
        /\ u.listener[l].of = h /\ ~IsClosed(u, l)
        /\ u.listener[l].joined = IF delivery.item = i THEN Len(events) ELSE 0
        /\ \A g \in Handle : g # h => u.handle[g] = s.handle[g]
        /\ u.handle[h] = [s.handle[h] EXCEPT !.listener = l]
    BY <1>1 DEF ListenerAdded
  <1>4. /\ u.handle[h].listener = l /\ u.handle[h].current = i
        /\ u.handle[h].update = s.handle[h].update /\ u.handle[h].seen = s.handle[h].seen
    <2> HIDE DEF i, l, m
    <2> QED BY <1>2, <1>3 DEF HandleRecords, i
  <1>5. u.handle[h].update = "open" => u.handle[h].seen = <<>>
    BY <1>4 DEF Owned
  <1>6. Typed(u) /\ l \in 1..Len(u.listener)
    <2>1. Len(u.listener) = l /\ l \in 1..l
      <3>1. m \in Nat
        BY <1>2
      <3>2. l \in 1..l
        <4> HIDE DEF m
        <4> QED BY ONLY <3>1
      <3>3. Len(u.listener) = l
        BY ONLY <1>3
      <3> QED BY ONLY <3>2, <3>3, Zenon
    <2> HIDE DEF l
    <2> QED BY <1>1, <2>1 DEF Good
  <1>7. \A p \in 1..Len(events) : events[p] # Restart
    OBVIOUS
  <1> HIDE DEF i, l, m, events
  <1>8. /\ t \in Alike(u) /\ Apart(u, t, l)
        /\ u.handle[h].update = "open" /\ ~IsClosed(t, l) =>
              t.handle[h].seen = Kept(events, ItemEvents) /\ t.listener[l] = u.listener[l]
    <2>1. /\ t = CatchUp(u, l, events) /\ events \in Seq(Event) /\ h = u.listener[l].of
      BY <1>1, <1>2, <1>3 DEF i, l, events, m
    <2> QED BY ONLY <2>1, <1>5, <1>6, <1>7, CaughtUp
  <1>9. /\ t.item = u.item /\ Len(t.listener) = l
        /\ t.handle[h].listener = l /\ t.handle[h].current = i
        /\ t.handle[h].update = u.handle[h].update
    BY <1>3, <1>4, <1>8 DEF Alike
  <1>10. /\ \A k \in 1..m : t.listener[k] = s.listener[k]
         /\ t.listener[l].of = h
         /\ \A g \in Handle : g # h => t.handle[g] = s.handle[g]
    <2>1. \A k \in 1..m : k \in 1..l /\ k # l
      BY <1>2 DEF l
    <2> QED BY <1>3, <1>8, <2>1 DEF Apart
  <1>11. t.handle[h].update = "open" /\ ~IsClosed(t, l) =>
            /\ t.handle[h].seen = Kept(events, ItemEvents)
            /\ t.listener[l].joined = IF delivery.item = i THEN Len(events) ELSE 0
    BY <1>3, <1>8, <1>9
  <1>12. \A j \in 1..Len(s.item) :
            /\ t.item[j].received_events = s.item[j].received_events
            /\ t.item[j].source = s.item[j].source
            /\ Len(t.item[j].listeners) = Len(s.item[j].listeners) + (IF j = i THEN 1 ELSE 0)
            /\ \A p \in 1..Len(s.item[j].listeners) : t.item[j].listeners[p] = s.item[j].listeners[p]
    <2> TAKE j \in 1..Len(s.item)
    <2>1. CASE j = i
      <3>1. /\ t.item[i].received_events = s.item[i].received_events
            /\ t.item[i].source = s.item[i].source
            /\ Len(t.item[i].listeners) = Len(s.item[i].listeners) + 1
            /\ \A p \in 1..Len(s.item[i].listeners) : t.item[i].listeners[p] = s.item[i].listeners[p]
        BY ONLY <1>3, <1>9 DEF events
      <3> QED BY <2>1, <3>1
    <2>2. CASE j # i
      <3>1. t.item[j] = s.item[j]
        BY ONLY <1>3, <1>9, <2>2
      <3> QED BY <1>2, <2>2, <3>1
    <2> QED BY <2>1, <2>2
  <1>13. Len(t.item) = Len(s.item) /\ t.item[i].listeners[Len(s.item[i].listeners) + 1] = l
    BY <1>3, <1>9
  <1>14. Joined(s, t, h, i, l)
    BY <1>9, <1>10, <1>11, <1>12, <1>13 DEF Joined, events, m
  <1> QED BY <1>14 DEF t, i, l, m

\* With an event that the item has just had, the new listener passes it on twice.
LEMMA JoinedFollows ==
    ASSUME NEW s, Good(s), View(s, delivery), delivery.item \in 0..Len(s.item), NEW h \in Handle,
           NEW i \in 1..Len(s.item), NEW l, l = Len(s.listener) + 1, NEW t, Joined(s, t, h, i, l),
           Listens(t, h)
    PROVE  Followed(t, delivery, h)
  <1> DEFINE events == s.item[i].received_events
             n == Len(s.item[i].listeners)
             joined == IF delivery.item = i THEN Len(events) ELSE 0
  <1>1. /\ events \in Seq(Event) /\ Len(events) \in Nat /\ n \in Nat
        /\ \A p \in 1..n : s.item[i].listeners[p] \in 1..Len(s.listener)
        /\ Len(s.listener) \in Nat
    BY Records
  <1>2. /\ t.handle[h].listener = l /\ t.handle[h].current = i
        /\ t.item[i].received_events = events /\ t.item[i].source = s.item[i].source
        /\ Len(t.item[i].listeners) = n + 1 /\ t.item[i].listeners[n + 1] = l
        /\ t.handle[h].seen = Kept(events, ItemEvents)
        /\ t.listener[l].joined = joined
    BY DEF Joined, Listens
  <1>3. Delivered(s, delivery)
    BY ViewParts
  <1> HIDE DEF events, n, joined
  <1>4. delivery.item = i => ToCome(t, delivery, h)
    <2> SUFFICES ASSUME delivery.item = i PROVE ToCome(t, delivery, h)
      OBVIOUS
    <2>1. delivery.next <= n + 1
      <3>1. delivery.item # None
        BY DEF None
      <3> QED BY <1>3, <3>1 DEF Delivered, n
    <2>2. n + 1 \in 1..Len(t.item[i].listeners) /\ n + 1 >= delivery.next
      BY <1>1, <1>2, <2>1
    <2> QED BY <1>2, <2>2 DEF ToCome
  <1>5. delivery.item # i => ~ToCome(t, delivery, h)
    BY <1>2 DEF ToCome
  <1>6. CASE delivery.item # i
    <2>1. joined = 0 /\ Passed(events, 0) = Kept(events, ItemEvents) /\ 0 <= Len(events)
      BY <1>1, <1>6, PassedAll DEF joined
    <2> QED BY <1>2, <1>5, <1>6, <2>1 DEF Followed, Sees
  <1>7. CASE delivery.item = i
    <2>1. CASE delivery.event = Restart
      BY <1>4, <1>7, <2>1 DEF Followed, Sees
    <2>2. CASE delivery.event # Restart
      <3>1. events # <<>> /\ events[Len(events)] = delivery.event
        <4>1. delivery.item # None
          BY <1>7 DEF None
        <4> QED BY <1>3, <1>7, <2>2, <4>1 DEF Delivered, events
      <3>2. joined = Len(events) /\ joined <= Len(events)
        BY <1>1, <1>7 DEF joined
      <3>3. Passed(events, Len(events)) = Plus(Kept(events, ItemEvents), delivery.event)
        BY <1>1, <3>1, PassedTwice
      <3> QED BY <1>2, <1>4, <1>7, <3>2, <3>3 DEF Followed, Sees
    <2> QED BY <2>1, <2>2
  <1> QED BY <1>6, <1>7

LEMMA JoinedView ==
    ASSUME NEW s, Good(s), View(s, delivery), DeliveryTyped, delivery.item \in 0..Len(s.item), NEW h \in Handle,
           s.handle[h].listener = None, NEW i \in 1..Len(s.item), NEW l, l = Len(s.listener) + 1,
           NEW t, Joined(s, t, h, i, l)
    PROVE  View(t, delivery)
  <1>1. /\ Len(s.listener) \in Nat /\ l # None /\ \A k \in 1..l : k \in 1..Len(s.listener) \/ k = l
        /\ \A k \in 1..Len(s.listener) : k # l
    BY Records DEF None
  <1>2. /\ Len(t.item) = Len(s.item) /\ Len(t.listener) = l
        /\ \A k \in 1..Len(s.listener) : t.listener[k] = s.listener[k]
        /\ t.listener[l].of = h
        /\ \A g \in Handle : g # h => t.handle[g] = s.handle[g]
        /\ t.handle[h].listener = l /\ t.handle[h].current = i
    BY DEF Joined
  <1>3. \A k \in 1..Len(s.listener) : IsClosed(t, k) <=> IsClosed(s, k)
    BY <1>2 DEF IsClosed
  <1>4. \A j \in 1..Len(s.item) :
           /\ \A p \in 1..Len(s.item[j].listeners) :
                 /\ p \in 1..Len(t.item[j].listeners) /\ t.item[j].listeners[p] = s.item[j].listeners[p]
                 /\ s.item[j].listeners[p] \in 1..Len(s.listener)
           /\ \A p \in 1..Len(t.item[j].listeners) :
                 p \in 1..Len(s.item[j].listeners) \/ (j = i /\ t.item[j].listeners[p] = l
                                                             /\ p = Len(s.item[j].listeners) + 1)
    <2> TAKE j \in 1..Len(s.item)
    <2> DEFINE n == Len(s.item[j].listeners)
    <2>1. /\ n \in Nat /\ Len(t.item[j].listeners) = n + (IF j = i THEN 1 ELSE 0)
          /\ \A p \in 1..n : t.item[j].listeners[p] = s.item[j].listeners[p]
          /\ \A p \in 1..n : s.item[j].listeners[p] \in 1..Len(s.listener)
          /\ j = i => t.item[j].listeners[n + 1] = l
      BY Records DEF Joined
    <2> HIDE DEF n
    <2>2. /\ \A p \in 1..n : p \in 1..Len(t.item[j].listeners)
          /\ \A p \in 1..Len(t.item[j].listeners) : p \in 1..n \/ (j = i /\ p = n + 1)
      BY <2>1
    <2> QED BY <2>1, <2>2 DEF n
  <1>5. \A g \in Handle : g # h /\ s.handle[g].listener # None =>
           /\ t.handle[g] = s.handle[g] /\ s.handle[g].listener \in 1..Len(s.listener)
           /\ t.listener[s.handle[g].listener] = s.listener[s.handle[g].listener]
           /\ s.handle[g].current \in 1..Len(s.item)
    BY <1>2, Records
  <1>6. Owned(t)
    <2>1. ASSUME NEW g \in Handle, t.handle[g].listener # None PROVE t.listener[t.handle[g].listener].of = g
      <3>1. CASE g = h
        BY <1>2, <3>1
      <3>2. CASE g # h
        <4>1. s.handle[g].listener # None /\ t.handle[g] = s.handle[g]
          BY <1>2, <2>1, <3>2
        <4>2. s.listener[s.handle[g].listener].of = g
          BY <4>1 DEF View, Owned
        <4> QED BY <1>5, <3>2, <4>1, <4>2
      <3> QED BY <3>1, <3>2
    <2>2. ASSUME NEW k \in 1..Len(t.listener), ~IsClosed(t, k)
          PROVE  t.handle[t.listener[k].of].listener = k
      <3>1. CASE k = l
        BY <1>2, <3>1
      <3>2. CASE k \in 1..Len(s.listener)
        <4>1. /\ ~IsClosed(s, k) /\ t.listener[k] = s.listener[k] /\ s.listener[k].of \in Handle
              /\ k # None
          BY <1>2, <1>3, <2>2, <3>2, Records DEF None
        <4>2. s.handle[s.listener[k].of].listener = k
          BY <3>2, <4>1 DEF View, Owned
        <4> QED BY <1>2, <4>1, <4>2
      <3> QED BY <1>1, <1>2, <3>1, <3>2
    <2>3. \A g \in Handle : t.handle[g].listener = None /\ t.handle[g].update # "stopped"
                               => t.handle[g].seen = <<>>
      BY <1>1, <1>2 DEF View, Owned
    <2> QED BY <2>1, <2>2, <2>3 DEF Owned
  <1>7. Listed(t)
    <2>0. Listed(s) /\ Owned(s)
      BY ViewParts
    <2>1. ASSUME NEW j \in 1..Len(t.item), NEW p \in 1..Len(t.item[j].listeners),
                 NEW q \in 1..Len(t.item[j].listeners), t.item[j].listeners[p] = t.item[j].listeners[q]
          PROVE  p = q
      <3>0. j \in 1..Len(s.item)
        BY <1>2
      <3>1. CASE p \in 1..Len(s.item[j].listeners) /\ q \in 1..Len(s.item[j].listeners)
        <4>1. s.item[j].listeners[p] = s.item[j].listeners[q]
          BY <1>4, <2>1, <3>0, <3>1
        <4> QED BY ONLY <2>0, <3>0, <3>1, <4>1, ListedOnce, Zenon
      <3>2. CASE ~(p \in 1..Len(s.item[j].listeners) /\ q \in 1..Len(s.item[j].listeners))
        <4> DEFINE n == Len(s.item[j].listeners)
                   x == t.item[j].listeners
        <4>1. /\ \A r \in 1..n : x[r] # l
              /\ \A r \in 1..Len(x) : r \in 1..n \/ (x[r] = l /\ r = n + 1)
          BY <1>1, <1>4, <3>0
        <4>2. p \in 1..Len(x) /\ q \in 1..Len(x) /\ x[p] = x[q] /\ ~(p \in 1..n /\ q \in 1..n)
          BY <2>1, <3>2
        <4> HIDE DEF n, x
        <4> QED BY ONLY <4>1, <4>2
      <3> QED BY <3>1, <3>2
    <2>2. ASSUME NEW j \in 1..Len(t.item), NEW p \in 1..Len(t.item[j].listeners),
                 ~IsClosed(t, t.item[j].listeners[p])
          PROVE  t.handle[t.listener[t.item[j].listeners[p]].of].current = j
      <3> DEFINE k == t.item[j].listeners[p]
      <3>0. j \in 1..Len(s.item)
        BY <1>2
      <3>1. CASE p \in 1..Len(s.item[j].listeners)
        <4>1. k = s.item[j].listeners[p] /\ k \in 1..Len(s.listener)
          BY <1>4, <3>0, <3>1
        <4>2. ~IsClosed(s, s.item[j].listeners[p]) /\ t.listener[k] = s.listener[k]
          BY <1>2, <1>3, <2>2, <4>1
        <4>3. s.handle[s.listener[s.item[j].listeners[p]].of].current = j
          BY ONLY <2>0, <3>0, <3>1, <4>2, ListedHere, Zenon
        <4>4. s.handle[s.listener[k].of].listener = k /\ s.listener[k].of \in Handle /\ k # None
          <5>1. ~IsClosed(s, k)
            BY ONLY <4>1, <4>2
          <5> HIDE DEF k
          <5>2. s.handle[s.listener[k].of].listener = k
            BY <2>0, <4>1, <5>1, Zenon DEF Owned
          <5>3. s.listener[k].of \in Handle
            BY <4>1, Records
          <5>4. k # None
            BY <4>1 DEF None
          <5> QED BY <5>2, <5>3, <5>4
        <4> QED BY <1>2, <4>1, <4>2, <4>3, <4>4
      <3>2. CASE j = i /\ k = l
        BY <1>2, <3>2
      <3> QED BY <1>4, <3>0, <3>1, <3>2
    <2>3. ASSUME NEW g \in Handle, t.handle[g].listener # None, ~IsClosed(t, t.handle[g].listener)
          PROVE  \E p \in 1..Len(t.item[t.handle[g].current].listeners) :
                    t.item[t.handle[g].current].listeners[p] = t.handle[g].listener
      <3>1. CASE g = h
        <4>1. Len(s.item[i].listeners) \in Nat
          BY Records
        <4>2. /\ Len(t.item[i].listeners) = Len(s.item[i].listeners) + 1
              /\ t.item[i].listeners[Len(s.item[i].listeners) + 1] = l
          BY <4>1 DEF Joined
        <4>3. Len(s.item[i].listeners) + 1 \in 1..Len(t.item[i].listeners)
          BY ONLY <4>1, <4>2
        <4>4. t.handle[g].current = i /\ t.handle[g].listener = l
          BY <1>2, <3>1
        <4> QED BY ONLY <4>2, <4>3, <4>4
      <3>2. CASE g # h
        <4>1. /\ t.handle[g] = s.handle[g] /\ s.handle[g].listener # None
              /\ s.handle[g].current \in 1..Len(s.item) /\ ~IsClosed(s, s.handle[g].listener)
          BY <1>2, <1>3, <1>5, <2>3, <3>2
        <4>2. PICK p \in 1..Len(s.item[s.handle[g].current].listeners) :
                 s.item[s.handle[g].current].listeners[p] = s.handle[g].listener
          BY <2>0, <4>1, ListedOpen
        <4>3. /\ p \in 1..Len(t.item[s.handle[g].current].listeners)
              /\ t.item[s.handle[g].current].listeners[p] = s.item[s.handle[g].current].listeners[p]
          BY <1>4, <4>1
        <4> QED BY ONLY <4>1, <4>2, <4>3
      <3> QED BY <3>1, <3>2
    <2> QED BY <2>1, <2>2, <2>3 DEF Listed
  <1>8. Delivered(t, delivery)
    <2>0. Delivered(s, delivery)
      BY ViewParts
    <2>1. \A j \in 1..Len(s.item) : /\ t.item[j].received_events = s.item[j].received_events
                                    /\ t.item[j].source = s.item[j].source
      BY DEF Joined
    <2>2. \A j \in 1..Len(t.item) : \A p \in 1..Len(t.item[j].received_events) :
             t.item[j].received_events[p] # Restart
      <3>1. \A j \in 1..Len(s.item) : \A p \in 1..Len(s.item[j].received_events) :
               s.item[j].received_events[p] # Restart
        BY <2>0, Zenon DEF Delivered
      <3> QED BY ONLY <1>2, <2>1, <3>1
    <2>3. CASE delivery.item # None
      <3>1. delivery.item \in 1..Len(s.item)
        BY <2>3, Records DEF None
      <3>2. delivery.next <= Len(s.item[delivery.item].listeners) + 1
        BY <2>0, <2>3 DEF Delivered
      <3>3. delivery.next <= Len(t.item[delivery.item].listeners) + 1
        <4> DEFINE n == Len(s.item[delivery.item].listeners)
                   k == IF delivery.item = i THEN 1 ELSE 0
        <4>1. n \in Nat /\ k \in Nat
          BY <3>1, Records
        <4>2. Len(t.item[delivery.item].listeners) = n + k
          BY <3>1 DEF Joined
        <4>3. delivery.next \in Nat
          BY DEF DeliveryTyped
        <4> HIDE DEF n, k
        <4> QED BY ONLY <3>2, <4>1, <4>2, <4>3 DEF n
      <3>4. /\ t.item[delivery.item].received_events = s.item[delivery.item].received_events
            /\ t.item[delivery.item].source = s.item[delivery.item].source
        BY <2>1, <3>1
      <3> QED BY <2>0, <2>2, <2>3, <3>3, <3>4, Zenon DEF Delivered
    <2> QED BY <2>2, <2>3 DEF Delivered
  <1>9. ASSUME NEW g \in Handle, Listens(t, g) PROVE Followed(t, delivery, g)
    <2>1. CASE g = h
      BY <1>9, <2>1, JoinedFollows
    <2>2. CASE g # h
      <3> DEFINE j == s.handle[g].current
                 k == s.handle[g].listener
      <3>1. t.handle[g] = s.handle[g] /\ k # None
        BY <1>2, <1>9, <2>2 DEF Listens
      <3>2. k \in 1..Len(s.listener) /\ j \in 1..Len(s.item) /\ t.listener[k] = s.listener[k]
        BY <1>5, <2>2, <3>1
      <3>3. Listens(s, g)
        BY <1>3, <1>9, <3>1, <3>2 DEF Listens
      <3>4. Followed(s, delivery, g)
        BY <3>3 DEF View
      <3>5. t.item[j].received_events = s.item[j].received_events /\ t.item[j].source = s.item[j].source
        BY <3>2 DEF Joined
      <3>6. ToCome(t, delivery, g) <=> ToCome(s, delivery, g)
        <4>1. \A p \in 1..Len(s.item[j].listeners) :
                 p \in 1..Len(t.item[j].listeners) /\ t.item[j].listeners[p] = s.item[j].listeners[p]
          BY <1>4, <3>2
        <4>2. \A p \in 1..Len(t.item[j].listeners) : t.item[j].listeners[p] = k =>
                 p \in 1..Len(s.item[j].listeners) /\ s.item[j].listeners[p] = k
          <5>1. k # l
            BY <1>1, <3>2
          <5>2. \A p \in 1..Len(t.item[j].listeners) :
                   p \in 1..Len(s.item[j].listeners) \/ t.item[j].listeners[p] = l
            BY <1>4, <3>2
          <5> HIDE DEF j, k
          <5> QED BY <4>1, <5>1, <5>2
        <4> HIDE DEF j, k
        <4>3. ToCome(s, delivery, g) <=>
                 /\ delivery.item = j
                 /\ \E p \in 1..Len(s.item[j].listeners) : p >= delivery.next /\ s.item[j].listeners[p] = k
          BY DEF ToCome, j, k
        <4>4. ToCome(t, delivery, g) <=>
                 /\ delivery.item = j
                 /\ \E p \in 1..Len(t.item[j].listeners) : p >= delivery.next /\ t.item[j].listeners[p] = k
          BY <3>1 DEF ToCome, j, k
        <4> QED BY ONLY <4>1, <4>2, <4>3, <4>4
      <3> HIDE DEF j, k
      <3>7. Followed(t, delivery, g) <=> Followed(s, delivery, g)
        BY <3>1, <3>2, <3>5, <3>6, Zenon DEF Followed, Sees, j, k
      <3> QED BY <3>4, <3>7
    <2> QED BY <2>1, <2>2
  <1> QED BY <1>6, <1>7, <1>8, <1>9 DEF View

LEMMA OpenView ==
    ASSUME NEW s, Good(s), View(s, delivery), DeliveryTyped, delivery.item \in 0..Len(s.item), NEW h \in Handle,
           s.handle[h].listener = None, s.handle[h].update # "none", s.handle[h].current # None
    PROVE  View(OpenListener(s, h), delivery)
  <1> DEFINE i == s.handle[h].current
             l == Len(s.listener) + 1
             t == OpenListener(s, h)
  <1>1. i \in 1..Len(s.item)
    <2>1. i \in 0..Len(s.item) /\ Len(s.item) \in Nat
      BY Records
    <2> QED BY <2>1 DEF None
  <1>2. Owned(s) /\ \A p \in 1..Len(s.item[i].received_events) : s.item[i].received_events[p] # Restart
    BY <1>1, Zenon DEF View, Delivered
  <1>3. Joined(s, t, h, i, l)
    BY <1>2, OpensListener
  <1> HIDE DEF i, t
  <1> QED BY <1>1, <1>3, JoinedView DEF t

LEMMA ClosedView ==
    ASSUME NEW s, Good(s), View(s, delivery), delivery.item \in 0..Len(s.item), NEW h \in Handle
    PROVE  View(CloseListener(s, h), delivery)
  <1> DEFINE t == CloseListener(s, h)
  <1>1. /\ t.handle[h].listener = None /\ t.handle[h].update = s.handle[h].update
        /\ Len(t.item) = Len(s.item) /\ Len(t.listener) = Len(s.listener)
        /\ s.handle[h].listener = None => t = s
        /\ s.handle[h].listener # None => ListenerClosed(s, t, h)
    BY CloseListenerGood
  <1> HIDE DEF t
  <1>2. CASE s.handle[h].listener = None
    BY <1>1, <1>2 DEF t
  <1>3. CASE s.handle[h].listener # None
    <2>1. IsClosed(t, s.handle[h].listener)
      BY <1>1, <1>3 DEF ListenerClosed, IsClosed
    <2>2. t.handle[h].update # "stopped" => t.handle[h].seen = <<>>
      <3>1. s.handle[h].update \in {"none", "open", "stopped"}
        <4>1. s.handle[h] \in HandleRecords(Len(s.item), Len(s.listener))
          BY Records
        <4> QED BY <4>1 DEF HandleRecords
      <3>2. s.handle[h].update # "none"
        BY <1>3, Records
      <3> QED BY <1>1, <1>3, <3>1, <3>2 DEF ListenerClosed
    <2>3. /\ \A i \in 1..Len(s.item) : /\ t.item[i].listeners = s.item[i].listeners
                                       /\ t.item[i].received_events = s.item[i].received_events
                                       /\ t.item[i].source = s.item[i].source
          /\ \A l \in 1..Len(s.listener) : l # s.handle[h].listener => t.listener[l] = s.listener[l]
          /\ \A g \in Handle : g # h => t.handle[g] = s.handle[g]
      BY <1>1, <1>3 DEF ListenerClosed
    <2>4. View(t, delivery)
      BY ONLY <1>1, <1>3, <2>1, <2>2, <2>3, CloseView, Good(s), View(s, delivery),
              delivery.item \in 0..Len(s.item), h \in Handle
    <2> QED BY <2>4 DEF t
  <1> QED BY <1>2, <1>3

LEMMA PutView ==
    ASSUME NEW s, Good(s), View(s, delivery), NEW h \in Handle, NEW i, NEW t, HandlePut(s, t, h, i)
    PROVE  View(t, delivery)
  <1>1. /\ t.item = s.item /\ t.listener = s.listener /\ \A g \in Handle : g # h => t.handle[g] = s.handle[g]
        /\ t.handle[h].listener = s.handle[h].listener /\ t.handle[h].listener = None
        /\ t.handle[h].update = s.handle[h].update /\ t.handle[h].seen = s.handle[h].seen
    BY DEF HandlePut
  <1>2. t.handle[h].listener = None /\ t.handle[h].update # "stopped" => t.handle[h].seen = <<>>
    BY <1>1 DEF View, Owned
  <1> QED BY <1>1, <1>2, HandleView

LEMMA MoveToView ==
    ASSUME NEW s, Good(s), View(s, delivery), DeliveryTyped, delivery.item \in 0..Len(s.item), NEW h \in Handle,
           NEW i \in 1..Len(s.item)
    PROVE  View(MoveTo(s, h, i), delivery)
  <1> DEFINE t == MoveTo(s, h, i)
             closed == CloseListener(s, h)
  <1>1. /\ Good(closed) /\ closed.handle[h].update = s.handle[h].update /\ Len(closed.item) = Len(s.item)
    BY CloseListenerGood
  <1>2. View(closed, delivery)
    BY ClosedView
  <1>3. \/ t = s
        \/ Good(t) /\ HandlePut(s, t, h, i)
        \/ t = closed
        \/ \E u : /\ Good(u) /\ HandlePut(closed, u, h, i)
                  /\ s.handle[h].update # "none" /\ t = OpenListener(u, h)
    BY MoveToCases
  <1> HIDE DEF t, closed
  <1>4. ASSUME NEW u, Good(u), HandlePut(closed, u, h, i), s.handle[h].update # "none", t = OpenListener(u, h)
        PROVE  View(t, delivery)
    <2>1. View(u, delivery)
      BY <1>1, <1>2, <1>4, PutView
    <2>2. i # None
      BY Records DEF None
    <2>3. /\ u.handle[h].listener = None /\ u.handle[h].update # "none" /\ u.handle[h].current # None
          /\ u.item = closed.item
      BY <1>1, <1>4, <2>2 DEF HandlePut
    <2>4. delivery.item \in 0..Len(u.item)
      BY <1>1, <2>3
    <2> QED BY <1>4, <2>1, <2>3, <2>4, OpenView
  <1>5. HandlePut(s, t, h, i) => View(t, delivery)
    BY PutView, Zenon
  <1> QED BY <1>2, <1>3, <1>4, <1>5 DEF t

LEMMA ItemAddedView ==
    ASSUME NEW s, Good(s), View(s, delivery), delivery.item \in 0..Len(s.item), NEW k, NEW t,
           Good(t), ItemAdded(s, t, k)
    PROVE  View(t, delivery)
  <1> DEFINE n == Len(s.item)
  <1>1. /\ n \in Nat /\ t.handle = s.handle /\ t.listener = s.listener
        /\ \A i \in 1..n : t.item[i] = s.item[i] /\ i \in 1..Len(t.item)
        /\ \A i \in 1..Len(t.item) : i \in 1..n \/ (i = n + 1 /\ t.item[i] = NewItem(k))
    <2>1. n \in Nat
      BY Records
    <2> HIDE DEF n
    <2>2. /\ t.handle = s.handle /\ t.listener = s.listener
          /\ \A i \in 1..n : t.item[i] = s.item[i]
          /\ Len(t.item) = n \/ (Len(t.item) = n + 1 /\ t.item[n + 1] = NewItem(k))
      BY DEF ItemAdded, n
    <2>3. \A i \in 1..n : i \in 1..Len(t.item)
      BY <2>1, <2>2
    <2>4. \A i \in 1..Len(t.item) : i \in 1..n \/ (i = n + 1 /\ t.item[i] = NewItem(k))
      BY <2>1, <2>2
    <2> QED BY <2>1, <2>2, <2>3, <2>4 DEF n
  <1>2. NewItem(k).listeners = <<>> /\ NewItem(k).received_events = <<>> /\ Len(<<>>) = 0
    BY EmptySeq DEF NewItem
  <1> HIDE DEF n
  <1>3. \A i \in 1..Len(t.item) :
           /\ \A p \in 1..Len(t.item[i].listeners) : i \in 1..n
           /\ \A p \in 1..Len(t.item[i].received_events) : i \in 1..n
    BY <1>1, <1>2
  <1>4. \A l : IsClosed(t, l) <=> IsClosed(s, l)
    BY <1>1 DEF IsClosed
  <1>5. \A g \in Handle : s.handle[g].listener # None => s.handle[g].current \in 1..n
    BY Records DEF n
  <1>6. Owned(t)
    <2>1. Owned(s)
      BY ViewParts
    <2> QED BY <1>1, <1>4, <2>1, Zenon DEF Owned
  <1>7. Listed(t)
    <2>0. Listed(s)
      BY ViewParts
    <2>1. ASSUME NEW i \in 1..Len(t.item), NEW p \in 1..Len(t.item[i].listeners),
                 NEW q \in 1..Len(t.item[i].listeners), t.item[i].listeners[p] = t.item[i].listeners[q]
          PROVE  p = q
      <3>1. i \in 1..Len(s.item) /\ t.item[i] = s.item[i]
        BY <1>1, <1>3, <2>1 DEF n
      <3>2. /\ p \in 1..Len(s.item[i].listeners) /\ q \in 1..Len(s.item[i].listeners)
            /\ s.item[i].listeners[p] = s.item[i].listeners[q]
        BY <2>1, <3>1
      <3> QED BY ONLY <2>0, <3>1, <3>2, ListedOnce, Zenon
    <2>2. ASSUME NEW i \in 1..Len(t.item), NEW p \in 1..Len(t.item[i].listeners),
                 ~IsClosed(t, t.item[i].listeners[p])
          PROVE  t.handle[t.listener[t.item[i].listeners[p]].of].current = i
      <3>1. i \in 1..Len(s.item) /\ t.item[i] = s.item[i]
        BY <1>1, <1>3, <2>2 DEF n
      <3>2. p \in 1..Len(s.item[i].listeners) /\ ~IsClosed(s, s.item[i].listeners[p])
        BY <1>4, <2>2, <3>1
      <3>3. s.handle[s.listener[s.item[i].listeners[p]].of].current = i
        BY ONLY <2>0, <3>1, <3>2, ListedHere, Zenon
      <3> QED BY <1>1, <3>1, <3>3
    <2>3. ASSUME NEW g \in Handle, t.handle[g].listener # None, ~IsClosed(t, t.handle[g].listener)
          PROVE  \E p \in 1..Len(t.item[t.handle[g].current].listeners) :
                    t.item[t.handle[g].current].listeners[p] = t.handle[g].listener
      <3>1. s.handle[g].listener # None /\ ~IsClosed(s, s.handle[g].listener)
        BY <1>1, <1>4, <2>3
      <3>2. \E p \in 1..Len(s.item[s.handle[g].current].listeners) :
               s.item[s.handle[g].current].listeners[p] = s.handle[g].listener
        BY ONLY <2>0, <3>1, g \in Handle, ListedOpen
      <3>3. t.item[s.handle[g].current] = s.item[s.handle[g].current]
        BY <1>1, <1>5, <3>1
      <3> QED BY <1>1, <3>2, <3>3
    <2> QED BY <2>1, <2>2, <2>3 DEF Listed
  <1>8. Delivered(t, delivery)
    <2>0. Delivered(s, delivery)
      BY ViewParts
    <2>1. \A i \in 1..Len(t.item) : \A p \in 1..Len(t.item[i].received_events) :
             t.item[i].received_events[p] # Restart
      <3> SUFFICES ASSUME NEW i \in 1..Len(t.item), NEW p \in 1..Len(t.item[i].received_events)
                   PROVE  t.item[i].received_events[p] # Restart
        OBVIOUS
      <3>1. i \in 1..Len(s.item) /\ t.item[i] = s.item[i]
        BY <1>1, <1>3 DEF n
      <3>2. p \in 1..Len(s.item[i].received_events)
        BY <3>1
      <3>3. s.item[i].received_events[p] # Restart
        BY <2>0, <3>1, <3>2, Zenon DEF Delivered
      <3> QED BY <3>1, <3>3
    <2>2. delivery.item # None => t.item[delivery.item] = s.item[delivery.item]
      BY <1>1 DEF n, None
    <2> QED BY <2>0, <2>1, <2>2, Zenon DEF Delivered
  <1>9. ASSUME NEW g \in Handle, Listens(t, g) PROVE Followed(t, delivery, g)
    <2>1. Listens(s, g) /\ s.handle[g].listener # None
      BY <1>1, <1>4, <1>9 DEF Listens
    <2>2. Followed(s, delivery, g)
      BY <2>1 DEF View
    <2>3. t.item[s.handle[g].current] = s.item[s.handle[g].current]
      BY <1>1, <1>5, <2>1
    <2> QED BY <1>1, <2>2, <2>3, Zenon DEF Followed, ToCome
  <1> QED BY <1>6, <1>7, <1>8, <1>9 DEF View

\* The calls of a handle.
LEMMA RefreshView ==
    ASSUME CacheInv, View(objects, delivery), NEW h \in Handle, NEW k \in Key, Refresh(h, k)
    PROVE  View(objects, delivery)'
  <1> DEFINE found == GetItem(objects, k)
             i == found.table[k]
  <1>1. Good(found) /\ ItemAdded(objects, found, k) /\ i \in 1..Len(found.item)
    BY GetItemGood DEF CacheInv
  <1>2. (objects' = found \/ objects' = MoveTo(found, h, i)) /\ delivery' = delivery
    BY DEF Refresh
  <1> HIDE DEF found
  <1>3. DeliveryTyped /\ delivery.item \in 0..Len(objects.item) /\ Good(objects)
    BY DEF CacheInv, DeliveryTyped
  <1>4. View(found, delivery)
    BY <1>1, <1>3, ItemAddedView
  <1>5. delivery.item \in 0..Len(found.item)
    <2>1. Len(objects.item) \in Nat /\ Len(found.item) \in Nat
      BY <1>1, <1>3, Records
    <2> QED BY <1>1, <1>3, <2>1 DEF ItemAdded
  <1>6. View(MoveTo(found, h, i), delivery)
    BY <1>1, <1>3, <1>4, <1>5, MoveToView
  <1> QED BY <1>2, <1>4, <1>6

LEMMA StartListeningView ==
    ASSUME CacheInv, View(objects, delivery), NEW h \in Handle, StartListening(h)
    PROVE  View(objects, delivery)'
  <1> DEFINE r == [objects.handle[h] EXCEPT !.update = "open"]
             s == [objects EXCEPT !.handle[h] = r]
  <1>1. /\ Good(objects) /\ objects.handle[h] \in HandleRecords(Len(objects.item), Len(objects.listener))
        /\ DeliveryTyped /\ delivery.item \in 0..Len(objects.item)
    BY TypedParts DEF CacheInv, Good, DeliveryTyped
  <1>2. /\ r \in HandleRecords(Len(objects.item), Len(objects.listener))
        /\ r.listener = None /\ r.update = "open" /\ r.seen = objects.handle[h].seen
        /\ objects.handle[h].listener = None /\ objects.handle[h].update = "none"
    BY <1>1 DEF StartListening, Good, Counted, HandleRecords
  <1>3. /\ Good(s) /\ s.item = objects.item /\ s.listener = objects.listener /\ s.handle[h] = r
        /\ \A g \in Handle \ {h} : s.handle[g] = objects.handle[g]
    <2> HIDE DEF r
    <2> QED BY <1>1, <1>2, HandleGood
  <1>4. s = [objects EXCEPT !.handle[h].update = "open"]
    BY <1>1, TypedParts DEF Good
  <1>5. /\ objects' = s \/ (s.handle[h].current # None /\ objects' = OpenListener(s, h))
        /\ delivery' = delivery
    <2> HIDE DEF s
    <2> QED BY <1>4 DEF StartListening
  <1> HIDE DEF s, r
  <1>6. s.handle[h].seen = <<>>
    BY <1>2, <1>3 DEF View, Owned
  <1>7. View(s, delivery)
    <2>1. /\ s.handle[h].listener = objects.handle[h].listener /\ s.handle[h].listener = None
          /\ \A g \in Handle : g # h => s.handle[g] = objects.handle[g]
      BY <1>2, <1>3
    <2> QED BY <1>1, <1>3, <1>6, <2>1, HandleView
  <1>8. s.handle[h].current # None => View(OpenListener(s, h), delivery)
    <2>1. delivery.item \in 0..Len(s.item) /\ s.handle[h].listener = None /\ s.handle[h].update # "none"
      BY <1>1, <1>2, <1>3
    <2> QED BY <1>1, <1>3, <1>7, <2>1, OpenView
  <1> QED BY <1>5, <1>7, <1>8

LEMMA CloseHandleView ==
    ASSUME CacheInv, View(objects, delivery), NEW h \in Handle, CloseHandle(h)
    PROVE  View(objects, delivery)'
  <1> DEFINE closed == CloseListener(objects, h)
             t == [closed EXCEPT !.handle[h] = NewHandle]
             s == [closed EXCEPT !.handle[h].current = None]
  <1>1. Good(objects) /\ delivery.item \in 0..Len(objects.item)
    BY DEF CacheInv, DeliveryTyped
  <1>2. Good(closed) /\ closed.handle[h].listener = None /\ View(closed, delivery)
    BY <1>1, CloseListenerGood, ClosedView
  <1>3. /\ objects' = closed \/ objects' = s \/ objects' = t
        /\ delivery' = delivery
    <2> HIDE DEF s
    <2>1. CASE CloseListenerThrows(objects, h)
      BY <2>1 DEF CloseHandle, CloseListenerThrows
    <2>2. CASE ~CloseListenerThrows(objects, h) /\ objects.handle[h].update = "open"
      BY <2>2 DEF CloseHandle
    <2>3. CASE ~CloseListenerThrows(objects, h) /\ objects.handle[h].update # "open"
      BY <2>3 DEF CloseHandle, s
    <2> QED BY <2>1, <2>2, <2>3
  <1> HIDE DEF closed
  <1>4. View(s, delivery)
    <2>1. None \in 0..Len(closed.item)
      BY <1>2, Records DEF None
    <2>2. HandlePut(closed, s, h, None)
      BY <1>2, <2>1, HandlePutGood
    <2> HIDE DEF s
    <2> QED BY <1>2, <2>2, PutView
  <1>5. View(t, delivery)
    <2>1. NewHandle \in HandleRecords(Len(closed.item), Len(closed.listener)) /\ NewHandle.listener = None
          /\ NewHandle.seen = <<>>
      BY <1>2, Records, EventTypes DEF NewHandle, HandleRecords, None
    <2>2. /\ t.item = closed.item /\ t.listener = closed.listener /\ t.handle[h] = NewHandle
          /\ \A g \in Handle \ {h} : t.handle[g] = closed.handle[g]
      <3> DEFINE r == NewHandle
      <3>1. /\ r \in HandleRecords(Len(closed.item), Len(closed.listener))
            /\ r.listener = closed.handle[h].listener /\ r.listener = None
        BY <1>2, <2>1
      <3> HIDE DEF r
      <3>2. LET u == [closed EXCEPT !.handle[h] = r]
            IN  /\ Good(u) /\ u.item = closed.item /\ u.listener = closed.listener /\ u.handle[h] = r
                /\ \A g \in Handle \ {h} : u.handle[g] = closed.handle[g]
        BY ONLY <1>2, <3>1, h \in Handle, HandleGood
      <3> QED BY <3>2 DEF r
    <2> HIDE DEF t
    <2>3. /\ \A g \in Handle : g # h => t.handle[g] = closed.handle[g]
          /\ t.handle[h].listener = closed.handle[h].listener /\ t.handle[h].listener = None
          /\ t.handle[h].seen = <<>>
      BY <1>2, <2>1, <2>2
    <2> QED BY <1>2, <2>2, <2>3, HandleView
  <1> QED BY <1>2, <1>3, <1>4, <1>5

LEMMA ReaderStopsView ==
    ASSUME CacheInv, View(objects, delivery), NEW h \in Handle, ReaderStops(h)
    PROVE  View(objects, delivery)'
  <1> DEFINE r == [objects.handle[h] EXCEPT !.update = "stopped"]
             s == [objects EXCEPT !.handle[h] = r]
  <1>1. Good(objects) /\ objects.handle[h] \in HandleRecords(Len(objects.item), Len(objects.listener))
    BY TypedParts DEF CacheInv, Good
  <1>2. /\ r \in HandleRecords(Len(objects.item), Len(objects.listener))
        /\ r.listener = objects.handle[h].listener
        /\ r.update = "stopped" /\ r.current = objects.handle[h].current
    BY <1>1 DEF HandleRecords
  <1>3. /\ Good(s) /\ s.item = objects.item /\ s.listener = objects.listener /\ s.handle[h] = r
        /\ \A g \in Handle \ {h} : s.handle[g] = objects.handle[g]
    <2> HIDE DEF r
    <2> QED BY <1>1, <1>2, HandleGood
  <1>4. objects' = s /\ delivery' = delivery
    BY <1>1, TypedParts DEF ReaderStops, Good
  <1> HIDE DEF s, r
  <1>5. /\ \A g \in Handle : g # h => s.handle[g] = objects.handle[g]
        /\ s.handle[h].listener = objects.handle[h].listener
        /\ s.handle[h].update = "stopped" /\ s.handle[h].current = objects.handle[h].current
    BY <1>2, <1>3
  <1>6. View(s, delivery)
    BY <1>1, <1>3, <1>5, HandleView
  <1> QED BY <1>4, <1>6

\* An item is changed but for its listeners.
LEMMA ListedStays ==
    ASSUME NEW s, Good(s), Owned(s), Listed(s), NEW t, t.handle = s.handle, t.listener = s.listener,
           Len(t.item) = Len(s.item), \A j \in 1..Len(s.item) : t.item[j].listeners = s.item[j].listeners
    PROVE  Owned(t) /\ Listed(t)
  <1>1. \A l : IsClosed(t, l) <=> IsClosed(s, l)
    BY DEF IsClosed
  <1>2. Owned(t)
    BY <1>1, Zenon DEF Owned
  <1>3. \A g \in Handle : s.handle[g].listener # None => s.handle[g].current \in 1..Len(s.item)
    BY Records
  <1>4. Listed(t)
    <2>1. ASSUME NEW i \in 1..Len(t.item), NEW p \in 1..Len(t.item[i].listeners),
                 NEW q \in 1..Len(t.item[i].listeners), t.item[i].listeners[p] = t.item[i].listeners[q]
          PROVE  p = q
      <3>1. /\ i \in 1..Len(s.item) /\ p \in 1..Len(s.item[i].listeners)
            /\ q \in 1..Len(s.item[i].listeners) /\ s.item[i].listeners[p] = s.item[i].listeners[q]
        BY <2>1
      <3> QED BY ONLY Listed(s), <3>1, ListedOnce, Zenon
    <2>2. ASSUME NEW i \in 1..Len(t.item), NEW p \in 1..Len(t.item[i].listeners),
                 ~IsClosed(t, t.item[i].listeners[p])
          PROVE  t.handle[t.listener[t.item[i].listeners[p]].of].current = i
      <3>1. /\ i \in 1..Len(s.item) /\ p \in 1..Len(s.item[i].listeners)
            /\ ~IsClosed(s, s.item[i].listeners[p]) /\ t.item[i].listeners = s.item[i].listeners
        BY <1>1, <2>2
      <3>2. s.handle[s.listener[s.item[i].listeners[p]].of].current = i
        BY ONLY Listed(s), <3>1, ListedHere, Zenon
      <3> QED BY <3>1, <3>2
    <2>3. ASSUME NEW g \in Handle, t.handle[g].listener # None, ~IsClosed(t, t.handle[g].listener)
          PROVE  \E p \in 1..Len(t.item[t.handle[g].current].listeners) :
                    t.item[t.handle[g].current].listeners[p] = t.handle[g].listener
      <3>1. \E p \in 1..Len(s.item[s.handle[g].current].listeners) :
               s.item[s.handle[g].current].listeners[p] = s.handle[g].listener
        BY <1>1, <2>3, ListedOpen
      <3> QED BY <1>3, <2>3, <3>1
    <2> QED BY <2>1, <2>2, <2>3 DEF Listed
  <1> QED BY <1>2, <1>4

\* A reader whose item is not in the loop, before it and after.
LEMMA FollowsAside ==
    ASSUME NEW s, NEW d, NEW t, NEW d2, NEW g \in Handle, Listens(t, g), t.handle = s.handle,
           t.listener = s.listener, View(s, d), d.item # s.handle[g].current, d2.item # s.handle[g].current,
           t.item[s.handle[g].current].received_events = s.item[s.handle[g].current].received_events,
           t.item[s.handle[g].current].source = s.item[s.handle[g].current].source
    PROVE  Followed(t, d2, g)
  <1>1. Listens(s, g)
    BY DEF Listens, IsClosed
  <1>2. Followed(s, d, g)
    BY <1>1 DEF View
  <1>3. ~ToCome(s, d, g) /\ ~ToCome(t, d2, g)
    BY DEF ToCome
  <1> QED BY <1>2, <1>3, Zenon DEF Followed, Sees

\* The event that a handler puts into the result_stream is to come for each of the
\* readers of the item.
LEMMA HandlerEmitsView ==
    ASSUME CacheInv, View(objects, delivery), NEW i \in DOMAIN objects.item, NEW e \in Event,
           HandlerEmits(i, e)
    PROVE  View(objects, delivery)'
  <1> DEFINE it == objects.item[i]
             events == Append(it.received_events, e)
             source == IF e = Close THEN "ended" ELSE it.source
             r == [it EXCEPT !.received_events = events, !.source = source]
             s == [objects EXCEPT !.item[i] = r]
             d == [item |-> i, event |-> e, next |-> 1, anyClosed |-> FALSE, inCallback |-> FALSE]
  <1>1. /\ Good(objects) /\ i \in 1..Len(objects.item) /\ it \in ItemRecords(Len(objects.listener))
        /\ Len(objects.item) \in Nat /\ i # None
    BY TypedParts, ElementOfSeq DEF CacheInv, Good, None
  <1>2. it.received_events \in Seq(Event) /\ Len(it.received_events) \in Nat /\ Len(it.listeners) \in Nat
    BY <1>1, Records
  <1>3. /\ events \in Seq(Event) /\ Len(events) = Len(it.received_events) + 1
        /\ events[Len(it.received_events) + 1] = e
        /\ \A p \in 1..Len(it.received_events) : events[p] = it.received_events[p]
    <2> HIDE DEF it
    <2> QED BY <1>2, AppendProperties
  <1>4. /\ r \in ItemRecords(Len(objects.listener)) /\ r.live_ref_count = it.live_ref_count
        /\ r.listeners = it.listeners /\ r.received_events = events /\ r.source = source
    <2>1. source \in {"none", "running", "ended"}
      BY <1>1 DEF ItemRecords
    <2> HIDE DEF it, events, source
    <2> QED BY <1>1, <1>3, <2>1 DEF ItemRecords
  <1>5. /\ it.source = "running" /\ source # "none" /\ e # Restart /\ delivery.item = None
        /\ source = "running" \/ source = "ended"
    BY DEF HandlerEmits, NoDelivery
  <1>6. objects' = s
    <2> DEFINE flat == [objects.item EXCEPT ![i].received_events = Append(@, e),
                                            ![i].source = IF e = Close THEN "ended" ELSE @]
    <2>1. flat = [objects.item EXCEPT ![i] = r]
      BY <1>1, TypedParts DEF CacheInv, Good, ItemRecords
    <2>2. objects' = [objects EXCEPT !.item = flat]
      BY <1>1, TypedParts DEF HandlerEmits, Good
    <2>3. s = [objects EXCEPT !.item = [objects.item EXCEPT ![i] = r]]
      OBVIOUS
    <2> QED BY ONLY <2>1, <2>2, <2>3, Zenon
  <1>7. delivery' = d
    BY DEF HandlerEmits, StartDelivery, NoDelivery
  <1>8. /\ Good(s) /\ Len(s.item) = Len(objects.item) /\ s.listener = objects.listener
        /\ s.handle = objects.handle /\ s.item[i] = r
        /\ \A j \in (1..Len(objects.item)) \ {i} : s.item[j] = objects.item[j]
    <2> HIDE DEF r, it
    <2>1. r.live_ref_count = objects.item[i].live_ref_count
      BY <1>4 DEF it
    <2> QED BY <1>1, <1>4, <2>1, ItemGood
  <1>9. d.item = i /\ d.event = e /\ d.next = 1
    OBVIOUS
  <1> HIDE DEF s, r, d, source, it, events
  <1>10. Owned(objects) /\ Listed(objects) /\ Delivered(objects, delivery)
    BY ViewParts
  <1>11. Owned(s) /\ Listed(s)
    <2>1. \A j \in 1..Len(objects.item) : s.item[j].listeners = objects.item[j].listeners
      BY <1>4, <1>8 DEF it
    <2> QED BY <1>1, <1>8, <1>10, <2>1, ListedStays
  <1>12. Delivered(s, d)
    <2>1. ASSUME NEW j \in 1..Len(s.item), NEW p \in 1..Len(s.item[j].received_events)
          PROVE  s.item[j].received_events[p] # Restart
      <3>0. \A q \in 1..Len(objects.item[j].received_events) :
               objects.item[j].received_events[q] # Restart
        BY <1>8, <1>10 DEF Delivered
      <3>1. CASE j = i
        <4>1. p \in 1..Len(it.received_events) \/ p = Len(it.received_events) + 1
          BY <1>2, <1>3, <1>4, <1>8, <3>1
        <4> QED BY <1>3, <1>4, <1>5, <1>8, <3>0, <3>1, <4>1 DEF it
      <3>2. CASE j # i
        BY <1>8, <3>0, <3>2
      <3> QED BY <3>1, <3>2
    <2>2. d.next <= Len(s.item[i].listeners) + 1
      BY <1>2, <1>4, <1>8, <1>9
    <2>3. s.item[i].source # "none" /\ s.item[i].received_events[Len(s.item[i].received_events)] = e
      BY <1>3, <1>4, <1>5, <1>8
    <2>4. s.item[i].received_events # <<>>
      BY <1>2, <1>3, <1>4, <1>8, EmptySeq
    <2> QED BY <1>5, <1>9, <2>1, <2>2, <2>3, <2>4 DEF Delivered
  <1>13. ASSUME NEW g \in Handle, Listens(s, g) PROVE Followed(s, d, g)
    <2> DEFINE l == objects.handle[g].listener
    <2>1. /\ l # None /\ l \in 1..Len(objects.listener) /\ objects.handle[g].current \in 1..Len(objects.item)
          /\ ~IsClosed(objects, l) /\ Listens(objects, g)
      BY <1>1, <1>8, <1>13, Records DEF Listens, IsClosed
    <2>2. CASE objects.handle[g].current # i
      <3>1. delivery.item # objects.handle[g].current /\ d.item # objects.handle[g].current
        BY <1>1, <1>5, <1>9, <2>1, <2>2 DEF None
      <3>2. s.item[objects.handle[g].current] = objects.item[objects.handle[g].current]
        BY <1>8, <2>1, <2>2
      <3> QED BY <1>8, <1>13, <3>1, <3>2, FollowsAside
    <2>3. CASE objects.handle[g].current = i
      <3>1. PICK p \in 1..Len(it.listeners) : it.listeners[p] = l
        BY <1>10, <2>1, <2>3, ListedOpen DEF it
      <3>2. p >= 1
        OBVIOUS
      <3>3. ToCome(s, d, g)
        BY <1>4, <1>8, <1>9, <2>3, <3>1, <3>2 DEF ToCome
      <3>4. ~ToCome(objects, delivery, g)
        BY <1>1, <1>5, <2>3 DEF ToCome
      <3>5. Followed(objects, delivery, g)
        BY <2>1 DEF View
      <3> DEFINE joined == objects.listener[l].joined
                 seen == objects.handle[g].seen
      <3>6. joined <= Len(it.received_events) /\ seen = Passed(it.received_events, joined)
        BY <1>5, <2>3, <3>4, <3>5 DEF Followed, Sees, it
      <3>7. joined \in Nat
        BY <1>1, <2>1, Records
      <3> HIDE DEF joined, seen, l
      <3>8. joined \in 0..Len(it.received_events) /\ joined <= Len(events)
        BY <1>2, <1>3, <3>6, <3>7
      <3>9. Passed(events, joined) = Plus(seen, e)
        BY <1>2, <3>6, <3>8, PassedAppend DEF events
      <3> QED BY <1>4, <1>8, <1>9, <2>3, <3>3, <3>8, <3>9 DEF Followed, Sees, joined, seen, l
    <2> QED BY <2>2, <2>3
  <1> QED BY <1>6, <1>7, <1>11, <1>12, <1>13 DEF View

\* After refreshItem() each of the item's readers has its restart to come.
LEMMA RefreshItemView ==
    ASSUME CacheInv, View(objects, delivery), NEW i \in DOMAIN objects.item, RefreshItem(i)
    PROVE  View(objects, delivery)'
  <1> DEFINE it == objects.item[i]
             r == [it EXCEPT !.received_events = <<>>, !.source = "none"]
             s == [objects EXCEPT !.item[i] = r]
             d == [item |-> i, event |-> Restart, next |-> 1, anyClosed |-> FALSE, inCallback |-> FALSE]
  <1>1. /\ Good(objects) /\ i \in 1..Len(objects.item) /\ it \in ItemRecords(Len(objects.listener))
        /\ Len(objects.item) \in Nat /\ i # None
    BY TypedParts, ElementOfSeq DEF CacheInv, Good, None
  <1>2. Len(it.listeners) \in Nat
    BY <1>1, Records
  <1>3. /\ r \in ItemRecords(Len(objects.listener)) /\ r.live_ref_count = it.live_ref_count
        /\ r.listeners = it.listeners /\ r.received_events = <<>> /\ r.source = "none"
    <2> HIDE DEF it
    <2> QED BY <1>1, EmptySeq DEF ItemRecords
  <1>4. delivery.item = None
    BY DEF RefreshItem, NoDelivery
  <1>5. objects' = s
    <2> DEFINE flat == [objects.item EXCEPT ![i].received_events = <<>>, ![i].source = "none"]
    <2>1. flat = [objects.item EXCEPT ![i] = r]
      BY <1>1, TypedParts DEF CacheInv, Good, ItemRecords
    <2>2. objects' = [objects EXCEPT !.item = flat]
      BY <1>1, TypedParts DEF RefreshItem, Good
    <2>3. s = [objects EXCEPT !.item = [objects.item EXCEPT ![i] = r]]
      OBVIOUS
    <2> QED BY ONLY <2>1, <2>2, <2>3, Zenon
  <1>6. delivery' = d
    BY DEF RefreshItem, StartDelivery, NoDelivery
  <1>7. /\ Good(s) /\ Len(s.item) = Len(objects.item) /\ s.listener = objects.listener
        /\ s.handle = objects.handle /\ s.item[i] = r
        /\ \A j \in (1..Len(objects.item)) \ {i} : s.item[j] = objects.item[j]
    <2> HIDE DEF r, it
    <2>1. r.live_ref_count = objects.item[i].live_ref_count
      BY <1>3 DEF it
    <2> QED BY <1>1, <1>3, <2>1, ItemGood
  <1>8. d.item = i /\ d.event = Restart /\ d.next = 1
    OBVIOUS
  <1> HIDE DEF s, r, d, it
  <1>9. Owned(objects) /\ Listed(objects) /\ Delivered(objects, delivery)
    BY ViewParts
  <1>10. Owned(s) /\ Listed(s)
    <2>1. \A j \in 1..Len(objects.item) : s.item[j].listeners = objects.item[j].listeners
      BY <1>3, <1>7 DEF it
    <2> QED BY <1>1, <1>7, <1>9, <2>1, ListedStays
  <1>11. Delivered(s, d)
    <2>1. ASSUME NEW j \in 1..Len(s.item), NEW p \in 1..Len(s.item[j].received_events)
          PROVE  s.item[j].received_events[p] # Restart
      <3>1. j # i
        BY <1>3, <1>7, EmptySeq
      <3> QED BY <1>7, <1>9, <3>1 DEF Delivered
    <2>2. d.next <= Len(s.item[i].listeners) + 1
      BY <1>2, <1>3, <1>7, <1>8
    <2> QED BY <1>3, <1>7, <1>8, <2>1, <2>2 DEF Delivered
  <1>12. ASSUME NEW g \in Handle, Listens(s, g) PROVE Followed(s, d, g)
    <2> DEFINE l == objects.handle[g].listener
    <2>1. /\ l # None /\ objects.handle[g].current \in 1..Len(objects.item) /\ ~IsClosed(objects, l)
      BY <1>1, <1>7, <1>12, Records DEF Listens, IsClosed
    <2>2. CASE objects.handle[g].current # i
      <3>1. delivery.item # objects.handle[g].current /\ d.item # objects.handle[g].current
        BY <1>1, <1>4, <1>8, <2>1, <2>2 DEF None
      <3>2. s.item[objects.handle[g].current] = objects.item[objects.handle[g].current]
        BY <1>7, <2>1, <2>2
      <3> QED BY <1>7, <1>12, <3>1, <3>2, FollowsAside
    <2>3. CASE objects.handle[g].current = i
      <3>1. PICK p \in 1..Len(it.listeners) : it.listeners[p] = l
        BY <1>9, <2>1, <2>3, ListedOpen DEF it
      <3>2. p >= 1
        OBVIOUS
      <3>3. ToCome(s, d, g)
        BY <1>3, <1>7, <1>8, <2>3, <3>1, <3>2 DEF ToCome
      <3> QED BY <1>8, <3>3 DEF Followed, Sees
    <2> QED BY <2>2, <2>3
  <1> QED BY <1>5, <1>6, <1>10, <1>11, <1>12 DEF View

\* Listener l of the item in the loop is passed the event, and the loop goes on.
LEMMA PassedOnView ==
    ASSUME NEW s, Good(s), NEW d, View(s, d), d.item \in 1..Len(s.item), d.event \in Event, d.next \in Nat \ {0},
           d.next <= Len(s.item[d.item].listeners), NEW l, l = s.item[d.item].listeners[d.next],
           NEW t, t = ListenerReceives(s, l, d.event),
           NEW d2, d2.item = d.item, d2.event = d.event, d2.next = d.next + 1
    PROVE  View(t, d2)
  <1> DEFINE i == d.item
             e == d.event
             n == Len(s.item[i].listeners)
             h == s.listener[l].of
             events == s.item[i].received_events
  <1>1. /\ n \in Nat /\ d.next \in 1..n /\ i # None /\ events \in Seq(Event)
        /\ l \in 1..Len(s.listener) /\ h \in Handle
    <2>1. /\ n \in Nat /\ events \in Seq(Event)
          /\ \A p \in 1..n : s.item[i].listeners[p] \in 1..Len(s.listener)
      BY Records
    <2>2. d.next \in 1..n /\ i # None
      BY <2>1 DEF None
    <2>3. l \in 1..Len(s.listener)
      BY <2>1, <2>2
    <2>4. h \in Handle
      BY <2>3, Records
    <2> QED BY <2>1, <2>2, <2>3, <2>4
  <1>2. /\ t = ListenerReceives(s, l, e) /\ e \in Event /\ h = s.listener[l].of /\ Typed(s)
        /\ i \in 1..Len(s.item) /\ l = s.item[i].listeners[d.next] /\ n = Len(s.item[i].listeners)
        /\ d2.item = i /\ d2.event = e
    BY DEF Good
  <1> HIDE DEF i, e, n, h, events
  <1>3. Owned(s) /\ Listed(s) /\ Delivered(s, d)
    BY ViewParts
  <1>4. t \in Alike(s)
    <2>1. s \in Alike(s)
      BY <1>2 DEF Alike, Typed
    <2> QED BY <1>1, <1>2, <2>1, ReceivesAlike
  <1>5. /\ t.item = s.item /\ Len(t.listener) = Len(s.listener)
        /\ \A g \in Handle : /\ t.handle[g].current = s.handle[g].current
                             /\ t.handle[g].listener = s.handle[g].listener
                             /\ t.handle[g].update = s.handle[g].update
    BY <1>4 DEF Alike
  <1>6. Apart(s, t, l)
    <2>1. /\ Typed(s) /\ l \in 1..Len(s.listener) /\ e \in Event /\ h = s.listener[l].of
          /\ t = ListenerReceives(s, l, e)
      BY <1>1, <1>2
    <2> QED BY ONLY <2>1, Receives
  <1>7. IsClosed(s, l) => t = s
    <2>1. /\ Typed(s) /\ l \in 1..Len(s.listener) /\ e \in Event /\ h = s.listener[l].of
          /\ t = ListenerReceives(s, l, e)
      BY <1>1, <1>2
    <2> QED BY ONLY <2>1, Receives
  <1>8. /\ ~IsClosed(s, l) /\ e = Close => IsClosed(t, l)
        /\ ~IsClosed(s, l) /\ e = Restart /\ s.handle[h].update = "open" =>
              t.handle[h].seen = <<>> /\ t.listener[l].joined = 0
        /\ ~IsClosed(s, l) /\ e \in ItemEvents /\ s.handle[h].update = "open" => Heard(s, t, l, h, e)
    <2>0. /\ Typed(s) /\ l \in 1..Len(s.listener) /\ e \in Event /\ h = s.listener[l].of
          /\ t = ListenerReceives(s, l, e)
      BY <1>1, <1>2
    <2>1. ~IsClosed(s, l) /\ e = Close => IsClosed(t, l)
      BY ONLY <2>0, Receives
    <2>2. ~IsClosed(s, l) /\ e = Restart /\ s.handle[h].update = "open" =>
             t.handle[h].seen = <<>> /\ t.listener[l].joined = 0
      BY ONLY <2>0, Receives
    <2>3. ~IsClosed(s, l) /\ e \in ItemEvents /\ s.handle[h].update = "open" => Heard(s, t, l, h, e)
      BY ONLY <2>0, Receives
    <2> QED BY ONLY <2>1, <2>2, <2>3
  <1>9. \A k \in 1..Len(s.listener) : /\ t.listener[k].of = s.listener[k].of
                                      /\ ~IsClosed(t, k) => ~IsClosed(s, k)
    BY <1>6 DEF Apart, IsClosed
  <1> HIDE DEF i, e, n, h, events
  <1>10. Owned(t)
    <2>1. ASSUME NEW g \in Handle, t.handle[g].listener # None PROVE t.listener[t.handle[g].listener].of = g
      <3>1. /\ t.handle[g].listener = s.handle[g].listener /\ s.handle[g].listener # None
            /\ s.handle[g].listener \in 1..Len(s.listener)
        BY <1>5, <2>1, Records
      <3>2. s.listener[s.handle[g].listener].of = g
        BY <1>3, <3>1, Zenon DEF Owned
      <3> QED BY <1>9, <3>1, <3>2
    <2>2. ASSUME NEW k \in 1..Len(t.listener), ~IsClosed(t, k) PROVE t.handle[t.listener[k].of].listener = k
      <3>1. k \in 1..Len(s.listener) /\ ~IsClosed(s, k) /\ t.listener[k].of = s.listener[k].of
            /\ s.listener[k].of \in Handle
        BY <1>5, <1>9, <2>2, Records
      <3>2. s.handle[s.listener[k].of].listener = k
        BY <1>3, <3>1, Zenon DEF Owned
      <3> QED BY <1>5, <3>1, <3>2
    <2>3. ASSUME NEW g \in Handle, t.handle[g].listener = None, t.handle[g].update # "stopped"
          PROVE  t.handle[g].seen = <<>>
      <3>1. s.handle[g].seen = <<>>
        BY <1>3, <1>5, <2>3 DEF Owned
      <3>2. CASE IsClosed(s, l)
        BY <1>7, <3>1, <3>2
      <3>3. CASE ~IsClosed(s, l)
        <4>1. s.handle[h].listener = l /\ l # None
          <5>1. s.handle[s.listener[l].of].listener = l
            BY <1>1, <1>3, <3>3, Zenon DEF Owned
          <5>2. l # None
            BY <1>1 DEF None
          <5> QED BY <1>2, <5>1, <5>2
        <4>2. g # h
          BY <1>5, <2>3, <4>1
        <4> QED BY <1>2, <1>6, <3>1, <4>2 DEF Apart
      <3> QED BY <3>2, <3>3
    <2> QED BY <2>1, <2>2, <2>3 DEF Owned
  <1>11. Listed(t)
    <2>1. ASSUME NEW j \in 1..Len(t.item), NEW p \in 1..Len(t.item[j].listeners),
                 NEW q \in 1..Len(t.item[j].listeners), t.item[j].listeners[p] = t.item[j].listeners[q]
          PROVE  p = q
      <3>1. /\ j \in 1..Len(s.item) /\ p \in 1..Len(s.item[j].listeners)
            /\ q \in 1..Len(s.item[j].listeners) /\ s.item[j].listeners[p] = s.item[j].listeners[q]
        BY <1>5, <2>1
      <3> QED BY ONLY <1>3, <3>1, ListedOnce, Zenon
    <2>2. ASSUME NEW j \in 1..Len(t.item), NEW p \in 1..Len(t.item[j].listeners),
                 ~IsClosed(t, t.item[j].listeners[p])
          PROVE  t.handle[t.listener[t.item[j].listeners[p]].of].current = j
      <3> DEFINE k == s.item[j].listeners[p]
      <3>1. /\ j \in 1..Len(s.item) /\ p \in 1..Len(s.item[j].listeners) /\ t.item[j].listeners[p] = k
            /\ k \in 1..Len(s.listener)
        BY <1>5, <2>2, Records
      <3>2. ~IsClosed(s, k) /\ t.listener[k].of = s.listener[k].of /\ s.listener[k].of \in Handle
        BY <1>9, <2>2, <3>1, Records
      <3>3. s.handle[s.listener[s.item[j].listeners[p]].of].current = j
        BY ONLY <1>3, <3>1, <3>2, ListedHere, Zenon
      <3>4. t.handle[s.listener[k].of].current = s.handle[s.listener[k].of].current
        BY <1>5, <3>2
      <3> QED BY ONLY <3>1, <3>2, <3>3, <3>4
    <2>3. ASSUME NEW g \in Handle, t.handle[g].listener # None, ~IsClosed(t, t.handle[g].listener)
          PROVE  \E p \in 1..Len(t.item[t.handle[g].current].listeners) :
                    t.item[t.handle[g].current].listeners[p] = t.handle[g].listener
      <3>1. s.handle[g].listener # None /\ ~IsClosed(s, s.handle[g].listener)
        BY <1>5, <1>9, <2>3, Records
      <3>2. \E p \in 1..Len(s.item[s.handle[g].current].listeners) :
               s.item[s.handle[g].current].listeners[p] = s.handle[g].listener
        BY <1>3, <3>1, ListedOpen
      <3> QED BY <1>5, <3>2
    <2> QED BY <2>1, <2>2, <2>3 DEF Listed
  <1>12. Delivered(t, d2)
    <2>1. d2.next <= n + 1
      BY <1>1
    <2>2. /\ \A j \in 1..Len(s.item) : \A p \in 1..Len(s.item[j].received_events) :
                s.item[j].received_events[p] # Restart
          /\ e = Restart => s.item[i].received_events = <<>> /\ s.item[i].source = "none"
          /\ e # Restart =>
                /\ s.item[i].source # "none" /\ s.item[i].received_events # <<>>
                /\ s.item[i].received_events[Len(s.item[i].received_events)] = e
      BY <1>1, <1>3, Zenon DEF Delivered, i, e
    <2>3. d2.next <= Len(s.item[i].listeners) + 1
      <3>1. n = Len(s.item[i].listeners)
        BY <1>2
      <3> QED BY ONLY <2>1, <3>1
    <2> QED BY <1>2, <1>5, <2>2, <2>3, Zenon DEF Delivered
  <1>13. ASSUME NEW g \in Handle, Listens(t, g) PROVE Followed(t, d2, g)
    <2> DEFINE k == s.handle[g].listener
               j == s.handle[g].current
               x == s.item[j].listeners
    <2>1. /\ k # None /\ k \in 1..Len(s.listener) /\ j \in 1..Len(s.item) /\ Len(x) \in Nat
          /\ t.handle[g].update = "open" /\ ~IsClosed(t, k) /\ ~IsClosed(s, k)
      BY <1>5, <1>9, <1>13, Records DEF Listens
    <2>2. Listens(s, g)
      BY <1>5, <2>1 DEF Listens
    <2>3. Followed(s, d, g)
      BY <2>2 DEF View
    <2>4. s.listener[k].of = g
      BY <1>3, <2>1 DEF Owned
    <2>5. ToCome(s, d, g) <=> i = j /\ \E p \in 1..Len(x) : p >= d.next /\ x[p] = k
      BY DEF ToCome, i
    <2>6. ToCome(t, d2, g) <=> i = j /\ \E p \in 1..Len(x) : p >= d.next + 1 /\ x[p] = k
      BY <1>5 DEF ToCome, i
    <2>7. CASE k # l
      <3>1. t.listener[k] = s.listener[k]
        BY <1>6, <2>1, <2>7 DEF Apart
      <3>2. t.handle[g] = s.handle[g]
        <4>1. CASE IsClosed(s, l)
          BY <1>7, <4>1
        <4>2. CASE ~IsClosed(s, l)
          <5>1. s.handle[h].listener = l
            BY <1>1, <1>2, <1>3, <4>2, Zenon DEF Owned
          <5>2. g # h
            BY <2>7, <5>1
          <5> QED BY <1>2, <1>6, <5>2 DEF Apart
        <4> QED BY <4>1, <4>2
      <3>3. i = j => x[d.next] = l
        BY DEF i
      <3> HIDE DEF k, x, j
      <3>4. ToCome(t, d2, g) <=> ToCome(s, d, g)
        <4>1. i = j => \A p \in 1..Len(x) : x[p] = k => p # d.next
          BY <2>7, <3>3
        <4>2. d.next \in Nat
          OBVIOUS
        <4> QED BY ONLY <2>1, <2>5, <2>6, <4>1, <4>2
      <3> QED BY <1>5, <2>3, <3>1, <3>2, <3>4, Zenon DEF Followed, Sees, k, j, i
    <2>8. CASE k = l
      <3>1. g = h /\ ~IsClosed(s, l) /\ ~IsClosed(t, l) /\ s.handle[h].update = "open"
        BY <1>5, <2>1, <2>4, <2>8 DEF h
      <3>2. i = j
        <4>1. s.handle[s.listener[s.item[i].listeners[d.next]].of].current = i
          <5>1. i \in 1..Len(s.item) /\ d.next \in 1..Len(s.item[i].listeners)
                /\ ~IsClosed(s, s.item[i].listeners[d.next])
            BY <1>1, <3>1 DEF i, n
          <5> QED BY ONLY <1>3, <5>1, ListedHere, Zenon
        <4> QED BY <2>4, <2>8, <4>1 DEF i
      <3>3. d.next \in 1..Len(x) /\ x[d.next] = k
        BY <1>1, <2>8, <3>2 DEF n, i
      <3>4. ToCome(s, d, g)
        <4>1. d.next >= d.next
          OBVIOUS
        <4> QED BY <2>5, <3>2, <3>3, <4>1
      <3>5. ~ToCome(t, d2, g)
        <4>1. ASSUME NEW p \in 1..Len(x), p >= d.next + 1, x[p] = k PROVE FALSE
          <5>1. x[p] = x[d.next]
            BY <3>3, <4>1
          <5>2. p = d.next
            BY ONLY <1>3, <2>1, <3>3, <4>1, <5>1, ListedOnce
          <5> QED BY <4>1, <5>2
        <4> QED BY <2>6, <4>1
      <3> DEFINE joined == s.listener[l].joined
                 seen == s.handle[g].seen
      <3>6. e # Restart => joined <= Len(events) /\ Plus(seen, e) = Passed(events, joined)
        BY <2>3, <2>8, <3>2, <3>4 DEF Followed, Sees, e, events, i
      <3>7. e = Restart \/ e \in ItemEvents
        BY <1>8, <3>1, KindsOfEvents DEF e
      <3>8. t.listener[l].joined <= Len(events) /\ t.handle[g].seen = Passed(events, t.listener[l].joined)
        <4>1. CASE e = Restart
          <5>1. events = <<>>
            BY <1>1, <1>3, <4>1 DEF Delivered, e, events, i
          <5>2. t.handle[g].seen = <<>> /\ t.listener[l].joined = 0
            BY <1>8, <3>1, <4>1
          <5>3. Len(events) = 0
            BY <5>1, EmptySeq
          <5>4. Passed(events, 0) = <<>> /\ 0 <= Len(events)
            BY <5>1, <5>3, PassedNone
          <5> QED BY <5>2, <5>4
        <4>2. CASE e \in ItemEvents
          <5>1. Heard(s, t, l, h, e) /\ e # Restart
            BY <1>8, <3>1, <4>2, KindsOfEvents
          <5>2. t.listener[l] = s.listener[l] /\ t.handle[g].seen = Plus(seen, e)
            BY <3>1, <4>2, <5>1 DEF Heard, Plus
          <5> QED BY <3>6, <5>1, <5>2
        <4> QED BY <3>7, <4>1, <4>2
      <3> QED BY <1>5, <2>8, <3>2, <3>5, <3>8 DEF Followed, Sees, events, i
    <2> QED BY <2>7, <2>8
  <1> QED BY <1>10, <1>11, <1>12, <1>13 DEF View

LEMMA PassOnView ==
    ASSUME CacheInv, View(objects, delivery), PassOn
    PROVE  View(objects, delivery)'
  <1> DEFINE i == delivery.item
             l == Listeners[delivery.next]
             e == delivery.event
  <1>1. /\ Good(objects) /\ Len(objects.item) \in Nat
        /\ i \in 1..Len(objects.item) /\ delivery.next \in Nat \ {0} /\ e \in Event
        /\ delivery \in [item : 0..Len(objects.item), event : Event, next : Nat \ {0},
                         anyClosed : BOOLEAN, inCallback : BOOLEAN]
        /\ delivery.next <= Len(objects.item[i].listeners)
    <2>1. /\ Good(objects) /\ Len(objects.item) \in Nat
          /\ i \in 1..Len(objects.item) /\ delivery.next \in Nat \ {0} /\ e \in Event
          /\ delivery \in [item : 0..Len(objects.item), event : Event, next : Nat \ {0},
                           anyClosed : BOOLEAN, inCallback : BOOLEAN]
      BY TypedParts DEF CacheInv, Good, DeliveryTyped, PassOn, None
    <2>2. delivery.next <= Len(objects.item[i].listeners)
      BY DEF PassOn, Listeners
    <2> QED BY <2>1, <2>2
  <1>2. CASE e = Restart /\ objects' = objects /\ delivery' = NoDelivery
    <2>1. /\ Owned(objects) /\ Listed(objects) /\ Delivered(objects, delivery)
          /\ objects.item[i].source = "none"
      <3>1. Owned(objects) /\ Listed(objects) /\ Delivered(objects, delivery)
        BY ViewParts
      <3>2. i # None
        BY <1>1 DEF None
      <3> QED BY <1>2, <3>1, <3>2, Zenon DEF Delivered
    <2>2. NoDelivery.item = None
      BY DEF NoDelivery
    <2>3. Delivered(objects, NoDelivery)
      BY <2>1, <2>2, Zenon DEF Delivered
    <2>4. ASSUME NEW g \in Handle, Listens(objects, g) PROVE Followed(objects, NoDelivery, g)
      <3>1. objects.handle[g].current # None
        BY <1>1, <2>4, Records DEF Listens, None
      <3>2. CASE objects.handle[g].current # i
        BY <2>2, <2>4, <3>1, <3>2, FollowsAside
      <3>3. CASE objects.handle[g].current = i
        <4>1. ~ToCome(objects, NoDelivery, g)
          BY <2>2, <3>1 DEF ToCome
        <4> QED BY <2>1, <2>2, <3>1, <3>3, <4>1 DEF Followed, Sees
      <3> QED BY <3>2, <3>3
    <2>5. View(objects, NoDelivery)
      BY <2>1, <2>3, <2>4 DEF View
    <2> QED BY <1>2, <2>5
  <1>3. CASE /\ objects' = ListenerReceives(objects, l, e)
             /\ delivery' = [delivery EXCEPT
                                   !.next = @ + 1,
                                   !.anyClosed = @ \/ IsClosed(objects', l),
                                   !.inCallback = ReaderHears(objects, l, e)]
    <2> DEFINE any == delivery.anyClosed \/ IsClosed(objects', l)
               hears == ReaderHears(objects, l, e)
               next == delivery.next + 1
    <2>1. delivery' = [delivery EXCEPT !.next = next, !.anyClosed = any, !.inCallback = hears]
      BY <1>3
    <2> HIDE DEF any, hears, next
    <2>2. delivery'.item = delivery.item /\ delivery'.event = delivery.event /\ delivery'.next = next
      BY <1>1, <2>1
    <2>3. l = objects.item[i].listeners[delivery.next]
      BY DEF Listeners
    <2> HIDE DEF l
    <2> QED BY <1>1, <1>3, <2>2, <2>3, PassedOnView DEF next
  <1> QED BY <1>2, <1>3 DEF PassOn

\* Once the loop is over, a reader has seen what has come.
LEMMA LoopOver ==
    ASSUME NEW s, Good(s), NEW d, View(s, d), NEW t, t.handle = s.handle, t.listener = s.listener,
           d.item \in 1..Len(s.item), d.next > Len(s.item[d.item].listeners), d.next \in Nat,
           \A j \in 1..Len(s.item) : /\ t.item[j].received_events = s.item[j].received_events
                                     /\ j # d.item => t.item[j].source = s.item[j].source,
           NEW g \in Handle, Listens(t, g)
    PROVE  Followed(t, NoDelivery, g)
  <1> DEFINE j == s.handle[g].current
  <1>1. Listens(s, g)
    BY DEF Listens, IsClosed
  <1>2. j \in 1..Len(s.item) /\ j # None /\ Len(s.item[d.item].listeners) \in Nat
    <2>1. s.handle[g].listener # None
      BY <1>1 DEF Listens
    <2>2. j \in 1..Len(s.item) /\ Len(s.item[d.item].listeners) \in Nat
      BY <2>1, Records
    <2> QED BY <2>2 DEF None
  <1>3. NoDelivery.item = None
    BY DEF NoDelivery
  <1>4. CASE j # d.item
    <2>1. NoDelivery.item # j /\ d.item # j
      BY <1>2, <1>3, <1>4
    <2>2. t.item[j].received_events = s.item[j].received_events /\ t.item[j].source = s.item[j].source
      BY <1>2, <1>4
    <2> HIDE DEF j
    <2> QED BY <2>1, <2>2, FollowsAside DEF j
  <1>5. CASE j = d.item
    <2>1. ~ToCome(s, d, g)
      <3>1. \A p \in 1..Len(s.item[j].listeners) : ~(p >= d.next)
        BY <1>2, <1>5
      <3> QED BY <3>1 DEF ToCome
    <2>2. ~ToCome(t, NoDelivery, g)
      BY <1>2, <1>3 DEF ToCome
    <2>3. Followed(s, d, g)
      BY <1>1 DEF View
    <2>4. t.item[j].received_events = s.item[j].received_events
      BY <1>2
    <2> DEFINE joined == s.listener[s.handle[g].listener].joined
               events == s.item[j].received_events
    <2>5. joined <= Len(events) /\ s.handle[g].seen = Passed(events, joined)
      BY <1>5, <2>1, <2>3 DEF Followed, Sees
    <2> QED BY <2>2, <2>4, <2>5 DEF Followed, Sees
  <1> QED BY <1>4, <1>5

LEMMA NothingDelivered ==
    ASSUME NEW s, NEW t, NEW d, Delivered(s, d), Len(t.item) = Len(s.item),
           \A j \in 1..Len(s.item) : t.item[j].received_events = s.item[j].received_events
    PROVE  Delivered(t, NoDelivery)
  <1>1. \A i \in 1..Len(s.item) : \A p \in 1..Len(s.item[i].received_events) :
           s.item[i].received_events[p] # Restart
    BY Zenon DEF Delivered
  <1>2. \A i \in 1..Len(t.item) : \A p \in 1..Len(t.item[i].received_events) :
           t.item[i].received_events[p] # Restart
    BY <1>1
  <1>3. NoDelivery.item = None
    BY DEF NoDelivery
  <1> QED BY <1>2, <1>3, Zenon DEF Delivered

\* The listeners that have been closed are taken from an item's list.
LEMMA FilteredListed ==
    ASSUME NEW s, Good(s), Listed(s), NEW i \in 1..Len(s.item),
           NEW t, t.handle = s.handle, t.listener = s.listener, Len(t.item) = Len(s.item),
           t.item[i].listeners = Kept(s.item[i].listeners, {l \in DOMAIN s.listener : ~IsClosed(s, l)}),
           \A j \in 1..Len(s.item) : j # i => t.item[j].listeners = s.item[j].listeners
    PROVE  Listed(t)
  <1> DEFINE x == s.item[i].listeners
             open == {l \in DOMAIN s.listener : ~IsClosed(s, l)}
             y == Kept(x, open)
  <1>1. \A l : IsClosed(t, l) <=> IsClosed(s, l)
    BY DEF IsClosed
  <1>2. \A p, q \in 1..Len(x) : x[p] = x[q] => p = q
    BY ListedOnce
  <1>3. x \in Seq(1..Len(s.listener)) /\ DOMAIN s.listener = 1..Len(s.listener)
    BY Records, TypedParts DEF Good
  <1>4. Picks(y, x, Len(x), open)
    <2> HIDE DEF x, open
    <2> QED BY <1>2, <1>3, KeptPicks
  <1>5. \A l \in 1..Len(s.listener) : ~IsClosed(s, l) => l \in open
    BY <1>3
  <1> HIDE DEF x, y, open
  <1>6. t.item[i].listeners = y
    BY DEF y, x, open
  <1>7. /\ \A p, q \in 1..Len(y) : y[p] = y[q] => p = q
        /\ \A p \in 1..Len(y) : \E q \in 1..Len(x) : x[q] = y[p]
        /\ \A q \in 1..Len(x) : x[q] \in open => \E p \in 1..Len(y) : y[p] = x[q]
    BY <1>4, Zenon DEF Picks
  <1>8. ASSUME NEW j \in 1..Len(t.item), NEW p \in 1..Len(t.item[j].listeners),
               NEW q \in 1..Len(t.item[j].listeners), t.item[j].listeners[p] = t.item[j].listeners[q]
        PROVE  p = q
    <2>1. CASE j = i
      BY <1>6, <1>7, <1>8, <2>1
    <2>2. CASE j # i
      <3>1. /\ j \in 1..Len(s.item) /\ p \in 1..Len(s.item[j].listeners)
            /\ q \in 1..Len(s.item[j].listeners) /\ s.item[j].listeners[p] = s.item[j].listeners[q]
        BY <1>8, <2>2
      <3> QED BY ONLY Listed(s), <3>1, ListedOnce, Zenon
    <2> QED BY <2>1, <2>2
  <1>9. ASSUME NEW j \in 1..Len(t.item), NEW p \in 1..Len(t.item[j].listeners),
               ~IsClosed(t, t.item[j].listeners[p])
        PROVE  t.handle[t.listener[t.item[j].listeners[p]].of].current = j
    <2>1. PICK q \in 1..Len(s.item[j].listeners) : s.item[j].listeners[q] = t.item[j].listeners[p]
      <3>1. CASE j = i
        BY <1>6, <1>7, <3>1 DEF x
      <3>2. CASE j # i
        BY <1>9, <3>2
      <3> QED BY <3>1, <3>2
    <2>2. j \in 1..Len(s.item) /\ ~IsClosed(s, s.item[j].listeners[q])
      BY <1>1, <1>9, <2>1
    <2>3. s.handle[s.listener[s.item[j].listeners[q]].of].current = j
      BY ONLY Listed(s), <2>1, <2>2, ListedHere, Zenon
    <2> QED BY <2>1, <2>3
  <1>10. ASSUME NEW g \in Handle, t.handle[g].listener # None, ~IsClosed(t, t.handle[g].listener)
         PROVE  \E p \in 1..Len(t.item[t.handle[g].current].listeners) :
                   t.item[t.handle[g].current].listeners[p] = t.handle[g].listener
    <2> DEFINE c == s.handle[g].current
               k == s.handle[g].listener
    <2>1. k \in 1..Len(s.listener) /\ c \in 1..Len(s.item) /\ ~IsClosed(s, k)
      BY <1>1, <1>10, Records
    <2>2. PICK q \in 1..Len(s.item[c].listeners) : s.item[c].listeners[q] = k
      BY <1>10, <2>1, ListedOpen
    <2>3. \E p \in 1..Len(t.item[c].listeners) : t.item[c].listeners[p] = k
      <3>1. CASE c = i
        <4>1. q \in 1..Len(x) /\ x[q] = k /\ k \in open
          BY <1>5, <2>1, <2>2, <3>1 DEF x
        <4>2. \E p \in 1..Len(y) : y[p] = k
          BY <1>7, <4>1
        <4> QED BY <1>6, <3>1, <4>2
      <3>2. CASE c # i
        BY <2>1, <2>2, <3>2
      <3> QED BY <3>1, <3>2
    <2> QED BY <2>3
  <1> QED BY <1>8, <1>9, <1>10 DEF Listed

LEMMA EndDeliveryView ==
    ASSUME CacheInv, View(objects, delivery), EndDelivery
    PROVE  View(objects, delivery)'
  <1> DEFINE i == delivery.item
             it == objects.item[i]
             open == {l \in DOMAIN objects.listener : ~IsClosed(objects, l)}
             kept == Kept(it.listeners, open)
             source == NewItem(it.key).source
             r1 == [it EXCEPT !.source = source]
             r2 == [it EXCEPT !.listeners = kept]
             s1 == [objects EXCEPT !.item[i] = r1]
             s2 == [objects EXCEPT !.item[i] = r2]
  <1>1. /\ Good(objects) /\ i \in 1..Len(objects.item) /\ delivery.next \in Nat
        /\ delivery.next > Len(it.listeners)
    <2>1. i \in 1..Len(objects.item) /\ delivery.next \in Nat
      BY TypedParts DEF CacheInv, Good, DeliveryTyped, EndDelivery, None
    <2> QED BY <2>1 DEF CacheInv, EndDelivery, Listeners
  <1>2. it \in ItemRecords(Len(objects.listener)) /\ it.listeners \in Seq(1..Len(objects.listener))
    BY <1>1, Records
  <1>3. kept \in Seq(1..Len(objects.listener))
    <2> HIDE DEF open, it
    <2>1. kept \in Seq((1..Len(objects.listener)) \cap open)
      BY <1>2, KeptType
    <2>2. Seq((1..Len(objects.listener)) \cap open) \subseteq Seq(1..Len(objects.listener))
      BY SeqMonotonic
    <2> QED BY <2>1, <2>2
  <1>4. /\ r1 \in ItemRecords(Len(objects.listener)) /\ r1.live_ref_count = it.live_ref_count
        /\ r1.listeners = it.listeners /\ r1.received_events = it.received_events
        /\ r2 \in ItemRecords(Len(objects.listener)) /\ r2.live_ref_count = it.live_ref_count
        /\ r2.listeners = kept /\ r2.received_events = it.received_events /\ r2.source = it.source
    <2>1. source \in {"none", "running", "ended"}
      BY DEF NewItem
    <2> HIDE DEF it, kept, source
    <2> QED BY <1>2, <1>3, <2>1 DEF ItemRecords
  <1>5. objects' = objects \/ objects' = s1 \/ objects' = s2
    <2>1. [objects EXCEPT !.item[i].source = source] = s1
      OBVIOUS
    <2>2. [objects EXCEPT !.item[i].listeners = Kept(@, open)] = s2
      OBVIOUS
    <2> HIDE DEF s1, s2
    <2> QED BY <2>1, <2>2 DEF EndDelivery
  <1>6. delivery' = NoDelivery
    BY DEF EndDelivery
  <1> HIDE DEF it, kept, source, r1, r2
  <1>7. /\ Len(s1.item) = Len(objects.item) /\ s1.listener = objects.listener
        /\ s1.handle = objects.handle /\ s1.item[i] = r1
        /\ \A j \in (1..Len(objects.item)) \ {i} : s1.item[j] = objects.item[j]
    <2>1. r1.live_ref_count = objects.item[i].live_ref_count
      BY <1>4 DEF it
    <2> QED BY <1>1, <1>4, <2>1, ItemGood
  <1>8. /\ Len(s2.item) = Len(objects.item) /\ s2.listener = objects.listener
        /\ s2.handle = objects.handle /\ s2.item[i] = r2
        /\ \A j \in (1..Len(objects.item)) \ {i} : s2.item[j] = objects.item[j]
    <2>1. r2.live_ref_count = objects.item[i].live_ref_count
      BY <1>4 DEF it
    <2> QED BY <1>1, <1>4, <2>1, ItemGood
  <1>9. Owned(objects) /\ Listed(objects) /\ Delivered(objects, delivery)
    BY ViewParts
  <1> HIDE DEF s1, s2, open
  <1>10. ASSUME NEW t, t.handle = objects.handle, t.listener = objects.listener, Len(t.item) = Len(objects.item),
                Listed(t),
                \A j \in 1..Len(objects.item) :
                   /\ t.item[j].received_events = objects.item[j].received_events
                   /\ j # i => t.item[j].source = objects.item[j].source
         PROVE  View(t, NoDelivery)
    <2>1. \A l : IsClosed(t, l) <=> IsClosed(objects, l)
      BY <1>10 DEF IsClosed
    <2>2. Owned(t)
      BY <1>9, <1>10, <2>1, Zenon DEF Owned
    <2>3. Delivered(t, NoDelivery)
      BY <1>9, <1>10, NothingDelivered
    <2>4. \A g \in Handle : Listens(t, g) => Followed(t, NoDelivery, g)
      BY <1>1, <1>10, LoopOver DEF it
    <2> QED BY <1>10, <2>2, <2>3, <2>4 DEF View
  <1>11. View(objects, NoDelivery)
    BY <1>9, <1>10
  <1>12. View(s1, NoDelivery)
    <2>1. \A j \in 1..Len(objects.item) : /\ s1.item[j].listeners = objects.item[j].listeners
                                          /\ s1.item[j].received_events = objects.item[j].received_events
                                          /\ j # i => s1.item[j].source = objects.item[j].source
      BY <1>4, <1>7 DEF it
    <2>2. Listed(s1)
      BY <1>1, <1>7, <1>9, <2>1, ListedStays
    <2> QED BY <1>7, <1>10, <2>1, <2>2
  <1>13. View(s2, NoDelivery)
    <2>1. \A j \in 1..Len(objects.item) : /\ j # i => s2.item[j].listeners = objects.item[j].listeners
                                          /\ s2.item[j].received_events = objects.item[j].received_events
                                          /\ j # i => s2.item[j].source = objects.item[j].source
      BY <1>4, <1>8 DEF it
    <2>2. Listed(s2)
      <3>1. s2.item[i].listeners
              = Kept(objects.item[i].listeners, {l \in DOMAIN objects.listener : ~IsClosed(objects, l)})
        BY <1>4, <1>8 DEF kept, it, open
      <3> QED BY <1>1, <1>8, <1>9, <2>1, <3>1, FilteredListed
    <2> QED BY <1>8, <1>10, <2>1, <2>2
  <1> QED BY <1>5, <1>6, <1>11, <1>12, <1>13

-----------------------------------------------------------------------------

LEMMA InitView == Init => View(objects, delivery)
  <1> SUFFICES ASSUME Init PROVE View(objects, delivery)
    OBVIOUS
  <1>1. /\ Len(objects.item) = 0 /\ Len(objects.listener) = 0
        /\ \A h \in Handle : objects.handle[h].listener = None /\ objects.handle[h].seen = <<>>
        /\ delivery.item = None
    BY EmptySeq DEF Init, NewHandle, NoDelivery
  <1>2. Owned(objects)
    BY <1>1 DEF Owned
  <1>3. Listed(objects)
    BY <1>1 DEF Listed
  <1>4. Delivered(objects, delivery)
    BY <1>1 DEF Delivered
  <1>5. \A h \in Handle : ~Listens(objects, h)
    BY <1>1 DEF Listens
  <1> QED BY <1>2, <1>3, <1>4, <1>5 DEF View

LEMMA ViewStep == CacheInv /\ View(objects, delivery) /\ [Next]_vars => View(objects, delivery)'
  <1> SUFFICES ASSUME CacheInv, View(objects, delivery), [Next]_vars PROVE View(objects, delivery)'
    OBVIOUS
  <1>1. ASSUME NEW h \in Handle, NEW k \in Key, Refresh(h, k) PROVE View(objects, delivery)'
    BY <1>1, RefreshView
  <1>2. ASSUME NEW h \in Handle, StartListening(h) PROVE View(objects, delivery)'
    BY <1>2, StartListeningView
  <1>3. ASSUME NEW h \in Handle, CloseHandle(h) PROVE View(objects, delivery)'
    BY <1>3, CloseHandleView
  <1>4. ASSUME NEW h \in Handle, ReaderStops(h) PROVE View(objects, delivery)'
    BY <1>4, ReaderStopsView
  <1>5. ASSUME NEW i \in DOMAIN objects.item, RefreshItem(i) PROVE View(objects, delivery)'
    BY <1>5, RefreshItemView
  <1>6. ASSUME NEW i \in DOMAIN objects.item, NEW e \in Event, HandlerEmits(i, e)
        PROVE  View(objects, delivery)'
    BY <1>6, HandlerEmitsView
  <1>7. CASE PassOn
    BY <1>7, PassOnView
  <1>8. CASE EndDelivery
    BY <1>8, EndDeliveryView
  <1>9. CASE UNCHANGED vars
    BY <1>9 DEF vars
  <1> QED BY <1>1, <1>2, <1>3, <1>4, <1>5, <1>6, <1>7, <1>8, <1>9 DEF Next

\* CacheItemHandle.ts, updateStream: whatever a reader has got since its last restart
\* are the events of the item its handle listens to, in order and without gaps,
\* however handles move between items, close and start again while an event is being
\* passed on, and whichever of those calls throw half-way.
THEOREM ViewsFollow == Spec => []ViewFollowsItem
  <1>1. CacheInv /\ View(objects, delivery) => ViewFollowsItem
    <2> SUFFICES ASSUME CacheInv, View(objects, delivery), NEW h \in Handle,
                        objects.handle[h].listener # None, objects.handle[h].update = "open",
                        ~IsClosed(objects, objects.handle[h].listener),
                        delivery.item # objects.handle[h].current,
                        objects.item[objects.handle[h].current].source # "none"
                 PROVE  objects.handle[h].seen =
                           Passed(objects.item[objects.handle[h].current].received_events,
                                  objects.listener[objects.handle[h].listener].joined)
      BY DEF ViewFollowsItem
    <2>1. Followed(objects, delivery, h)
      BY DEF View, Listens
    <2>2. ~ToCome(objects, delivery, h)
      BY DEF ToCome
    <2> QED BY <2>1, <2>2, Zenon DEF Followed, Sees
  <1> QED BY <1>1, InitCache, CacheStep, InitView, ViewStep, PTL DEF Spec

=============================================================================
