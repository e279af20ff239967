-------------------------------- MODULE Table -------------------------------
(***************************************************************************)
(* An in-memory table with several indexes, as createTable() builds it and  *)
(* src/rqe/table/RuntimeFunctions.ts operates it.  The attribute of the     *)
(* primary unique index is an `auto' one here, so insert() numbers an item  *)
(* that comes without it.                                                   *)
(***************************************************************************)
EXTENDS TableIndexes

CONSTANT
    ExplicitIds         \* callers insert items with ids the table has yet to give out

ASSUME ExplicitIdsAssumption == ExplicitIds \in BOOLEAN

VARIABLES
    indexes,
    next,               \* attrData.next of the primary attribute
    reserved,           \* ids preInsert() gave to items not yet inserted
    replica             \* what a listener to the table has, by unique key

vars == <<indexes, next, reserved, replica>>

Init ==
    /\ indexes = NoItems
    /\ next = 1
    /\ reserved = {}
    /\ replica = Empty

-----------------------------------------------------------------------------
\* A listener that keeps items by unique key and takes a delete event without a
\* key, which is what deleteAll() sends, for the deletion of everything.
HearsItem(item) == Set(replica, item[Primary], {item})
HearsDeletes(victims) ==
    [k \in DOMAIN replica \ {v[Primary] : v \in victims} |-> replica[k]]

-----------------------------------------------------------------------------
\* The operations

\* A caller that respects the unique attributes gives no map index a key it has,
\* and inserts nothing twice.
Respects(item, given) ==
    /\ \A a \in given \ Multi : item[a] \notin DOMAIN indexes[a]
    /\ item \notin ItemsOf(indexes[Primary])

Insert(item) ==
    /\ indexes' = Stored(indexes, item)
    /\ replica' = HearsItem(item)

\* Mutant: an id is the number of items.
CountId == Cardinality(DOMAIN indexes[Primary]) + 1

\* The id preInsert() gives to an item without one.
AutoId == next

\* insert() of an item without the primary attribute.
InsertNew(item) ==
    /\ next \in Value
    /\ item[Primary] = AutoId
    /\ Respects(item, Attr \ {Primary})
    /\ next' = next + 1
    /\ Insert(item)
    /\ UNCHANGED reserved

\* preInsert(), whose caller inserts the item later.
PreInsert ==
    /\ next \in Value
    /\ reserved' = reserved \cup {AutoId}
    /\ next' = next + 1
    /\ UNCHANGED <<indexes, replica>>

InsertReserved(item) ==
    /\ item[Primary] \in reserved
    /\ Respects(item, Attr \ {Primary})
    /\ reserved' = reserved \ {item[Primary]}
    /\ Insert(item)
    /\ UNCHANGED next

\* insert() of an item that comes with an id: one the table numbered before, when
\* the item is put back after it was deleted, or any id at all.
InsertWithId(item) ==
    /\ ExplicitIds \/ item[Primary] < next
    /\ item[Primary] \notin reserved
    /\ Respects(item, Attr)
    /\ Insert(item)
    /\ UNCHANGED <<next, reserved>>

DeleteWith(a, k) ==
    LET victims == Get(indexes[a], k)
    IN  /\ indexes' = Removed(indexes, victims)
        /\ replica' = HearsDeletes(victims)
        /\ UNCHANGED <<next, reserved>>

\* Mutant: the listeners are not told.
DeleteAllQuietly ==
    /\ indexes' = NoItems
    /\ UNCHANGED <<next, reserved, replica>>

DeleteAll ==
    /\ indexes' = NoItems
    /\ replica' = Empty
    /\ UNCHANGED <<next, reserved>>

\* replaceAll(): deleteAll(), then the insert() of each new item, which numbers them
\* from `next' on.
ReplaceAllWith(items) ==
    /\ next + Cardinality(items) \in 1..(MaxValue + 1)
    /\ {item[Primary] : item \in items} = next..(next + Cardinality(items) - 1)
    /\ \A item, other \in items, a \in Attr \ Multi : item[a] = other[a] => item = other
    /\ next' = next + Cardinality(items)
    /\ indexes' = [a \in Attr |-> [k \in {item[a] : item \in items} |->
                                      {item \in items : item[a] = k}]]
    /\ replica' = [k \in {item[Primary] : item \in items} |->
                                      {item \in items : item[Primary] = k}]
    /\ UNCHANGED reserved

Next ==
    \/ \E item \in Item : InsertNew(item) \/ InsertReserved(item) \/ InsertWithId(item)
    \/ PreInsert
    \/ \E a \in Attr, k \in Value : DeleteWith(a, k)
    \/ DeleteAll
    \/ \E first, second \in Item : ReplaceAllWith({first, second})

Spec == Init /\ [][Next]_vars

-----------------------------------------------------------------------------
\* Properties

IsIndex(index) ==
    /\ DOMAIN index \subseteq Value
    /\ \A k \in DOMAIN index : index[k] \subseteq Item

\* The indexes hold items under values of their attributes, and so does a listener;
\* a map index has exactly one item for each of its keys.
TypeOK ==
    /\ DOMAIN indexes = Attr
    /\ \A a \in Attr : IsIndex(indexes[a])
    /\ \A a \in Attr \ Multi : \A k \in DOMAIN indexes[a] : \E item \in Item : indexes[a][k] = {item}
    /\ next \in Nat
    /\ reserved \subseteq Value
    /\ IsIndex(replica)

\* checkInvariantsOnTable(): every index has the items of the primary one, each
\* under its own key, and no two of them share a unique key.
IndexesAgree == Agree(indexes)

\* A listener to the table can keep a copy of it from the events alone, with the
\* items deletes by any attribute, deleteAll() and replaceAll() took away gone.
ReplicaFollows == replica = indexes[Primary]

=============================================================================
