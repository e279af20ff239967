---------------------------- MODULE Table_proofs ----------------------------
(***************************************************************************)
(* Proofs about Table and StreamToTable.  For every schema, if callers do   *)
(* not make up ids, the indexes of a table agree and a listener can follow  *)
(* it; a table that a stream fills holds what the stream was put, and who   *)
(* listens to its status knows it.                                          *)
(***************************************************************************)
EXTENDS Table, StreamToTable, NumberLemmas

-----------------------------------------------------------------------------
\* The functions on indexes

\* An index holds an item when one of its keys leads to it.
LEMMA ItemsOfMember ==
    ASSUME NEW index, NEW item
    PROVE  item \in ItemsOf(index) <=> \E k \in DOMAIN index : item \in index[k]
BY DEF ItemsOf

\* Keyed(ix)    items are under their own keys
\* Single(ix)   the keys of map indexes lead to one item each
\* Same(ix)     all indexes hold the same items
Keyed(ix) == \A a \in Attr : \A k \in DOMAIN ix[a] : \A item \in ix[a][k] : item[a] = k
Single(ix) == \A a \in Attr \ Multi : \A k \in DOMAIN ix[a] : \E item \in Item : ix[a][k] = {item}
Same(ix) == \A a \in Attr : ItemsOf(ix[a]) = ItemsOf(ix[Primary])
Shaped(ix) == DOMAIN ix = Attr /\ \A a \in Attr : IsIndex(ix[a])
Agreeing(ix) == Shaped(ix) /\ Keyed(ix) /\ Single(ix) /\ Same(ix)

\* In a map index of agreeing indexes an item is alone under its key.
LEMMA Alone ==
    ASSUME NEW ix, Agreeing(ix), NEW a \in Attr \ Multi, NEW item \in ItemsOf(ix[Primary])
    PROVE  item[a] \in DOMAIN ix[a] /\ ix[a][item[a]] = {item}
<1>1. item \in ItemsOf(ix[a])
  BY DEF Agreeing, Same
<1>2. PICK k \in DOMAIN ix[a] : item \in ix[a][k]
  BY <1>1, ItemsOfMember
<1>3. item[a] = k
  BY <1>2 DEF Agreeing, Keyed
<1>4. \E other \in Item : ix[a][k] = {other}
  BY <1>2 DEF Agreeing, Single
<1> QED BY <1>2, <1>3, <1>4

\* insert() of an item with new unique keys keeps the indexes in agreement and
\* adds the item.
LEMMA StoredAgrees ==
    ASSUME NEW ix, Agreeing(ix), NEW item \in Item,
           \A a \in Attr \ Multi : item[a] \notin DOMAIN ix[a]
    PROVE  /\ Agreeing(Stored(ix, item))
           /\ Stored(ix, item)[Primary] = Set(ix[Primary], item[Primary], {item})
<1> DEFINE new == Stored(ix, item)
           items(a) == IF a \in Multi THEN Get(ix[a], item[a]) \cup {item} ELSE {item}
<1>1. /\ DOMAIN new = Attr
      /\ \A a \in Attr : new[a] = Set(ix[a], item[a], items(a))
  BY DEF Stored
<1>2. \A a \in Attr :
        /\ item[a] \in Value
        /\ IsIndex(ix[a])
        /\ items(a) \subseteq Item
        /\ item \in items(a)
        /\ \A other \in items(a) : other = item \/ (item[a] \in DOMAIN ix[a] /\ other \in ix[a][item[a]])
        /\ item[a] \in DOMAIN ix[a] => ix[a][item[a]] \subseteq items(a)
  BY DEF Agreeing, Shaped, IsIndex, Get, Item
<1> HIDE DEF new, items
<1>3. \A a \in Attr :
        /\ DOMAIN new[a] = DOMAIN ix[a] \cup {item[a]}
        /\ new[a][item[a]] = items(a)
        /\ \A x \in DOMAIN ix[a] : x # item[a] => new[a][x] = ix[a][x]
  <2> TAKE a \in Attr
  <2>1. new[a] = Set(ix[a], item[a], items(a))
    BY <1>1
  <2> QED BY <2>1 DEF Set
<1>4. Shaped(new)
  BY <1>1, <1>2, <1>3 DEF Shaped, IsIndex
<1>5. Keyed(new)
  BY <1>2, <1>3 DEF Agreeing, Keyed
<1>6. \A a \in Attr \ Multi : items(a) = {item}
  BY DEF items
<1>7. Single(new)
  BY <1>3, <1>6 DEF Agreeing, Single
<1>8. ASSUME NEW a \in Attr
      PROVE  ItemsOf(new[a]) = ItemsOf(ix[a]) \cup {item}
  <2>1. ASSUME NEW other
        PROVE  other \in ItemsOf(new[a]) <=> other \in ItemsOf(ix[a]) \cup {item}
    <3>1. ASSUME other \in ItemsOf(new[a])
          PROVE  other \in ItemsOf(ix[a]) \cup {item}
      <4>1. PICK k \in DOMAIN new[a] : other \in new[a][k]
        BY <3>1, ItemsOfMember
      <4>2. other = item \/ \E x \in DOMAIN ix[a] : other \in ix[a][x]
        BY <4>1, <1>2, <1>3
      <4> QED BY <4>2, ItemsOfMember
    <3>2. item \in ItemsOf(new[a])
      BY <1>2, <1>3, ItemsOfMember
    <3>3. ASSUME other \in ItemsOf(ix[a])
          PROVE  other \in ItemsOf(new[a])
      <4>1. PICK k \in DOMAIN ix[a] : other \in ix[a][k]
        BY <3>3, ItemsOfMember
      <4>2. k \in DOMAIN new[a] /\ other \in new[a][k]
        BY <4>1, <1>2, <1>3
      <4> QED BY <4>2, ItemsOfMember
    <3> QED BY <3>1, <3>2, <3>3
  <2> QED BY <2>1
<1>9. Same(new)
  BY <1>8, SchemaAssumption DEF Agreeing, Same
<1>10. new[Primary] = Set(ix[Primary], item[Primary], {item})
  BY <1>1, <1>6, SchemaAssumption
<1> QED BY <1>4, <1>5, <1>7, <1>9, <1>10 DEF Agreeing, new

\* deleteWithAttr() keeps the indexes in agreement.
LEMMA RemovedAgrees ==
    ASSUME NEW ix, Agreeing(ix), NEW victims \in SUBSET ItemsOf(ix[Primary])
    PROVE  /\ Agreeing(Removed(ix, victims))
           /\ Removed(ix, victims)[Primary] =
                 [k \in DOMAIN ix[Primary] \ {v[Primary] : v \in victims} |-> ix[Primary][k]]
<1> DEFINE new == Removed(ix, victims)
           Goes(a, k, item) == \E v \in victims : v[a] = k /\ v[Primary] = item[Primary]
<1>1. DOMAIN new = Attr
  BY DEF Removed
<1>2. ASSUME NEW a \in Attr, a \in Multi
      PROVE  /\ DOMAIN new[a] = DOMAIN ix[a]
             /\ \A k \in DOMAIN ix[a] : \A item :
                   item \in new[a][k] <=> item \in ix[a][k] /\ ~Goes(a, k, item)
  <2>1. new[a] = [k \in DOMAIN ix[a] |-> {item \in ix[a][k] : ~Goes(a, k, item)}]
    BY <1>2 DEF Removed
  <2> QED BY <2>1
<1>3. ASSUME NEW a \in Attr, a \notin Multi
      PROVE  /\ DOMAIN new[a] = DOMAIN ix[a] \ {v[a] : v \in victims}
             /\ \A k \in DOMAIN new[a] : new[a][k] = ix[a][k]
  <2>1. new[a] = [k \in DOMAIN ix[a] \ {v[a] : v \in victims} |-> ix[a][k]]
    BY <1>3 DEF Removed
  <2> QED BY <2>1
<1>4. Primary \in Attr \ Multi
  BY SchemaAssumption
<1> HIDE DEF new
<1>5. \A a \in Attr : /\ DOMAIN new[a] \subseteq DOMAIN ix[a]
                      /\ \A k \in DOMAIN new[a] : new[a][k] \subseteq ix[a][k]
  <2>1. ASSUME NEW a \in Attr, a \in Multi
        PROVE  /\ DOMAIN new[a] \subseteq DOMAIN ix[a]
               /\ \A k \in DOMAIN new[a] : new[a][k] \subseteq ix[a][k]
    <3> HIDE DEF Goes
    <3> QED BY <2>1, <1>2
  <2>2. ASSUME NEW a \in Attr, a \notin Multi
        PROVE  /\ DOMAIN new[a] \subseteq DOMAIN ix[a]
               /\ \A k \in DOMAIN new[a] : new[a][k] \subseteq ix[a][k]
    BY <2>2, <1>3
  <2> QED BY <2>1, <2>2
<1>6. Shaped(new)
  BY <1>1, <1>5 DEF Agreeing, Shaped, IsIndex
<1>7. Keyed(new)
  BY <1>5 DEF Agreeing, Keyed
<1>8. Single(new)
  BY <1>3 DEF Agreeing, Single
<1>9. ASSUME NEW a \in Attr
      PROVE  ItemsOf(new[a]) = ItemsOf(ix[Primary]) \ victims
  <2>1. ASSUME NEW item
        PROVE  item \in ItemsOf(new[a]) <=> item \in ItemsOf(ix[Primary]) \ victims
    <3>1. ASSUME item \in ItemsOf(new[a])
          PROVE  item \in ItemsOf(ix[Primary]) \ victims
      <4>1. PICK k \in DOMAIN new[a] : item \in new[a][k]
        BY <3>1, ItemsOfMember
      <4>2. k \in DOMAIN ix[a] /\ item \in ix[a][k] /\ item[a] = k
        BY <4>1, <1>5 DEF Agreeing, Keyed
      <4>3. item \in ItemsOf(ix[Primary])
        BY <4>2, ItemsOfMember DEF Agreeing, Same
      <4>4. CASE a \in Multi
        <5>1. ~Goes(a, k, item)
          <6> HIDE DEF Goes
          <6> QED BY <4>1, <4>2, <4>4, <1>2
        <5> QED BY <5>1, <4>2, <4>3
      <4>5. CASE a \notin Multi
        BY <4>1, <4>2, <4>3, <4>5, <1>3
      <4> QED BY <4>4, <4>5
    <3>2. ASSUME item \in ItemsOf(ix[Primary]), item \notin victims
          PROVE  item \in ItemsOf(new[a])
      <4>1. PICK k \in DOMAIN ix[a] : item \in ix[a][k]
        BY <3>2, ItemsOfMember DEF Agreeing, Same
      <4>2. item[a] = k
        BY <4>1 DEF Agreeing, Keyed
      <4>3. \A b \in Attr \ Multi, v \in victims : v[b] # item[b]
        <5> SUFFICES ASSUME NEW b \in Attr \ Multi, NEW v \in victims, v[b] = item[b]
                     PROVE  FALSE
          OBVIOUS
        <5>1. ix[b][item[b]] = {item}
          BY <3>2, Alone
        <5>2. ix[b][v[b]] = {v}
          BY Alone
        <5> QED BY <5>1, <5>2, <3>2
      <4>4. CASE a \in Multi
        <5>1. ~Goes(a, k, item)
          BY <4>3, <1>4
        <5>2. k \in DOMAIN new[a] /\ item \in new[a][k]
          <6> HIDE DEF Goes
          <6> QED BY <4>1, <4>4, <5>1, <1>2
        <5> QED BY <5>2, ItemsOfMember
      <4>5. CASE a \notin Multi
        <5>1. k \in DOMAIN new[a] /\ item \in new[a][k]
          BY <4>1, <4>2, <4>3, <4>5, <1>3
        <5> QED BY <5>1, ItemsOfMember
      <4> QED BY <4>4, <4>5
    <3> QED BY <3>1, <3>2
  <2> QED BY <2>1
<1>10. Same(new)
  BY <1>9, <1>4 DEF Same
<1>11. new[Primary] = [k \in DOMAIN ix[Primary] \ {v[Primary] : v \in victims} |-> ix[Primary][k]]
  BY <1>4 DEF Removed, new
<1> QED BY <1>6, <1>7, <1>8, <1>10, <1>11 DEF Agreeing, new

\* deleteAll() leaves indexes without items, which agree.
LEMMA NoItemsAgree == Agreeing(NoItems)
<1>1. /\ DOMAIN NoItems = Attr
      /\ \A a \in Attr : DOMAIN NoItems[a] = {}
  BY DEF NoItems, Empty
<1>2. \A a \in Attr : ItemsOf(NoItems[a]) = {}
  BY <1>1, ItemsOfMember
<1>3. Shaped(NoItems) /\ Keyed(NoItems) /\ Single(NoItems)
  BY <1>1 DEF Shaped, IsIndex, Keyed, Single
<1>4. Same(NoItems)
  BY <1>2, SchemaAssumption DEF Same
<1> QED BY <1>3, <1>4 DEF Agreeing

\* The indexes replaceAll() builds agree when the new items share no unique key.
LEMMA ReplacedAgree ==
    ASSUME NEW items \in SUBSET Item,
           \A item, other \in items, a \in Attr \ Multi : item[a] = other[a] => item = other
    PROVE  Agreeing([a \in Attr |-> [k \in {item[a] : item \in items} |->
                                        {item \in items : item[a] = k}]])
<1> DEFINE new == [a \in Attr |-> [k \in {item[a] : item \in items} |->
                                      {item \in items : item[a] = k}]]
<1>1. /\ DOMAIN new = Attr
      /\ \A a \in Attr : new[a] = [k \in {item[a] : item \in items} |->
                                      {item \in items : item[a] = k}]
  OBVIOUS
<1> HIDE DEF new
<1>2. \A a \in Attr :
        /\ DOMAIN new[a] = {item[a] : item \in items}
        /\ \A k \in DOMAIN new[a] : new[a][k] = {item \in items : item[a] = k}
  <2> TAKE a \in Attr
  <2>1. new[a] = [k \in {item[a] : item \in items} |-> {item \in items : item[a] = k}]
    BY <1>1
  <2> QED BY <2>1
<1>3. \A a \in Attr, item \in Item : item[a] \in Value
  BY DEF Item
<1>4. Shaped(new)
  BY <1>1, <1>2, <1>3 DEF Shaped, IsIndex
<1>5. Keyed(new)
  BY <1>2 DEF Keyed
<1>6. Single(new)
  <2> SUFFICES ASSUME NEW a \in Attr \ Multi, NEW k \in DOMAIN new[a]
               PROVE  \E item \in Item : new[a][k] = {item}
    BY DEF Single
  <2>1. PICK item \in items : item[a] = k
    BY <1>2
  <2>2. new[a][k] = {item}
    BY <1>2, <2>1
  <2> QED BY <2>2
<1>7. \A a \in Attr : ItemsOf(new[a]) = items
  <2> SUFFICES ASSUME NEW a \in Attr, NEW item
               PROVE  item \in ItemsOf(new[a]) <=> item \in items
    OBVIOUS
  <2>1. ASSUME item \in items
        PROVE  item[a] \in DOMAIN new[a] /\ item \in new[a][item[a]]
    BY <1>2, <2>1
  <2>2. \A k \in DOMAIN new[a] : new[a][k] \subseteq items
    BY <1>2
  <2> QED BY <2>1, <2>2, ItemsOfMember
<1>8. Same(new)
  BY <1>7, SchemaAssumption DEF Same
<1> QED BY <1>4, <1>5, <1>6, <1>8 DEF Agreeing, new

-----------------------------------------------------------------------------
\* The invariant

\* The ids in the table, and those preInsert() gave out, have been numbered; an id
\* is given out once.
IdsNumbered ==
    /\ next \in Nat \ {0}
    /\ reserved \subseteq Value
    /\ \A id \in reserved : id < next /\ id \notin DOMAIN indexes[Primary]
    /\ \A id \in DOMAIN indexes[Primary] : id < next

TableInv == Agreeing(indexes) /\ replica = indexes[Primary] /\ IdsNumbered

\* The invariant and what the runs check.
LEMMA InvImplies == TableInv => TypeOK /\ IndexesAgree /\ ReplicaFollows
<1> SUFFICES ASSUME TableInv PROVE TypeOK /\ IndexesAgree /\ ReplicaFollows
  OBVIOUS
<1>1. IsIndex(indexes[Primary])
  BY SchemaAssumption DEF TableInv, Agreeing, Shaped
<1>2. TypeOK
  BY <1>1 DEF TypeOK, TableInv, IdsNumbered, Agreeing, Shaped, Single
<1>3. IndexesAgree
  BY DEF IndexesAgree, Agree, TableInv, Agreeing, Keyed, Same
<1> QED BY <1>2, <1>3 DEF ReplicaFollows, TableInv

\* An empty table.
LEMMA InvInit == Init => TableInv
<1> SUFFICES ASSUME Init PROVE TableInv
  OBVIOUS
<1>1. indexes[Primary] = Empty /\ DOMAIN Empty = {}
  BY SchemaAssumption DEF Init, NoItems, Empty
<1> QED BY <1>1, NoItemsAgree DEF Init, TableInv, IdsNumbered

\* An item is inserted with an id that is in no item yet.
LEMMA InsertKeepsAgreement ==
    ASSUME TableInv, NEW item \in Item, Insert(item),
           Respects(item, Attr \ {Primary}), item[Primary] \notin DOMAIN indexes[Primary]
    PROVE  /\ Agreeing(indexes')
           /\ replica' = indexes'[Primary]
           /\ DOMAIN indexes'[Primary] = DOMAIN indexes[Primary] \cup {item[Primary]}
<1>1. \A a \in Attr \ Multi : item[a] \notin DOMAIN indexes[a]
  BY DEF Respects
<1>2. /\ Agreeing(Stored(indexes, item))
      /\ Stored(indexes, item)[Primary] = Set(indexes[Primary], item[Primary], {item})
  BY <1>1, StoredAgrees DEF TableInv
<1>3. replica' = indexes'[Primary] /\ Agreeing(indexes')
  BY <1>2 DEF Insert, HearsItem, TableInv
<1>4. DOMAIN indexes'[Primary] = DOMAIN indexes[Primary] \cup {item[Primary]}
  BY <1>2 DEF Insert, Set
<1> QED BY <1>3, <1>4

\* Every operation keeps the invariant, if callers do not make up ids.
LEMMA InvNext ==
    ASSUME ExplicitIds = FALSE
    PROVE  TableInv /\ [Next]_vars => TableInv'
<1> SUFFICES ASSUME TableInv, [Next]_vars PROVE TableInv'
  OBVIOUS
<1>1. \A id \in Value : id \in Nat
  BY ValueAssumption DEF Value
<1>2. Primary \in Attr \ Multi /\ \A item \in Item : item[Primary] \in Value
  BY SchemaAssumption DEF Item
<1>3. ASSUME NEW item \in Item, InsertNew(item) PROVE TableInv'
  <2>1. item[Primary] = next /\ next' = next + 1 /\ reserved' = reserved
    BY <1>3 DEF InsertNew, AutoId
  <2>2. next \notin DOMAIN indexes[Primary]
    BY DEF TableInv, IdsNumbered
  <2>3. /\ Agreeing(indexes') /\ replica' = indexes'[Primary]
        /\ DOMAIN indexes'[Primary] = DOMAIN indexes[Primary] \cup {next}
    BY <1>3, <2>1, <2>2, InsertKeepsAgreement DEF InsertNew
  <2>4. IdsNumbered'
    BY <2>1, <2>3, <1>1, <1>2 DEF TableInv, IdsNumbered, Agreeing, Shaped, IsIndex
  <2> QED BY <2>3, <2>4 DEF TableInv
<1>4. ASSUME NEW item \in Item, InsertReserved(item) PROVE TableInv'
  <2>1. item[Primary] \in reserved /\ next' = next /\ reserved' = reserved \ {item[Primary]}
    BY <1>4 DEF InsertReserved
  <2>2. item[Primary] \notin DOMAIN indexes[Primary] /\ item[Primary] < next
    BY <2>1 DEF TableInv, IdsNumbered
  <2>3. /\ Agreeing(indexes') /\ replica' = indexes'[Primary]
        /\ DOMAIN indexes'[Primary] = DOMAIN indexes[Primary] \cup {item[Primary]}
    BY <1>4, <2>2, InsertKeepsAgreement DEF InsertReserved
  <2>4. IdsNumbered'
    BY <2>1, <2>2, <2>3 DEF TableInv, IdsNumbered
  <2> QED BY <2>3, <2>4 DEF TableInv
<1>5. ASSUME NEW item \in Item, InsertWithId(item) PROVE TableInv'
  <2>1. item[Primary] < next /\ item[Primary] \notin reserved /\ UNCHANGED <<next, reserved>>
    BY <1>5 DEF InsertWithId
  <2>2. Respects(item, Attr \ {Primary}) /\ item[Primary] \notin DOMAIN indexes[Primary]
    BY <1>5, <1>2 DEF InsertWithId, Respects
  <2>3. /\ Agreeing(indexes') /\ replica' = indexes'[Primary]
        /\ DOMAIN indexes'[Primary] = DOMAIN indexes[Primary] \cup {item[Primary]}
    BY <1>5, <2>2, InsertKeepsAgreement DEF InsertWithId
  <2>4. IdsNumbered'
    BY <2>1, <2>3 DEF TableInv, IdsNumbered
  <2> QED BY <2>3, <2>4 DEF TableInv
<1>6. CASE PreInsert
  <2>1. next' = next + 1 /\ reserved' = reserved \cup {next} /\ next \in Value
    BY <1>6 DEF PreInsert, AutoId
  <2>2. UNCHANGED <<indexes, replica>>
    BY <1>6 DEF PreInsert
  <2>3. \A id \in DOMAIN indexes[Primary] : id \in Nat
    BY <1>1, <1>2 DEF TableInv, Agreeing, Shaped, IsIndex
  <2>4. \A id \in reserved : id \in Nat
    BY <1>1 DEF TableInv, IdsNumbered
  <2>5. next \notin DOMAIN indexes[Primary] /\ DOMAIN indexes'[Primary] = DOMAIN indexes[Primary]
    BY <2>2 DEF TableInv, IdsNumbered
  <2>6. IdsNumbered'
    BY <2>1, <2>3, <2>4, <2>5 DEF TableInv, IdsNumbered
  <2> QED BY <2>2, <2>6 DEF TableInv
<1>7. ASSUME NEW a \in Attr, NEW k \in Value, DeleteWith(a, k) PROVE TableInv'
  <2> DEFINE victims == Get(indexes[a], k)
  <2>1. victims \subseteq ItemsOf(indexes[Primary])
    <3>1. victims \subseteq ItemsOf(indexes[a])
      BY ItemsOfMember DEF Get
    <3> QED BY <3>1 DEF TableInv, Agreeing, Same
  <2>2. /\ indexes' = Removed(indexes, victims)
        /\ replica' = [x \in DOMAIN replica \ {v[Primary] : v \in victims} |-> replica[x]]
        /\ UNCHANGED <<next, reserved>>
    BY <1>7 DEF DeleteWith, HearsDeletes
  <2> HIDE DEF victims
  <2>3. /\ Agreeing(indexes')
        /\ indexes'[Primary] =
              [x \in DOMAIN indexes[Primary] \ {v[Primary] : v \in victims} |-> indexes[Primary][x]]
    BY <2>1, <2>2, RemovedAgrees DEF TableInv
  <2>4. replica' = indexes'[Primary]
    BY <2>2, <2>3 DEF TableInv
  <2>5. DOMAIN indexes'[Primary] \subseteq DOMAIN indexes[Primary]
    BY <2>3
  <2>6. IdsNumbered'
    BY <2>2, <2>5 DEF TableInv, IdsNumbered
  <2> QED BY <2>3, <2>4, <2>6 DEF TableInv
<1>8. CASE DeleteAll
  <2>1. indexes' = NoItems /\ replica' = Empty /\ UNCHANGED <<next, reserved>>
    BY <1>8 DEF DeleteAll
  <2>2. NoItems[Primary] = Empty /\ DOMAIN Empty = {}
    BY <1>2 DEF NoItems, Empty
  <2>3. IdsNumbered'
    BY <2>1, <2>2 DEF TableInv, IdsNumbered
  <2> QED BY <2>1, <2>2, <2>3, NoItemsAgree DEF TableInv
<1>9. ASSUME NEW first \in Item, NEW second \in Item, ReplaceAllWith({first, second})
      PROVE  TableInv'
  <2> DEFINE items == {first, second}
             new == [a \in Attr |-> [k \in {item[a] : item \in items} |->
                                        {item \in items : item[a] = k}]]
  <2>1. Cardinality(items) \in Nat
    <3>1. IsFiniteSet({first}) /\ IsFiniteSet({first} \cup {second})
      BY FS_Singleton, FS_AddElement
    <3>2. items = {first} \cup {second}
      OBVIOUS
    <3> QED BY <3>1, <3>2, FS_CardinalityType
  <2>2. /\ {item[Primary] : item \in items} = next..(next + Cardinality(items) - 1)
        /\ \A item, other \in items, a \in Attr \ Multi : item[a] = other[a] => item = other
        /\ next' = next + Cardinality(items)
        /\ indexes' = new
        /\ replica' = [k \in {item[Primary] : item \in items} |->
                          {item \in items : item[Primary] = k}]
        /\ reserved' = reserved
    BY <1>9 DEF ReplaceAllWith
  <2>3. items \subseteq Item
    OBVIOUS
  <2> HIDE DEF items
  <2>4. Agreeing(new)
    BY <2>2, <2>3, ReplacedAgree
  <2>5. new[Primary] = [k \in {item[Primary] : item \in items} |->
                           {item \in items : item[Primary] = k}]
    BY <1>2
  <2> HIDE DEF new
  <2>6. DOMAIN indexes'[Primary] = next..(next' - 1)
    <3>1. DOMAIN indexes'[Primary] = {item[Primary] : item \in items}
      BY <2>2, <2>5
    <3>2. next' - 1 = next + Cardinality(items) - 1
      BY <2>1, <2>2 DEF TableInv, IdsNumbered
    <3> QED BY <2>2, <3>1, <3>2
  <2>7. IdsNumbered'
    BY <2>1, <2>2, <2>6, <1>1 DEF TableInv, IdsNumbered
  <2> QED BY <2>2, <2>4, <2>5, <2>7 DEF TableInv
<1>10. CASE UNCHANGED vars
  BY <1>10 DEF vars, TableInv, IdsNumbered
<1> QED BY <1>3, <1>4, <1>5, <1>6, <1>7, <1>8, <1>9, <1>10 DEF Next

-----------------------------------------------------------------------------
\* If callers do not make up ids, the indexes of a table with any schema hold the
\* same items, each under its own keys and no two under one unique key (see
\* checkInvariants.ts).
THEOREM TableIndexesAgree == ExplicitIds = FALSE => (Spec => []IndexesAgree)
<1> SUFFICES ASSUME ExplicitIds = FALSE PROVE Spec => []IndexesAgree
  OBVIOUS
<1>1. Spec => []TableInv
  BY InvInit, InvNext, PTL DEF Spec
<1>2. TableInv => IndexesAgree
  BY InvImplies
<1> QED BY <1>1, <1>2, PTL

\* And a listener that applies a table's events has what the table has.
THEOREM ListenerFollows == ExplicitIds = FALSE => (Spec => []ReplicaFollows)
<1> SUFFICES ASSUME ExplicitIds = FALSE PROVE Spec => []ReplicaFollows
  OBVIOUS
<1>1. Spec => []TableInv
  BY InvInit, InvNext, PTL DEF Spec
<1>2. TableInv => ReplicaFollows
  BY InvImplies
<1> QED BY <1>1, <1>2, PTL

\* A table's indexes and ids have the right types.
THEOREM TableTypeCorrect == ExplicitIds = FALSE => (Spec => []TypeOK)
<1> SUFFICES ASSUME ExplicitIds = FALSE PROVE Spec => []TypeOK
  OBVIOUS
<1>1. Spec => []TableInv
  BY InvInit, InvNext, PTL DEF Spec
<1>2. TableInv => TypeOK
  BY InvImplies
<1> QED BY <1>1, <1>2, PTL

-----------------------------------------------------------------------------
\* Tables that streams fill: the loops of StreamToTable.

Listener == Waiter \cup {Observer}
AnyEvent == Event \cup {Close}

LEMMA FeedFacts ==
    /\ Observer \notin Waiter
    /\ \A e \in Event : e # Close /\ (e.t = "item" => e.item \in Item)
    /\ \A e \in AnyEvent : e.t \in {"item", "delete", "error", "done", "restart", "close"}
    /\ Close.t = "close" /\ \A e \in AnyEvent : e.t = "close" <=> e = Close
    /\ \A e \in AnyEvent : e.t = "item" => e.item \in Item
  BY FeedAssumption DEF Event, Close, AnyEvent

\* What a round of the listeners leaves alone.
Told(d) == {x \in Stores : x.indexes = d.indexes /\ x.status = d.status
                            /\ x.listeners = d.listeners /\ x.input = d.input}

LEMMA TellTold ==
    ASSUME NEW d \in Stores, NEW x \in Told(d), NEW l \in Listener
    PROVE  /\ Tell(x, l) \in Told(d)
           /\ x.threw => Tell(x, l) = x
           /\ Tell(x, l).observed # x.observed => l = Observer
           /\ ~Tell(x, l).threw /\ l = Observer => Tell(x, l).observed = d.status
           /\ ~Tell(x, l).threw /\ x.observed = d.status => Tell(x, l).observed = d.status
           /\ d.status = "loading" => Tell(x, l).threw = x.threw
  <1> DEFINE y == Tell(x, l)
  <1>1. CASE x.threw
    BY <1>1 DEF Tell
  <1>2. CASE ~x.threw /\ l = Observer
    <2>1. y = [x EXCEPT !.observed = x.status]
      BY <1>2 DEF Tell
    <2>2. y \in Stores /\ y.indexes = x.indexes /\ y.status = x.status
          /\ y.listeners = x.listeners /\ y.input = x.input
          /\ y.observed = x.status /\ y.threw = x.threw
      BY <2>1 DEF Stores, Told
    <2> QED BY <1>2, <2>2 DEF Told
  <1>3. CASE ~x.threw /\ l # Observer
    <2>1. l \in Waiter
      BY <1>3 DEF Listener
    <2>2. \/ y = x
          \/ y = [x EXCEPT !.threw = TRUE]
          \/ y = [x EXCEPT !.waiter[l] = "resolved"]
      BY <1>3 DEF Tell
    <2> HIDE DEF y
    <2>3. y \in Stores /\ y.indexes = x.indexes /\ y.status = x.status
          /\ y.listeners = x.listeners /\ y.input = x.input /\ y.observed = x.observed
      <3>1. CASE y = x
        BY <3>1 DEF Told
      <3>2. CASE y = [x EXCEPT !.threw = TRUE]
        BY <3>2 DEF Stores, Told
      <3>3. CASE y = [x EXCEPT !.waiter[l] = "resolved"]
        <4> DEFINE w == [x.waiter EXCEPT ![l] = "resolved"]
        <4>1. x \in Stores /\ w \in [Waiter -> {"idle", "waiting", "resolved"}]
          BY <2>1 DEF Told, Stores
        <4>2. y = [x EXCEPT !.waiter = w]
          BY <3>3
        <4> HIDE DEF w
        <4> QED BY <4>1, <4>2 DEF Stores
      <3> QED BY <2>2, <3>1, <3>2, <3>3
    <2>4. d.status = "loading" => y = x
      BY <1>3 DEF Tell, Told, y
    <2> QED BY <1>3, <2>3, <2>4 DEF Told, y
  <1> QED BY <1>1, <1>2, <1>3

\* A round as the last of a row of states.
Rounds(f, d, listeners) ==
    /\ Round(d, listeners) = f[Len(listeners)]
    /\ f[0] = d
    /\ \A n \in 1..Len(listeners) : f[n] = Tell(f[n - 1], listeners[n])

LEMMA RoundUnfolds ==
    ASSUME NEW d \in Stores, NEW listeners \in Seq(Listener)
    PROVE  \E f \in [0..Len(listeners) -> Told(d)] : Rounds(f, d, listeners)
  <1> DEFINE N == Len(listeners)
             step == [p \in (1..N) \X Told(d) |-> Tell(p[2], listeners[p[1]])]
             Body(n, x) == IF n = 0 THEN d ELSE Tell(x, listeners[n])
             told == CHOOSE g : g = [n \in 0..N |-> Body(n, g[n - 1])]
  <1>1. N \in Nat /\ \A n \in 1..N : listeners[n] \in Listener
    BY LenProperties, ElementOfSeq
  <1>2. d \in Told(d)
    BY DEF Told
  <1>3. \A n \in 1..N, x \in Told(d) : Tell(x, listeners[n]) \in Told(d)
    BY <1>1, TellTold
  <1>4. /\ step \in [(1..N) \X Told(d) -> Told(d)]
        /\ \A n \in 1..N, x \in Told(d) : step[<<n, x>>] = Tell(x, listeners[n])
    <2> HIDE DEF N
    <2> QED BY <1>3
  <1>5. PICK f \in [0..N -> Told(d)] : Iterates(f, N, d, step)
    <2> HIDE DEF N, step
    <2> QED BY <1>1, <1>2, <1>4, IterationExists
  <1> HIDE DEF step
  <1>6. \A n \in 0..N : f[n] = Body(n, f[n - 1])
    <2> TAKE n \in 0..N
    <2>1. CASE n = 0
      BY <2>1, <1>5 DEF Iterates
    <2>2. CASE n # 0
      <3>1. n \in 1..N /\ n - 1 \in 0..N
        BY <2>2, <1>1
      <3>2. f[n - 1] \in Told(d)
        BY <3>1, <1>5
      <3> HIDE DEF N
      <3>3. f[n] = step[<<n, f[n - 1]>>]
        BY <3>1, <1>5 DEF Iterates
      <3> QED BY <3>1, <3>2, <3>3, <1>4, <2>2
    <2> QED BY <2>1, <2>2
  <1>7. f = [n \in 0..N |-> Body(n, f[n - 1])]
    <2> HIDE DEF Body, N
    <2> QED BY <1>5, <1>6
  <1>8. told = [n \in 0..N |-> Body(n, told[n - 1])]
    <2> HIDE DEF Body, N
    <2> QED BY <1>7
  <1>9. Round(d, listeners) = told[N]
    BY DEF Round
  <1> HIDE DEF told, N
  <1>10. told[0] = d /\ \A n \in 1..N : told[n] = Tell(told[n - 1], listeners[n])
    <2>1. told[0] = d
      BY <1>8, <1>1
    <2>2. ASSUME NEW n \in 1..N PROVE told[n] = Tell(told[n - 1], listeners[n])
      <3>1. n \in 0..N /\ n # 0
        BY <1>1
      <3>2. told[n] = Body(n, told[n - 1])
        <4> HIDE DEF Body
        <4> QED BY <1>8, <3>1
      <3> QED BY <3>1, <3>2
    <2> QED BY <2>1, <2>2
  <1> HIDE DEF Body
  <1>11. \A n \in 0..N : told[n] \in Told(d)
    <2>1. told[0] \in Told(d) /\ \A n \in 1..N : told[n - 1] \in Told(d) => told[n] \in Told(d)
      BY <1>2, <1>3, <1>10
    <2> QED BY <1>1, <2>1, StaysIn
  <1>12. told \in [0..N -> Told(d)]
    BY <1>8, <1>11
  <1> QED BY <1>9, <1>10, <1>12 DEF Rounds, N

\* Whoever is among the listeners of a round that nobody breaks off knows the status.
LEMMA RoundTells ==
    ASSUME NEW d \in Stores, NEW listeners \in Seq(Listener)
    PROVE  /\ Round(d, listeners) \in Told(d)
           /\ Round(d, listeners).observed # d.observed
                 => \E i \in 1..Len(listeners) : listeners[i] = Observer
           /\ ~Round(d, listeners).threw /\ (\E i \in 1..Len(listeners) : listeners[i] = Observer)
                 => Round(d, listeners).observed = d.status
           /\ d.status = "loading" => Round(d, listeners).threw = d.threw
  <1> DEFINE N == Len(listeners)
             Listed(n) == \E i \in 1..n : listeners[i] = Observer
  <1>1. PICK f \in [0..N -> Told(d)] : Rounds(f, d, listeners)
    BY RoundUnfolds
  <1>2. N \in Nat /\ \A n \in 1..N : listeners[n] \in Listener
    BY LenProperties, ElementOfSeq
  <1> DEFINE T == {n \in 0..N : /\ f[n].observed # d.observed => Listed(n)
                                /\ ~f[n].threw /\ Listed(n) => f[n].observed = d.status
                                /\ d.status = "loading" => f[n].threw = d.threw}
  <1> HIDE DEF N
  <1>3. 0 \in T
    BY <1>1, <1>2 DEF Rounds, N
  <1>4. ASSUME NEW n \in Nat, n < N, n \in T PROVE n + 1 \in T
    <2>1. n \in 0..N /\ n + 1 \in 1..N /\ n + 1 \in 0..N /\ (n + 1) - 1 = n
      BY <1>2, <1>4
    <2>2. f[n] \in Told(d) /\ listeners[n + 1] \in Listener /\ f[n + 1] = Tell(f[n], listeners[n + 1])
      BY <1>1, <1>2, <2>1 DEF Rounds, N
    <2>3. /\ f[n].threw => f[n + 1] = f[n]
          /\ f[n + 1].observed # f[n].observed => listeners[n + 1] = Observer
          /\ ~f[n + 1].threw /\ listeners[n + 1] = Observer => f[n + 1].observed = d.status
          /\ ~f[n + 1].threw /\ f[n].observed = d.status => f[n + 1].observed = d.status
          /\ d.status = "loading" => f[n + 1].threw = f[n].threw
      BY <2>2, TellTold
    <2>4. Listed(n + 1) <=> Listed(n) \/ listeners[n + 1] = Observer
      <3>1. \A i \in 1..n + 1 : i \in 1..n \/ i = n + 1
        BY <1>4
      <3>2. \A i \in 1..n : i \in 1..n + 1
        BY <1>4
      <3>3. n + 1 \in 1..n + 1
        BY <1>4
      <3> QED BY <3>1, <3>2, <3>3
    <2> HIDE DEF Listed
    <2>5. f[n + 1].observed # d.observed => Listed(n + 1)
      BY <1>4, <2>3, <2>4
    <2>6. ~f[n + 1].threw /\ Listed(n + 1) => f[n + 1].observed = d.status
      BY <1>4, <2>3, <2>4
    <2>7. d.status = "loading" => f[n + 1].threw = d.threw
      BY <1>4, <2>3
    <2> QED BY <2>1, <2>5, <2>6, <2>7
  <1>5. N \in T
    <2> HIDE DEF T
    <2>1. \A n \in 0..N : n \in T
      BY <1>2, <1>3, <1>4, NumbersUpTo
    <2> QED BY <1>2, <2>1
  <1>6. Round(d, listeners) = f[N] /\ f[N] \in Told(d)
    BY <1>1, <1>2 DEF Rounds, N
  <1> QED BY <1>5, <1>6 DEF N

\* setStatus() of a table that has not failed.
LEMMA SetStatusTells ==
    ASSUME NEW d \in Stores, NEW status \in Status
    PROVE  LET r == SetStatus(d, status)
           IN  /\ r \in Stores /\ r.status = status
               /\ r.indexes = d.indexes /\ r.listeners = d.listeners /\ r.input = d.input
               /\ r.observed # d.observed => \E i \in 1..Len(d.listeners) : d.listeners[i] = Observer
               /\ ~r.threw /\ (\E i \in 1..Len(d.listeners) : d.listeners[i] = Observer)
                     => r.observed = status
               /\ status = "loading" => r.threw = d.threw
  <1> DEFINE x == [d EXCEPT !.status = status]
  <1>1. /\ x \in Stores /\ x.status = status /\ d.listeners \in Seq(Listener)
        /\ x.indexes = d.indexes /\ x.listeners = d.listeners /\ x.input = d.input
        /\ x.observed = d.observed /\ x.threw = d.threw
    BY DEF Stores, Listener
  <1>2. SetStatus(d, status) = Round(x, d.listeners)
    BY DEF SetStatus
  <1> HIDE DEF x
  <1> QED BY <1>1, <1>2, RoundTells DEF Told

-----------------------------------------------------------------------------
\* One event.

\* The indexes after an event that nobody throws for.
AfterEvent(ix, e) ==
    CASE e.t = "item" -> Stored(ix, e.item)
      [] e.t = "restart" -> NoItems
      [] e.t \notin {"item", "restart"} -> ix

LEMMA IndexesTyped ==
    /\ NoItems \in Indexes
    /\ \A ix \in Indexes : Shaped(ix)
    /\ \A ix \in Indexes, item \in Item : Stored(ix, item) \in Indexes
  <1> DEFINE Index == UNION {[keys -> SUBSET Item] : keys \in SUBSET Value}
  <1>1. Empty \in Index
    <2>1. Empty \in [{} -> SUBSET Item] /\ {} \in SUBSET Value
      BY DEF Empty
    <2> QED BY <2>1
  <1>2. \A index \in Index : IsIndex(index) /\ index = [k \in DOMAIN index |-> index[k]]
    BY DEF IsIndex
  <1>3. ASSUME NEW ix \in Indexes, NEW item \in Item PROVE Stored(ix, item) \in Indexes
    <2> DEFINE items(a) == IF a \in Multi THEN Get(ix[a], item[a]) \cup {item} ELSE {item}
    <2>1. ASSUME NEW a \in Attr PROVE Set(ix[a], item[a], items(a)) \in Index
      <3>1. ix[a] \in Index /\ item[a] \in Value
        BY <1>3 DEF Indexes, Item
      <3>2. IsIndex(ix[a])
        BY <3>1, <1>2
      <3>3. items(a) \in SUBSET Item
        BY <3>2 DEF Get, IsIndex
      <3> DEFINE keys == DOMAIN ix[a] \cup {item[a]}
      <3>4. keys \in SUBSET Value
        BY <3>1, <3>2 DEF IsIndex
      <3> HIDE DEF items
      <3>5. \A x \in keys : (IF x = item[a] THEN items(a) ELSE ix[a][x]) \in SUBSET Item
        BY <3>2, <3>3 DEF IsIndex
      <3>6. Set(ix[a], item[a], items(a)) \in [keys -> SUBSET Item]
        BY <3>5 DEF Set
      <3> HIDE DEF keys
      <3> QED BY <3>4, <3>6
    <2>2. Stored(ix, item) = [a \in Attr |-> Set(ix[a], item[a], items(a))]
      BY DEF Stored
    <2> HIDE DEF items, Index
    <2>3. Stored(ix, item) \in [Attr -> Index]
      BY <2>1, <2>2
    <2> QED BY <2>3 DEF Indexes, Index
  <1> HIDE DEF Index
  <1>4. Indexes = [Attr -> Index]
    BY DEF Indexes, Index
  <1>5. NoItems \in Indexes
    BY <1>1, <1>4 DEF NoItems
  <1>6. \A ix \in Indexes : Shaped(ix)
    BY <1>2, <1>4 DEF Shaped
  <1> QED BY <1>3, <1>5, <1>6

\* The caller of listenToValueChange(), if there is one, is among the listeners, and
\* knows the status.
Knows(d) == d.observed # "nothing" => \E i \in 1..Len(d.listeners) : d.listeners[i] = Observer
KnowsStatus(d) == d.observed # "nothing" => d.observed = d.status

\* What happens to the listeners, as d becomes r.
Hears(d, r) ==
    /\ r \in Stores
    /\ r.listeners = d.listeners
    /\ Knows(d) => Knows(r)
    /\ Knows(d) /\ KnowsStatus(d) /\ ~r.threw => KnowsStatus(r)

LEMMA SetStatusHears ==
    ASSUME NEW d \in Stores, NEW status \in Status
    PROVE  LET r == SetStatus(d, status)
           IN  /\ Hears(d, r) /\ r.indexes = d.indexes /\ r.input = d.input /\ r.status = status
               /\ status = "loading" => r.threw = d.threw
  <1> DEFINE r == SetStatus(d, status)
  <1>1. /\ r \in Stores /\ r.status = status
        /\ r.indexes = d.indexes /\ r.listeners = d.listeners /\ r.input = d.input
        /\ r.observed # d.observed => \E i \in 1..Len(d.listeners) : d.listeners[i] = Observer
        /\ ~r.threw /\ (\E i \in 1..Len(d.listeners) : d.listeners[i] = Observer)
              => r.observed = status
        /\ status = "loading" => r.threw = d.threw
    BY SetStatusTells
  <1> HIDE DEF r
  <1>2. Hears(d, r)
    BY <1>1 DEF Hears, Knows, KnowsStatus
  <1> QED BY <1>1, <1>2 DEF r

LEMMA ReceiveEventDoes ==
    ASSUME NEW d \in Stores, ~d.threw, NEW e \in AnyEvent
    PROVE  LET r == ReceiveEvent(d, e)
           IN  /\ Hears(d, r) /\ r.input = d.input
               /\ ~r.threw => r.indexes = AfterEvent(d.indexes, e)
  <1> DEFINE r == ReceiveEvent(d, e)
  <1>1. /\ {"error", "done", "null"} \subseteq Status /\ Hears(d, d)
        /\ e.t \in {"item", "delete", "error", "done", "restart", "close"}
    BY FeedFacts DEF Status, Hears
  <1>2. CASE e.t = "item"
    <2>1. r = [d EXCEPT !.indexes = Stored(@, e.item)]
      BY <1>2 DEF ReceiveEvent
    <2>2. d.indexes \in Indexes /\ e.item \in Item
      BY <1>2, FeedFacts DEF Stores
    <2>3. Stored(d.indexes, e.item) \in Indexes
      BY <2>2, IndexesTyped
    <2>4. /\ r \in Stores /\ r.indexes = Stored(d.indexes, e.item) /\ r.input = d.input
          /\ r.listeners = d.listeners /\ r.observed = d.observed /\ r.status = d.status
      BY <2>1, <2>3 DEF Stores
    <2> HIDE DEF r
    <2>5. Hears(d, r)
      BY <2>4 DEF Hears, Knows, KnowsStatus
    <2>6. AfterEvent(d.indexes, e) = Stored(d.indexes, e.item)
      BY <1>2 DEF AfterEvent
    <2> QED BY <2>4, <2>5, <2>6 DEF r
  <1>3. CASE e.t = "delete"
    <2>1. r = [d EXCEPT !.threw = TRUE]
      BY <1>3 DEF ReceiveEvent
    <2>2. /\ r \in Stores /\ r.input = d.input /\ r.threw
          /\ r.listeners = d.listeners /\ r.observed = d.observed
      BY <2>1 DEF Stores
    <2> HIDE DEF r
    <2>3. Hears(d, r)
      BY <2>2 DEF Hears, Knows
    <2> QED BY <2>2, <2>3 DEF r
  <1>4. CASE e.t \in {"error", "done", "close"}
    <2>1. \/ r = d
          \/ e.t \in {"error", "done"} /\ r = SetStatus(d, e.t)
          \/ r = SetStatus(d, "error")
      BY <1>4 DEF ReceiveEvent, Ended
    <2>2. AfterEvent(d.indexes, e) = d.indexes
      BY <1>4 DEF AfterEvent
    <2> HIDE DEF r
    <2>3. Hears(d, r) /\ r.indexes = d.indexes /\ r.input = d.input
      BY <1>1, <2>1, SetStatusHears
    <2> QED BY <2>2, <2>3 DEF r
  <1>5. CASE e.t = "restart"
    <2> DEFINE x == [d EXCEPT !.indexes = NoItems]
    <2>1. r = SetStatus(x, "null")
      BY <1>5 DEF ReceiveEvent, Restarted
    <2>2. /\ x \in Stores /\ x.input = d.input /\ x.indexes = NoItems
          /\ x.listeners = d.listeners /\ x.observed = d.observed /\ x.status = d.status
      BY IndexesTyped DEF Stores
    <2> HIDE DEF x, r
    <2>3. Hears(x, r) /\ r.indexes = NoItems /\ r.input = d.input
      BY <1>1, <2>1, <2>2, SetStatusHears
    <2>4. Hears(d, r)
      BY <2>2, <2>3 DEF Hears, Knows, KnowsStatus
    <2>5. AfterEvent(d.indexes, e) = NoItems
      BY <1>5 DEF AfterEvent
    <2> QED BY <2>3, <2>4, <2>5 DEF r
  <1> QED BY <1>1, <1>2, <1>3, <1>4, <1>5

\* A stream that has handed d an event, but for its flags.
Passes(d, r, k) ==
    /\ Hears(d, r)
    /\ \A j \in Input \ {k} : r.input[j] = d.input[j]
    /\ r.input[k].hasBacklog = d.input[k].hasBacklog
    /\ r.input[k].backlog = d.input[k].backlog

LEMMA TableReceivesDoes ==
    ASSUME NEW d \in Stores, ~d.threw, NEW k \in Input, NEW e \in AnyEvent
    PROVE  LET r == TableReceives(d, k, e)
           IN  /\ Passes(d, r, k)
               /\ ~r.threw => r.indexes = AfterEvent(d.indexes, e)
  <1> DEFINE x == ReceiveEvent(d, e)
             r == TableReceives(d, k, e)
             s == [x.input[k] EXCEPT !.down = TRUE, !.attached = FALSE]
  <1>1. /\ Hears(d, x) /\ x.input = d.input
        /\ ~x.threw => x.indexes = AfterEvent(d.indexes, e)
    BY ReceiveEventDoes
  <1>2. r = x \/ r = [x EXCEPT !.input[k] = s]
    BY DEF TableReceives, AfterUpdate
  <1> HIDE DEF x, r
  <1>3. CASE r = x
    <2>1. Passes(d, r, k)
      BY <1>1, <1>3 DEF Passes
    <2> QED BY <1>1, <1>3, <2>1 DEF r
  <1>4. CASE r = [x EXCEPT !.input[k] = s]
    <2>1. x \in Stores
      BY <1>1 DEF Hears
    <2>2. s \in Streams /\ s.hasBacklog = x.input[k].hasBacklog /\ s.backlog = x.input[k].backlog
      <3>1. x.input[k] \in Streams
        BY <2>1 DEF Stores
      <3> QED BY <3>1 DEF Streams
    <2> HIDE DEF s
    <2> DEFINE i == [x.input EXCEPT ![k] = s]
    <2>3. i \in [Input -> Streams] /\ i[k] = s /\ \A j \in Input \ {k} : i[j] = x.input[j]
      BY <2>1, <2>2 DEF Stores
    <2>4. r = [x EXCEPT !.input = i]
      BY <1>4
    <2> HIDE DEF i
    <2>5. /\ r \in Stores /\ r.input = i /\ r.indexes = x.indexes /\ r.threw = x.threw
          /\ r.listeners = x.listeners /\ r.observed = x.observed /\ r.status = x.status
      BY <2>1, <2>3, <2>4 DEF Stores
    <2>6. Hears(d, r)
      BY <1>1, <2>5 DEF Hears, Knows, KnowsStatus
    <2>7. Passes(d, r, k)
      BY <1>1, <2>2, <2>3, <2>5, <2>6 DEF Passes
    <2> QED BY <1>1, <2>5, <2>7 DEF r
  <1> QED BY <1>2, <1>3, <1>4

\* The items among the first n events that were put since the last restart.
CurrentUpTo(events, n) ==
    {i \in 1..n : events[i].t = "item" /\ \A j \in i..n : events[j].t # "restart"}

\* What the first n events leave in a table that was empty, if no two of their items
\* share a unique key.
Holds(events, n, ix) ==
    (\A i, j \in CurrentUpTo(events, n), a \in Attr \ Multi :
        events[i].item[a] = events[j].item[a] => i = j)
    => /\ Agreeing(ix)
       /\ ItemsOf(ix[Primary]) = {events[i].item : i \in CurrentUpTo(events, n)}

LEMMA HoldsFirst == \A events : Holds(events, 0, NoItems)
  <1> TAKE events
  <1>1. CurrentUpTo(events, 0) = {}
    BY DEF CurrentUpTo
  <1>2. ItemsOf(NoItems[Primary]) = {}
    BY SchemaAssumption DEF NoItems, Empty, ItemsOf
  <1> QED BY <1>1, <1>2, NoItemsAgree DEF Holds

LEMMA HoldsNext ==
    ASSUME NEW events \in Seq(AnyEvent), NEW n \in Nat, n + 1 \in 1..Len(events),
           NEW ix, Holds(events, n, ix)
    PROVE  Holds(events, n + 1, AfterEvent(ix, events[n + 1]))
  <1> DEFINE e == events[n + 1]
             old == CurrentUpTo(events, n)
             new == CurrentUpTo(events, n + 1)
  <1>1. e \in AnyEvent
    BY ElementOfSeq
  <1>2. /\ \A i \in 1..n + 1 : i \in 1..n \/ i = n + 1
        /\ \A i \in 1..n : i \in 1..n + 1 /\ i # n + 1
        /\ n + 1 \in 1..n + 1
    OBVIOUS
  <1>3. \A i \in 1..n : i..(n + 1) = (i..n) \cup {n + 1}
    OBVIOUS
  <1>4. (n + 1)..(n + 1) = {n + 1}
    OBVIOUS
  <1>5. CASE e.t = "restart"
    <2>1. new = {}
      <3>1. \A i \in 1..n + 1 : n + 1 \in i..(n + 1)
        OBVIOUS
      <3> QED BY <1>5, <3>1 DEF CurrentUpTo
    <2>2. ItemsOf(NoItems[Primary]) = {}
      BY SchemaAssumption DEF NoItems, Empty, ItemsOf
    <2>3. AfterEvent(ix, e) = NoItems
      BY <1>5 DEF AfterEvent
    <2> QED BY <2>1, <2>2, <2>3, NoItemsAgree DEF Holds
  <1>6. CASE e.t \notin {"item", "restart"}
    <2>1. new = old
      <3>1. \A i \in new : i \in 1..n
        BY <1>2, <1>6 DEF CurrentUpTo
      <3>2. \A i \in 1..n : (\A j \in i..n : events[j].t # "restart")
                               <=> (\A j \in i..(n + 1) : events[j].t # "restart")
        BY <1>3, <1>6
      <3> QED BY <1>2, <3>1, <3>2 DEF CurrentUpTo
    <2>2. AfterEvent(ix, e) = ix
      BY <1>6 DEF AfterEvent
    <2> QED BY <2>1, <2>2 DEF Holds
  <1>7. CASE e.t = "item"
    <2>1. new = old \cup {n + 1}
      <3>1. \A i \in 1..n : (\A j \in i..n : events[j].t # "restart")
                               <=> (\A j \in i..(n + 1) : events[j].t # "restart")
        BY <1>3, <1>7
      <3>2. \A i \in 1..n : i \in new <=> i \in old
        BY <1>2, <3>1 DEF CurrentUpTo
      <3>3. n + 1 \in new
        BY <1>2, <1>4, <1>7 DEF CurrentUpTo
      <3>4. \A i \in new : i \in 1..n \/ i = n + 1
        BY <1>2 DEF CurrentUpTo
      <3>5. \A i \in old : i \in 1..n
        BY DEF CurrentUpTo
      <3> HIDE DEF old, new
      <3> QED BY <3>2, <3>3, <3>4, <3>5
    <2>2. AfterEvent(ix, e) = Stored(ix, e.item) /\ e.item \in Item
      BY <1>1, <1>7, FeedFacts DEF AfterEvent
    <2>3. \A i \in old : i \in 1..n
      BY DEF CurrentUpTo
    <2> HIDE DEF old, new
    <2> SUFFICES ASSUME \A i, j \in new, a \in Attr \ Multi :
                           events[i].item[a] = events[j].item[a] => i = j
                 PROVE  /\ Agreeing(Stored(ix, e.item))
                        /\ ItemsOf(Stored(ix, e.item)[Primary]) = {events[i].item : i \in new}
      BY <2>2 DEF Holds, new
    <2>4. Agreeing(ix) /\ ItemsOf(ix[Primary]) = {events[i].item : i \in old}
      BY <2>1 DEF Holds, old
    <2>5. ASSUME NEW a \in Attr \ Multi PROVE e.item[a] \notin DOMAIN ix[a]
      <3> SUFFICES ASSUME e.item[a] \in DOMAIN ix[a] PROVE FALSE
        OBVIOUS
      <3>1. PICK item \in Item : ix[a][e.item[a]] = {item}
        BY <2>4 DEF Agreeing, Single
      <3>2. item[a] = e.item[a]
        BY <2>4, <3>1 DEF Agreeing, Keyed
      <3>3. item \in ItemsOf(ix[Primary])
        <4>1. item \in ItemsOf(ix[a])
          BY <3>1, ItemsOfMember
        <4> QED BY <2>4, <4>1 DEF Agreeing, Same
      <3>4. PICK i \in old : events[i].item = item
        BY <2>4, <3>3
      <3>5. i \in new /\ n + 1 \in new /\ i # n + 1
        BY <1>2, <2>1, <2>3
      <3> QED BY <3>2, <3>4, <3>5 DEF e
    <2>6. /\ Agreeing(Stored(ix, e.item))
          /\ Stored(ix, e.item)[Primary] = Set(ix[Primary], e.item[Primary], {e.item})
      BY <2>2, <2>4, <2>5, StoredAgrees
    <2>7. e.item[Primary] \notin DOMAIN ix[Primary]
      BY <2>5, SchemaAssumption
    <2>8. ItemsOf(Set(ix[Primary], e.item[Primary], {e.item})) = ItemsOf(ix[Primary]) \cup {e.item}
      <3> DEFINE index == Set(ix[Primary], e.item[Primary], {e.item})
      <3>1. /\ DOMAIN index = DOMAIN ix[Primary] \cup {e.item[Primary]}
            /\ index[e.item[Primary]] = {e.item}
            /\ \A k \in DOMAIN ix[Primary] : index[k] = ix[Primary][k]
        BY <2>7 DEF Set
      <3> HIDE DEF index, e
      <3>2. \A item : item \in ItemsOf(index) <=> item \in ItemsOf(ix[Primary]) \/ item = e.item
        <4> TAKE item
        <4>1. /\ item \in ItemsOf(index) <=> \E k \in DOMAIN index : item \in index[k]
              /\ item \in ItemsOf(ix[Primary]) <=> \E k \in DOMAIN ix[Primary] : item \in ix[Primary][k]
          BY ItemsOfMember
        <4> QED BY <2>7, <3>1, <4>1
      <3> QED BY <3>2 DEF index
    <2>9. {events[i].item : i \in new} = {events[i].item : i \in old} \cup {e.item}
      BY <2>1 DEF e
    <2> QED BY <2>4, <2>6, <2>8, <2>9
  <1> QED BY <1>1, <1>5, <1>6, <1>7

\* The events beyond the first n do not matter.
LEMMA HoldsAlso ==
    ASSUME NEW events, NEW other, NEW n \in Nat, \A i \in 1..n : events[i] = other[i], NEW ix,
           Holds(events, n, ix)
    PROVE  Holds(other, n, ix)
  <1>1. \A i \in 1..n : \A j \in i..n : j \in 1..n
    OBVIOUS
  <1>2. CurrentUpTo(events, n) = CurrentUpTo(other, n)
    BY <1>1 DEF CurrentUpTo
  <1>3. \A i \in CurrentUpTo(other, n) : events[i].item = other[i].item
    BY DEF CurrentUpTo
  <1> QED BY <1>2, <1>3 DEF Holds

-----------------------------------------------------------------------------
\* The backlog.

LEMMA PassesOn ==
    ASSUME NEW d, NEW x, NEW y, NEW k \in Input, Passes(d, x, k), Passes(x, y, k), x.threw => y = x
    PROVE  Passes(d, y, k)
  <1>1. Hears(d, y)
    BY DEF Passes, Hears
  <1> QED BY <1>1 DEF Passes

LEMMA HandOverDoes ==
    ASSUME NEW d \in Stores, NEW k \in Input, NEW e \in AnyEvent
    PROVE  LET r == HandOver(d, k, e)
           IN  /\ Passes(d, r, k)
               /\ d.threw => r = d
               /\ ~r.threw => r.indexes = AfterEvent(d.indexes, e)
  <1> DEFINE r == HandOver(d, k, e)
  <1>1. CASE d.threw
    BY <1>1 DEF HandOver, Passes, Hears
  <1>2. CASE ~d.threw /\ ~d.input[k].attached
    <2>1. r = [d EXCEPT !.threw = TRUE]
      BY <1>2 DEF HandOver
    <2>2. /\ r \in Stores /\ r.input = d.input /\ r.threw
          /\ r.listeners = d.listeners /\ r.observed = d.observed
      BY <2>1 DEF Stores
    <2> HIDE DEF r
    <2>3. Passes(d, r, k)
      BY <2>2 DEF Passes, Hears, Knows
    <2> QED BY <1>2, <2>2, <2>3 DEF r
  <1>3. CASE ~d.threw /\ d.input[k].attached
    <2>1. r = TableReceives(d, k, e)
      BY <1>3 DEF HandOver
    <2> QED BY <1>3, <2>1, TableReceivesDoes
  <1> QED BY <1>1, <1>2, <1>3

\* The flush of a backlog as the last of a row of states.
Flushes(f, d, k, events) ==
    /\ Flushed(d, k, events) = f[Len(events)]
    /\ f[0] = d
    /\ \A n \in 1..Len(events) : f[n] = HandOver(f[n - 1], k, events[n])

LEMMA FlushedUnfolds ==
    ASSUME NEW d \in Stores, NEW k \in Input, NEW events \in Seq(AnyEvent)
    PROVE  \E f \in [0..Len(events) -> Stores] : Flushes(f, d, k, events)
  <1> DEFINE N == Len(events)
             step == [p \in (1..N) \X Stores |-> HandOver(p[2], k, events[p[1]])]
             Body(n, x) == IF n = 0 THEN d ELSE HandOver(x, k, events[n])
             handed == CHOOSE g : g = [n \in 0..N |-> Body(n, g[n - 1])]
  <1>1. N \in Nat /\ \A n \in 1..N : events[n] \in AnyEvent
    BY LenProperties, ElementOfSeq
  <1>2. \A n \in 1..N, x \in Stores : HandOver(x, k, events[n]) \in Stores
    BY <1>1, HandOverDoes DEF Passes, Hears
  <1>3. /\ step \in [(1..N) \X Stores -> Stores]
        /\ \A n \in 1..N, x \in Stores : step[<<n, x>>] = HandOver(x, k, events[n])
    <2> HIDE DEF N
    <2> QED BY <1>2
  <1>4. PICK f \in [0..N -> Stores] : Iterates(f, N, d, step)
    <2> HIDE DEF N, step
    <2> QED BY <1>1, <1>3, IterationExists
  <1> HIDE DEF step
  <1>5. \A n \in 0..N : f[n] = Body(n, f[n - 1])
    <2> TAKE n \in 0..N
    <2>1. CASE n = 0
      BY <2>1, <1>4 DEF Iterates
    <2>2. CASE n # 0
      <3>1. n \in 1..N /\ n - 1 \in 0..N
        BY <2>2, <1>1
      <3>2. f[n - 1] \in Stores
        BY <3>1, <1>4
      <3> HIDE DEF N
      <3>3. f[n] = step[<<n, f[n - 1]>>]
        BY <3>1, <1>4 DEF Iterates
      <3> QED BY <3>1, <3>2, <3>3, <1>3, <2>2
    <2> QED BY <2>1, <2>2
  <1>6. f = [n \in 0..N |-> Body(n, f[n - 1])]
    <2> HIDE DEF Body, N
    <2> QED BY <1>4, <1>5
  <1>7. handed = [n \in 0..N |-> Body(n, handed[n - 1])]
    <2> HIDE DEF Body, N
    <2> QED BY <1>6
  <1>8. Flushed(d, k, events) = handed[N]
    BY DEF Flushed
  <1> HIDE DEF handed, N
  <1>9. handed[0] = d /\ \A n \in 1..N : handed[n] = HandOver(handed[n - 1], k, events[n])
    <2>1. handed[0] = d
      BY <1>7, <1>1
    <2>2. ASSUME NEW n \in 1..N PROVE handed[n] = HandOver(handed[n - 1], k, events[n])
      <3>1. n \in 0..N /\ n # 0
        BY <1>1
      <3>2. handed[n] = Body(n, handed[n - 1])
        <4> HIDE DEF Body
        <4> QED BY <1>7, <3>1
      <3> QED BY <3>1, <3>2
    <2> QED BY <2>1, <2>2
  <1> HIDE DEF Body
  <1>10. \A n \in 0..N : handed[n] \in Stores
    <2>1. handed[0] \in Stores /\ \A n \in 1..N : handed[n - 1] \in Stores => handed[n] \in Stores
      BY <1>2, <1>9
    <2> QED BY <1>1, <2>1, StaysIn
  <1>11. handed \in [0..N -> Stores]
    BY <1>7, <1>10
  <1> QED BY <1>8, <1>9, <1>11 DEF Flushes, N

\* A table that was empty holds what the backlog puts into it.
LEMMA FlushedDoes ==
    ASSUME NEW d \in Stores, NEW k \in Input, NEW events \in Seq(AnyEvent)
    PROVE  LET r == Flushed(d, k, events)
           IN  /\ Passes(d, r, k)
               /\ d.threw => r.threw
               /\ ~r.threw /\ d.indexes = NoItems => Holds(events, Len(events), r.indexes)
  <1> DEFINE N == Len(events)
  <1>1. PICK f \in [0..N -> Stores] : Flushes(f, d, k, events)
    BY FlushedUnfolds
  <1>2. N \in Nat /\ \A n \in 1..N : events[n] \in AnyEvent
    BY LenProperties, ElementOfSeq
  <1> DEFINE T == {n \in 0..N : /\ Passes(d, f[n], k)
                                /\ d.threw => f[n].threw
                                /\ ~f[n].threw /\ d.indexes = NoItems => Holds(events, n, f[n].indexes)}
  <1> HIDE DEF N
  <1>3. 0 \in T
    <2>1. 0 \in 0..N /\ f[0] = d /\ Passes(d, d, k)
      BY <1>1, <1>2 DEF Flushes, Passes, Hears
    <2> QED BY <2>1, HoldsFirst
  <1>4. ASSUME NEW n \in Nat, n < N, n \in T PROVE n + 1 \in T
    <2>1. n \in 0..N /\ n + 1 \in 1..N /\ n + 1 \in 0..N /\ (n + 1) - 1 = n
      BY <1>2, <1>4
    <2>2. f[n] \in Stores /\ events[n + 1] \in AnyEvent /\ f[n + 1] = HandOver(f[n], k, events[n + 1])
      BY <1>1, <1>2, <2>1 DEF Flushes, N
    <2>3. /\ Passes(f[n], f[n + 1], k)
          /\ f[n].threw => f[n + 1] = f[n]
          /\ ~f[n + 1].threw => f[n + 1].indexes = AfterEvent(f[n].indexes, events[n + 1])
      BY <2>2, HandOverDoes
    <2>4. Passes(d, f[n + 1], k)
      BY <1>4, <2>3, PassesOn
    <2>5. ASSUME ~f[n + 1].threw, d.indexes = NoItems PROVE Holds(events, n + 1, f[n + 1].indexes)
      <3>1. ~f[n].threw
        BY <2>3, <2>5
      <3>2. Holds(events, n, f[n].indexes)
        BY <1>4, <2>5, <3>1
      <3>3. n + 1 \in 1..Len(events)
        BY <2>1 DEF N
      <3>4. Holds(events, n + 1, AfterEvent(f[n].indexes, events[n + 1]))
        BY <1>4, <3>2, <3>3, HoldsNext
      <3> QED BY <2>3, <2>5, <3>4
    <2>6. d.threw => f[n + 1].threw
      BY <1>4, <2>3
    <2> QED BY <2>1, <2>4, <2>5, <2>6
  <1>5. N \in T
    <2> HIDE DEF T
    <2>1. \A n \in 0..N : n \in T
      BY <1>2, <1>3, <1>4, NumbersUpTo
    <2> QED BY <1>2, <2>1
  <1>6. Flushed(d, k, events) = f[N]
    BY <1>1 DEF Flushes, N
  <1> QED BY <1>5, <1>6 DEF N

\* What is true of d and of its stream k after sendTo(): it has no backlog any more.
LEMMA SendToDoes ==
    ASSUME NEW d \in Stores, NEW k \in Input
    PROVE  LET r == SendTo(d, k)
               events == d.input[k].backlog
           IN  /\ Hears(d, r)
               /\ \A j \in Input \ {k} : r.input[j] = d.input[j]
               /\ ~r.input[k].hasBacklog /\ r.input[k].backlog = <<>>
               /\ d.threw => r.threw
               /\ ~r.threw /\ d.indexes = NoItems => Holds(events, Len(events), r.indexes)
  <1> DEFINE s == [d.input[k] EXCEPT !.attached = TRUE, !.hasBacklog = FALSE, !.backlog = <<>>]
             i == [d.input EXCEPT ![k] = s]
             x == [d EXCEPT !.input = i]
             events == d.input[k].backlog
             r == SendTo(d, k)
  <1>1. d.input[k] \in Streams
    BY DEF Stores
  <1>2. events \in Seq(AnyEvent)
    BY <1>1 DEF Streams, AnyEvent
  <1>3. s \in Streams /\ ~s.hasBacklog /\ s.backlog = <<>>
    BY <1>1, EmptySeq DEF Streams
  <1>4. r = Flushed(x, k, events)
    BY DEF SendTo
  <1> HIDE DEF s
  <1>5. i \in [Input -> Streams] /\ i[k] = s /\ \A j \in Input \ {k} : i[j] = d.input[j]
    BY <1>3 DEF Stores
  <1> HIDE DEF i
  <1>6. /\ x \in Stores /\ x.input = i /\ x.indexes = d.indexes /\ x.threw = d.threw
        /\ x.listeners = d.listeners /\ x.observed = d.observed /\ x.status = d.status
    BY <1>5 DEF Stores
  <1> HIDE DEF x, r, events
  <1>7. /\ Passes(x, r, k)
        /\ x.threw => r.threw
        /\ ~r.threw /\ x.indexes = NoItems => Holds(events, Len(events), r.indexes)
    BY <1>2, <1>4, <1>6, FlushedDoes
  <1>8. Hears(d, r)
    BY <1>6, <1>7 DEF Passes, Hears, Knows, KnowsStatus
  <1> QED BY <1>3, <1>5, <1>6, <1>7, <1>8 DEF Passes, r, events

\* receive() by a stream that a table listens to.
LEMMA ReceiveAttached ==
    ASSUME NEW d \in Stores, ~d.threw, NEW k \in Input, d.input[k].attached, NEW e \in AnyEvent
    PROVE  LET r == Receive(d, k, e)
           IN  /\ Passes(d, r, k)
               /\ ~r.threw => r.indexes = AfterEvent(d.indexes, e)
  <1> DEFINE s == [d.input[k] EXCEPT !.up = (e = Close)]
             i == [d.input EXCEPT ![k] = s]
             x == [d EXCEPT !.input = i]
             y == TableReceives(x, k, e)
             s2 == [y.input[k] EXCEPT !.attached = FALSE]
             i2 == [y.input EXCEPT ![k] = s2]
             z == [y EXCEPT !.input = i2]
             r == Receive(d, k, e)
  <1>1. r = y \/ r = z
    BY DEF Receive, Detached
  <1>2. s \in Streams /\ s.hasBacklog = d.input[k].hasBacklog /\ s.backlog = d.input[k].backlog
    <2>1. d.input[k] \in Streams
      BY DEF Stores
    <2> QED BY <2>1 DEF Streams
  <1> HIDE DEF s
  <1>3. i \in [Input -> Streams] /\ i[k] = s /\ \A j \in Input \ {k} : i[j] = d.input[j]
    BY <1>2 DEF Stores
  <1> HIDE DEF i
  <1>4. /\ x \in Stores /\ x.input = i /\ x.indexes = d.indexes /\ x.threw = d.threw
        /\ x.listeners = d.listeners /\ x.observed = d.observed /\ x.status = d.status
    BY <1>3 DEF Stores
  <1> HIDE DEF x
  <1>5. /\ Passes(x, y, k)
        /\ ~y.threw => y.indexes = AfterEvent(x.indexes, e)
    BY <1>4, TableReceivesDoes
  <1> HIDE DEF y
  <1>6. /\ Passes(d, y, k) /\ y \in Stores
        /\ ~y.threw => y.indexes = AfterEvent(d.indexes, e)
    <2>1. Hears(d, y)
      BY <1>4, <1>5 DEF Passes, Hears, Knows, KnowsStatus
    <2> QED BY <1>2, <1>3, <1>4, <1>5, <2>1 DEF Passes, Hears
  <1>7. s2 \in Streams /\ s2.hasBacklog = y.input[k].hasBacklog /\ s2.backlog = y.input[k].backlog
    <2>1. y.input[k] \in Streams
      BY <1>6 DEF Stores
    <2> QED BY <2>1 DEF Streams
  <1> HIDE DEF s2
  <1>8. i2 \in [Input -> Streams] /\ i2[k] = s2 /\ \A j \in Input \ {k} : i2[j] = y.input[j]
    BY <1>6, <1>7 DEF Stores
  <1> HIDE DEF i2
  <1>9. /\ z \in Stores /\ z.input = i2 /\ z.indexes = y.indexes /\ z.threw = y.threw
        /\ z.listeners = y.listeners /\ z.observed = y.observed /\ z.status = y.status
    BY <1>6, <1>8 DEF Stores
  <1> HIDE DEF z
  <1>10. Passes(d, z, k)
    <2>1. Hears(d, z)
      BY <1>6, <1>9 DEF Passes, Hears, Knows, KnowsStatus
    <2> QED BY <1>6, <1>7, <1>8, <1>9, <2>1 DEF Passes
  <1> HIDE DEF r
  <1>11. /\ Passes(d, r, k)
         /\ ~r.threw => r.indexes = AfterEvent(d.indexes, e)
    BY <1>1, <1>6, <1>9, <1>10
  <1> QED BY <1>11 DEF r

-----------------------------------------------------------------------------
\* The inductive invariant of tables that streams fill.

\* The one stream whose items are in the table.
Fills(k) ==
    /\ ~t.input[k].hasBacklog
    /\ \A other \in Input \ {k} : t.input[other].hasBacklog
    /\ producer[k] = "puts" /\ ~listenFailed

FeedInv ==
    /\ FeedTypeOK
    /\ Knows(t)
    /\ Failed \/ KnowsStatus(t)
    /\ (\A k \in Input : t.input[k].hasBacklog) => t.indexes = NoItems
    /\ \A k \in Input : Fills(k) => Holds(put[k], Len(put[k]), t.indexes)

LEMMA FeedInvInit == FeedInit => FeedInv
  <1> SUFFICES ASSUME FeedInit PROVE FeedInv
    OBVIOUS
  <1>1. /\ t.indexes = NoItems /\ t.status = "none" /\ t.listeners = <<>> /\ ~t.threw
        /\ t.waiter = [w \in Waiter |-> "idle"] /\ t.observed = "nothing"
        /\ t.input = [k \in Input |-> NewStream]
    BY DEF FeedInit
  <1>2. NewStream \in Streams
    BY EmptySeq DEF NewStream, Streams
  <1>3. t \in Stores
    <2>1. t = [indexes |-> t.indexes, status |-> t.status, listeners |-> t.listeners,
               waiter |-> t.waiter, observed |-> t.observed, input |-> t.input, threw |-> t.threw]
      BY DEF FeedInit
    <2>2. t.listeners \in Seq(Waiter \cup {Observer})
      BY <1>1, EmptySeq
    <2>3. t.input \in [Input -> Streams] /\ t.waiter \in [Waiter -> {"idle", "waiting", "resolved"}]
      BY <1>1, <1>2
    <2>4. t.indexes \in Indexes /\ t.status \in Status /\ t.observed \in Status \cup {"nothing"}
          /\ t.threw \in BOOLEAN
      BY <1>1, IndexesTyped DEF Status, FeedInit
    <2> QED BY <2>1, <2>2, <2>3, <2>4 DEF Stores
  <1>4. put \in [Input -> Seq(AnyEvent)] /\ \A k \in Input : put[k] = <<>>
    BY EmptySeq DEF FeedInit
  <1>5. \A k \in Input : t.input[k].hasBacklog /\ ~t.input[k].attached /\ ~t.input[k].down
                            /\ t.input[k].backlog = <<>>
    BY <1>1 DEF NewStream
  <1>6. producer \in [Input -> {"puts", "stop", "failed"}] /\ listenFailed \in BOOLEAN
    BY DEF FeedInit
  <1>7. FeedTypeOK
    BY <1>1, <1>3, <1>4, <1>5, <1>6 DEF FeedTypeOK, AnyEvent
  <1>8. Knows(t) /\ KnowsStatus(t)
    BY <1>1 DEF Knows, KnowsStatus
  <1>9. \A k \in Input : ~Fills(k)
    BY <1>5 DEF Fills
  <1> QED BY <1>1, <1>7, <1>8, <1>9 DEF FeedInv

\* The end of a call, whose exception is remembered as a failure.
Ends(d) == [d EXCEPT !.threw = FALSE]

LEMMA EndsAs ==
    ASSUME NEW d \in Stores
    PROVE  /\ Ends(d) \in Stores /\ ~Ends(d).threw
           /\ Ends(d).indexes = d.indexes /\ Ends(d).input = d.input
           /\ Ends(d).listeners = d.listeners
           /\ Ends(d).observed = d.observed /\ Ends(d).status = d.status
  BY DEF Stores, Ends

LEMMA HeardOf ==
    ASSUME FeedInv, NEW d, Hears(t, d), t' = Ends(d), Failed => Failed', d.threw => Failed'
    PROVE  Knows(t)' /\ (Failed \/ KnowsStatus(t))'
  <1>1. /\ t'.listeners = d.listeners /\ t'.observed = d.observed /\ t'.status = d.status
        /\ Knows(t) /\ (Failed \/ KnowsStatus(t))
    BY EndsAs DEF Hears, FeedInv
  <1>2. Knows(d) /\ (Failed' \/ KnowsStatus(d))
    BY <1>1 DEF Hears
  <1> QED BY <1>1, <1>2 DEF Knows, KnowsStatus

LEMMA ListenToStreamKeeps ==
    ASSUME FeedInv, NEW k \in Input, NEW stopsOnDone \in BOOLEAN, ListenToStream(k, stopsOnDone)
    PROVE  FeedInv'
  <1> DEFINE u == SetStatus(t, "loading")
             s == [u.input[k] EXCEPT !.stopsOnDone = stopsOnDone]
             i == [u.input EXCEPT ![k] = s]
             x == [u EXCEPT !.input = i]
             d == SendTo(x, k)
  <1>1. /\ t.input[k].hasBacklog
        /\ t' = Ends(d) /\ listenFailed' = (listenFailed \/ d.threw)
        /\ producer' = producer /\ put' = put
    BY DEF ListenToStream, Ends
  <1>2. t \in Stores /\ ~t.threw
    BY DEF FeedInv, FeedTypeOK
  <1>3. Hears(t, u) /\ u.indexes = t.indexes /\ u.input = t.input
    BY <1>2, SetStatusHears DEF Status
  <1> HIDE DEF u
  <1>4. u \in Stores
    BY <1>3 DEF Hears
  <1>5. s \in Streams /\ s.backlog = t.input[k].backlog
    <2>1. u.input[k] \in Streams
      BY <1>4 DEF Stores
    <2> QED BY <1>3, <2>1 DEF Streams
  <1> HIDE DEF s
  <1>6. i \in [Input -> Streams] /\ i[k] = s /\ \A j \in Input \ {k} : i[j] = t.input[j]
    BY <1>3, <1>4, <1>5 DEF Stores
  <1> HIDE DEF i
  <1>7. /\ x \in Stores /\ x.input = i /\ x.indexes = t.indexes /\ x.threw = u.threw
        /\ x.listeners = u.listeners /\ x.observed = u.observed /\ x.status = u.status
    BY <1>3, <1>4, <1>6 DEF Stores
  <1> HIDE DEF x
  <1>8. /\ Hears(x, d)
        /\ \A j \in Input \ {k} : d.input[j] = x.input[j]
        /\ ~d.input[k].hasBacklog /\ d.input[k].backlog = <<>>
        /\ x.threw => d.threw
        /\ ~d.threw /\ x.indexes = NoItems =>
              Holds(x.input[k].backlog, Len(x.input[k].backlog), d.indexes)
    BY <1>7, SendToDoes
  <1> HIDE DEF d
  <1>9. Hears(t, d)
    BY <1>3, <1>7, <1>8 DEF Hears, Knows, KnowsStatus
  <1>10. /\ t' \in Stores /\ ~t'.threw /\ t'.indexes = d.indexes /\ t'.input = d.input
    BY <1>1, <1>9, EndsAs DEF Hears
  <1>11. Failed => Failed'
    BY <1>1 DEF Failed
  <1>12. d.threw => Failed'
    BY <1>1 DEF Failed
  <1>13. Knows(t)' /\ (Failed \/ KnowsStatus(t))'
    BY <1>1, <1>9, <1>11, <1>12, HeardOf
  <1>14. \A j \in Input \ {k} : t'.input[j] = t.input[j]
    BY <1>6, <1>7, <1>8, <1>10
  <1>15. ~t'.input[k].hasBacklog /\ t'.input[k].backlog = <<>>
    BY <1>8, <1>10
  <1>16. FeedTypeOK'
    <2>1. listenFailed' \in BOOLEAN
      BY <1>1
    <2>2. ASSUME NEW j \in Input
          PROVE  IF t'.input[j].hasBacklog
                 THEN /\ ~t'.input[j].attached /\ ~t'.input[j].down
                      /\ t'.input[j].backlog = put'[j]
                 ELSE t'.input[j].backlog = <<>>
      <3>1. CASE j = k
        BY <1>15, <3>1
      <3>2. CASE j # k
        BY <1>1, <1>14, <3>2 DEF FeedInv, FeedTypeOK
      <3> QED BY <3>1, <3>2
    <2> QED BY <1>1, <1>10, <2>1, <2>2 DEF FeedInv, FeedTypeOK
  <1>17. (\A j \in Input : t'.input[j].hasBacklog) => t'.indexes = NoItems
    BY <1>15
  <1>18. ASSUME NEW j \in Input, Fills(j)' PROVE Holds(put'[j], Len(put'[j]), t'.indexes)
    <2>1. j = k
      BY <1>15, <1>18 DEF Fills
    <2>2. ~d.threw
      BY <1>1, <1>18 DEF Fills
    <2>3. \A other \in Input : t.input[other].hasBacklog
      BY <1>1, <1>14, <1>18, <2>1 DEF Fills
    <2>4. x.indexes = NoItems
      BY <1>7, <2>3 DEF FeedInv
    <2>5. x.input[k].backlog = put'[k]
      BY <1>1, <1>5, <1>6, <1>7 DEF FeedInv, FeedTypeOK
    <2> QED BY <1>8, <1>10, <2>1, <2>2, <2>4, <2>5
  <1> QED BY <1>13, <1>16, <1>17, <1>18 DEF FeedInv

LEMMA ListenToUsedKeeps ==
    ASSUME FeedInv, NEW k \in Input, ListenToUsed(k)
    PROVE  FeedInv'
  <1> DEFINE u == SetStatus(t, "loading")
             s == [u.input[k] EXCEPT !.attached = TRUE]
             i == [u.input EXCEPT ![k] = s]
             x == [u EXCEPT !.input = i]
  <1>1. /\ ~t.input[k].hasBacklog
        /\ t' = x /\ listenFailed' = TRUE
        /\ producer' = producer /\ put' = put
    BY DEF ListenToUsed
  <1>2. t \in Stores /\ ~t.threw
    BY DEF FeedInv, FeedTypeOK
  <1>3. Hears(t, u) /\ u.indexes = t.indexes /\ u.input = t.input /\ u.threw = t.threw
    BY <1>2, SetStatusHears DEF Status
  <1> HIDE DEF u
  <1>4. u \in Stores
    BY <1>3 DEF Hears
  <1>5. s \in Streams /\ s.backlog = t.input[k].backlog /\ s.hasBacklog = t.input[k].hasBacklog
    <2>1. u.input[k] \in Streams
      BY <1>4 DEF Stores
    <2> QED BY <1>3, <2>1 DEF Streams
  <1> HIDE DEF s
  <1>6. i \in [Input -> Streams] /\ i[k] = s /\ \A j \in Input \ {k} : i[j] = t.input[j]
    BY <1>3, <1>4, <1>5 DEF Stores
  <1> HIDE DEF i
  <1>7. /\ x \in Stores /\ x.input = i /\ x.indexes = t.indexes /\ ~x.threw
        /\ x.listeners = u.listeners /\ x.observed = u.observed /\ x.status = u.status
    BY <1>2, <1>3, <1>4, <1>6 DEF Stores
  <1> HIDE DEF x
  <1>8. Knows(t)' /\ (Failed \/ KnowsStatus(t))'
    BY <1>1, <1>3, <1>7 DEF FeedInv, Hears, Knows, Failed
  <1>9. FeedTypeOK'
    <2>1. ASSUME NEW j \in Input
          PROVE  IF t'.input[j].hasBacklog
                 THEN /\ ~t'.input[j].attached /\ ~t'.input[j].down
                      /\ t'.input[j].backlog = put'[j]
                 ELSE t'.input[j].backlog = <<>>
      <3>1. CASE j = k
        BY <1>1, <1>5, <1>6, <1>7, <3>1 DEF FeedInv, FeedTypeOK
      <3>2. CASE j # k
        BY <1>1, <1>6, <1>7, <3>2 DEF FeedInv, FeedTypeOK
      <3> QED BY <3>1, <3>2
    <2> QED BY <1>1, <1>7, <2>1 DEF FeedInv, FeedTypeOK
  <1>10. ~t'.input[k].hasBacklog
    BY <1>1, <1>5, <1>6, <1>7
  <1>11. \A j \in Input : ~Fills(j)'
    BY <1>1 DEF Fills
  <1> QED BY <1>8, <1>9, <1>10, <1>11 DEF FeedInv

\* A caller more among the listeners.
LEMMA ListedStill ==
    ASSUME NEW listeners \in Seq(Listener), NEW l \in Listener
    PROVE  LET longer == Append(listeners, l)
           IN  /\ longer \in Seq(Listener)
               /\ l = Observer => \E i \in 1..Len(longer) : longer[i] = Observer
               /\ (\E i \in 1..Len(listeners) : listeners[i] = Observer)
                     => \E i \in 1..Len(longer) : longer[i] = Observer
  <1> DEFINE longer == Append(listeners, l)
  <1>1. /\ longer \in Seq(Listener) /\ Len(longer) = Len(listeners) + 1 /\ longer[Len(longer)] = l
        /\ \A i \in 1..Len(listeners) : longer[i] = listeners[i]
    BY AppendProperties
  <1>2. Len(listeners) \in Nat
    BY LenProperties
  <1> HIDE DEF longer
  <1>3. Len(longer) \in 1..Len(longer) /\ \A i \in 1..Len(listeners) : i \in 1..Len(longer)
    BY <1>1, <1>2
  <1> QED BY <1>1, <1>3 DEF longer

LEMMA WaitForDataKeeps ==
    ASSUME FeedInv, NEW w \in Waiter, WaitForData(w)
    PROVE  FeedInv'
  <1> DEFINE ws == [t.waiter EXCEPT ![w] = "waiting"]
             ls == Append(t.listeners, w)
             x == [t EXCEPT !.waiter = ws, !.listeners = ls]
  <1>1. /\ t' = x /\ producer' = producer /\ listenFailed' = listenFailed /\ put' = put
    BY DEF WaitForData
  <1>2. t \in Stores /\ ~t.threw
    BY DEF FeedInv, FeedTypeOK
  <1>3. t.listeners \in Seq(Listener) /\ w \in Listener
    BY <1>2 DEF Stores, Listener
  <1>4. /\ ls \in Seq(Listener)
        /\ (\E i \in 1..Len(t.listeners) : t.listeners[i] = Observer)
                     => \E i \in 1..Len(ls) : ls[i] = Observer
    BY <1>3, ListedStill
  <1>5. ws \in [Waiter -> {"idle", "waiting", "resolved"}]
    BY <1>2 DEF Stores
  <1> HIDE DEF ws, ls
  <1>6. /\ x \in Stores /\ x.input = t.input /\ x.indexes = t.indexes /\ x.threw = t.threw
        /\ x.listeners = ls /\ x.observed = t.observed /\ x.status = t.status
    BY <1>2, <1>4, <1>5 DEF Stores, Listener
  <1> HIDE DEF x
  <1>7. Knows(t)' /\ (Failed \/ KnowsStatus(t))'
    BY <1>1, <1>4, <1>6 DEF FeedInv, Knows, KnowsStatus, Failed
  <1>8. FeedTypeOK'
    BY <1>1, <1>2, <1>6 DEF FeedInv, FeedTypeOK
  <1>9. \A k \in Input : Fills(k)' = Fills(k)
    BY <1>1, <1>6 DEF Fills
  <1> QED BY <1>1, <1>6, <1>7, <1>8, <1>9 DEF FeedInv

LEMMA ListenToStatusKeeps ==
    ASSUME FeedInv, ListenToStatus
    PROVE  FeedInv'
  <1> DEFINE ls == Append(t.listeners, Observer)
             x == [t EXCEPT !.observed = t.status, !.listeners = ls]
  <1>1. /\ t' = x /\ producer' = producer /\ listenFailed' = listenFailed /\ put' = put
    BY DEF ListenToStatus
  <1>2. t \in Stores /\ ~t.threw
    BY DEF FeedInv, FeedTypeOK
  <1>3. t.listeners \in Seq(Listener) /\ Observer \in Listener
    BY <1>2 DEF Stores, Listener
  <1>4. ls \in Seq(Listener) /\ \E i \in 1..Len(ls) : ls[i] = Observer
    BY <1>3, ListedStill
  <1> HIDE DEF ls
  <1>5. /\ x \in Stores /\ x.input = t.input /\ x.indexes = t.indexes /\ x.threw = t.threw
        /\ x.listeners = ls /\ x.observed = t.status /\ x.status = t.status
    BY <1>2, <1>4 DEF Stores, Listener
  <1> HIDE DEF x
  <1>6. Knows(t)' /\ KnowsStatus(t)'
    BY <1>1, <1>4, <1>5 DEF Knows, KnowsStatus
  <1>7. FeedTypeOK'
    BY <1>1, <1>2, <1>5 DEF FeedInv, FeedTypeOK
  <1>8. \A k \in Input : Fills(k)' = Fills(k)
    BY <1>1, <1>5 DEF Fills
  <1> QED BY <1>1, <1>5, <1>6, <1>7, <1>8 DEF FeedInv

LEMMA PutStoppedKeeps ==
    ASSUME FeedInv, NEW k \in Input, NEW e \in AnyEvent, PutStopped(k, e)
    PROVE  FeedInv'
  <1>1. /\ t' = t /\ listenFailed' = listenFailed /\ t.input[k].down /\ producer[k] = "puts"
        /\ producer' = [producer EXCEPT ![k] = "stop"]
        /\ put' = [put EXCEPT ![k] = Append(@, e)]
    BY DEF PutStopped, PutEvent
  <1>2. /\ producer \in [Input -> {"puts", "stop", "failed"}]
        /\ put \in [Input -> Seq(AnyEvent)]
        /\ ~t.input[k].hasBacklog
    BY <1>1 DEF FeedInv, FeedTypeOK, AnyEvent
  <1>3. /\ producer'[k] = "stop" /\ \A j \in Input \ {k} : producer'[j] = producer[j] /\ put'[j] = put[j]
        /\ producer' \in [Input -> {"puts", "stop", "failed"}]
    BY <1>1, <1>2
  <1>4. put' \in [Input -> Seq(AnyEvent)]
    <2>1. Append(put[k], e) \in Seq(AnyEvent)
      BY <1>2, AppendProperties
    <2> QED BY <1>1, <1>2, <2>1
  <1>5. FeedTypeOK'
    <2>1. ASSUME NEW j \in Input
          PROVE  IF t'.input[j].hasBacklog
                 THEN /\ ~t'.input[j].attached /\ ~t'.input[j].down
                      /\ t'.input[j].backlog = put'[j]
                 ELSE t'.input[j].backlog = <<>>
      <3>1. CASE j = k
        BY <1>1, <1>2, <3>1 DEF FeedInv, FeedTypeOK
      <3>2. CASE j # k
        BY <1>1, <1>3, <3>2 DEF FeedInv, FeedTypeOK
      <3> QED BY <3>1, <3>2
    <2> QED BY <1>1, <1>3, <1>4, <2>1 DEF FeedInv, FeedTypeOK, AnyEvent
  <1>6. Failed' = Failed
    BY <1>1, <1>3 DEF Failed
  <1>7. \A j \in Input : Fills(j)' => Fills(j) /\ put'[j] = put[j]
    BY <1>1, <1>3 DEF Fills
  <1> QED BY <1>1, <1>2, <1>5, <1>6, <1>7 DEF FeedInv, Knows, KnowsStatus

LEMMA PutReceivedKeeps ==
    ASSUME FeedInv, NEW k \in Input, NEW e \in AnyEvent, PutReceived(k, e)
    PROVE  FeedInv'
  <1> DEFINE d == Receive(t, k, e)
             n == Len(put[k])
  <1>1. /\ listenFailed' = listenFailed /\ producer[k] = "puts" /\ t' = Ends(d)
        /\ t.input[k].attached \/ t.input[k].hasBacklog
        /\ producer' = IF d.threw THEN [producer EXCEPT ![k] = "failed"] ELSE producer
        /\ put' = [put EXCEPT ![k] = Append(@, e)]
    BY DEF PutReceived, PutEvent, Ends
  <1>2. /\ producer \in [Input -> {"puts", "stop", "failed"}]
        /\ put \in [Input -> Seq(AnyEvent)]
        /\ t \in Stores /\ ~t.threw /\ t.input[k] \in Streams
    BY DEF FeedInv, FeedTypeOK, AnyEvent, Stores
  <1>3. /\ producer' \in [Input -> {"puts", "stop", "failed"}]
        /\ producer'[k] = IF d.threw THEN "failed" ELSE "puts"
        /\ \A j \in Input \ {k} : producer'[j] = producer[j] /\ put'[j] = put[j]
    <2> HIDE DEF d
    <2> QED BY <1>1, <1>2
  <1>4. /\ put' \in [Input -> Seq(AnyEvent)] /\ put'[k] \in Seq(AnyEvent)
        /\ put'[k] = Append(put[k], e)
        /\ n \in Nat /\ Len(put'[k]) = n + 1 /\ n + 1 \in 1..Len(put'[k])
        /\ put'[k][n + 1] = e /\ \A i \in 1..n : put'[k][i] = put[k][i]
    <2>1. put[k] \in Seq(AnyEvent)
      BY <1>2
    <2>2. /\ Append(put[k], e) \in Seq(AnyEvent) /\ Len(Append(put[k], e)) = n + 1
          /\ Append(put[k], e)[n + 1] = e /\ \A i \in 1..n : Append(put[k], e)[i] = put[k][i]
      BY <2>1, AppendProperties
    <2>3. n \in Nat
      BY <2>1, LenProperties
    <2>4. put'[k] = Append(put[k], e)
      BY <1>1, <1>2
    <2>5. put' \in [Input -> Seq(AnyEvent)]
      BY <1>1, <1>2, <2>2
    <2> QED BY <2>2, <2>3, <2>4, <2>5
  <1>5. Failed => Failed'
    BY <1>1, <1>3 DEF Failed
  <1>6. d.threw => Failed'
    BY <1>3 DEF Failed
  <1>7. CASE t.input[k].attached
    <2>1. ~t.input[k].hasBacklog /\ t.input[k].backlog = <<>>
      BY <1>7 DEF FeedInv, FeedTypeOK
    <2>2. /\ Passes(t, d, k)
          /\ ~d.threw => d.indexes = AfterEvent(t.indexes, e)
      BY <1>2, <1>7, ReceiveAttached
    <2> HIDE DEF d
    <2>3. Hears(t, d) /\ d \in Stores
      BY <2>2 DEF Passes, Hears
    <2>4. /\ t' \in Stores /\ ~t'.threw /\ t'.indexes = d.indexes /\ t'.input = d.input
      BY <1>1, <2>3, EndsAs
    <2>5. Knows(t)' /\ (Failed \/ KnowsStatus(t))'
      BY <1>1, <1>5, <1>6, <2>3, HeardOf
    <2>6. /\ \A j \in Input \ {k} : t'.input[j] = t.input[j]
          /\ ~t'.input[k].hasBacklog /\ t'.input[k].backlog = <<>>
      BY <2>1, <2>2, <2>4 DEF Passes
    <2>7. FeedTypeOK'
      <3>1. ASSUME NEW j \in Input
            PROVE  IF t'.input[j].hasBacklog
                   THEN /\ ~t'.input[j].attached /\ ~t'.input[j].down
                        /\ t'.input[j].backlog = put'[j]
                   ELSE t'.input[j].backlog = <<>>
        <4>1. CASE j = k
          BY <2>6, <4>1
        <4>2. CASE j # k
          BY <1>3, <2>6, <4>2 DEF FeedInv, FeedTypeOK
        <4> QED BY <4>1, <4>2
      <3> QED BY <1>1, <1>3, <1>4, <2>4, <3>1 DEF FeedInv, FeedTypeOK, AnyEvent
    <2>8. ASSUME NEW j \in Input, Fills(j)' PROVE Holds(put'[j], Len(put'[j]), t'.indexes)
      <3>1. j = k
        BY <2>6, <2>8 DEF Fills
      <3>2. Fills(k) /\ ~d.threw
        BY <1>1, <1>3, <2>1, <2>6, <2>8, <3>1 DEF Fills
      <3>3. Holds(put[k], n, t.indexes)
        BY <3>2 DEF FeedInv
      <3> HIDE DEF n
      <3>4. Holds(put'[k], n, t.indexes)
        BY <1>4, <3>3, HoldsAlso
      <3>5. Holds(put'[k], n + 1, AfterEvent(t.indexes, put'[k][n + 1]))
        BY <1>4, <3>4, HoldsNext
      <3> QED BY <1>4, <2>2, <2>4, <3>1, <3>2, <3>5
    <2> QED BY <2>5, <2>6, <2>7, <2>8 DEF FeedInv
  <1>8. CASE ~t.input[k].attached
    <2> DEFINE s == [t.input[k] EXCEPT !.up = (e = Close), !.backlog = Append(@, e)]
               i == [t.input EXCEPT ![k] = s]
    <2>1. d = [t EXCEPT !.input = i]
      BY <1>1, <1>8 DEF Receive
    <2>2. /\ s \in Streams /\ s.hasBacklog /\ ~s.attached /\ ~s.down
          /\ s.backlog = Append(t.input[k].backlog, e)
      <3>1. t.input[k].hasBacklog /\ ~t.input[k].down /\ t.input[k].backlog = put[k]
        BY <1>1, <1>8 DEF FeedInv, FeedTypeOK
      <3>2. Append(t.input[k].backlog, e) \in Seq(AnyEvent)
        BY <1>4, <3>1
      <3> QED BY <1>2, <1>8, <3>1, <3>2 DEF Streams, AnyEvent
    <2> HIDE DEF s
    <2>3. i \in [Input -> Streams] /\ i[k] = s /\ \A j \in Input \ {k} : i[j] = t.input[j]
      BY <1>2, <2>2 DEF Stores
    <2> HIDE DEF i, d
    <2>4. /\ d \in Stores /\ d.input = i /\ d.indexes = t.indexes /\ d.threw = t.threw
          /\ d.listeners = t.listeners /\ d.observed = t.observed /\ d.status = t.status
      BY <1>2, <2>1, <2>3 DEF Stores
    <2>5. Hears(t, d)
      BY <2>4 DEF Hears, Knows, KnowsStatus
    <2>6. /\ t' \in Stores /\ ~t'.threw /\ t'.indexes = t.indexes /\ t'.input = i
      BY <1>1, <2>4, EndsAs
    <2>7. Knows(t)' /\ (Failed \/ KnowsStatus(t))'
      BY <1>1, <1>5, <1>6, <2>5, HeardOf
    <2>8. FeedTypeOK'
      <3>1. ASSUME NEW j \in Input
            PROVE  IF t'.input[j].hasBacklog
                   THEN /\ ~t'.input[j].attached /\ ~t'.input[j].down
                        /\ t'.input[j].backlog = put'[j]
                   ELSE t'.input[j].backlog = <<>>
        <4>1. CASE j = k
          <5>1. t.input[k].backlog = put[k]
            BY <1>1, <1>8 DEF FeedInv, FeedTypeOK
          <5> QED BY <1>4, <2>2, <2>3, <2>6, <4>1, <5>1
        <4>2. CASE j # k
          BY <1>3, <2>3, <2>6, <4>2 DEF FeedInv, FeedTypeOK
        <4> QED BY <4>1, <4>2
      <3> QED BY <1>1, <1>3, <1>4, <2>6, <3>1 DEF FeedInv, FeedTypeOK, AnyEvent
    <2>9. \A j \in Input : Fills(j)' => Fills(j) /\ put'[j] = put[j]
      <3>1. \A j \in Input : t'.input[j].hasBacklog = t.input[j].hasBacklog
        <4>1. SUFFICES ASSUME NEW j \in Input
                       PROVE  t'.input[j].hasBacklog = t.input[j].hasBacklog
          OBVIOUS
        <4>2. CASE j = k
          <5>1. t.input[k].hasBacklog /\ t.input[k] \in Streams
            BY <1>1, <1>2, <1>8
          <5>2. t'.input[k].hasBacklog /\ t'.input[k] \in Streams
            BY <2>2, <2>3, <2>6
          <5> QED BY <4>2, <5>1, <5>2 DEF Streams
        <4>3. CASE j # k
          BY <2>3, <2>6, <4>3
        <4> QED BY <4>2, <4>3
      <3>2. t.input[k].hasBacklog
        BY <1>1, <1>8
      <3> QED BY <1>1, <1>2, <1>3, <2>4, <3>1, <3>2 DEF Fills
    <2>10. (\A j \in Input : t'.input[j].hasBacklog) => t'.indexes = NoItems
      BY <1>1, <1>8, <2>3, <2>6 DEF FeedInv
    <2> QED BY <2>6, <2>7, <2>8, <2>9, <2>10 DEF FeedInv
  <1> QED BY <1>7, <1>8

LEMMA FeedInvNext == FeedInv /\ [FeedNext]_feedVars => FeedInv'
  <1> SUFFICES ASSUME FeedInv, [FeedNext]_feedVars PROVE FeedInv'
    OBVIOUS
  <1>1. ASSUME NEW k \in Input, NEW stopsOnDone \in BOOLEAN, ListenToStream(k, stopsOnDone)
        PROVE  FeedInv'
    BY <1>1, ListenToStreamKeeps
  <1>2. ASSUME NEW k \in Input, ListenToUsed(k) PROVE FeedInv'
    BY <1>2, ListenToUsedKeeps
  <1>3. ASSUME NEW k \in Input, Put(k) PROVE FeedInv'
    <2>1. PICK e \in Event : PutStopped(k, e) \/ PutReceived(k, e)
      BY <1>3 DEF Put
    <2>2. e \in AnyEvent
      BY DEF AnyEvent
    <2> QED BY <2>1, <2>2, PutStoppedKeeps, PutReceivedKeeps
  <1>4. ASSUME NEW k \in Input, CloseInput(k) PROVE FeedInv'
    <2>1. Close \in AnyEvent
      BY DEF AnyEvent
    <2> QED BY <1>4, <2>1, PutStoppedKeeps, PutReceivedKeeps DEF CloseInput
  <1>5. ASSUME NEW w \in Waiter, WaitForData(w) PROVE FeedInv'
    BY <1>5, WaitForDataKeeps
  <1>6. CASE ListenToStatus
    BY <1>6, ListenToStatusKeeps
  <1>7. CASE UNCHANGED feedVars
    <2>1. t' = t /\ producer' = producer /\ listenFailed' = listenFailed /\ put' = put
      BY <1>7 DEF feedVars
    <2> QED BY <2>1 DEF FeedInv, FeedTypeOK, Knows, KnowsStatus, Failed, Fills
  <1> QED BY <1>1, <1>2, <1>3, <1>4, <1>5, <1>6, <1>7 DEF FeedNext

\* streamToTable.ts, StatusTable.ts: the table, its listeners and its streams are
\* what they can be, and what was put to a stream before a table listened to it
\* is all in its backlog, for any streams, waiters and schema.
THEOREM FeedTypeCorrect == FeedSpec => []FeedTypeOK
  <1>1. FeedInv => FeedTypeOK
    BY DEF FeedInv
  <1> QED BY <1>1, FeedInvInit, FeedInvNext, PTL DEF FeedSpec

\* listenToValueChange(): its caller knows the status of the table, however streams
\* end, fail, restart and replace each other and whichever waiters go meanwhile.
THEOREM StatusObserved == FeedSpec => []ObserverFollows
  <1>1. FeedInv => ObserverFollows
    BY DEF FeedInv, ObserverFollows, KnowsStatus
  <1> QED BY <1>1, FeedInvInit, FeedInvNext, PTL DEF FeedSpec

\* streamToTable(): a table that one stream fills has in all indexes exactly the
\* items the stream was put since it restarted, before the table listened or after.
THEOREM TableHoldsStream == FeedSpec => []ContentsFollow
  <1>1. FeedInv => ContentsFollow
    <2> SUFFICES ASSUME FeedInv, NEW k \in Input, Fills(k),
                        \A i, j \in Current(put[k]), a \in Attr \ Multi :
                           put[k][i].item[a] = put[k][j].item[a] => i = j
                 PROVE  /\ Agree(t.indexes)
                        /\ ItemsOf(t.indexes[Primary]) = {put[k][i].item : i \in Current(put[k])}
      BY DEF ContentsFollow, Fills
    <2>1. put[k] \in Seq(Event \cup {Close})
      BY DEF FeedInv, FeedTypeOK
    <2>2. Current(put[k]) = CurrentUpTo(put[k], Len(put[k]))
      <3>1. DOMAIN put[k] = 1..Len(put[k])
        BY <2>1, LenProperties
      <3> QED BY <3>1 DEF Current, CurrentUpTo
    <2>3. Holds(put[k], Len(put[k]), t.indexes)
      BY DEF FeedInv
    <2>4. /\ Agreeing(t.indexes)
          /\ ItemsOf(t.indexes[Primary]) = {put[k][i].item : i \in Current(put[k])}
      BY <2>2, <2>3 DEF Holds
    <2> QED BY <2>4 DEF Agree, Agreeing, Keyed, Same
  <1> QED BY <1>1, FeedInvInit, FeedInvNext, PTL DEF FeedSpec

=============================================================================
