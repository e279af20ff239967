---------------------------- MODULE TableIndexes ----------------------------
(***************************************************************************)
(* The indexes of an in-memory table, as compileSchema() builds them and    *)
(* src/rqe/table/RuntimeFunctions.ts changes them.                          *)
(* A schema has a `map' index for each attribute it looks up one item by    *)
(* (get, has, delete) and a `multimap' index for each attribute it lists by. *)
(* The first map index is the primary unique index.                         *)
(*                                                                          *)
(* An item is the function of its indexed attributes.  An index is a        *)
(* function from the keys it holds to sets of items: one item for each key  *)
(* of a map index, any number in a multimap, whose lists are taken without  *)
(* their order.                                                             *)
(***************************************************************************)
EXTENDS Naturals, FiniteSets

CONSTANTS
    Attr,               \* indexed attributes
    Multi,              \* those with a multimap index
    Primary,            \* the attribute of schema.primaryUniqueIndex
    MaxValue            \* bound: attribute values

Value == 1..MaxValue

ASSUME SchemaAssumption == Multi \subseteq Attr /\ Primary \in Attr \ Multi
ASSUME ValueAssumption == MaxValue \in Nat

Item == [Attr -> Value]
Empty == [k \in {} |-> {}]
NoItems == [a \in Attr |-> Empty]

-----------------------------------------------------------------------------
\* The functions on indexes

Get(index, k) == IF k \in DOMAIN index THEN index[k] ELSE {}

Set(index, k, items) ==
    [x \in DOMAIN index \cup {k} |-> IF x = k THEN items ELSE index[x]]

ItemsOf(index) == UNION {index[k] : k \in DOMAIN index}

\* The loop of insert(): every index gets the item.
Stored(ix, item) ==
    [a \in Attr |-> Set(ix[a], item[a],
                        IF a \in Multi THEN Get(ix[a], item[a]) \cup {item} ELSE {item})]

\* Mutant: the keys stay in the map indexes as well.
RemovedKeysStay(ix, victims) ==
    [a \in Attr |-> [k \in DOMAIN ix[a] |-> {item \in ix[a][k] : item \notin victims}]]

\* The loop of deleteWithAttr() over the items it found: their keys leave the map
\* indexes, whichever item is there; in the multimap indexes the items with the
\* same unique key are filtered out of the list of their key, which stays.
Removed(ix, victims) ==
    [a \in Attr |->
        IF a \in Multi
        THEN [k \in DOMAIN ix[a] |->
                {item \in ix[a][k] :
                    ~\E v \in victims : v[a] = k /\ v[Primary] = item[Primary]}]
        ELSE [k \in DOMAIN ix[a] \ {v[a] : v \in victims} |-> ix[a][k]]]

-----------------------------------------------------------------------------
\* checkInvariantsOnTable(): every index has the items of the primary one, each
\* under its own key.
Agree(ix) ==
    \A a \in Attr :
        /\ ItemsOf(ix[a]) = ItemsOf(ix[Primary])
        /\ \A k \in DOMAIN ix[a] : \A item \in ix[a][k] : item[a] = k

=============================================================================
