------------------------------ MODULE QueryTree -----------------------------
(***************************************************************************)
(* What src/rqe/parser makes of a text (src/rqe/query/Query.ts): a query is *)
(* its tags, several steps are a node of their own, and no step at all is   *)
(* null.  A value is a text or a nested node.                               *)
(***************************************************************************)

NoValue == [t |-> "none"]
TextValue(text) == [t |-> "text", text |-> text]
NoNode == [t |-> "null"]

Tag(attr) == [attr |-> attr, value |-> NoValue, isParameter |-> FALSE,
              isAttrOptional |-> FALSE, isValueOptional |-> FALSE]
Valued(attr, text) == [Tag(attr) EXCEPT !.value = TextValue(text)]
HasValue(tag) == tag.value # NoValue

QueryNode(tags) == [t |-> "query", tags |-> tags]

=============================================================================
