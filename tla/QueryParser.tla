----------------------------- MODULE QueryParser ----------------------------
(***************************************************************************)
(* src/rqe/parser: the recursive descent from tokens to queries and to      *)
(* handler declarations, with TokenIterator.  src is a lexed text, pos the  *)
(* number of the token the iterator is at.  A parse either throws (Failed)  *)
(* or returns a node and the position after it.                             *)
(***************************************************************************)
EXTENDS Lexer, QueryTree

Failed == [ok |-> FALSE]
Parsed(pos, node) == [ok |-> TRUE, pos |-> pos, node |-> node]

\* One parse after another.
Then(parse, Next(_, _)) == IF parse.ok THEN Next(parse.pos, parse.node) ELSE Failed

\* TokenIterator: past the end there is a token without match or text.
Finished(src, pos) == pos > Len(src.tokens)
NextIn(src, pos, matches) == ~Finished(src, pos) /\ src.tokens[pos].match \in matches
NextIs(src, pos, match) == NextIn(src, pos, {match})
NextText(src, pos) == IF Finished(src, pos) THEN <<>> ELSE TokenText(src.text, src.tokens[pos])
NextUnquotedText(src, pos) ==
    IF Finished(src, pos) THEN <<>> ELSE UnquotedText(src.text, src.tokens[pos])

Skip(src, pos, matches) ==
    IF Finished(src, pos) THEN pos
    ELSE Min({p \in pos..Len(src.tokens) + 1 : ~NextIn(src, p, matches)})
SkipSpaces(src, pos) == Skip(src, pos, {t_space})
SkipNewlines(src, pos) == Skip(src, pos, {t_space, <<"nl">>})

\* The text of the tokens from `from' up to `to'.
ConsumedText(src, from, to) ==
    FlattenSeq([i \in 1..to - from |-> NextUnquotedText(src, from + i - 1)])

-----------------------------------------------------------------------------
\* parseQueryTagFromTokens

InAttr == {t_plain_value, <<".">>, <<"-">>, <<"-", "-">>, t_integer, <<"/">>}
InValue == {t_plain_value, <<".">>, <<"/">>, <<":">>}
MutantBars == {<<"|">>}
Bars == {<<"|">>, <<"/">>}

RECURSIVE ParseQuery(_, _)

MutantParseParameter(src, pos) ==
    Parsed(pos + 2, [Tag(NextUnquotedText(src, pos)) EXCEPT !.isParameter = TRUE])

\* After a `$', at pos.
ParseParameter(src, pos) ==
    LET optional == NextIs(src, pos + 1, <<"?">>)
    IN  Parsed(IF optional THEN pos + 2 ELSE pos + 1,
               [Tag(NextUnquotedText(src, pos)) EXCEPT !.isParameter = TRUE, !.isAttrOptional = optional])

\* After an opening bracket.
ParseNested(src, pos, attr) ==
    Then(ParseQuery(src, pos),
         LAMBDA p, node : IF node # NoNode /\ NextIs(src, p, <<")">>)
                          THEN Parsed(p + 1, [Tag(attr) EXCEPT !.value = node]) ELSE Failed)

\* After an equals sign and spaces.  Whatever token comes starts the value.
ParseValue(src, pos, attr) ==
    CASE NextIs(src, pos, <<"$">>) -> Parsed(pos + 1, [Tag(attr) EXCEPT !.isParameter = TRUE])
      [] NextIs(src, pos, <<"?">>) ->
            Parsed(pos + 1, [Tag(attr) EXCEPT !.isParameter = TRUE, !.isValueOptional = TRUE])
      [] NextIs(src, pos, <<"(">>) -> ParseNested(src, pos + 1, attr)
      [] OTHER -> LET end == Skip(src, pos + 1, InValue)
                  IN  Parsed(end, Valued(attr, ConsumedText(src, pos, end)))

ParseTag(src, pos) ==
    LET end == Skip(src, pos + 1, InAttr)
        attr == ConsumedText(src, pos, end)
    IN  CASE NextIs(src, pos, <<"$">>) -> ParseParameter(src, pos + 1)
          [] ~NextIs(src, pos, <<"$">>) /\ attr = <<"/">> -> Failed
          [] ~NextIs(src, pos, <<"$">>) /\ attr # <<"/">> ->
                CASE NextIs(src, end, <<"(">>) -> ParseNested(src, end + 1, attr)
                  [] NextIs(src, end, <<"=">>) -> ParseValue(src, SkipSpaces(src, end + 1), attr)
                  [] OTHER -> Parsed(end, Tag(attr))

-----------------------------------------------------------------------------
\* parseQuery

RECURSIVE ParseTags(_, _)
TagsAt(src, p) ==
    IF Finished(src, p) \/ NextIn(src, p, Bars \cup {<<")">>}) THEN Parsed(p, <<>>)
    ELSE Then(ParseTag(src, p),
              LAMBDA q, tag : Then(ParseTags(src, q),
                                   LAMBDA end, tags : Parsed(end, <<tag>> \o tags)))
ParseTags(src, pos) == TagsAt(src, SkipNewlines(src, pos))

\* The special syntaxes: where each one ends, 0 where it is not there.
VerbWithInteger(src, pos, verbs) ==
    LET p == SkipNewlines(src, pos + 1)
    IN  IF NextText(src, pos) \in verbs /\ NextIs(src, p, t_integer) THEN p + 1 ELSE 0

RenameTokens(src, pos) ==
    LET from == SkipNewlines(src, pos + 1)
        arrow == SkipNewlines(src, from + 1)
        to == SkipNewlines(src, arrow + 1)
    IN  IF /\ NextText(src, pos) = <<"rename">>
           /\ NextIs(src, from, t_plain_value) /\ NextIs(src, arrow, <<"-", ">">>)
           /\ NextIs(src, to, t_plain_value)
        THEN <<from, to>> ELSE <<>>

\* The tags of a special syntax.  A count is kept as a value, the duration of
\* a wait is not.
ParseSpecial(src, p) ==
    LET verb == Tag(NextText(src, p))
        limit == VerbWithInteger(src, p, {<<"limit">>, <<"last">>})
        wait == VerbWithInteger(src, p, {<<"wait">>})
        rename == RenameTokens(src, p)
    IN  CASE limit # 0 -> Parsed(limit, <<verb, Valued(<<"count">>, NextText(src, limit - 1))>>)
          [] rename # <<>> ->
                Parsed(rename[2] + 1, <<verb, Valued(<<"from">>, NextText(src, rename[1])),
                                        Valued(<<"to">>, NextText(src, rename[2]))>>)
          [] wait # 0 -> Parsed(wait, <<verb, Tag(<<"duration">>)>>)
          [] OTHER -> Parsed(p, <<>>)

ParseSingleQuery(src, pos) ==
    Then(ParseSpecial(src, SkipNewlines(src, pos)),
         LAMBDA p, special : Then(ParseTags(src, p),
                                  LAMBDA end, tags : Parsed(end, QueryNode(special \o tags))))

\* Steps between bars; bars in a row, and one at either end, add none.
RECURSIVE ParseSteps(_, _)
StepsAt(src, p) ==
    CASE Finished(src, p) -> Parsed(p, <<>>)
      [] NextIn(src, p, Bars) -> ParseSteps(src, p + 1)
      [] OTHER ->
            Then(ParseSingleQuery(src, p),
                 LAMBDA q, step : IF NextIn(src, q, Bars)
                                  THEN Then(ParseSteps(src, q + 1),
                                            LAMBDA end, rest : Parsed(end, <<step>> \o rest))
                                  ELSE Parsed(q, <<step>>))
ParseSteps(src, pos) == StepsAt(src, SkipSpaces(src, pos))

ParseQuery(src, pos) ==
    Then(ParseSteps(src, pos),
         LAMBDA p, steps : Parsed(p, CASE Len(steps) = 0 -> NoNode
                                       [] Len(steps) = 1 -> steps[1]
                                       [] OTHER -> [t |-> "multistep", steps |-> steps]))

-----------------------------------------------------------------------------
\* parseHandler

MutantHandlerTag(tag, output) ==
    [attr |-> tag.attr, required |-> ~tag.isAttrOptional, requiresValue |-> FALSE,
     isParameter |-> FALSE, isOutput |-> output]

HandlerTag(tag, output) ==
    [attr |-> tag.attr,
     required |-> ~tag.isAttrOptional /\ ~output,
     requiresValue |-> tag.isParameter /\ ~tag.isValueOptional /\ ~output,
     isParameter |-> tag.isParameter \/ tag.isValueOptional,
     isOutput |-> output]

RECURSIVE ParseHandlerTags(_, _, _)
HandlerTagsAt(src, p, seenArrow) ==
    CASE Finished(src, p) -> Parsed(p, <<>>)
      [] NextIs(src, p, <<"-", ">">>) -> ParseHandlerTags(src, p + 1, TRUE)
      [] OTHER ->
            Then(ParseTag(src, p),
                 LAMBDA q, tag : IF tag.attr = <<":">> \/ HasValue(tag) THEN Failed
                                 ELSE Then(ParseHandlerTags(src, q, seenArrow),
                                           LAMBDA end, tags :
                                               Parsed(end, <<HandlerTag(tag, seenArrow)>> \o tags)))
ParseHandlerTags(src, pos, seenArrow) == HandlerTagsAt(src, SkipSpaces(src, pos), seenArrow)

\* The Handler that is built at the end refuses an attribute it has twice.
ParseHandler(src) ==
    Then(ParseHandlerTags(src, 1, FALSE),
         LAMBDA p, tags : IF IsInjective([i \in DOMAIN tags |-> tags[i].attr]) THEN Parsed(p, tags) ELSE Failed)

\* Handler.toDeclString()
DeclOf(tag) ==
    (IF tag.requiresValue THEN <<"$">> ELSE <<>>) \o tag.attr
    \o (IF tag.required THEN <<>> ELSE <<"?">>)
    \o (IF tag.isParameter /\ ~tag.requiresValue THEN <<"=", "?">> ELSE <<>>)

PlainOutput(tag) == tag.isOutput /\ ~tag.required /\ ~tag.isParameter

Joined(texts) ==
    FlattenSeq([i \in DOMAIN texts |-> IF i = 1 THEN texts[i] ELSE <<" ">> \o texts[i]])

ToDeclString(tags) ==
    LET inputs == SelectSeq(tags, LAMBDA tag : ~PlainOutput(tag))
        outputs == SelectSeq(tags, PlainOutput)
    IN  Joined([i \in DOMAIN inputs |-> DeclOf(inputs[i])])
        \o (IF outputs = <<>> THEN <<>>
            ELSE (IF inputs = <<>> THEN <<>> ELSE <<" ">>) \o <<"-", ">", " ">>
                 \o Joined([i \in DOMAIN outputs |-> outputs[i].attr]))
=============================================================================
