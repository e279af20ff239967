------------------------------ MODULE QueryText -----------------------------
(***************************************************************************)
(* What the two parsers make of every text a caller may write: toQuery()    *)
(* takes it for a query, exposeFunc() for the declaration of a handler.     *)
(***************************************************************************)
EXTENDS LexedText, QueryParser

\* What parseQuery() and parseHandler() return, or Failed.
query == ParseQuery(src, 1)
handler == ParseHandler(src)

-----------------------------------------------------------------------------
\* Properties

Letters(text) == SelectSeq(text, LAMBDA c : c \in Word \cup Digit)

RECURSIVE TextOf(_)
TextOf(node) ==
    CASE node.t = "none" -> <<>>
      [] node.t = "text" -> node.text
      [] node.t = "query" -> FlattenSeq([i \in DOMAIN node.tags |->
                                            node.tags[i].attr \o TextOf(node.tags[i].value)])
      [] node.t = "multistep" -> FlattenSeq([i \in DOMAIN node.steps |-> TextOf(node.steps[i])])
      [] node.t = "null" -> <<>>

WaitsFor ==
    \E i, j \in DOMAIN tokens : /\ i < j
                                /\ TokenText(src.text, tokens[i]) = <<"wait">>
                                /\ tokens[j].match = t_integer

Unclosed(token) == Quoted(token) /\ Last(TokenText(src.text, token)) \notin Quote

\* A query that parses has every word of the text in it, in the text's order,
\* up to the end or to a closing bracket that nothing opened; the duration of
\* `wait' and the last character of an unclosed quote are the exceptions.
ParseKeepsWords ==
    LET parse == query
    IN  parse.ok =>
            /\ Finished(src, parse.pos) \/ NextIs(src, parse.pos, <<")">>)
            /\ WaitsFor \/ (\E i \in DOMAIN tokens : Unclosed(tokens[i]))
               \/ Letters(TextOf(parse.node)) =
                    Letters(IF Finished(src, parse.pos) THEN src.text
                            ELSE SubSeq(src.text, 1, tokens[parse.pos].start))

\* The query parser throws only inside brackets; or at an attribute that reads
\* `/', which takes a quoted string: one with a slash in it, or an empty one
\* before a slash.
ReadsSlash(i) ==
    /\ Quoted(tokens[i])
    /\ \/ UnquotedText(src.text, tokens[i]) = <<"/">>
       \/ /\ UnquotedText(src.text, tokens[i]) = <<>>
          /\ i < Len(tokens) /\ tokens[i + 1].match = <<"/">>

ThrowsInBrackets ==
    ~query.ok => \E i \in DOMAIN tokens : tokens[i].match = <<"(">> \/ ReadsSlash(i)

\* Printing a handler and parsing it again gives the same handler
\* (AssertHandlerParseIsBidirectional in config.ts), if its attributes are
\* words and no output is a parameter.
HandlerRoundTrips ==
    LET parse == handler
    IN  /\ parse.ok
        /\ \A i \in DOMAIN parse.node :
            /\ parse.node[i].attr # <<>> /\ Letters(parse.node[i].attr) = parse.node[i].attr
            /\ ~(parse.node[i].isOutput /\ parse.node[i].isParameter)
        => LET again == ParseHandler(Lex(ToDeclString(parse.node)))
           IN  again.ok /\ again.node = parse.node
=============================================================================
