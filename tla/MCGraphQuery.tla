---------------------------- MODULE MCGraphQuery ----------------------------
EXTENDS GraphQuery, QueryParser

Decl(text) == ParseHandler(Lex(text)).node
AsQuery(text) == ParseQuery(Lex(text), 1).node

Plain == Decl(<<"a">>)                                              \* a
Valued1 == Decl(<<"a", " ", "$", "b">>)                             \* a $b
Optional == Decl(<<"a", " ", "$", "b", "?">>)                       \* a $b?
Outputs == Decl(<<"a", " ", "-", ">", " ", "c">>)                   \* a -> c
Accepts == Decl(<<"a", " ", "b", "=", "?">>)                        \* a b=?

MCGraphs == UNION {{SubSeq(g, 1, n) : n \in 0..Len(g)} :
                g \in {<<Valued1, Plain>>, <<Valued1, Optional>>, <<Outputs, Accepts>>}}

MCQueries == {AsQuery(text) :
    text \in {<<>>,                                                 \*
              <<"a">>,                                              \* a
              <<"a", "|", "c">>,                                    \* a|c
              <<"a", " ", "c">>,                                    \* a c
              <<"a", " ", "b", "=", "0">>,                          \* a b=0
              <<"a", " ", "$", "b", "?">>,                          \* a $b?
              <<"a", " ", "b", "=", "0", " ", "$", "b", "?">>,      \* a b=0 $b?
              <<"a", " ", "$", "b", " ", "$", "c", "?">>}}          \* a $b $c?

MCParams == {<<"b">>, <<"$input">>}
item == {<<"a">>}
MCItems == {{}, item, {<<"a">>, <<"c">>}}

MCResults ==
    {[t |-> "items", items |-> <<item, {}>>],
     [t |-> "stream", before |-> <<>>],
     [t |-> "stream", before |-> <<Done, Close>>],
     [t |-> "stream", before |-> <<Item(item), Done, Item(item)>>]}
    \cup {[t |-> kind] : kind \in {"taken", "table", "throws", "stops"}}
=============================================================================
