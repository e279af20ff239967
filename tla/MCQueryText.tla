----------------------------- MODULE MCQueryText ----------------------------
EXTENDS QueryText

Pieces(chars) == {<<c>> : c \in chars}

MCAlphabets ==
    {Pieces({"a", "0", "-", ">", "=", "!", "nl", " ", "@"}),
     Pieces({"quote", "backtick", "escape", "nl", "a", "(", ")", "[", "]"}),
     Pieces({"a", "$", "?", "=", " ", "(", ")", "|"}) \cup {<<" ", "-", ">", " ">>},
     Pieces({"a", "0", "|", " ", "nl", "limit", "wait"}) \cup {<<"rename", " ", "a">>, <<"-", ">">>},
     Pieces({"a", "0", "=", ".", "/", "(", ")", "quote"})}
=============================================================================
