----------------------------- MODULE LexedText ------------------------------
(***************************************************************************)
(* Every text a caller may write, piece by piece, and its tokens.           *)
(***************************************************************************)
EXTENDS Lexer

CONSTANTS
    Alphabets,          \* sets of pieces; a text is made of one set's pieces
    MaxPieces           \* bound: pieces in a text

ASSUME PiecesAssumption ==
    /\ MaxPieces \in Nat
    /\ \A set \in Alphabets : \A piece \in set : piece \in Seq(ToSet(piece))

VARIABLES
    alphabet, pieces,
    src                 \* the text and its tokens

textVars == <<alphabet, pieces, src>>

TextInit ==
    /\ alphabet \in Alphabets
    /\ pieces = 0
    /\ src = Lex(<<>>)

Write(piece) ==
    /\ pieces < MaxPieces
    /\ pieces' = pieces + 1
    /\ src' = Lex(src.text \o piece)
    /\ UNCHANGED alphabet

TextNext == \E piece \in alphabet : Write(piece)
TextSpec == TextInit /\ [][TextNext]_textVars

-----------------------------------------------------------------------------
\* Properties

tokens == src.tokens
Quoted(token) == token.match = t_quoted_string
NewlinesBefore(p) == {i \in 1..p : src.text[i] = "nl"}

\* The tokens cover the text without a gap or an overlap (Context.consume
\* moves index to endPos); only a quoted string that the text leaves open
\* after a backslash ends one character beyond it.  The line and column a
\* token is reported at are where it is in the text, and are wrong only
\* behind a quoted string with a newline in it.
TokensTile ==
    /\ \A i \in DOMAIN tokens :
        /\ tokens[i].start = (IF i = 1 THEN 0 ELSE tokens[i - 1].end)
        /\ tokens[i].start < tokens[i].end
        /\ LET before == NewlinesBefore(tokens[i].start)
           IN  (\A j \in 1..i - 1 : Quoted(tokens[j]) =>
                    "nl" \notin ToSet(TokenText(src.text, tokens[j])))
               => /\ tokens[i].line = Cardinality(before) + 1
                  /\ tokens[i].column = tokens[i].start + 1 - Max(before \cup {0})
    /\ src.text # <<>> =>
        LET last == tokens[Len(tokens)]
        IN  \/ last.end = Len(src.text)
            \/ last.end = Len(src.text) + 1 /\ Quoted(last) /\ Last(src.text) = "escape"

\* pairsWithIndex joins an opening bracket to a closing one of its kind, both
\* ways, and nothing between them is left open: an opening bracket between
\* them is closed between them.
BracketsPair ==
    \A i \in DOMAIN tokens : tokens[i].pairs # Unpaired =>
        LET j == tokens[i].pairs
        IN  /\ tokens[j].pairs = i
            /\ i < j => /\ Left(tokens[i].match) /\ tokens[j].match = <<Closing[tokens[i].match[1]]>>
                        /\ \A k \in i + 1..j - 1 :
                            Left(tokens[k].match) => tokens[k].pairs \in k + 1..j - 1
=============================================================================
