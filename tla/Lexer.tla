-------------------------------- MODULE Lexer -------------------------------
(***************************************************************************)
(* src/rqe/lexer: a text to its tokens, with the settings every caller in   *)
(* the repository uses (rqePlainValues on, comments and skipping off).      *)
(*                                                                          *)
(* A text is a sequence of characters, and a character stands for its       *)
(* class: every member of Word stands for a run of letters, "nl" for a      *)
(* newline, "quote" and "backtick" for two kinds of quote, "escape" for a   *)
(* backslash.  Positions are those of the code, from 0; the character at    *)
(* position i is text[i + 1].                                               *)
(***************************************************************************)
EXTENDS Naturals, FiniteSets, SequencesExt, FiniteSetsExt

CONSTANT Word           \* the letters (and _), or words taken as one letter

Digit == {"0"}
Blank == " "
Quote == {"quote", "backtick"}

\* The definitions of tokens.ts: one with a text of its own is named by it.
t_plain_value == <<"plain_value">>
t_integer == <<"integer">>
t_space == <<"space">>
t_quoted_string == <<"quoted_string">>
t_unrecognized == <<"unrecognized">>

Compound == {<<"=", "=", "=">>, <<"=", "=">>, <<"=", ">">>, <<"!", "=", "=">>, <<"!", "=">>,
             <<"-", "-">>, <<"-", ">">>, <<"|", "|">>, <<"&", "&">>, <<">", "=">>, <<"<", "=">>}

Closing == [b \in {"(", "[", "{"} |-> CASE b = "(" -> ")" [] b = "[" -> "]" [] b = "{" -> "}"]
Punctuation == {"<", ">", "/", ".", ",", ";", ":", "+", "-"}
Symbol == {"*", "=", "#", "%", "$", "~", "!", "|", "&", "?"}
Single == DOMAIN Closing \cup {Closing[b] : b \in DOMAIN Closing} \cup Punctuation \cup Symbol \cup {"nl"}

ASSUME WordAssumption == Word \cap (Digit \cup Quote \cup Single \cup {Blank, "escape"}) = {}

Left(match) == \E b \in DOMAIN Closing : match = <<b>>
Right(match) == \E b \in DOMAIN Closing : match = <<Closing[b]>>

CanStartPlainValue(c) == c \in Word \cup Digit \cup {"-"}
CanContinuePlainValue(c) == c \in Word \cup Digit \cup {"-", "!"}

\* Context.next(): 0 beyond the text.
Next0(text, i) == IF i < Len(text) THEN text[i + 1] ELSE "end"

\* The least n at which a loop over the lookahead stops.
Lookahead(text, i, stop(_)) == Min({n \in 0..Len(text) - i : i + n = Len(text) \/ stop(text[i + n + 1])})

\* One pass of the loop over a quoted string.
QuotedNext(text, i, scan) ==
    LET at == i + scan.len
    IN  CASE scan.closed \/ at >= Len(text) -> scan
          [] ~scan.closed /\ at < Len(text) ->
                IF text[at + 1] = "escape" THEN [len |-> scan.len + 2, closed |-> FALSE]
                ELSE [len |-> scan.len + 1, closed |-> text[at + 1] = text[i + 1]]

\* An escape takes the character after it, also where there is none: the
\* token may then end one character after the text does.
QuotedLength(text, i) ==
    LET scan[n \in 0..Len(text)] ==
            IF n = 0 THEN [len |-> 1, closed |-> FALSE] ELSE QuotedNext(text, i, scan[n - 1])
    IN  scan[Len(text)].len

PlainValue(text, i) ==
    LET len == Lookahead(text, i, LAMBDA c : ~CanContinuePlainValue(c))
    IN  [match |-> IF \A n \in 1..len : text[i + n] \in Digit THEN t_integer ELSE t_plain_value,
         len |-> len]

\* A token that is no operator of several characters.
ConsumeOne(text, i) ==
    LET c == text[i + 1]
    IN  CASE CanStartPlainValue(c) -> PlainValue(text, i)
          [] c \in Quote -> [match |-> t_quoted_string, len |-> QuotedLength(text, i)]
          [] c = Blank -> [match |-> t_space, len |-> Lookahead(text, i, LAMBDA d : d # Blank)]
          [] c \in Single \ {"-"} -> [match |-> <<c>>, len |-> 1]
          [] OTHER -> [match |-> t_unrecognized, len |-> 1]

\* Operators are tried first, the longer ones before the shorter.
ConsumeNext(text, i) ==
    LET operators == {op \in Compound : \A n \in 1..Len(op) : Next0(text, i + n - 1) = op[n]}
        longest == CHOOSE o \in operators : \A p \in operators : Len(p) <= Len(o)
    IN  IF operators = {} THEN ConsumeOne(text, i)
        ELSE [match |-> longest, len |-> Len(longest)]

-----------------------------------------------------------------------------
\* Context

Unpaired == 0

MutantMatchingBracket(ctx, match) ==
    IF Right(match) /\ ctx.brackets # <<>> THEN Last(ctx.brackets) ELSE Unpaired

\* The bracket that a right bracket closes: only the innermost open one.
MatchingBracket(ctx, match) ==
    LET top == Last(ctx.brackets)
    IN  IF Right(match) /\ ctx.brackets # <<>> /\ match = <<Closing[ctx.tokens[top].match[1]]>>
        THEN top ELSE Unpaired

MutantColumnAfter(ctx, text, len) == ctx.column + len
ColumnAfter(ctx, text, len) == IF text[ctx.index + 1] = "nl" THEN 1 ELSE ctx.column + len

\* pairs counts tokens from 1, 0 for a token without a pair.
Consume(ctx, text, next) ==
    LET left == MatchingBracket(ctx, next.match)
        index == Len(ctx.tokens) + 1
        token == [match |-> next.match, start |-> ctx.index, end |-> ctx.index + next.len,
                  line |-> ctx.line, column |-> ctx.column, pairs |-> left]
    IN  [index |-> ctx.index + next.len,
         line |-> IF text[ctx.index + 1] = "nl" THEN ctx.line + 1 ELSE ctx.line,
         column |-> ColumnAfter(ctx, text, next.len),
         tokens |-> Append(IF left = Unpaired THEN ctx.tokens
                           ELSE [ctx.tokens EXCEPT ![left].pairs = index], token),
         brackets |-> CASE Left(next.match) -> Append(ctx.brackets, index)
                        [] left # Unpaired -> Front(ctx.brackets)
                        [] OTHER -> ctx.brackets]

Start == [index |-> 0, line |-> 1, column |-> 1, tokens |-> <<>>, brackets |-> <<>>]

\* tokenizeString(): no text has more tokens than characters.
TokenizeNext(ctx, text) ==
    IF ctx.index >= Len(text) THEN ctx ELSE Consume(ctx, text, ConsumeNext(text, ctx.index))
Tokenize(text) ==
    LET after[n \in 0..Len(text)] == IF n = 0 THEN Start ELSE TokenizeNext(after[n - 1], text)
    IN  after[Len(text)].tokens

Lex(text) == [text |-> text, tokens |-> Tokenize(text)]

-----------------------------------------------------------------------------
\* LexedText.  slice() stops at the end of the text.

Slice(text, from, to) == SubSeq(text, from + 1, IF to < Len(text) THEN to ELSE Len(text))
TokenText(text, token) == Slice(text, token.start, token.end)

\* unescape() removes every backslash; a quoted string loses its first and
\* its last character, whether that is a quote or not.
UnquotedText(text, token) ==
    IF token.match = t_quoted_string
    THEN SelectSeq(Slice(text, token.start + 1, token.end - 1), LAMBDA c : c # "escape")
    ELSE TokenText(text, token)
=============================================================================
