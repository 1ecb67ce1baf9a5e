----------------------------- MODULE Tokenizer -----------------------------
(***************************************************************************)
(* The tokenizer: Lex as the preprocessor calls it, over every text that   *)
(* an editing session leaves in the server, with the part of the state     *)
(* machine that decides whether header names are lexed.                    *)
(*                                                                         *)
(* Letters are "a", "e", "x" and "i"; <<"i">> stands for the name include. *)
(* Digits are "0" and "1".  "SP" is a space or a tab.  A token is          *)
(* [klass, text, begin, end, first, leading]; the class of a punctuation   *)
(* follows from its text.  Positions are zero-based and count UTF-16.      *)
(***************************************************************************)
EXTENDS Lexemes

Whitespace == {"SP", "CR"}

\* *srcCursor; the text ends with a null character.
Ahead(z, n) == IF z.cursor + n > Len(z.text) THEN "NUL" ELSE z.text[z.cursor + n]
Peek(z) == Ahead(z, 0)

Here(z) == [line |-> z.line, character |-> z.character]

\* Mutant: the character is not reset behind a line continuation.
ContinueOnSameColumn(z, n) == [z EXCEPT !.cursor = @ + n, !.line = @ + 1]
NextLine(z, n) == [z EXCEPT !.cursor = @ + n, !.line = @ + 1, !.character = 0]

RECURSIVE SkipLineContinuation(_)
SkipLineContinuation(z) ==
    IF Peek(z) # "\\" THEN z
    ELSE IF Ahead(z, 1) = "LF" THEN SkipLineContinuation(NextLine(z, 2))
    ELSE IF Ahead(z, 1) = "CR" /\ Ahead(z, 2) = "LF" THEN SkipLineContinuation(NextLine(z, 3))
    ELSE z

RECURSIVE SkipWhitespace(_)
SkipWhitespace(z) ==
    IF Peek(z) \in Whitespace
    THEN SkipWhitespace([z EXCEPT !.cursor = @ + 1, !.character = @ + 1, !.leading = TRUE])
    ELSE IF Peek(z) = "LF" THEN SkipWhitespace([NextLine(z, 1) EXCEPT !.leading = TRUE, !.first = TRUE])
    ELSE LET t == SkipLineContinuation(z) IN IF t = z THEN z ELSE SkipWhitespace(t)

\* countl_one of the first unit, up to the end of the text.
NumCodeUnits(z) ==
    LET n == CASE Peek(z) = "L2" -> 2 [] Peek(z) = "L4" -> 4 [] OTHER -> 1
    IN  Min({n, Len(z.text) - z.cursor + 1})
LspUnits(n) == IF n = 4 THEN 2 ELSE 1

Take(z, n) ==
    [z EXCEPT !.cursor = @ + n, !.character = @ + LspUnits(n),
              !.buffer = @ \o SubSeq(z.text, z.cursor, z.cursor + n - 1)]
MarkEnd(z) == [z EXCEPT !.end = Here(z)]

ConsumeCharUnsafe(z) == SkipLineContinuation(MarkEnd(Take(z, NumCodeUnits(z))))

\* The end is marked again behind a line continuation.
ConsumeChar(z) ==
    CASE Peek(z) = "NUL" -> MarkEnd(z)
      [] Peek(z) = "LF" -> SkipLineContinuation(MarkEnd([NextLine(z, 1) EXCEPT !.buffer = Append(@, "LF")]))
      [] OTHER -> SkipLineContinuation(MarkEnd(ConsumeCharUnsafe(z)))

RECURSIVE LexIdentifier(_)
LexIdentifier(z) ==
    IF Peek(z) \in Letters \cup Digits THEN LexIdentifier(ConsumeCharUnsafe(z)) ELSE z

BeginsExponent(z, hex) == ~hex /\ Peek(z) = "e"

RECURSIVE LexDigits(_, _, _, _)
LexDigits(z, hex, dot, exp) ==
    CASE Peek(z) = "." -> IF dot \/ exp THEN z ELSE LexDigits(ConsumeCharUnsafe(z), hex, TRUE, exp)
      [] BeginsExponent(z, hex) ->
            IF exp THEN z
            ELSE LET t == ConsumeCharUnsafe(z)
                 IN  LexDigits(IF Peek(t) \in {"+", "-"} THEN ConsumeCharUnsafe(t) ELSE t, hex, dot, TRUE)
      [] ~BeginsExponent(z, hex) /\ Peek(z) \in (Letters \cup Digits) \ {"_"} ->
            LexDigits(ConsumeCharUnsafe(z), hex, dot, exp)
      [] OTHER -> z

LexNumberLiteral(z) ==
    LET hex == z.buffer = <<"0">> /\ Peek(z) = "x"
    IN  LexDigits(IF hex THEN ConsumeCharUnsafe(z) ELSE z, hex, z.buffer = <<".">>, FALSE)

RECURSIVE LexLineComment(_)
LexLineComment(z) ==
    IF Peek(z) \in {"NUL", "LF"} THEN [z EXCEPT !.buffer = Append(@, "LF")]
    ELSE LexLineComment(ConsumeCharUnsafe(z))

\* The comment behind "/*": the class of the token and where it ends.
RECURSIVE LexBlockComment(_, _)
LexBlockComment(z, prevWasStar) ==
    LET t == ConsumeChar(z) IN
    CASE Peek(z) = "NUL" -> [t EXCEPT !.klass = "Unknown"]
      [] Peek(z) = "/" /\ prevWasStar -> [t EXCEPT !.klass = "Comment"]
      [] OTHER -> LexBlockComment(t, Peek(z) = "*")

RECURSIVE LexHeaderName(_, _)
LexHeaderName(z, quoteEnd) ==
    CASE Peek(z) \in {"NUL", "LF"} -> [z EXCEPT !.klass = "Unknown"]
      [] Peek(z) = quoteEnd -> [ConsumeCharUnsafe(z) EXCEPT !.klass = "HeaderName"]
      [] OTHER -> LexHeaderName(ConsumeCharUnsafe(z), quoteEnd)

\* The characters that lengthen a punctuation.
Longer(p) ==
    CASE p \in {<<"!">>, <<"=">>, <<"*">>, <<"%">>, <<"/">>} -> {"="}
      [] p \in {<<"&">>, <<"|">>, <<"^">>, <<"+">>, <<"-">>, <<"<">>, <<">">>} -> {p[1], "="}
      [] p \in {<<"<", "<">>, <<">", ">">>} -> {"="}
      [] p = <<"#">> -> {"#"}
      [] OTHER -> {}

RECURSIVE LexPunctuation(_)
LexPunctuation(z) == IF Peek(z) \in Longer(z.buffer) THEN LexPunctuation(ConsumeCharUnsafe(z)) ELSE z

As(klass, z) == [z EXCEPT !.klass = klass]

\* The token that begins with the character just consumed.
LexBehind(z, headers) ==
    LET first == Head(z.buffer) IN
    CASE first \in {"<", "quote"} /\ headers -> LexHeaderName(z, IF first = "<" THEN ">" ELSE first)
      [] first = "/" /\ Peek(z) = "/" -> As("Comment", LexLineComment(ConsumeCharUnsafe(z)))
      [] first = "/" /\ Peek(z) = "*" -> LexBlockComment(ConsumeCharUnsafe(z), FALSE)
      [] first \in Letters -> As("Identifier", LexIdentifier(z))
      [] first \in Digits \/ (first = "." /\ Peek(z) \in Digits) -> As("NumberLiteral", LexNumberLiteral(z))
      [] OTHER -> IF <<first>> \in Operators THEN As("Punctuation", LexPunctuation(z)) ELSE As("Unknown", z)

Lex(z, headers) ==
    LET s == SkipWhitespace([z EXCEPT !.leading = FALSE, !.first = (z.cursor = 1), !.buffer = <<>>])
        begin == Here(s)
        t == LexBehind(ConsumeCharUnsafe(s), headers)
    IN  IF s.cursor > Len(s.text)
        THEN [As("Eof", s) EXCEPT !.begin = begin, !.end = begin, !.first = TRUE, !.leading = TRUE]
        ELSE [t EXCEPT !.begin = begin]

Token(z) == [klass |-> z.klass, text |-> z.buffer, begin |-> z.begin, end |-> z.end,
             first |-> z.first, leading |-> z.leading]

-----------------------------------------------------------------------------
(* FeedPPToken: how far a directive has been read.                          *)
IsHash(token) == token.klass = "Punctuation" /\ token.text = <<"#">>

Feed(state, token) ==
    CASE token.klass = "Comment" -> state
      [] token.first -> IF IsHash(token) THEN "ExpectDirective" ELSE "Default"
      [] state = "ExpectDirective" ->
            IF token.text = <<"i">> THEN "ExpectIncludeDirectiveTail" ELSE "ExpectDefaultDirectiveTail"
      [] OTHER -> state

\* PreprocessSourceFile: the tokens of the text up to the end of the file.
RECURSIVE LexFrom(_, _)
LexFrom(z, state) ==
    LET t == Lex(z, state = "ExpectIncludeDirectiveTail")
    IN  IF t.klass = "Eof" THEN <<Token(t)>> ELSE <<Token(t)>> \o LexFrom(t, Feed(state, Token(t)))

Origin == [line |-> 0, character |-> 0]
Lexed(text) ==
    LexFrom([text |-> text, cursor |-> 1, line |-> 0, character |-> 0, buffer |-> <<>>, klass |-> "none",
             begin |-> Origin, end |-> Origin, first |-> FALSE, leading |-> FALSE], "Default")

-----------------------------------------------------------------------------
\* Whatever was typed, pasted and deleted and wherever the lines are continued,
\* the compiler sees the tokens of the text the user sees, longest lexeme
\* first, none lost or split by a line continuation, each with the positions
\* the client counts and the line starts that make a # a directive.
LexedAsWritten == ~shifted => Lexed(server) = Read(client)
=============================================================================
