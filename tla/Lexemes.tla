------------------------------ MODULE Lexemes ------------------------------
(***************************************************************************)
(* What the tokens of a text are: line continuations are taken out, and a  *)
(* token is the longest lexeme at the next character that is no space.     *)
(* Two rules are the program's and not the language's: a block comment is  *)
(* a token, so that it can be the first of its line, and a line that was   *)
(* begun by #include ends behind the first token of the next line.         *)
(***************************************************************************)
EXTENDS DocumentText, SequencesExt, FiniteSetsExt

Digits == {"0", "1"}
Letters == {"a", "e", "x", "i", "_"}
Spaces == {"SP", "CR", "LF"}
Operators ==
    {<<c>> : c \in {"!", "#", "%", "&", "(", ")", "*", "+", ",", "-", ".", "/", ":", ";", "<", "=", ">",
                    "?", "[", "]", "^", "{", "|", "}", "~"}}
    \cup {<<c, c>> : c \in {"#", "&", "+", "-", "<", "=", ">", "^", "|"}}
    \cup {<<c, "=">> : c \in {"!", "%", "&", "*", "+", "-", "/", "<", ">", "^", "|"}}
    \cup {<<c, c, "=">> : c \in {"<", ">"}}

Among(w, set) == \A k \in 1 .. Len(w) : w[k] \in set
Without(w, a, b) == \A k \in 1 .. Len(w) - 1 : ~(w[k] = a /\ w[k + 1] = b)

IsIdentifier(w) == w[1] \in Letters /\ Among(w, Letters \cup Digits)

IsNumber(w) ==
    LET hex      == Len(w) > 1 /\ w[1] = "0" /\ w[2] = "x"
        Exponent == {k \in 1 .. Len(w) : ~hex /\ w[k] = "e"}
        Dot      == {k \in 1 .. Len(w) : w[k] = "."}
        Sign     == {k \in 1 .. Len(w) : w[k] \in {"+", "-"}}
    IN  /\ w[1] \in Digits \/ (Len(w) > 1 /\ w[1] = "." /\ w[2] \in Digits)
        /\ Among(w, (Letters \ {"_"}) \cup Digits \cup {".", "+", "-"})
        /\ Cardinality(Exponent) <= 1 /\ Cardinality(Dot) <= 1
        /\ \A k \in Sign : k - 1 \in Exponent
        /\ \A k \in Dot, e \in Exponent : k < e

IsBlockComment(w) ==
    /\ Len(w) >= 4 /\ w[1] = "/" /\ w[2] = "*"
    /\ w[Len(w) - 1] = "*" /\ w[Len(w)] = "/" /\ Without(SubSeq(w, 3, Len(w) - 1), "*", "/")

IsLineComment(w) == Len(w) >= 2 /\ w[1] = "/" /\ w[2] = "/" /\ "LF" \notin ToSet(w)

Closing(c) == IF c = "<" THEN ">" ELSE c
OpensHeader(w) == w[1] \in {"<", "quote"} /\ "LF" \notin ToSet(w)
IsHeaderName(w) ==
    /\ OpensHeader(w) /\ Len(w) > 1 /\ w[Len(w)] = Closing(w[1])
    /\ Closing(w[1]) \notin ToSet(SubSeq(w, 2, Len(w) - 1))

\* A comment or a header name that is not closed.  rest: what is behind w.
IsUnclosed(w, rest, headers) ==
    \/ /\ rest = <<>> /\ Len(w) >= 2 /\ w[1] = "/" /\ w[2] = "*"
       /\ Without(SubSeq(w, 3, Len(w)), "*", "/")
    \/ headers /\ OpensHeader(w) /\ Closing(w[1]) \notin ToSet(Tail(w))

Class(w, rest, headers) ==
    CASE IsUnclosed(w, rest, headers)  -> "Unknown"
      [] headers /\ IsHeaderName(w)    -> "HeaderName"
      [] IsBlockComment(w)             -> "BlockComment"
      [] IsLineComment(w)              -> "LineComment"
      [] IsIdentifier(w)               -> "Identifier"
      [] IsNumber(w)                   -> "NumberLiteral"
      [] w \in Operators               -> "Punctuation"
      [] OTHER                         -> IF Len(w) = 1 THEN "Unknown" ELSE "none"

-----------------------------------------------------------------------------
\* The places where the characters of the text begin that are in no line
\* continuation, and its end.
Characters(text) ==
    LET Is(k, c) == k <= Len(text) /\ text[k] = c
        Continues(k) == Is(k, "\\") /\ (Is(k + 1, "LF") \/ (Is(k + 1, "CR") /\ Is(k + 2, "LF")))
        Kept(k) == /\ text[k] # "C" /\ ~Continues(k)
                   /\ ~(k > 1 /\ text[k] \in {"LF", "CR"} /\ Continues(k - 1))
                   /\ ~(k > 2 /\ text[k] = "LF" /\ text[k - 1] = "CR" /\ Continues(k - 2))
    IN  SelectSeq([k \in 1 .. Len(text) |-> k], Kept) \o <<Len(text) + 1>>

\* The place behind the character at a place.
Behind(text, i) ==
    i + (CASE text[i] = "L2" -> 2 [] text[i] = "L4" -> 4 [] OTHER -> 1)

\* The line of a directive, as far as its tokens have been read.
NamesHeader(tokens) ==
    LET read == SelectSeq(tokens, LAMBDA t : t.klass # "Comment")
        begun == {k \in 1 .. Len(read) : read[k].first}
        line == SubSeq(read, Max(begun \cup {0}), Len(read))
    IN  begun # {} /\ Len(line) >= 2 /\ line[1].text = <<"#">> /\ line[2].text = <<"i">>

\* The tokens of a text that follow `tokens`, from its i-th character on; its
\* characters begin `at` places and spell `word`.
RECURSIVE ReadFrom(_, _, _, _, _)
ReadFrom(text, at, word, tokens, i) ==
    LET j == SelectInSubSeq(word, i, Len(word), LAMBDA c : c \notin Spaces)
        headers == NamesHeader(tokens)
        ClassTo(k) == Class(SubSeq(word, j, k), SubSeq(word, k + 1, Len(word)), headers)
        last == Max({k \in j .. Len(word) : ClassTo(k) # "none"})
        class == ClassTo(last)
        spelled == FlattenSeq([k \in 1 .. last - j + 1 |->
                                  SubSeq(text, at[j + k - 1], Behind(text, at[j + k - 1]) - 1)])
        \* The end of a block comment is behind the line continuations that follow it.
        end == IF Len(spelled) > 1 /\ SubSeq(spelled, 1, 2) = <<"/", "*">>
               THEN at[last + 1] ELSE Behind(text, at[last])
        token == [klass   |-> IF class \in {"BlockComment", "LineComment"} THEN "Comment" ELSE class,
                  text    |-> IF class = "LineComment" THEN Append(spelled, "LF") ELSE spelled,
                  begin   |-> LspPosition(text, at[j]),
                  end     |-> LspPosition(text, end),
                  first   |-> i = 1 \/ \E k \in i .. j - 1 : word[k] = "LF",
                  leading |-> j > i]
        eof == [klass |-> "Eof", text |-> <<>>, begin |-> LspPosition(text, Len(text) + 1),
                end |-> LspPosition(text, Len(text) + 1), first |-> TRUE, leading |-> TRUE]
    IN  IF j = 0 THEN Append(tokens, eof)
        ELSE ReadFrom(text, at, word, Append(tokens, token), last + 1)

Read(text) ==
    LET at == Characters(text)
    IN  ReadFrom(text, at, [k \in 1 .. Len(at) - 1 |-> text[at[k]]], <<>>, 1)
=============================================================================
