---------------------------- MODULE ParserState ----------------------------
(***************************************************************************)
(* What every parsing function of the GLSL parser shares: the token under  *)
(* the cursor, the depths of parentheses, brackets and braces, the switch  *)
(* between parsing and recovery, RecoverFromError, and the scopes of the   *)
(* symbol table that decide whether a name is the name of a struct.        *)
(*                                                                         *)
(* A parser state is a record, and a parsing function maps a state to the  *)
(* state it leaves; ret is the value it returns.  A token is a string: its *)
(* class, or for the few names of the programs its text.                   *)
(***************************************************************************)
EXTENDS Naturals, Sequences, TLC

Names == {"a", "b", "f", "g", "S", "T", "length"}
Literals == {"1", "true"}
BuiltinTypes == {"int", "vec2", "void"}
PrecisionQualifiers == {"highp", "lowp"}
\* The qualifiers with which a statement is known to be a declaration, and one
\* that parsing a statement does not list.
LocalQualifiers == {"const", "in", "uniform"} \cup PrecisionQualifiers
Qualifiers == LocalQualifiers \cup {"varying"}

NoDecl == [kind |-> "none"]
NoSymbols == [n \in {} |-> NoDecl]

\* A level of the symbol table: what its names declare, and its functions, which
\* are looked up apart.
Level(scope) == [scope |-> scope, declLookup |-> NoSymbols, funcDeclLookup |-> <<>>]
NoStructs == [n \in {} |-> <<>>]
Void == [shape |-> "void"]

Start(text) ==
    [text |-> text, i |-> 1, mode |-> "Parsing",
     paren |-> 0, bracket |-> 0, brace |-> 0, inList |-> FALSE, listDepth |-> 0,
     levels |-> <<Level("Global")>>,
     structs |-> NoStructs,   \* the members of each struct and block built
     returnType |-> Void,     \* of the function being parsed
     ret |-> <<>>,
     reported |-> {},    \* the tokens errors were reported at
     recovered |-> {},   \* the tokens at which recovery was entered or stopped
     flags |-> {}]       \* what went wrong in the parser itself

Peek(s) == s.text[s.i]
PeekAt(s, k) == IF s.i + k <= Len(s.text) THEN s.text[s.i + k] ELSE "eof"
Eof(s) == Peek(s) = "eof"
InRecoveryMode(s) == s.mode = "Recovery"

Yield(s, value) == [s EXCEPT !.ret = value]
Flag(s, f) == [s EXCEPT !.flags = @ \cup {f}]
Assert_(s, condition) == IF condition THEN s ELSE Flag(s, "assertion")

\* A loop of the code that makes no progress: nothing after it is executed, so
\* the model flags it and puts the cursor at the end.
Hang(s, loop) == [Flag(s, loop) EXCEPT !.i = Len(s.text)]

EnterRecoveryMode(s) == [s EXCEPT !.mode = "Recovery", !.recovered = @ \cup {s.i}]
ExitRecoveryMode(s) == [Assert_(s, InRecoveryMode(s)) EXCEPT !.mode = "Parsing"]
ExitRecoveryIfIn(s) == IF InRecoveryMode(s) THEN ExitRecoveryMode(s) ELSE s
ReportError(s) == [s EXCEPT !.reported = @ \cup {s.i}]

Pred(n) == IF n > 0 THEN n - 1 ELSE 0

\* The count of what is open, after a token.
OpenAfter(opening, closing, token, depth) ==
    CASE token = opening -> depth + 1 [] token = closing -> Pred(depth) [] OTHER -> depth

\* Mutant: a closing brace is not counted.
ConsumeKeepingBrace(s) ==
    IF Eof(s) THEN s
    ELSE [s EXCEPT !.i = @ + 1, !.paren = OpenAfter("(", ")", Peek(s), @),
                   !.bracket = OpenAfter("[", "]", Peek(s), @), !.brace = OpenAfter("{", "", Peek(s), @)]

ConsumeToken(s) ==
    IF Eof(s) THEN s
    ELSE [s EXCEPT !.i = @ + 1, !.paren = OpenAfter("(", ")", Peek(s), @),
                   !.bracket = OpenAfter("[", "]", Peek(s), @), !.brace = OpenAfter("{", "}", Peek(s), @)]

TryConsume(s, token) == IF Peek(s) = token THEN ConsumeToken(s) ELSE s

-----------------------------------------------------------------------------
(***************************************************************************)
(* RecoverFromError: skip to a token at which parsing can resume.  from is *)
(* the state in which recovery was entered.                                *)
(***************************************************************************)
AtLevel(s, from) ==
    s.paren = from.paren /\ s.bracket = from.bracket /\ s.brace = from.brace

\* Mutant: any closing brace is a place to resume.
StopsAtAnyBrace(s, from, mode) ==
    CASE Peek(s) = ")" -> s.paren # 0 /\ s.paren = from.paren /\ mode \in {"Comma", "Paren"}
      [] Peek(s) = "]" -> s.bracket # 0 /\ s.bracket = from.bracket /\ mode = "Bracket"
      [] Peek(s) = "}" -> s.brace # 0
      [] Peek(s) = "," -> mode = "Comma" /\ AtLevel(s, from)
      [] Peek(s) = ";" -> \/ mode = "IListBrace"
                          \/ s.brace = from.brace /\ mode # "Brace"
      [] OTHER -> Eof(s)

StopsAt(s, from, mode) ==
    CASE Peek(s) = ")" -> s.paren # 0 /\ s.paren = from.paren /\ mode \in {"Comma", "Paren"}
      [] Peek(s) = "]" -> s.bracket # 0 /\ s.bracket = from.bracket /\ mode = "Bracket"
      [] Peek(s) = "}" -> s.brace # 0 /\ s.brace = from.brace
      [] Peek(s) = "," -> mode = "Comma" /\ AtLevel(s, from)
      [] Peek(s) = ";" -> \/ mode = "IListBrace"
                          \/ s.brace = from.brace /\ mode # "Brace"
      [] OTHER -> Eof(s)

RECURSIVE SkipTokens(_, _, _)
SkipTokens(s, from, mode) ==
    IF StopsAt(s, from, mode) THEN s ELSE SkipTokens(ConsumeToken(s), from, mode)

\* removeDepthIfUnclosed: what was opened is given up without its delimiter.
RemoveDepthIfUnclosed(s, mode) ==
    CASE mode = "Paren" /\ Peek(s) # ")" -> [s EXCEPT !.paren = @ - 1]
      [] mode = "Bracket" /\ Peek(s) # "]" -> [s EXCEPT !.bracket = @ - 1]
      [] mode \in {"Brace", "IListBrace"} /\ Peek(s) # "}" -> [s EXCEPT !.brace = @ - 1]
      [] OTHER -> s

\* At the token where skipping stopped; RecoverFromError(s, mode) is all of it.
Resume(at, mode) ==
    LET stopped == [at EXCEPT !.recovered = @ \cup {at.i}] IN
    CASE Peek(at) = ";" /\ mode = "IListBrace" -> [stopped EXCEPT !.brace = at.listDepth]
      [] OTHER -> IF Peek(at) \in {";", "}"} THEN RemoveDepthIfUnclosed(stopped, mode) ELSE stopped

RecoverFromError(s, mode) ==
    LET checked == Assert_(s, CASE mode \in {"Comma", "Paren"} -> s.paren > 0
                                [] mode = "Bracket" -> s.bracket > 0
                                [] mode = "Brace" -> s.brace > 0
                                [] OTHER -> TRUE)
    IN Resume(SkipTokens(checked, s, mode), mode)

\* The end of what stands in parentheses or brackets, which may have been skipped
\* to; opened is the depth inside.
TakeClosing(tried, token) ==
    IF Peek(tried) = token THEN ExitRecoveryIfIn(ConsumeToken(tried)) ELSE EnterRecoveryMode(tried)

ParseClosingParenHelper(s, opened) ==
    CASE s.paren < opened -> s
      [] s.paren >= opened /\ Peek(s) = ")" -> ExitRecoveryIfIn(ConsumeToken(s))
      [] OTHER -> TakeClosing(RecoverFromError(ReportError(s), "Paren"), ")")

ParseClosingBracketHelper(s, opened) ==
    CASE s.bracket < opened -> s
      [] s.bracket >= opened /\ Peek(s) = "]" -> ExitRecoveryIfIn(ConsumeToken(s))
      [] OTHER -> TakeClosing(RecoverFromError(ReportError(s), "Bracket"), "]")

\* Parse a list in parentheses on: ret says whether another item follows.
ParseCommaInParenHelper(s, opened) ==
    LET TakeComma(tried) == Yield(TryConsume(tried, ","), Peek(tried) = ",") IN
    CASE s.paren < opened \/ Peek(s) = ")" -> Yield(s, FALSE)
      [] s.paren >= opened /\ Peek(s) = "," -> Yield(ConsumeToken(s), TRUE)
      [] OTHER -> TakeComma(RecoverFromError(ReportError(s), "Comma"))

ParseOrInferSemicolonHelper(s) ==
    CASE InRecoveryMode(s) -> s
      [] Peek(s) = ";" -> ConsumeToken(s)
      [] OTHER -> ReportError(s)

\* The tail of ParseDeclAndTryRecover and ParseStmtAndTryRecover.
TryRecover(s) ==
    IF ~InRecoveryMode(s) THEN s
    ELSE LET TakeSemicolon(tried) ==
                 IF Peek(tried) = ";" THEN ExitRecoveryMode(ConsumeToken(tried)) ELSE tried
         IN TakeSemicolon(RecoverFromError(s, "Semi"))

-----------------------------------------------------------------------------
(***************************************************************************)
(* The symbol table: levels from the global one inwards.  The first        *)
(* declaration of a name in a level is kept.                               *)
(***************************************************************************)
PushLevel(s, scope) == [s EXCEPT !.levels = Append(@, Level(scope))]
PopLevel(s) == [s EXCEPT !.levels = SubSeq(@, 1, Len(@) - 1)]
CurrentScope(s) == s.levels[Len(s.levels)].scope
EnterFunctionScope(s, type) == [PushLevel(s, "Function") EXCEPT !.returnType = type]
LeaveFunctionScope(s) == [PopLevel(s) EXCEPT !.returnType = Void]

\* A declaration by its id; name is the position of the token that names it in
\* the table, 0 when there is none.
Symbol(kind, name, id, type) == [kind |-> kind, name |-> name, id |-> id, type |-> type]

TryAddSymbol(s, symbol) ==
    IF symbol.name = 0 THEN s
    ELSE [s EXCEPT !.levels[Len(s.levels)].declLookup = @ @@ (s.text[symbol.name] :> symbol)]

RECURSIVE AddSymbols(_, _)
AddSymbols(s, symbols) ==
    IF symbols = <<>> THEN s
    ELSE AddSymbols(TryAddSymbol(s, Head(symbols)), Tail(symbols))

\* Mutant: the search for a name begins at the global level.
FindOutermost(s, name) ==
    LET declaring == {k \in 1 .. Len(s.levels) : name \in DOMAIN s.levels[k].declLookup}
        outermost == CHOOSE k \in declaring : \A j \in declaring : j >= k
    IN IF declaring = {} THEN NoDecl ELSE s.levels[outermost].declLookup[name]

FindSymbol(s, name) ==
    LET declaring == {k \in 1 .. Len(s.levels) : name \in DOMAIN s.levels[k].declLookup}
        innermost == CHOOSE k \in declaring : \A j \in declaring : j <= k
    IN IF declaring = {} THEN NoDecl ELSE s.levels[innermost].declLookup[name]

IsStructName(s, name) == FindSymbol(s, name).kind = "StructDecl"
=============================================================================
