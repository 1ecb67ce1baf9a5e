---------------------------- MODULE MCCompilation ----------------------------
(***************************************************************************)
(* Four parts of a compilation that share no state, checked side by side:  *)
(* the preprocessor's evaluator of #if expressions, the one that folds the *)
(* syntax tree, the inclusion of headers, and the life of compilations.  A *)
(* behaviour belongs to one of them, chosen at the start.                  *)
(***************************************************************************)
EXTENDS PPExpression, ConstEval, Inclusion, Invocation

VARIABLE part   \* "line", "tree", "files" or "compilations"

vars == <<part, lineVars, foldVars, fileVars, compileVars>>

Init ==
    /\ part \in {"line", "tree", "files", "compilations"}
    /\ LineInit /\ FoldInit /\ FileInit /\ CompileInit
    /\ part # "files" => disk = CHOOSE d \in Disks : TRUE

Next ==
    \/ part = "line" /\ LineNext /\ UNCHANGED <<part, foldVars, fileVars, compileVars>>
    \/ part = "tree" /\ FoldNext /\ UNCHANGED <<part, lineVars, fileVars, compileVars>>
    \/ part = "files" /\ FileNext /\ UNCHANGED <<part, lineVars, foldVars, compileVars>>
    \/ part = "compilations" /\ CompileNext /\ UNCHANGED <<part, lineVars, foldVars, fileVars>>
    \* An expression is as long as it is.
    \/ part \in {"line", "tree"} /\ UNCHANGED vars

Spec == Init /\ [][Next]_vars

-----------------------------------------------------------------------------
(* PPExpression and ConstEval.                                             *)
MCLiterals == {2, 3}
MCCommonTokens == {Number(2), Number(3)} \cup {Punct(p) : p \in {"-", "!", "/", "<", "&&", "(", ")"}}

Const(type, elems) ==
    [type |-> type, const |-> TRUE, value |-> Value(type.kind, Columns(type), Rows(type), elems)]
Name(type) == [type |-> type, const |-> FALSE, value |-> NoValue]

MCLeaves == {
    Const(BoolType, <<1>>), Const(IntType, <<-8>>), Const(IntType, <<1>>), Const(IntType, <<0>>),
    Const(GetScalarType("float"), <<6>>),
    Const(Vector("int", 2), <<-1, 3>>), Const(Vector("float", 2), <<2, 3>>), Const(Vector("double", 2), <<5, 3>>),
    Const(Matrix("float", 2, 2), <<1, 2, 3, 4>>), Name(Vector("float", 2))}

MCConstructed == {
    BoolType, IntType, GetScalarType("uint"), GetScalarType("uint8"), Vector("bool", 2), Vector("int", 3),
    Vector("float", 4), Vector("float", 2), Matrix("float", 2, 2), Matrix("float", 3, 3), Matrix("float", 3, 2), Matrix("float", 2, 3)}

-----------------------------------------------------------------------------
(* Inclusion.                                                              *)
Hash(tail) == <<"#">> \o tail
Seqs(S, n) == UNION {[1 .. k -> S] : k \in 1 .. n}

TextLines == {<<>>, <<"w">>, <<"//">>, <<"w", "//">>, <<"//", "w">>,
              Hash(<<"include", "a">>), Hash(<<"include", "b">>),
              Hash(<<"if", "0">>), Hash(<<"endif">>)}

NestingLines == {<<"w">>, <<"//">>, <<"//", "w">>, Hash(<<"include", "a">>),
                 Hash(<<"if", "0">>), Hash(<<"endif">>)}

ConfigLines == {<<"w">>, Hash(<<"version", "450">>), Hash(<<"version", "130">>),
                Hash(<<"version", "300", "es">>), Hash(<<"version", "450", "es">>),
                Hash(<<"extension", "E", ":", "require">>),
                Hash(<<"extension", "E", ":", "warn">>), Hash(<<"extension", "E">>),
                Hash(<<"include", "a">>), Hash(<<>>)}

\* Lines that a comment makes part of the directive above.
SwallowedLines == {<<"//", "0">>, <<"//", "if">>, <<"w", "//", "w">>,
                   Hash(<<>>), Hash(<<"if">>), Hash(<<"//", "if", "0">>), Hash(<<"endif">>)}

MCMainTexts ==
    Seqs(TextLines, 3) \cup Seqs(NestingLines, 4) \cup Seqs(ConfigLines, 3) \cup Seqs(SwallowedLines, 3)

\* c is another name of the file a is found in; b is found in the second include
\* directory only.
MCCanonical == [a |-> <<"/a", "/b">>, b |-> <<NoPath, "/b">>, c |-> <<"/c", "/a">>]

MCDisks == {
    [p \in {"/a", "/b"} |->
        IF p = "/a" THEN <<<<"w">>, <<"//">>, <<>>>> ELSE <<<<"//">>, <<"w", "//">>>>],
    [p \in {"/a", "/b"} |->
        IF p = "/a" THEN <<Hash(<<"include", "a">>), <<"w">>>>
        ELSE <<Hash(<<"if", "0">>), <<"w">>, Hash(<<"include", "a">>)>>],
    [p \in {"/a"} |-> <<Hash(<<"version", "110">>), Hash(<<"include", "c">>), <<"w">>, <<>>>>]}

-----------------------------------------------------------------------------
(* Invocation.                                                             *)
Define(name, body) == [op |-> "define", name |-> name, body |-> body]
Declare(name) == [op |-> "declare", name |-> name, under |-> Always]
DeclareIf(macro, name) == [op |-> "declare", name |-> name, under |-> macro]
Use(name) == [op |-> "use", name |-> name, under |-> Always]

\* x is a name of the language in vertex shaders only, y in all of them.
MCGlslStdlibText == <<DeclareIf(StageMacro("Vertex"), "x"), Declare("y"), Define("M", "y")>>

MCUserPreambles == {<<>>, <<Define("M", "z"), Declare("z"), Use("M")>>}

MCUserTexts == {
    <<Use("x"), Use("M"), Declare("y"), Define("M", "w"), Define("N", "y"), Use("N"),
      Define("N", "x"), Use("N"), Declare("M"), DeclareIf("M", "w"), Use("w")>>,
    <<Define("M", "x"), Use("M"), Use("z"), DeclareIf("N", "x"), Declare("z"), Use("z")>>}
=============================================================================
