---------------------------- MODULE Presentation ----------------------------
(***************************************************************************)
(* What an editor draws over a document: the colour of its tokens          *)
(* (semantic tokens) and the hints between them (inlay hints).  Modifiers  *)
(* of colours, macros and header names are left out; the encoding and the  *)
(* cache of semantic tokens are modelled in SemanticTokens.                *)
(***************************************************************************)
EXTENDS Completion

-----------------------------------------------------------------------------
(* CollectSemanticTokens: keywords and numbers by their token, and names    *)
(* by the node they are in.                                                *)
Numbers == {"1"}
BuiltinTypeKeywords == {"int", "vec2", "void"}
Keywords ==
    BuiltinTypeKeywords
    \cup {"struct", "layout", "precision", "const", "in", "uniform", "varying", "highp", "lowp",
          "if", "else", "for", "while", "do", "switch", "case", "default", "break", "return", "true"}

SemanticToken(token, type) == [token |-> token, type |-> type]

\* Mutant: the keyword of a type is coloured with the other keywords.
LexTokenTypeOfAll(token) ==
    CASE token \in Keywords -> <<"Keyword">>
      [] token \in Numbers -> <<"Number">>
      [] OTHER -> <<>>

\* The keyword of a builtin type is coloured as a type, where the tree has it.
LexTokenType(token) ==
    CASE token \in Keywords \ BuiltinTypeKeywords -> <<"Keyword">>
      [] token \in Numbers -> <<"Number">>
      [] OTHER -> <<>>

CollectLexSemanticTokens(info) ==
    FlattenSeq([t \in 1 .. info.tree.end - 1 |->
        LET type == LexTokenType(info.text[t])
        IN [k \in DOMAIN type |-> SemanticToken(t, type[k])]])

\* The names at a node itself, with their types.
AstSemanticTokens(info, node) ==
    CASE node.kind = "QualType" -> <<SemanticToken(node.name, "Type")>>
      [] node.kind = "NameAccessExpr" ->
             <<SemanticToken(node.name, IF DeclById(info, node.decl).kind = "ParamDecl"
                                        THEN "Parameter" ELSE "Variable")>>
      [] node.kind \in {"FieldAccessExpr", "SwizzleAccessExpr", "StructFieldDeclaratorDecl",
                        "VariableDeclaratorDecl"} -> <<SemanticToken(node.name, "Variable")>>
      [] node.kind \in {"FunctionCallExpr", "FunctionDecl"} -> <<SemanticToken(node.name, "Function")>>
      [] node.kind = "StructDecl" -> <<SemanticToken(node.name, "Struct")>>
      [] node.kind = "BlockFieldDecl" ->
             [k \in DOMAIN GetDeclarators(node) |->
                 SemanticToken(GetDeclarators(node)[k].name, "Variable")]
      [] node.kind = "InterfaceBlockDecl" ->
             <<SemanticToken(node.name, "Type"), SemanticToken(node.decl, "Variable")>>
      [] node.kind = "ParamDecl" -> <<SemanticToken(node.name, "Parameter")>>
      [] OTHER -> <<>>

CollectAstSemanticTokens(info) ==
    LET all == AllNodes(info.tree)
    IN SelectSeq(FlattenSeq([k \in DOMAIN all |-> AstSemanticTokens(info, all[k].node)]),
                 LAMBDA t : t.token # 0)

CollectSemanticTokens(info) ==
    SortSeq(CollectLexSemanticTokens(info) \o CollectAstSemanticTokens(info),
            LAMBDA x, y : x.token < y.token)

-----------------------------------------------------------------------------
(***************************************************************************)
(* InlayHintCollector.  enabled are the kinds of hints that are on, and    *)
(* lines the length from which the end of a function is marked, a token    *)
(* standing for a line.  A hint is [position, label].                      *)
(***************************************************************************)
Hint(position, label) == <<[position |-> position, label |-> label]>>
HintBefore(node, label) ==
    IF node.begin = node.end THEN <<>> ELSE Hint(TokenStart(node.begin), label)

\* A label for each of the items that has a counterpart.
HintItems(items, labels) ==
    FlattenSeq([k \in 1 .. Min({Len(items), Len(labels)}) |-> HintBefore(items[k], labels[k])])

MemberLabels(info, id) ==
    LET fields == FieldNames(DeclById(info, id))
    IN [k \in DOMAIN fields |-> <<".", info.text[fields[k]]>>]
IndexLabels(size) == [k \in 1 .. size |-> <<"[", k - 1>>]
ComponentLabels(from, count) == <<".", from, from + count - 1>>

\* The hints in an initializer list: members, elements or components.
InitializerHints(info, list) ==
    LET type == list.type IN
    CASE type.shape = "struct" -> HintItems(list.kids, MemberLabels(info, type.id))
      [] type.shape = "array" -> HintItems(list.kids, IndexLabels(type.size))
      [] type.shape = "vector" ->
             HintItems(list.kids, [k \in 1 .. type.size |-> ComponentLabels(k, 1)])
      [] type.shape = "matrix" -> HintItems(list.kids, IndexLabels(type.rows))
      [] OTHER -> <<>>

CastHints(expr) ==
    IF expr.type = ErrorType \/ expr.end - expr.begin > 1 THEN <<>>
    ELSE HintBefore(expr, <<"(", expr.type>>)

\* Mutant: the arguments are counted by the parameters that have a name.
ArgumentHintsOfNamed(info, call) ==
    LET params == SelectSeq(GetParams(DeclById(info, call.decl)), LAMBDA p : p.name # 0)
        args == GetArgs(call)
    IN FlattenSeq([k \in DOMAIN params |->
           HintBefore(args[k], <<":", info.text[params[k].name], IsOutputParam(params[k])>>)])

\* The name of the parameter before each argument, marked when it is an output.
ArgumentHints(info, call) ==
    LET params == GetParams(DeclById(info, call.decl))
        args == GetArgs(call)
        name(p) == IF p.name = 0 THEN "" ELSE info.text[p.name]
    IN FlattenSeq([k \in DOMAIN params |->
           IF params[k].name # 0 \/ IsOutputParam(params[k])
           THEN HintBefore(args[k], <<":", name(params[k]), IsOutputParam(params[k])>>)
           ELSE <<>>])

\* The size of an array that is declared without one, after the first '['.
ArraySizeHints(owner, type) ==
    LET spec == GetArraySpec(owner) IN
    IF spec = <<>> THEN <<>>
    ELSE IF spec[1].op = "unsized" /\ type.shape = "array"
    THEN Hint(TokenStart(spec[1].begin + 1), <<"size", type.size>>)
    ELSE <<>>

\* The scalars of an argument of a vector's constructor.
ScalarCount(type) ==
    CASE type.shape = "vector" -> type.size
      [] type.shape = "matrix" -> type.rows * type.cols
      [] OTHER -> 1
RECURSIVE VectorArgHints(_, _, _)
VectorArgHints(args, next, size) ==
    IF args = <<>> \/ next > size THEN <<>>
    ELSE LET count == Min({ScalarCount(Head(args).type), size - next + 1})
         IN HintBefore(Head(args), ComponentLabels(next, count))
            \o VectorArgHints(Tail(args), next + count, size)

ConstructorHints(info, call) ==
    LET type == call.type
        args == GetArgs(call)
    IN CASE type.shape = "struct" -> HintItems(args, MemberLabels(info, type.id))
         [] type.shape = "array" -> HintItems(args, IndexLabels(type.size))
         [] type.shape = "vector" ->
                IF Len(args) = 1 /\ args[1].type.shape = "scalar"
                THEN HintBefore(args[1], ComponentLabels(1, type.size))
                ELSE VectorArgHints(args, 1, type.size)
         [] type.shape = "matrix" /\ Len(args) = 1 /\ args[1].type.shape \in {"scalar", "matrix"} ->
                HintBefore(args[1], IF args[1].type.shape = "scalar" THEN <<"diag">> ELSE <<"m">>)
         [] OTHER -> <<>>

BlockEndHints(info, function, lines) ==
    IF function.end - function.begin < lines THEN <<>>
    ELSE Hint(TokenEnd(function.end - 1), <<"//", info.text[function.name]>>)

HintsAt(info, enabled, lines, node) ==
    LET If(kind, hints) == IF kind \in enabled THEN hints ELSE <<>> IN
    CASE node.kind = "InitializerList" -> If("initializer", InitializerHints(info, node))
      [] node.kind = "ImplicitCastExpr" -> If("implicitCast", CastHints(node))
      [] node.kind = "FunctionCallExpr" ->
             IF node.decl = 0 THEN <<>> ELSE If("argumentName", ArgumentHints(info, node))
      [] node.kind = "ConstructorCallExpr" ->
             If("implicitArraySize", ArraySizeHints(GetQualType(node), node.type))
             \o If("initializer", ConstructorHints(info, node))
      [] node.kind = "VariableDeclaratorDecl" ->
             IF GetInitializer(node) = <<>> THEN <<>>
             ELSE If("implicitArraySize", ArraySizeHints(node, node.type))
      [] node.kind = "FunctionDecl" -> If("blockEnd", BlockEndHints(info, node, lines))
      [] OTHER -> <<>>

\* Those in the range that is displayed.
HandleInlayHints(info, enabled, lines, range) ==
    LET all == AllNodes(info.tree)
    IN SelectSeq(FlattenSeq([k \in DOMAIN all |-> HintsAt(info, enabled, lines, all[k].node)]),
                 LAMBDA hint : RangeContains(range, hint.position))

-----------------------------------------------------------------------------
\* Names that no visitor is shown: those of layout qualifiers and of declarations that
\* override qualifiers, and the length of .length().
Shown(token) ==
    /\ text[token] # "length"
    /\ ~\E node \in Nodes(Info) :
          \/ token \in ToSet(node.layout)
          \/ /\ node.kind = "TypeQualifierOverrideDecl"
             /\ node.kids[1].end <= token /\ token < node.end

\* Tokens are coloured by two passes, one over the tokens and one over the tree, and
\* the encoding that follows is relative: in a program without errors no token is
\* coloured twice, and every name is coloured, but for those no visitor is shown.
ColouredOnce ==
    Clean =>
    LET tokens == CollectSemanticTokens(Info)
        coloured == {tokens[k].token : k \in DOMAIN tokens}
    IN /\ Cardinality(coloured) = Len(tokens)
       /\ \A t \in 1 .. Len(text) : text[t] \in Names /\ Shown(t) => t \in coloured

\* Where the arguments of a call begin by the text alone: behind its '(' and behind
\* the commas that are in no other parentheses or brackets.
Nesting(from, to) ==
    Cardinality({t \in from .. to : text[t] \in {"(", "["}})
    - Cardinality({t \in from .. to : text[t] \in {")", "]"}})
ArgumentTokens(call) ==
    {t \in call.name + 2 .. call.end - 1 :
        text[t - 1] \in {"(", ","} /\ Nesting(call.name + 1, t - 1) = 1 /\ text[t] # ")"}

\* In a program without errors the hint of a parameter with a name stands right before
\* its argument; that of an argument in parentheses stands inside them.
HintsNameArguments ==
    Clean =>
    LET all == TextRange(0, TokenStart(Len(text) + 1))
        hints == ToSet(HandleInlayHints(Info, {"argumentName"}, 0, all))
    IN \A call \in Nodes(Info) :
        call.kind = "FunctionCallExpr" /\ call.decl # 0 =>
        LET params == GetParams(DeclById(Info, call.decl))
            starts == SetToSortSeq(ArgumentTokens(call), <)
        IN /\ Len(starts) = Len(params)
           /\ \A k \in DOMAIN params : params[k].name # 0 /\ text[starts[k]] # "(" =>
                [position |-> TokenStart(starts[k]),
                 label |-> <<":", text[params[k].name], IsOutputParam(params[k])>>] \in hints
=============================================================================
