----------------------------- MODULE Completion -----------------------------
(***************************************************************************)
(* Completion and signature help: what is offered at a cursor, from the    *)
(* nodes on the way to it, and from the declarations it can see.           *)
(*                                                                         *)
(* The items of the preamble, the keywords and the macros, which do not    *)
(* depend on the cursor, are left out.                                     *)
(***************************************************************************)
EXTENDS Navigation

\* The token the cursor is in or after, but not before.
CheckTokenForReplacement(token, position) ==
    token # 0 /\ RangeContains(TextRange(TokenStart(token) + 1, TokenEnd(token) + 1), position)

OnToken(token, position) == RangeContains(TokenRange(token), position)
OnTokenExtended(token, position) == RangeContainsExtended(TokenRangeExtended(token), position)
\* Past a token, and not past the start of the next one.
AfterToken(token, position) == OnTokenExtended(token, position) /\ ~OnToken(token, position)

\* The '.' of an access, 0 when neither of its last two tokens is one.
LookupDotTokenIndex(info, expr) ==
    LET last == expr.end - 1 IN
    CASE expr.begin < expr.end /\ info.text[last] = "." -> last
      [] expr.end - expr.begin > 1 /\ info.text[last] # "." /\ info.text[last - 1] = "." -> last - 1
      [] OTHER -> 0

-----------------------------------------------------------------------------
(***************************************************************************)
(* CompletionTypeDecider: what the nodes on the way to the cursor say of   *)
(* it.  The name of a declaration is not completed, nor a literal, nor a   *)
(* parameter.                                                              *)
(***************************************************************************)
DisablesCompletion(info, node, position) ==
    CASE node.kind \in {"LiteralExpr", "ParamDecl"} -> TRUE
      [] node.kind = "FunctionCallExpr" ->
             /\ ~CheckTokenForReplacement(node.name, position)
             /\ AfterToken(node.name, position)
      [] node.kind \in {"StructDecl", "StructFieldDeclaratorDecl", "VariableDeclaratorDecl"} ->
             node.name # 0 /\ OnTokenExtended(node.name, position)
      [] OTHER -> FALSE

IsAccess(node) == node.kind \in {"FieldAccessExpr", "SwizzleAccessExpr"}
AccessesAt(info, node, position) ==
    LET dot == LookupDotTokenIndex(info, node) IN
    /\ IsAccess(node)
    /\ \/ CheckTokenForReplacement(node.name, position)
       \/ ~CheckTokenForReplacement(node.name, position) /\ dot # 0 /\ AfterToken(dot, position)

InBody(node, position) ==
    /\ node.kind = "FunctionDecl"
    /\ GetBody(node) # <<>>
    /\ ContainsPosition(GetBody(node)[1], position)

\* Later visits override earlier ones, so that the innermost access decides.
CompletionTypeOf(info, nodes, position) ==
    LET Some_(P(_)) == \E k \in DOMAIN nodes : P(nodes[k])
        accesses == SelectSeq(nodes, LAMBDA n : AccessesAt(info, n, position))
        base == IF accesses = <<>> THEN <<>> ELSE <<accesses[Len(accesses)].kids[1]>>
        names == SelectSeq(nodes, LAMBDA n :
                     /\ IsAccess(n) \/ n.kind \in {"NameAccessExpr", "FunctionCallExpr"}
                     /\ CheckTokenForReplacement(n.name, position))
        disabled == Some_(LAMBDA n : DisablesCompletion(info, n, position))
        inFunction == Some_(LAMBDA n : InBody(n, position))
        inStruct == Some_(LAMBDA n : n.kind \in {"StructDecl", "InterfaceBlockDecl"})
        free == ~disabled /\ base = <<>>
    IN [accessChainBase |-> IF disabled THEN <<>> ELSE base,
        pending |-> IF names = <<>> THEN 0 ELSE names[Len(names)].name,
        allowed |-> (IF free /\ (inFunction \/ inStruct) THEN {"Struct"} ELSE {})
                    \cup (IF free /\ inFunction THEN {"Function", "Variable"} ELSE {})]
CompletionType(info, position) == CompletionTypeOf(info, NodesAt(info, position), position)

-----------------------------------------------------------------------------
(* CollectCompletionFromDecl: the names a declaration declares.            *)
Item(token, kind) == [token |-> token, kind |-> kind]
CompletionsOfDecl(decl) ==
    LET Variables(tokens) == [k \in DOMAIN tokens |-> Item(tokens[k], "Variable")]
    IN CASE decl.kind = "FunctionDecl" -> <<Item(decl.name, "Function")>>
         [] decl.kind = "ParamDecl" -> Variables(<<decl.name>>)
         [] decl.kind = "VariableDecl" ->
                LET struct == GetStructDecl(GetQualType(decl))
                    declarators == GetDeclarators(decl)
                IN [k \in DOMAIN struct |-> Item(struct[k].name, "Struct")]
                   \o Variables([k \in DOMAIN declarators |-> declarators[k].name])
         [] decl.kind = "InterfaceBlockDecl" ->
                Variables(IF decl.decl # 0 THEN <<decl.decl>> ELSE FieldNames(decl))
         [] OTHER -> <<>>

IsDecl(node) ==
    node.kind \in DeclKinds \cup {"ErrorDecl", "EmptyDecl", "VariableDecl", "StructFieldDecl",
                                  "BlockFieldDecl", "PrecisionDecl", "GlobalQualifierDecl",
                                  "TypeQualifierOverrideDecl"}

\* Mutant: what is declared inside the function of the cursor is not looked for.
VisitsAllDecls(node, position) ==
    IF node.kind = "TranslationUnit" THEN "Traverse" ELSE IF IsDecl(node) THEN "Visit" ELSE "Leave"

\* All global declarations, and those inside the function of the cursor, but for the
\* blocks that end before it.
EnterCompletion(node, position) ==
    CASE node.kind = "TranslationUnit" -> "Traverse"
      [] IsDecl(node) ->
             IF node.kind = "FunctionDecl" /\ ContainsPosition(node, position) THEN "Traverse"
             ELSE "Visit"
      [] IsStmt(node) ->
             IF node.kind = "CompoundStmt" /\ PrecedesPosition(node, position) THEN "Leave"
             ELSE "Traverse"
      [] OTHER -> "Leave"

\* CompletionCollector: one item for each name, of the kind of its last declaration.
CollectCompletion(info, position, allowed) ==
    LET Enter(node) == EnterCompletion(node, position)
        visited == Traverse(info.tree, Enter)
        all == FlattenSeq([k \in DOMAIN visited |-> CompletionsOfDecl(visited[k].node)])
        items == SelectSeq(all, LAMBDA item : item.token # 0 /\ item.kind \in allowed)
        name(k) == info.text[items[k].token]
    IN {[label |-> name(k), kind |-> items[k].kind] :
            k \in {j \in DOMAIN items : \A l \in DOMAIN items : l > j => name(l) # name(j)}}

\* expr.^: the length of an array or a vector, the components, the members.
AccessChainItems(info, base, pending) ==
    LET type == base.type
        struct == DeclById(info, StructOf(type))
        Field(label) == [label |-> label, kind |-> "Field"]
    IN (IF type.shape \in {"array", "vector", "matrix"}
        THEN {[label |-> "length", kind |-> "Method"]} ELSE {})
       \cup (CASE type.shape = "vector" -> {Field(IF pending = 0 THEN "component" ELSE "extension")}
               [] type.shape = "struct" ->
                      {Field(info.text[FieldNames(struct)[k]]) : k \in DOMAIN FieldNames(struct)}
               [] OTHER -> {})

CompletionsFor(info, position, type) ==
    CASE type.accessChainBase # <<>> ->
             AccessChainItems(info, type.accessChainBase[1], type.pending)
      [] OTHER -> IF type.allowed = {} THEN {} ELSE CollectCompletion(info, position, type.allowed)
HandleCompletion(info, position) ==
    CompletionsFor(info, position, CompletionType(info, position))

-----------------------------------------------------------------------------
(***************************************************************************)
(* HandleSignatureHelp: the innermost call around the position, and every  *)
(* global function of its name.                                            *)
(***************************************************************************)
HandleSignatureHelp(info, position) ==
    LET nodes == NodesAt(info, position)
        calls == SelectSeq(nodes, LAMBDA n : n.kind = "FunctionCallExpr")
        name == info.text[calls[Len(calls)].name]
        decls == info.tree.kids
    IN IF calls = <<>> THEN {}
       ELSE {decls[k].name : k \in {j \in DOMAIN decls : /\ decls[j].kind = "FunctionDecl"
                                                         /\ info.text[decls[j].name] = name}}

-----------------------------------------------------------------------------
\* The names used in function bodies.
NamesInBodies ==
    {s \in Symbols : /\ s.decl # 0 /\ ~s.isDeclaration /\ IsExpr(s.owner)
                     /\ ~Unreached(s.token)
                     /\ \E f \in Nodes(Info) : InBody(f, TokenStart(s.token))}
\* Where signature help is asked for: after the '(' of a call and after its commas.
ArgumentStarts(call) ==
    {TokenEnd(call.name + 1)}
    \cup {TokenEnd(GetArgs(call)[k].begin - 1) :
            k \in {j \in 2 .. Len(GetArgs(call)) : text[GetArgs(call)[j].begin - 1] = ","}}

\* Completion and the parser know of scopes in ways of their own; still, in a program
\* without errors every name that the parser resolved in a function body is offered
\* when the cursor is in it, a member after '.' and no other, and signature help at an argument is
\* about the function whose argument it is.
CompletionOffersVisible ==
    Clean =>
    /\ \A s \in NamesInBodies :
          \E item \in HandleCompletion(Info, TokenStart(s.token) + 1) :
              /\ item.label = text[s.token]
              /\ item.kind = "Field" <=> s.owner.kind = "FieldAccessExpr"
    /\ \A call \in Nodes(Info) :
          call.kind = "FunctionCallExpr" /\ ~Unreached(call.name) =>
          \A position \in ArgumentStarts(call) :
              HandleSignatureHelp(Info, position) =
                  {decl.name : decl \in {d \in ToSet(Tree.kids) :
                      d.kind = "FunctionDecl" /\ text[d.name] = text[call.name]}}
=============================================================================
