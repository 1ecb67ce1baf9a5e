--------------------------- MODULE LanguageQuery ---------------------------
(***************************************************************************)
(* What the language features ask of a compiled document: where its tokens *)
(* and nodes stand in the text, and which symbol stands at a position.     *)
(*                                                                         *)
(* info is [text, tree], the tokens and the syntax tree over them.  A      *)
(* token is two characters wide with a blank after it, so that token k has *)
(* the positions 3k, before it, 3k + 1, inside it, and 3k + 2, after it.   *)
(* Macros and header names, which are looked up before the tree, and the   *)
(* comments of a declaration are left out.                                 *)
(***************************************************************************)
EXTENDS Parser

TextRange(start, end) == [start |-> start, end |-> end]
RangeContains(range, position) == range.start <= position /\ position < range.end
RangeContainsExtended(range, position) == range.start <= position /\ position <= range.end

TokenStart(token) == 3 * token
TokenEnd(token) == 3 * token + 2
TokenRange(token) == TextRange(TokenStart(token), TokenEnd(token))
TokenRangeExtended(token) == TextRange(TokenStart(token), TokenStart(token + 1))

\* The range of a node without tokens is empty, at the token after it.
LookupExpandedTextRange(node) ==
    IF node.begin = node.end THEN TextRange(TokenStart(node.begin), TokenStart(node.begin))
    ELSE TextRange(TokenStart(node.begin), TokenEnd(node.end - 1))

\* The same with the blanks after it.
LookupExpandedTextRangeExtended(node) ==
    TextRange(TokenStart(node.begin), TokenStart(node.end))

PrecedesPosition(node, position) == LookupExpandedTextRange(node).end < position
ContainsPosition(node, position) == RangeContains(LookupExpandedTextRange(node), position)
ContainsPositionExtended(node, position) ==
    RangeContainsExtended(LookupExpandedTextRangeExtended(node), position)

\* The way to a position: nodes before it are passed, the first one after it ends
\* the search.
TraverseNodeContains(node, position) ==
    CASE ContainsPositionExtended(node, position) -> "Traverse"
      [] ~ContainsPositionExtended(node, position) /\ PrecedesPosition(node, position) -> "Leave"
      [] OTHER -> "Halt"

NodesAt(info, position) ==
    LET Enter(node) == TraverseNodeContains(node, position)
        visited == Traverse(info.tree, Enter)
    IN [k \in DOMAIN visited |-> visited[k].node]

-----------------------------------------------------------------------------
(* Declarations by their id.                                               *)
DeclKinds == {"VariableDeclaratorDecl", "StructFieldDeclaratorDecl", "BlockFieldDeclaratorDecl",
              "StructDecl", "InterfaceBlockDecl", "ParamDecl", "FunctionDecl"}
DeclId(decl) == IF decl.kind \in {"StructDecl", "InterfaceBlockDecl"} THEN decl.begin ELSE decl.name
Nodes(info) == LET all == AllNodes(info.tree) IN {all[k].node : k \in DOMAIN all}
DeclsOf(info) == {node \in Nodes(info) : node.kind \in DeclKinds /\ DeclId(node) # 0}
NoNode == Node("none", <<>>)
DeclById(info, id) ==
    LET declared == {decl \in DeclsOf(info) : DeclId(decl) = id}
    IN IF declared = {} THEN NoNode ELSE CHOOSE decl \in declared : TRUE

\* The struct a type is made of, 0 when it is of none.
RECURSIVE InnerType(_)
InnerType(type) == IF type.shape = "array" THEN InnerType(type.elem) ELSE type
StructOf(type) == IF type.shape = "struct" THEN type.id ELSE 0

-----------------------------------------------------------------------------
(***************************************************************************)
(* SymbolQueryVisitor.  A symbol is the token that names it, its kind, the *)
(* node it was found at, its declaration and whether it is declared there. *)
(***************************************************************************)
NoSymbol == <<>>
FoundSymbol(token, node, decl, type, isDeclaration) ==
    IF token = 0 THEN NoSymbol
    ELSE <<[token |-> token, owner |-> node, decl |-> decl, type |-> type,
            isDeclaration |-> isDeclaration]>>

\* A keyword that names a type is no symbol.  A struct is found at its declaration.
VisitQualType(info, node) ==
    IF GetStructDecl(node) # <<>> \/ node.name = 0 \/ node.op \in {"int", "vec2", "void"} THEN NoSymbol
    ELSE FoundSymbol(node.name, node, StructOf(InnerType(node.type)), "Type", FALSE)

VariableSymbolType(decl) ==
    IF decl.kind = "VariableDeclaratorDecl" /\ decl.scope # "Global" THEN "LocalVariable"
    ELSE "GlobalVariable"
AccessType(decl) ==
    CASE decl.kind = "ParamDecl" -> "Parameter"
      [] decl.kind = "InterfaceBlockDecl" -> "BlockInstance"
      [] decl.kind = "BlockFieldDeclaratorDecl" -> "BlockMember"
      [] OTHER -> VariableSymbolType(decl)
FieldAccessType(decl) ==
    IF decl.kind = "BlockFieldDeclaratorDecl" THEN "BlockMember" ELSE "StructMember"

DeclaredSymbol(node, type) == FoundSymbol(node.name, node, DeclId(node), type, TRUE)

\* The symbols at a node itself.
SymbolsAt(info, node) ==
    CASE node.kind = "TypeQualifierSeq" ->
             FlattenSeq([k \in DOMAIN node.layout |->
                 FoundSymbol(node.layout[k], node, 0, "LayoutQualifier", FALSE)])
      [] node.kind = "QualType" -> VisitQualType(info, node)
      [] node.kind = "NameAccessExpr" ->
             FoundSymbol(node.name, node, node.decl, AccessType(DeclById(info, node.decl)), FALSE)
      [] node.kind = "FieldAccessExpr" ->
             FoundSymbol(node.name, node, node.decl, FieldAccessType(DeclById(info, node.decl)), FALSE)
      [] node.kind = "SwizzleAccessExpr" -> FoundSymbol(node.name, node, 0, "Swizzle", FALSE)
      [] node.kind = "FunctionCallExpr" ->
             FoundSymbol(node.name, node, node.decl, "Function", FALSE)
      [] node.kind = "VariableDeclaratorDecl" -> DeclaredSymbol(node, VariableSymbolType(node))
      [] node.kind = "StructFieldDeclaratorDecl" -> DeclaredSymbol(node, "StructMember")
      [] node.kind = "StructDecl" -> DeclaredSymbol(node, "Type")
      [] node.kind = "BlockFieldDeclaratorDecl" -> DeclaredSymbol(node, "BlockMember")
      [] node.kind = "InterfaceBlockDecl" ->
             DeclaredSymbol(node, "Block")
             \o FoundSymbol(node.decl, node, DeclId(node), "BlockInstance", TRUE)
      [] node.kind = "ParamDecl" -> DeclaredSymbol(node, "Parameter")
      [] node.kind = "FunctionDecl" -> DeclaredSymbol(node, "Function")
      [] OTHER -> NoSymbol

\* The first symbol on the way to the position whose name contains it.
QuerySymbolByPosition(info, position) ==
    LET nodes == NodesAt(info, position)
        found == SelectSeq(FlattenSeq([k \in DOMAIN nodes |-> SymbolsAt(info, nodes[k])]),
                           LAMBDA s : RangeContains(TokenRange(s.token), position))
    IN IF found = <<>> THEN NoSymbol ELSE <<found[1]>>

-----------------------------------------------------------------------------
(* The document as it stands.                                              *)
Info == [text |-> text, tree |-> Tree]

Symbols ==
    LET all == AllNodes(Tree)
    IN UNION {ToSet(SymbolsAt(Info, all[k].node)) : k \in DOMAIN all}

\* What the search does not reach: the body of a do-while, which is visited after the
\* condition that follows it in the text, and the type with which a statement begins
\* that turns out to be an expression, which is not in the range of the statement.
Unreached(token) ==
    \E node \in Nodes(Info) :
        \/ node.kind = "DoWhileStmt" /\ node.kids[2].begin <= token /\ token < node.kids[2].end
        \/ node.kind = "ExprStmt" /\ node.kids[1].begin <= token /\ token < node.begin

\* The search for the symbol at a position, which follows the ranges of the nodes and
\* stops at the first one past it, finds in a program without errors every name that
\* a visit of the whole tree comes across, but for those two.
SearchFindsNames ==
    Clean => \A symbol \in Symbols :
        \/ Unreached(symbol.token)
        \/ \A position \in {TokenStart(symbol.token), TokenStart(symbol.token) + 1} :
               QuerySymbolByPosition(Info, position) = <<symbol>>

\* The declaration a name means, by the text alone: of those that are complete before
\* the name and whose scope it is in, the first one in the innermost scope.
OpensScope(path, k) ==
    \/ path[k].kind \in {"TranslationUnit", "FunctionDecl", "ForStmt", "SwitchStmt"}
    \/ path[k].kind = "CompoundStmt" /\ path[k - 1].kind \notin {"FunctionDecl", "SwitchStmt"}
ScopeDepth(path) == CHOOSE k \in DOMAIN path :
    OpensScope(path, k) /\ \A j \in k + 1 .. Len(path) : ~OpensScope(path, j)
Place(node) == <<node.kind, node.begin, node.end>>
InScopeOf(use, declared) ==
    LET depth == ScopeDepth(declared.path)
    IN depth <= Len(use.path) /\ Place(use.path[depth]) = Place(declared.path[depth])
DeclaredName(node) == IF node.kind = "InterfaceBlockDecl" THEN node.decl ELSE node.name
\* Where a declaration is complete: with all its declarators, or as a parameter.
EndOfDecl(declared) ==
    LET last == declared.path[Len(declared.path)]
    IN IF declared.node.kind \in {"VariableDeclaratorDecl", "BlockFieldDeclaratorDecl"}
       THEN last.end ELSE declared.node.end
\* A struct is defined by a declaration of variables.  Members with a parent that is
\* itself named are reached by '.' only.
IsFreeName(declared) ==
    LET above == declared.path[Len(declared.path) - 1] IN
    \/ declared.node.kind \in {"VariableDeclaratorDecl", "ParamDecl", "InterfaceBlockDecl"}
    \/ declared.node.kind = "StructDecl" /\ above.kind = "VariableDecl"
    \/ declared.node.kind = "BlockFieldDeclaratorDecl" /\ above.decl = 0
Meant(use, all) ==
    LET visible == {k \in DOMAIN all :
            /\ IsFreeName(all[k])
            /\ DeclaredName(all[k].node) # 0
            /\ text[DeclaredName(all[k].node)] = text[use.node.name]
            /\ EndOfDecl(all[k]) <= use.node.begin
            /\ InScopeOf(use, all[k])}
        best == CHOOSE k \in visible : \A j \in visible :
            \/ ScopeDepth(all[k].path) > ScopeDepth(all[j].path)
            \/ ScopeDepth(all[k].path) = ScopeDepth(all[j].path) /\ k <= j
    IN IF visible = {} THEN 0 ELSE DeclId(all[best].node)

\* What the symbol table, whose levels are pushed and popped all over the parser,
\* resolves a name to is the declaration that it means in the text.
NamesResolvedByScope ==
    Clean => LET all == AllNodes(Tree) IN
        \A k \in DOMAIN all :
            all[k].node.kind = "NameAccessExpr" => all[k].node.decl = Meant(all[k], all)
=============================================================================
