----------------------------- MODULE SyntaxTree -----------------------------
(***************************************************************************)
(* The syntax tree: one constructor per class of node, which fixes the     *)
(* children in the order in which DoTraverse visits them, and AstVisitor,  *)
(* the traversal that every language feature is written with.              *)
(*                                                                         *)
(* A node is a record.  begin and end are the token positions of its       *)
(* half-open syntax range; name is the position of its name token, 0 when  *)
(* it has none; decl is the declaration a name was resolved to; type is    *)
(* the type it was given; op an operator, a literal or a type's name.  A   *)
(* declaration is known by the position of its name, a struct or a block   *)
(* by that of its first token.  An optional child is a sequence of at most *)
(* one node.  Printing is left out.                                        *)
(***************************************************************************)
EXTENDS Naturals, Sequences, SequencesExt

ErrorType == [shape |-> "error"]

Node(kind, kids) ==
    [kind |-> kind, kids |-> kids, begin |-> 0, end |-> 0, name |-> 0,
     decl |-> 0, type |-> ErrorType, op |-> "", quals |-> {}, layout |-> <<>>, scope |-> ""]

Named(node, name) == [node EXCEPT !.name = name]
WithOp(node, op) == [node EXCEPT !.op = op]
SetType(node, type) == [node EXCEPT !.type = type]
SetResolvedDecl(node, decl) == [node EXCEPT !.decl = decl]
SetScope(node, scope) == [node EXCEPT !.scope = scope]
Initialize(node, begin, end) == [node EXCEPT !.begin = begin, !.end = end]

-----------------------------------------------------------------------------
(* The root, qualifiers and types.                                         *)
AstTranslationUnit(decls) == Node("TranslationUnit", decls)

\* An unsized dimension has no expression, and no child; op tells of the last one.
AstArraySpec(sizes) ==
    WithOp(Node("ArraySpec", SelectSeq(sizes, LAMBDA e : e.kind # "Unsized")),
           IF Last(sizes).kind = "Unsized" THEN "unsized" ELSE "sized")

\* items are the [name, value] of layout(...).
AstTypeQualifierSeq(quals, items) ==
    [Node("TypeQualifierSeq", FlattenSeq([i \in DOMAIN items |-> items[i].value]))
        EXCEPT !.quals = quals, !.layout = [i \in DOMAIN items |-> items[i].name]]

AstQualType(qualifiers, structDecl, arraySpec) ==
    Node("QualType", qualifiers \o structDecl \o arraySpec)

-----------------------------------------------------------------------------
(* Initializers and expressions.                                           *)
AstInitializerList(items) == Node("InitializerList", items)
AstErrorExpr == Node("ErrorExpr", <<>>)
AstLiteralExpr(value) == WithOp(Node("LiteralExpr", <<>>), value)
AstNameAccessExpr(name) == Named(Node("NameAccessExpr", <<>>), name)
AstFieldAccessExpr(base, name) == Named(Node("FieldAccessExpr", <<base>>), name)
AstSwizzleAccessExpr(base, name) == Named(Node("SwizzleAccessExpr", <<base>>), name)
AstIndexAccessExpr(base, index) == Node("IndexAccessExpr", <<base, index>>)
AstUnaryExpr(operand, opcode) == WithOp(Node("UnaryExpr", <<operand>>), opcode)
AstBinaryExpr(lhs, rhs, opcode) == WithOp(Node("BinaryExpr", <<lhs, rhs>>), opcode)
AstSelectExpr(condition, trueExpr, falseExpr) ==
    Node("SelectExpr", <<condition, trueExpr, falseExpr>>)
AstImplicitCastExpr(operand) == Node("ImplicitCastExpr", <<operand>>)
AstFunctionCallExpr(name, args) == Named(Node("FunctionCallExpr", args), name)
AstConstructorCallExpr(constructedType, args) ==
    Node("ConstructorCallExpr", <<constructedType>> \o args)

-----------------------------------------------------------------------------
(* Statements.                                                             *)
AstErrorStmt == Node("ErrorStmt", <<>>)
AstEmptyStmt == Node("EmptyStmt", <<>>)
AstCompoundStmt(children) == Node("CompoundStmt", children)
AstExprStmt(expr) == Node("ExprStmt", <<expr>>)
AstDeclStmt(decl) == Node("DeclStmt", <<decl>>)
AstIfStmt(condition, thenStmt, elseStmt) == Node("IfStmt", <<condition, thenStmt>> \o elseStmt)
\* Mutant: the step of a loop is visited before its condition.
ForIterFirst(init, condition, iter, body) ==
    Node("ForStmt", <<init>> \o iter \o condition \o <<body>>)

AstForStmt(init, condition, iter, body) ==
    Node("ForStmt", <<init>> \o condition \o iter \o <<body>>)
AstWhileStmt(condition, body) == Node("WhileStmt", <<condition, body>>)

\* The condition stands after the body in the text, and is visited before it.
AstDoWhileStmt(condition, body) == Node("DoWhileStmt", <<condition, body>>)

AstLabelStmt(caseExpr) == Node("LabelStmt", caseExpr)
AstSwitchStmt(testExpr, body) == Node("SwitchStmt", <<testExpr, body>>)
AstJumpStmt(jumpType) == WithOp(Node("JumpStmt", <<>>), jumpType)
AstReturnStmt(expr) == Node("ReturnStmt", expr)

-----------------------------------------------------------------------------
(* Declarations.  A declarator is [name, arraySpec, initializer]; those of *)
(* a block instance and of a parameter are no nodes of their own.          *)
Declarator(name, arraySpec, initializer) ==
    [name |-> name, arraySpec |-> arraySpec, initializer |-> initializer]
DeclaratorKids(d) == d.arraySpec \o d.initializer

AstErrorDecl == Node("ErrorDecl", <<>>)
AstEmptyDecl == Node("EmptyDecl", <<>>)
AstPrecisionDecl(type) == Node("PrecisionDecl", <<type>>)
AstGlobalQualifierDecl(quals) == Node("GlobalQualifierDecl", <<quals>>)
\* The overridden names are tokens, which no visitor is shown.
AstTypeQualifierOverrideDecl(quals) == Node("TypeQualifierOverrideDecl", <<quals>>)

\* AstDeclaratorDeclImpl and AstDeclaratorGroupDeclImpl.
DeclaratorDecl(kind, d) == Named(Node(kind, DeclaratorKids(d)), d.name)
DeclaratorGroup(kind, qualType, declarators) == Node(kind, <<qualType>> \o declarators)

AstVariableDeclaratorDecl(d) == DeclaratorDecl("VariableDeclaratorDecl", d)
AstVariableDecl(qualType, declarators) == DeclaratorGroup("VariableDecl", qualType, declarators)
AstStructFieldDeclaratorDecl(d) == DeclaratorDecl("StructFieldDeclaratorDecl", d)
AstStructFieldDecl(qualType, declarators) ==
    DeclaratorGroup("StructFieldDecl", qualType, declarators)
AstStructDecl(name, members) == Named(Node("StructDecl", members), name)
AstBlockFieldDeclaratorDecl(d) == DeclaratorDecl("BlockFieldDeclaratorDecl", d)
AstBlockFieldDecl(qualType, declarators) ==
    DeclaratorGroup("BlockFieldDecl", qualType, declarators)

\* name is that of the block; that of its instance, if any, is kept in decl.
AstInterfaceBlockDecl(quals, name, members, instance) ==
    [Named(Node("InterfaceBlockDecl",
                <<quals>> \o members
                \o (IF instance = <<>> THEN <<>> ELSE DeclaratorKids(instance[1]))), name)
        EXCEPT !.decl = IF instance = <<>> THEN 0 ELSE instance[1].name]

AstParamDecl(qualType, d) ==
    IF d = <<>> THEN Node("ParamDecl", <<qualType>>)
    ELSE Named(Node("ParamDecl", <<qualType>> \o DeclaratorKids(d[1])), d[1].name)

AstFunctionDecl(returnType, name, params, body) ==
    Named(Node("FunctionDecl", <<returnType>> \o params \o body), name)

-----------------------------------------------------------------------------
(* AstNode::Is for the bases of the class hierarchy, and the children by    *)
(* what they are.                                                          *)
IsExpr(node) ==
    node.kind \in {"ErrorExpr", "LiteralExpr", "NameAccessExpr", "FieldAccessExpr",
                   "SwizzleAccessExpr", "IndexAccessExpr", "UnaryExpr", "BinaryExpr",
                   "SelectExpr", "ImplicitCastExpr", "FunctionCallExpr", "ConstructorCallExpr"}
IsStmt(node) ==
    node.kind \in {"ErrorStmt", "EmptyStmt", "CompoundStmt", "ExprStmt", "DeclStmt", "ForStmt",
                   "DoWhileStmt", "WhileStmt", "IfStmt", "LabelStmt", "SwitchStmt", "JumpStmt",
                   "ReturnStmt"}
OfKind(node, kinds) == SelectSeq(node.kids, LAMBDA kid : kid.kind \in kinds)

GetQualType(node) == OfKind(node, {"QualType"})[1]
GetQualifiers(qualType) == OfKind(qualType, {"TypeQualifierSeq"})
GetStructDecl(qualType) == OfKind(qualType, {"StructDecl"})
GetArraySpec(node) == OfKind(node, {"ArraySpec"})
GetInitializer(declarator) ==
    SelectSeq(declarator.kids, LAMBDA kid : kid.kind = "InitializerList" \/ IsExpr(kid))
GetDeclarators(group) ==
    OfKind(group, {"VariableDeclaratorDecl", "StructFieldDeclaratorDecl", "BlockFieldDeclaratorDecl"})
GetMembers(decl) == OfKind(decl, {"StructFieldDecl", "BlockFieldDecl"})
GetParams(function) == OfKind(function, {"ParamDecl"})
GetBody(function) == SelectSeq(function.kids, IsStmt)
GetArgs(call) == SelectSeq(call.kids, IsExpr)

QualGroup(qualType) ==
    LET seqs == GetQualifiers(qualType) IN IF seqs = <<>> THEN {} ELSE seqs[1].quals
IsConstVariable(qualType) == "const" \in QualGroup(qualType)
IsInputParam(param) == "out" \notin QualGroup(GetQualType(param))
IsOutputParam(param) == {"out", "inout"} \cap QualGroup(GetQualType(param)) # {}

-----------------------------------------------------------------------------
(* AstVisitor::Traverse.  The policy that a visitor has for a node: "Halt"  *)
(* ends the traversal, "Leave" skips the node, "Visit" visits it and not   *)
(* its children.  seen is every node that was visited, in order, with its  *)
(* ancestors from the root on (AstVisitorPluginTrackPath).                 *)
TraverseNode(policy, node, path, seen) ==
    [seen |-> IF policy \in {"Visit", "Traverse"}
              THEN Append(seen, [node |-> node, path |-> path]) ELSE seen,
     kids |-> IF policy = "Traverse" THEN node.kids ELSE <<>>,
     halted |-> policy = "Halt"]

Traverse(root, Enter(_)) ==
    LET RECURSIVE Go(_, _, _), GoKids(_, _, _)
        Go(node, path, seen) ==
            LET step == TraverseNode(Enter(node), node, path, seen)
            IN GoKids(step, 1, Append(path, node))
        GoKids(step, k, path) ==
            IF step.halted \/ k > Len(step.kids) THEN step
            ELSE LET one == Go(step.kids[k], path, step.seen)
                 IN GoKids([step EXCEPT !.seen = one.seen, !.halted = one.halted], k + 1, path)
    IN Go(root, <<>>, <<>>).seen

\* EnterAstNode when the visitor does not define it.
EnterAll(node) == "Traverse"
AllNodes(root) == Traverse(root, EnterAll)
=============================================================================
