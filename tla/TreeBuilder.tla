----------------------------- MODULE TreeBuilder -----------------------------
(***************************************************************************)
(* The AST builder as the parser calls it: each Build function creates a   *)
(* node that begins at a given token and ends at the cursor, resolves the  *)
(* names in it against the symbol table, gives it a type, and enters what  *)
(* it declares.  The types are those of Typing; of constants, only a       *)
(* literal is evaluated.  Constness is left out.                           *)
(***************************************************************************)
EXTENDS ParserState, SyntaxTree

T == INSTANCE Typing

CreateAstNode(s, begin, node) == Yield(s, Initialize(node, begin, s.i))

Types == [int |-> T!IntType, bool |-> T!BoolType, vec2 |-> T!Vector("float", 2), void |-> Void]
StructType(id) == [shape |-> "struct", id |-> id]

\* An expression is cast to any other type but the error type.
TryMakeImplicitCast(expr, type) ==
    IF expr.type = type \/ type = ErrorType \/ expr.kind \in {"Unsized", "InitializerList"}
    THEN expr
    ELSE SetType(Initialize(AstImplicitCastExpr(expr), expr.begin, expr.end), type)

RECURSIVE EvalAstInitializer(_)
EvalAstInitializer(expr) ==
    CASE expr.kind = "LiteralExpr" /\ expr.op = "1" -> 1
      [] expr.kind = "ImplicitCastExpr" -> EvalAstInitializer(expr.kids[1])
      [] OTHER -> 0

\* The dimensions are applied from the left: the last one is the outermost.
RECURSIVE ArrayType(_, _)
ArrayType(type, sizes) ==
    IF sizes = <<>> THEN type
    ELSE ArrayType(T!ArrayOf(type, EvalAstInitializer(Head(sizes))), Tail(sizes))

\* arraySpec is [node, sizes], or empty: an unsized dimension is no child of the node.
NoArraySpec == <<>>
SpecNode(arraySpec) == [k \in DOMAIN arraySpec |-> arraySpec[k].node]
GetArrayType(type, arraySpec) ==
    IF type = ErrorType \/ arraySpec = NoArraySpec THEN type
    ELSE ArrayType(type, arraySpec[1].sizes)

BuildArraySpec(s, begin, sizes) ==
    LET cast == [k \in DOMAIN sizes |-> TryMakeImplicitCast(sizes[k], T!IntType)]
    IN Yield(s, <<[node |-> Initialize(AstArraySpec(cast), begin, s.i), sizes |-> cast]>>)

BuildQualTypeOfName(s, begin, quals, name, arraySpec) ==
    LET spelled == s.text[name]
        symbol == FindSymbol(s, spelled)
        base == CASE spelled \in BuiltinTypes -> Types[spelled]
                  [] spelled \in Names /\ symbol.kind = "StructDecl" -> symbol.type
                  [] OTHER -> ErrorType
        node == WithOp(Named(AstQualType(quals, <<>>, SpecNode(arraySpec)), name), spelled)
    IN CreateAstNode(s, begin, SetType(node, GetArrayType(base, arraySpec)))

BuildQualTypeOfStruct(s, begin, quals, structDecl, arraySpec) ==
    CreateAstNode(s, begin,
        SetType(AstQualType(quals, <<structDecl>>, SpecNode(arraySpec)),
                GetArrayType(structDecl.type, arraySpec)))

\* GetComponentType: what the k-th value of a list initializes.
ComponentType(s, type, k) ==
    CASE type.shape = "vector" /\ k <= type.size -> T!ElementType(type)
      [] type.shape = "array" /\ (type.size = 0 \/ k <= type.size) -> type.elem
      [] type.shape = "struct" ->
             LET members == s.structs[type.id]
             IN IF k <= Len(members) THEN members[k].type ELSE ErrorType
      [] OTHER -> ErrorType
ComponentCast(s, expr, type, k) ==
    CASE T!IsArithmetic(type) /\ T!IsArithmetic(expr.type) ->
             TryMakeImplicitCast(expr, T!WithKind(expr.type, type.kind))
      [] type.shape \in {"struct", "array"} ->
             TryMakeImplicitCast(expr, ComponentType(s, type, k))
      [] OTHER -> expr
InferredSize(type, size) ==
    IF type.shape = "array" /\ type.size = 0 THEN T!ArrayOf(type.elem, size) ELSE type

BuildInitializerList(s, begin, items, type) ==
    LET cast == [k \in DOMAIN items |-> ComponentCast(s, items[k], type, k)]
    IN CreateAstNode(s, begin, SetType(AstInitializerList(cast), InferredSize(type, Len(items))))

-----------------------------------------------------------------------------
(* Expressions.                                                            *)
BuildErrorExpr(s, begin) == CreateAstNode(s, begin, AstErrorExpr)

BuildLiteralExpr(s, begin, value) ==
    CreateAstNode(s, begin,
        SetType(AstLiteralExpr(value), IF value = "true" THEN T!BoolType ELSE T!IntType))

\* A struct's name is resolved to the struct and has no type as an expression.
BuildNameAccessExpr(s, begin, name) ==
    LET symbol == FindSymbol(s, s.text[name])
        node == AstNameAccessExpr(name)
    IN CreateAstNode(s, begin,
           CASE symbol = NoDecl -> node
             [] symbol.kind = "StructDecl" -> SetResolvedDecl(node, symbol.id)
             [] OTHER -> SetType(SetResolvedDecl(node, symbol.id), symbol.type))

\* The components that the names of the programs select.
SwizzleNames == {"a", "b", "g"}
FindMember(s, type, name) ==
    IF type.shape # "struct" THEN <<>>
    ELSE SelectSeq(s.structs[type.id], LAMBDA m : m.name = name)

BuildDotAccessExpr(s, begin, base, name) ==
    LET text == IF name = 0 THEN "" ELSE s.text[name]
        members == FindMember(s, base.type, text)
        swizzle == SetType(AstSwizzleAccessExpr(base, name),
                           IF text \in SwizzleNames THEN T!ElementType(base.type) ELSE ErrorType)
        field == AstFieldAccessExpr(base, name)
    IN CreateAstNode(s, begin,
           CASE base.type.shape \in {"scalar", "vector"} -> swizzle
             [] base.type.shape \notin {"scalar", "vector"} /\ members = <<>> -> field
             [] OTHER -> SetType(SetResolvedDecl(field, members[1].decl), members[1].type))

BuildIndexAccessExpr(s, begin, base, index) ==
    LET node == AstIndexAccessExpr(base, TryMakeImplicitCast(index, T!IntType))
    IN CreateAstNode(s, begin,
           SetType(node, CASE base.type.shape = "array" -> base.type.elem
                           [] base.type.shape = "vector" -> T!ElementType(base.type)
                           [] OTHER -> ErrorType))

UnaryOpOf == ("+" :> "identity") @@ ("-" :> "negate") @@ ("!" :> "not") @@ ("++" :> "increment")
             @@ ("p++" :> "increment") @@ ("length" :> "length")
BuildUnaryExpr(s, begin, operand, op) ==
    CreateAstNode(s, begin, SetType(AstUnaryExpr(operand, op),
                                    T!DeduceUnaryExprType(UnaryOpOf[op], operand.type)))

BinaryOpOf ==
    ("||" :> T!Plain("logicalor")) @@ ("^^" :> T!Plain("logicalxor"))
    @@ ("&&" :> T!Plain("logicaland")) @@ ("|" :> T!Plain("bitor")) @@ ("^" :> T!Plain("bitxor"))
    @@ ("&" :> T!Plain("bitand")) @@ ("==" :> T!Plain("equal")) @@ ("!=" :> T!Plain("notequal"))
    @@ ("<" :> T!Plain("less")) @@ (">" :> T!Plain("greater")) @@ ("<<" :> T!Plain("shiftleft"))
    @@ (">>" :> T!Plain("shiftright")) @@ ("+" :> T!Plain("plus")) @@ ("-" :> T!Plain("minus"))
    @@ ("*" :> T!Plain("mul")) @@ ("/" :> T!Plain("div")) @@ ("%" :> T!Plain("modulo"))
    @@ ("," :> T!Plain("comma")) @@ ("=" :> T!Assigning("assign")) @@ ("+=" :> T!Assigning("plus"))
BinaryExprOf(lhs, rhs, op, info) ==
    SetType(AstBinaryExpr(TryMakeImplicitCast(lhs, info.lhs),
                          TryMakeImplicitCast(rhs, info.rhs), op), info.type)
BuildBinaryExpr(s, begin, lhs, rhs, op) ==
    CreateAstNode(s, begin, BinaryExprOf(lhs, rhs, op,
        T!DeduceBinaryExprType(BinaryOpOf[op], lhs.type, rhs.type)))

BuildSelectExpr(s, begin, condition, yes, no) ==
    LET type == CASE ErrorType \in {yes.type, no.type} -> ErrorType
                  [] ErrorType \notin {yes.type, no.type} /\ T!IsConvertibleTo(yes.type, no.type) ->
                         no.type
                  [] OTHER -> IF T!IsConvertibleTo(no.type, yes.type) THEN yes.type ELSE ErrorType
        node == AstSelectExpr(condition, TryMakeImplicitCast(yes, type),
                              TryMakeImplicitCast(no, type))
    IN CreateAstNode(s, begin, SetType(node, type))

\* Functions are found in the global level only, whatever hides their name.
FindFunction(s, name, args) ==
    T!FindIn(SelectSeq(s.levels[1].funcDeclLookup, LAMBDA f : f.name = name),
             [k \in DOMAIN args |-> args[k].type])
FunctionCallOf(function, name, args) ==
    LET cast == [k \in DOMAIN args |-> TryMakeImplicitCast(args[k], function.params[k].type)] IN
    IF function = T!NotFound THEN AstFunctionCallExpr(name, args)
    ELSE SetType(SetResolvedDecl(AstFunctionCallExpr(name, cast), function.decl), function.ret)
BuildFuntionCallExpr(s, begin, name, args) ==
    CreateAstNode(s, begin, FunctionCallOf(FindFunction(s, s.text[name], args), name, args))

BuildConstructorCallExpr(s, begin, qualType, args) ==
    LET type == InferredSize(qualType.type, Len(args))
        conversion == /\ T!IsArithmetic(type)
                      /\ Len(args) = 1
                      /\ T!IsArithmetic(args[1].type)
                      /\ T!WithKind(args[1].type, "float") = T!WithKind(type, "float")
        cast == IF conversion THEN args
                ELSE [k \in DOMAIN args |-> ComponentCast(s, args[k], type, k)]
    IN CreateAstNode(s, begin, SetType(AstConstructorCallExpr(qualType, cast), type))

BuildReturnStmt(s, begin, expr) ==
    LET cast == [k \in DOMAIN expr |->
                   IF T!IsConvertibleTo(expr[k].type, s.returnType)
                   THEN TryMakeImplicitCast(expr[k], s.returnType) ELSE expr[k]]
    IN CreateAstNode(s, begin, AstReturnStmt(cast))

-----------------------------------------------------------------------------
(* Declarations.  A declarator [name, spec, init] has its array spec and an *)
(* optional initializer.                                                   *)
ParsedDeclarator(name, spec, init) == [name |-> name, spec |-> spec, init |-> init]
NodeOf(d) == Declarator(d.name, SpecNode(d.spec), d.init)

\* An unsized array takes the size of its initializer.
DeclaredType(type, d) ==
    LET full == GetArrayType(type, d.spec) IN
    IF /\ full.shape = "array" /\ d.init # <<>>
    THEN IF /\ full.size = 0 /\ d.init[1].type.shape = "array"
            /\ d.init[1].type.elem = full.elem
         THEN d.init[1].type ELSE full
    ELSE full

\* The declarators of a declaration have its syntax range, all of them.
BuildDeclarator(s, begin, kind, type, d) ==
    SetScope(SetType(Initialize(
        CASE kind = "variable" -> AstVariableDeclaratorDecl(NodeOf(d))
          [] kind = "struct" -> AstStructFieldDeclaratorDecl(NodeOf(d))
          [] kind = "block" -> AstBlockFieldDeclaratorDecl(NodeOf(d)), begin, s.i), type),
        CASE kind = "variable" -> CurrentScope(s) [] kind = "struct" -> "Struct"
          [] kind = "block" -> "Block")

BuildStructFieldDecl(s, begin, qualType, declarators) ==
    CreateAstNode(s, begin, SetScope(AstStructFieldDecl(qualType, [k \in DOMAIN declarators |->
        BuildDeclarator(s, begin, "struct", GetArrayType(qualType.type, declarators[k].spec),
                        declarators[k])]), "Struct"))
BuildBlockFieldDecl(s, begin, qualType, declarators) ==
    CreateAstNode(s, begin, SetScope(AstBlockFieldDecl(qualType, [k \in DOMAIN declarators |->
        BuildDeclarator(s, begin, "block", GetArrayType(qualType.type, declarators[k].spec),
                        declarators[k])]), "Block"))

\* The members of a struct or a block, as its type describes them.
MemberDescs(s, members) ==
    FlattenSeq([m \in DOMAIN members |->
        [k \in DOMAIN GetDeclarators(members[m]) |->
            LET d == GetDeclarators(members[m])[k]
            IN [name |-> s.text[d.name], decl |-> d.name, type |-> d.type]]])
AddStruct(s, id, members) == [s EXCEPT !.structs = @ @@ (id :> MemberDescs(s, members))]

BuildStructDecl(s, begin, name, members) ==
    AddStruct(CreateAstNode(s, begin,
        SetScope(SetType(AstStructDecl(name, members), StructType(begin)), CurrentScope(s))),
        begin, members)

\* The struct that the type defines is declared before the variables.
StructSymbol(qualType) ==
    [k \in DOMAIN GetStructDecl(qualType) |->
        LET struct == GetStructDecl(qualType)[k]
        IN Symbol("StructDecl", struct.name, struct.begin, struct.type)]
BuildVariableDecl(s, begin, qualType, declarators) ==
    LET type(d) == DeclaredType(qualType.type, d)
        Cast(d) == [d EXCEPT !.init = [k \in DOMAIN d.init |-> TryMakeImplicitCast(d.init[k], type(d))]]
        nodes == [k \in DOMAIN declarators |->
                    BuildDeclarator(s, begin, "variable", type(declarators[k]), Cast(declarators[k]))]
    IN AddSymbols(
        CreateAstNode(s, begin, SetScope(AstVariableDecl(qualType, nodes), CurrentScope(s))),
        StructSymbol(qualType)
        \o [k \in DOMAIN nodes |->
                Symbol("VariableDeclaratorDecl", nodes[k].name, nodes[k].name, nodes[k].type)])

\* With an instance, that is what is declared; without one, the members are.
BuildInterfaceBlockDecl(s, begin, quals, name, members, instance) ==
    LET node == SetScope(AstInterfaceBlockDecl(quals, name, members,
                                               [k \in DOMAIN instance |-> NodeOf(instance[k])]), "Global")
        type == IF instance = <<>> THEN ErrorType
                ELSE GetArrayType(StructType(begin), instance[1].spec)
        built == AddStruct(CreateAstNode(s, begin, SetType(node, type)), begin, members)
    IN IF instance # <<>>
       THEN TryAddSymbol(built, Symbol("InterfaceBlockDecl", instance[1].name, begin, type))
       ELSE AddSymbols(built, [k \in DOMAIN built.structs[begin] |->
                LET m == built.structs[begin][k]
                IN Symbol("BlockFieldDeclaratorDecl", m.decl, m.decl, m.type)])

BuildParamDecl(s, begin, qualType, d) ==
    LET type == IF d = <<>> THEN qualType.type ELSE GetArrayType(qualType.type, d[1].spec)
        node == AstParamDecl(qualType, [k \in DOMAIN d |-> NodeOf(d[k])])
        built == CreateAstNode(s, begin, SetScope(SetType(node, type), CurrentScope(s)))
    IN IF d = <<>> THEN built
       ELSE TryAddSymbol(built, Symbol("ParamDecl", d[1].name, d[1].name, type))

\* Every declaration of a function is an entry of its own, in the level it is in.
BuildFunctionDecl(s, begin, returnType, name, params, body) ==
    LET entry == [name |-> s.text[name], decl |-> name, ret |-> returnType.type,
                  params |-> [k \in DOMAIN params |->
                      [type |-> params[k].type, isInput |-> IsInputParam(params[k]),
                       isOutput |-> IsOutputParam(params[k])]]]
        built == CreateAstNode(s, begin,
                     SetScope(SetType(AstFunctionDecl(returnType, name, params, body), returnType.type),
                              CurrentScope(s)))
    IN [built EXCEPT !.levels[Len(s.levels)].funcDeclLookup = Append(@, entry)]
=============================================================================
