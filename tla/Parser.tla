------------------------------- MODULE Parser -------------------------------
(***************************************************************************)
(* The recursive-descent parser of GLSL, one operator per parsing          *)
(* function, and a document whose text is edited and parsed again.  A      *)
(* parsing function leaves the node it built in ret, an optional one as a  *)
(* sequence of at most one node; quals and what else is named below it are *)
(* what the code passes as arguments.                                      *)
(***************************************************************************)
EXTENDS TreeBuilder, FiniteSets

CONSTANTS
    Programs,     \* what a document may start with: a text that ends with "eof",
                  \* and the bound on the number of edits that follow
    EditTokens    \* tokens the user may type

\* Parse("Stmt", s) is ParseStmt(s): the calls by which the parsing functions are
\* mutually recursive.
RECURSIVE Parse(_, _), ParseItems(_, _, _, _), ParseQualifiers(_, _, _), ParseFields(_, _, _),
          ParseFieldsAfter(_, _, _, _), ParseSizes(_, _), ParseCommaTail(_, _),
          ParseHigherOperators(_, _, _), ParseBinaryExpr(_, _, _), ParsePostfixOps(_, _),
          ParseInitializers(_, _, _), ParseInitializerList(_, _), ParseDeclaratorList(_, _, _),
          ParseOverriddenNames(_), ParseStmts(_, _), ParseDecls(_, _)

None == <<>>
Some(s) == Yield(s, <<s.ret>>)
WithError(s) == BuildErrorExpr(s, s.i)
ErrorExpr(s) == WithError(s).ret
ErrorStmt(s) == CreateAstNode(s, s.i, AstErrorStmt).ret

-----------------------------------------------------------------------------
(***************************************************************************)
(* Parentheses, brackets and the lists in them.  what names the production *)
(* inside; an empty pair stands for an error expression or an empty list.  *)
(***************************************************************************)
ParseExpr(s) ==
    LET next == Parse("CommaExpr", s) IN IF next.i = s.i THEN EnterRecoveryMode(next) ELSE next

ParseExprNoComma(s) ==
    LET next == Parse("AssignmentExpr", s) IN IF next.i = s.i THEN EnterRecoveryMode(next) ELSE next

ParseParenWrappedExpr(s) ==
    LET inside == ConsumeToken(s)
        parsed == IF Peek(inside) = ")" THEN WithError(inside) ELSE Parse("Expr", inside)
    IN ParseClosingParenHelper(parsed, inside.paren)

\* Empty brackets leave a dimension of an array unsized.
Unsized == Node("Unsized", <<>>)
ParseBracketWrappedExpr(s, emptyIsError) ==
    LET inside == ConsumeToken(s)
        empty == IF emptyIsError THEN WithError(inside) ELSE Yield(inside, Unsized)
        parsed == IF Peek(inside) = "]" THEN empty ELSE Parse("Expr", inside)
    IN ParseClosingBracketHelper(parsed, inside.bracket)

ParseParenWrappedExprOrErrorHelper(s) ==
    IF Peek(s) = "(" THEN Parse("ParenWrappedExpr", s) ELSE EnterRecoveryMode(WithError(s))

\* The name, 0 when there is none, and the optional value of a layout qualifier.
ParseLayoutItem(s) ==
    LET isNamed == Peek(s) \in Names
        named == IF isNamed THEN ConsumeToken(s) ELSE ReportError(s)
        item(value) == [name |-> IF isNamed THEN s.i ELSE 0, value |-> value]
        valued == Parse("ExprNoComma", ConsumeToken(named))
    IN IF Peek(named) = "=" THEN Yield(valued, <<item(<<valued.ret>>)>>)
                            ELSE Yield(named, <<item(None)>>)

ParseSizes(s, sizes) ==
    LET one == ParseBracketWrappedExpr(s, FALSE) IN
    IF Peek(s) = "[" THEN ParseSizes(one, Append(sizes, one.ret)) ELSE Yield(s, sizes)
ParseArraySpec(s) == LET sized == ParseSizes(s, <<>>) IN BuildArraySpec(sized, s.i, sized.ret)
ParseOptionalArraySpec(s) ==
    IF Peek(s) = "[" THEN Parse("ArraySpec", s) ELSE Yield(s, NoArraySpec)

ParseDeclaratorNoInit(s) ==
    LET spec == ParseOptionalArraySpec(ConsumeToken(s))
    IN Yield(spec, ParsedDeclarator(s.i, spec.ret, None))

ParseParam(s) ==
    LET typed == Parse("QualType", s)
        named == IF Peek(typed) \in Names THEN Some(ParseDeclaratorNoInit(typed))
                                          ELSE Yield(typed, None)
    IN IF InRecoveryMode(typed) THEN Yield(typed, None)
                                ELSE Some(BuildParamDecl(named, s.i, typed.ret, named.ret))

\* The items of a list; opened is the depth of its parenthesis.
ParseItems(s, what, opened, items) ==
    IF Eof(s) \/ (what = "layout" /\ Peek(s) = ")") THEN Yield(s, items)
    ELSE LET item == CASE what = "layout" -> Parse("LayoutItem", s)
                       [] what = "params" -> Parse("Param", s)
                       [] what = "args" -> Some(Parse("AssignmentExpr", s))
             after == ParseCommaInParenHelper(item, opened)
         IN IF after.ret THEN ParseItems(after, what, opened, items \o item.ret)
                         ELSE Yield(after, items \o item.ret)

ParseInParens(s, what) ==
    LET inside == ConsumeToken(s)
        parsed == CASE Peek(inside) = ")" -> Yield(inside, <<>>)
                    [] what # "layout" /\ Peek(inside) = "void" /\ PeekAt(inside, 1) = ")" ->
                           Yield(ConsumeToken(inside), <<>>)
                    [] OTHER -> ParseItems(inside, what, inside.paren, <<>>)
    IN ParseClosingParenHelper(parsed, inside.paren)

ParseLayoutQualifier(s) ==
    LET next == ConsumeToken(s) IN
    IF Peek(next) = "(" THEN ParseInParens(next, "layout")
                        ELSE EnterRecoveryMode(Yield(next, <<>>))

\* The loop of ParseTypeQualifierSeq.
ParseQualifiers(s, quals, items) ==
    LET qualified == Peek(s) \in Qualifiers
        next == IF qualified THEN ConsumeToken(s) ELSE s
        more == IF qualified THEN quals \cup {Peek(s)} ELSE quals
        layout == Parse("LayoutQualifier", next)
    IN CASE InRecoveryMode(s) -> Yield(s, AstTypeQualifierSeq(quals, items))
         [] ~InRecoveryMode(s) /\ Peek(next) = "layout" ->
                ParseQualifiers(layout, more, items \o layout.ret)
         [] OTHER -> IF qualified THEN ParseQualifiers(next, more, items)
                                  ELSE Yield(s, AstTypeQualifierSeq(quals, items))

ParseTypeQualifierSeq(s) ==
    LET parsed == ParseQualifiers(s, {}, <<>>) IN
    IF parsed.i = s.i THEN Yield(parsed, None) ELSE Some(CreateAstNode(parsed, s.i, parsed.ret))

-----------------------------------------------------------------------------
(***************************************************************************)
(* Types.                                                                  *)
(***************************************************************************)

\* The members of a struct or of a block, up to the closing brace.
ParseFields(s, kind, members) ==
    LET type == Parse("QualType", s)
        declarators == Parse("MemberDeclarators", type)
    IN CASE Eof(s) -> Yield(s, members)
         [] Peek(s) = ";" -> ParseFields(ConsumeToken(s), kind, members)
         [] OTHER -> ParseFieldsAfter(declarators, kind, members, [begin |-> s.i, type |-> type.ret])

\* The end of a member whose declarators are parsed, and the members after it.
ParseFieldsAfter(s, kind, members, member) ==
    LET ended == ParseOrInferSemicolonHelper(s)
        built == IF kind = "struct"
                 THEN BuildStructFieldDecl(ended, member.begin, member.type, s.ret)
                 ELSE BuildBlockFieldDecl(ended, member.begin, member.type, s.ret)
        next == IF InRecoveryMode(s) THEN ExitRecoveryMode(ConsumeToken(s)) ELSE built
        all == IF InRecoveryMode(s) THEN members ELSE Append(members, built.ret)
    IN CASE InRecoveryMode(s) /\ Peek(s) # ";" -> Yield(s, members)
         [] OTHER -> IF Peek(next) = "}" THEN Yield(next, all) ELSE ParseFields(next, kind, all)

CloseStructBody(fields) ==
    LET closed == RecoverFromError(fields, "Brace") IN
    CASE Peek(fields) = "}" -> ConsumeToken(fields)
      [] OTHER -> IF Peek(closed) = "}" THEN ExitRecoveryIfIn(ConsumeToken(closed)) ELSE closed

\* ParseStructBody and ParseBlockBody.
ParseStructBody(s, kind) ==
    LET inside == ConsumeToken(s) IN
    IF Peek(inside) = "}" THEN Yield(ConsumeToken(inside), <<>>)
    ELSE CloseStructBody(ParseFields(inside, kind, <<>>))

ParseStructDefinition(s) ==
    LET next == ConsumeToken(s)
        named == Peek(next) \in Names
        name == IF named THEN next.i ELSE 0
        body == IF named THEN ConsumeToken(next) ELSE next
        members == Parse("StructBody", body)
    IN IF Peek(body) = "{" THEN BuildStructDecl(members, s.i, name, members.ret)
                           ELSE BuildStructDecl(EnterRecoveryMode(body), s.i, name, <<>>)

ParseTypeSpec(s, quals) ==
    LET begin == IF quals = None THEN s.i ELSE quals[1].begin
        struct == Parse("StructDefinition", s)
        structSpec == ParseOptionalArraySpec(struct)
        spec == ParseOptionalArraySpec(ConsumeToken(s))
    IN CASE Peek(s) = "struct" ->
                BuildQualTypeOfStruct(structSpec, begin, quals, struct.ret, structSpec.ret)
         [] Peek(s) \in Names \cup BuiltinTypes ->
                BuildQualTypeOfName(spec, begin, quals, s.i, spec.ret)
         [] OTHER -> EnterRecoveryMode(CreateAstNode(s, begin, AstQualType(quals, None, None)))

ParseQualType(s) == LET quals == ParseTypeQualifierSeq(s) IN ParseTypeSpec(quals, quals.ret)

-----------------------------------------------------------------------------
(***************************************************************************)
(* Expressions.                                                            *)
(***************************************************************************)
AssignmentOps == {"=", "+="}
PrefixOps == {"+", "-", "!", "++"}

\* The binary operators, from the loosest to the tightest.
Precedence == ("||" :> 0) @@ ("^^" :> 1) @@ ("&&" :> 2) @@ ("|" :> 3) @@ ("^" :> 4)
              @@ ("&" :> 5) @@ ("==" :> 6) @@ ("!=" :> 6) @@ ("<" :> 7) @@ (">" :> 7)
              @@ ("<<" :> 8) @@ (">>" :> 8) @@ ("+" :> 9) @@ ("-" :> 9)
              @@ ("*" :> 10) @@ ("/" :> 10) @@ ("%" :> 10)
BinaryOps == DOMAIN Precedence

ParseCommaTail(s, begin) ==
    IF Peek(s) # "," THEN s
    ELSE LET rhs == Parse("AssignmentExpr", ConsumeToken(s))
         IN ParseCommaTail(BuildBinaryExpr(rhs, begin, s.ret, rhs.ret, ","), begin)

ParseCommaExpr(s) == ParseCommaTail(Parse("AssignmentExpr", s), s.i)

\* Mutant: an operand on the right takes in operators of the same precedence.
SamePrecedence(op) == Precedence[op]
RhsPrecedence(op) == Precedence[op] + 1

\* The inner loop of ParseBinaryExpr: the operators after op that bind tighter
\* than it take the operand in ret as theirs.  When recovery was entered in the
\* operand, ParseBinaryExpr returns at once and the loop tries again for ever.
ParseHigherOperators(s, begin, op) ==
    IF Peek(s) \notin BinaryOps THEN s
    ELSE IF Precedence[Peek(s)] <= Precedence[op] THEN s
    ELSE IF InRecoveryMode(s) THEN Hang(s, "operators hang")
    ELSE ParseHigherOperators(ParseBinaryExpr(s, begin, RhsPrecedence(op)), begin, op)

\* The operand on the left is in ret.
ParseBinaryExpr(s, begin, minPrecedence) ==
    IF Eof(s) \/ InRecoveryMode(s) \/ Peek(s) \notin BinaryOps THEN s
    ELSE IF Precedence[Peek(s)] < minPrecedence THEN s
    ELSE LET next == ConsumeToken(s)
             rhs == ParseHigherOperators(Parse("UnaryExpr", next), next.i, Peek(s))
         IN ParseBinaryExpr(BuildBinaryExpr(rhs, begin, s.ret, rhs.ret, Peek(s)), begin, minPrecedence)

ParseBinaryExprWithLhs(s) == ParseBinaryExpr(s, s.ret.begin, 0)

ParseConditionalExpr(s) ==
    LET predicate == Parse("BinaryExprWithLhs", s)
        yes == Parse("CommaExpr", ConsumeToken(predicate))
        no == Parse("AssignmentExpr",
                    IF Peek(yes) = ":" THEN ConsumeToken(yes) ELSE ReportError(yes))
    IN CASE Peek(predicate) # "?" -> predicate
         [] Peek(predicate) = "?" /\ Peek(yes) # ":" /\ InRecoveryMode(yes) ->
                BuildSelectExpr(yes, s.ret.begin, predicate.ret, yes.ret, ErrorExpr(yes))
         [] OTHER -> BuildSelectExpr(no, s.ret.begin, predicate.ret, yes.ret, no.ret)

ParseAssignmentExprWithLhs(s) ==
    LET next == ConsumeToken(s)
        rhs == Parse("AssignmentExpr",
                     IF InRecoveryMode(s) THEN Flag(next, "assignment") ELSE next)
    IN IF Peek(s) \in AssignmentOps THEN BuildBinaryExpr(rhs, s.ret.begin, s.ret, rhs.ret, Peek(s))
                                    ELSE Parse("ConditionalExpr", s)

ParseAssignmentExpr(s) == Parse("AssignmentExprWithLhs", Parse("UnaryExpr", s))

\* ret is the type.
ParseConstructorCallExpr(s) ==
    LET args == IF Peek(s) = "(" THEN Parse("FunctionArgumentList", s) ELSE Yield(ReportError(s), <<>>)
    IN BuildConstructorCallExpr(args, s.ret.begin, s.ret, args.ret)

ParsePrimaryExpr(s) ==
    LET next == ConsumeToken(s) IN
    CASE Peek(s) \in Names -> BuildNameAccessExpr(next, s.i, s.i)
      [] Peek(s) \in Literals -> BuildLiteralExpr(next, s.i, Peek(s))
      [] Peek(s) = "(" -> Parse("ParenWrappedExpr", s)
      [] OTHER -> WithError(ReportError(s))

\* Index, member access (.length() included), increment.
ParsePostfixOps(s, begin) ==
    LET next == ConsumeToken(s)
        index == ParseBracketWrappedExpr(s, TRUE)
        isNamed == Peek(next) \in Names
        member == IF isNamed THEN ConsumeToken(next) ELSE ReportError(next)
        called == /\ Peek(next) = "length"
                  /\ Peek(member) = "(" /\ PeekAt(member, 1) = ")"
        length == ConsumeToken(ConsumeToken(member))
    IN CASE InRecoveryMode(s) -> s
         [] Peek(s) = "[" ->
                ParsePostfixOps(BuildIndexAccessExpr(index, begin, s.ret, index.ret), begin)
         [] Peek(s) = "." ->
                ParsePostfixOps(
                    IF called THEN BuildUnaryExpr(length, begin, s.ret, "length")
                    ELSE BuildDotAccessExpr(member, begin, s.ret, IF isNamed THEN next.i ELSE 0), begin)
         [] Peek(s) = "++" -> ParsePostfixOps(BuildUnaryExpr(next, begin, s.ret, "p++"), begin)
         [] OTHER -> s

ParseCall(s) ==
    LET args == Parse("FunctionArgumentList", ConsumeToken(s))
    IN BuildFuntionCallExpr(args, s.i, s.i, args.ret)

ParsePostfixExpr(s) ==
    ParsePostfixOps(
        CASE Peek(s) \in BuiltinTypes \cup {"struct"} \/ IsStructName(s, Peek(s)) ->
                 Parse("ConstructorCallExpr", ParseTypeSpec(s, None))
          [] Peek(s) \in Names /\ ~IsStructName(s, Peek(s)) /\ PeekAt(s, 1) = "(" -> Parse("Call", s)
          [] OTHER -> ParsePrimaryExpr(s), s.i)

ParseUnaryExpr(s) ==
    LET operand == Parse("UnaryExpr", ConsumeToken(s)) IN
    IF Peek(s) \in PrefixOps THEN BuildUnaryExpr(operand, s.i, operand.ret, Peek(s))
                             ELSE ParsePostfixExpr(s)

-----------------------------------------------------------------------------
(***************************************************************************)
(* Declarations.                                                           *)
(***************************************************************************)
ParseInitializer(s, type) ==
    IF Peek(s) = "{" THEN ParseInitializerList(s, type) ELSE Parse("ExprNoComma", s)

\* type is that of the list.
ParseInitializers(s, type, items) ==
    LET item == ParseInitializer(s, ComponentType(s, type, Len(items) + 1))
        more == Append(items, item.ret)
    IN CASE Peek(s) \in {"eof", "}"} -> Yield(s, items)
         [] OTHER -> IF Peek(item) = "," THEN ParseInitializers(ConsumeToken(item), type, more)
                                         ELSE Yield(item, more)

ParseInitializerList(s, type) ==
    LET entered == IF s.inList THEN s ELSE [s EXCEPT !.inList = TRUE, !.listDepth = s.brace]
        items == ParseInitializers(ConsumeToken(entered), type, <<>>)
        closed == IF Peek(items) = "}" THEN ConsumeToken(items) ELSE EnterRecoveryMode(items)
        tried == RecoverFromError(closed, "IListBrace")
        after == CASE ~InRecoveryMode(closed) -> closed
                   [] OTHER -> IF Peek(tried) = "}" THEN ExitRecoveryMode(ConsumeToken(tried))
                                                    ELSE tried
    IN [BuildInitializerList(after, s.i, items.ret, type) EXCEPT !.inList = s.inList]

\* ret is the type.
ParseDeclarator(s) ==
    LET declared == ParseDeclaratorNoInit(s)
        value == ParseInitializer(ConsumeToken(declared), GetArrayType(s.ret, declared.ret.spec))
    IN IF Peek(declared) = "="
       THEN Yield(value, ParsedDeclarator(s.i, declared.ret.spec, <<value.ret>>))
       ELSE declared

ParseDeclaratorList(s, initialized, type) ==
    LET one == IF initialized THEN Parse("Declarator", Yield(s, type)) ELSE ParseDeclaratorNoInit(s)
        others == ParseDeclaratorList(ConsumeToken(one), initialized, type)
    IN CASE Peek(s) \notin Names -> Yield(s, <<>>)
         [] OTHER -> IF Peek(one) = "," THEN Yield(others, <<one.ret>> \o others.ret) ELSE Some(one)

ParseTypeOrVariableDecl(s) ==
    LET declarators == ParseDeclaratorList(s, TRUE, s.ret.type)
    IN BuildVariableDecl(ParseOrInferSemicolonHelper(declarators), s.ret.begin, s.ret,
                         declarators.ret)

ParseCompoundStmt(s) ==
    LET body == ParseStmts(ConsumeToken(s), <<>>)
        closed == IF Peek(body) = "}" THEN ExitRecoveryIfIn(ConsumeToken(body)) ELSE ReportError(body)
    IN CreateAstNode(closed, s.i, AstCompoundStmt(body.ret))

\* The function is declared when it has been parsed, in the scope around it.
ParseFunctionDecl(s) ==
    LET params == Parse("FunctionParamList", EnterFunctionScope(ConsumeToken(s), s.ret.type))
        body == Parse("CompoundStmt", Assert_(params, ~InRecoveryMode(params)))
        after == IF Peek(params) = "{" THEN Some(body)
                 ELSE Yield(ParseOrInferSemicolonHelper(params), None)
    IN BuildFunctionDecl(LeaveFunctionScope(after), s.ret.begin, s.ret, s.i, params.ret, after.ret)

ParseDeclarationWithTypeSpec(s) ==
    CASE Peek(s) \in Names /\ PeekAt(s, 1) = "(" -> Parse("FunctionDecl", s)
      [] Peek(s) \in Names /\ PeekAt(s, 1) # "(" -> Parse("TypeOrVariableDecl", s)
      [] OTHER -> BuildVariableDecl(ParseOrInferSemicolonHelper(s), s.ret.begin, s.ret, <<>>)

\* ret is the qualifiers.
ParseInterfaceBlockDecl(s) ==
    LET quals == s.ret[1]
        isNamed == Peek(s) \in Names
        named == IF isNamed THEN ConsumeToken(s) ELSE ReportError(s)
        name == IF isNamed THEN s.i ELSE 0
        body == Parse("BlockBody", named)
        instance == IF Peek(body) \in Names THEN Some(ParseDeclaratorNoInit(body)) ELSE Yield(body, None)
    IN CASE InRecoveryMode(body) \/ Peek(body) = ";" ->
                BuildInterfaceBlockDecl(IF InRecoveryMode(body) THEN body ELSE ConsumeToken(body),
                                        quals.begin, quals, name, body.ret, None)
         [] OTHER -> BuildInterfaceBlockDecl(ParseOrInferSemicolonHelper(instance),
                                             quals.begin, quals, name, body.ret, instance.ret)

ParsePrecisionDecl(s) ==
    LET next == ConsumeToken(s)
        isQualified == Peek(next) \in PrecisionQualifiers
        qualified == IF isQualified THEN ConsumeToken(next) ELSE EnterRecoveryMode(ReportError(next))
        quals == CreateAstNode(qualified, next.i, AstTypeQualifierSeq(
                     IF isQualified THEN {Peek(next)} ELSE {}, <<>>))
        typed == ParseTypeSpec(quals, <<quals.ret>>)
    IN CreateAstNode(ParseOrInferSemicolonHelper(typed), s.i, AstPrecisionDecl(typed.ret))

ParseOverriddenNames(s) ==
    LET next == ConsumeToken(s) IN
    CASE Peek(s) # "," -> s
      [] Peek(s) = "," /\ Peek(next) \in Names -> ParseOverriddenNames(ConsumeToken(next))
      [] OTHER -> ReportError(next)

ParseQualifierOverrideDecl(s, quals) ==
    LET names == ParseOverriddenNames(ConsumeToken(s))
    IN CreateAstNode(ParseOrInferSemicolonHelper(names), quals.begin, AstTypeQualifierOverrideDecl(quals))

ParseDeclaration(s, atGlobalScope) ==
    LET quals == Parse("TypeQualifierSeq", s)
        seq == quals.ret[1]
        typed == ParseTypeSpec(quals, quals.ret)
        qualified == atGlobalScope /\ quals.ret # None
    IN CASE Peek(s) = ";" -> CreateAstNode(ConsumeToken(s), s.i, AstEmptyDecl)
         [] atGlobalScope /\ Peek(s) = "precision" -> Parse("PrecisionDecl", s)
         [] qualified /\ Peek(quals) = ";" ->
                CreateAstNode(ConsumeToken(quals), s.i, AstGlobalQualifierDecl(seq))
         [] /\ qualified
            /\ Peek(quals) = "{" \/ (Peek(quals) \in Names /\ PeekAt(quals, 1) = "{") ->
                Parse("InterfaceBlockDecl", quals)
         [] /\ qualified /\ Peek(quals) \in Names /\ PeekAt(quals, 1) # "{"
            /\ ~IsStructName(quals, Peek(quals)) -> ParseQualifierOverrideDecl(quals, seq)
         [] OTHER -> IF InRecoveryMode(typed) THEN CreateAstNode(ReportError(typed), s.i, AstErrorDecl)
                                              ELSE Parse("DeclarationWithTypeSpec", typed)

-----------------------------------------------------------------------------
(***************************************************************************)
(* Statements.                                                             *)
(***************************************************************************)
BuildExprStmt(s, begin, expr) == CreateAstNode(s, begin, AstExprStmt(expr))

ParseExprStmt(s) ==
    LET expr == Parse("Expr", s)
    IN BuildExprStmt(ParseOrInferSemicolonHelper(expr), s.i, expr.ret)

\* An expression statement that starts with a constructor call, from its '(' on.
ParseConstructorStmt(s) ==
    LET expr == Parse("AssignmentExprWithLhs",
                      ParsePostfixOps(ParseConstructorCallExpr(s), s.ret.begin))
    IN BuildExprStmt(ParseOrInferSemicolonHelper(expr), s.i, expr.ret)

BuildDeclStmt(s, decl) == Yield(s, Initialize(AstDeclStmt(decl), decl.begin, decl.end))
ParseDeclStmt(s) ==
    LET parsed == Parse("LocalDeclaration", s) IN BuildDeclStmt(TryRecover(parsed), parsed.ret)

ParseTypedStmt(s) ==
    LET parsed == Parse("DeclarationWithTypeSpec", s) IN
    IF Peek(s) = "(" THEN Parse("ConstructorStmt", s) ELSE BuildDeclStmt(TryRecover(parsed), parsed.ret)

ParseDeclOrExprStmt(s) ==
    CASE Peek(s) \in LocalQualifiers \cup {"layout"} -> ParseDeclStmt(s)
      [] Peek(s) \in BuiltinTypes \cup {"struct"} \/ IsStructName(s, Peek(s)) ->
             ParseTypedStmt(ParseTypeSpec(s, None))
      [] /\ Peek(s) \in Names /\ ~IsStructName(s, Peek(s))
         /\ PeekAt(s, 1) \in Names /\ PeekAt(s, 2) \in {";", "[", "="} -> ParseDeclStmt(s)
      [] OTHER -> ParseExprStmt(s)

ParseSelectionStmt(s) ==
    LET predicate == Parse("ParenWrappedExprOrErrorHelper", ConsumeToken(s))
        yes == Parse("Stmt", predicate)
        no == Parse("Stmt", ConsumeToken(yes))
        IfStmt(end, then, else) == CreateAstNode(end, s.i, AstIfStmt(predicate.ret, then, else))
    IN CASE InRecoveryMode(predicate) -> IfStmt(predicate, ErrorStmt(predicate), None)
         [] OTHER -> IF Peek(yes) = "else" THEN IfStmt(no, yes.ret, <<no.ret>>) ELSE IfStmt(yes, yes.ret, None)

\* The header of a for: each clause is given up once recovery was entered.  ret is
\* the clauses.
ParseForInit(s) ==
    LET next == ConsumeToken(s) IN
    IF Peek(s) = ";" THEN Yield(next, Initialize(AstEmptyStmt, next.i, next.i + 1))
                     ELSE Parse("DeclOrExprStmt", s)
ParseForCondition(s) ==
    IF Peek(s) = ";" THEN Yield(ConsumeToken(s), None) ELSE TryConsume(Some(Parse("Expr", s)), ";")
ParseForIter(s) == IF Peek(s) = ")" THEN Yield(s, None) ELSE Some(Parse("Expr", s))

ForClauses(end, init, condition, iter) ==
    Yield(end, [init |-> init, condition |-> condition, iter |-> iter])
ParseForHeader(s) ==
    LET init == Parse("ForInit", s)
        condition == Parse("ForCondition", init)
        iter == Parse("ForIter", condition)
    IN CASE InRecoveryMode(init) ->
                ForClauses(init, init.ret, <<ErrorExpr(init)>>, <<ErrorExpr(init)>>)
         [] ~InRecoveryMode(init) /\ InRecoveryMode(condition) ->
                ForClauses(condition, init.ret, condition.ret, <<ErrorExpr(condition)>>)
         [] OTHER -> ForClauses(iter, init.ret, condition.ret, iter.ret)

\* From behind the header, with its clauses, on.
ParseForBody(s, begin, clauses) ==
    LET body == IF InRecoveryMode(s) THEN Yield(s, ErrorStmt(s)) ELSE Parse("Stmt", s)
    IN CreateAstNode(PopLevel(body), begin,
                     AstForStmt(clauses.init, clauses.condition, clauses.iter, body.ret))

ParseForStmt(s) ==
    LET next == EnterRecoveryMode(ConsumeToken(s))
        inside == ConsumeToken(PushLevel(ConsumeToken(s), "Block"))
        header == Parse("ForHeader", inside)
    IN IF Peek(next) = "("
       THEN ParseForBody(ParseClosingParenHelper(header, inside.paren), s.i, header.ret)
       ELSE CreateAstNode(next, s.i, AstForStmt(ErrorStmt(next), <<ErrorExpr(next)>>,
                                                <<ErrorExpr(next)>>, ErrorStmt(next)))

ParseDoWhileStmt(s) ==
    LET body == Parse("Stmt", ConsumeToken(s))
        condition == Parse("ParenWrappedExprOrErrorHelper", ConsumeToken(body))
        end == IF Peek(body) = "while" THEN ParseOrInferSemicolonHelper(condition)
                                       ELSE EnterRecoveryMode(WithError(body))
    IN CreateAstNode(end, s.i, AstDoWhileStmt(end.ret, body.ret))

ParseWhileStmt(s) ==
    LET condition == Parse("ParenWrappedExprOrErrorHelper", ConsumeToken(s))
        body == IF InRecoveryMode(condition) THEN Yield(condition, ErrorStmt(condition))
                                             ELSE Parse("Stmt", condition)
    IN CreateAstNode(body, s.i, AstWhileStmt(condition.ret, body.ret))

ParseLabelStmt(s) ==
    LET next == ConsumeToken(s)
        label == IF Peek(s) = "case" THEN Some(Parse("ExprNoComma", next)) ELSE Yield(next, None)
        end == IF Peek(label) = ":" THEN ExitRecoveryIfIn(ConsumeToken(label)) ELSE ReportError(label)
    IN CreateAstNode(end, s.i, AstLabelStmt(label.ret))

ParseSwitchStmt(s) ==
    LET next == ConsumeToken(s)
        test == IF Peek(next) = "(" THEN Parse("ParenWrappedExpr", next)
                                    ELSE EnterRecoveryMode(WithError(next))
        failed == EnterRecoveryMode(Yield(test, ErrorStmt(test)))
        body == IF Peek(next) = "(" /\ Peek(test) = "{"
                THEN PopLevel(Parse("CompoundStmt", PushLevel(test, "Block"))) ELSE failed
    IN CreateAstNode(body, s.i, AstSwitchStmt(test.ret, body.ret))

ParseJumpStmt(s) ==
    LET next == ConsumeToken(s)
        expr == Parse("ExprNoComma", next)
    IN CASE Peek(s) = "return" /\ Peek(next) = ";" -> BuildReturnStmt(ConsumeToken(next), s.i, None)
         [] Peek(s) = "return" /\ Peek(next) # ";" ->
                BuildReturnStmt(ParseOrInferSemicolonHelper(expr), s.i, <<expr.ret>>)
         [] Peek(s) = "break" ->
                CreateAstNode(ParseOrInferSemicolonHelper(next), s.i, AstJumpStmt("break"))

ParseStmt(s) ==
    CASE Peek(s) = ";" -> Yield(ConsumeToken(s), Initialize(AstEmptyStmt, s.i, s.i + 1))
      [] Peek(s) = "{" -> PopLevel(Parse("CompoundStmt", PushLevel(s, "Block")))
      [] Peek(s) = "if" -> ParseSelectionStmt(s)
      [] Peek(s) = "do" -> ParseDoWhileStmt(s)
      [] Peek(s) = "while" -> ParseWhileStmt(s)
      [] Peek(s) = "for" -> ParseForStmt(s)
      [] Peek(s) = "switch" -> ParseSwitchStmt(s)
      [] Peek(s) \in {"break", "return"} -> ParseJumpStmt(s)
      [] Peek(s) \in {"case", "default"} -> ParseLabelStmt(s)
      [] OTHER -> Parse("DeclOrExprStmt", s)

Parse(production, s) ==
    CASE production = "CommaExpr" -> ParseCommaExpr(s)
      [] production = "QualType" -> ParseQualType(s)
      [] production = "Expr" -> ParseExpr(s)
      [] production = "ExprNoComma" -> ParseExprNoComma(s)
      [] production = "AssignmentExpr" -> ParseAssignmentExpr(s)
      [] production = "UnaryExpr" -> ParseUnaryExpr(s)
      [] production = "ParenWrappedExpr" -> ParseParenWrappedExpr(s)
      [] production = "ParenWrappedExprOrErrorHelper" -> ParseParenWrappedExprOrErrorHelper(s)
      [] production = "DeclarationWithTypeSpec" -> ParseDeclarationWithTypeSpec(s)
      [] production = "CompoundStmt" -> ParseCompoundStmt(s)
      [] production = "DeclOrExprStmt" -> ParseDeclOrExprStmt(s)
      [] production = "Stmt" -> ParseStmt(s)
      [] production = "ConstructorCallExpr" -> ParseConstructorCallExpr(s)
      [] production = "GlobalDeclaration" -> ParseDeclaration(s, TRUE)
      [] production = "LocalDeclaration" -> ParseDeclaration(s, FALSE)
      [] production = "StructDefinition" -> ParseStructDefinition(s)
      [] production = "StructBody" -> ParseStructBody(s, "struct")
      [] production = "BlockBody" -> ParseStructBody(s, "block")
      [] production = "MemberDeclarators" -> ParseDeclaratorList(s, FALSE, ErrorType)
      [] production = "ArraySpec" -> ParseArraySpec(s)
      [] production = "LayoutQualifier" -> ParseLayoutQualifier(s)
      [] production = "LayoutItem" -> ParseLayoutItem(s)
      [] production = "Param" -> ParseParam(s)
      [] production = "AssignmentExprWithLhs" -> ParseAssignmentExprWithLhs(s)
      [] production = "ConditionalExpr" -> ParseConditionalExpr(s)
      [] production = "BinaryExprWithLhs" -> ParseBinaryExprWithLhs(s)
      [] production = "Declarator" -> ParseDeclarator(s)
      [] production = "TypeOrVariableDecl" -> ParseTypeOrVariableDecl(s)
      [] production = "FunctionDecl" -> ParseFunctionDecl(s)
      [] production = "TypeQualifierSeq" -> ParseTypeQualifierSeq(s)
      [] production = "ConstructorStmt" -> ParseConstructorStmt(s)
      [] production = "FunctionParamList" -> ParseInParens(s, "params")
      [] production = "FunctionArgumentList" -> ParseInParens(s, "args")
      [] production = "PrecisionDecl" -> ParsePrecisionDecl(s)
      [] production = "InterfaceBlockDecl" -> ParseInterfaceBlockDecl(s)
      [] production = "ForInit" -> ParseForInit(s)
      [] production = "ForCondition" -> ParseForCondition(s)
      [] production = "ForIter" -> ParseForIter(s)
      [] production = "Call" -> ParseCall(s)
      [] production = "ForHeader" -> ParseForHeader(s)

-----------------------------------------------------------------------------
(***************************************************************************)
(* The loops over statements and over global declarations.  An iteration   *)
(* that changes nothing is repeated for ever.                              *)
(***************************************************************************)
NoProgress(s, next) ==
    /\ next.i = s.i /\ next.mode = s.mode
    /\ next.paren = s.paren /\ next.bracket = s.bracket /\ next.brace = s.brace

Progress(s, next) == IF NoProgress(s, next) THEN Hang(next, "scope hangs") ELSE next

ParseStmts(s, stmts) ==
    LET Others(next) == ParseStmts(next, Append(stmts, next.ret)) IN
    IF Peek(s) \in {"eof", "}"} THEN Yield(s, stmts)
    ELSE Others(Progress(s, TryRecover(Parse("Stmt", s))))

ParseDecls(s, decls) ==
    LET Others(next) == ParseDecls(next, Append(decls, next.ret)) IN
    IF Eof(s) THEN Yield(s, decls)
    ELSE Others(Progress(s, TryRecover(Parse("GlobalDeclaration", s))))

ParseTranslationUnit(tokens) ==
    LET Unit(parsed) == CreateAstNode(parsed, 1, AstTranslationUnit(parsed.ret))
    IN Unit(ParseDecls(Start(tokens), <<>>))

-----------------------------------------------------------------------------
(***************************************************************************)
(* The document: the user replaces one token at a time, or inserts or      *)
(* deletes one, and each version is parsed from the start.                 *)
(***************************************************************************)
VARIABLES
    text,      \* the tokens of the document
    result,    \* the state its parse ended in
    edit,      \* the last edit: its position, what it removed and what it inserted
    left       \* how many more there may be

vars == <<text, result, edit, left>>

Declared(tokens, node) ==
    CASE node.kind = "VariableDecl" ->
             [k \in DOMAIN GetDeclarators(node) |-> tokens[GetDeclarators(node)[k].name]]
      [] node.kind = "InterfaceBlockDecl" /\ node.decl # 0 -> <<tokens[node.decl]>>
      [] OTHER -> IF node.name = 0 THEN <<>> ELSE <<tokens[node.name]>>

\* What is looked at after a parse: of a program with errors only what it declares.
Outcome(tokens, end) ==
    LET clean == end.flags = {} /\ end.reported = {} /\ end.recovered = {}
        decls == end.ret.kids
    IN [clean |-> clean, flags |-> end.flags, at |-> end.i,
        globals |-> [k \in DOMAIN decls |-> <<decls[k].kind, Declared(tokens, decls[k])>>],
        tree |-> IF clean THEN <<end.ret>> ELSE <<>>]

Parsed(tokens) == Outcome(tokens, ParseTranslationUnit(tokens))

Init ==
    /\ \E p \in Programs : text = p.text /\ left = p.edits
    /\ result = Parsed(text)
    /\ edit = [at |-> 0, removed |-> <<>>, inserted |-> <<>>]

Splice(at, removed, inserted) ==
    /\ left > 0
    /\ left' = left - 1
    /\ edit' = [at |-> at, removed |-> SubSeq(text, at, at + removed - 1), inserted |-> inserted]
    /\ text' = SubSeq(text, 1, at - 1) \o inserted \o SubSeq(text, at + removed, Len(text))
    /\ result' = Parsed(text')

Insert == \E at \in 1 .. Len(text), t \in EditTokens : Splice(at, 0, <<t>>)
Delete == \E at \in 1 .. Len(text) - 1 : Splice(at, 1, <<>>)
Replace == \E at \in 1 .. Len(text) - 1, t \in EditTokens : Splice(at, 1, <<t>>)

Next == Insert \/ Delete \/ Replace

Spec == Init /\ [][Next]_vars

-----------------------------------------------------------------------------
Clean == result.clean
Tree == result.tree[1]

\* A struct without a body: ParseStructDefinition enters recovery where it
\* stands ("FIXME: could we do better on recovery?").
BareStruct ==
    \E p \in 1 .. Len(text) :
        /\ text[p] = "struct"
        /\ text[p + 1] # "{" /\ ~(text[p + 1] \in Names /\ text[p + 2] = "{")

Opened(p, r) ==
    Cardinality({k \in p .. r : text[k] = text[p]})
    > Cardinality({k \in p .. r : text[k] = (IF text[p] = "(" THEN ")" ELSE "]")})
BraceInParens ==
    \E q \in 2 .. Len(text) :
        /\ text[q] = "{"
        /\ \E p \in 1 .. q - 1 : text[p] \in {"(", "["} /\ \A r \in p .. q - 1 : Opened(p, r)

\* The branch before an 'else' breaks off: an expression that consumes nothing, or a
\* header without its '(', enters recovery, and ParseSelectionStmt goes on in it.
BranchBreaksOff ==
    \E p \in 2 .. Len(text) : text[p] = "else" /\ text[p - 1] \notin {";", "}"}

\* Whatever is typed, the parser gets to the end of the file and no assertion on
\* depths and modes fails, but for three shapes of text.  Recovery entered at a struct
\* without a body stops the loop over operators of higher precedence; a '{' that was
\* skipped inside parentheses makes a '}' of the global scope one to stop at; and
\* behind such a struct, or in the else branch of `if (a) else a = b;`, an assignment is
\* parsed in recovery, where ParseAssignmentExprWithLhs asserts that it is not (a
\* debug build ends there, the model goes on as a release build does).
ParserEnds ==
    /\ result.at = Len(text)
    /\ "operators hang" \in result.flags => BareStruct
    /\ "scope hangs" \in result.flags => BraceInParens
    /\ "assignment" \in result.flags => BareStruct \/ BranchBreaksOff
    /\ "assertion" \notin result.flags

\* What the code relies on: in the global scope no '}' is one to stop at.
NoBraceEndsGlobalScope == "scope hangs" \notin result.flags

\* And: an operand that entered recovery ends at the end of the file, ';' or '}'.
OperandsEndAtBoundary == "operators hang" \notin result.flags

\* And: no assignment is met in recovery (the assertion of ParseAssignmentExprWithLhs).
AssignmentsAreParsed == "assignment" \notin result.flags

\* No recovery lets go of the scope it is in: a token typed, deleted or replaced
\* inside a function body, no brace, leaves every global declaration of a program
\* without errors as it was.
Depth(p) == Cardinality({q \in 1 .. p - 1 : text[q] = "{"})
            - Cardinality({q \in 1 .. p - 1 : text[q] = "}"})
InFunctionBody(p) ==
    \E q \in 2 .. p - 1 : /\ text[q] = "{" /\ text[q - 1] = ")" /\ Depth(q) = 0
                         /\ \A r \in q + 1 .. p : Depth(r) > 0
\* An initializer list is open at p: a ';' in it ends the list, by design.
InList(p) ==
    \E q \in 2 .. p - 1 : /\ text[q] = "{" /\ text[q - 1] \in {"=", ",", "{"}
                         /\ \A r \in q + 1 .. p : Depth(r) > Depth(q)
KeepsBraces == {"{", "}"} \cap ToSet(edit.removed \o edit.inserted) = {}
ErrorsStayInBody ==
    [][/\ Clean /\ InFunctionBody(edit'.at) /\ KeepsBraces'
       /\ ~(InList(edit'.at) /\ edit'.inserted = <<";">>) /\ "operators hang" \notin result'.flags
       => result'.globals = result.globals]_vars

\* The expressions of a program without errors are grouped as the language says:
\* the operator at the root is the last of the loosest ones.
RECURSIVE Grouped(_), Shape(_)
Shape(node) ==
    CASE node.kind = "ImplicitCastExpr" -> Shape(node.kids[1])
      [] node.kind = "BinaryExpr" -> <<node.op, Shape(node.kids[1]), Shape(node.kids[2])>>
      [] node.kind = "NameAccessExpr" -> <<text[node.name]>>
      [] OTHER -> <<node.op>>
Grouped(e) ==
    IF Len(e) = 1 THEN e
    ELSE LET ops == {k \in 1 .. Len(e) : e[k] \in BinaryOps}
             root == CHOOSE k \in ops : \A j \in ops :
                        \/ Precedence[e[k]] < Precedence[e[j]]
                        \/ Precedence[e[k]] = Precedence[e[j]] /\ j <= k
         IN <<e[root], Grouped(SubSeq(e, 1, root - 1)), Grouped(SubSeq(e, root + 1, Len(e)))>>
Flat(e) == /\ Len(e) % 2 = 1
           /\ \A k \in 1 .. Len(e) : IF k % 2 = 1 THEN e[k] \in {"a", "b", "1"} ELSE e[k] \in BinaryOps
GroupedByPrecedence ==
    Clean => \A p, q \in 3 .. Len(text) :
        LET e == SubSeq(text, p, q - 1) IN
        /\ p < q /\ text[q] = ";" /\ text[p - 1] = "=" /\ text[p - 2] = "a"
        /\ text[p - 3] = "{" /\ Flat(e)
        => \E x \in ToSet(AllNodes(Tree)) :
               x.node.kind = "ExprStmt" /\ Shape(x.node.kids[1]) = <<"=", <<"a">>, Grouped(e)>>
=============================================================================
