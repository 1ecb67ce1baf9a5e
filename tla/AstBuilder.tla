----------------------------- MODULE AstBuilder -----------------------------
(***************************************************************************)
(* The semantic side of the AST builder: the parser hands it the operands  *)
(* of an expression bottom-up, and it deduces the type of the new node,    *)
(* wraps operands in implicit casts and resolves function calls against    *)
(* the overloads declared so far.                                          *)
(*                                                                         *)
(* One expression is under construction; every step makes it an operand of *)
(* the next node, beside operands whose types are those of declared names. *)
(* Constness and values are abstracted away.                               *)
(***************************************************************************)
EXTENDS Typing, Sequences, SequencesExt

CONSTANTS
    LeafTypes,      \* types that declared names have
    Preambles,      \* what the imported level of the symbol table may declare
    Signatures,     \* [params, ret]: the overloads the document may declare
    MaxOverloads    \* bound: how many it declares

ArithmeticTypes ==
    {GetScalarType(kind) : kind \in ScalarKinds}
        \cup {Vector(kind, size) : kind \in VectorKinds, size \in 2 .. 4}
        \cup {Matrix(kind, rows, cols) : kind \in MatrixKinds, rows, cols \in 2 .. 4}

\* An entry of the symbol table; a parameter is an input, an output or both.
Parameters == {param \in [type : LeafTypes, isInput : BOOLEAN, isOutput : BOOLEAN] :
                  param.isInput \/ param.isOutput}
FunctionEntries == [params : Seq(Parameters), ret : LeafTypes]

\* Elements and members have types that names may have.
ASSUME LeafAssumption ==
    \A t \in LeafTypes :
        /\ IsArithmetic(t) => t \in ArithmeticTypes
        /\ t.shape = "array" => t.elem \in LeafTypes
        /\ t.shape = "struct" => t.members \in Seq(LeafTypes)

ASSUME OverloadAssumption ==
    Signatures \subseteq FunctionEntries /\ Preambles \subseteq Seq(FunctionEntries)

VARIABLES
    expr,       \* the deduced type of the expression under construction
    table,      \* the overloads of one name: [imported, own], in table order
    casts,      \* the implicit casts inserted with the last node
    aborted     \* GLSLD_UNREACHABLE was reached

vars == <<expr, table, casts, aborted>>

NoExpr == [shape |-> "none"]

Init ==
    /\ expr = NoExpr
    /\ \E preamble \in Preambles : table = [imported |-> preamble, own |-> <<>>]
    /\ casts = {} /\ aborted = FALSE

\* TryMakeImplicitCast does not ask whether the type is convertible.
TryMakeImplicitCast(from, to, why) ==
    IF from = to \/ to = Error THEN {} ELSE {[from |-> from, to |-> to, why |-> why]}

Build(type, newCasts) ==
    /\ expr' = type
    /\ casts' = newCasts
    /\ UNCHANGED <<table, aborted>>

Building == ~aborted /\ expr # NoExpr /\ casts = {}
\* Bound: only calls depend on the document's overloads, so expressions nest
\* deeper while it has declared none.
Nesting == Building /\ table.own = <<>>

\* The parser goes on with the node it was given; the casts stay in the tree.
UseAsOperand ==
    /\ casts # {}
    /\ casts' = {}
    /\ UNCHANGED <<expr, table, aborted>>

-----------------------------------------------------------------------------
(* Overload resolution.                                                     *)

Entries(overloads) == overloads.imported \o overloads.own

FindFunction(overloads, args) == FindIn(Entries(overloads), args)

-----------------------------------------------------------------------------
BuildFunctionDecl ==
    /\ expr = NoExpr /\ casts = {} /\ Len(table.own) < MaxOverloads
    /\ \E entry \in Signatures : table' = [table EXCEPT !.own = Append(@, entry)]
    /\ UNCHANGED <<expr, casts, aborted>>

BuildNameAccessExpr ==
    /\ expr = NoExpr /\ casts = {}
    /\ \E type \in LeafTypes : Build(type, {})

BuildUnaryExpr ==
    /\ Nesting
    /\ \E op \in UnaryOps : Build(DeduceUnaryExprType(op, expr), {})

\* The casts of matrix operations have a tag of their own: they are chosen
\* by the elements' kinds alone.
CastTag(l, r) == IF "matrix" \in {l.shape, r.shape} /\ ~IsScalar(l) /\ ~IsScalar(r) THEN "matrix" ELSE "binary"

BuildBinary(op, l, r) ==
    LET info == DeduceBinaryExprType(op, l, r) IN
    IF info.aborts THEN aborted' = TRUE /\ UNCHANGED <<expr, table, casts>>
    ELSE Build(info.type, TryMakeImplicitCast(l, info.lhs, CastTag(l, r))
                            \cup TryMakeImplicitCast(r, info.rhs, CastTag(l, r)))

BuildBinaryExpr ==
    /\ Nesting
    /\ \E op \in BinaryOps, other \in LeafTypes : BuildBinary(op, expr, other) \/ BuildBinary(op, other, expr)

BuildSelectExpr ==
    /\ Nesting
    /\ \E other \in LeafTypes, first \in BOOLEAN :
          LET t == IF first THEN expr ELSE other
              f == IF first THEN other ELSE expr
              type == CASE t = Error \/ f = Error -> Error
                        [] t # Error /\ f # Error /\ IsConvertibleTo(t, f) -> f
                        [] t # Error /\ f # Error /\ ~IsConvertibleTo(t, f) ->
                              IF IsConvertibleTo(f, t) THEN t ELSE Error
          IN Build(type, TryMakeImplicitCast(t, type, "select") \cup TryMakeImplicitCast(f, type, "select"))

\* An index is cast to int whatever its type is.
BuildIndexAccessExpr ==
    /\ Nesting
    /\ \E index \in LeafTypes :
          Build(CASE expr.shape = "array" -> expr.elem
                  [] IsVector(expr) -> ElementType(expr)
                  [] IsMatrix(expr) -> GetVectorType(expr.kind, expr.cols)
                  [] OTHER -> Error,
                TryMakeImplicitCast(index, IntType, "index"))

\* A swizzle of one to four components that need not be in bounds (0 stands
\* for a name that is no swizzle); the field of a struct.
BuildDotAccessExpr ==
    /\ Nesting
    /\ \E n \in 0 .. 4 :
          Build(CASE expr.shape \in {"scalar", "vector"} ->
                        IF n = 0 THEN Error ELSE IF n = 1 THEN ElementType(expr) ELSE GetVectorType(expr.kind, n)
                  [] expr.shape = "struct" -> IF n \in DOMAIN expr.members THEN expr.members[n] ELSE Error
                  [] OTHER -> Error, {})

ArgumentLists == {<<expr>>} \cup {<<expr, other>> : other \in LeafTypes}

\* f(expr) or f(expr, another); every argument is cast to its parameter.
BuildFuntionCallExpr ==
    /\ Building
    /\ \E args \in ArgumentLists :
          LET function == FindFunction(table, args)
              Param(i) == function.params[i]
              Tag(i) == IF Param(i).isOutput THEN "output" ELSE "argument"
          IN IF function = NotFound THEN Build(Error, {})
             ELSE Build(function.ret, UNION {TryMakeImplicitCast(args[i], Param(i).type, Tag(i)) : i \in DOMAIN args})

\* A constructor of an arithmetic type converts its arguments' elements, but
\* a single argument of its own dimension it converts itself.
SameDimension(t, u) == t.shape = u.shape /\ (IsArithmetic(t) => WithKind(t, u.kind) = u)
ComponentType(t, i) ==
    CASE t.shape = "array" -> IF t.size = 0 \/ i <= t.size THEN t.elem ELSE Error
      [] t.shape = "struct" -> IF i \in DOMAIN t.members THEN t.members[i] ELSE Error
ArgumentCasts(type, args) ==
    UNION {
        CASE IsArithmetic(type) ->
                IF IsArithmetic(args[i]) THEN TryMakeImplicitCast(args[i], WithKind(args[i], type.kind), "constructor")
                ELSE {}
          [] type.shape \in {"array", "struct"} ->
                TryMakeImplicitCast(args[i], ComponentType(type, i), "constructor")
          [] OTHER -> {}
        : i \in DOMAIN args}

Sized(type, args) == IF type.shape = "array" /\ type.size = 0 THEN ArrayOf(type.elem, Len(args)) ELSE type

BuildConstructorCallExpr ==
    /\ Nesting
    /\ \E type \in LeafTypes \ {Error}, args \in ArgumentLists :
          LET sized == Sized(type, args)
          IN Build(sized, IF IsArithmetic(sized) /\ Len(args) = 1 /\ SameDimension(expr, sized) THEN {}
                          ELSE ArgumentCasts(sized, args))

\* An initializer list of expressions for a declaration of the given type.
BuildInitializerList ==
    /\ Nesting
    /\ \E contextType \in LeafTypes, args \in ArgumentLists :
          Build(Sized(contextType, args), ArgumentCasts(contextType, args))

\* The expression ends: an array's size, a statement, a return value, an initializer.
BuildExprStmt == Building /\ Build(NoExpr, {})

BuildArraySpec == Nesting /\ Build(NoExpr, TryMakeImplicitCast(expr, IntType, "index"))

BuildReturnStmt ==
    /\ Nesting
    /\ \E returnType \in LeafTypes :
          Build(NoExpr, IF IsConvertibleTo(expr, returnType)
                        THEN TryMakeImplicitCast(expr, returnType, "return") ELSE {})

BuildVariableDecl ==
    /\ Nesting
    /\ \E type \in LeafTypes :
          LET resolved == IF type.shape = "array" /\ type.size = 0 /\ expr.shape = "array" /\ expr.elem = type.elem
                          THEN expr ELSE type
          IN Build(NoExpr, TryMakeImplicitCast(expr, resolved, "initializer"))

Next ==
    \/ UseAsOperand \/ BuildFunctionDecl
    \/ BuildNameAccessExpr \/ BuildUnaryExpr \/ BuildBinaryExpr \/ BuildSelectExpr
    \/ BuildIndexAccessExpr \/ BuildDotAccessExpr \/ BuildFuntionCallExpr \/ BuildConstructorCallExpr
    \/ BuildInitializerList \/ BuildArraySpec \/ BuildExprStmt \/ BuildReturnStmt \/ BuildVariableDecl

Spec == Init /\ [][Next]_vars

-----------------------------------------------------------------------------
\* Types of expressions: besides those of names what is deduced from them, and
\* arrays sized by one or two arguments.
ExprTypes ==
    LeafTypes \cup ArithmeticTypes \cup {Error}
        \cup {ArrayOf(t.elem, size) : t \in {u \in LeafTypes : u.shape = "array"}, size \in 1 .. 2}

Reasons == {"binary", "matrix", "select", "index", "argument", "output", "constructor",
            "return", "initializer"}

TypeOK ==
    /\ expr \in ExprTypes \cup {NoExpr}
    /\ table \in [imported : Preambles, own : Seq(Signatures)]
    /\ casts \subseteq [from : ExprTypes, to : ExprTypes, why : Reasons]
    /\ aborted \in BOOLEAN

-----------------------------------------------------------------------------
\* A cast that an operator, a selection, an input argument or a return value
\* gets is one of the language's implicit conversions, although the builder
\* never asks for that when it inserts the cast.
CastsAreConversions ==
    \A c \in casts : c.why \in {"binary", "select", "argument", "return"} => IsConvertibleTo(c.from, c.to)

\* A matNxM has N columns and M rows; a vector is a row on the left of a
\* product and a column on the right.
MatrixRows(t, left) == IF IsMatrix(t) THEN t.cols ELSE IF left THEN 1 ELSE t.size
MatrixColumns(t, left) == IF IsMatrix(t) THEN t.rows ELSE IF left THEN t.size ELSE 1

\* Products with a matrix have the shape linear algebra gives them, although
\* the source names rows what the language calls columns.
LinearAlgebra(l, r) ==
    (IsMatrix(l) \/ IsMatrix(r)) /\ {l.shape, r.shape} \subseteq {"vector", "matrix"} =>
        LET info == DeduceBinaryExprType(Plain("mul"), l, r) IN
        \/ info.aborts
        \/ /\ info.type = Error <=> MatrixColumns(l, TRUE) # MatrixRows(r, FALSE)
           /\ IsVector(info.type) =>
                 info.type.size = IF IsVector(l) THEN MatrixColumns(r, FALSE) ELSE MatrixRows(l, TRUE)
           /\ IsMatrix(info.type) =>
                 info.type.cols = MatrixRows(l, TRUE) /\ info.type.rows = MatrixColumns(r, FALSE)
ProductsAreLinearAlgebra == \A t \in LeafTypes : LinearAlgebra(expr, t) /\ LinearAlgebra(t, expr)

\* The parameter types of the overload a call finds do not depend on the order
\* in which the hash table yields the declarations of one level.
Arguments == {<<t>> : t \in LeafTypes} \cup {<<t, u>> : t, u \in LeafTypes}
ParamTypes(entry) == [i \in DOMAIN entry.params |-> entry.params[i].type]
OverloadOrderIrrelevant ==
    expr = NoExpr => \A args \in Arguments :
        ParamTypes(FindFunction(table, args)) = ParamTypes(FindFunction([table EXCEPT !.own = Reverse(@)], args))

\* "Two fundamental types are at least convertible in one direction"
\* (DeduceMatrixOpBinaryExprType): the builder never aborts.
ElementsConvertOneWay == ~aborted
=============================================================================
