----------------------------- MODULE ConstEval -----------------------------
(***************************************************************************)
(* The folding of constant expressions, as hovering and array sizes ask    *)
(* for it: the value ConstValue computes for a node of the syntax tree,    *)
(* beside the type the AST builder deduces for the node and the value the  *)
(* language gives it.  A node is built from the node before it and a leaf. *)
(*                                                                         *)
(* A value keeps the scalars of a vector or matrix in one buffer, a matrix *)
(* row by row, where a row is what the language calls a column.  Floating  *)
(* point numbers are the integers among them; a fraction, an infinity and  *)
(* the result of a conversion that C++ leaves undefined are Unspecified.   *)
(* Structs and arrays are left out.                                        *)
(***************************************************************************)
EXTENDS Typing, Scalars, Sequences, SequencesExt, Bitwise

CONSTANTS
    IntBits,        \* the width of int and uint, 32 in the source
    SmallBits,      \* the width of int8_t and uint8_t, 8 in the source
    Unspecified,    \* a number the model does not follow
    Leaves,         \* [type, const, value]: literals and names
    Constructed,    \* the types that constructors are called for
    Called,         \* the built-in functions that are called
    MaxOperations   \* bound: operations in an expression

ASSUME WidthAssumption == SmallBits \in Nat /\ IntBits \in Nat /\ 1 < SmallBits /\ SmallBits < IntBits

VARIABLES
    node,           \* [type, const, value, meaning] of the expression
    exact,          \* every operation in it is one ConstValue implements
    operations,
    trapped,        \* an integer division has killed the process
    mistyped        \* a buffer was read as scalars of another kind

foldVars == <<node, exact, operations, trapped, mistyped>>

-----------------------------------------------------------------------------
(* Scalars.                                                                 *)

Modulus(kind) == IF kind \in {"int8", "uint8"} THEN 2^SmallBits ELSE 2^IntBits
Least(kind) == IF kind \in Signed THEN -(Modulus(kind) \div 2) ELSE 0
Fits(kind, n) == n >= Least(kind) /\ n < Least(kind) + Modulus(kind)

\* What is stored in a scalar of the kind: unsigned arithmetic is modular, and
\* signed arithmetic wraps on the machines the server is built for.
Store(kind, n) ==
    CASE n = Unspecified \/ kind \in FloatPoint -> n
      [] n # Unspecified /\ kind = "bool" -> Truth(n # 0)
      [] OTHER -> ((n - Least(kind)) % Modulus(kind)) + Least(kind)

\* static_cast between the C++ types.
CastElement(from, to, n) ==
    IF from \in FloatPoint /\ to \in Integral /\ n # Unspecified /\ ~Fits(to, n) THEN Unspecified ELSE Store(to, n)

Exactly(a, b) == IF b # 0 /\ Magnitude(a) % Magnitude(b) = 0 THEN Quotient(a, b) ELSE Unspecified
Bits(kind, n) == n % Modulus(kind)

ElementUnary(op, kind, a) ==
    IF a = Unspecified THEN a
    ELSE Store(kind, CASE op = "identity" -> a [] op = "negate" -> -a [] op = "bitnot" -> -a - 1 [] op = "not" -> Truth(a = 0))

ElementBinary(op, kind, a, b) ==
    CASE Unspecified \in {a, b} -> Unspecified
      [] OTHER -> CASE op = "plus" -> Store(kind, a + b)
                    [] op = "minus" -> Store(kind, a - b)
                    [] op = "mul" -> Store(kind, a * b)
                    [] op = "div" -> IF kind \in FloatPoint THEN Exactly(a, b) ELSE Store(kind, Quotient(a, b))
                    [] op = "modulo" -> Store(kind, a - b * Quotient(a, b))
                    [] op = "bitand" -> Store(kind, Bits(kind, a) & Bits(kind, b))
                    [] op = "bitor" -> Store(kind, Bits(kind, a) | Bits(kind, b))
                    [] op = "bitxor" -> Store(kind, Bits(kind, a) ^^ Bits(kind, b))
                    [] op = "equal" -> Truth(a = b)
                    [] op = "notequal" -> Truth(a # b)
                    [] op = "less" -> Truth(a < b)
                    [] op = "lesseq" -> Truth(a <= b)
                    [] op = "greater" -> Truth(a > b)
                    [] op = "greatereq" -> Truth(a >= b)
                    [] op = "logicaland" -> Truth(a # 0 /\ b # 0)
                    [] op = "logicalor" -> Truth(a # 0 \/ b # 0)
                    [] op = "logicalxor" -> Truth((a # 0) # (b # 0))

Comparisons == EqualityOps \cup OrderingOps

\* The scalar kinds an operator is defined for; a shift is not implemented.
Implements(op, kind) ==
    \/ op \in {"plus", "minus", "mul", "div", "negate"} \cup OrderingOps /\ kind # "bool"
    \/ op \in {"modulo", "bitnot"} \cup BitOps /\ kind \in Integral
    \/ op \in {"identity", "not"} \cup EqualityOps \cup LogicalOps

\* The processor traps where C++ leaves integer division undefined.  The
\* operands of smaller kinds are promoted to int first.
Traps(op, kind, a, b) ==
    /\ op \in {"div", "modulo"} /\ kind \in Integral
    /\ b = 0 \/ (kind = "int" /\ a = Least("int") /\ b = -1)

-----------------------------------------------------------------------------
(* ConstValue.                                                              *)

Value(kind, rows, cols, elems) == [kind |-> kind, rows |-> rows, cols |-> cols, elems |-> elems]
NoValue == Value("bool", 0, 0, <<>>)
Scalar(kind, n) == Value(kind, 1, 1, <<n>>)
HoldsScalar(v) == Len(v.elems) = 1
HoldsVector(v) == v.rows = 1 /\ v.cols > 1
HoldsMatrix(v) == v.rows > 1 /\ v.cols > 1
WithElements(v, kind, F(_)) == Value(kind, v.rows, v.cols, [i \in DOMAIN v.elems |-> F(i)])

CastScalar(v, kind) == WithElements(v, kind, LAMBDA i : CastElement(v.kind, kind, v.elems[i]))

\* The bytes of an uint8_t are taken for int8_t by every operator.
ReadAs(kind) == IF kind = "uint8" THEN "int8" ELSE kind

ElemwiseUnary(op, v) ==
    IF v = NoValue \/ op = "increment" \/ ~Implements(op, v.kind) THEN NoValue
    ELSE IF op = "identity" THEN v
    ELSE WithElements(v, ReadAs(v.kind),
            LAMBDA i : ElementUnary(op, ReadAs(v.kind), Store(ReadAs(v.kind), v.elems[i])))

\* The loop runs over the left operand's scalars.  What follows the scalars of
\* a right operand with fewer is still zero, as both fit the local buffer.
ElementAt(v, i) == IF i \in DOMAIN v.elems THEN v.elems[i] ELSE 0

ElemwiseBinary(op, v, w) ==
    IF NoValue \in {v, w} \/ op \in ShiftOps \/ ~Implements(op, v.kind) THEN NoValue
    ELSE WithElements(v, IF op \in Comparisons THEN "bool" ELSE ReadAs(v.kind),
            LAMBDA i : ElementBinary(op, ReadAs(v.kind), Store(ReadAs(v.kind), v.elems[i]),
                                                          Store(ReadAs(v.kind), ElementAt(w, i))))

BinaryTraps(op, v, w) ==
    NoValue \notin {v, w} /\ \E i \in DOMAIN v.elems : Traps(op, ReadAs(v.kind), v.elems[i], ElementAt(w, i))

GetElement(v, i) ==
    LET size == IF HoldsMatrix(v) THEN v.cols ELSE 1 IN
    IF v = NoValue \/ i < 0 \/ (i + 1) * size > Len(v.elems) THEN NoValue
    ELSE Value(v.kind, 1, size, SubSeq(v.elems, i * size + 1, (i + 1) * size))

GetSwizzle(v, indices) ==
    IF v = NoValue \/ \E k \in DOMAIN indices : GetElement(v, indices[k]) = NoValue THEN NoValue
    ELSE Value(v.kind, v.rows, Len(indices), [k \in DOMAIN indices |-> GetElement(v, indices[k]).elems[1]])

\* The arguments' scalars one after the other; a place in the result is found
\* by the size an argument has before it is cast.
SizeOf(kind) == CASE kind \in {"bool", "int8", "uint8"} -> 1 [] kind = "double" -> 8 [] OTHER -> 4
Compose(values, kind, rows, cols) ==
    LET all == FlattenSeq([i \in DOMAIN values |-> CastScalar(values[i], kind).elems])
        inPlace == \A i \in 1 .. Len(values) - 1 : SizeOf(values[i].kind) = SizeOf(kind)
    IN  IF Len(all) # rows * cols THEN NoValue
        ELSE Value(kind, rows, cols, IF inPlace THEN all ELSE [i \in DOMAIN all |-> Unspecified])

Repeated(n, times) == [i \in 1 .. times |-> n]
Grid(rows, cols, F(_, _)) ==
    [k \in 1 .. rows * cols |-> F((k - 1) \div cols + 1, ((k - 1) % cols) + 1)]

ConstructScalar(v, kind) ==
    CASE HoldsScalar(v) -> CastScalar(v, kind)
      [] HoldsVector(v) -> CastScalar(GetElement(v, 0), kind)
      [] HoldsMatrix(v) -> CastScalar(GetElement(GetElement(v, 0), 0), kind)
      [] OTHER -> NoValue

ConstructVector(v, kind, size) ==
    CASE HoldsScalar(v) -> CastScalar(Value(v.kind, 1, size, Repeated(v.elems[1], size)), kind)
      [] HoldsVector(v) /\ v.cols = size -> CastScalar(v, kind)
      [] HoldsMatrix(v) /\ Len(v.elems) = size -> Compose(<<v>>, kind, 1, size)
      [] OTHER -> NoValue

\* Mutant: the diagonal beyond the argument stays zero.
PadWithZero(v, i, j) == IF i <= v.rows /\ j <= v.cols THEN v.elems[(i - 1) * v.cols + j] ELSE 0
PadWithIdentity(v, i, j) ==
    IF i <= v.rows /\ j <= v.cols THEN v.elems[(i - 1) * v.cols + j] ELSE Truth(i = j)

ConstructMatrix(v, kind, rows, cols) ==
    CASE HoldsScalar(v) ->
            CastScalar(Value(v.kind, rows, cols, Grid(rows, cols, LAMBDA i, j : IF i = j THEN v.elems[1] ELSE 0)), kind)
      [] HoldsVector(v) /\ Len(v.elems) = rows * cols -> Compose(<<v>>, kind, rows, cols)
      [] HoldsMatrix(v) ->
            CastScalar(Value(v.kind, rows, cols, Grid(rows, cols, LAMBDA i, j : PadWithIdentity(v, i, j))), kind)
      [] OTHER -> NoValue

-----------------------------------------------------------------------------
(* The built-in functions that fold, with their declarations in the system  *)
(* preamble and their operations on a scalar.  Only the names of the model's *)
(* types are declared.                                                      *)

Angular == {"radians", "degrees", "sin", "cos", "asin", "acos"}
Exponential == {"exp", "log", "exp2", "log2", "pow"}
Roots == {"sqrt", "inversesqrt"}
Rounding == {"floor", "trunc", "round", "ceil"}
Extremal == {"min", "max", "clamp"}

SignedKinds == <<"int8", "int16", "int", "int64">>
UnsignedKinds == <<"uint8", "uint16", "uint", "uint64">>
FloatKinds == <<"float16", "float", "double">>

\* The scalar and the vectors of each kind.
GenTypes(kinds) ==
    FlattenSeq([i \in DOMAIN kinds |->
        <<GetScalarType(kinds[i])>>
            \o SelectSeq([n \in 1 .. 3 |-> GetVectorType(kinds[i], n + 1)], LAMBDA t : t # Error)])

\* A function of n parameters for each type; in those of an overload with
\* scalars all but the first are.
Declared(kinds, n, WithScalars) ==
    LET types == GenTypes(kinds)
    IN  [k \in DOMAIN types |->
            [params |-> [i \in 1 .. n |->
                 [type |-> IF WithScalars /\ i > 1 THEN ElementType(types[k]) ELSE types[k],
                  isInput |-> TRUE, isOutput |-> FALSE]],
             ret |-> types[k]]]

AngularFunctions == Declared(<<"float16", "float">>, 1, FALSE)
ExponentialFunctions(name) == Declared(<<"float16", "float">>, IF name = "pow" THEN 2 ELSE 1, FALSE)
SignFunctions == Declared(SignedKinds \o FloatKinds, 1, FALSE)
RoundingFunctions == Declared(FloatKinds, 1, FALSE)

\* Each of them is declared with scalars as well, scalars therefore twice.
ExtremalFunctions(name) ==
    LET kinds == SignedKinds \o UnsignedKinds \o FloatKinds
        n == IF name = "clamp" THEN 3 ELSE 2
    IN  Declared(kinds, n, FALSE) \o Declared(kinds, n, TRUE)

FunctionsNamed(name) ==
    CASE name \in Angular -> AngularFunctions
      [] name \in Exponential -> ExponentialFunctions(name)
      [] name \in {"abs", "sign"} -> SignFunctions
      [] name \in Rounding \cup Roots -> RoundingFunctions
      [] name \in Extremal -> ExtremalFunctions(name)

\* What rounding does to the integers among floating point numbers, and what the
\* other functions make of them.
ElementFunction(name, kind, a) ==
    CASE a = Unspecified \/ name \in Angular \cup Exponential \cup Roots -> Unspecified
      [] OTHER -> CASE name = "abs" -> Store(kind, Magnitude(a))
                    [] name = "sign" -> IF a > 0 THEN 1 ELSE IF a < 0 THEN -1 ELSE 0
                    [] name \in Rounding -> a

ElementExtremum(name, a, b) ==
    IF Unspecified \in {a, b} \/ name = "pow" THEN Unspecified
    ELSE IF (a < b) = (name = "min") THEN a ELSE b

\* The kinds the operation of a function is defined for.
Folds(name, kind) ==
    \/ kind \in FloatPoint
    \/ name \in {"abs", "sign"} /\ kind \in Signed
    \/ name \in Extremal /\ kind \in Integral \cup {"bool"}

EvalBuiltinFunction1(name, v) ==
    IF v = NoValue \/ ~Folds(name, v.kind) THEN NoValue
    ELSE WithElements(v, v.kind, LAMBDA i : ElementFunction(name, v.kind, v.elems[i]))

EvalBuiltinFunction2(name, v, w) ==
    IF NoValue \in {v, w} \/ ~Folds(name, v.kind) THEN NoValue
    ELSE LET kind == ReadAs(v.kind)
         IN  WithElements(v, kind, LAMBDA i : ElementExtremum(name, Store(kind, v.elems[i]),
                                                                    Store(kind, ElementAt(w, i))))

\* ElemwiseClamp.
EvalBuiltinFunction3(v, low, high) ==
    IF NoValue \in {v, low, high} THEN NoValue
    ELSE EvalBuiltinFunction2("min", EvalBuiltinFunction2("max", v, low), high)

EvalFunctionCall(name, values) ==
    CASE Len(values) = 1 -> EvalBuiltinFunction1(name, values[1])
      [] Len(values) = 2 -> EvalBuiltinFunction2(name, values[1], values[2])
      [] OTHER -> EvalBuiltinFunction3(values[1], values[2], values[3])

-----------------------------------------------------------------------------
(* The value the language gives an expression: scalars at <<column, row>>. *)

Columns(t) == IF IsMatrix(t) THEN t.rows ELSE 1
Rows(t) == IF IsMatrix(t) THEN t.cols ELSE IF IsVector(t) THEN t.size ELSE 1
Places(t) == (1 .. Columns(t)) \X (1 .. Rows(t))
Place(t, k) == <<(k - 1) \div Rows(t) + 1, ((k - 1) % Rows(t)) + 1>>
Size(t) == Columns(t) * Rows(t)

NoMeaning == [type |-> Error]
Meaning(t, F(_)) == [type |-> t, at |-> [p \in Places(t) |-> F(p)]]
Listed(m) == [k \in 1 .. Size(m.type) |-> m.at[Place(m.type, k)]]
MeantCast(m, t) == Meaning(t, LAMBDA p : CastElement(m.type.kind, t.kind, m.at[p]))

MeantBinary(op, type, l, r) ==
    IF \/ NoMeaning \in {l, r} \/ l.type # r.type
       \/ op \in ShiftOps \/ ~Implements(op, l.type.kind)
       \/ op \in {"div", "modulo"} /\ l.type.kind \in Integral /\ 0 \in ToSet(Listed(r))
    THEN NoMeaning
    ELSE Meaning(type, LAMBDA p : ElementBinary(op, l.type.kind, l.at[p], r.at[p]))

MeantElement(m, i) ==
    CASE IsVector(m.type) /\ i \in 0 .. m.type.size - 1 ->
            Meaning(ElementType(m.type), LAMBDA p : m.at[<<1, i + 1>>])
      [] IsMatrix(m.type) /\ i \in 0 .. Columns(m.type) - 1 ->
            Meaning(Vector(m.type.kind, Rows(m.type)), LAMBDA p : m.at[<<i + 1, p[2]>>])
      [] OTHER -> NoMeaning

\* A constructor: the first scalar; one scalar everywhere or on the diagonal;
\* a matrix over the identity; or the scalars of all arguments in their order.
MeantConstructor(type, args) ==
    LET Cast(m) == [k \in 1 .. Size(m.type) |-> CastElement(m.type.kind, type.kind, Listed(m)[k])]
        m == args[1]
        first == Cast(m)[1]
        all == FlattenSeq([i \in DOMAIN args |-> Cast(args[i])])
        one == Len(args) = 1
    IN  CASE NoMeaning \in ToSet(args) -> NoMeaning
          [] NoMeaning \notin ToSet(args) /\ one /\ (IsScalar(type) \/ (IsVector(type) /\ IsScalar(m.type))) ->
                Meaning(type, LAMBDA p : first)
          [] NoMeaning \notin ToSet(args) /\ one /\ IsMatrix(type) /\ IsScalar(m.type) ->
                Meaning(type, LAMBDA p : IF p[1] = p[2] THEN first ELSE 0)
          [] NoMeaning \notin ToSet(args) /\ one /\ IsMatrix(type) /\ IsMatrix(m.type) ->
                Meaning(type, LAMBDA p : IF p \in Places(m.type) THEN CastElement(m.type.kind, type.kind, m.at[p])
                                         ELSE Truth(p[1] = p[2]))
          [] OTHER ->
                IF ~IsScalar(type) /\ Len(all) = Size(type)
                THEN Meaning(type, LAMBDA p : all[(p[1] - 1) * Rows(type) + p[2]]) ELSE NoMeaning

\* A function applies to the components at each place; a scalar stands for a
\* vector of it.
MeantCall(name, type, args) ==
    LET At(m, p) == IF IsScalar(m.type) THEN m.at[<<1, 1>>] ELSE m.at[p]
        Least2(a, b) == IF Unspecified \in {a, b} THEN Unspecified ELSE IF a <= b THEN a ELSE b
        Most(a, b) == IF Unspecified \in {a, b} THEN Unspecified ELSE IF a <= b THEN b ELSE a
    IN  IF NoMeaning \in ToSet(args) THEN NoMeaning
        ELSE Meaning(type, LAMBDA p :
                CASE name = "min"   -> Least2(At(args[1], p), At(args[2], p))
                  [] name = "max"   -> Most(At(args[1], p), At(args[2], p))
                  [] name = "clamp" -> Least2(Most(At(args[1], p), At(args[2], p)), At(args[3], p))
                  [] name = "pow"   -> Unspecified
                  [] OTHER          -> ElementFunction(name, type.kind, At(args[1], p)))

-----------------------------------------------------------------------------
(* The nodes.                                                               *)

NoNode == [type |-> [shape |-> "none"]]

ValueMeans(type, v) == Meaning(type, LAMBDA p : v.elems[(p[1] - 1) * Rows(type) + p[2]])
LeafNode(leaf) ==
    [type |-> leaf.type, const |-> leaf.const,
     value |-> IF leaf.const THEN leaf.value ELSE NoValue,
     meaning |-> IF leaf.const THEN ValueMeans(leaf.type, leaf.value) ELSE NoMeaning]
LeafNodes == {LeafNode(leaf) : leaf \in Leaves}

FoldInit ==
    /\ node = NoNode
    /\ exact = TRUE /\ operations = 0 /\ trapped = FALSE /\ mistyped = FALSE

\* A node that is not constant has no value, whatever its operands have.
Build(type, const, value, meaning, isExact) ==
    /\ node' = [type |-> type, const |-> const,
                value |-> IF const THEN value ELSE NoValue,
                meaning |-> IF const THEN meaning ELSE NoMeaning]
    /\ exact' = (exact /\ isExact)
    /\ operations' = operations + 1

Building == node # NoNode /\ ~trapped /\ operations < MaxOperations

\* An AstImplicitCastExpr changes the kind of a value of the same shape.
ShapeFits(v, t) ==
    \/ IsScalar(t) /\ HoldsScalar(v)
    \/ IsVector(t) /\ HoldsVector(v) /\ Len(v.elems) = t.size
    \/ IsMatrix(t) /\ HoldsMatrix(v) /\ v.rows = t.rows /\ v.cols = t.cols
Casted(x, to) ==
    IF x.type = to \/ to = Error THEN x.value
    ELSE IF ShapeFits(x.value, to) THEN CastScalar(x.value, to.kind) ELSE NoValue
MeaningCasted(x, to) ==
    IF x.type = to \/ to = Error \/ x.meaning = NoMeaning \/ WithKind(x.type, to.kind) # to
    THEN x.meaning ELSE MeantCast(x.meaning, to)

BuildLiteral ==
    /\ node = NoNode
    /\ node' \in LeafNodes
    /\ UNCHANGED <<exact, operations, trapped, mistyped>>

BuildUnary ==
    /\ Building
    /\ \E op \in UnaryOps \ {"length"} :
          LET type == DeduceUnaryExprType(op, node.type)
              const == node.const /\ type # Error
              m == node.meaning
          IN /\ Build(type, const, ElemwiseUnary(op, node.value),
                      IF m = NoMeaning \/ op = "increment" THEN NoMeaning
                      ELSE Meaning(type, LAMBDA p : ElementUnary(op, m.type.kind, m.at[p])),
                      node.value.kind # "uint8")
             /\ mistyped' = (mistyped \/ (const /\ op # "identity" /\ node.value.kind = "uint8" /\ Implements(op, "uint8")))
    /\ UNCHANGED trapped

\* length() is the one that folds over an operand without a value.
BuildLength ==
    /\ Building
    /\ LET t == node.type
           type == DeduceUnaryExprType("length", t)
           size == IF IsMatrix(t) THEN t.cols ELSE t.size
       IN Build(type, t.shape \in {"vector", "matrix"}, Scalar("int", size),
                Meaning(type, LAMBDA p : IF IsMatrix(t) THEN Columns(t) ELSE t.size),
                ~IsMatrix(t) \/ t.rows = t.cols)
    /\ UNCHANGED <<trapped, mistyped>>

\* Where ConstValue folds as the language does: operands of one shape and, if
\* they are not scalars, neither a product of matrices nor a comparison.
SameShape(op, info, v, w) ==
    /\ <<v.rows, v.cols, v.kind>> = <<w.rows, w.cols, w.kind>>
    /\ v.kind # "uint8"
    /\ IsScalar(info.lhs) \/ (op \notin Comparisons /\ ~(op = "mul" /\ IsMatrix(info.lhs)))

BuildBinary(op, x, y) ==
    LET info == DeduceBinaryExprType(Plain(op), x.type, y.type)
        const == x.const /\ y.const /\ info.type # Error
        v == Casted(x, info.lhs)
        w == Casted(y, info.rhs)
    IN  /\ ~info.aborts
        /\ trapped' = (const /\ BinaryTraps(op, v, w))
        /\ mistyped' = (mistyped \/ (const /\ v.kind = "uint8" /\ w # NoValue /\ Implements(op, v.kind)))
        /\ IF trapped' THEN UNCHANGED <<node, exact, operations>>
           ELSE Build(info.type, const, ElemwiseBinary(op, v, w),
                      MeantBinary(op, info.type, MeaningCasted(x, info.lhs), MeaningCasted(y, info.rhs)),
                      const => NoValue \in {v, w} \/ SameShape(op, info, v, w))

BuildBinaryExpr ==
    /\ Building
    /\ \E op \in BaseOps, leaf \in LeafNodes : BuildBinary(op, node, leaf) \/ BuildBinary(op, leaf, node)

\* condition ? x : y.  A condition that is Unspecified is not followed.
SelectType(t, u) ==
    CASE Error \in {t, u} -> Error
      [] Error \notin {t, u} /\ IsConvertibleTo(t, u) -> u
      [] OTHER -> IF Error \notin {t, u} /\ IsConvertibleTo(u, t) THEN t ELSE Error

BuildSelect(condition, x, y) ==
    LET type == SelectType(x.type, y.type)
        chosen == IF condition.value.elems[1] # 0 THEN x ELSE y
        known == condition.value # NoValue /\ condition.value.kind = "bool" /\ HoldsScalar(condition.value)
    IN  /\ Unspecified \notin ToSet(condition.value.elems)
        /\ Build(type, type # Error /\ condition.const /\ x.const /\ y.const,
                 IF known THEN Casted(chosen, type) ELSE NoValue,
                 IF known THEN MeaningCasted(chosen, type) ELSE NoMeaning,
                 TRUE)

BuildSelectExpr ==
    /\ Building
    /\ \E x, y \in LeafNodes :
          \/ BuildSelect(node, x, y)
          \/ BuildSelect(x, node, y)
          \/ BuildSelect(x, y, node)
    /\ UNCHANGED <<trapped, mistyped>>

BuildIndexAccessExpr ==
    /\ Building
    /\ \E index \in LeafNodes :
          LET type == CASE IsVector(node.type) -> ElementType(node.type)
                        [] IsMatrix(node.type) -> GetVectorType(node.type.kind, node.type.cols)
                        [] OTHER -> Error
              i == Casted(index, IntType)
              known == i.kind = "int" /\ HoldsScalar(i)
          IN Build(type, node.const /\ index.const,
                   IF known THEN GetElement(node.value, i.elems[1]) ELSE NoValue,
                   IF known /\ node.meaning # NoMeaning THEN MeantElement(node.meaning, i.elems[1]) ELSE NoMeaning,
                   TRUE)
    /\ UNCHANGED <<trapped, mistyped>>

\* Components that need not exist.
Swizzles == {<<0>>, <<1>>, <<2>>, <<1, 0>>, <<0, 0, 1>>}

BuildSwizzle ==
    /\ Building /\ node.type.shape \in {"scalar", "vector"}
    /\ \E indices \in Swizzles :
          LET n == Len(indices)
              type == IF n = 1 THEN ElementType(node.type) ELSE GetVectorType(node.type.kind, n)
              m == node.meaning
              inside == m # NoMeaning /\ \A k \in 1 .. n : <<1, indices[k] + 1>> \in Places(m.type)
          IN Build(type, node.const, GetSwizzle(node.value, indices),
                   IF inside /\ type # Error THEN Meaning(type, LAMBDA p : m.at[<<1, indices[p[2]] + 1>>]) ELSE NoMeaning,
                   TRUE)
    /\ UNCHANGED <<trapped, mistyped>>

\* What BuildConstructorCallExpr casts: everything but a single argument that
\* has the dimension of the type.
Arguments(type, args) ==
    IF Len(args) = 1 /\ args[1].type # Error /\ args[1].type.shape = type.shape /\ WithKind(args[1].type, type.kind) = type
    THEN <<args[1].value>>
    ELSE [i \in DOMAIN args |->
            IF IsArithmetic(args[i].type) THEN Casted(args[i], WithKind(args[i].type, type.kind)) ELSE args[i].value]

Construct(type, values) ==
    LET one == Len(values) = 1 IN
    CASE IsScalar(type) -> IF one THEN ConstructScalar(values[1], type.kind) ELSE NoValue
      [] IsVector(type) -> IF one THEN ConstructVector(values[1], type.kind, type.size)
                           ELSE Compose(values, type.kind, 1, type.size)
      [] IsMatrix(type) -> IF one THEN ConstructMatrix(values[1], type.kind, type.rows, type.cols)
                           ELSE Compose(values, type.kind, type.rows, type.cols)

BuildConstructorCallExpr ==
    /\ Building
    /\ \E type \in Constructed, leaf \in LeafNodes :
          \E args \in {<<node>>, <<node, leaf>>, <<leaf, node>>} :
             Build(type, \A i \in DOMAIN args : args[i].const,
                   Construct(type, Arguments(type, args)),
                   MeantConstructor(type, [i \in DOMAIN args |-> args[i].meaning]),
                   TRUE)
    /\ UNCHANGED <<trapped, mistyped>>

\* A call of a function of the language, found by the types of the arguments and
\* constant if they are.
BuildCall(name, args) ==
    LET function == FindIn(FunctionsNamed(name), [i \in DOMAIN args |-> args[i].type])
        const == function # NotFound /\ \A i \in DOMAIN args : args[i].const
        values == [i \in DOMAIN args |-> Casted(args[i], function.params[i].type)]
    IN  /\ Build(function.ret, const,
                 IF const THEN EvalFunctionCall(name, values) ELSE NoValue,
                 IF const THEN MeantCall(name, function.ret,
                                         [i \in DOMAIN args |-> MeaningCasted(args[i], function.params[i].type)])
                 ELSE NoMeaning,
                 const => /\ values[1].kind # "uint8"
                          /\ \A i \in DOMAIN args : NoValue = values[i] \/ Len(values[i].elems) = Len(values[1].elems))
        /\ mistyped' = (mistyped \/ (const /\ NoValue \notin ToSet(values) /\ values[1].kind = "uint8"))

BuildFuntionCallExpr ==
    /\ Building
    /\ \E name \in Called, leaf \in LeafNodes :
          CASE name \in Extremal \cup {"pow"} ->
                  \E args \in {<<node, leaf>>, <<leaf, node>>} :
                     BuildCall(name, IF name = "clamp" THEN Append(args, leaf) ELSE args)
            [] OTHER -> BuildCall(name, <<node>>)
    /\ UNCHANGED trapped

FoldNext ==
    \/ BuildFuntionCallExpr
    \/ BuildLiteral \/ BuildUnary \/ BuildLength \/ BuildBinaryExpr \/ BuildSelectExpr
    \/ BuildIndexAccessExpr \/ BuildSwizzle \/ BuildConstructorCallExpr

-----------------------------------------------------------------------------
\* Where a constant expression folds at all, it folds to the value the language
\* gives it, through every conversion, constructor, index, swizzle and call of a
\* function; and its kind and shape are those of the type the AST builder deduced
\* for the node.  The two are computed apart, one from the buffers, the other from
\* the operands' types and their implicit casts.
FoldedHasDeducedType ==
    node.type # Error =>
        <<node.value.kind, node.value.rows, node.value.cols>> = <<node.type.kind, Columns(node.type), Rows(node.type)>>
FoldedIsMeant ==
    node # NoNode /\ exact /\ node.value # NoValue =>
        /\ FoldedHasDeducedType
        /\ node.meaning # NoMeaning => node.value.elems = Listed(node.meaning)

\* "The type must match the scalar kind of the constant." (GetBufferAs)
BuffersTyped == ~mistyped
=============================================================================
