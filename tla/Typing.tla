------------------------------- MODULE Typing -------------------------------
(***************************************************************************)
(* GLSL types as the AST builder deduces them: the implicit conversions    *)
(* between arithmetic types, the order on conversions that overload        *)
(* resolution uses, and the type of a unary or binary operation together   *)
(* with the types its operands are cast to.                                *)
(*                                                                         *)
(* As in the source, the rows of a matrix type are what matNxM writes      *)
(* first: the N columns of the language, each of them a vector of size M.  *)
(***************************************************************************)
EXTENDS Integers, Sequences

Signed == {"int8", "int16", "int", "int64"}
Unsigned == {"uint8", "uint16", "uint", "uint64"}
Integral == Signed \cup Unsigned
FloatPoint == {"float16", "float", "double"}
ScalarKinds == {"bool"} \cup Integral \cup FloatPoint

Error == [shape |-> "error"]
GetScalarType(kind) == [shape |-> "scalar", kind |-> kind]
Vector(kind, size) == [shape |-> "vector", kind |-> kind, size |-> size]
Matrix(kind, rows, cols) == [shape |-> "matrix", kind |-> kind, rows |-> rows, cols |-> cols]
ArrayOf(elem, size) == [shape |-> "array", elem |-> elem, size |-> size]
StructOf(members) == [shape |-> "struct", members |-> members]

VectorKinds == {"bool", "int", "uint", "float", "double"}
MatrixKinds == {"float", "double"}

\* Only these exist; any other vector or matrix is the error type.
GetVectorType(kind, size) ==
    IF size \in 2 .. 4 /\ kind \in VectorKinds THEN Vector(kind, size) ELSE Error
GetMatrixType(kind, rows, cols) ==
    IF {rows, cols} \subseteq 2 .. 4 /\ kind \in MatrixKinds THEN Matrix(kind, rows, cols) ELSE Error

IsScalar(t) == t.shape = "scalar"
IsVector(t) == t.shape = "vector"
IsMatrix(t) == t.shape = "matrix"
IsArithmetic(t) == t.shape \in {"scalar", "vector", "matrix"}
IsIntegral(t) == t.shape \in {"scalar", "vector"} /\ t.kind \in Integral
BoolType == GetScalarType("bool")
IntType == GetScalarType("int")
ElementType(t) == GetScalarType(t.kind)

\* GetDimension and GetArithmeticType: the same shape over another kind.
WithKind(t, kind) ==
    CASE IsMatrix(t) -> GetMatrixType(kind, t.rows, t.cols)
      [] IsVector(t) -> GetVectorType(kind, t.size)
      [] IsScalar(t) -> GetScalarType(kind)

-----------------------------------------------------------------------------
(* Conversions between scalar kinds.                                       *)

IsIntergralPromotion(from, to) == to = "int" /\ from \in {"int8", "int16", "uint8", "uint16"}
IsFPPromotion(from, to) == to = "double" /\ from \in {"float16", "float"}
IsScalarPromotion(from, to) == IsIntergralPromotion(from, to) \/ IsFPPromotion(from, to)

IntegralConversions == [
    int    |-> {"uint", "int64", "uint64"},
    uint   |-> {"int64", "uint64"},
    int8   |-> {"uint8", "int16", "uint16", "uint", "int64", "uint64"},
    int16  |-> {"uint16", "uint", "int64", "uint64"},
    int64  |-> {"uint64"},
    uint8  |-> {"int16", "uint16", "uint", "int64", "uint64"},
    uint16 |-> {"uint", "int64", "uint64"}]
IsIntegralConversion(from, to) ==
    from \in DOMAIN IntegralConversions /\ to \in IntegralConversions[from]
IsFPConversion(from, to) == from = "float16" /\ to = "float"
IsFPIntegralConversion(from, to) ==
    \/ from \in {"int", "uint"} /\ to \in {"float", "double"}
    \/ from \in {"int8", "uint8", "int16", "uint16"} /\ to \in FloatPoint
IsScalarConversion(from, to) ==
    IsIntegralConversion(from, to) \/ IsFPConversion(from, to) \/ IsFPIntegralConversion(from, to)

ScalarConvertible(from, to) == IsScalarPromotion(from, to) \/ IsScalarConversion(from, to)

IsConvertibleTo(from, to) ==
    \/ from = to
    \/ from = Error
    \/ /\ from.shape \in {"scalar", "vector"} /\ to.shape = from.shape
       /\ IsVector(from) => from.size = to.size
       /\ ScalarConvertible(from.kind, to.kind)
    \/ /\ IsMatrix(from) /\ IsMatrix(to)
       /\ from.rows = to.rows /\ from.cols = to.cols
       /\ to.kind = "double"

\* Both kinds differ from `from`: exact matches are better than any conversion.
HasBetterConversionAux(from, lhsTo, rhsTo) ==
    LET Converts(to) == IsIntegralConversion(from, to) \/ IsFPConversion(from, to) IN
    IF IsScalarPromotion(from, lhsTo) \/ IsScalarPromotion(from, rhsTo)
    THEN ~IsScalarPromotion(from, rhsTo)
    ELSE IF Converts(lhsTo) \/ Converts(rhsTo)
    THEN ~Converts(rhsTo)
    ELSE IsFPIntegralConversion(from, lhsTo) /\ lhsTo = "float" /\ rhsTo # "float"

HasBetterConversion(from, lhsTo, rhsTo) ==
    IF from \in {lhsTo, rhsTo} THEN from = lhsTo /\ from # rhsTo
    ELSE IsArithmetic(from) /\ HasBetterConversionAux(from.kind, lhsTo.kind, rhsTo.kind)

\* A type that is neither opaque nor void; the others are not modelled.
IsEqualComparableTo(t, u) == IsConvertibleTo(t, u) \/ IsConvertibleTo(u, t)
IsOrderingComparableTo(t, u) ==
    ~IsScalar(t) /\ ~IsScalar(u) /\ (IsConvertibleTo(t, u) \/ IsConvertibleTo(u, t))

-----------------------------------------------------------------------------
(* The type of an operation, and what its operands are cast to.            *)

BitOps == {"bitand", "bitor", "bitxor"}
ArithmeticOps == {"plus", "minus", "mul", "div"}
EqualityOps == {"equal", "notequal"}
OrderingOps == {"less", "lesseq", "greater", "greatereq"}
LogicalOps == {"logicaland", "logicalor", "logicalxor"}
ShiftOps == {"shiftleft", "shiftright"}
BaseOps == ArithmeticOps \cup {"modulo"} \cup BitOps \cup EqualityOps \cup OrderingOps
              \cup LogicalOps \cup ShiftOps

UnaryOps == {"identity", "negate", "increment", "bitnot", "not", "length"}

DeduceUnaryExprType(op, t) ==
    CASE op \in {"identity", "negate", "increment"} /\ IsArithmetic(t) -> t
      [] op = "bitnot" /\ IsIntegral(t) -> t
      [] op = "not" /\ t = BoolType -> t
      [] op = "length" /\ t.shape \in {"array", "vector", "matrix"} -> IntType
      [] OTHER -> Error

Info(type, lhs, rhs) == [type |-> type, lhs |-> lhs, rhs |-> rhs, aborts |-> FALSE]
Undeduced(l, r) == Info(Error, l, r)
Aborts(l, r) == [Undeduced(l, r) EXCEPT !.aborts = TRUE]

Unify(l, r) ==
    IF IsConvertibleTo(l, r) THEN Info(r, r, r)
    ELSE IF IsConvertibleTo(r, l) THEN Info(l, l, l)
    ELSE Undeduced(l, r)

DeduceComponentWise(op, l, r) ==
    IF IsVector(l) /\ l.size # r.size THEN Undeduced(l, r) ELSE
    CASE op \in ArithmeticOps -> Unify(l, r)
      [] op \in {"modulo"} \cup BitOps /\ IsIntegral(l) /\ IsIntegral(r) -> Unify(l, r)
      [] \/ op \in EqualityOps /\ IsEqualComparableTo(l, r)
         \/ op \in OrderingOps /\ IsOrderingComparableTo(l, r) -> [Unify(l, r) EXCEPT !.type = BoolType]
      [] op \in LogicalOps /\ l = BoolType /\ r = BoolType -> Info(BoolType, l, r)
      [] op \in ShiftOps /\ IsIntegral(l) /\ IsIntegral(r) -> Info(l, l, r)
      [] OTHER -> Undeduced(l, r)

\* The scalar is spread over the components; either may be converted.
\* Mutant: the scalar always becomes a component.
SpreadAnyway(scalar, composite) ==
    [type |-> composite, scalar |-> ElementType(composite), composite |-> composite]
Broadcast(scalar, composite) ==
    CASE IsConvertibleTo(scalar, ElementType(composite)) ->
            [type |-> composite, scalar |-> ElementType(composite), composite |-> composite]
      [] /\ ~IsConvertibleTo(scalar, ElementType(composite))
         /\ IsConvertibleTo(ElementType(composite), scalar) ->
            LET converted == WithKind(composite, scalar.kind) IN
            [type |-> converted, scalar |-> scalar, composite |-> converted]
      [] OTHER -> [type |-> Error, scalar |-> scalar, composite |-> composite]

DeduceScalarBroadcast(op, l, r) ==
    LET scalar == IF IsScalar(l) THEN l ELSE r
        composite == IF IsScalar(l) THEN r ELSE l
        InOrder(spread) == IF IsScalar(l) THEN Info(spread.type, spread.scalar, spread.composite)
                                          ELSE Info(spread.type, spread.composite, spread.scalar)
    IN  CASE \/ op \in ArithmeticOps
             \/ /\ op \in {"modulo"} \cup BitOps
                /\ IsIntegral(scalar) /\ IsIntegral(composite) ->
                  InOrder(Broadcast(scalar, composite))
          [] op \in ShiftOps /\ IsVector(l) /\ IsIntegral(l) /\ IsIntegral(r) -> Info(l, l, r)
          [] OTHER -> Undeduced(l, r)

\* Mutant: the rows and columns of matNxM are taken as they are named.
ProductByName(l, r, kind) ==
    CASE IsVector(l) /\ l.size = r.rows -> GetVectorType(kind, r.cols)
      [] IsVector(r) /\ l.cols = r.size -> GetVectorType(kind, l.rows)
      [] IsMatrix(l) /\ IsMatrix(r) /\ l.cols = r.rows -> GetMatrixType(kind, l.rows, r.cols)
      [] OTHER -> Error
ProductType(l, r, kind) ==
    CASE IsVector(l) /\ l.size = r.cols -> GetVectorType(kind, r.rows)
      [] IsVector(r) /\ l.rows = r.size -> GetVectorType(kind, l.cols)
      [] IsMatrix(l) /\ IsMatrix(r) /\ l.rows = r.cols -> GetMatrixType(kind, r.rows, l.cols)
      [] OTHER -> Error

\* GLSLD_UNREACHABLE when no element type converts to the other.
DeduceMatrixOp(op, l, r) ==
    LET le == ElementType(l)
        re == ElementType(r)
        Product(product, kind) ==
            IF product = Error THEN Undeduced(l, r)
            ELSE Info(product, WithKind(l, kind), WithKind(r, kind))
        Over(element) ==
            CASE element = Error -> Aborts(l, r)
              [] element # Error /\ op = "mul" -> Product(ProductType(l, r, element.kind), element.kind)
              [] OTHER -> IF le = re THEN Info(l, l, r)
                          ELSE IF element = re THEN Info(r, r, r) ELSE Info(l, l, l)
    IN  IF op \in ArithmeticOps THEN Over(Unify(le, re).type) ELSE Undeduced(l, r)

DeduceBaseOp(op, l, r) ==
    CASE ~IsArithmetic(l) \/ ~IsArithmetic(r) -> Undeduced(l, r)
      [] l.shape = r.shape /\ l.shape \in {"scalar", "vector"} -> DeduceComponentWise(op, l, r)
      [] IsArithmetic(l) /\ IsArithmetic(r) /\ IsScalar(l) # IsScalar(r) -> DeduceScalarBroadcast(op, l, r)
      [] OTHER -> DeduceMatrixOp(op, l, r)

\* An operator is [name, assigns]: `=` is "assign", `op=` assigns with op.
Plain(name) == [name |-> name, assigns |-> FALSE]
Assigning(name) == [name |-> name, assigns |-> TRUE]
AssignOps == {"assign", "modulo"} \cup ArithmeticOps \cup BitOps \cup ShiftOps
BinaryOps == {Plain(name) : name \in BaseOps \cup {"comma"}}
                \cup {Assigning(name) : name \in AssignOps}

DeduceAssignment(name, l, r) ==
    IF name = "assign" THEN Info(l, l, IF IsConvertibleTo(r, l) THEN l ELSE r)
    ELSE [DeduceBaseOp(name, l, r) EXCEPT !.type = l, !.lhs = l]

DeduceBinaryExprType(op, l, r) ==
    CASE op.assigns -> DeduceAssignment(op.name, l, r)
      [] op = Plain("comma") -> Info(r, l, r)
      [] OTHER -> DeduceBaseOp(op.name, l, r)
-----------------------------------------------------------------------------
(* Overload resolution among entries [params, ret], in table order: a       *)
(* parameter has a type and is an input, an output or both.                *)

Exact(entry, args) == Len(entry.params) = Len(args)
    /\ \A i \in 1 .. Len(args) : entry.params[i].type = args[i]

Invocable(entry, args) == Len(entry.params) = Len(args)
    /\ \A i \in 1 .. Len(args) :
          /\ entry.params[i].isInput => IsConvertibleTo(args[i], entry.params[i].type)
          /\ entry.params[i].isOutput => IsConvertibleTo(entry.params[i].type, args[i])

\* The conversions of entry e that are better than those of f.
NumBetter(e, f, args) ==
    {i \in 1 .. Len(args) : /\ e.params[i].isInput /\ f.params[i].isInput
                            /\ HasBetterConversion(args[i], e.params[i].type, f.params[i].type)}
BetterThan(e, f, args) == NumBetter(e, f, args) # {} /\ NumBetter(f, e, args) = {}

NotFound == [params |-> <<>>, ret |-> Error, none |-> TRUE]

\* Mutant: the first candidate that can be called is taken.
FirstInvocable(entries, args) ==
    LET candidates == SelectSeq(entries, LAMBDA e : Invocable(e, args))
    IN  IF candidates = <<>> THEN NotFound ELSE candidates[1]

\* The first exact match, else the one entry that is better than all others
\* that can be called.  Entries are told apart by their place in the table.
FindIn(entries, args) ==
    LET exact == {i \in DOMAIN entries : Exact(entries[i], args)}
        candidates == {i \in DOMAIN entries : Invocable(entries[i], args)}
        best == {i \in candidates : \A j \in candidates \ {i} : BetterThan(entries[i], entries[j], args)}
    IN  IF exact # {} THEN entries[CHOOSE i \in exact : \A j \in exact : i <= j]
        ELSE IF \E i \in best : best = {i} THEN entries[CHOOSE i \in best : TRUE]
        ELSE NotFound
=============================================================================
