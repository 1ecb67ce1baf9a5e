-------------------------- MODULE AstBuilderProofs --------------------------
(***************************************************************************)
(* Safety of AstBuilder for every set of declared types and every table of *)
(* overloads: expressions have types of the language (TypeOK), the casts   *)
(* the builder inserts are implicit conversions (CastsAreConversions),     *)
(* products have the shape linear algebra gives them                       *)
(* (ProductsAreLinearAlgebra), and the overload found does not depend on   *)
(* the order of the table (OverloadOrderIrrelevant).                       *)
(*                                                                         *)
(* The first needs that what is deduced for an operation is a type, and    *)
(* the second that whatever the operands are converted to can be reached   *)
(* from them: one lemma for each way in which an operator is deduced.      *)
(***************************************************************************)
EXTENDS AstBuilder, SequenceTheorems, WellFoundedInduction, TLAPS

-----------------------------------------------------------------------------
(* Types.                                                                   *)

LEMMA ArithmeticFacts ==
  ASSUME NEW t \in ArithmeticTypes
  PROVE  /\ t.kind \in ScalarKinds
         /\ \/ t.shape = "scalar" /\ t = GetScalarType(t.kind)
            \/ /\ t.shape = "vector" /\ t = Vector(t.kind, t.size)
               /\ t.kind \in VectorKinds /\ t.size \in 2 .. 4
            \/ /\ t.shape = "matrix" /\ t = Matrix(t.kind, t.rows, t.cols)
               /\ t.kind \in MatrixKinds /\ t.rows \in 2 .. 4 /\ t.cols \in 2 .. 4
  <1>1. CASE \E kind \in ScalarKinds : t = GetScalarType(kind)
    BY <1>1 DEF GetScalarType
  <1>2. CASE \E kind \in VectorKinds, size \in 2 .. 4 : t = Vector(kind, size)
    BY <1>2 DEF Vector, VectorKinds, ScalarKinds, Integral, Signed, Unsigned, FloatPoint
  <1>3. CASE \E kind \in MatrixKinds, rows, cols \in 2 .. 4 : t = Matrix(kind, rows, cols)
    BY <1>3 DEF Matrix, MatrixKinds, ScalarKinds, FloatPoint
  <1>4. QED
    BY <1>1, <1>2, <1>3 DEF ArithmeticTypes

LEMMA ExprFacts ==
  ASSUME NEW t \in ExprTypes
  PROVE  /\ IsArithmetic(t) => t \in ArithmeticTypes
         /\ t.shape = "array" => t.elem \in ExprTypes /\ t.elem \in LeafTypes
         /\ t.shape = "struct" => t.members \in Seq(LeafTypes)
  <1>1. CASE t \in LeafTypes
    BY <1>1, LeafAssumption DEF ExprTypes
  <1>2. CASE t \in ArithmeticTypes
    BY <1>2, ArithmeticFacts
  <1>3. CASE t = Error
    BY <1>3 DEF Error, IsArithmetic
  <1>4. CASE \E u \in LeafTypes, size \in 1 .. 2 : u.shape = "array" /\ t = ArrayOf(u.elem, size)
    BY <1>4, LeafAssumption DEF ArrayOf, IsArithmetic, ExprTypes
  <1>5. QED
    BY <1>1, <1>2, <1>3, <1>4 DEF ExprTypes

LEMMA ErrorIsType == Error \in ExprTypes /\ Error.shape = "error" /\ ~IsArithmetic(Error)
  BY DEF ExprTypes, Error, IsArithmetic

LEMMA ScalarIsType ==
  ASSUME NEW kind \in ScalarKinds
  PROVE  /\ GetScalarType(kind) \in ArithmeticTypes /\ GetScalarType(kind) \in ExprTypes
         /\ GetScalarType(kind).shape = "scalar" /\ GetScalarType(kind).kind = kind
         /\ GetScalarType(kind) # Error
  <1>1. GetScalarType(kind) \in ArithmeticTypes
    BY DEF ArithmeticTypes
  <1>2. GetScalarType(kind).shape = "scalar" /\ GetScalarType(kind).kind = kind
    BY DEF GetScalarType
  <1>3. QED
    BY <1>1, <1>2, ErrorIsType DEF ExprTypes

LEMMA VectorIsType ==
  ASSUME NEW kind, NEW size
  PROVE  /\ GetVectorType(kind, size) \in ExprTypes
         /\ GetVectorType(kind, size) # Error =>
               /\ kind \in VectorKinds /\ size \in 2 .. 4
               /\ GetVectorType(kind, size) = Vector(kind, size)
  BY ErrorIsType DEF GetVectorType, ExprTypes, ArithmeticTypes

LEMMA MatrixIsType ==
  ASSUME NEW kind, NEW rows, NEW cols
  PROVE  /\ GetMatrixType(kind, rows, cols) \in ExprTypes
         /\ GetMatrixType(kind, rows, cols) # Error =>
               /\ kind \in MatrixKinds /\ rows \in 2 .. 4 /\ cols \in 2 .. 4
               /\ GetMatrixType(kind, rows, cols) = Matrix(kind, rows, cols)
  <1>1. CASE {rows, cols} \subseteq 2 .. 4 /\ kind \in MatrixKinds
    <2>1. GetMatrixType(kind, rows, cols) = Matrix(kind, rows, cols)
      BY <1>1 DEF GetMatrixType
    <2>2. Matrix(kind, rows, cols) \in ArithmeticTypes
      BY <1>1 DEF ArithmeticTypes
    <2>3. QED
      BY <1>1, <2>1, <2>2 DEF ExprTypes
  <1>2. CASE ~({rows, cols} \subseteq 2 .. 4 /\ kind \in MatrixKinds)
    BY <1>2, ErrorIsType DEF GetMatrixType
  <1>3. QED
    BY <1>1, <1>2

LEMMA WithKindIsType ==
  ASSUME NEW t \in ArithmeticTypes, NEW kind \in ScalarKinds
  PROVE  /\ WithKind(t, kind) \in ExprTypes
         /\ WithKind(t, kind) # Error =>
               /\ WithKind(t, kind).shape = t.shape
               /\ WithKind(t, kind).kind = kind
               /\ IsVector(t) => WithKind(t, kind).size = t.size
               /\ IsMatrix(t) => /\ WithKind(t, kind).rows = t.rows
                                 /\ WithKind(t, kind).cols = t.cols
                                 /\ kind \in MatrixKinds
  <1>1. CASE IsScalar(t)
    <2>1. WithKind(t, kind) = GetScalarType(kind)
      BY <1>1 DEF WithKind, IsScalar, IsVector, IsMatrix
    <2>2. QED
      BY <1>1, <2>1, ScalarIsType DEF IsScalar, IsVector, IsMatrix
  <1>2. CASE IsVector(t)
    <2>1. WithKind(t, kind) = GetVectorType(kind, t.size)
      BY <1>2 DEF WithKind, IsScalar, IsVector, IsMatrix
    <2>2. Vector(kind, t.size).shape = "vector" /\ Vector(kind, t.size).kind = kind
            /\ Vector(kind, t.size).size = t.size
      BY DEF Vector
    <2>3. QED
      BY <1>2, <2>1, <2>2, VectorIsType DEF IsVector, IsMatrix
  <1>3. CASE IsMatrix(t)
    <2>1. WithKind(t, kind) = GetMatrixType(kind, t.rows, t.cols)
      BY <1>3 DEF WithKind, IsScalar, IsVector, IsMatrix
    <2>2. /\ Matrix(kind, t.rows, t.cols).shape = "matrix" /\ Matrix(kind, t.rows, t.cols).kind = kind
          /\ Matrix(kind, t.rows, t.cols).rows = t.rows /\ Matrix(kind, t.rows, t.cols).cols = t.cols
      BY DEF Matrix
    <2>3. QED
      BY <1>3, <2>1, <2>2, MatrixIsType DEF IsVector, IsMatrix
  <1>4. QED
    BY <1>1, <1>2, <1>3, ArithmeticFacts DEF IsScalar, IsVector, IsMatrix

-----------------------------------------------------------------------------
(* What an operator is deduced to be.                                       *)

Infos == [type : ExprTypes, lhs : ExprTypes, rhs : ExprTypes, aborts : BOOLEAN]

\* A cast that is inserted is a conversion.
Castable(from, to) == to = Error \/ IsConvertibleTo(from, to)

Sound(info, l, r) ==
    /\ info \in Infos
    /\ Castable(l, info.lhs)
    /\ Castable(r, info.rhs)

LEMMA CastableToItself ==
  ASSUME NEW t
  PROVE  IsConvertibleTo(t, t) /\ Castable(t, t) /\ Castable(t, Error)
  BY DEF IsConvertibleTo, Castable

LEMMA InfoIsSound ==
  ASSUME NEW l, NEW r, NEW type \in ExprTypes, NEW lhs \in ExprTypes, NEW rhs \in ExprTypes,
         Castable(l, lhs), Castable(r, rhs)
  PROVE  Sound(Info(type, lhs, rhs), l, r)
  BY DEF Info, Infos, Sound

LEMMA RetypedIsSound ==
  ASSUME NEW l, NEW r, NEW info, Sound(info, l, r), NEW type \in ExprTypes
  PROVE  Sound([info EXCEPT !.type = type], l, r)
  BY DEF Infos, Sound

LEMMA UndeducedIsSound ==
  ASSUME NEW l \in ExprTypes, NEW r \in ExprTypes
  PROVE  Sound(Undeduced(l, r), l, r) /\ Sound(Aborts(l, r), l, r)
  <1>1. Sound(Undeduced(l, r), l, r)
    BY InfoIsSound, CastableToItself, ErrorIsType DEF Undeduced
  <1>2. QED
    BY <1>1 DEF Aborts, Sound, Infos

LEMMA UnifyIsSound ==
  ASSUME NEW l \in ExprTypes, NEW r \in ExprTypes
  PROVE  Sound(Unify(l, r), l, r)
  <1>1. CASE IsConvertibleTo(l, r)
    BY <1>1, InfoIsSound, CastableToItself DEF Unify, Castable
  <1>2. CASE ~IsConvertibleTo(l, r) /\ IsConvertibleTo(r, l)
    BY <1>2, InfoIsSound, CastableToItself DEF Unify, Castable
  <1>3. CASE ~IsConvertibleTo(l, r) /\ ~IsConvertibleTo(r, l)
    BY <1>3, UndeducedIsSound DEF Unify
  <1>4. QED
    BY <1>1, <1>2, <1>3

LEMMA ComponentWiseIsSound ==
  ASSUME NEW l \in ExprTypes, NEW r \in ExprTypes, NEW op
  PROVE  Sound(DeduceComponentWise(op, l, r), l, r)
  <1>1. BoolType \in ExprTypes
    BY ScalarIsType DEF BoolType, ScalarKinds
  <1>2. Sound(Unify(l, r), l, r)
    BY UnifyIsSound
  <1>3. Sound([Unify(l, r) EXCEPT !.type = BoolType], l, r)
    BY <1>1, <1>2, RetypedIsSound
  <1>4. Sound(Info(BoolType, l, r), l, r) /\ Sound(Info(l, l, r), l, r)
    BY <1>1, InfoIsSound, CastableToItself
  <1>5. Sound(Undeduced(l, r), l, r)
    BY UndeducedIsSound
  <1>6. DeduceComponentWise(op, l, r) \in
           {Unify(l, r), [Unify(l, r) EXCEPT !.type = BoolType], Info(BoolType, l, r),
            Info(l, l, r), Undeduced(l, r)}
    BY DEF DeduceComponentWise
  <1>7. QED
    BY <1>2, <1>3, <1>4, <1>5, <1>6

\* A matrix is converted where its elements are: only to double, and a vector
\* keeps its size.
LEMMA ElementwiseConversion ==
  ASSUME NEW t \in ArithmeticTypes, NEW kind \in ScalarKinds, kind # t.kind,
         ScalarConvertible(t.kind, kind)
  PROVE  Castable(t, WithKind(t, kind))
  <1>1. SUFFICES ASSUME WithKind(t, kind) # Error
                 PROVE  IsConvertibleTo(t, WithKind(t, kind))
    BY DEF Castable
  <1> DEFINE to == WithKind(t, kind)
  <1>2. /\ to.shape = t.shape /\ to.kind = kind
        /\ IsVector(t) => to.size = t.size
        /\ IsMatrix(t) => to.rows = t.rows /\ to.cols = t.cols /\ kind \in MatrixKinds
    BY <1>1, WithKindIsType
  <1> HIDE DEF to
  <1>3. ASSUME t.shape \in {"scalar", "vector"}
        PROVE  IsConvertibleTo(t, to)
    BY <1>2, <1>3 DEF IsConvertibleTo, IsVector
  <1>4. ASSUME t.shape = "matrix"
        PROVE  IsConvertibleTo(t, to)
    <2>1. t.kind \in MatrixKinds
      BY <1>4, ArithmeticFacts
    <2>2. kind = "double"
      BY <1>2, <1>4, <2>1 DEF IsMatrix, MatrixKinds, ScalarConvertible,
         IsScalarPromotion, IsIntergralPromotion, IsFPPromotion, IsScalarConversion,
         IsIntegralConversion, IntegralConversions, IsFPConversion, IsFPIntegralConversion
    <2>3. QED
      BY <1>2, <1>4, <2>2 DEF IsConvertibleTo, IsMatrix
  <1>5. QED
    BY <1>3, <1>4, ArithmeticFacts DEF to

LEMMA ScalarsConvert ==
  ASSUME NEW from \in ScalarKinds, NEW to \in ScalarKinds
  PROVE  IsConvertibleTo(GetScalarType(from), GetScalarType(to))
            <=> from = to \/ ScalarConvertible(from, to)
  <1>1. GetScalarType(from).shape = "scalar" /\ GetScalarType(from).kind = from
    BY DEF GetScalarType
  <1>2. GetScalarType(to).shape = "scalar" /\ GetScalarType(to).kind = to
    BY DEF GetScalarType
  <1>3. GetScalarType(from) # Error
    BY ScalarIsType
  <1>4. (GetScalarType(from) = GetScalarType(to)) <=> from = to
    BY <1>1, <1>2
  <1>5. QED
    BY <1>1, <1>2, <1>3, <1>4 DEF IsConvertibleTo, IsVector, IsMatrix

LEMMA BroadcastIsSound ==
  ASSUME NEW scalar \in ArithmeticTypes, NEW composite \in ArithmeticTypes, IsScalar(scalar)
  PROVE  LET spread == Broadcast(scalar, composite) IN
         /\ spread.type \in ExprTypes
         /\ spread.scalar \in ExprTypes /\ Castable(scalar, spread.scalar)
         /\ spread.composite \in ExprTypes /\ Castable(composite, spread.composite)
  <1> DEFINE element == ElementType(composite)
             converted == WithKind(composite, scalar.kind)
  <1>1. scalar \in ExprTypes /\ composite \in ExprTypes
    BY DEF ExprTypes
  <1>2. scalar.kind \in ScalarKinds /\ scalar = GetScalarType(scalar.kind)
    BY ArithmeticFacts DEF IsScalar
  <1>3. composite.kind \in ScalarKinds
    BY ArithmeticFacts
  <1>4. element \in ExprTypes /\ converted \in ExprTypes
    BY <1>2, <1>3, ScalarIsType, WithKindIsType DEF ElementType
  <1>5. CASE IsConvertibleTo(scalar, element)
    <2>1. Broadcast(scalar, composite) =
             [type |-> composite, scalar |-> element, composite |-> composite]
      BY <1>5 DEF Broadcast
    <2>2. QED
      BY <1>1, <1>4, <1>5, <2>1, CastableToItself DEF Castable
  <1>6. CASE ~IsConvertibleTo(scalar, element) /\ IsConvertibleTo(element, scalar)
    <2>1. Broadcast(scalar, composite) =
             [type |-> converted, scalar |-> scalar, composite |-> converted]
      BY <1>6 DEF Broadcast
    <2>2. scalar.kind # composite.kind
      BY <1>2, <1>6, CastableToItself DEF ElementType
    <2>3. ScalarConvertible(composite.kind, scalar.kind)
      BY <1>2, <1>3, <1>6, <2>2, ScalarsConvert DEF ElementType
    <2>4. Castable(composite, converted)
      BY <1>2, <1>3, <2>2, <2>3, ElementwiseConversion
    <2>5. QED
      BY <1>1, <1>4, <2>1, <2>4, CastableToItself
  <1>7. CASE ~IsConvertibleTo(scalar, element) /\ ~IsConvertibleTo(element, scalar)
    <2>1. Broadcast(scalar, composite) =
             [type |-> Error, scalar |-> scalar, composite |-> composite]
      BY <1>7 DEF Broadcast
    <2>2. QED
      BY <1>1, <2>1, CastableToItself, ErrorIsType
  <1>8. QED
    BY <1>5, <1>6, <1>7

LEMMA ScalarBroadcastIsSound ==
  ASSUME NEW l \in ArithmeticTypes, NEW r \in ArithmeticTypes, IsScalar(l) <=> ~IsScalar(r), NEW op
  PROVE  Sound(DeduceScalarBroadcast(op, l, r), l, r)
  <1>1. l \in ExprTypes /\ r \in ExprTypes
    BY DEF ExprTypes
  <1>2. Sound(Info(l, l, r), l, r) /\ Sound(Undeduced(l, r), l, r)
    BY <1>1, InfoIsSound, UndeducedIsSound, CastableToItself
  <1>3. CASE IsScalar(l)
    <2> DEFINE spread == Broadcast(l, r)
               info == Info(spread.type, spread.scalar, spread.composite)
    <2>1. Sound(info, l, r)
      BY <1>3, BroadcastIsSound, InfoIsSound
    <2>2. DeduceScalarBroadcast(op, l, r) \in {info, Info(l, l, r), Undeduced(l, r)}
      BY <1>3 DEF DeduceScalarBroadcast
    <2>3. QED
      BY <1>2, <2>1, <2>2
  <1>4. CASE ~IsScalar(l)
    <2> DEFINE spread == Broadcast(r, l)
               info == Info(spread.type, spread.composite, spread.scalar)
    <2>1. Sound(info, l, r)
      BY <1>4, BroadcastIsSound, InfoIsSound
    <2>2. DeduceScalarBroadcast(op, l, r) \in {info, Info(l, l, r), Undeduced(l, r)}
      BY <1>4 DEF DeduceScalarBroadcast
    <2>3. QED
      BY <1>2, <2>1, <2>2
  <1>5. QED
    BY <1>3, <1>4

LEMMA MatrixOpIsTyped ==
  ASSUME NEW l \in ArithmeticTypes, NEW r \in ArithmeticTypes, NEW op
  PROVE  DeduceMatrixOp(op, l, r) \in Infos
  <1> DEFINE le == ElementType(l)
             re == ElementType(r)
             element == Unify(le, re).type
             product == ProductType(l, r, element.kind)
  <1>1. l \in ExprTypes /\ r \in ExprTypes
    BY DEF ExprTypes
  <1>2. Undeduced(l, r) \in Infos /\ Aborts(l, r) \in Infos
    BY <1>1, UndeducedIsSound DEF Sound
  <1>3. Info(l, l, r) \in Infos /\ Info(r, r, r) \in Infos /\ Info(l, l, l) \in Infos
    BY <1>1 DEF Info, Infos
  <1>4. product \in ExprTypes
    BY VectorIsType, MatrixIsType, ErrorIsType DEF ProductType
  <1>5. ASSUME element # Error
        PROVE  Info(product, WithKind(l, element.kind), WithKind(r, element.kind)) \in Infos
    <2>1. element \in {le, re}
      BY <1>5 DEF Unify, Undeduced, Info
    <2>2. element.kind \in ScalarKinds
      BY <2>1, ArithmeticFacts, ScalarIsType DEF ElementType
    <2>3. QED
      BY <1>4, <2>2, WithKindIsType DEF Info, Infos
  <1>6. \/ DeduceMatrixOp(op, l, r) \in {Undeduced(l, r), Aborts(l, r), Info(l, l, r), Info(r, r, r), Info(l, l, l)}
        \/ /\ element # Error
           /\ DeduceMatrixOp(op, l, r) = Info(product, WithKind(l, element.kind), WithKind(r, element.kind))
    BY DEF DeduceMatrixOp
  <1>7. QED
    BY <1>2, <1>3, <1>5, <1>6

\* The operator deduces types, and converts its operands by conversions of
\* the language unless it is an operation on matrices.
Deduced(info, l, r) ==
    /\ info \in Infos
    /\ CastTag(l, r) = "binary" => Castable(l, info.lhs) /\ Castable(r, info.rhs)

LEMMA BaseOpIsDeduced ==
  ASSUME NEW l \in ExprTypes, NEW r \in ExprTypes, NEW op
  PROVE  Deduced(DeduceBaseOp(op, l, r), l, r)
  <1>1. CASE ~IsArithmetic(l) \/ ~IsArithmetic(r)
    <2>1. DeduceBaseOp(op, l, r) = Undeduced(l, r)
      BY <1>1 DEF DeduceBaseOp, IsArithmetic
    <2>2. QED
      BY <2>1, UndeducedIsSound DEF Sound, Deduced
  <1>2. CASE IsArithmetic(l) /\ IsArithmetic(r)
    <2>1. l \in ArithmeticTypes /\ r \in ArithmeticTypes
      BY <1>2, ExprFacts
    <2>2. CASE l.shape = r.shape /\ l.shape \in {"scalar", "vector"}
      <3>1. DeduceBaseOp(op, l, r) = DeduceComponentWise(op, l, r)
        BY <1>2, <2>2 DEF DeduceBaseOp, IsArithmetic, IsScalar
      <3>2. QED
        BY <3>1, ComponentWiseIsSound DEF Sound, Deduced
    <2>3. CASE IsScalar(l) <=> ~IsScalar(r)
      <3>1. DeduceBaseOp(op, l, r) = DeduceScalarBroadcast(op, l, r)
        BY <1>2, <2>3 DEF DeduceBaseOp, IsScalar
      <3>2. QED
        BY <2>1, <2>3, <3>1, ScalarBroadcastIsSound DEF Sound, Deduced
    <2>4. CASE ~IsScalar(l) /\ ~IsScalar(r) /\ ~(l.shape = r.shape /\ l.shape \in {"scalar", "vector"})
      <3>1. DeduceBaseOp(op, l, r) = DeduceMatrixOp(op, l, r)
        BY <1>2, <2>4 DEF DeduceBaseOp, IsScalar
      <3>2. "matrix" \in {l.shape, r.shape}
        BY <1>2, <2>4 DEF IsArithmetic, IsScalar
      <3>3. CastTag(l, r) = "matrix"
        BY <2>4, <3>2 DEF CastTag
      <3>4. QED
        BY <2>1, <3>1, <3>3, MatrixOpIsTyped DEF Deduced
    <2>5. QED
      BY <2>2, <2>3, <2>4 DEF IsScalar
  <1>3. QED
    BY <1>1, <1>2

LEMMA BinaryIsDeduced ==
  ASSUME NEW l \in ExprTypes, NEW r \in ExprTypes, NEW op
  PROVE  Deduced(DeduceBinaryExprType(op, l, r), l, r)
  <1>1. ASSUME NEW name
        PROVE  Deduced(DeduceAssignment(name, l, r), l, r)
    <2>1. CASE name = "assign"
      <3>1. DeduceAssignment(name, l, r) = Info(l, l, IF IsConvertibleTo(r, l) THEN l ELSE r)
        BY <2>1 DEF DeduceAssignment
      <3>2. QED
        BY <3>1, CastableToItself DEF Deduced, Info, Infos, Castable
    <2>2. CASE name # "assign"
      <3>1. DeduceAssignment(name, l, r) = [DeduceBaseOp(name, l, r) EXCEPT !.type = l, !.lhs = l]
        BY <2>2 DEF DeduceAssignment
      <3> DEFINE info == DeduceBaseOp(name, l, r)
      <3>2. Deduced(info, l, r)
        BY BaseOpIsDeduced
      <3> HIDE DEF info
      <3>3. [info EXCEPT !.type = l, !.lhs = l] \in Infos
        BY <3>2 DEF Deduced, Infos
      <3>4. /\ [info EXCEPT !.type = l, !.lhs = l].lhs = l
            /\ [info EXCEPT !.type = l, !.lhs = l].rhs = info.rhs
        BY <3>2 DEF Deduced, Infos
      <3>5. Deduced([info EXCEPT !.type = l, !.lhs = l], l, r)
        BY <3>2, <3>3, <3>4, CastableToItself DEF Deduced
      <3>6. QED
        BY <3>1, <3>5 DEF info
    <2>3. QED
      BY <2>1, <2>2
  <1>2. Deduced(Info(r, l, r), l, r)
    BY InfoIsSound, CastableToItself DEF Sound, Deduced
  <1>3. CASE op.assigns
    BY <1>1, <1>3 DEF DeduceBinaryExprType, Plain
  <1>4. CASE ~op.assigns
    BY <1>2, <1>4, BaseOpIsDeduced DEF DeduceBinaryExprType
  <1>5. QED
    BY <1>3, <1>4

-----------------------------------------------------------------------------
(* Casts.                                                                   *)

Implicit == {"binary", "select", "argument", "return"}

GoodCasts(set) ==
    /\ set \subseteq [from : ExprTypes, to : ExprTypes, why : Reasons]
    /\ \A c \in set : c.why \in Implicit => IsConvertibleTo(c.from, c.to)

LEMMA CastIsGood ==
  ASSUME NEW from \in ExprTypes, NEW to \in ExprTypes, NEW why \in Reasons,
         why \in Implicit => Castable(from, to)
  PROVE  GoodCasts(TryMakeImplicitCast(from, to, why))
  BY DEF GoodCasts, TryMakeImplicitCast, Castable

LEMMA NoCastIsGood == GoodCasts({})
  BY DEF GoodCasts

LEMMA GoodUnion ==
  ASSUME NEW A, NEW B, GoodCasts(A), GoodCasts(B)
  PROVE  GoodCasts(A \cup B)
  BY DEF GoodCasts

LEMMA GoodUnions ==
  ASSUME NEW sets, \A A \in sets : GoodCasts(A)
  PROVE  GoodCasts(UNION sets)
  BY DEF GoodCasts

LEMMA BinaryCastsAreGood ==
  ASSUME NEW l \in ExprTypes, NEW r \in ExprTypes, NEW info, Deduced(info, l, r)
  PROVE  GoodCasts(TryMakeImplicitCast(l, info.lhs, CastTag(l, r))
                     \cup TryMakeImplicitCast(r, info.rhs, CastTag(l, r)))
  <1>1. CastTag(l, r) \in Reasons /\ (CastTag(l, r) \in Implicit => CastTag(l, r) = "binary")
    BY DEF CastTag, Reasons, Implicit
  <1>2. info.lhs \in ExprTypes /\ info.rhs \in ExprTypes
    BY DEF Deduced, Infos
  <1>3. GoodCasts(TryMakeImplicitCast(l, info.lhs, CastTag(l, r)))
    BY <1>1, <1>2, CastIsGood DEF Deduced
  <1>4. GoodCasts(TryMakeImplicitCast(r, info.rhs, CastTag(l, r)))
    BY <1>1, <1>2, CastIsGood DEF Deduced
  <1>5. QED
    BY <1>3, <1>4, GoodUnion

-----------------------------------------------------------------------------
(* Overload resolution.                                                     *)

LEMMA LeastExists ==
  ASSUME NEW set, set \subseteq Nat, set # {}
  PROVE  LET least == CHOOSE i \in set : \A j \in set : i <= j IN
         least \in set
  <1>1. PICK i \in set : \A j \in set : ~(<<j, i>> \in OpToRel(<, Nat))
    BY WFMin, NatLessThanWellFounded
  <1>2. \A j, k \in Nat : j < k => <<j, k>> \in OpToRel(<, Nat)
    BY DEF OpToRel
  <1>3. \A j \in set : i <= j
    <2>1. SUFFICES ASSUME NEW j \in set
                   PROVE  i <= j
      OBVIOUS
    <2>2. i \in Nat /\ j \in Nat
      OBVIOUS
    <2>3. ~(j < i)
      BY <1>1, <1>2, <2>2
    <2>4. QED
      BY <2>2, <2>3
  <1>4. QED
    BY <1>3

Candidates(entries, args) == {i \in DOMAIN entries : Invocable(entries[i], args)}

\* What FindIn looks for when nothing matches exactly.
BestCandidates(entries, args) ==
    {i \in Candidates(entries, args) :
        \A j \in Candidates(entries, args) \ {i} : BetterThan(entries[i], entries[j], args)}

ExactMatches(entries, args) == {i \in DOMAIN entries : Exact(entries[i], args)}

LEMMA FindCases ==
  ASSUME NEW entries \in Seq(FunctionEntries), NEW args
  PROVE  /\ ExactMatches(entries, args) # {} =>
               \E i \in ExactMatches(entries, args) : FindIn(entries, args) = entries[i]
         /\ ExactMatches(entries, args) = {} =>
               \/ \E i \in BestCandidates(entries, args) :
                     /\ BestCandidates(entries, args) = {i}
                     /\ FindIn(entries, args) = entries[i]
               \/ /\ ~\E i \in BestCandidates(entries, args) : BestCandidates(entries, args) = {i}
                  /\ FindIn(entries, args) = NotFound
  <1> DEFINE exact == ExactMatches(entries, args)
             best == BestCandidates(entries, args)
  <1>1. FindIn(entries, args) =
           IF exact # {} THEN entries[CHOOSE i \in exact : \A j \in exact : i <= j]
           ELSE IF \E i \in best : best = {i} THEN entries[CHOOSE i \in best : TRUE]
           ELSE NotFound
    BY DEF FindIn, ExactMatches, BestCandidates, Candidates
  <1>2. exact \subseteq Nat
    BY DEF ExactMatches
  <1> HIDE DEF exact, best
  <1>3. ASSUME exact # {}
        PROVE  \E i \in exact : FindIn(entries, args) = entries[i]
    BY <1>1, <1>2, <1>3, LeastExists
  <1>4. ASSUME exact = {}, NEW i \in best, best = {i}
        PROVE  FindIn(entries, args) = entries[i]
    BY <1>1, <1>4
  <1>5. ASSUME exact = {}, ~\E i \in best : best = {i}
        PROVE  FindIn(entries, args) = NotFound
    BY <1>1, <1>5
  <1>6. QED
    BY <1>3, <1>4, <1>5 DEF exact, best

LEMMA FindFacts ==
  ASSUME NEW entries \in Seq(FunctionEntries), NEW args, FindIn(entries, args) # NotFound
  PROVE  /\ FindIn(entries, args) \in FunctionEntries
         /\ Exact(FindIn(entries, args), args) \/ Invocable(FindIn(entries, args), args)
  BY FindCases DEF ExactMatches, BestCandidates, Candidates

\* The same entries in another order: p and its inverse say where they are.
Reordered(e, f, p) ==
    /\ e \in Seq(FunctionEntries) /\ f \in Seq(FunctionEntries) /\ DOMAIN e = DOMAIN f
    /\ p \in [DOMAIN e -> DOMAIN e]
    /\ \A i \in DOMAIN e : p[p[i]] = i /\ f[p[i]] = e[i]

LEMMA ReorderedBack ==
  ASSUME NEW e, NEW f, NEW p, Reordered(e, f, p)
  PROVE  Reordered(f, e, p)
  BY DEF Reordered

LEMMA MatchesMove ==
  ASSUME NEW e, NEW f, NEW p, NEW args, Reordered(e, f, p)
  PROVE  /\ \A i \in ExactMatches(e, args) : p[i] \in ExactMatches(f, args)
         /\ \A i \in Candidates(e, args) : p[i] \in Candidates(f, args)
  BY DEF Reordered, ExactMatches, Candidates

LEMMA BestMoves ==
  ASSUME NEW e, NEW f, NEW p, NEW args, Reordered(e, f, p), NEW i \in BestCandidates(e, args)
  PROVE  p[i] \in BestCandidates(f, args)
  <1>1. p[i] \in Candidates(f, args)
    BY MatchesMove DEF BestCandidates
  <1>2. ASSUME NEW j \in Candidates(f, args) \ {p[i]}
        PROVE  BetterThan(f[p[i]], f[j], args)
    <2>1. p[j] \in Candidates(e, args)
      BY ReorderedBack, MatchesMove
    <2>2. i \in DOMAIN e /\ j \in DOMAIN e
      BY DEF BestCandidates, Candidates, Reordered
    <2>3. p[j] # i
      BY <1>2, <2>2 DEF Reordered
    <2>4. f[p[i]] = e[i] /\ f[j] = e[p[j]]
      BY <2>2, ReorderedBack DEF Reordered
    <2>5. QED
      BY <2>1, <2>3, <2>4 DEF BestCandidates
  <1>3. QED
    BY <1>1, <1>2 DEF BestCandidates

\* An entry that matches exactly has the types of the arguments.
LEMMA ExactTypes ==
  ASSUME NEW entry \in FunctionEntries, NEW args, Exact(entry, args)
  PROVE  ParamTypes(entry) = [i \in 1 .. Len(args) |-> args[i]]
  <1>1. DOMAIN entry.params = 1 .. Len(args)
    BY DEF FunctionEntries, Exact
  <1>2. QED
    BY <1>1 DEF Exact, ParamTypes

LEMMA OrderIrrelevant ==
  ASSUME NEW e, NEW f, NEW p, Reordered(e, f, p), NEW args
  PROVE  ParamTypes(FindIn(e, args)) = ParamTypes(FindIn(f, args))
  <1>1. e \in Seq(FunctionEntries) /\ f \in Seq(FunctionEntries) /\ Reordered(f, e, p)
    BY ReorderedBack DEF Reordered
  <1>2. CASE ExactMatches(e, args) # {}
    <2>1. ExactMatches(f, args) # {}
      BY <1>2, MatchesMove
    <2>2. PICK i \in ExactMatches(e, args) : FindIn(e, args) = e[i]
      BY <1>1, <1>2, FindCases
    <2>3. PICK j \in ExactMatches(f, args) : FindIn(f, args) = f[j]
      BY <1>1, <2>1, FindCases
    <2>4. /\ e[i] \in FunctionEntries /\ Exact(e[i], args)
          /\ f[j] \in FunctionEntries /\ Exact(f[j], args)
      BY <1>1 DEF ExactMatches
    <2>5. QED
      BY <2>2, <2>3, <2>4, ExactTypes
  <1>3. CASE ExactMatches(e, args) = {}
    <2>1. ExactMatches(f, args) = {}
      BY <1>1, <1>3, MatchesMove
    <2>2. CASE \E i \in BestCandidates(e, args) : BestCandidates(e, args) = {i}
      <3>1. PICK i \in BestCandidates(e, args) :
               BestCandidates(e, args) = {i} /\ FindIn(e, args) = e[i]
        BY <1>1, <1>3, <2>2, FindCases
      <3>2. p[i] \in BestCandidates(f, args)
        BY BestMoves
      <3>3. \A j \in BestCandidates(f, args) : j = p[i]
        <4>1. \A j \in BestCandidates(f, args) : p[j] = i
          BY <1>1, <3>1, BestMoves
        <4>2. \A j \in BestCandidates(f, args) : j \in DOMAIN e
          BY DEF Reordered, BestCandidates, Candidates
        <4>3. QED
          BY <4>1, <4>2 DEF Reordered
      <3>4. BestCandidates(f, args) = {p[i]}
        BY <3>2, <3>3
      <3>5. FindIn(f, args) = f[p[i]]
        BY <1>1, <2>1, <3>4, FindCases
      <3>6. f[p[i]] = e[i]
        BY DEF Reordered, BestCandidates, Candidates
      <3>7. QED
        BY <3>1, <3>5, <3>6
    <2>3. CASE ~\E i \in BestCandidates(e, args) : BestCandidates(e, args) = {i}
      <3>1. ASSUME NEW j \in BestCandidates(f, args), BestCandidates(f, args) = {j}
            PROVE  FALSE
        <4>1. p[j] \in BestCandidates(e, args)
          BY <1>1, BestMoves
        <4>2. \A i \in BestCandidates(e, args) : p[i] = j
          BY <3>1, BestMoves
        <4>3. \A i \in BestCandidates(e, args) : i \in DOMAIN e
          BY DEF BestCandidates, Candidates
        <4>4. \A i \in BestCandidates(e, args) : i = p[j]
          BY <4>2, <4>3 DEF Reordered
        <4>5. BestCandidates(e, args) = {p[j]}
          BY <4>1, <4>4
        <4>6. QED
          BY <2>3, <4>1, <4>5
      <3>2. FindIn(e, args) = NotFound /\ FindIn(f, args) = NotFound
        BY <1>1, <1>3, <2>1, <2>3, <3>1, FindCases
      <3>3. QED
        BY <3>2
    <2>4. QED
      BY <2>2, <2>3
  <1>4. QED
    BY <1>2, <1>3

\* The table with the document's own entries in the opposite order.
LEMMA ReversedIsReordered ==
  ASSUME NEW imported \in Seq(FunctionEntries), NEW own \in Seq(FunctionEntries)
  PROVE  \E p : Reordered(imported \o own, imported \o Reverse(own), p)
  <1> DEFINE m == Len(imported)
             n == Len(own)
             back == Reverse(own)
             e == imported \o own
             f == imported \o back
             p == [i \in 1 .. m + n |-> IF i <= m THEN i ELSE 2 * m + n + 1 - i]
  <1>1. m \in Nat /\ n \in Nat
    OBVIOUS
  <1>2. back \in Seq(FunctionEntries) /\ Len(back) = n
    <2>1. \A i \in 1 .. n : own[n - i + 1] \in FunctionEntries
      OBVIOUS
    <2>2. back = [i \in 1 .. n |-> own[n - i + 1]]
      BY DEF Reverse
    <2>3. back \in [1 .. n -> FunctionEntries]
      BY <2>1, <2>2
    <2>4. QED
      BY <1>1, <2>3
  <1>3. /\ e \in Seq(FunctionEntries) /\ Len(e) = m + n
        /\ f \in Seq(FunctionEntries) /\ Len(f) = m + n
    BY <1>2
  <1>4. DOMAIN e = 1 .. m + n /\ DOMAIN f = 1 .. m + n
    BY <1>3
  <1>5. \A i \in 1 .. n : back[i] = own[n - i + 1]
    BY DEF Reverse
  <1>6. \A i \in 1 .. m + n :
           /\ e[i] = IF i <= m THEN imported[i] ELSE own[i - m]
           /\ f[i] = IF i <= m THEN imported[i] ELSE back[i - m]
    BY <1>2
  <1> HIDE DEF m, n, back, e, f
  <1>7. \A i \in 1 .. m + n : p[i] \in 1 .. m + n /\ p[p[i]] = i
    BY <1>1
  <1>8. ASSUME NEW i \in 1 .. m + n
        PROVE  f[p[i]] = e[i]
    <2>1. CASE i <= m
      BY <1>6, <2>1
    <2>2. CASE ~(i <= m)
      <3>1. p[i] = 2 * m + n + 1 - i /\ p[i] \in 1 .. m + n /\ ~(p[i] <= m)
        BY <1>1, <2>2
      <3>2. f[p[i]] = back[p[i] - m]
        BY <1>6, <3>1
      <3>3. p[i] - m \in 1 .. n /\ n - (p[i] - m) + 1 = i - m
        BY <1>1, <2>2, <3>1
      <3>4. back[p[i] - m] = own[i - m]
        BY <1>5, <3>3
      <3>5. QED
        BY <1>6, <2>2, <3>2, <3>4
    <2>3. QED
      BY <2>1, <2>2
  <1>9. Reordered(e, f, p)
    BY <1>3, <1>4, <1>7, <1>8 DEF Reordered
  <1>10. QED
    BY <1>9 DEF e, f, back

-----------------------------------------------------------------------------
(* Products.                                                                *)

\* What a float or a double converts to, or is converted from, with the
\* elements of a matrix is a float or a double.
LEMMA MatrixElements ==
  ASSUME NEW from \in ScalarKinds, NEW to \in ScalarKinds,
         from \in MatrixKinds, from = to \/ ScalarConvertible(from, to)
  PROVE  to \in MatrixKinds
  BY DEF MatrixKinds, ScalarConvertible, IsScalarPromotion, IsIntergralPromotion, IsFPPromotion,
         IsScalarConversion, IsIntegralConversion, IntegralConversions, IsFPConversion,
         IsFPIntegralConversion

LEMMA ProductElements ==
  ASSUME NEW l \in ArithmeticTypes, NEW r \in ArithmeticTypes,
         l.kind \in MatrixKinds \/ r.kind \in MatrixKinds,
         Unify(ElementType(l), ElementType(r)).type # Error
  PROVE  Unify(ElementType(l), ElementType(r)).type.kind \in MatrixKinds
  <1> DEFINE le == ElementType(l)
             re == ElementType(r)
  <1>1. l.kind \in ScalarKinds /\ r.kind \in ScalarKinds
    BY ArithmeticFacts
  <1>2. le.kind = l.kind /\ re.kind = r.kind
    BY <1>1, ScalarIsType DEF ElementType
  <1>3. CASE IsConvertibleTo(le, re)
    <2>1. Unify(le, re).type = re
      BY <1>3 DEF Unify, Info
    <2>2. l.kind = r.kind \/ ScalarConvertible(l.kind, r.kind)
      BY <1>1, <1>3, ScalarsConvert DEF ElementType
    <2>3. QED
      BY <1>1, <1>2, <2>1, <2>2, MatrixElements
  <1>4. CASE ~IsConvertibleTo(le, re) /\ IsConvertibleTo(re, le)
    <2>1. Unify(le, re).type = le
      BY <1>4 DEF Unify, Info
    <2>2. r.kind = l.kind \/ ScalarConvertible(r.kind, l.kind)
      BY <1>1, <1>4, ScalarsConvert DEF ElementType
    <2>3. QED
      BY <1>1, <1>2, <2>1, <2>2, MatrixElements
  <1>5. CASE ~IsConvertibleTo(le, re) /\ ~IsConvertibleTo(re, le)
    BY <1>5 DEF Unify, Undeduced, Info
  <1>6. QED
    BY <1>3, <1>4, <1>5

LEMMA ProductShape ==
  ASSUME NEW l \in ArithmeticTypes, NEW r \in ArithmeticTypes, NEW kind \in MatrixKinds,
         IsMatrix(l) \/ IsMatrix(r), {l.shape, r.shape} \subseteq {"vector", "matrix"}
  PROVE  LET product == ProductType(l, r, kind) IN
         /\ product = Error <=> MatrixColumns(l, TRUE) # MatrixRows(r, FALSE)
         /\ IsVector(product) =>
               product.size = IF IsVector(l) THEN MatrixColumns(r, FALSE) ELSE MatrixRows(l, TRUE)
         /\ IsMatrix(product) =>
               product.cols = MatrixRows(l, TRUE) /\ product.rows = MatrixColumns(r, FALSE)
  <1> USE DEF IsVector, IsMatrix
  <1>1. kind \in VectorKinds
    BY DEF MatrixKinds, VectorKinds
  <1>2. \A n \in 2 .. 4 :
           /\ GetVectorType(kind, n).shape = "vector" /\ GetVectorType(kind, n) # Error
           /\ GetVectorType(kind, n).size = n
    BY <1>1 DEF GetVectorType, Vector, Error
  <1>3. \A m, n \in 2 .. 4 :
           /\ GetMatrixType(kind, m, n).shape = "matrix" /\ GetMatrixType(kind, m, n) # Error
           /\ GetMatrixType(kind, m, n).rows = m /\ GetMatrixType(kind, m, n).cols = n
    BY DEF GetMatrixType, Matrix, Error
  <1>4. /\ l.shape = "vector" => l.size \in 2 .. 4
        /\ l.shape = "matrix" => l.rows \in 2 .. 4 /\ l.cols \in 2 .. 4
        /\ r.shape = "vector" => r.size \in 2 .. 4
        /\ r.shape = "matrix" => r.rows \in 2 .. 4 /\ r.cols \in 2 .. 4
    BY ArithmeticFacts
  <1> DEFINE product == ProductType(l, r, kind)
  <1>5. CASE l.shape = "vector" /\ r.shape = "matrix"
    <2>1. product = IF l.size = r.cols THEN GetVectorType(kind, r.rows) ELSE Error
      BY <1>5 DEF ProductType
    <2>2. MatrixColumns(l, TRUE) = l.size /\ MatrixRows(r, FALSE) = r.cols
            /\ MatrixColumns(r, FALSE) = r.rows
      BY <1>5 DEF MatrixColumns, MatrixRows
    <2>3. QED
      BY <1>2, <1>4, <1>5, <2>1, <2>2, ErrorIsType
  <1>6. CASE l.shape = "matrix" /\ r.shape = "vector"
    <2>1. product = IF l.rows = r.size THEN GetVectorType(kind, l.cols) ELSE Error
      BY <1>6 DEF ProductType
    <2>2. MatrixColumns(l, TRUE) = l.rows /\ MatrixRows(r, FALSE) = r.size
            /\ MatrixRows(l, TRUE) = l.cols
      BY <1>6 DEF MatrixColumns, MatrixRows
    <2>3. QED
      BY <1>2, <1>4, <1>6, <2>1, <2>2, ErrorIsType
  <1>7. CASE l.shape = "matrix" /\ r.shape = "matrix"
    <2>1. product = IF l.rows = r.cols THEN GetMatrixType(kind, r.rows, l.cols) ELSE Error
      BY <1>7 DEF ProductType
    <2>2. /\ MatrixColumns(l, TRUE) = l.rows /\ MatrixRows(r, FALSE) = r.cols
          /\ MatrixRows(l, TRUE) = l.cols /\ MatrixColumns(r, FALSE) = r.rows
      BY <1>7 DEF MatrixColumns, MatrixRows
    <2>3. r.rows \in 2 .. 4 /\ l.cols \in 2 .. 4
      BY <1>4, <1>7
    <2> DEFINE full == GetMatrixType(kind, r.rows, l.cols)
    <2>4. full.shape = "matrix" /\ full # Error /\ full.rows = r.rows /\ full.cols = l.cols
      BY <1>3, <2>3
    <2> HIDE DEF full
    <2>5. product = IF l.rows = r.cols THEN full ELSE Error
      BY <2>1 DEF full
    <2> HIDE DEF product
    <2>6. QED
      BY <1>7, <2>2, <2>4, <2>5, ErrorIsType DEF product
  <1>8. QED
    BY <1>5, <1>6, <1>7

LEMMA ProductIsLinearAlgebra ==
  ASSUME NEW l \in ExprTypes, NEW r \in ExprTypes
  PROVE  LinearAlgebra(l, r)
  <1>1. SUFFICES ASSUME IsMatrix(l) \/ IsMatrix(r),
                        {l.shape, r.shape} \subseteq {"vector", "matrix"},
                        ~DeduceBinaryExprType(Plain("mul"), l, r).aborts
                 PROVE  LET type == DeduceBinaryExprType(Plain("mul"), l, r).type IN
                        /\ type = Error <=> MatrixColumns(l, TRUE) # MatrixRows(r, FALSE)
                        /\ IsVector(type) =>
                              type.size = IF IsVector(l) THEN MatrixColumns(r, FALSE) ELSE MatrixRows(l, TRUE)
                        /\ IsMatrix(type) =>
                              type.cols = MatrixRows(l, TRUE) /\ type.rows = MatrixColumns(r, FALSE)
    BY DEF LinearAlgebra
  <1>2. l \in ArithmeticTypes /\ r \in ArithmeticTypes /\ IsArithmetic(l) /\ IsArithmetic(r)
    BY <1>1, ExprFacts DEF IsArithmetic
  <1>3. DeduceBinaryExprType(Plain("mul"), l, r) = DeduceMatrixOp("mul", l, r)
    <2>1. DeduceBinaryExprType(Plain("mul"), l, r) = DeduceBaseOp("mul", l, r)
      BY DEF DeduceBinaryExprType, Plain
    <2>2. ~IsScalar(l) /\ ~IsScalar(r) /\ ~(l.shape = r.shape /\ l.shape \in {"scalar", "vector"})
      BY <1>1 DEF IsScalar, IsMatrix
    <2>3. DeduceBaseOp("mul", l, r) = DeduceMatrixOp("mul", l, r)
      BY <1>2, <2>2 DEF DeduceBaseOp, IsScalar
    <2>4. QED
      BY <2>1, <2>3
  <1> DEFINE element == Unify(ElementType(l), ElementType(r)).type
             product == ProductType(l, r, element.kind)
  <1>4. "mul" \in ArithmeticOps
    BY DEF ArithmeticOps
  <1>5. element # Error
    <2>1. SUFFICES ASSUME element = Error
                   PROVE  FALSE
      OBVIOUS
    <2>2. DeduceMatrixOp("mul", l, r) = Aborts(l, r)
      BY <1>4, <2>1 DEF DeduceMatrixOp
    <2>3. Aborts(l, r).aborts
      BY DEF Aborts, Undeduced, Info
    <2>4. QED
      BY <1>1, <1>3, <2>2, <2>3
  <1>6. DeduceMatrixOp("mul", l, r).type = product
    <2>1. DeduceMatrixOp("mul", l, r) =
             IF product = Error THEN Undeduced(l, r)
             ELSE Info(product, WithKind(l, element.kind), WithKind(r, element.kind))
      BY <1>4, <1>5 DEF DeduceMatrixOp
    <2>2. QED
      BY <2>1 DEF Undeduced, Info
  <1>7. element.kind \in MatrixKinds
    <2>1. l.kind \in MatrixKinds \/ r.kind \in MatrixKinds
      BY <1>1, <1>2, ArithmeticFacts DEF IsMatrix
    <2>2. QED
      BY <1>2, <1>5, <2>1, ProductElements
  <1> HIDE DEF element
  <1>8. /\ product = Error <=> MatrixColumns(l, TRUE) # MatrixRows(r, FALSE)
        /\ IsVector(product) =>
              product.size = IF IsVector(l) THEN MatrixColumns(r, FALSE) ELSE MatrixRows(l, TRUE)
        /\ IsMatrix(product) =>
              product.cols = MatrixRows(l, TRUE) /\ product.rows = MatrixColumns(r, FALSE)
    BY <1>1, <1>2, <1>7, ProductShape
  <1>9. QED
    BY <1>3, <1>6, <1>8

-----------------------------------------------------------------------------
(* Every step keeps the types and inserts conversions only.                 *)

IInv == TypeOK /\ CastsAreConversions

LEMMA BuildKeeps ==
  ASSUME IInv, NEW type \in ExprTypes \cup {NoExpr}, NEW new, GoodCasts(new), Build(type, new)
  PROVE  IInv'
  <1>1. IInv' <=> /\ expr' \in ExprTypes \cup {NoExpr}
                  /\ table' \in [imported : Preambles, own : Seq(Signatures)]
                  /\ aborted' \in BOOLEAN
                  /\ GoodCasts(casts')
    BY DEF IInv, TypeOK, CastsAreConversions, GoodCasts, Implicit
  <1>2. QED
    BY <1>1 DEF Build, IInv, TypeOK

LEMMA OtherKeeps ==
  ASSUME IInv, UNCHANGED <<expr, table>>, casts' \in {casts, {}}, aborted' \in BOOLEAN
  PROVE  IInv'
  BY DEF IInv, TypeOK, CastsAreConversions

LEMMA ExprBuilt ==
  ASSUME IInv, Building
  PROVE  expr \in ExprTypes
  BY DEF IInv, TypeOK, Building

LEMMA ArgumentFacts ==
  ASSUME IInv, Building, NEW args \in ArgumentLists
  PROVE  /\ Len(args) \in 1 .. 2 /\ DOMAIN args = 1 .. Len(args)
         /\ \A i \in DOMAIN args : args[i] \in ExprTypes
  <1>1. expr \in ExprTypes
    BY ExprBuilt
  <1>2. CASE args = <<expr>>
    BY <1>1, <1>2
  <1>3. ASSUME NEW other \in LeafTypes, args = <<expr, other>>
        PROVE  /\ Len(args) \in 1 .. 2 /\ DOMAIN args = 1 .. Len(args)
               /\ \A i \in DOMAIN args : args[i] \in ExprTypes
    BY <1>1, <1>3 DEF ExprTypes
  <1>4. QED
    BY <1>2, <1>3 DEF ArgumentLists

LEMMA LeafIsType == LeafTypes \subseteq ExprTypes
  BY DEF ExprTypes

LEMMA IntIsType == IntType \in ExprTypes
  BY ScalarIsType DEF IntType, ScalarKinds, Integral, Signed

LEMMA UnaryIsType ==
  ASSUME NEW t \in ExprTypes, NEW op
  PROVE  DeduceUnaryExprType(op, t) \in ExprTypes
  <1>1. DeduceUnaryExprType(op, t) \in {t, IntType, Error}
    BY DEF DeduceUnaryExprType
  <1>2. QED
    BY <1>1, IntIsType, ErrorIsType

LEMMA BinaryStep ==
  ASSUME IInv, NEW l \in ExprTypes, NEW r \in ExprTypes, NEW op, BuildBinary(op, l, r)
  PROVE  IInv'
  <1> DEFINE info == DeduceBinaryExprType(op, l, r)
             new == TryMakeImplicitCast(l, info.lhs, CastTag(l, r))
                      \cup TryMakeImplicitCast(r, info.rhs, CastTag(l, r))
  <1>1. Deduced(info, l, r)
    BY BinaryIsDeduced
  <1>2. GoodCasts(new) /\ info.type \in ExprTypes
    BY <1>1, BinaryCastsAreGood DEF Deduced, Infos
  <1>3. CASE info.aborts
    BY <1>3, OtherKeeps DEF BuildBinary
  <1>4. CASE ~info.aborts
    <2>1. Build(info.type, new)
      BY <1>4 DEF BuildBinary
    <2>2. QED
      BY <1>2, <2>1, BuildKeeps
  <1>5. QED
    BY <1>3, <1>4

LEMMA SelectStep ==
  ASSUME IInv, BuildSelectExpr
  PROVE  IInv'
  <1>1. PICK other \in LeafTypes, first \in BOOLEAN :
          LET t == IF first THEN expr ELSE other
              f == IF first THEN other ELSE expr
              type == CASE t = Error \/ f = Error -> Error
                        [] t # Error /\ f # Error /\ IsConvertibleTo(t, f) -> f
                        [] t # Error /\ f # Error /\ ~IsConvertibleTo(t, f) ->
                              IF IsConvertibleTo(f, t) THEN t ELSE Error
          IN Build(type, TryMakeImplicitCast(t, type, "select") \cup TryMakeImplicitCast(f, type, "select"))
    BY DEF BuildSelectExpr
  <1> DEFINE t == IF first THEN expr ELSE other
             f == IF first THEN other ELSE expr
             type == CASE t = Error \/ f = Error -> Error
                       [] t # Error /\ f # Error /\ IsConvertibleTo(t, f) -> f
                       [] t # Error /\ f # Error /\ ~IsConvertibleTo(t, f) ->
                             IF IsConvertibleTo(f, t) THEN t ELSE Error
             new == TryMakeImplicitCast(t, type, "select") \cup TryMakeImplicitCast(f, type, "select")
  <1>2. t \in ExprTypes /\ f \in ExprTypes
    BY ExprBuilt, LeafIsType DEF BuildSelectExpr, Nesting
  <1>3. Build(type, new)
    BY <1>1
  <1> HIDE DEF t, f
  <1>4. type \in ExprTypes /\ Castable(t, type) /\ Castable(f, type)
    BY <1>2, ErrorIsType, CastableToItself DEF Castable
  <1> HIDE DEF type
  <1>5. GoodCasts(new)
    BY <1>2, <1>4, CastIsGood, GoodUnion DEF Reasons
  <1>6. QED
    BY <1>3, <1>4, <1>5, BuildKeeps

LEMMA IndexStep ==
  ASSUME IInv, BuildIndexAccessExpr
  PROVE  IInv'
  <1> DEFINE type == CASE expr.shape = "array" -> expr.elem
                       [] IsVector(expr) -> ElementType(expr)
                       [] IsMatrix(expr) -> GetVectorType(expr.kind, expr.cols)
                       [] OTHER -> Error
  <1>1. PICK index \in LeafTypes : Build(type, TryMakeImplicitCast(index, IntType, "index"))
    BY DEF BuildIndexAccessExpr
  <1>2. expr \in ExprTypes
    BY ExprBuilt DEF BuildIndexAccessExpr, Nesting
  <1>3. type \in ExprTypes
    <2>1. expr.shape = "array" => expr.elem \in ExprTypes
      BY <1>2, ExprFacts
    <2>2. IsVector(expr) => ElementType(expr) \in ExprTypes
      BY <1>2, ExprFacts, ArithmeticFacts, ScalarIsType DEF IsVector, IsArithmetic, ElementType
    <2>3. QED
      BY <2>1, <2>2, VectorIsType, ErrorIsType DEF IsVector, IsMatrix
  <1>4. GoodCasts(TryMakeImplicitCast(index, IntType, "index"))
    BY LeafIsType, IntIsType, CastIsGood DEF Reasons, Implicit
  <1> HIDE DEF type
  <1>5. QED
    BY <1>1, <1>3, <1>4, BuildKeeps

LEMMA DotStep ==
  ASSUME IInv, BuildDotAccessExpr
  PROVE  IInv'
  <1>1. PICK n \in 0 .. 4 :
          Build(CASE expr.shape \in {"scalar", "vector"} ->
                        IF n = 0 THEN Error ELSE IF n = 1 THEN ElementType(expr) ELSE GetVectorType(expr.kind, n)
                  [] expr.shape = "struct" -> IF n \in DOMAIN expr.members THEN expr.members[n] ELSE Error
                  [] OTHER -> Error, {})
    BY DEF BuildDotAccessExpr
  <1> DEFINE type == CASE expr.shape \in {"scalar", "vector"} ->
                        IF n = 0 THEN Error ELSE IF n = 1 THEN ElementType(expr) ELSE GetVectorType(expr.kind, n)
                  [] expr.shape = "struct" -> IF n \in DOMAIN expr.members THEN expr.members[n] ELSE Error
                  [] OTHER -> Error
  <1>2. expr \in ExprTypes
    BY ExprBuilt DEF BuildDotAccessExpr, Nesting
  <1>3. expr.shape \in {"scalar", "vector"} => ElementType(expr) \in ExprTypes
    BY <1>2, ExprFacts, ArithmeticFacts, ScalarIsType DEF IsArithmetic, ElementType
  <1>4. expr.shape = "struct" /\ n \in DOMAIN expr.members => expr.members[n] \in ExprTypes
    BY <1>2, ExprFacts, LeafIsType
  <1>5. type \in ExprTypes
    BY <1>3, <1>4, VectorIsType, ErrorIsType
  <1>6. Build(type, {})
    BY <1>1
  <1> HIDE DEF type
  <1>7. QED
    BY <1>5, <1>6, NoCastIsGood, BuildKeeps

\* An argument for an input is cast by a conversion, as the overload was found
\* to be callable, or to match exactly.
LEMMA CallStep ==
  ASSUME IInv, BuildFuntionCallExpr
  PROVE  IInv'
  <1>1. PICK args \in ArgumentLists :
          LET function == FindFunction(table, args)
              Param(i) == function.params[i]
              Tag(i) == IF Param(i).isOutput THEN "output" ELSE "argument"
          IN IF function = NotFound THEN Build(Error, {})
             ELSE Build(function.ret, UNION {TryMakeImplicitCast(args[i], Param(i).type, Tag(i)) : i \in DOMAIN args})
    BY DEF BuildFuntionCallExpr
  <1>2. Building
    BY DEF BuildFuntionCallExpr
  <1> DEFINE function == FindFunction(table, args)
             Tag(i) == IF function.params[i].isOutput THEN "output" ELSE "argument"
             Cast(i) == TryMakeImplicitCast(args[i], function.params[i].type, Tag(i))
             new == UNION {Cast(i) : i \in DOMAIN args}
  <1>3. Entries(table) \in Seq(FunctionEntries)
    <2>1. table.imported \in Seq(FunctionEntries) /\ table.own \in Seq(FunctionEntries)
      BY OverloadAssumption DEF IInv, TypeOK
    <2>2. QED
      BY <2>1 DEF Entries
  <1>4. CASE function = NotFound
    <2>1. Build(Error, {})
      BY <1>1, <1>4
    <2>2. QED
      BY <2>1, NoCastIsGood, ErrorIsType, BuildKeeps
  <1>5. CASE function # NotFound
    <2>1. Build(function.ret, new)
      BY <1>1, <1>5
    <2>2. /\ function \in FunctionEntries
          /\ Exact(function, args) \/ Invocable(function, args)
      BY <1>3, <1>5, FindFacts DEF FindFunction
    <2>3. /\ DOMAIN args = 1 .. Len(args) /\ Len(function.params) = Len(args)
          /\ \A i \in DOMAIN args : args[i] \in ExprTypes
      BY <1>2, <2>2, ArgumentFacts DEF Exact, Invocable
    <2> HIDE DEF function
    <2>4. ASSUME NEW i \in DOMAIN args
          PROVE  GoodCasts(Cast(i))
      <3>1. function.params[i] \in Parameters
        BY <2>2, <2>3 DEF FunctionEntries
      <3>2. /\ function.params[i].type \in ExprTypes
            /\ function.params[i].isInput \/ function.params[i].isOutput
        BY <3>1, LeafIsType DEF Parameters
      <3>3. function.params[i].isInput => IsConvertibleTo(args[i], function.params[i].type)
        BY <2>2, <2>3, CastableToItself DEF Exact, Invocable
      <3>4. Tag(i) \in Reasons /\ (Tag(i) \in Implicit => ~function.params[i].isOutput)
        BY DEF Reasons, Implicit
      <3> HIDE DEF Tag
      <3>5. QED
        BY <2>3, <3>2, <3>3, <3>4, CastIsGood DEF Castable
    <2> HIDE DEF Cast
    <2>5. GoodCasts(new)
      BY <2>4, GoodUnions
    <2> HIDE DEF new
    <2>6. function.ret \in ExprTypes
      BY <2>2, LeafIsType DEF FunctionEntries
    <2>7. QED
      BY <2>1, <2>5, <2>6, BuildKeeps
  <1>6. QED
    BY <1>4, <1>5

LEMMA SizedIsType ==
  ASSUME IInv, Building, NEW type \in LeafTypes, NEW args \in ArgumentLists
  PROVE  Sized(type, args) \in ExprTypes
  <1>1. Len(args) \in 1 .. 2
    BY ArgumentFacts
  <1>2. ASSUME type.shape = "array"
        PROVE  ArrayOf(type.elem, Len(args)) \in ExprTypes
    <2>1. type \in {u \in LeafTypes : u.shape = "array"}
      BY <1>2
    <2>2. \A size \in 1 .. 2 : ArrayOf(type.elem, size) \in ExprTypes
      BY <2>1 DEF ExprTypes
    <2>3. QED
      BY <1>1, <2>2
  <1>3. QED
    BY <1>2, LeafIsType DEF Sized

LEMMA ArgumentCastsAreGood ==
  ASSUME IInv, Building, NEW type \in ExprTypes, NEW args \in ArgumentLists
  PROVE  GoodCasts(ArgumentCasts(type, args))
  <1> DEFINE Cast(i) ==
        CASE IsArithmetic(type) ->
                IF IsArithmetic(args[i]) THEN TryMakeImplicitCast(args[i], WithKind(args[i], type.kind), "constructor")
                ELSE {}
          [] type.shape \in {"array", "struct"} ->
                TryMakeImplicitCast(args[i], ComponentType(type, i), "constructor")
          [] OTHER -> {}
  <1>1. ArgumentCasts(type, args) = UNION {Cast(i) : i \in DOMAIN args}
    BY DEF ArgumentCasts
  <1>2. ASSUME NEW i \in DOMAIN args
        PROVE  GoodCasts(Cast(i))
    <2>1. args[i] \in ExprTypes
      BY ArgumentFacts
    <2>2. ASSUME NEW to \in ExprTypes
          PROVE  GoodCasts(TryMakeImplicitCast(args[i], to, "constructor"))
      BY <2>1, CastIsGood DEF Reasons, Implicit
    <2>3. IsArithmetic(type) /\ IsArithmetic(args[i]) => WithKind(args[i], type.kind) \in ExprTypes
      BY <2>1, ExprFacts, ArithmeticFacts, WithKindIsType
    <2>4. type.shape \in {"array", "struct"} => ComponentType(type, i) \in ExprTypes
      <3>1. CASE type.shape = "array"
        BY <3>1, ExprFacts, ErrorIsType DEF ComponentType
      <3>2. CASE type.shape = "struct"
        BY <3>2, ExprFacts, LeafIsType, ErrorIsType DEF ComponentType
      <3>3. QED
        BY <3>1, <3>2
    <2>5. IsArithmetic(type) => ~(type.shape \in {"array", "struct"})
      BY DEF IsArithmetic
    <2>6. QED
      BY <2>2, <2>3, <2>4, <2>5, NoCastIsGood
  <1> HIDE DEF Cast
  <1>3. QED
    BY <1>1, <1>2, GoodUnions

LEMMA ConstructorStep ==
  ASSUME IInv, BuildConstructorCallExpr
  PROVE  IInv'
  <1>1. PICK type \in LeafTypes, args \in ArgumentLists :
          \E new \in {{}, ArgumentCasts(Sized(type, args), args)} : Build(Sized(type, args), new)
    BY DEF BuildConstructorCallExpr
  <1>2. Building
    BY DEF BuildConstructorCallExpr, Nesting
  <1>3. Sized(type, args) \in ExprTypes
    BY <1>2, SizedIsType
  <1>4. QED
    BY <1>1, <1>2, <1>3, NoCastIsGood, ArgumentCastsAreGood, BuildKeeps

LEMMA InitializerStep ==
  ASSUME IInv, BuildInitializerList
  PROVE  IInv'
  <1>1. PICK type \in LeafTypes, args \in ArgumentLists :
          Build(Sized(type, args), ArgumentCasts(type, args))
    BY DEF BuildInitializerList
  <1>2. Building
    BY DEF BuildInitializerList, Nesting
  <1>3. Sized(type, args) \in ExprTypes /\ type \in ExprTypes
    BY <1>2, SizedIsType, LeafIsType
  <1>4. QED
    BY <1>1, <1>2, <1>3, ArgumentCastsAreGood, BuildKeeps

LEMMA EndStep ==
  ASSUME IInv, BuildArraySpec \/ BuildExprStmt \/ BuildReturnStmt \/ BuildVariableDecl
  PROVE  IInv'
  <1>1. expr \in ExprTypes
    BY ExprBuilt DEF BuildArraySpec, BuildExprStmt, BuildReturnStmt, BuildVariableDecl, Nesting
  <1>2. ASSUME NEW new, GoodCasts(new), Build(NoExpr, new)
        PROVE  IInv'
    BY <1>2, BuildKeeps
  <1>3. CASE BuildArraySpec
    <2>1. GoodCasts(TryMakeImplicitCast(expr, IntType, "index"))
      BY <1>1, IntIsType, CastIsGood DEF Reasons, Implicit
    <2>2. QED
      BY <1>2, <1>3, <2>1 DEF BuildArraySpec
  <1>4. CASE BuildExprStmt
    BY <1>2, <1>4, NoCastIsGood DEF BuildExprStmt
  <1>5. CASE BuildReturnStmt
    <2>1. PICK returnType \in LeafTypes :
             Build(NoExpr, IF IsConvertibleTo(expr, returnType)
                           THEN TryMakeImplicitCast(expr, returnType, "return") ELSE {})
      BY <1>5 DEF BuildReturnStmt
    <2>2. IsConvertibleTo(expr, returnType) =>
             GoodCasts(TryMakeImplicitCast(expr, returnType, "return"))
      BY <1>1, LeafIsType, CastIsGood DEF Reasons, Castable
    <2>3. QED
      BY <1>2, <2>1, <2>2, NoCastIsGood
  <1>6. CASE BuildVariableDecl
    <2>1. PICK resolved \in ExprTypes :
             Build(NoExpr, TryMakeImplicitCast(expr, resolved, "initializer"))
      BY <1>1, <1>6, LeafIsType DEF BuildVariableDecl
    <2>2. GoodCasts(TryMakeImplicitCast(expr, resolved, "initializer"))
      BY <1>1, CastIsGood DEF Reasons, Implicit
    <2>3. QED
      BY <1>2, <2>1, <2>2
  <1>7. QED
    BY <1>3, <1>4, <1>5, <1>6

LEMMA DeclStep ==
  ASSUME IInv, BuildFunctionDecl
  PROVE  IInv'
  <1>1. PICK entry \in Signatures : table' = [table EXCEPT !.own = Append(@, entry)]
    BY DEF BuildFunctionDecl
  <1>2. table' \in [imported : Preambles, own : Seq(Signatures)]
    <2>1. table \in [imported : Preambles, own : Seq(Signatures)]
      BY DEF IInv, TypeOK
    <2>2. Append(table.own, entry) \in Seq(Signatures)
      BY <2>1, AppendProperties
    <2>3. QED
      BY <1>1, <2>1, <2>2
  <1>3. UNCHANGED <<expr, casts, aborted>>
    BY DEF BuildFunctionDecl
  <1>4. QED
    BY <1>2, <1>3 DEF IInv, TypeOK, CastsAreConversions

LEMMA StepInv ==
  ASSUME IInv, [Next]_vars
  PROVE  IInv'
  <1>1. CASE UNCHANGED vars
    BY <1>1, OtherKeeps DEF vars, IInv, TypeOK
  <1>2. CASE UseAsOperand
    BY <1>2, OtherKeeps DEF UseAsOperand, IInv, TypeOK
  <1>3. CASE BuildNameAccessExpr
    <2>1. PICK type \in LeafTypes : Build(type, {})
      BY <1>3 DEF BuildNameAccessExpr
    <2>2. QED
      BY <2>1, LeafIsType, NoCastIsGood, BuildKeeps
  <1>4. CASE BuildUnaryExpr
    <2>1. PICK op \in UnaryOps : Build(DeduceUnaryExprType(op, expr), {})
      BY <1>4 DEF BuildUnaryExpr
    <2>2. expr \in ExprTypes
      BY <1>4, ExprBuilt DEF BuildUnaryExpr, Nesting
    <2>3. QED
      BY <2>1, <2>2, UnaryIsType, NoCastIsGood, BuildKeeps
  <1>5. CASE BuildBinaryExpr
    <2>1. PICK op \in BinaryOps, other \in LeafTypes :
             BuildBinary(op, expr, other) \/ BuildBinary(op, other, expr)
      BY <1>5 DEF BuildBinaryExpr
    <2>2. expr \in ExprTypes
      BY <1>5, ExprBuilt DEF BuildBinaryExpr, Nesting
    <2>3. QED
      BY <2>1, <2>2, LeafIsType, BinaryStep
  <1>6. QED
    BY <1>1, <1>2, <1>3, <1>4, <1>5, DeclStep, SelectStep, IndexStep, DotStep, CallStep,
       ConstructorStep, InitializerStep, EndStep DEF Next

-----------------------------------------------------------------------------
\* Types and casts together are an inductive invariant.
THEOREM Inductive == Spec => []IInv
  <1>1. Init => IInv
    <2>1. SUFFICES ASSUME Init
                   PROVE  IInv
      OBVIOUS
    <2>2. PICK preamble \in Preambles : table = [imported |-> preamble, own |-> <<>>]
      BY <2>1 DEF Init
    <2>3. table \in [imported : Preambles, own : Seq(Signatures)]
      BY <2>2, EmptySeq
    <2>4. QED
      BY <2>1, <2>3 DEF Init, IInv, TypeOK, CastsAreConversions
  <1>2. IInv /\ [Next]_vars => IInv'
    BY StepInv
  <1>3. QED
    BY <1>1, <1>2, PTL DEF Spec

\* Whatever is built from the declared types has one of them, an arithmetic
\* type, an array of theirs, or the error type: no deduction leaves the types
\* that exist.
THEOREM TypeCorrect == Spec => []TypeOK
  <1>1. IInv => TypeOK
    BY DEF IInv
  <1>2. QED
    BY <1>1, Inductive, PTL

\* The builder wraps the operands of operators and selections, arguments and
\* return values in casts without asking whether they convert
\* (TryMakeImplicitCast); they always do.
THEOREM CastsConvert == Spec => []CastsAreConversions
  <1>1. IInv => CastsAreConversions
    BY DEF IInv
  <1>2. QED
    BY <1>1, Inductive, PTL

\* DeduceMatrixOpBinaryExprType gives products the shape of linear algebra for
\* all vectors and matrices an expression can have.
THEOREM ProductsHaveShape == Spec => []ProductsAreLinearAlgebra
  <1>1. IInv => ProductsAreLinearAlgebra
    <2>1. SUFFICES ASSUME IInv, NEW t \in LeafTypes
                   PROVE  LinearAlgebra(expr, t) /\ LinearAlgebra(t, expr)
      BY DEF ProductsAreLinearAlgebra
    <2>2. CASE expr \in ExprTypes
      BY <2>2, LeafIsType, ProductIsLinearAlgebra
    <2>3. CASE expr = NoExpr
      <3>1. expr.shape = "none"
        BY <2>3 DEF NoExpr
      <3>2. QED
        BY <3>1 DEF LinearAlgebra
    <2>4. QED
      BY <2>1, <2>2, <2>3 DEF IInv, TypeOK
  <1>2. QED
    BY <1>1, Inductive, PTL

\* The hash table of a level may yield the overloads of a name in any order:
\* FindFunction answers with the same parameter types.
THEOREM OrderOfOverloadsIrrelevant == Spec => []OverloadOrderIrrelevant
  <1>1. IInv => OverloadOrderIrrelevant
    <2>1. SUFFICES ASSUME IInv, NEW args \in Arguments
                   PROVE  ParamTypes(FindFunction(table, args))
                             = ParamTypes(FindFunction([table EXCEPT !.own = Reverse(@)], args))
      BY DEF OverloadOrderIrrelevant
    <2>2. table.imported \in Seq(FunctionEntries) /\ table.own \in Seq(FunctionEntries)
      BY <2>1, OverloadAssumption DEF IInv, TypeOK
    <2>3. Entries(table) = table.imported \o table.own
      BY DEF Entries
    <2>4. Entries([table EXCEPT !.own = Reverse(@)]) = table.imported \o Reverse(table.own)
      BY <2>1 DEF Entries, IInv, TypeOK
    <2>5. PICK p : Reordered(table.imported \o table.own,
                             table.imported \o Reverse(table.own), p)
      BY <2>2, ReversedIsReordered
    <2>6. ParamTypes(FindIn(table.imported \o table.own, args))
             = ParamTypes(FindIn(table.imported \o Reverse(table.own), args))
      BY <2>5, OrderIrrelevant
    <2>7. QED
      BY <2>3, <2>4, <2>6 DEF FindFunction
  <1>2. QED
    BY <1>1, Inductive, PTL
=============================================================================
