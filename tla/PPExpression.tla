---------------------------- MODULE PPExpression ----------------------------
(***************************************************************************)
(* The evaluator of #if and #elif expressions: one pass over the tokens of *)
(* the line with a stack of values and a stack of operators.  Macros and   *)
(* `defined` have been replaced before; literals are values.               *)
(*                                                                         *)
(* A value has Width bits and wraps, and a shift takes its count modulo    *)
(* Width: what C++ leaves undefined does so on the machines the server is  *)
(* built for.  The smallest value divided by -1, which would trap, is out  *)
(* of reach of the literals and the bound on tokens.                       *)
(***************************************************************************)
EXTENDS Scalars, Sequences, SequencesExt, Bitwise

CONSTANTS
    Literals,       \* what number literals may say
    MaxTokens,      \* bound: tokens on a line of common tokens
    ShortLine,      \* bound: tokens on any other line
    CommonTokens,   \* the tokens that longer lines are made of
    Width           \* the width of a value, 64 in the source

Unary(name) == [name |-> name, precedence |-> 2, isUnary |-> TRUE]
Binary(name, precedence) == [name |-> name, precedence |-> precedence, isUnary |-> FALSE]
Paren == [name |-> "(", precedence |-> 999, isUnary |-> FALSE]

\* ParseUnaryPPOperator and ParseBinaryPPOperator.
UnaryNames == {"+", "-", "~", "!"}
Levels == <<{}, {}, {"*", "/", "%"}, {"+", "-"}, {"<<", ">>"}, {"<", "<=", ">", ">="}, {"==", "!="},
            {"&"}, {"^"}, {"|"}, {"&&"}, {"||"}>>
BinaryNames == UNION {Levels[i] : i \in DOMAIN Levels}
LevelOf(name) == CHOOSE i \in DOMAIN Levels : name \in Levels[i]

Number(n) == [name |-> "number", value |-> n]
Punct(name) == [name |-> name]
Defined(yes) == [name |-> IF yes THEN "defined yes" ELSE "defined no"]
Identifier == [name |-> "identifier"]
OtherToken == [name |-> "other"]
Tokens == {Number(n) : n \in Literals} \cup {Punct(p) : p \in UnaryNames \cup BinaryNames \cup {"(", ")"}}
             \cup {Defined(TRUE), Defined(FALSE), Identifier, OtherToken}

VARIABLES
    line,           \* the tokens consumed so far
    parsedLhs,
    valueStack,
    operatorStack,
    result          \* [done, ok, value]: what Evaluate returned

lineVars == <<line, parsedLhs, valueStack, operatorStack, result>>

Pending == [done |-> FALSE, ok |-> FALSE, value |-> 0]
Nullopt == [done |-> TRUE, ok |-> FALSE, value |-> 0]
Returns(n) == [done |-> TRUE, ok |-> TRUE, value |-> n]

LineInit ==
    /\ line = <<>> /\ parsedLhs = FALSE
    /\ valueStack = <<>> /\ operatorStack = <<>>
    /\ result = Pending

-----------------------------------------------------------------------------
(* EvaluatePPOperator.                                                      *)

Bit(n) == n % 2^Width
Wrap(n) == IF Bit(n) >= 2^(Width - 1) THEN Bit(n) - 2^Width ELSE Bit(n)

QuotientOrZero(a, b) == IF b = 0 THEN 0 ELSE Quotient(a, b)

EvaluateUnary(name, a) ==
    CASE name = "+" -> a
      [] name = "-" -> Wrap(-a)
      [] name = "~" -> -a - 1
      [] name = "!" -> Truth(a = 0)

EvaluateBinary(name, a, b) ==
    CASE name = "*" -> Wrap(a * b)
      [] name = "/" -> QuotientOrZero(a, b)
      [] name = "%" -> IF b = 0 THEN 0 ELSE a - b * Quotient(a, b)
      [] name = "+" -> Wrap(a + b)
      [] name = "-" -> Wrap(a - b)
      [] name = "<<" -> Wrap(a * 2^(b % Width))
      [] name = ">>" -> a \div 2^(b % Width)
      [] name = "<" -> Truth(a < b)
      [] name = "<=" -> Truth(a <= b)
      [] name = ">" -> Truth(a > b)
      [] name = ">=" -> Truth(a >= b)
      [] name = "==" -> Truth(a = b)
      [] name = "!=" -> Truth(a # b)
      [] name = "&" -> Wrap(Bit(a) & Bit(b))
      [] name = "^" -> Wrap(Bit(a) ^^ Bit(b))
      [] name = "|" -> Wrap(Bit(a) | Bit(b))
      [] name = "&&" -> Truth(a # 0 /\ b # 0)
      [] name = "||" -> Truth(a # 0 \/ b # 0)

-----------------------------------------------------------------------------
(* The stacks, as [values, operators, ok].                                  *)

Stacks == [values |-> valueStack, operators |-> operatorStack, ok |-> TRUE]
Failed(s) == [s EXCEPT !.ok = FALSE]

Arity(op) == IF op.isUnary THEN 1 ELSE 2

EvalOperatorOnTop(s) ==
    LET op == Last(s.operators)
        n == Len(s.values)
        value == IF op.isUnary THEN EvaluateUnary(op.name, s.values[n])
                 ELSE EvaluateBinary(op.name, s.values[n - 1], s.values[n])
    IN  IF s.operators = <<>> \/ op = Paren \/ n < Arity(op) THEN Failed(s)
        ELSE [s EXCEPT !.values = Append(SubSeq(@, 1, n - Arity(op)), value), !.operators = Front(@)]

\* Evaluate the operators on top whose precedence is below the limit.
RECURSIVE EvalBelow(_, _)
EvalBelow(s, limit) ==
    IF ~s.ok \/ s.operators = <<>> \/ Last(s.operators).precedence >= limit THEN s
    ELSE EvalBelow(EvalOperatorOnTop(s), limit)

\* What a new operator waits for: unary operators group to the right, binary
\* ones to the left.  Mutant: all of them group to the right.
RightAssociative(op) == op.precedence
WaitsBelow(op) == IF op.isUnary THEN op.precedence ELSE op.precedence + 1

PushOperator(s, op) ==
    LET t == EvalBelow(s, WaitsBelow(op))
    IN  IF t.ok THEN [t EXCEPT !.operators = Append(@, op)] ELSE t

CloseParen(s) ==
    LET t == EvalBelow(s, Paren.precedence)
    IN  IF t.ok /\ t.operators # <<>> THEN [t EXCEPT !.operators = Front(@)] ELSE Failed(t)

PushOperand(s, n) == [s EXCEPT !.values = Append(@, n)]

-----------------------------------------------------------------------------
Step(token, s, lhs) ==
    /\ line' = Append(line, token)
    /\ valueStack' = s.values /\ operatorStack' = s.operators
    /\ parsedLhs' = lhs
    /\ result' = IF s.ok THEN Pending ELSE Nullopt

Extensions ==
    IF Len(line) < ShortLine THEN Tokens
    ELSE IF Len(line) < MaxTokens /\ ToSet(line) \subseteq CommonTokens THEN CommonTokens
    ELSE {}

ConsumeAfterOperand ==
    /\ parsedLhs /\ ~result.done
    /\ \E token \in Extensions :
          CASE token.name = ")" -> Step(token, CloseParen(Stacks), TRUE)
            [] token.name \in BinaryNames ->
                  Step(token, PushOperator(Stacks, Binary(token.name, LevelOf(token.name))), FALSE)
            [] OTHER -> Step(token, Failed(Stacks), TRUE)

\* Macros are expanded at this point: an identifier that is left is 0.
OperandValue(token) ==
    CASE token.name = "number" -> token.value [] token.name = "defined yes" -> 1 [] OTHER -> 0

ConsumeOperand ==
    /\ ~parsedLhs /\ ~result.done
    /\ \E token \in Extensions :
          CASE token.name \in {"number", "defined yes", "defined no", "identifier"} ->
                  Step(token, PushOperand(Stacks, OperandValue(token)), TRUE)
            [] token.name = "(" -> Step(token, [Stacks EXCEPT !.operators = Append(@, Paren)], FALSE)
            [] token.name \in UnaryNames -> Step(token, PushOperator(Stacks, Unary(token.name)), FALSE)
            [] OTHER -> Step(token, Failed(Stacks), FALSE)

EndOfLine ==
    /\ ~result.done
    /\ LET t == EvalBelow(Stacks, Paren.precedence + 1) IN
       result' = IF t.ok /\ Len(t.values) = 1 THEN Returns(Last(t.values)) ELSE Nullopt
    /\ UNCHANGED <<line, parsedLhs, valueStack, operatorStack>>

LineNext == ConsumeAfterOperand \/ ConsumeOperand \/ EndOfLine

-----------------------------------------------------------------------------
(* What the language says: the value of the grammar's parse of the line.   *)

\* The parentheses open before the i-th token.
Depth(s, i) == Len(SelectSeq(SubSeq(s, 1, i - 1), LAMBDA t : t.name = "("))
                  - Len(SelectSeq(SubSeq(s, 1, i - 1), LAMBDA t : t.name = ")"))
EndsOperand(t) == t.name \in {"number", "defined yes", "defined no", "identifier", ")"}

\* The binary operators outside parentheses, and the one that binds weakest:
\* of those the last.
Splits(s) == {i \in 2 .. Len(s) : s[i].name \in BinaryNames /\ EndsOperand(s[i - 1]) /\ Depth(s, i) = 0}
Weakest(s) == CHOOSE i \in Splits(s) : \A j \in Splits(s) :
    LevelOf(s[j].name) < LevelOf(s[i].name) \/ (LevelOf(s[j].name) = LevelOf(s[i].name) /\ j <= i)

Malformed == [ok |-> FALSE, value |-> 0]
Means(n) == [ok |-> TRUE, value |-> n]

RECURSIVE LineMeaning(_)
LineMeaning(s) ==
    IF s = <<>> THEN Malformed
    ELSE IF Splits(s) # {} THEN
        LET i == Weakest(s)
            a == LineMeaning(SubSeq(s, 1, i - 1))
            b == LineMeaning(SubSeq(s, i + 1, Len(s)))
        IN  IF a.ok /\ b.ok THEN Means(EvaluateBinary(s[i].name, a.value, b.value)) ELSE Malformed
    ELSE IF s[1].name \in UnaryNames THEN
        LET a == LineMeaning(Tail(s)) IN IF a.ok THEN Means(EvaluateUnary(s[1].name, a.value)) ELSE Malformed
    ELSE IF s[1].name = "(" /\ Last(s).name = ")" /\ Len(s) > 2 /\ Depth(s, Len(s)) = 1
        /\ \A i \in 2 .. Len(s) - 1 : Depth(s, i) >= 1
    THEN LineMeaning(SubSeq(s, 2, Len(s) - 1))
    ELSE IF Len(s) = 1 /\ EndsOperand(s[1]) /\ s[1].name # ")" THEN Means(OperandValue(s[1]))
    ELSE Malformed

\* Evaluate returns the value of the line by the precedence table of the
\* language, however unary and binary operators and parentheses nest, and
\* nothing for exactly the lines that are no expression.
ValueIsMeaning ==
    result.done =>
        LET m == LineMeaning(line) IN result.ok = m.ok /\ (m.ok => result.value = m.value)
=============================================================================
