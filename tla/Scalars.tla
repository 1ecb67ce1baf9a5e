------------------------------ MODULE Scalars ------------------------------
(* Arithmetic of C++ that the evaluators of expressions share.              *)
EXTENDS Integers

Truth(b) == IF b THEN 1 ELSE 0
Magnitude(n) == IF n < 0 THEN -n ELSE n

\* C++ truncates a quotient towards zero.
Quotient(a, b) ==
    IF (a < 0) = (b < 0) THEN Magnitude(a) \div Magnitude(b) ELSE -(Magnitude(a) \div Magnitude(b))
=============================================================================
