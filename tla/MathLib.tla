------------------------------- MODULE MathLib -------------------------------
(***************************************************************************)
(* The functions of OpenZeppelin's Math that searches in histories use.    *)
(***************************************************************************)
EXTENDS Naturals, FiniteSets

\* The floor of the root of n: how many positive squares are at most n.
Sqrt(n) == Cardinality({r \in 1..n : r * r <= n})

\* Mutant: rounds up, and reads past a range of one.
AverageUp(a, b) == (a + b + 1) \div 2

Average(a, b) == (a + b) \div 2
=============================================================================
