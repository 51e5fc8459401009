------------------------------ MODULE SafeCast ------------------------------
(***************************************************************************)
(* The casts that scripts/generate/templates/SafeCast.js generates, and    *)
(* the casts of the language that they guard.  Words have Width bits, and  *)
(* the shorter types are Step, 2 Step, ... bits wide.                      *)
(***************************************************************************)
EXTENDS Integers

CONSTANTS Width, Step  \* 256 and 8

ASSUME WidthAssumption ==
    /\ Width \in Nat /\ Step \in Nat \ {0}
    /\ Width % Step = 0 /\ Step < Width

\* range(8, 256, 8), without its end.
Lengths == {n * Step : n \in 1..((Width - 1) \div Step)}

MaxUint(n) == 2^n - 1
MaxInt(n) == 2^(n - 1) - 1
MinInt(n) == -(2^(n - 1))

\* uintN(value) and intN(value) keep the lower n bits.
UintOf(n, value) == value % 2^n
IntOf(n, value) ==
    LET low == value % 2^n IN IF low > MaxInt(n) THEN low - 2^n ELSE low

\* Where the casts do not revert.  toUintN, from uint256:
FitsUint(n, value) == value <= MaxUint(n)

\* Mutant: compares with the bounds, of which it takes one from the wrong type.
FitsIntBelow(n, value) == value <= MaxInt(n)

\* toIntN, from int256: casts, and compares.
FitsInt(n, value) == IntOf(n, value) = value

\* toUint256, from int256:
IsUint(value) == value >= 0

\* Mutant: forgets that half of the uint256 are no int256.
IsAlwaysInt(value) == value <= MaxUint(Width)

\* toInt256, from uint256:
IsInt(value) == value <= MaxInt(Width)
=============================================================================
