------------------------------ MODULE CastChain ------------------------------
(***************************************************************************)
(* A number on its way through SafeCast's casts, in any order.  Types are  *)
(* widened implicitly, so each cast takes what it takes from any shorter   *)
(* type of the same sign.                                                  *)
(***************************************************************************)
EXTENDS SafeCast

VARIABLES
    original,  \* history: the number at the beginning
    number,
    signed, bits

castVars == <<original, number, signed, bits>>

CastInit ==
    /\ signed \in BOOLEAN
    /\ bits = Width
    /\ original \in IF signed THEN MinInt(Width)..MaxInt(Width) ELSE 0..MaxUint(Width)
    /\ number = original

ToUintN(n) ==
    /\ ~signed
    /\ FitsUint(n, number)
    /\ number' = UintOf(n, number)
    /\ bits' = n
    /\ UNCHANGED <<original, signed>>

ToIntN(n) ==
    /\ signed
    /\ FitsInt(n, number)
    /\ number' = IntOf(n, number)
    /\ bits' = n
    /\ UNCHANGED <<original, signed>>

ToUint256 ==
    /\ signed
    /\ IsUint(number)
    /\ number' = UintOf(Width, number)
    /\ signed' = FALSE
    /\ bits' = Width
    /\ UNCHANGED original

ToInt256 ==
    /\ ~signed
    /\ IsInt(number)
    /\ number' = IntOf(Width, number)
    /\ signed' = TRUE
    /\ bits' = Width
    /\ UNCHANGED original

CastNext ==
    \/ \E n \in Lengths : ToUintN(n) \/ ToIntN(n)
    \/ ToUint256 \/ ToInt256

CastSpec == CastInit /\ [][CastNext]_castVars
-----------------------------------------------------------------------------
(***************************************************************************)
(* However many casts a number goes through, it is the number it was or    *)
(* the transaction reverts; and a cast reverts only where the number has   *)
(* no place in the new type, for the signed casts too, which cast first    *)
(* and compare afterwards.                                                 *)
(***************************************************************************)
CastsKeepNumber ==
    /\ number = original
    /\ number \in IF signed THEN MinInt(bits)..MaxInt(bits) ELSE 0..MaxUint(bits)
    /\ \A n \in Lengths :
          IF signed THEN FitsInt(n, number) <=> number \in MinInt(n)..MaxInt(n)
                    ELSE FitsUint(n, number) <=> number \in 0..MaxUint(n)
=============================================================================
