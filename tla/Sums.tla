-------------------------------- MODULE Sums --------------------------------
(***************************************************************************)
(* Amounts added up, without recursion: there are as many pairs of an      *)
(* element and one unit of its amount.                                     *)
(***************************************************************************)
EXTENDS Naturals, FiniteSets

Units(m, S) == UNION {{x} \X (1 .. m[x]) : x \in S}

\* The amounts m[x] of all x in S.
SumOver(m, S) == Cardinality(Units(m, S))
=============================================================================
