----------------------------- MODULE MCSessions -----------------------------
(***************************************************************************)
(* The instances of Sessions that TLC checks.                              *)
(***************************************************************************)
EXTENDS Sessions, TLC

CONSTANTS a, b, g, i1, i2, i3, r1, r2

GuardOne == <<g>>

Symmetry == Permutations({i1, i2, i3}) \cup Permutations({r1, r2})
=============================================================================
