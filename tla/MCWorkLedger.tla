----------------------------- MODULE MCWorkLedger -----------------------------
(***************************************************************************)
(* The instances of WorkLedger that TLC checks.                            *)
(***************************************************************************)
EXTENDS WorkLedger

CONSTANTS r1, r2, r3, t1
=============================================================================
