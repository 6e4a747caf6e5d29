--------------------------- MODULE MCRunnerRegistry ---------------------------
(***************************************************************************)
(* The instance of RunnerRegistry that TLC checks.                         *)
(***************************************************************************)
EXTENDS RunnerRegistry

CONSTANTS r1, r2
=============================================================================
