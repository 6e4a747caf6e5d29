----------------------------- MODULE MCRetained -----------------------------
(* Three requests, two canvases, two agents; text or escape sequences.     *)
(* The requests differ in what they ask for only, and all that they may    *)
(* ask for is in the initial states, so they may be renamed.               *)
EXTENDS Retained, TLC

CONSTANTS r1, r2, r3, unused

Text    == {"a", "CR", "LF", "L", "C", "ESC"}
Escapes == {"1", "[", "]", "X", "\\", "BEL", "ESC"}

TextAndEscapes == {Text, Escapes}

RequestSymmetry == Permutations({r1, r2, r3})
=============================================================================
