-------------------------------- MODULE EditLog --------------------------------
(***************************************************************************)
(* What a ledger promises: it is a log of edits, each of them applied once *)
(* and at once, at its end, and none is ever lost ("append-only", says     *)
(* docs/architecture-roadmap.md of its events).  The promise ends when     *)
(* something breaks it.  WorkLedger is shown to implement it.              *)
(***************************************************************************)
EXTENDS Sequences

CONSTANT Requests

VARIABLES edits, broken

vars == <<edits, broken>>

Init == edits = <<>> /\ broken = FALSE

Apply(r) ==
  /\ ~broken
  /\ \A n \in DOMAIN edits : edits[n] # r
  /\ edits' = Append(edits, r)
  /\ UNCHANGED broken

Break == broken' = TRUE /\ edits' \in Seq(Requests)

Next == (\E r \in Requests : Apply(r)) \/ Break

Spec == Init /\ [][Next]_vars
=============================================================================
