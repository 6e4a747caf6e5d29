------------------------------ MODULE RegistryMap ------------------------------
(***************************************************************************)
(* What the registry of the OS agents is meant to be: a map from agents to *)
(* their status that each agent updates at once, and in its own entry      *)
(* only, or, when the map cannot be read, makes to a map of its own entry. *)
(* The promise ends when something breaks it.  RunnerRegistry is shown to  *)
(* implement it.                                                           *)
(***************************************************************************)
CONSTANTS Runners, NoRecord

Statuses == {"active", "exited"}

VARIABLES registry, broken

vars == <<registry, broken>>

Init == registry = [r \in Runners |-> NoRecord] /\ broken = FALSE

Upsert(r, s) ==
  /\ ~broken
  /\ registry' = [registry EXCEPT ![r] = s]
  /\ UNCHANGED broken

UpsertBlind(r, s) ==
  /\ ~broken
  /\ registry' = [q \in Runners |-> IF q = r THEN s ELSE NoRecord]
  /\ UNCHANGED broken

Break == broken' = TRUE /\ registry' \in [Runners -> Statuses \cup {NoRecord}]

Next == (\E r \in Runners, s \in Statuses : Upsert(r, s) \/ UpsertBlind(r, s)) \/ Break

Spec == Init /\ [][Next]_vars
=============================================================================
