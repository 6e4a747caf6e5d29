---------------------------- MODULE MCLedgerTools ----------------------------
(* Three sessions and two items of the ledger: ceo is shown the second,    *)
(* and woken for the owner of the first.  In the ops loop the third        *)
(* session is developer-7, protected; in the dispatcher it is an agent     *)
(* like the second.                                                        *)
EXTENDS LedgerTools, TLC

CONSTANTS lead, dev, qa, t1, t2, unused

OneTask == [a \in Agents |-> <<t1>>]

(* The lead comes and goes, two others are idle at times.                  *)
LooksAnywhere ==
  ({lead} \X {"missing", "inactive"}) \cup ({dev} \X {"missing", "idle"})
  \cup ({qa} \X {"busy", "idle"})
DevOrAlert == {dev, "alert"}

AnyBecomes ==
  ({t1} \X {"fresh", "missing", "stale", "paused"}) \cup ({t2} \X {"done", "fresh"})

OwnedByQa == t1 :> qa @@ t2 :> "nobody"

(* Here qa is developer-7.                                                  *)
AnyTurns ==
  ({lead} \X {"missing", "fine"}) \cup ({dev} \X {"missing", "fine", "needy"})
  \cup ({qa} \X {"missing", "needy"})
=============================================================================
