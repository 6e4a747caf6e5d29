------------------------------- MODULE CeoWake -------------------------------
(***************************************************************************)
(* The wake-up of the CEO (ceo-wake-tick.cjs).  A run compares the state   *)
(* of the ledger and of the owners of its tasks with the one it saved      *)
(* last; if it differs, or ceo has not been woken for wakeCooldownMinutes, *)
(* it writes to ceo, and if owners are stale to dev-lead as well.  What it *)
(* has done is saved after both writes.                                    *)
(***************************************************************************)
EXTENDS Naturals, FiniteSets

CONSTANTS
  Tasks,    \* the tasks of the ledger
  P0,       \* those that it names, at most eight; the others it counts
  Owned,    \* those with an owner, named or of fallbackOwners, that is not protected
  Becomes   \* bound: what may become of a task, <<task, condition>>

(* "missing": the session of the owner is; "stale": it has shown nothing   *)
(* for staleOwnerMinutes.  "paused": one or the other, but a complete      *)
(* handoff of the task is in ops-loop-pause-context.json.                  *)
AtRisk == {"missing", "stale", "paused"}
Conditions == {"done", "fresh"} \cup AtRisk

(* Assumed wherever this module is used.                                   *)
WakeAssumption ==
  /\ IsFiniteSet(Tasks) /\ P0 \subseteq Tasks /\ Cardinality(P0) <= 8
  /\ Owned \subseteq Tasks /\ Becomes \subseteq Tasks \X Conditions

VARIABLES
  task,   \* what becomes of each task
  off,    \* whether ledger-reference-disabled.json says so
  pc,     \* where the run is
  found,  \* what the run has found
  now,    \* whom the run has written to
  saved,  \* the state file: the fingerprint, and who was written to lately
  latest, \* ceo-wake-latest.json
  told,   \* what ceo was told last
  woken,  \* whether ceo was told within the cooldown
  again,  \* told the same twice within the cooldown
  lost    \* a run that had told ceo did not save it, or was so slow that the
          \* time of its start, which it saves, is over before the cooldown

world == <<task, off>>
ghosts == <<told, woken, again, lost>>
vars == <<world, pc, found, now, saved, latest, ghosts>>

(* The fingerprint: how many tasks are open, those of P0 that are, and the *)
(* owners that are stale or paused.  A task whose owner is not its         *)
(* business is never stale.                                                *)
Open == {t \in Tasks : task[t] # "done"}
Standing(t) ==
  IF task[t] \in AtRisk /\ t \in Owned THEN task[t]
  ELSE IF t \in P0 \cap Open THEN "fresh" ELSE "none"

Found == [open |-> Cardinality(Open), tasks |-> [t \in Tasks |-> Standing(t)]]

Status(s) == [open |-> 0, tasks |-> [t \in Tasks |-> s]]
Nothing == Status("nothing")
Error == Status("error")
Situations == {Nothing} \cup
  [open : {Cardinality(T) : T \in SUBSET Tasks}, tasks : [Tasks -> {"fresh", "none"} \cup AtRisk]]

TypeOK ==
  /\ task \in [Tasks -> Conditions] /\ off \in BOOLEAN
  /\ pc \in {"off", "decide", "ceo", "lead", "save"}
  /\ found \in Situations /\ told \in Situations
  /\ now \subseteq {"ceo", "lead"}
  /\ saved \in [print : Situations, recent : SUBSET {"ceo", "lead"}]
  /\ latest \in Situations \cup {Error, Status("disabled")}
  /\ woken \in BOOLEAN /\ again \in BOOLEAN /\ lost \in BOOLEAN

Init ==
  /\ task = [t \in Tasks |-> "fresh"] /\ off = FALSE
  /\ pc = "off" /\ found = Nothing /\ now = {}
  /\ saved = [print |-> Nothing, recent |-> {}] /\ latest = Nothing
  /\ told = Nothing /\ woken = FALSE /\ again = FALSE /\ lost = FALSE

(* The ledger and the sessions change at any time.  A run looks at them    *)
(* once, so that nothing is lost by letting them change between two runs.  *)
TaskChanges(t, c) ==
  /\ pc = "off" /\ task[t] # c
  /\ task' = [task EXCEPT ![t] = c]
  /\ UNCHANGED <<off, pc, found, now, saved, latest, ghosts>>

FlagChanges ==
  /\ pc = "off"
  /\ off' = ~off
  /\ UNCHANGED <<task, pc, found, now, saved, latest, ghosts>>

----------------------------------------------------------------------------
(* THE RUNS.                                                               *)
(* Definitions named _Faulty... are plausible mistakes in the definition   *)
(* after them; no specification uses them.                                 *)

Disabled ==
  /\ pc = "off" /\ off
  /\ latest' = Status("disabled")
  /\ UNCHANGED <<world, pc, found, now, saved, ghosts>>

(* The sessions, then the tasks: of the API, or of the file if it has      *)
(* none.  The result goes to ceo-wake-latest.json before anybody is told.  *)
Begin ==
  /\ pc = "off" /\ ~off
  /\ pc' = "decide" /\ found' = Found /\ latest' = Found
  /\ UNCHANGED <<world, now, saved, ghosts>>

(* A throw (an answer that is not ok, a session that is gone) is written   *)
(* to the file; a run that is killed writes nothing.                       *)
Fail ==
  /\ pc # "off"
  /\ pc' = "off" /\ found' = Nothing /\ now' = {}
  /\ latest' \in {Error, latest}
  /\ lost' = (lost \/ "ceo" \in now)
  /\ UNCHANGED <<world, saved, told, woken, again>>

Stale == \E t \in Tasks : found.tasks[t] \in {"missing", "stale"}

(* Only what is urgent is a reason to wake. *)
WakeDue_FaultyUrgentOnly == Stale /\ (found # saved.print \/ "ceo" \notin saved.recent)

WakeDue == found # saved.print \/ "ceo" \notin saved.recent

(* Stale owners are escalated at most every three minutes.                 *)
EscalateDue == Stale /\ "lead" \notin saved.recent

Decide ==
  /\ pc = "decide"
  /\ pc' = IF WakeDue THEN "ceo" ELSE IF EscalateDue THEN "lead" ELSE "save"
  /\ UNCHANGED <<world, found, now, saved, latest, ghosts>>

TellCeo ==
  /\ pc = "ceo"
  /\ pc' = IF EscalateDue THEN "lead" ELSE "save"
  /\ now' = now \cup {"ceo"}
  /\ told' = found /\ woken' = TRUE
  /\ again' = (again \/ (woken /\ told = found))
  /\ lost' \in {lost, TRUE}
  /\ UNCHANGED <<world, found, saved, latest>>

TellLead ==
  /\ pc = "lead"
  /\ pc' = "save" /\ now' = now \cup {"lead"}
  /\ UNCHANGED <<world, found, saved, latest, ghosts>>

Save ==
  /\ pc = "save"
  /\ pc' = "off" /\ found' = Nothing /\ now' = {}
  /\ saved' = [print |-> found, recent |-> saved.recent \cup now]
  /\ UNCHANGED <<world, latest, ghosts>>

(* Killed while it writes the file, which then counts for {}.              *)
SaveTorn ==
  /\ pc = "save"
  /\ pc' = "off" /\ found' = Nothing /\ now' = {}
  /\ saved' = [print |-> Nothing, recent |-> {}]
  /\ lost' = TRUE
  /\ UNCHANGED <<world, latest, told, woken, again>>

(* Three minutes and then wakeCooldownMinutes go by since the start of the *)
(* run that wrote; for ceo, if it was told late, once more.                *)
EscalationCools ==
  /\ pc = "off" /\ "lead" \in saved.recent
  /\ saved' = [saved EXCEPT !.recent = @ \ {"lead"}]
  /\ UNCHANGED <<world, pc, found, now, latest, ghosts>>

WakeCools ==
  /\ pc = "off" /\ (woken \/ saved.recent # {})
  /\ saved' = [saved EXCEPT !.recent = {}]
  /\ IF lost /\ "ceo" \in saved.recent THEN UNCHANGED <<woken, again, lost>>
     ELSE woken' = FALSE /\ again' = FALSE /\ lost' = FALSE
  /\ UNCHANGED <<world, pc, found, now, latest, told>>

----------------------------------------------------------------------------
Step == Disabled \/ Begin \/ Decide \/ TellCeo \/ TellLead \/ Save
Time == EscalationCools \/ WakeCools

Next ==
  \/ Step \/ Fail \/ SaveTorn \/ Time \/ FlagChanges
  \/ \E p \in Becomes : TaskChanges(p[1], p[2])

Spec == Init /\ [][Next]_vars

(* The loop of the script starts a run every minute.                       *)
FairSpec == Spec /\ WF_vars(Step) /\ SF_vars(WakeCools)

(* PROPERTIES *)

(* Ceo is not told the same twice within the cooldown, unless a run failed *)
(* between telling it and saving that it did, or was slow to tell it: when *)
(* dev-lead is gone the escalation fails, and ceo is told again every      *)
(* minute.                                                                 *)
WakesSpaced == again => lost

(* A situation that lasts is told to ceo, once runs do not fail any more.  *)
ChangeGetsTold ==
  <>[]~off /\ <>[][~Fail /\ Found' = Found]_vars
    => <>[](told = Found)
=============================================================================
