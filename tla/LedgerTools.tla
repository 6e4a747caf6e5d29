------------------------------ MODULE LedgerTools ------------------------------
(***************************************************************************)
(* The programs that hand out work: the loop of the dispatcher and the     *)
(* patrol, the wake-up of the CEO, and the ops loop, which is another way  *)
(* to do the same.  They share no file: the ledger and the fleet, which    *)
(* they read, change at any time in the module of each.  A state is        *)
(* therefore that of one of them, the one that `running` names: what its   *)
(* variables mean is in its module, and those of the others are Unused,    *)
(* empty or FALSE.                                                         *)
(***************************************************************************)
CONSTANTS
  Agents, Lead,
  Tasks,                      \* of the dispatcher; the others have Items
  Plan, Shown, Watch,         \* NonstopLoop
  Items, P0, Owned, Becomes,  \* CeoWake
  Protected, Owner, Turns,    \* OpsLoop
  Unused

VARIABLES
  running, pc,
  off, now, again, lost, at,
  looks, open, seen, todo, work, state, idleFile, flagged, failed, watched, got,
  task, found, saved, latest, told, woken,
  session, active, listed, issues, issue, prompted, raised

D == INSTANCE NonstopLoop
C == INSTANCE CeoWake WITH Tasks <- Items
O == INSTANCE OpsLoop

ASSUME LedgerToolsAssumption ==
  D!LoopAssumption /\ C!WakeAssumption /\ O!OpsAssumption

(* The variables that each program has to itself, and those that two have. *)
ofDispatcher == <<looks, open, seen, todo, work, state, idleFile, flagged, failed, watched, got>>
ofWake == <<task, found, saved, latest, told, woken>>
ofOpsLoop == <<session, active, listed, issues, issue, prompted, raised>>
both == <<off, now, again, lost>>
vars == <<running, pc, at, both, ofDispatcher, ofWake, ofOpsLoop>>

DispatcherOff ==
  /\ looks = [a \in Agents |-> Unused] /\ open = {} /\ seen = Unused /\ todo = Unused /\ work = Unused
  /\ state = {} /\ idleFile = Unused /\ flagged = FALSE /\ failed = FALSE /\ watched = Unused /\ got = Unused
WakeOff ==
  /\ task = [t \in Items |-> Unused] /\ found = Unused /\ saved = Unused
  /\ latest = Unused /\ told = Unused /\ woken = Unused
OpsLoopOff ==
  /\ session = [a \in Agents |-> Unused] /\ active = {} /\ listed = Unused
  /\ issues = Unused /\ issue = Unused /\ prompted = {} /\ raised = {}
BothOff == off = FALSE /\ now = Unused /\ again = Unused /\ lost = Unused

Init ==
  \/ running = "dispatcher" /\ D!Init /\ WakeOff /\ OpsLoopOff
  \/ running = "wake" /\ C!Init /\ at = Unused /\ DispatcherOff /\ OpsLoopOff
  \/ running = "opsloop" /\ O!Init /\ BothOff /\ DispatcherOff /\ WakeOff

StillDispatcher == running = "dispatcher" /\ UNCHANGED <<running, ofWake, ofOpsLoop>>
StillWake == running = "wake" /\ UNCHANGED <<running, at, ofDispatcher, ofOpsLoop>>
StillOpsLoop == running = "opsloop" /\ UNCHANGED <<running, both, ofDispatcher, ofWake>>

Next ==
  \/ StillDispatcher /\ D!Next
  \/ StillWake /\ C!Next
  \/ StillOpsLoop /\ O!Next

Spec == Init /\ [][Next]_vars

(* The fairness of the program that runs.                                  *)
FairSpec ==
  /\ Spec
  /\ WF_vars(\/ StillDispatcher /\ D!Step
             \/ StillWake /\ C!Step
             \/ StillOpsLoop /\ O!Tick)
  /\ SF_vars(\/ StillDispatcher /\ D!CooldownPasses(D!Keys)
             \/ StillWake /\ C!WakeCools)

----------------------------------------------------------------------------
(* PROPERTIES *)

(* Each program's state is well typed.                                     *)
TypeOK ==
  /\ running \in {"dispatcher", "wake", "opsloop"}
  /\ running = "dispatcher" => D!TypeOK
  /\ running = "wake" => C!TypeOK
  /\ running = "opsloop" => O!TypeOK

(* Nobody gets a prompt that he should not: what is sent once in a         *)
(* cooldown is not sent twice in it, unless a run failed after it was sent *)
(* (NonstopLoop, CeoWake); and the ops loop never writes to developer-7    *)
(* (OpsLoop).                                                              *)
NoUndueWrites ==
  /\ running = "dispatcher" => D!PromptsSpaced
  /\ running = "wake" => C!WakesSpaced
  /\ running = "opsloop" => O!ProtectedUntouched

(* An idle agent gets work, and a fleet that stays idle is reported.       *)
IdleIsHandled ==
  running = "dispatcher" => D!IdleGetsWork /\ D!IdleGetsReported

(* A situation that lasts is told to ceo, and one that needs somebody is   *)
(* put before somebody.                                                    *)
ChangesAreTold ==
  /\ running = "wake" => C!ChangeGetsTold
  /\ running = "opsloop" => O!IssuesAreRaised
=============================================================================
