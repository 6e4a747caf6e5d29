----------------------------- MODULE NonstopLoop -----------------------------
(***************************************************************************)
(* The dispatcher of work (agent-work-dispatcher.cjs) and the patrol       *)
(* (caesar-patrol.cjs), which ceo-nonstop-loop.ps1 runs one after the      *)
(* other, once a minute.  A run of the dispatcher lists the sessions,      *)
(* sends a task to each agent that looks idle and an alert to the lead if  *)
(* two of them do, and saves when it did so, and what the agents looked    *)
(* like, in two files at its very end.  The patrol reads the second one.   *)
(***************************************************************************)
EXTENDS Naturals, FiniteSets, SequencesExt

CONSTANTS
  Agents,  \* the agents of rolePlan, but for the protected ones
  Lead,    \* managerSession, one of them
  Tasks,   \* ids of directives and ledger tasks
  Plan,    \* taskIds of each agent: a sequence of tasks
  Shown,   \* bound: what an agent may look like, <<agent, look>>
  Watch    \* bound: whom the variable watched may name

(* "idle" stands for the states idle, waiting, blocked and stale.          *)
Looks == {"missing", "inactive", "busy", "idle"}

(* Assumed wherever this module is used.                                   *)
LoopAssumption ==
  /\ Lead \in Agents /\ Plan \in [Agents -> Seq(Tasks)] /\ Shown \subseteq Agents \X Looks
  /\ Agents \cap {"alert", "ceo"} = {} /\ Watch \subseteq Agents \cup {"alert"}

VARIABLES
  looks,    \* what classifyAgent would say of each agent
  open,     \* tasks that are not done
  off,      \* whether ledger-reference-disabled.json says so
  pc,       \* where the loop is
  seen,     \* the sessions as the run has listed them
  todo,     \* those it has not looked at yet
  work,     \* the open tasks as the run has read them
  at,       \* the session it writes to
  state,    \* agent-work-dispatch-state.json: what was sent in its cooldown
  now,      \* what this run has sent
  idleFile, \* agent-idle-ledger.json: who looked idle
  flagged,  \* whether caesar-patrol-latest.json says needs_attention
  failed,   \* whether the last run of the dispatcher or the patrol failed
  watched,  \* the agent, or the alert, that the next three are about
  got,      \* whether it was delivered within its cooldown
  again,    \* and again
  lost      \* by a run that did not save that, or that was so slow that what it
            \* saved, the time of its start, is over before that cooldown

fleet == <<looks, open, off>>
run == <<seen, todo, work, at, now>>
files == <<state, idleFile, flagged>>
ghosts == <<failed, watched, got, again, lost>>
vars == <<fleet, pc, run, files, ghosts>>

Keys == Agents \cup {"alert"}
Unseen == [a \in Agents |-> "missing"]

TypeOK ==
  /\ looks \in [Agents -> Looks] /\ seen \in [Agents -> Looks]
  /\ open \subseteq Tasks /\ work \subseteq Tasks
  /\ off \in BOOLEAN /\ flagged \in BOOLEAN /\ failed \in BOOLEAN
  /\ pc \in {"sleep", "loop", "text", "submit", "alertText", "alertSubmit", "save", "idle", "patrol"}
  /\ todo \subseteq Agents /\ at \in Agents \cup {"ceo"}
  /\ state \subseteq Keys /\ now \subseteq Keys /\ watched \in Keys
  /\ got \in BOOLEAN /\ again \in BOOLEAN /\ lost \in BOOLEAN
  /\ idleFile \subseteq Agents
  /\ pc \in {"text", "submit"} => at \in Agents \ now

Init ==
  /\ looks \in [Agents -> {"missing", "busy"}] /\ open = Tasks /\ off = FALSE
  /\ pc = "sleep" /\ seen = Unseen /\ todo = {} /\ work = {} /\ at = Lead /\ now = {}
  /\ state = {} /\ idleFile = {} /\ flagged = FALSE
  /\ failed = FALSE /\ watched \in Watch /\ got = FALSE /\ again = FALSE /\ lost = FALSE

----------------------------------------------------------------------------
(* THE FLEET AND THE LEDGER.  They change at any time; here, only at times *)
(* when somebody would see it, which is the same for all the others.       *)

AgentChanges(a, l) ==
  /\ looks[a] # l
  /\ \/ pc \in {"sleep", "patrol"}
     \/ pc \in {"text", "submit", "alertText", "alertSubmit"} /\ at = a /\ l = "missing"
  /\ looks' = [looks EXCEPT ![a] = l]
  /\ UNCHANGED <<open, off, pc, run, files, ghosts>>

TaskChanges(t) ==
  /\ pc = "sleep"
  /\ open' = IF t \in open THEN open \ {t} ELSE open \cup {t}
  /\ UNCHANGED <<looks, off, pc, run, files, ghosts>>

FlagChanges ==
  /\ pc \in {"sleep", "patrol"}
  /\ off' = ~off
  /\ UNCHANGED <<looks, open, pc, run, files, ghosts>>

----------------------------------------------------------------------------
(* THE DISPATCHER.                                                         *)
(* Definitions named _Faulty... are plausible mistakes in the definition   *)
(* after them; no specification uses them.                                 *)

Idle(a) == seen[a] = "idle"
Idlers == {a \in Agents : Idle(a)}

(* The first open task of the plan of the agent, or another open one.      *)
Picked(a) == SelectSeq(Plan[a], LAMBDA t : t \in work)
PickTask(a) == IF Picked(a) # <<>> THEN Head(Picked(a)) ELSE CHOOSE t \in work : TRUE

Over == seen' = Unseen /\ todo' = {} /\ work' = {} /\ at' = Lead /\ now' = {}

(* A throw ends the run, and nothing of it is saved.                       *)
RunFails ==
  /\ pc \in {"loop", "text", "submit", "alertText", "alertSubmit", "save"}
  /\ pc' = "patrol" /\ Over
  /\ lost' = (lost \/ watched \in now) /\ failed' = TRUE
  /\ UNCHANGED <<fleet, files, watched, got, again>>

(* Killed while it saves the second file.                                  *)
IdleTorn ==
  /\ pc = "idle"
  /\ pc' = "patrol" /\ idleFile' \in {idleFile, {}} /\ Over
  /\ failed' = TRUE
  /\ UNCHANGED <<fleet, state, flagged, watched, got, again, lost>>

(* The flag is looked at before anything else: the dispatcher exits.       *)
Begin ==
  /\ pc = "sleep"
  /\ IF off THEN pc' = "patrol" /\ UNCHANGED run
     ELSE /\ pc' = "loop" /\ seen' = looks /\ work' = open
          /\ todo' = {a \in Agents : looks[a] # "missing"}
          /\ UNCHANGED <<at, now>>
  /\ UNCHANGED <<fleet, files, ghosts>>

(* classifyAgent and a task to give.                                       *)
ShouldDispatch(a) == Idle(a) /\ a \notin state /\ work # {}

(* A session that it has looked at stays in the list. *)
Looking_FaultyStays(a) == pc = "loop" /\ a \in todo /\ UNCHANGED todo

Looking(a) == pc = "loop" /\ a \in todo /\ todo' = todo \ {a}

PassOver(a) ==
  /\ Looking(a) /\ ~ShouldDispatch(a)
  /\ UNCHANGED <<fleet, pc, seen, work, at, now, files, ghosts>>

Dispatch(a) ==
  /\ Looking(a) /\ ShouldDispatch(a)
  /\ pc' = "text" /\ at' = a
  /\ UNCHANGED <<fleet, seen, work, now, files, ghosts>>

(* writePrompt: a pointer to the task (PickTask) is typed with             *)
(* prompt-text, ...                                                        *)
There(s) == s # "ceo" => looks[s] # "missing"

Text ==
  /\ pc \in {"text", "alertText"} /\ There(at)
  /\ pc' = IF pc = "text" THEN "submit" ELSE "alertSubmit"
  /\ UNCHANGED <<fleet, run, files, ghosts>>

(* A run that waits for a session long enough delivers late.               *)
Delivered(k) ==
  /\ \E slow \in BOOLEAN : lost' = (lost \/ (slow /\ k = watched))
  /\ got' = (got \/ k = watched)
  /\ again' = (again \/ (got /\ k = watched))
  /\ now' = now \cup {k}

(* ... and entered with prompt-submit.                                     *)
Submit ==
  /\ pc = "submit" /\ There(at)
  /\ pc' = "loop" /\ Delivered(at) /\ at' = Lead
  /\ UNCHANGED <<fleet, seen, todo, work, files, failed, watched>>

(* A session that is gone answers 404, also to the /write tried after it.  *)
Gone ==
  /\ pc \in {"text", "submit", "alertText", "alertSubmit"} /\ ~There(at)
  /\ RunFails

AlertDue == Cardinality(Idlers) >= 2 /\ "alert" \notin state

NoAlert ==
  /\ pc = "loop" /\ todo = {} /\ ~AlertDue
  /\ pc' = "save"
  /\ UNCHANGED <<fleet, run, files, ghosts>>

(* ensureManagerSession: a lead that was not listed is created, one that   *)
(* is not active is passed over for ceo.                                   *)
AlertManager ==
  /\ pc = "loop" /\ todo = {} /\ AlertDue
  /\ pc' = "alertText"
  /\ IF seen[Lead] = "missing"
     THEN at' = Lead /\ looks' = [looks EXCEPT ![Lead] = "busy"]
     ELSE at' = (IF seen[Lead] = "inactive" THEN "ceo" ELSE Lead) /\ UNCHANGED looks
  /\ UNCHANGED <<open, off, seen, todo, work, now, files, ghosts>>

AlertSent ==
  /\ pc = "alertSubmit" /\ There(at)
  /\ pc' = "save" /\ Delivered("alert") /\ at' = Lead
  /\ UNCHANGED <<fleet, seen, todo, work, files, failed, watched>>

(* Only the agents are saved. *)
Saved_FaultyAgentsOnly == state \cup (now \ {"alert"})

Saved == state \cup now

SaveState ==
  /\ pc = "save"
  /\ pc' = "idle" /\ state' = Saved
  /\ UNCHANGED <<fleet, run, idleFile, flagged, ghosts>>

(* Killed while the file is written: the next run takes it for {}.         *)
SaveTorn ==
  /\ pc = "save"
  /\ pc' = "patrol" /\ state' = {} /\ Over
  /\ lost' = got /\ failed' = TRUE
  /\ UNCHANGED <<fleet, idleFile, flagged, watched, got, again>>

(* Only those that have become idle are idle. *)
IdleLedger_FaultyOnlyNew == Idlers \ idleFile

(* Agents that were not listed stay as they were.                          *)
IdleLedger == {a \in Agents : IF seen[a] = "missing" THEN a \in idleFile ELSE Idle(a)}

SaveIdle ==
  /\ pc = "idle"
  /\ pc' = "patrol" /\ idleFile' = IdleLedger /\ Over
  /\ failed' = FALSE
  /\ UNCHANGED <<fleet, state, flagged, watched, got, again, lost>>

----------------------------------------------------------------------------
(* THE PATROL *)

(* It looks at the sessions itself, but for idle agents it relies on the   *)
(* file.  Other reasons (an unreadable ledger, a task that is done and not *)
(* at 100, anomalies of a terminal) may be there or not.                   *)
Blockers ==
  \/ \E a \in Agents : looks[a] = "inactive"
  \/ Cardinality(idleFile) >= 2

Patrol ==
  /\ pc = "patrol"
  /\ pc' = "sleep"
  /\ \E other \in BOOLEAN : flagged' = (~off /\ (other \/ Blockers))
  /\ UNCHANGED <<fleet, run, state, idleFile, ghosts>>

PatrolFails ==
  /\ pc = "patrol" /\ ~off
  /\ pc' = "sleep" /\ flagged' = FALSE /\ failed' = TRUE
  /\ UNCHANGED <<fleet, run, state, idleFile, watched, got, again, lost>>

----------------------------------------------------------------------------
(* The two minutes of an alert and the ten of a task go by since the start *)
(* of the runs that sent them; for what was delivered late, once more.     *)
CooldownPasses(K) ==
  /\ pc = "sleep" /\ (K \cap state # {} \/ (got /\ watched \in K))
  /\ state' = state \ K
  /\ IF watched \in K \ {k \in state : lost}
     THEN got' = FALSE /\ again' = FALSE /\ lost' = FALSE
     ELSE UNCHANGED <<got, again, lost>>
  /\ UNCHANGED <<fleet, pc, run, idleFile, flagged, failed, watched>>

Time == CooldownPasses({"alert"}) \/ CooldownPasses(Keys)

Step ==
  \/ Begin \/ \E a \in Agents : PassOver(a) \/ Dispatch(a)
  \/ Text \/ Submit \/ Gone \/ NoAlert \/ AlertManager \/ AlertSent \/ SaveState \/ SaveIdle
  \/ Patrol

Next ==
  \/ Step \/ RunFails \/ SaveTorn \/ IdleTorn \/ PatrolFails \/ Time \/ FlagChanges
  \/ \E p \in Shown : AgentChanges(p[1], p[2])
  \/ \E t \in Tasks : TaskChanges(t)

Spec == Init /\ [][Next]_vars

(* The loop of the script runs on, whatever becomes of the programs it     *)
(* starts, and sleeps a minute each time: a cooldown is over in ten.       *)
FairSpec == Spec /\ WF_vars(Step) /\ SF_vars(CooldownPasses(Keys))

----------------------------------------------------------------------------
(* PROPERTIES *)

(* No agent gets a task, and nobody the alert, twice within the cooldown,  *)
(* unless a run that had sent it failed before it was saved, or was so     *)
(* slow that the time of its start, which it saves, says little: one write *)
(* that fails is enough for every agent before it in the list to be sent   *)
(* its task again a minute later.                                          *)
PromptsSpaced == again => lost

(* While runs do not fail, no agent looks idle for ever without being sent *)
(* a task, as long as there is an open one.                                *)
IdleGetsWork ==
  <>[](~off /\ ~failed /\ open # {}) =>
    \A a \in Agents : []<>(looks[a] = "idle" => a \in state)

(* While runs do not fail, two agents that stay idle are reported by the   *)
(* patrol, though it knows of them only from a file of the dispatcher.     *)
IdleGetsReported ==
  <>[](~off /\ ~failed /\ Cardinality({a \in Agents : looks[a] = "idle"}) >= 2) => <>[]flagged
=============================================================================
