------------------------------- MODULE OpsLoop -------------------------------
(***************************************************************************)
(* The non-sleeping ops loop (non-sleeping-ops-loop.cjs).  Each tick it    *)
(* turns the sessions and the active items of the ledger into issues, and  *)
(* sends each to the terminal of its owner, or of somebody else if that is *)
(* not there.  It remembers nothing, and the first write that fails ends   *)
(* it.                                                                     *)
(***************************************************************************)
EXTENDS FiniteSets

CONSTANTS
  Agents,     \* ids of sessions
  Protected,  \* those it must leave alone: developer-7
  Lead,       \* dev-lead
  Items,      \* items of the ledger
  Owner,      \* the owner of each item, Nobody if it has none
  Turns       \* bound: what a session may turn into, <<session, condition>>

Nobody == "nobody"

(* "needy": blocked, idle or without a heartbeat, whatever the status.     *)
Conditions == {"missing", "fine", "needy"}

(* Assumed wherever this module is used.                                   *)
OpsAssumption ==
  /\ Nobody \notin Agents /\ Protected \subseteq Agents /\ Lead \in Agents \ Protected
  /\ Owner \in [Items -> Agents \cup {Nobody}] /\ Turns \subseteq Agents \X Conditions

VARIABLES
  session,  \* what classifySession says of each session
  active,   \* items that are not done
  pc,       \* where the loop is
  listed,   \* the sessions of this tick
  issues,   \* the issues it has not dealt with yet
  at,       \* the session it writes to
  issue,    \* the issue it deals with
  prompted, \* sessions that got a prompt as they are now
  raised    \* items about which somebody got a prompt, or an event says so

world == <<session, active>>
ghosts == <<prompted, raised>>
vars == <<world, pc, listed, issues, at, issue, ghosts>>

Issues == (Items \X (Agents \cup {Nobody})) \cup ({"health"} \X Agents)
NoIssue == <<"none", Lead>>

TypeOK ==
  /\ session \in [Agents -> Conditions]
  /\ active \subseteq Items
  /\ pc \in {"down", "sleep", "loop", "text", "submit"}
  /\ listed \subseteq Agents /\ issues \subseteq Issues
  /\ at \in Agents /\ issue \in Issues \cup {NoIssue}
  /\ prompted \subseteq Agents /\ raised \subseteq Items

Init ==
  /\ session = [a \in Agents |-> "fine"] /\ active = {}
  /\ pc = "sleep" /\ listed = {} /\ issues = {} /\ at = Lead /\ issue = NoIssue
  /\ prompted = {} /\ raised = {}

SessionChanges(a, c) ==
  /\ session[a] # c
  /\ session' = [session EXCEPT ![a] = c]
  /\ prompted' = prompted \ {a}
  /\ UNCHANGED <<active, pc, listed, issues, at, issue, raised>>

(* Read once in a tick: here, items change between two of them.            *)
ItemChanges(i) ==
  /\ pc = "sleep"
  /\ active' = IF i \in active THEN active \ {i} ELSE active \cup {i}
  /\ raised' = raised \ {i}
  /\ UNCHANGED <<session, pc, listed, issues, at, issue, prompted>>

----------------------------------------------------------------------------
(* THE LOOP *)

(* findIssues: items without an owner, or whose owner has no session, and  *)
(* sessions that need attention, the protected ones in any case.           *)
FindIssues ==
  {<<i, Owner[i]>> : i \in {j \in active : Owner[j] = Nobody \/ session[Owner[j]] = "missing"}}
  \cup {<<"health", a>> : a \in {b \in Agents :
          session[b] = "needy" \/ (b \in Protected /\ session[b] # "missing")}}

Scan ==
  /\ pc = "sleep"
  /\ pc' = "loop"
  /\ listed' = {a \in Agents : session[a] # "missing"} /\ issues' = FindIssues
  /\ UNCHANGED <<world, at, issue, ghosts>>

(* The owner, else dev-lead, else some session that is not protected.      *)
Targets(owner) ==
  IF owner \in listed THEN {owner}
  ELSE IF Lead \in listed THEN {Lead} ELSE listed \ Protected

Dealt(i) == issues' = issues \ {i} /\ raised' = raised \cup ({i[1]} \cap Items)

Escalate(i) ==
  /\ pc = "loop" /\ i \in issues /\ Targets(i[2]) = {}
  /\ Dealt(i)
  /\ UNCHANGED <<world, pc, listed, at, issue, prompted>>

(* A protected session is skipped, which an event says. *)
Skip(i) ==
  /\ pc = "loop" /\ i \in issues /\ Targets(i[2]) \cap Protected # {}
  /\ Dealt(i)
  /\ UNCHANGED <<world, pc, listed, at, issue, prompted>>

(* A snapshot is saved and the sending logged before the prompt is sent.   *)
Dispatch(i) ==
  /\ pc = "loop" /\ i \in issues
  /\ at' \in Targets(i[2]) \ Protected
  /\ pc' = "text" /\ issue' = i
  /\ UNCHANGED <<world, listed, issues, ghosts>>

Text ==
  /\ pc = "text" /\ session[at] # "missing"
  /\ pc' = "submit"
  /\ UNCHANGED <<world, listed, issues, at, issue, ghosts>>

Submit ==
  /\ pc = "submit" /\ session[at] # "missing"
  /\ pc' = "loop" /\ at' = Lead /\ issue' = NoIssue
  /\ Dealt(issue) /\ prompted' = prompted \cup {at}
  /\ UNCHANGED <<world, listed>>

(* Any answer that is not ok; a session that is gone by now gives one.     *)
Die ==
  /\ pc \notin {"down", "sleep"}
  /\ pc' = "down" /\ listed' = {} /\ issues' = {} /\ at' = Lead /\ issue' = NoIssue
  /\ UNCHANGED <<world, ghosts>>

Refused == pc \in {"text", "submit"} /\ session[at] = "missing" /\ Die

Start ==
  /\ pc = "down"
  /\ pc' = "sleep"
  /\ UNCHANGED <<world, listed, issues, at, issue, ghosts>>

Save ==
  /\ pc = "loop" /\ issues = {}
  /\ pc' = "sleep" /\ listed' = {}
  /\ UNCHANGED <<world, issues, at, issue, ghosts>>

----------------------------------------------------------------------------
Tick ==
  \/ Scan \/ Text \/ Submit \/ Refused \/ Save
  \/ \E i \in Issues : Escalate(i) \/ Skip(i) \/ Dispatch(i)

Next ==
  \/ Tick \/ Die \/ Start
  \/ \E p \in Turns : SessionChanges(p[1], p[2])
  \/ \E i \in Items : ItemChanges(i)

Spec == Init /\ [][Next]_vars

(* The loop of main runs on.                                               *)
FairSpec == Spec /\ WF_vars(Tick)

(* PROPERTIES *)

(* The terminal of developer-7 is never written to, as the owner of an     *)
(* issue or in the place of an owner who is not there.                     *)
ProtectedUntouched == prompted \cap Protected = {} /\ at \notin Protected

(* While the loop is not ended by a write that fails, a session that goes  *)
(* on to need attention is prompted, and an item without anybody to do it  *)
(* is put before somebody, or logged if nobody is there.                   *)
IssuesAreRaised ==
  <>[](pc # "down") =>
    /\ \A a \in Agents \ Protected :
         []<>(session[a] = "needy" => a \in prompted)
    /\ \A i \in Items : Owner[i] = Nobody =>
         []<>(i \in active => i \in raised)
=============================================================================
