------------------------------ MODULE Attachments ------------------------------
(***************************************************************************)
(* Which OS agents are attached to this API: attachments.json, read for    *)
(* every question and never kept.  set_os_agent_attached reads it, changes *)
(* one agent and writes it back, without a lock.  An agent that the file   *)
(* does not name is attached unless its runner has stopped.                *)
(***************************************************************************)
EXTENDS FiniteSets

CONSTANTS
  Requests,  \* each is made once: attach_os_agent, detach_os_agent, delete_session
  Agents,    \* ids in the registry of the runners
  Faults     \* what else happens: "crash", "write", "drop"

(* Assumed wherever this module is used.                                   *)
AttachmentsAssumption == Faults \subseteq {"crash", "write", "drop"}

States == {"attached", "detached"}
Unset == "unset"

VARIABLES
  file,    \* the file: whether it can be read, and the state of each agent
  pc,      \* the handler of each request
  asks,    \* what each request asks for: <<agent, state>>
  copy,    \* the states that each request writes
  gone,    \* requests whose handler was dropped while it wrote
  last,    \* history: what was written last for each agent on request
  lapses   \* history: "overlap" of two requests, "torn" write

vars == <<file, pc, asks, copy, gone, last, lapses>>

Agent(r) == asks[r][1]
AtWork == {r \in Requests : pc[r] \in {"truncate", "write"}}

Maps == [Agents -> States \cup {Unset}]
NoneSet == [a \in Agents |-> Unset]
Holds(map) == [readable |-> TRUE, map |-> map]
Unreadable == [readable |-> FALSE, map |-> NoneSet]

TypeOK ==
  /\ file \in [readable : BOOLEAN, map : Maps] /\ lapses \subseteq {"overlap", "torn"}
  /\ pc \in [Requests -> {"new", "truncate", "write", "done", "failed"}]
  /\ asks \in [Requests -> Agents \X States] /\ copy \in [Requests -> Maps]
  /\ gone \subseteq Requests /\ last \in Maps
  /\ \A r \in AtWork : copy[r][Agent(r)] = asks[r][2]

(* There is no file at first.                                              *)
Init ==
  /\ file = Unreadable
  /\ pc = [r \in Requests |-> "new"]
  /\ asks \in [Requests -> Agents \X States]
  /\ copy = [r \in Requests |-> NoneSet]
  /\ gone = {} /\ last = NoneSet /\ lapses = {}

----------------------------------------------------------------------------
(* Definitions named _Faulty... are plausible mistakes in the definition   *)
(* after them; no specification uses them.                                 *)

Goto(r, there) == pc' = [pc EXCEPT ![r] = there]

(* What the file has is forgotten. *)
Set_FaultyFromNone(r) == [NoneSet EXCEPT ![Agent(r)] = asks[r][2]]

(* A file that cannot be read, as one that is not there, sets nobody.      *)
Set(r) ==
  [(IF file.readable THEN file.map ELSE NoneSet) EXCEPT ![Agent(r)] = asks[r][2]]

Begin(r) ==
  /\ pc[r] = "new"
  /\ copy' = [copy EXCEPT ![r] = Set(r)]
  /\ Goto(r, "truncate")
  /\ lapses' = lapses \cup {"overlap" : q \in AtWork}
  /\ UNCHANGED <<file, asks, gone, last>>

Truncate(r) ==
  /\ pc[r] = "truncate"
  /\ file' = Unreadable
  /\ Goto(r, "write")
  /\ UNCHANGED <<asks, copy, gone, last, lapses>>

Write(r) ==
  /\ pc[r] = "write"
  /\ file' \in {Holds(copy[r])} \cup {Unreadable : f \in {file} \ {Unreadable, Holds(copy[r])}}
  /\ Goto(r, IF r \in gone THEN "failed" ELSE "done")
  /\ last' = [last EXCEPT ![Agent(r)] = asks[r][2]]
  /\ UNCHANGED <<asks, copy, gone, lapses>>

WriteFails(r) ==
  /\ "write" \in Faults /\ r \in AtWork
  /\ Goto(r, "failed")
  /\ lapses' = lapses \cup {"torn"}
  /\ UNCHANGED <<file, asks, copy, gone, last>>

(* The handler is dropped, while it makes sure of the directory or while   *)
(* it waits for the write, which then goes on.                             *)
Drop(r) ==
  /\ "drop" \in Faults /\ r \in AtWork \ gone
  /\ \/ pc[r] = "truncate" /\ Goto(r, "failed") /\ UNCHANGED gone
     \/ gone' = gone \cup {r} /\ UNCHANGED pc
  /\ UNCHANGED <<file, asks, copy, last, lapses>>

(* Nothing is kept in memory, so the restart of the API is not seen.       *)
Crash ==
  /\ "crash" \in Faults /\ AtWork # {}
  /\ pc' = [r \in Requests |-> IF r \in AtWork THEN "failed" ELSE pc[r]]
  /\ lapses' = lapses \cup {"torn"}
  /\ UNCHANGED <<file, asks, copy, gone, last>>

Handler(r) == Begin(r) \/ Truncate(r) \/ Write(r) \/ WriteFails(r) \/ Drop(r)

Next == (\E r \in Requests : Handler(r)) \/ Crash

Spec == Init /\ [][Next]_vars

----------------------------------------------------------------------------
(* As long as requests do not overlap, a request about one agent changes   *)
(* no other: an agent is what was last written for it on request.  A write *)
(* that is cut short makes all of them what they are by default, and for   *)
(* good once another agent is written; it makes none the opposite of what  *)
(* was asked for it.                                                       *)
AttachmentsHold ==
  "overlap" \notin lapses =>
    /\ \A a \in Agents : file.map[a] \in {last[a], Unset}
    /\ lapses = {} /\ file.readable => file.map = last
=============================================================================
