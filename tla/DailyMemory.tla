------------------------------ MODULE DailyMemory ------------------------------
(***************************************************************************)
(* The daily memory: one file a day, to whose end append_checkpoint adds a *)
(* checkpoint, with the heading of the day before it if there was no file. *)
(* Looking for the file, opening it and writing to it are steps of their   *)
(* own, and no lock is held.                                               *)
(***************************************************************************)
EXTENDS Sequences, FiniteSets, Functions

CONSTANTS
  Requests,  \* each is made once and appends one checkpoint
  Faults     \* what else happens: "crash", "write", "drop"

Heading == "#"
Torn == "-"    \* what a write that was cut short has left

(* Assumed wherever this module is used.                                   *)
DailyAssumption ==
  {Heading, Torn} \cap Requests = {} /\ Faults \subseteq {"crash", "write", "drop"}

VARIABLES
  file,     \* what was appended to the file of the day
  exists,   \* there is one
  pc,       \* the handler of each request
  existed,  \* requests that have found a file
  gone,     \* requests whose handler was dropped while it opened or wrote
  met       \* history: the requests that each was at work with

vars == <<file, exists, pc, existed, gone, met>>

Working == {"look", "open", "append"}
AtWork == {r \in Requests : pc[r] \in Working}

TypeOK ==
  /\ Range(file) \subseteq Requests \cup {Heading, Torn}
  /\ exists \in BOOLEAN /\ ~exists => file = <<>>
  /\ pc \in [Requests -> Working \cup {"new", "done", "failed"}]
  /\ gone \subseteq {r \in Requests : pc[r] \in {"open", "append", "failed"}}
  /\ existed \subseteq Requests /\ met \in [Requests -> SUBSET Requests]

Init ==
  /\ file = <<>> /\ exists = FALSE
  /\ pc = [r \in Requests |-> "new"]
  /\ existed = {} /\ gone = {} /\ met = [r \in Requests |-> {}]

----------------------------------------------------------------------------
(* Definitions named _Faulty... are plausible mistakes in the definition   *)
(* after them; no specification uses them.                                 *)

Goto(r, there) == pc' = [pc EXCEPT ![r] = there]

Begin(r) ==
  /\ pc[r] = "new"
  /\ Goto(r, "look")
  /\ met' = [q \in Requests |-> met[q] \cup {s \in (AtWork \cup {r}) \ {q} : q \in AtWork \cup {r}}]
  /\ UNCHANGED <<file, exists, existed, gone>>

(* try_exists *)
Look(r) ==
  /\ pc[r] = "look"
  /\ existed' = existed \cup {s \in {r} : exists}
  /\ Goto(r, "open")
  /\ UNCHANGED <<file, exists, gone, met>>

Open(r) ==
  /\ pc[r] = "open"
  /\ exists' = TRUE
  /\ Goto(r, IF r \in gone THEN "failed" ELSE "append")
  /\ UNCHANGED <<file, existed, gone, met>>

(* Each checkpoint comes with the heading. *)
Body_FaultyAlwaysHeaded(r) == <<Heading, r>>

(* The heading and the checkpoint are one write.                           *)
Body(r) == IF r \in existed THEN <<r>> ELSE <<Heading, r>>

Write(r) ==
  /\ pc[r] = "append"
  /\ file' = file \o Body(r)
  /\ Goto(r, IF r \in gone THEN "failed" ELSE "done")
  /\ UNCHANGED <<exists, existed, gone, met>>

(* Nothing is written, or something short of the checkpoint.               *)
WriteFails(r) ==
  /\ "write" \in Faults /\ pc[r] = "append"
  /\ file' \in {file, file \o SubSeq(Body(r), 1, Len(Body(r)) - 1) \o <<Torn>>}
  /\ Goto(r, "failed")
  /\ UNCHANGED <<exists, existed, gone, met>>

(* A handler is dropped where it waits; what it has started goes on.       *)
Drop(r) ==
  /\ "drop" \in Faults /\ r \in AtWork \ gone
  /\ \/ Goto(r, "failed") /\ UNCHANGED gone
     \/ pc[r] \in {"open", "append"} /\ gone' = gone \cup {r} /\ UNCHANGED pc
  /\ UNCHANGED <<file, exists, existed, met>>

(* Nothing is kept in memory, so the restart of the API is not seen.       *)
Crash ==
  /\ "crash" \in Faults /\ AtWork # {}
  /\ pc' = [r \in Requests |-> IF r \in AtWork THEN "failed" ELSE pc[r]]
  /\ UNCHANGED <<file, exists, existed, gone, met>>

Handler(r) == Begin(r) \/ Look(r) \/ Open(r) \/ Write(r) \/ WriteFails(r) \/ Drop(r)

Next == (\E r \in Requests : Handler(r)) \/ Crash

Spec == Init /\ [][Next]_vars

----------------------------------------------------------------------------
Headings == {n \in DOMAIN file : file[n] = Heading}

(* A day has its heading once, at its head, unless two checkpoints were at *)
(* work at once; it may have none if a checkpoint failed that had created  *)
(* the file.  And whatever happens, a checkpoint that was acknowledged is  *)
(* there, once, and each heading has a checkpoint or the rest of one       *)
(* behind it.                                                              *)
HeadedOnce ==
  /\ \A r \in Requests : pc[r] = "done" => Cardinality({n \in DOMAIN file : file[n] = r}) = 1
  /\ \A n \in Headings : n < Len(file) /\ file[n + 1] # Heading
  /\ (\A r \in Requests : met[r] = {}) =>
       /\ Headings \subseteq {1}
       /\ file # <<>> /\ Headings = {} => \E r \in Requests : pc[r] = "failed"
=============================================================================
