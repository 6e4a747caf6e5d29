------------------------------ MODULE JsonlStore ------------------------------
(***************************************************************************)
(* A store of entries in a file with one entry a line, and in memory:      *)
(* PeerStore (messages) and MemoryStore (memories).  To save an entry, a   *)
(* handler appends the line, then the end of the line, and then pushes the *)
(* entry to the list in memory; no lock is held over the two appends.      *)
(* A start reads the lines and leaves out those that are not one entry.    *)
(***************************************************************************)
EXTENDS Sequences, FiniteSets, Functions

CONSTANTS
  Requests,  \* each saves one entry, which has the name of the request
  Faults     \* what else happens: "crash", "write", "drop"

EndOfLine == "\n"
Torn == "{"        \* what a write that was cut short has left of an entry

(* Assumed wherever this module is used.                                   *)
JsonlAssumption ==
  {EndOfLine, Torn} \cap Requests = {} /\ Faults \subseteq {"crash", "write", "drop"}

VARIABLES
  mem,   \* the entries in memory
  file,  \* what was appended to the file
  up,    \* the API runs
  pc,    \* the handler of each request
  gone,  \* requests whose handler was dropped while it wrote
  met    \* history: the requests that each was at work with

vars == <<mem, file, up, pc, gone, met>>

Working == {"line", "end", "push"}
AtWork == {r \in Requests : pc[r] \in Working}

TypeOK ==
  /\ Range(mem) \subseteq Requests /\ IsInjective(mem)
  /\ Range(file) \subseteq Requests \cup {EndOfLine, Torn}
  /\ up \in BOOLEAN /\ ~up => AtWork = {} /\ mem = <<>>
  /\ pc \in [Requests -> Working \cup {"new", "done", "failed"}]
  /\ gone \subseteq {r \in Requests : pc[r] \in {"line", "end", "failed"}}
  /\ \A r \in Requests : pc[r] \in {"end", "push", "done"} => r \in Range(file)

Init ==
  /\ mem = <<>> /\ file = <<>> /\ up = TRUE
  /\ pc = [r \in Requests |-> "new"]
  /\ gone = {} /\ met = [r \in Requests |-> {}]

----------------------------------------------------------------------------
(* Definitions named _Faulty... are plausible mistakes in the definition   *)
(* after them; no specification uses them.                                 *)

Goto(r, there) == pc' = [pc EXCEPT ![r] = there]

(* A request comes, and the file is opened for appending.                  *)
Begin(r) ==
  /\ up /\ pc[r] = "new"
  /\ Goto(r, "line")
  /\ met' = [q \in Requests |-> met[q] \cup {s \in AtWork \cup {r} : q \in AtWork \cup {r}}]
  /\ UNCHANGED <<mem, file, up, gone>>

(* write_all(raw), on a thread of its own; the handler learns of its end   *)
(* with the next write.                                                    *)
WriteLine(r) ==
  /\ pc[r] = "line"
  /\ file' = Append(file, r)
  /\ Goto(r, IF r \in gone THEN "failed" ELSE "end")
  /\ UNCHANGED <<mem, up, gone, met>>

WriteEnd(r) ==
  /\ pc[r] = "end"
  /\ file' = Append(file, EndOfLine)
  /\ Goto(r, IF r \in gone THEN "failed" ELSE "push")
  /\ UNCHANGED <<mem, up, gone, met>>

(* The newest comes first. *)
Push_FaultyFront(r) ==
  /\ pc[r] = "push"
  /\ mem' = <<r>> \o mem
  /\ Goto(r, "done")
  /\ UNCHANGED <<file, up, gone, met>>

(* The entry is there to be read, and the request is answered.             *)
Push(r) ==
  /\ pc[r] = "push"
  /\ mem' = Append(mem, r)
  /\ Goto(r, "done")
  /\ UNCHANGED <<file, up, gone, met>>

(* A write fails: the disk is full, say.  Some of the line may be written. *)
WriteFails(r) ==
  /\ "write" \in Faults /\ pc[r] \in {"line", "end"}
  /\ Goto(r, "failed")
  /\ file' \in {file} \cup {Append(file, Torn) : l \in {pc[r]} \cap {"line"}}
  /\ UNCHANGED <<mem, up, gone, met>>

(* The client closes its connection, and the handler is dropped where it   *)
(* waits; a write that it has started goes on without it.                  *)
Drop(r) ==
  /\ "drop" \in Faults /\ r \in AtWork \ gone
  /\ \/ Goto(r, "failed") /\ UNCHANGED gone
     \/ pc[r] \in {"line", "end"} /\ gone' = gone \cup {r} /\ UNCHANGED pc
  /\ UNCHANGED <<mem, file, up, met>>

Crash ==
  /\ "crash" \in Faults /\ up
  /\ up' = FALSE /\ mem' = <<>>
  /\ pc' = [r \in Requests |-> IF pc[r] \in Working THEN "failed" ELSE pc[r]]
  /\ UNCHANGED <<file, gone, met>>

(* The place of an entry in a file, and whether it is alone in its line.   *)
Place(r) == CHOOSE n \in DOMAIN file : file[n] = r
OneLine(r) ==
  /\ r \in Range(file)
  /\ \A n \in {Place(r) - 1, Place(r) + 1} \cap DOMAIN file : file[n] = EndOfLine

(* What a sequence has of a set, in its order.                             *)
Those(s, S) ==
  LET kept[n \in 0 .. Len(s)] ==
        IF n = 0 THEN <<>> ELSE IF s[n] \in S THEN Append(kept[n - 1], s[n]) ELSE kept[n - 1]
  IN  kept[Len(s)]

Lines == Those(file, {r \in Requests : OneLine(r)})

(* PeerStore::new, MemoryStore::new: the entries of the lines that parse.  *)
Restart ==
  /\ ~up
  /\ up' = TRUE /\ mem' = Lines
  /\ UNCHANGED <<file, pc, gone, met>>

Handler(r) ==
  Begin(r) \/ WriteLine(r) \/ WriteEnd(r) \/ Push(r) \/ WriteFails(r) \/ Drop(r)

Next == (\E r \in Requests : Handler(r)) \/ Crash \/ Restart

Spec == Init /\ [][Next]_vars

----------------------------------------------------------------------------
With(r) == met[r] \ {r}

Before(r) == file[Place(r) - 1]

(* An entry that was acknowledged is lost at the next start only if its    *)
(* request was at work with another, or if the line before it was not      *)
(* ended by a request that failed; and such a request costs one entry at   *)
(* most, for who comes after it ends the line of both.                     *)
SavedIsKept ==
  LET lost == {r \in Requests : pc[r] = "done" /\ ~OneLine(r)}
      failed == {r \in Requests : pc[r] = "failed"}
  IN  /\ \A r \in lost : With(r) # {} \/ Before(r) \in failed \cup {Torn}
      /\ (\A r \in Requests : With(r) = {}) => Cardinality(lost) <= Cardinality(failed)

(* A start changes no order: what the file has and the list has, they have *)
(* in the same order, until two requests are at work at once.  And the     *)
(* list has nothing that the file has not, nor lacks what was acknowledged *)
(* and can be read.                                                        *)
ListTellsFile ==
  up =>
    /\ Range(mem) \subseteq Range(file)
    /\ {r \in Range(Lines) : pc[r] = "done"} \subseteq Range(mem)
    /\ (\A r \in Requests : With(r) = {}) =>
         Those(mem, Range(Lines)) = Those(Lines, Range(mem))

(* "append exactly one JSONL line per accepted write", among the           *)
(* acceptance criteria of docs/hq-memory-system-benchmark-20260601.md:     *)
(* what is acknowledged is a line of its own.  It does not hold: two       *)
(* writes at once end up in one line.                                      *)
OneLinePerWrite == \A r \in Requests : pc[r] = "done" => OneLine(r)
=============================================================================
