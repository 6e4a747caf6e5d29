------------------------------ MODULE CanvasStore ------------------------------
(***************************************************************************)
(* The canvases: a list in memory behind a lock (CanvasStore.canvases) and *)
(* a file.  Most use cases copy a canvas, edit the copy and save it whole: *)
(* the lock is let go in between.  Under the lock, a save puts the canvas  *)
(* into the list and writes the whole list to the file.                    *)
(*                                                                         *)
(* A canvas is the set of the requests that made it what it is.            *)
(***************************************************************************)
EXTENDS Naturals, FiniteSets

CONSTANTS
  Requests,  \* each is made once
  Ids,       \* ids of canvases
  Faults     \* what else happens: "crash", "write", "drop"

(* Assumed wherever this module is used.                                   *)
CanvasAssumption == Faults \subseteq {"crash", "write", "drop"}

(* "edit": update, add_message, invite_member.  "content": put_content.    *)
Ops == {"create", "edit", "content"}

VARIABLES
  mem,     \* the canvases in memory, {} for those that are not there
  file,    \* the file: whether it can be read, and what it has then
  up,      \* the API runs
  pc,      \* the handler of each request
  asks,    \* what each request asks for: <<op, id>>
  copy,    \* the canvas that each "edit" holds
  out,     \* the list that each handler writes
  gone,    \* requests whose handler was dropped while it wrote
  met,     \* history: the requests on the same canvas that each was at work with
  anew,    \* history: requests whose canvas was created anew
  lapses   \* history: "crash", a write "torn" by one, "failed" or "dropped"

vars == <<mem, file, up, pc, asks, copy, out, gone, met, anew, lapses>>

Writing == {"truncate", "write"}
AtWork == {r \in Requests : pc[r] \in {"find", "save"} \cup Writing}
Id(r) == asks[r][2]

Lists == [Ids -> SUBSET Requests]
Nothing == [c \in Ids |-> {}]
Holds(list) == [readable |-> TRUE, list |-> list]
Unreadable == [readable |-> FALSE, list |-> Nothing]

(* Definitions named _Faulty... are plausible mistakes in the definition   *)
(* after them; no specification uses them.                                 *)

(* The lock is let go before the file is written. *)
Held_FaultyFreed == FALSE

(* The write lock is with the handler that writes the file.                *)
Held == \E r \in Requests \ gone : pc[r] \in Writing

TypeOK ==
  /\ mem \in Lists /\ file \in [readable : BOOLEAN, list : Lists] /\ up \in BOOLEAN
  /\ pc \in [Requests -> {"new", "find", "save", "done", "failed"} \cup Writing]
  /\ asks \in [Requests -> Ops \X Ids] /\ copy \in [Requests -> SUBSET Requests]
  /\ out \in [Requests -> Lists] /\ lapses \subseteq {"crash", "torn", "failed", "dropped"}
  /\ gone \subseteq {r \in Requests : pc[r] \in Writing \cup {"failed"}}
  /\ Cardinality({r \in Requests \ gone : pc[r] \in Writing}) <= 1
  /\ ~up => AtWork = {}

Init ==
  /\ mem = Nothing /\ file = Holds(Nothing) /\ up = TRUE
  /\ pc = [r \in Requests |-> "new"]
  /\ asks \in [Requests -> Ops \X Ids]
  /\ copy = [r \in Requests |-> {}] /\ out = [r \in Requests |-> Nothing]
  /\ gone = {} /\ met = [r \in Requests |-> {}] /\ anew = {} /\ lapses = {}

----------------------------------------------------------------------------
Goto(r, there) == pc' = [pc EXCEPT ![r] = there]

(* A request comes.  An edit is to find its canvas; the others go for the  *)
(* lock at once.                                                           *)
Arrive(r) ==
  LET here == {q \in AtWork \cup {r} : Id(q) = Id(r)}
  IN  /\ up /\ pc[r] = "new"
      /\ Goto(r, IF asks[r][1] = "edit" THEN "find" ELSE "save")
      /\ met' = [q \in Requests |-> met[q] \cup {s \in here \ {q} : q \in here}]
      /\ UNCHANGED <<mem, file, up, asks, copy, out, gone, anew, lapses>>

(* find_by_id, which waits for the lock.                                   *)
Find(r) ==
  /\ pc[r] = "find" /\ ~Held
  /\ copy' = [copy EXCEPT ![r] = mem[Id(r)]]
  /\ Goto(r, IF mem[Id(r)] = {} THEN "failed" ELSE "save")
  /\ UNCHANGED <<mem, file, up, asks, out, gone, met, anew, lapses>>

(* The canvas that was found is forgotten. *)
Made_FaultyOwnOnly(r) ==
  CASE asks[r][1] = "content" -> mem[Id(r)] \cup {r}
    [] OTHER -> {r}

(* The canvas as the request leaves it: a new one, its copy with its edit  *)
(* (save), or what is there with another content (upsert_sections).        *)
Made(r) ==
  CASE asks[r][1] = "create" -> {r}
    [] asks[r][1] = "edit" -> copy[r] \cup {r}
    [] asks[r][1] = "content" -> mem[Id(r)] \cup {r}

(* The list is taken to be written before it is changed. *)
Save_FaultyStaleList(r) ==
  /\ pc[r] = "save" /\ ~Held
  /\ IF asks[r][1] = "content" /\ mem[Id(r)] = {}
     THEN Goto(r, "failed") /\ UNCHANGED <<mem, out, anew>>
     ELSE /\ mem' = [mem EXCEPT ![Id(r)] = Made(r)]
          /\ out' = [out EXCEPT ![r] = mem]
          /\ anew' = anew \cup {q \in mem[Id(r)] : asks[r][1] = "create"}
          /\ Goto(r, "truncate")
  /\ UNCHANGED <<file, up, asks, copy, gone, met, lapses>>

(* The lock is taken and the list in memory changed; the lock is kept      *)
(* until the file is written.                                              *)
Save(r) ==
  /\ pc[r] = "save" /\ ~Held
  /\ IF asks[r][1] = "content" /\ mem[Id(r)] = {}
     THEN Goto(r, "failed") /\ UNCHANGED <<mem, out, anew>>
     ELSE /\ mem' = [mem EXCEPT ![Id(r)] = Made(r)]
          /\ out' = [out EXCEPT ![r] = mem']
          /\ anew' = anew \cup {q \in mem[Id(r)] : asks[r][1] = "create"}
          /\ Goto(r, "truncate")
  /\ UNCHANGED <<file, up, asks, copy, gone, met, lapses>>

(* persist: fs::write, on a thread of its own, truncates and writes.  What *)
(* another write has put there in between is overwritten as far as the new *)
(* list reaches.                                                           *)
Truncate(r) ==
  /\ pc[r] = "truncate"
  /\ file' = Unreadable
  /\ Goto(r, "write")
  /\ UNCHANGED <<mem, up, asks, copy, out, gone, met, anew, lapses>>

Write(r) ==
  /\ pc[r] = "write"
  /\ file' \in {Holds(out[r])} \cup {Unreadable : f \in {file} \ {Unreadable, Holds(out[r])}}
  /\ Goto(r, IF r \in gone THEN "failed" ELSE "done")
  /\ UNCHANGED <<mem, up, asks, copy, out, gone, met, anew, lapses>>

(* The change stays in memory, and the file as the truncation left it.     *)
WriteFails(r) ==
  /\ "write" \in Faults /\ pc[r] \in Writing
  /\ Goto(r, "failed")
  /\ lapses' = lapses \cup {"failed"}
  /\ UNCHANGED <<mem, file, up, asks, copy, out, gone, met, anew>>

(* The handler is dropped where it waits, and with it the lock; a write    *)
(* that it has started goes on.                                            *)
Drop(r) ==
  /\ "drop" \in Faults /\ r \in AtWork \ gone
  /\ IF pc[r] \in Writing
     THEN gone' = gone \cup {r} /\ lapses' = lapses \cup {"dropped"} /\ UNCHANGED pc
     ELSE Goto(r, "failed") /\ UNCHANGED <<gone, lapses>>
  /\ UNCHANGED <<mem, file, up, asks, copy, out, met, anew>>

Crash ==
  /\ "crash" \in Faults /\ up
  /\ up' = FALSE
  /\ pc' = [r \in Requests |-> IF r \in AtWork THEN "failed" ELSE pc[r]]
  /\ lapses' = lapses \cup {"crash"} \cup {"torn" : r \in {r \in Requests : pc[r] \in Writing}}
  /\ UNCHANGED <<mem, file, asks, copy, out, gone, met, anew>>

(* CanvasStore::new: an unreadable file counts for an empty list.          *)
Restart ==
  /\ ~up
  /\ up' = TRUE
  /\ mem' = IF file.readable THEN file.list ELSE Nothing
  /\ UNCHANGED <<file, pc, asks, copy, out, gone, met, anew, lapses>>

Handler(r) ==
  \/ Arrive(r) \/ Find(r) \/ Save(r) \/ Truncate(r) \/ Write(r) \/ WriteFails(r) \/ Drop(r)

Next == (\E r \in Requests : Handler(r)) \/ Crash \/ Restart

Spec == Init /\ [][Next]_vars

----------------------------------------------------------------------------
(* A change that was acknowledged is in its canvas unless another request  *)
(* on the same canvas was at work with it, or the canvas was created anew. *)
(* Requests on other canvases, failed writes and dropped handlers take     *)
(* nothing from it, for save puts back no more than the one canvas; nor    *)
(* does a restart, unless a write had failed, was cut short or went on     *)
(* without its handler.                                                    *)
ChangesKept ==
  up /\ ("crash" \notin lapses \/ lapses = {"crash"}) =>
    \A r \in Requests : pc[r] = "done" /\ met[r] = {} /\ r \notin anew => r \in mem[Id(r)]

(* However requests overlap, and after a restart too, the file has what    *)
(* memory has when nobody writes it, as long as no write fails or goes on  *)
(* without its handler and the API is not killed within one: what is in    *)
(* the list is written before the lock is let go.                          *)
FileInStep ==
  up /\ ~Held /\ lapses \subseteq {"crash"} => file = Holds(mem)
=============================================================================
