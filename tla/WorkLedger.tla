------------------------------ MODULE WorkLedger ------------------------------
(***************************************************************************)
(* The work ledger: a document held in memory (WorkLedgerStore.ledger) and *)
(* in a file.  A handler (upsert_work_task, add_work_task_event) copies    *)
(* the document, edits the copy, writes the copy to the file and then puts *)
(* it in memory; no lock is held from one of these steps to the next.      *)
(* The API may be killed at any time, and starts from the file again.      *)
(*                                                                         *)
(* A document is the sequence of the edits made to the default one: every  *)
(* request edits a task or adds an event, and is remembered by its name.   *)
(***************************************************************************)
EXTENDS Naturals, SequencesExt

CONSTANTS
  Requests,   \* each is made once
  Tasks,      \* ids of tasks that the default ledger does not have
  Faults      \* what else happens: "crash", "write", "drop"

ASSUME LedgerAssumption == Faults \subseteq {"crash", "write", "drop"}

VARIABLES
  mem,     \* the document in memory
  file,    \* the file
  up,      \* the API runs
  pc,      \* the handler of each request
  edit,    \* what each request asks for
  copy,    \* the copy each handler holds
  gone,    \* requests whose handler was dropped while it wrote
  lapses   \* history: "overlap" of two requests, "crash", "torn" write

vars == <<mem, file, up, pc, edit, copy, gone, lapses>>

Begun == {"truncate", "write", "publish"}

Running == {r \in Requests \ gone : pc[r] \in Begun}

(* A file holds a document, nothing (it was truncated), or the rest of one *)
(* document behind another.                                                *)
Holds(doc) == [readable |-> TRUE, doc |-> doc]
Empty == [readable |-> FALSE, doc |-> <<>>]
Mixed(doc) == [readable |-> FALSE, doc |-> doc]

(* The type invariant.  A document has each edit once, and a handler that  *)
(* runs holds a copy that ends in its own.                                 *)
TypeOK ==
  /\ mem \in Seq(Requests) /\ file.doc \in Seq(Requests) /\ IsInjective(mem)
  /\ {file.readable, up} \subseteq BOOLEAN
  /\ lapses \subseteq {"overlap", "crash", "torn"}
  /\ gone \subseteq {r \in Requests : pc[r] \in {"truncate", "write", "failed"}}
  /\ \A r \in Requests :
       /\ pc[r] \in Begun \cup {"new", "done", "failed"}
       /\ edit[r] \in {"task", "event"} \X (Tasks \cup {"default"})
       /\ copy[r] \in Seq(Requests)
       /\ pc[r] \in Begun => up /\ Last(copy[r]) = r

Init ==
  /\ mem = <<>> /\ file = Holds(<<>>) /\ up = TRUE
  /\ pc = [r \in Requests |-> "new"]
  /\ edit = [r \in Requests |-> <<"task", "default">>]
  /\ copy = [r \in Requests |-> <<>>]
  /\ gone = {} /\ lapses = {}

----------------------------------------------------------------------------
(* Definitions named _Faulty... are plausible mistakes in the definition   *)
(* after them; no specification uses them.                                 *)

HasTask(doc, t) ==
  t = "default" \/ \E n \in DOMAIN doc : edit[doc[n]] = <<"task", t>>

(* The handler is asked for the edit ed and edits a copy of the document.  *)
(* An event on a task that the copy lacks is refused, a task that it lacks *)
(* is created.                                                             *)
BeginWith(r, ed, refused) ==
  /\ edit' = [edit EXCEPT ![r] = ed]
  /\ IF refused
     THEN pc' = [pc EXCEPT ![r] = "failed"] /\ UNCHANGED copy
     ELSE /\ pc' = [pc EXCEPT ![r] = "truncate"]
          /\ copy' = [copy EXCEPT ![r] = Append(mem, r)]

Edits == {"task", "event"} \X (Tasks \cup {"default"})

(* A request that comes while another is at work, or while the write of a  *)
(* dropped one is, overlaps it.                                            *)
Arrive(r) ==
  /\ up /\ pc[r] = "new"
  /\ lapses' = lapses \cup {"overlap" : q \in {q \in Requests : pc[q] \in Begun}}

(* Memory has the edit at once, the file later. *)
Begin_FaultyInPlace(r) ==
  /\ Arrive(r)
  /\ \E ed \in Edits :
       BeginWith(r, ed, ed[1] = "event" /\ ~HasTask(mem, ed[2]))
  /\ mem' = copy'[r]
  /\ UNCHANGED <<file, up, gone>>

Begin(r) ==
  /\ Arrive(r)
  /\ \E ed \in Edits :
       BeginWith(r, ed, ed[1] = "event" /\ ~HasTask(mem, ed[2]))
  /\ UNCHANGED <<mem, file, up, gone>>

(* fs::write, on a thread of its own, opens the file and truncates it,     *)
(* then writes it from its start on.  What another write has put there in  *)
(* between is overwritten as far as the new document reaches.              *)
Truncate(r) ==
  /\ pc[r] = "truncate"
  /\ file' = Empty
  /\ pc' = [pc EXCEPT ![r] = "write"]
  /\ UNCHANGED <<mem, up, edit, copy, gone, lapses>>

Over(old, doc) ==
  {Holds(doc)} \cup {Mixed(doc) : f \in {old} \ {Empty, Holds(doc)}}

AfterWrite(r) == IF r \in gone THEN "failed" ELSE "publish"

Write(r) ==
  /\ pc[r] = "write"
  /\ file' \in Over(file, copy[r])
  /\ pc' = [pc EXCEPT ![r] = AfterWrite(r)]
  /\ UNCHANGED <<mem, up, edit, copy, gone, lapses>>

(* Memory is read back from the file, to be in step with it. *)
WriteFails_FaultyReloads(r) ==
  /\ "write" \in Faults /\ pc[r] = "write"
  /\ pc' = [pc EXCEPT ![r] = "failed"]
  /\ lapses' = lapses \cup {"torn"} /\ mem' = file.doc
  /\ UNCHANGED <<file, up, edit, copy, gone>>

(* The disk is full, say: the handler answers an error, and the file stays *)
(* as the truncation left it.                                              *)
WriteFails(r) ==
  /\ "write" \in Faults /\ pc[r] = "write"
  /\ pc' = [pc EXCEPT ![r] = "failed"]
  /\ lapses' = lapses \cup {"torn"}
  /\ UNCHANGED <<mem, file, up, edit, copy, gone>>

(* The copy is added to the document in memory. *)
Publish_FaultyAppends(r) ==
  /\ pc[r] = "publish"
  /\ mem' = mem \o copy[r]
  /\ pc' = [pc EXCEPT ![r] = "done"]
  /\ UNCHANGED <<file, up, edit, copy, gone, lapses>>

(* The copy replaces the document in memory, and the request is answered.  *)
Publish(r) ==
  /\ pc[r] = "publish"
  /\ mem' = copy[r]
  /\ pc' = [pc EXCEPT ![r] = "done"]
  /\ UNCHANGED <<file, up, edit, copy, gone, lapses>>

(* The client closes its connection and the handler is dropped where it    *)
(* waits; a write that it has started goes on without it.                  *)
Drop(r) ==
  /\ "drop" \in Faults /\ r \in Running
  /\ IF pc[r] = "publish"
     THEN pc' = [pc EXCEPT ![r] = "failed"] /\ UNCHANGED gone
     ELSE gone' = gone \cup {r} /\ UNCHANGED pc
  /\ UNCHANGED <<mem, file, up, edit, copy, lapses>>

Crash ==
  /\ "crash" \in Faults /\ up
  /\ up' = FALSE
  /\ pc' = [r \in Requests |-> IF pc[r] \in Begun THEN "failed" ELSE pc[r]]
  /\ lapses' = lapses \cup {"crash"} \cup {"torn" : r \in {r \in Requests : pc[r] = "write"}}
  /\ UNCHANGED <<mem, file, edit, copy, gone>>

(* WorkLedgerStore::new: a file that is no ledger counts for the default   *)
(* one.  One that is no text, for it was cut inside a character, keeps the *)
(* API from starting: nothing says that this step is ever taken.           *)
Restart ==
  /\ ~up
  /\ up' = TRUE
  /\ mem' = IF file.readable THEN file.doc ELSE <<>>
  /\ UNCHANGED <<file, pc, edit, copy, gone, lapses>>

----------------------------------------------------------------------------
Handler(r) ==
  Begin(r) \/ Truncate(r) \/ Write(r) \/ WriteFails(r) \/ Publish(r) \/ Drop(r)

Next == (\E r \in Requests : Handler(r)) \/ Crash \/ Restart

Spec == Init /\ [][Next]_vars

----------------------------------------------------------------------------
Acknowledged == {r \in Requests : pc[r] = "done"}

(* As long as requests come one at a time and the API is not killed, the   *)
(* document in memory is a log, to whose end an acknowledged request has   *)
(* added its edit once and at once, and a failed or abandoned one nothing. *)
Log == INSTANCE EditLog WITH edits <- mem, broken <- lapses \cap {"overlap", "crash"} # {}

IsALog == Log!Spec

(* One request at a time, with crashes anywhere: unless a write is under   *)
(* way or was cut short, the file can be read and has every edit that was  *)
(* acknowledged or that anybody could read: persist comes before the       *)
(* assignment to the ledger in WorkLedgerStore::save.                      *)
LossOnlyByTornWrite ==
  lapses \cap {"overlap", "torn"} = {} /\ (\A r \in Requests : pc[r] # "write") =>
     file.readable /\ Acknowledged \cup ToSet(mem) \subseteq ToSet(file.doc)

(* Whatever runs at once and whatever is lost, the ledger never has an     *)
(* event without the task it is about (add_event_usecase looks for the     *)
(* task in the copy that it edits).                                        *)
EventsHaveTasks ==
  \A n \in DOMAIN mem :
     edit[mem[n]][1] = "event" => HasTask(SubSeq(mem, 1, n - 1), edit[mem[n]][2])

(* What is acknowledged is lost by overlaps and torn writes only, and no   *)
(* event loses its task even then.                                         *)
LedgerSound == LossOnlyByTornWrite /\ EventsHaveTasks

(* "Work ledger and command ledger survive restart and remain readable"    *)
(* (docs/portable-release-plan-20260602.md): while the API is down its     *)
(* file is readable and has what was acknowledged.  The file is truncated  *)
(* and written in place, and a crash between the two leaves nothing.       *)
SurvivesRestart == ~up => file.readable /\ Acknowledged \subseteq ToSet(file.doc)
=============================================================================
