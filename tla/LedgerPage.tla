------------------------------ MODULE LedgerPage ------------------------------
(***************************************************************************)
(* The work ledger's page (WorkLedgerPage of main.tsx).  It shows what the *)
(* user does at once, sends it, and loads the ledger again afterwards; it  *)
(* loads the ledger every 15 s as well, so that loads may overlap.  Others *)
(* change the ledger too.  One task is modelled: its status, which the     *)
(* user sets, and the number of its notes.                                 *)
(***************************************************************************)
EXTENDS Naturals

CONSTANTS
  Statuses,   \* the status of the task
  MaxNotes    \* bound: notes added

(* Assumed wherever this module is used.                                   *)
LedgerAssumption == MaxNotes \in Nat

Slots == {1, 2}          \* bound: loads under way, and edits under way
None == [is |-> "none"]

VARIABLES
  ledger,   \* the task as the server has it
  row,      \* the status that the page shows
  notes,    \* the notes that the page shows
  ready,    \* apiReady
  loads,    \* the loads under way
  edits,    \* the edits under way
  stale     \* ghost: the server has changed since a load last read it

vars == <<ledger, row, notes, ready, loads, edits, stale>>

Ledgers == [status : Statuses, notes : 0 .. MaxNotes]

Asked == [is |-> "asked"]
Read(l) == [is |-> "read", read |-> l]
Edit(is, status) == [is |-> is, status |-> status]   \* a note has no status

Init ==
  /\ ledger \in [status : Statuses, notes : {0}]
  /\ row \in Statuses /\ notes = 0   \* the fallback tasks
  /\ ready = FALSE /\ stale = TRUE
  /\ loads = [n \in Slots |-> IF n = 1 THEN Asked ELSE None]
  /\ edits = [n \in Slots |-> None]

TypeOK ==
  /\ ledger \in Ledgers /\ row \in Statuses /\ notes \in 0 .. 2 * MaxNotes
  /\ ready \in BOOLEAN /\ stale \in BOOLEAN
  /\ \A n \in Slots :
       /\ loads[n] \in {None, Asked} \cup {Read(l) : l \in Ledgers}
       /\ edits[n] = None \/ edits[n].is \in {"posted", "done", "failed"}

shown == <<row, notes, ready>>

----------------------------------------------------------------------------
(* THE PAGE *)

BeginLoad ==
  \E n \in Slots : loads[n] = None /\ loads' = [loads EXCEPT ![n] = Asked]

Timer ==
  /\ BeginLoad
  /\ UNCHANGED <<ledger, shown, edits, stale>>

Reads(n) ==
  /\ loads[n].is = "asked"
  /\ loads' = [loads EXCEPT ![n] = Read(ledger)]
  /\ stale' = FALSE
  /\ UNCHANGED <<ledger, shown, edits>>

(* loadLedger: whatever the page shows is replaced.                        *)
Lands(n) ==
  /\ loads[n].is = "read"
  /\ row' = loads[n].read.status /\ notes' = loads[n].read.notes
  /\ ready' = TRUE /\ loads' = [loads EXCEPT ![n] = None]
  /\ UNCHANGED <<ledger, edits, stale>>

(* The tasks stay as they are and the notes go.                            *)
LoadFails(n) ==
  /\ loads[n] # None
  /\ notes' = 0 /\ ready' = FALSE /\ loads' = [loads EXCEPT ![n] = None]
  /\ UNCHANGED <<ledger, row, edits, stale>>

Post(status) ==
  \E n \in Slots : edits[n] = None /\ edits' = [edits EXCEPT ![n] = Edit("posted", status)]

(* updateTaskStatus shows the new status before the server has it.         *)
SetStatus(s) ==
  /\ s # row /\ row' = s /\ Post(s)
  /\ UNCHANGED <<ledger, notes, ready, loads, stale>>

(* addTaskNote.                                                            *)
AddNote ==
  /\ ledger.notes < MaxNotes /\ notes < 2 * MaxNotes
  /\ notes' = notes + 1 /\ Post("note")
  /\ UNCHANGED <<ledger, row, ready, loads, stale>>

Answered(n) ==
  /\ edits[n].is = "done" /\ BeginLoad
  /\ edits' = [edits EXCEPT ![n] = None]
  /\ UNCHANGED <<ledger, shown, stale>>

(* What was shown at once is not taken back.                               *)
EditFails(n) ==
  /\ edits[n] # None
  /\ edits' = [edits EXCEPT ![n] = None] /\ ready' = FALSE
  /\ UNCHANGED <<ledger, row, notes, loads, stale>>

----------------------------------------------------------------------------
(* THE SERVER *)

With(status) ==
  IF status = "note" THEN [ledger EXCEPT !.notes = IF @ < MaxNotes THEN @ + 1 ELSE @]
  ELSE [ledger EXCEPT !.status = status]

Applies(n) ==
  /\ edits[n].is = "posted"
  /\ ledger' = With(edits[n].status) /\ stale' = TRUE
  /\ edits' = [edits EXCEPT ![n].is = "done"]
  /\ UNCHANGED <<shown, loads>>

(* An agent changes the ledger.                                            *)
Others(status) ==
  /\ ledger' = With(status) /\ ledger' # ledger /\ stale' = TRUE
  /\ UNCHANGED <<shown, loads, edits>>

Faults == \E n \in Slots : LoadFails(n) \/ EditFails(n)
People ==
  \/ \E s \in Statuses : SetStatus(s) \/ Others(s)
  \/ AddNote \/ Others("note")
Requests == \E n \in Slots : Reads(n) \/ Lands(n) \/ Answered(n) \/ Applies(n)

Next == Timer \/ People \/ Requests \/ Faults

Spec == Init /\ [][Next]_vars

(* The interval goes on, and each request is answered or fails.            *)
FairSpec == Spec /\ WF_vars(Timer) /\ WF_vars(Requests)

----------------------------------------------------------------------------
(* PROPERTIES *)

Quiet == \A n \in Slots : loads[n] = None /\ edits[n] = None

(* A page that says it is in sync, with nothing under way and nothing      *)
(* changed since it was loaded, shows the ledger; it rests on loads that   *)
(* do not overlap.  Of two that do, the older may come last.               *)
OneLoadAtATime == \E n \in Slots : loads[n] = None

SyncedIsTrue ==
  []OneLoadAtATime =>
    [](Quiet /\ ready /\ ~stale => row = ledger.status /\ notes = ledger.notes)

(* Once nobody changes the ledger and nothing fails any more, the page     *)
(* shows the ledger, whatever it has shown too early or taken back.        *)
Settles ==
  <>[][~People /\ ~Faults]_vars =>
    <>[](row = ledger.status /\ notes = ledger.notes /\ ready)
=============================================================================
