-------------------------------- MODULE WebApp --------------------------------
(***************************************************************************)
(* The parts of the web application: how a page keeps up with the server,  *)
(* the page of the work ledger, the view of a terminal, and what the shell *)
(* shows and remembers.  App opens one page, and what its parts tell each  *)
(* other (rows, previews) changes at any time in the module of the one     *)
(* that is told.  A state is therefore that of one part: what its          *)
(* variables mean is in its module, those of the others rest.              *)
(***************************************************************************)
EXTENDS Naturals, Sequences

CONSTANTS
  Composers, MaxChanges,        \* PageData
  Statuses, MaxNotes,           \* LedgerPage
  Variants, MaxOut,             \* TerminalView
  Views, Layouts, Ids, Filters, Shows,  \* ShellState
  Unused

VARIABLES
  part, ref,
  page, truth, shown, flights, told, error, active, pending, woken, socket, event, acting,
  ledger, row, notes, ready, loads, edits, stale,
  variant, out, preview, conn, timer, queue, screen, seeded, seed, got,
  view, filter, layout, selected, rows, live, deferred, url, store, skip, dirty

P == INSTANCE PageData
L == INSTANCE LedgerPage
T == INSTANCE TerminalView
S == INSTANCE ShellState

ASSUME WebAppAssumption ==
  P!PageAssumption /\ L!LedgerAssumption /\ T!ViewAssumption /\ S!StateAssumption

ofData ==
  <<page, truth, shown, flights, told, error, active, pending, woken, socket, event, acting>>
ofLedger == <<ledger, row, notes, ready, loads, edits, stale>>
ofView == <<variant, out, preview, conn, timer, queue, screen, seeded, seed, got>>
ofShell == <<view, filter, layout, selected, rows, live, deferred, url, store, skip, dirty>>
vars == <<part, ref, ofData, ofLedger, ofView, ofShell>>

DataRests ==
  /\ page = Unused /\ truth = [t \in P!Tables |-> 0] /\ shown = truth
  /\ flights = [f \in P!Flights |-> P!NotBegun] /\ told = {} /\ error = FALSE /\ active = {}
  /\ pending = FALSE /\ woken = FALSE /\ socket = FALSE /\ event = FALSE /\ acting = FALSE
LedgerRests ==
  /\ ledger = [status |-> Unused, notes |-> 0] /\ row = Unused /\ notes = 0 /\ ready = FALSE
  /\ loads = [n \in L!Slots |-> L!None] /\ edits = loads /\ stale = FALSE
ViewRests ==
  /\ variant = Unused /\ out = 0 /\ preview = 0 /\ conn = Unused /\ timer = FALSE
  /\ queue = <<>> /\ screen = {} /\ seeded = FALSE /\ seed = 0 /\ got = {}
ShellRests ==
  /\ view = Unused /\ filter = Unused /\ layout = Unused /\ selected = Unused
  /\ rows = {} /\ live = {} /\ deferred = {} /\ url = Unused /\ store = Unused
  /\ skip = FALSE /\ dirty = TRUE

Init ==
  \/ part = "data" /\ P!Init /\ LedgerRests /\ ViewRests /\ ShellRests
  \/ part = "ledger" /\ L!Init /\ ref = Unused /\ DataRests /\ ViewRests /\ ShellRests
  \/ part = "view" /\ T!Init /\ DataRests /\ LedgerRests /\ ShellRests
  \/ part = "shell" /\ S!Init /\ ref = Unused /\ DataRests /\ LedgerRests /\ ViewRests

StillData == part = "data" /\ UNCHANGED <<part, ofLedger, ofView, ofShell>>
StillLedger == part = "ledger" /\ UNCHANGED <<part, ref, ofData, ofView, ofShell>>
StillView == part = "view" /\ UNCHANGED <<part, ofData, ofLedger, ofShell>>
StillShell == part = "shell" /\ UNCHANGED <<part, ref, ofData, ofLedger, ofView>>

Next ==
  \/ StillData /\ P!Next
  \/ StillLedger /\ L!Next
  \/ StillView /\ T!Next
  \/ StillShell /\ S!Next

Spec == Init /\ [][Next]_vars

(* Intervals go on, and requests are answered or fail.                     *)
FairSpec ==
  /\ Spec
  /\ WF_vars((StillData /\ P!Tick) \/ (StillLedger /\ L!Timer))
  /\ WF_vars(\/ StillData /\ P!Answers
             \/ StillLedger /\ L!Requests
             \/ StillView /\ T!Works)

----------------------------------------------------------------------------
(* PROPERTIES *)

(* Each part's state is well typed.                                        *)
TypeOK ==
  /\ part \in {"data", "ledger", "view", "shell"}
  /\ part = "data" => P!TypeOK
  /\ part = "ledger" => L!TypeOK
  /\ part = "view" => T!TypeOK
  /\ part = "shell" => S!TypeOK

(* A table on the page is never replaced by an older one (PageData).       *)
NeverGoesBack ==
  [][part = "data" => \A t \in P!Tables : shown'[t] >= shown[t]]_vars

(* Whatever was put off, failed or missed, the tables, the ledger and the  *)
(* terminals on the page are in the end those of the server; and a ledger  *)
(* page that says it is in sync is, if its loads do not overlap.           *)
PagesCatchUp ==
  /\ part = "data" => P!CatchesUp
  /\ part = "ledger" => L!Settles /\ L!SyncedIsTrue
  /\ part = "view" => T!ComesBack

(* A terminal with a snapshot shows all that it has received, and a page   *)
(* that is loaded again shows what it showed (TerminalView, ShellState).   *)
ViewsKeepState ==
  /\ part = "view" => T!ShowsWhatCame
  /\ part = "shell" => S!ReloadRestores /\ S!SelectionExists
=============================================================================
