------------------------------- MODULE PageData -------------------------------
(***************************************************************************)
(* How a page of the web application keeps up with the server (main.tsx).  *)
(* ShellApp and TerminalPopoutPage fetch the tables they show every 2.5 s, *)
(* after what the user does and, in the shell, on an event of the terminal *)
(* socket.  Only one fetch is in flight, and none is begun while a         *)
(* composer is in use: it is put off until the last composer is idle.      *)
(*                                                                         *)
(* Each table is a number, that of its last change.                        *)
(***************************************************************************)
EXTENDS Integers

CONSTANTS
  Composers,   \* the composers of the page
  MaxChanges   \* bound: changes of a table

(* Assumed wherever this module is used.                                   *)
PageAssumption == MaxChanges \in Nat

Tables == {"sessions", "canvases"}
Flights == {1, 2}
NoFlight == 0
Unread == -1

VARIABLES
  page,      \* shell or popout
  truth,     \* the tables of the server
  shown,     \* what the page shows
  flights,   \* the fetches under way: what each has read
  ref,       \* refreshInFlightRef
  told,      \* the fetches whose failure will be shown as an error
  error,     \* whether the page shows an error
  active,    \* activeTerminalComposerKeys
  pending,   \* pendingRefreshRef
  woken,     \* the composers have changed since the last effect
  socket,    \* whether the terminal socket is open
  event,     \* whether an event is on its way
  acting     \* a change made by the user that has yet to be answered

vars == <<page, truth, shown, flights, ref, told, error, active, pending, woken, socket, event, acting>>

(* What the page fetches.                                                  *)
Fetched == IF page = "shell" THEN Tables ELSE {"sessions"}

NotBegun == [t \in Tables |-> -2]
Begun == [t \in Tables |-> IF t \in Fetched THEN Unread ELSE -2]

TypeOK ==
  /\ page \in {"shell", "popout"}
  /\ truth \in [Tables -> 0 .. MaxChanges] /\ shown \in [Tables -> 0 .. MaxChanges]
  /\ flights \in [Flights -> [Tables -> -2 .. MaxChanges]]
  /\ ref \in Flights \cup {NoFlight} /\ told \subseteq Flights
  /\ active \subseteq Composers
  /\ {error, pending, woken, socket, event, acting} \subseteq BOOLEAN

(* The page is opened, and begins its first fetch; a popout that finds the *)
(* draft of its composer puts it off.                                      *)
Init ==
  /\ page \in {"shell", "popout"}
  /\ truth = [t \in Tables |-> 0] /\ shown = truth /\ error = FALSE
  /\ \/ /\ ref = 1 /\ told = {1} /\ active = {} /\ pending = FALSE
        /\ flights = [f \in Flights |-> IF f = 1 THEN Begun ELSE NotBegun]
     \/ /\ page = "popout"
        /\ ref = NoFlight /\ told = {} /\ active = Composers /\ pending = TRUE
        /\ flights = [f \in Flights |-> NotBegun]
  /\ woken = FALSE
  /\ socket = (page = "shell") /\ event = FALSE /\ acting = FALSE

data == <<page, truth, shown, error>>
fetching == <<flights, ref, told, pending>>

----------------------------------------------------------------------------
(* THE PAGE.                                                               *)
(* Definitions named _Faulty... are plausible mistakes in the definition   *)
(* after them; no specification uses them.                                 *)

Begin ==
  \E f \in Flights :
    /\ flights[f] = NotBegun
    /\ flights' = [flights EXCEPT ![f] = Begun] /\ ref' = f

(* A fetch is begun although another is in flight. *)
Refresh_FaultyOverlap(force) ==
  IF ~force /\ active # {}
  THEN pending' = TRUE /\ UNCHANGED <<flights, ref>>
  ELSE IF \A f \in Flights : flights[f] # NotBegun
  THEN UNCHANGED <<flights, ref, pending>>
  ELSE Begin /\ UNCHANGED pending

(* refresh: a caller that finds a fetch in flight waits for that one, which *)
(* may have read the tables before the caller's change.  Most callers do   *)
(* not care whether it fails.                                              *)
Refresh(force) ==
  IF ~force /\ active # {}
  THEN pending' = TRUE /\ UNCHANGED <<flights, ref>>
  ELSE IF ref # NoFlight
  THEN UNCHANGED <<flights, ref, pending>>
  ELSE Begin /\ UNCHANGED pending

Tick ==
  /\ Refresh(FALSE)
  /\ UNCHANGED <<data, told, active, woken, socket, event, acting>>

OnEvent ==
  /\ event /\ event' = FALSE /\ Refresh(FALSE)
  /\ UNCHANGED <<data, told, active, woken, socket, acting>>

(* The server answers one of the requests of a fetch.                      *)
Reads(f, t) ==
  /\ flights[f][t] = Unread
  /\ flights' = [flights EXCEPT ![f][t] = truth[t]]
  /\ UNCHANGED <<data, ref, told, active, pending, woken, socket, event, acting>>

Over(f) ==
  /\ flights' = [flights EXCEPT ![f] = NotBegun] /\ told' = told \ {f}
  /\ ref' = IF ref = f THEN NoFlight ELSE ref

(* The page shows the tables as soon as one of them is there. *)
Lands_FaultyRace(f) ==
  /\ flights[f] # NotBegun /\ \E t \in Fetched : flights[f][t] # Unread
  /\ shown' = [t \in Tables |-> IF t \in Fetched THEN flights[f][t] ELSE shown[t]]
  /\ pending' = FALSE /\ Over(f)
  /\ UNCHANGED <<page, truth, error, active, woken, socket, event, acting>>

(* Promise.all: what was put off while the fetch was under way counts as   *)
(* done.                                                                   *)
Lands(f) ==
  /\ flights[f] # NotBegun /\ \A t \in Fetched : flights[f][t] # Unread
  /\ shown' = [t \in Tables |-> IF t \in Fetched THEN flights[f][t] ELSE shown[t]]
  /\ pending' = FALSE /\ Over(f)
  /\ UNCHANGED <<page, truth, error, active, woken, socket, event, acting>>

(* The page does not forget a fetch that has failed. *)
Fails_FaultyKeepsRef(f) ==
  /\ flights[f] # NotBegun
  /\ flights' = [flights EXCEPT ![f] = NotBegun]
  /\ error' = (error \/ f \in told) /\ told' = told \ {f}
  /\ UNCHANGED <<page, truth, shown, ref, active, pending, woken, socket, event, acting>>

(* One of the requests fails: nothing of the fetch is shown, and its error *)
(* if a caller asked for it.  Nothing takes an error away.                 *)
Fails(f) ==
  /\ flights[f] # NotBegun /\ Over(f)
  /\ error' = (error \/ f \in told)
  /\ UNCHANGED <<page, truth, shown, active, pending, woken, socket, event, acting>>

(* A composer with the focus, with a text or with a send under way.        *)
Compose(c) ==
  /\ active' = IF c \in active THEN active \ {c} ELSE active \cup {c}
  /\ woken' = TRUE
  /\ UNCHANGED <<data, fetching, socket, event, acting>>

(* The effect on the composers: the error of the fetch that it waits for   *)
(* is shown, as that of the first is.                                      *)
Effect ==
  /\ woken /\ woken' = FALSE
  /\ IF active = {} /\ pending THEN Refresh(TRUE) /\ told' = told \cup {ref'}
                             ELSE UNCHANGED fetching
  /\ UNCHANGED <<data, active, socket, event, acting>>

----------------------------------------------------------------------------
(* THE SERVER AND ITS USERS *)

(* Any session or canvas is created, changed or deleted.  What happens to  *)
(* a session is announced on the socket.                                   *)
Changes(t) ==
  /\ truth[t] < MaxChanges
  /\ truth' = [truth EXCEPT ![t] = @ + 1]
  /\ event' = (event \/ (socket /\ t = "sessions"))

Change(t) ==
  /\ Changes(t)
  /\ UNCHANGED <<page, shown, error, fetching, active, woken, socket, acting>>

(* The user creates or stops a session, sends a prompt, saves a canvas.    *)
Act(t) ==
  /\ t \in Fetched /\ ~acting /\ Changes(t) /\ acting' = TRUE
  /\ UNCHANGED <<page, shown, error, fetching, active, woken, socket>>

(* The answer: onChanged, which the popout forces.                         *)
Acted ==
  /\ acting /\ acting' = FALSE /\ Refresh(page = "popout")
  /\ UNCHANGED <<data, told, active, woken, socket, event>>

(* The socket is never opened again.                                       *)
SocketCloses ==
  /\ socket /\ socket' = FALSE /\ event' = FALSE
  /\ UNCHANGED <<data, fetching, active, woken, acting>>

Answers == \E f \in Flights : Lands(f) \/ \E t \in Tables : Reads(f, t)

Next ==
  \/ Tick \/ OnEvent \/ Effect \/ Acted \/ SocketCloses
  \/ (\E f \in Flights : Fails(f) \/ Lands(f) \/ \E t \in Tables : Reads(f, t))
  \/ (\E c \in Composers : Compose(c))
  \/ (\E t \in Tables : Change(t) \/ Act(t))

Spec == Init /\ [][Next]_vars

(* The interval goes on as long as the page is open, and each request is   *)
(* answered or fails.                                                      *)
FairSpec == Spec /\ WF_vars(Tick) /\ WF_vars(Answers)

----------------------------------------------------------------------------
(* PROPERTIES *)

(* The page never goes back to a table older than the one it shows,        *)
(* although it is refreshed by a timer, by events and after each action.   *)
NeverGoesBack ==
  [][\A t \in Tables : shown'[t] >= shown[t]]_vars

(* An error stands on the popout in place of the terminal, and on the      *)
(* shell beside it.                                                        *)
Sees(t) == IF page = "popout" /\ error THEN Unread ELSE shown[t]

(* A page whose composers are left alone and whose requests do not fail    *)
(* for ever holds, from some time on, what the server has, whatever was    *)
(* put off, failed or missed before, and shows it: but for a popout whose  *)
(* first fetch has failed, or one that was made when its composers became  *)
(* idle.  That shows the error for good, although later fetches succeed.   *)
CatchesUp ==
  <>[](active = {}) /\ <>[][\A f \in Flights : ~Fails(f)]_vars
    => /\ <>[](\A t \in Fetched : shown[t] = truth[t])
       /\ <>[](\A t \in Fetched : Sees(t) = truth[t]) \/ (page = "popout" /\ <>error)
=============================================================================
