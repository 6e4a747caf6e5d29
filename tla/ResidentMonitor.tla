---------------------------- MODULE ResidentMonitor ----------------------------
(***************************************************************************)
(* The monitor of the terminal page (terminal-work-cdp-resident-           *)
(* monitor.cjs).  It keeps a browser on the page and compares, every few   *)
(* seconds, what each card shows with what the API holds for its session.  *)
(* The page may show anything, and every request may fail.                 *)
(***************************************************************************)
EXTENDS Naturals

CONSTANTS
  Sessions,   \* the sessions, each with a card at most
  Title,      \* the title of each: two sessions may have the same
  Drawn,      \* bound: what a card may come to show, <<session, what>>
  Chosen      \* bound: whom the user may address in a card, <<session, session>>

Shows == {"none", "blank", "text"}

(* Assumed wherever this module is used.                                   *)
ResidentAssumption ==
  /\ {Title[s] : s \in Sessions} \cap Sessions = {}
  /\ Drawn \subseteq Sessions \X Shows /\ Chosen \subseteq Sessions \X Sessions

Keys == Sessions \cup {Title[s] : s \in Sessions}

VARIABLES
  pc,       \* what comes next
  once,     \* run with --once
  chrome,   \* none, found, own (started by the monitor), or gone
  api,      \* the sessions for which the server holds text
  dom,      \* what the page shows: no card, a blank card, or text
  target,   \* whom the composer of the card is set to
  seen,     \* what fetchSessions has returned in this cycle: those with text
  before,   \* previousBySession: by id and by title
  old,      \* whether collapseAfterMs have passed since the start
  alarm,    \* the collapses of the sample of this cycle: a session and a code
  latest,   \* the verdict on it: none yet, ok or problem
  shown,    \* ghost: the sessions whose card had text in a sample
  ready,    \* ghost: whether the browser has answered
  exit      \* the exit code

vars == <<pc, once, chrome, api, dom, target, seen, before, old, alarm, latest,
          shown, ready, exit>>

Codes == {"t-plus-collapse", "random-blank-drop"}

TypeOK ==
  /\ pc \in {"start", "wait", "page", "fetch", "look", "sleep", "close", "over"}
  /\ once \in BOOLEAN /\ old \in BOOLEAN /\ ready \in BOOLEAN
  /\ chrome \in {"none", "found", "own", "gone"}
  /\ api \subseteq Sessions /\ seen \subseteq Sessions /\ shown \subseteq Sessions
  /\ dom \in [Sessions -> Shows]
  /\ target \in [Sessions -> Sessions]
  /\ before \in [Keys -> Shows]
  /\ alarm \subseteq Sessions \X Codes
  /\ latest \in {"none", "ok", "problem"} /\ exit \in {0, 1}

Nothing == [s \in Sessions |-> "none"]

Init ==
  /\ pc = "start" /\ once \in BOOLEAN /\ chrome \in {"none", "found"}
  /\ api \in SUBSET Sessions /\ dom = Nothing /\ target = [s \in Sessions |-> s]
  /\ seen = {} /\ before = [k \in Keys |-> "none"] /\ old = FALSE /\ alarm = {}
  /\ latest = "none" /\ shown = {} /\ ready = FALSE /\ exit = 0

page == <<dom, target>>
memory == <<seen, before, alarm, latest, shown>>
fixed == <<once, api, old, ready>>

----------------------------------------------------------------------------
(* THE SERVER, THE PAGE AND ITS USER *)

Server(s) ==
  /\ pc \notin {"close", "over"}
  /\ api' = IF s \in api THEN api \ {s} ELSE api \cup {s}
  /\ UNCHANGED <<pc, once, chrome, page, memory, old, ready, exit>>

Draws(s, v) ==
  /\ pc \in {"fetch", "look", "sleep"} /\ dom[s] # v
  /\ dom' = [dom EXCEPT ![s] = v]
  /\ UNCHANGED <<pc, chrome, target, memory, fixed, exit>>

(* The select of a card's footer, by which the monitor knows the session   *)
(* of the card, is the addressee of its prompts, which the user may change *)
(* in a browser that was found.                                            *)
Retarget(s, t) ==
  /\ pc \in {"fetch", "look", "sleep"} /\ chrome = "found" /\ dom[s] # "none"
  /\ target[s] # t /\ target' = [target EXCEPT ![s] = t]
  /\ UNCHANGED <<pc, chrome, dom, memory, fixed, exit>>

Ages ==
  /\ ~old /\ pc \notin {"close", "over"} /\ old' = TRUE
  /\ UNCHANGED <<pc, once, chrome, api, page, memory, ready, exit>>

----------------------------------------------------------------------------
(* THE MONITOR.                                                            *)
(* Definitions named _Faulty... are plausible mistakes in the definition   *)
(* after them; no specification uses them.                                 *)

(* A browser that answers on the port is used; otherwise one is started.   *)
EnsureChrome ==
  /\ pc = "start"
  /\ IF chrome = "found"
       THEN pc' = "page" /\ ready' = TRUE /\ UNCHANGED chrome
       ELSE pc' = "wait" /\ chrome' = "own" /\ UNCHANGED ready
  /\ UNCHANGED <<page, memory, once, api, old, exit>>

Ready ==
  /\ pc = "wait" /\ pc' = "page" /\ ready' = TRUE
  /\ UNCHANGED <<chrome, page, memory, once, api, old, exit>>

(* This error is not inside the try block: the browser is left behind.     *)
NotReady ==
  /\ pc = "wait" /\ pc' = "over" /\ exit' = 1
  /\ UNCHANGED <<chrome, page, memory, fixed>>

(* The page is found or opened, and loaded again.                          *)
EnsureWorkPage ==
  /\ pc = "page" /\ pc' = "fetch"
  /\ dom' = Nothing /\ target' = [s \in Sessions |-> s]
  /\ UNCHANGED <<chrome, memory, fixed, exit>>

(* A request to the API or to the browser fails or is not answered in      *)
(* time: the monitor ends.                                                 *)
Fails ==
  /\ pc \in {"page", "fetch", "look", "sleep"} /\ pc' = "close" /\ exit' = 1
  /\ UNCHANGED <<chrome, page, memory, fixed>>

(* The first cycle follows the start, each other one a pause.              *)
FetchSessions ==
  /\ pc \in {"fetch", "sleep"} /\ pc' = "look"
  /\ seen' = api /\ alarm' = {} /\ latest' = "none"
  /\ UNCHANGED <<chrome, page, before, shown, fixed, exit>>

Cards == {c \in Sessions : dom[c] # "none"}

Previous(c) == IF before[target[c]] # "none" THEN before[target[c]] ELSE before[Title[c]]

(* Only a card that was seen with text can collapse. *)
Collapsed_FaultyDropOnly(c) ==
  target[c] \in seen /\ dom[c] = "blank" /\ Previous(c) = "text"

Collapsed(c) ==
  target[c] \in seen /\ dom[c] = "blank" /\ (old \/ Previous(c) = "text")

(* The cards are remembered in the order of the page; of two with the same *)
(* key the second stays.                                                   *)
Remembered(b) ==
  \A k \in Keys :
    LET own == {c \in Cards : k \in {target[c], Title[c]}} IN
    IF own = {} THEN b[k] = before[k] ELSE \E c \in own : b[k] = dom[c]

(* The DOM, the screenshot, the console, which may have shown errors, and  *)
(* the verdict on them.                                                    *)
Sample(noise) ==
  /\ pc = "look"
  /\ alarm' = {<<target[c], IF old THEN "t-plus-collapse" ELSE "random-blank-drop">> :
                 c \in {c \in Cards : Collapsed(c)}}
  /\ latest' = (IF noise \/ Cards = {} \/ alarm' # {} THEN "problem" ELSE "ok")
  /\ before' \in [Keys -> Shows] /\ Remembered(before')
  /\ shown' = shown \cup {c \in Cards : dom[c] = "text"}
  /\ seen' = {}
  /\ pc' = IF once THEN "close" ELSE "sleep"
  /\ UNCHANGED <<chrome, page, fixed, exit>>

(* A signal only ends the loop between two cycles.                         *)
Stop ==
  /\ pc = "sleep" /\ pc' = "close"
  /\ UNCHANGED <<chrome, page, memory, fixed, exit>>

(* The finally block: only a browser of its own, and only after --once.    *)
Finally ==
  /\ pc = "close" /\ pc' = "over"
  /\ chrome' = IF once /\ chrome = "own" THEN "gone" ELSE chrome
  /\ UNCHANGED <<page, memory, fixed, exit>>

Step ==
  \/ EnsureChrome \/ Ready \/ NotReady \/ EnsureWorkPage \/ FetchSessions
  \/ (\E noise \in BOOLEAN : Sample(noise)) \/ Finally

World ==
  \/ \E s \in Sessions : Server(s)
  \/ \E p \in Drawn : Draws(p[1], p[2])
  \/ \E p \in Chosen : Retarget(p[1], p[2])

Next == Step \/ World \/ Fails \/ Stop \/ Ages

Spec == Init /\ [][Next]_vars
FairSpec == Spec /\ WF_vars(Step) /\ WF_vars(Ages)

----------------------------------------------------------------------------
(* PROPERTIES *)

(* An early alarm, of a card that went blank, is raised only for a session *)
(* whose card has shown text before, or a card of the same title has,      *)
(* where no user addresses the cards to other sessions.                    *)
DropHasShown ==
  chrome = "own" => \A a \in alarm :
    a[2] = "random-blank-drop" => \E s \in shown : Title[s] = Title[a[1]]

(* A browser that was found is left alone, and one that was started for a  *)
(* single sample is closed, unless it never answered.                      *)
BrowserAsFound ==
  /\ chrome = "gone" => once
  /\ pc = "over" /\ once /\ ready => chrome # "own"

(* A card that stays blank although the server has text for it is reported *)
(* again and again, as long as the monitor runs.                           *)
CollapseIsReported ==
  \A s \in Sessions :
    <>[](s \in api /\ dom[s] = "blank" /\ target[s] = s
         /\ pc \in {"fetch", "look", "sleep"})
      => []<>(\E code \in Codes : <<s, code>> \in alarm)
=============================================================================
