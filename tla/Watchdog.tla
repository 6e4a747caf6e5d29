------------------------------- MODULE Watchdog -------------------------------
(***************************************************************************)
(* The stuck input watchdog (terminal-stuck-input-watchdog.cjs).  It looks *)
(* at the screens of the sessions once a second, and presses Enter for a   *)
(* prompt that has been left in the input line for longer than             *)
(* thresholdMs.  What it knows of a screen it keeps in a file between two  *)
(* looks.  The screens change while it looks: the sessions are listed once *)
(* in a tick, every request that follows takes time, and an answer may be  *)
(* an error, which ends the process.                                       *)
(***************************************************************************)
EXTENDS Naturals, FiniteSets

CONSTANTS
  Agents,       \* ids of sessions
  Protected,    \* ceo, developer-7
  Operational,  \* texts of agents: [REPORT], ACK, item=...
  Directives,   \* texts of the system that ask for an answer
  Notices,      \* any other text in an input line
  Typed,        \* bound: what is typed where, <<agent, text>>
  Steady        \* bound: sessions that are always listed

Texts == Operational \cup Directives \cup Notices

(* "gone": not listed.  "quiet": whatever makes the watchdog forget a      *)
(* session, that is exited, working, an empty line or an idle template.    *)
Screens == {"gone", "quiet"} \cup Texts

(* Assumed wherever this module is used.                                   *)
WatchdogAssumption ==
  /\ Protected \subseteq Agents /\ Steady \subseteq Agents /\ Typed \subseteq Agents \X Texts
  /\ Operational \cap Directives = {} /\ Notices \cap (Operational \cup Directives) = {}
  /\ {"gone", "quiet", "none"} \cap Texts = {}

VARIABLES
  screen,   \* what the screen of each session shows
  pc,       \* where the watchdog is
  mem,      \* state.sessions and state.anomalies
  file,     \* what the state file holds
  listing,  \* the sessions of this tick that it has not looked at yet
  at,       \* the session of the Enter under way
  before,   \* what submitEnter has read before it
  pressed,  \* Enters for the text now on each screen
  lapsed,   \* sessions whose Enter is forgotten
  retyped   \* sessions whose text the memory has as submitted

memory == <<mem, file>>
look == <<listing, at, before>>
ghosts == <<pressed, lapsed, retyped>>
vars == <<screen, pc, memory, look, ghosts>>

(* What is known of a session: the fingerprint of its text, whether it has *)
(* been there for the threshold, and when it was submitted or alerted.  A  *)
(* text says which of the two records of a session it is.                  *)
Fresh(t) == [text |-> t, ripe |-> FALSE, sent |-> "never"]
Nothing == [a \in Agents |-> Fresh("none")]
NoListing == [a \in Agents |-> "gone"]
todo == {a \in Agents : listing[a] \notin {"gone", "seen"}}

TypeOK ==
  /\ screen \in [Agents -> Screens] /\ listing \in [Agents -> Screens \cup {"seen"}]
  /\ pc \in {"down", "sleep", "loop", "read", "press", "check", "fallback", "refused"}
  /\ \A m \in {mem, file} :
       m \in [Agents -> [text : Texts \cup {"none"}, ripe : BOOLEAN,
                         sent : {"never", "recent", "old"}]]
  /\ at \in Agents /\ before \in Screens
  /\ pc \in {"sleep", "down"} => listing = NoListing
  /\ pressed \in [Agents -> 0 .. 2] /\ lapsed \subseteq Agents /\ retyped \subseteq Agents

Init ==
  /\ screen \in [Agents -> {"gone", "quiet"}]
  /\ \A a \in Steady : screen[a] = "quiet"
  /\ pc = "sleep" /\ mem = Nothing /\ file = Nothing
  /\ listing = NoListing
  /\ at = (CHOOSE a \in Agents : TRUE) /\ before = "gone"
  /\ pressed = [a \in Agents |-> 0] /\ lapsed = {} /\ retyped = {}

----------------------------------------------------------------------------
(* WHAT A SCREEN MEANS TO IT *)

(* The tail states "candidate" of classifyPreview, and those of a text     *)
(* that is watched as an anomaly.  A protected session is left alone but   *)
(* for the directives of the system.                                       *)
Candidate(a, t) == t \in Directives \/ (t \in Operational /\ a \notin Protected)
Anomaly(a, t) == t \in Texts /\ a \notin Protected /\ ~Candidate(a, t)

----------------------------------------------------------------------------
(* THE SESSIONS *)

(* The screen of a session changes: no Enter was pressed for what it shows *)
(* now.                                                                    *)
Shows(a, t) ==
  /\ screen' = [screen EXCEPT ![a] = t]
  /\ pressed' = [pressed EXCEPT ![a] = 0]
  /\ lapsed' = lapsed \ {a}

(* The memory has the text as submitted, or is about to.                   *)
TakenForOld(a, t) ==
  \/ \E m \in {mem, file} : m[a].text = t /\ m[a].sent # "never"
  \/ at = a /\ mem[a].text = t /\ pc \in {"check", "fallback"}

(* Somebody types a text into an input line that showed another one.       *)
Type(a, t) ==
  /\ screen[a] \notin {"gone", t}
  /\ Shows(a, t)
  /\ retyped' = IF TakenForOld(a, t)
                THEN retyped \cup {a} ELSE retyped \ {a}
  /\ UNCHANGED <<pc, memory, look>>

(* The text is submitted or erased, the child ends, the session is         *)
(* deleted, another one is created.                                        *)
Quieten(a) ==
  /\ screen[a] # "quiet"
  /\ Shows(a, "quiet") /\ retyped' = retyped \ {a}
  /\ UNCHANGED <<pc, memory, look>>

Vanish(a) ==
  /\ screen[a] # "gone" /\ a \notin Steady
  /\ Shows(a, "gone") /\ retyped' = retyped \ {a}
  /\ UNCHANGED <<pc, memory, look>>

(* An Enter is taken, or the program in the terminal ignores it.           *)
EnterKey(a) ==
  \/ screen' = screen
  \/ screen[a] \in Texts /\ screen' = [screen EXCEPT ![a] = "quiet"]

----------------------------------------------------------------------------
(* THE WATCHDOG.                                                           *)
(* Definitions named _Faulty... are plausible mistakes in the definition   *)
(* after them; no specification uses them.                                 *)

(* A throw ends the process before the state is saved: what it has done    *)
(* since the last tick is not in the file.                                 *)
Forgotten == {a \in Agents : pressed[a] > 0 /\
                ~(file[a].text = screen[a] /\ file[a].sent # "never")}

Die ==
  /\ pc \notin {"down", "sleep"}
  /\ pc' = "down" /\ mem' = Nothing
  /\ listing' = NoListing /\ before' = "gone"
  /\ lapsed' = lapsed \cup Forgotten
  /\ UNCHANGED <<screen, file, at, pressed, retyped>>

(* A session that is gone when the empty write comes: a throw.             *)
WriteRefused == pc \in {"fallback", "refused"} /\ screen[at] = "gone" /\ Die

(* Started again by hand or by a script, it reads the file.                *)
Start ==
  /\ pc = "down"
  /\ pc' = "sleep"
  /\ UNCHANGED <<screen, memory, look, ghosts>>

(* readJson and getSessions.                                               *)
List ==
  /\ pc = "sleep"
  /\ pc' = "loop" /\ mem' = file
  /\ listing' = screen
  /\ UNCHANGED <<screen, file, at, before, ghosts>>

Looking(a) ==
  /\ pc = "loop" /\ a \in todo
  /\ listing' = [listing EXCEPT ![a] = "seen"]
Tracked(a) == Candidate(a, listing[a]) \/ Anomaly(a, listing[a])
Known(a) == mem[a].text = listing[a]

(* It returns from the tick where it has to go on with the next session. *)
Forget_FaultyReturns(a) ==
  /\ Looking(a) /\ ~Tracked(a)
  /\ pc' = "sleep" /\ mem' = [mem EXCEPT ![a] = Fresh("none")]
  /\ UNCHANGED <<screen, file, at, before, ghosts>>

(* Nothing to watch: both records of the session are deleted.              *)
Forget(a) ==
  /\ Looking(a) /\ ~Tracked(a)
  /\ mem' = [mem EXCEPT ![a] = Fresh("none")]
  /\ UNCHANGED <<screen, pc, file, at, before, ghosts>>

(* Only the text of the record is replaced. *)
Notice_FaultyKeepsRecord(a) ==
  /\ Looking(a) /\ Tracked(a) /\ ~Known(a)
  /\ mem' = [mem EXCEPT ![a].text = listing[a]]
  /\ UNCHANGED <<screen, pc, file, at, before, ghosts>>

(* A text that was not there at the last look replaces what was.           *)
Notice(a) ==
  /\ Looking(a) /\ Tracked(a) /\ ~Known(a)
  /\ mem' = [mem EXCEPT ![a] = Fresh(listing[a])]
  /\ UNCHANGED <<screen, pc, file, at, before, ghosts>>

AlertDue(a) == Anomaly(a, listing[a]) /\ mem[a].ripe /\ mem[a].sent # "recent"
EnterDue(a) == Candidate(a, listing[a]) /\ mem[a].ripe /\ mem[a].sent = "never"

Keep(a) ==
  /\ Looking(a) /\ Tracked(a) /\ Known(a) /\ ~AlertDue(a) /\ ~EnterDue(a)
  /\ UNCHANGED <<screen, pc, memory, at, before, ghosts>>

(* The alert is written to the terminal of ceo; that this fails is noted   *)
(* in the events and otherwise taken for an alert.                         *)
Alert(a) ==
  /\ Looking(a) /\ Known(a) /\ AlertDue(a)
  /\ mem' = [mem EXCEPT ![a].sent = "recent"]
  /\ UNCHANGED <<screen, pc, file, at, before, ghosts>>

Enter(a) ==
  /\ Looking(a) /\ Known(a) /\ EnterDue(a)
  /\ pc' = "read" /\ at' = a
  /\ UNCHANGED <<screen, memory, before, ghosts>>

(* submitEnter lists the sessions again before it presses Enter ... *)
ReadBefore ==
  /\ pc = "read"
  /\ pc' = "press" /\ before' = screen[at]
  /\ UNCHANGED <<screen, memory, listing, at, ghosts>>

Counted == pressed' = [pressed EXCEPT ![at] =
  IF screen[at] = mem[at].text /\ @ < 2 THEN @ + 1 ELSE @]

(* ... which goes to whatever the screen shows by then, ...                *)
Press ==
  /\ pc = "press" /\ screen[at] # "gone"
  /\ pc' = "check"
  /\ Counted /\ EnterKey(at)
  /\ UNCHANGED <<memory, look, lapsed, retyped>>

(* ... or is answered with 404 ...                                         *)
Refused ==
  /\ pc = "press" /\ screen[at] = "gone"
  /\ pc' = "refused" /\ before' = "gone"
  /\ UNCHANGED <<screen, memory, listing, at, ghosts>>

Submitted == mem' = [mem EXCEPT ![at].sent = "recent"]

(* ... and tried again as an empty write, for which the session may be     *)
(* there again, with whatever it shows.                                    *)
WriteInstead ==
  /\ pc = "refused" /\ screen[at] # "gone"
  /\ pc' = "loop" /\ Submitted
  /\ Counted /\ EnterKey(at)
  /\ UNCHANGED <<file, look, lapsed, retyped>>

(* The session is not marked as submitted. *)
Check_FaultyUnmarked ==
  /\ pc = "check"
  /\ IF Candidate(at, before) /\ screen[at] = before
     THEN pc' = "fallback" /\ UNCHANGED mem
     ELSE pc' = "loop" /\ UNCHANGED mem
  /\ before' = "gone"
  /\ UNCHANGED <<screen, file, listing, at, ghosts>>

(* It lists them again 250 ms after an Enter.  If the same prompt is still *)
(* there, an empty write follows, which is another Enter.                  *)
Check ==
  /\ pc = "check"
  /\ IF Candidate(at, before) /\ screen[at] = before
     THEN pc' = "fallback" /\ UNCHANGED mem
     ELSE pc' = "loop" /\ Submitted
  /\ before' = "gone"
  /\ UNCHANGED <<screen, file, listing, at, ghosts>>

Fallback ==
  /\ pc = "fallback" /\ screen[at] # "gone"
  /\ pc' = "loop" /\ Submitted /\ EnterKey(at)
  /\ UNCHANGED <<file, look, ghosts>>

(* The candidates of sessions that are not listed are deleted, the         *)
(* anomalies stay.                                                         *)
Remembered ==
  [a \in Agents |-> IF listing[a] = "gone" /\ Candidate(a, mem[a].text)
                    THEN Fresh("none") ELSE mem[a]]

Save ==
  /\ pc = "loop" /\ todo = {}
  /\ pc' = "sleep" /\ mem' = Nothing /\ file' = Remembered
  /\ listing' = NoListing
  /\ UNCHANGED <<screen, at, before, ghosts>>

(* Killed while it writes the file, which it then takes for an empty one.  *)
SaveTorn ==
  /\ pc = "loop" /\ todo = {}
  /\ pc' = "down" /\ mem' = Nothing /\ file' = Nothing
  /\ listing' = NoListing
  /\ lapsed' = lapsed \cup {a \in Agents : pressed[a] > 0}
  /\ UNCHANGED <<screen, at, before, pressed, retyped>>

(* Between two ticks, the thresholds and the cooldown go by.               *)
Aged(r) == [r EXCEPT !.ripe = TRUE, !.sent = IF @ = "recent" THEN "old" ELSE @]

TimePasses ==
  /\ pc \in {"sleep", "down"}
  /\ file' = [a \in Agents |-> IF file[a].text = "none" THEN file[a] ELSE Aged(file[a])]
  /\ file' # file
  /\ UNCHANGED <<screen, pc, mem, look, ghosts>>

----------------------------------------------------------------------------
Look(a) == Forget(a) \/ Notice(a) \/ Keep(a) \/ Alert(a) \/ Enter(a)
Tick ==
  \/ List \/ (\E a \in Agents : Look(a)) \/ ReadBefore \/ Press \/ Check \/ Fallback
  \/ Refused \/ WriteInstead \/ WriteRefused \/ Save

Next ==
  \/ Tick \/ Die \/ SaveTorn \/ Start \/ TimePasses
  \/ \E a \in Agents : Quieten(a) \/ Vanish(a)
  \/ \E p \in Typed : Type(p[1], p[2])

Spec == Init /\ [][Next]_vars

(* The loop of main runs on.  Each of its sleeps is a part of the          *)
(* threshold, which therefore goes by within a bounded number of ticks.    *)
FairSpec == Spec /\ WF_vars(Tick) /\ SF_vars(TimePasses)

----------------------------------------------------------------------------
(* PROPERTIES *)

(* A prompt gets at most one Enter (with its fallback) for as long as it   *)
(* stays on the screen: the record of it survives restarts.  Only a        *)
(* process that dies between an Enter and the end of its tick presses      *)
(* again, for this session and for every other it had pressed Enter in.    *)
EnterOnce == \A a \in Agents : pressed[a] <= 1 \/ a \in lapsed

(* The prompts that are its business, and when one of them waits for it.   *)
Prompts == {p \in Typed : Candidate(p[1], p[2])}
Stuck(a, t) == screen[a] = t /\ pressed[a] = 0 /\ a \notin retyped

(* No prompt is left in an input line without an Enter for ever, if the    *)
(* watchdog keeps running: whatever happens on the other screens.  But for *)
(* one typed again before the watchdog has seen that the same was gone.    *)
StuckGetsEnter ==
  <>[](pc # "down") => \A p \in Prompts : []<>~Stuck(p[1], p[2])
=============================================================================
