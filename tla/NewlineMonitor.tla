---------------------------- MODULE NewlineMonitor ----------------------------
(***************************************************************************)
(* The newline monitor (caesar-newline-monitor.cjs).  Every five seconds   *)
(* it looks for directives that ask for an answer and have none.  One that *)
(* stays for detectThresholdMs gets an Enter and an alert to ceo, and both *)
(* again every repeatAlertMs.  When the last alert went out is kept in a   *)
(* file, which is written at the end of a tick: as the time at which that  *)
(* tick began, although the calls it makes before an Enter have no timeout *)
(* and may hang.                                                           *)
(***************************************************************************)
EXTENDS Naturals, Sequences

CONSTANTS
  Agents,      \* ids of sessions, but for protectedSessions, which it ignores
  Ceo,         \* the one that gets the alerts
  Directives,  \* first lines of directives that ask for an answer
  Shown        \* bound: what a screen may show, <<agent, screen>>

(* A directive is seen anew when the footer under it changes from that of  *)
(* an input line to that of an agent at work: the evidence flags are part  *)
(* of the fingerprint.  "queued": a queued input line, the same for every  *)
(* text.  "other": nothing to detect, which is also what an answer makes   *)
(* of a directive.                                                         *)
Seen == (Directives \X {"typed", "working"}) \cup {<<"queued">>}
Screens == Seen \cup {<<"gone">>, <<"other">>}

(* Assumed wherever this module is used.                                   *)
MonitorAssumption == Ceo \in Agents /\ Shown \subseteq Agents \X Screens

VARIABLES
  screen,   \* what the screen of each session shows
  pc,       \* where the monitor is
  mem,      \* state.sessions
  file,     \* what the state file holds
  listing,  \* the sessions of this tick that it has not looked at yet
  at,       \* the session of the Enter under way
  slow,     \* this tick began more than repeatAlertMs ago
  since,    \* history: sessions that got an Enter less than repeatAlertMs ago
  late,     \* history: those that got it in a slow tick
  twice,    \* history: sessions that got another one in that time
  excused   \* history: sessions whose last alert failed or is forgotten, or
            \* that got another Enter after a late one

memory == <<mem, file>>
ghosts == <<slow, since, late, twice, excused>>
vars == <<screen, pc, memory, listing, at, ghosts>>

None == [seen |-> <<"none">>, ripe |-> FALSE, alert |-> "never"]
Nothing == [a \in Agents |-> None]
NoListing == [a \in Agents |-> <<"gone">>]

TypeOK ==
  /\ screen \in [Agents -> Screens]
  /\ listing \in [Agents -> Screens \cup {<<"done">>}]
  /\ pc \in {"down", "sleep", "loop", "enter", "notify"}
  /\ \A m \in {mem, file} :
       m \in [Agents -> [seen : Seen \cup {<<"none">>}, ripe : BOOLEAN,
                         alert : {"never", "recent", "old"}]]
  /\ at \in Agents
  /\ slow \in BOOLEAN /\ late \subseteq Agents
  /\ since \subseteq Agents /\ twice \subseteq Agents /\ excused \subseteq Agents

Init ==
  /\ screen \in [Agents -> {<<"gone">>, <<"other">>}]
  /\ pc = "sleep" /\ mem = Nothing /\ file = Nothing
  /\ listing = NoListing /\ at = Ceo
  /\ slow = FALSE /\ since = {} /\ late = {} /\ twice = {} /\ excused = {}

----------------------------------------------------------------------------
(* The screens: typing, answers, the ends of sessions.  A detection that   *)
(* is another one than before is a new case for Enters and alerts.         *)
ScreenChanges(a, s) ==
  /\ screen[a] # s
  /\ screen' = [screen EXCEPT ![a] = s]
  /\ since' = since \ {a} /\ late' = late \ {a}
  /\ twice' = twice \ {a} /\ excused' = excused \ {a}
  /\ UNCHANGED <<pc, memory, listing, at, slow>>

(* An Enter for a directive makes the agent work on it, one for a queued   *)
(* line makes it answer, or the Enter is ignored.                          *)
EnterKey(a) ==
  \/ screen' = screen
  \/ /\ screen[a] \in Seen
     /\ screen' = [screen EXCEPT ![a] =
          IF Len(@) = 2 THEN <<@[1], "working">> ELSE <<"other">>]

----------------------------------------------------------------------------
Quiet == UNCHANGED <<screen, file, at, ghosts>>

(* A throw ends the process; getSessions throws when the API is away.      *)
Die ==
  /\ pc \notin {"down", "sleep"}
  /\ pc' = "down" /\ mem' = Nothing /\ listing' = NoListing
  /\ slow' = FALSE /\ excused' = excused \cup since
  /\ UNCHANGED <<screen, file, at, since, late, twice>>

(* resolveApiBase has found an API that is up.                             *)
Start ==
  /\ pc = "down"
  /\ pc' = "sleep"
  /\ UNCHANGED <<screen, memory, listing, at, ghosts>>

List ==
  /\ pc = "sleep"
  /\ pc' = "loop" /\ mem' = file /\ listing' = screen
  /\ Quiet

Looking(a) ==
  /\ pc = "loop" /\ listing[a] \notin {<<"gone">>, <<"done">>}
  /\ listing' = [listing EXCEPT ![a] = <<"done">>]

(* detectInjectedNoEnter returns null.                                     *)
Forget(a) ==
  /\ Looking(a) /\ listing[a] = <<"other">>
  /\ mem' = [mem EXCEPT ![a] = None]
  /\ UNCHANGED pc /\ Quiet

Detect(a) ==
  /\ Looking(a) /\ listing[a] \in Seen /\ mem[a].seen # listing[a]
  /\ mem' = [mem EXCEPT ![a] = [None EXCEPT !.seen = listing[a]]]
  /\ UNCHANGED pc /\ Quiet

Due(a) == mem[a].ripe /\ mem[a].alert # "recent"

Wait(a) ==
  /\ Looking(a) /\ mem[a].seen = listing[a] /\ ~Due(a)
  /\ UNCHANGED <<pc, mem>> /\ Quiet

Repeat(a) ==
  /\ Looking(a) /\ mem[a].seen = listing[a] /\ Due(a)
  /\ pc' = "enter" /\ at' = a
  /\ UNCHANGED <<screen, memory, ghosts>>

Aimed == screen[at] = mem[at].seen

(* promptSubmit presses Enter in whatever the screen shows by then.        *)
Press ==
  /\ pc = "enter" /\ screen[at] # <<"gone">>
  /\ pc' = "notify"
  /\ EnterKey(at)
  /\ \/ /\ screen' # screen
        /\ since' = since \ {at} /\ late' = late \ {at}
     \/ /\ screen' = screen /\ Aimed
        /\ since' = since \cup {at}
        /\ late' = IF slow THEN late \cup {at} ELSE late \ {at}
     \/ screen' = screen /\ ~Aimed /\ UNCHANGED <<since, late>>
  /\ twice' = IF Aimed /\ at \in since THEN twice \cup {at} ELSE twice
  /\ excused' = IF Aimed /\ at \in late THEN excused \cup {at} ELSE excused
  /\ UNCHANGED <<memory, listing, at, slow>>

(* That it fails is told in the alert.                                     *)
PressFails ==
  /\ pc = "enter"
  /\ pc' = "notify"
  /\ UNCHANGED <<screen, memory, listing, at, ghosts>>

(* The alert is not recorded. *)
Alerted_FaultyUnmarked == UNCHANGED mem

(* The time that is recorded is that of the start of the tick. *)
Alerted == mem' = [mem EXCEPT ![at].alert = "recent"]

(* The alert about a session goes to the terminal of ceo; that about ceo   *)
(* is not sent, and counts.                                                *)
Notify ==
  /\ pc = "notify" /\ pc' = "loop"
  /\ Alerted
  /\ UNCHANGED <<screen, file, listing, at, ghosts>>

(* An alert that is not taken does not count: the next tick presses Enter  *)
(* again.                                                                  *)
NotifyFails ==
  /\ pc = "notify" /\ at # Ceo
  /\ pc' = "loop"
  /\ excused' = excused \cup {at}
  /\ UNCHANGED <<screen, memory, listing, at, slow, since, late, twice>>

(* What a record is repeatAlertMs later, which is more than the threshold. *)
Elapsed(c) ==
  [c EXCEPT !.ripe = c.seen \in Seen, !.alert = IF @ = "recent" THEN "old" ELSE @]

Unlisted(a) == listing[a] = <<"gone">>

Save ==
  /\ pc = "loop" /\ \A a \in Agents : listing[a] \in {<<"gone">>, <<"done">>}
  /\ pc' = "sleep" /\ mem' = Nothing /\ listing' = NoListing
  /\ file' = [a \in Agents |-> IF Unlisted(a) THEN None
                              ELSE IF slow THEN Elapsed(mem[a]) ELSE mem[a]]
  /\ slow' = FALSE
  /\ UNCHANGED <<screen, at, since, late, twice, excused>>

(* A call of the tick hangs, so long that repeatAlertMs goes by.           *)
Hangs ==
  /\ pc \in {"enter", "notify"} /\ (~slow \/ since # {})
  /\ slow' = TRUE /\ since' = {} /\ late' = {}
  /\ file' = [a \in Agents |-> Elapsed(file[a])]
  /\ UNCHANGED <<screen, pc, mem, listing, at, twice, excused>>

(* Between ticks detectThresholdMs goes by; then repeatAlertMs.            *)
ThresholdPasses ==
  /\ pc \in {"sleep", "down"}
  /\ \E a \in Agents : file[a].seen \in Seen /\ ~file[a].ripe
  /\ file' = [a \in Agents |-> [file[a] EXCEPT !.ripe = file[a].seen \in Seen]]
  /\ UNCHANGED <<screen, pc, mem, listing, at, ghosts>>

RepeatPasses ==
  /\ pc \in {"sleep", "down"}
  /\ since # {} \/ \E a \in Agents : file[a].alert = "recent"
  /\ file' = [a \in Agents |-> Elapsed(file[a])]
  /\ since' = {} /\ late' = {}
  /\ UNCHANGED <<screen, pc, mem, listing, at, slow, twice, excused>>

----------------------------------------------------------------------------
Look(a) == Forget(a) \/ Detect(a) \/ Wait(a) \/ Repeat(a)
Tick == \/ List \/ \E a \in Agents : Look(a)
        \/ Press \/ PressFails \/ Notify \/ NotifyFails \/ Save

Next ==
  \/ Tick \/ Die \/ Start \/ Hangs \/ ThresholdPasses \/ RepeatPasses
  \/ \E p \in Shown : ScreenChanges(p[1], p[2])

Spec == Init /\ [][Next]_vars

(* PROPERTIES *)

(* The same detection gets no second Enter within repeatAlertMs of an      *)
(* Enter, although an Enter and the record of it are two steps and other   *)
(* sessions come in between: but for three cases.  The alert that goes     *)
(* with it was not taken, the process died before the end of the tick, or  *)
(* the Enter came late in a slow tick, whose start is what is recorded.    *)
EntersSpaced == twice \subseteq excused
=============================================================================
