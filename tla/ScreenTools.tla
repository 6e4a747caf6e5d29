------------------------------ MODULE ScreenTools ------------------------------
(***************************************************************************)
(* The tools that look at terminals: the stuck input watchdog, the newline *)
(* monitor, the check for lost input and the resident monitor.  They share *)
(* no file and no memory, and what one does is for another a change of a   *)
(* screen, which their modules allow at any time.  A state is therefore    *)
(* that of one of them, the one that `running` names: what its variables   *)
(* mean is in its module, and those of the others are Unused, or empty.    *)
(***************************************************************************)
CONSTANTS
  Agents, Protected, Operational, Directives, Notices, Typed, Steady,   \* Watchdog
  Ceo, Shown,                                                   \* NewlineMonitor
  Title, Drawn, Chosen,                                         \* ResidentMonitor
  Unused

VARIABLES
  running, pc,
  screen, mem, file, listing, at, before, pressed, lapsed, retyped,
  slow, since, late, twice, excused,
  chrome, old, exit,
  field, focus, stored, log, kept, absent, lost, sent, verdict, status,
  once, api, dom, target, seen, alarm, latest, shown, ready

W == INSTANCE Watchdog
N == INSTANCE NewlineMonitor
I == INSTANCE InputLossCheck
R == INSTANCE ResidentMonitor WITH Sessions <- Agents

ASSUME ScreenToolsAssumption ==
  W!WatchdogAssumption /\ N!MonitorAssumption /\ R!ResidentAssumption

(* The variables that each tool has to itself, and those that two have.    *)
ofWatchdog == <<pressed, lapsed, retyped>>
ofNewline == <<slow, since, late, twice, excused>>
ofLossCheck == <<field, focus, stored, log, kept, absent, lost, sent, verdict, status>>
ofResident == <<once, api, dom, target, seen, alarm, latest, shown, ready>>
watching == <<screen, mem, file, listing, at>>
browsing == <<chrome, old, exit>>
vars == <<running, pc, before, ofWatchdog, ofNewline, ofLossCheck, ofResident, watching, browsing>>

WatchdogOff == pressed = Unused /\ lapsed = Unused /\ retyped = Unused
NewlineOff ==
  /\ slow = Unused /\ since = Unused /\ late = Unused
  /\ twice = Unused /\ excused = Unused
LossCheckOff ==
  /\ field = Unused /\ focus = Unused /\ stored = Unused /\ log = Unused
  /\ kept = Unused /\ absent = Unused /\ lost = Unused /\ sent = Unused
  /\ verdict = Unused /\ status = Unused
ResidentOff ==
  /\ once = Unused /\ api = {} /\ dom = Unused /\ target = Unused /\ seen = Unused
  /\ alarm = {} /\ latest = Unused /\ shown = Unused /\ ready = Unused
WatchingOff ==
  /\ screen = [a \in Agents |-> Unused] /\ mem = Unused /\ file = Unused
  /\ listing = Unused /\ at = Unused
BrowsingOff == chrome = Unused /\ old = Unused /\ exit = Unused

Init ==
  \/ /\ running = "watchdog" /\ W!Init
     /\ NewlineOff /\ LossCheckOff /\ ResidentOff /\ BrowsingOff
  \/ /\ running = "newline" /\ N!Init /\ before = Unused
     /\ WatchdogOff /\ LossCheckOff /\ ResidentOff /\ BrowsingOff
  \/ /\ running = "losscheck" /\ I!Init /\ before = Unused
     /\ WatchdogOff /\ NewlineOff /\ ResidentOff /\ WatchingOff
  \/ /\ running = "resident" /\ R!Init
     /\ WatchdogOff /\ NewlineOff /\ LossCheckOff /\ WatchingOff

StillWatchdog ==
  running = "watchdog" /\ UNCHANGED <<running, ofNewline, ofLossCheck, ofResident, browsing>>
StillNewline ==
  running = "newline" /\ UNCHANGED <<running, before, ofWatchdog, ofLossCheck, ofResident, browsing>>
StillLossCheck ==
  running = "losscheck" /\ UNCHANGED <<running, before, ofWatchdog, ofNewline, ofResident, watching>>
StillResident ==
  running = "resident" /\ UNCHANGED <<running, ofWatchdog, ofNewline, ofLossCheck, watching>>

Next ==
  \/ StillWatchdog /\ W!Next
  \/ StillNewline /\ N!Next
  \/ StillLossCheck /\ I!Next
  \/ StillResident /\ R!Next

Spec == Init /\ [][Next]_vars

(* The fairness of the tool that runs.                                     *)
FairSpec ==
  /\ Spec
  /\ WF_vars(\/ StillWatchdog /\ W!Tick
             \/ StillLossCheck /\ I!Step
             \/ StillResident /\ R!Step)
  /\ SF_vars(\/ StillWatchdog /\ W!TimePasses
             \/ StillResident /\ R!Ages)

----------------------------------------------------------------------------
(* PROPERTIES *)

(* Each tool's state is well typed.                                        *)
TypeOK ==
  /\ running \in {"watchdog", "newline", "losscheck", "resident"}
  /\ running = "watchdog" => W!TypeOK
  /\ running = "newline" => N!TypeOK
  /\ running = "losscheck" => I!TypeOK
  /\ running = "resident" => R!TypeOK

(* No prompt gets more Enters than it should: one of the watchdog, and one *)
(* of the newline monitor in repeatAlertMs (Watchdog, NewlineMonitor).     *)
EntersSpaced ==
  /\ running = "watchdog" => W!EnterOnce
  /\ running = "newline" => N!EntersSpaced

(* A prompt that is left in an input line gets its Enter of the watchdog.  *)
StuckGetsEnter == running = "watchdog" => W!StuckGetsEnter

(* What the two checks report of the page has happened on it, and the      *)
(* browsers are left as they should be (InputLossCheck, ResidentMonitor).  *)
ProbesTellTruth ==
  /\ running = "losscheck" => I!PassMeansKept /\ I!ReproducedMeansLost
  /\ running = "resident" => R!DropHasShown /\ R!BrowserAsFound

(* The check for lost input comes to a verdict, and the resident monitor   *)
(* reports every card that stays blank.                                    *)
ProbesFinish ==
  /\ running = "losscheck" => I!EndsWithVerdict
  /\ running = "resident" => R!CollapseIsReported
=============================================================================
