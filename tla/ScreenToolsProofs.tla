---------------------------- MODULE ScreenToolsProofs ----------------------------
(***************************************************************************)
(* Proofs about ScreenTools, for any sessions, texts and titles.           *)
(***************************************************************************)
EXTENDS ScreenTools, Naturals, Sequences, TLAPS

(* THE WATCHDOG *)

(* The record of an Enter for the text that the screen shows.              *)
Recorded(m, a) == m[a].text = screen[a] /\ m[a].sent # "never"

(* Enters were pressed for a text that is still there, and are remembered. *)
Counts(a) == pressed[a] > 0 /\ screen[a] \in W!Texts /\ a \notin lapsed

(* Between two ticks the file has the record; within one, memory has it or *)
(* is about to, and a screen that was not looked at is as it was listed.   *)
RecordInv ==
  \A a \in Agents : Counts(a) =>
    /\ pc \in {"sleep", "down"} => Recorded(file, a)
    /\ pc \notin {"sleep", "down"} =>
         /\ listing[a] \in {"seen", screen[a]}
         /\ \/ Recorded(mem, a)
            \/ a = at /\ pc \in {"check", "fallback"} /\ mem[a].text = screen[a]

(* Enters are pressed for prompts of the system and of agents only.        *)
PromptInv ==
  \A a \in Agents :
    pressed[a] > 0 /\ screen[a] \in W!Texts => W!Candidate(a, screen[a])

(* The session of the Enter under way was not submitted before.            *)
EnterInv ==
  pc \in {"read", "press", "refused", "check", "fallback"} =>
    listing[at] = "seen" /\ W!Candidate(at, mem[at].text) /\ mem[at].sent = "never"

WatchdogInv == W!TypeOK /\ RecordInv /\ PromptInv /\ EnterInv /\ W!EnterOnce

(* THE NEWLINE MONITOR *)

(* A session that got an Enter has its alert recorded, or is about to.  In *)
(* a slow tick all Enters that count are late.                             *)
AlertInv ==
  \A a \in Agents : a \in since \ (excused \cup late) =>
    /\ screen[a] \in N!Seen
    /\ pc \in {"sleep", "down"} => file[a].seen = screen[a] /\ file[a].alert = "recent"
    /\ pc \notin {"sleep", "down"} =>
         /\ listing[a] \in {<<"done">>, screen[a]} /\ mem[a].seen = screen[a]
         /\ mem[a].alert = "recent" \/ (a = at /\ pc = "notify")

RepeatInv ==
  /\ pc \in {"enter", "notify"} => listing[at] = <<"done">> /\ mem[at].seen \in N!Seen
  /\ pc = "enter" => mem[at].alert # "recent"

LateInv == slow => since \subseteq late

NewlineInv == N!TypeOK /\ AlertInv /\ LateInv /\ RepeatInv /\ N!EntersSpaced

(* THE CHECK FOR LOST INPUT *)

(* The stages before the text is typed, and those after the last look.     *)
Untyped == {"launch", "wait", "connect", "clear", "type"}
Ending == {"enter", "judge"}

(* The stages that come after each look.                                   *)
Later(l) ==
  CASE l = "typed" -> (I!Editing \ {"typed"}) \cup Ending
    [] l = "shrunk" -> (I!Editing \ {"typed", "shrink", "shrunk"}) \cup Ending
    [] l = "restored" -> {"reload", "reloaded", "retype", "entered"} \cup Ending
    [] l = "reloaded" -> {"retype", "entered"} \cup Ending
    [] l = "entered" -> Ending

(* A look that came out badly.                                             *)
Missed == \E l \in I!Looks \ kept : pc \in Later(l)

(* Every look that found the text is over.                                 *)
KeptInv == \A l \in kept : pc \in Later(l) \cup {"close", "over"}

(* A loss was missed by a look, or is there for the next; a draft of this  *)
(* run, which the page has not changed, is the text if it was typed at     *)
(* all, and found after the reload if there was a composer.                *)
FieldInv ==
  /\ "gone" \in lost /\ pc \in I!Editing \cup Ending =>
       Missed \/ (pc \in I!Editing /\ "text" \notin {field, stored})
  /\ "draft" \notin old /\ "changed" \notin lost =>
       /\ pc \in Untyped => field \in {"empty", "none"} /\ stored = "empty"
       /\ pc \in I!Editing \ Later("reloaded") /\ "type" \notin absent =>
            field \in {"text", "none"} /\ stored = "text"
       /\ pc \in Later("reloaded") /\ absent = {} => "reloaded" \in kept

LogInv ==
  /\ pc \in Untyped => lost = {}
  /\ log => sent # "nothing" \/ "log" \in old

VerdictInv ==
  /\ pc \notin {"close", "over"} => verdict = "none" /\ status = "none"
  /\ I!PassMeansKept /\ I!ReproducedMeansLost

LossCheckInv == I!TypeOK /\ KeptInv /\ FieldInv /\ LogInv /\ VerdictInv

(* THE RESIDENT MONITOR *)

(* What is remembered as text was seen as text: under its own key, where   *)
(* nobody changes the addressee of a card.                                 *)
SeenInv ==
  chrome # "found" =>
    /\ \A s \in Agents : target[s] = s
    /\ \A k \in R!Keys : before[k] = "text" => \E s \in shown : k \in {s, Title[s]}

BrowserInv ==
  /\ pc \in {"start", "wait"} => ~ready
  /\ pc = "start" => alarm = {}

ResidentInv ==
  R!TypeOK /\ SeenInv /\ BrowserInv /\ R!DropHasShown /\ R!BrowserAsFound

----------------------------------------------------------------------------
(* THE TOOLS *)

IInv ==
  /\ running \in {"watchdog", "newline", "losscheck", "resident"}
  /\ running = "watchdog" => WatchdogInv
  /\ running = "newline" => NewlineInv
  /\ running = "losscheck" => LossCheckInv
  /\ running = "resident" => ResidentInv

----------------------------------------------------------------------------
(* THE WATCHDOG *)

LEMMA WatchdogConstants ==
  /\ W!Texts = Operational \cup Directives \cup Notices
  /\ "gone" \notin W!Texts /\ "quiet" \notin W!Texts /\ "none" \notin W!Texts
  /\ \A a \in Agents, t \in {"gone", "quiet", "none"} : ~W!Candidate(a, t)
  /\ \A a \in Agents : \A t : W!Candidate(a, t) => t \in W!Texts
  /\ Agents # {}
BY ScreenToolsAssumption DEF W!WatchdogAssumption, N!MonitorAssumption, W!Texts, W!Candidate

LEMMA WatchdogInit == W!Init => WatchdogInv
<1> SUFFICES ASSUME W!Init PROVE WatchdogInv
  OBVIOUS
<1>1. at \in Agents
  <2>1. \E a \in Agents : TRUE
    BY WatchdogConstants
  <2>2. at = CHOOSE a \in Agents : TRUE
    BY DEF W!Init
  <2> QED BY <2>1, <2>2
<1>2. W!TypeOK
  <2>1. /\ screen \in [Agents -> W!Screens]
        /\ listing \in [Agents -> W!Screens \cup {"seen"}]
        /\ before \in W!Screens
    BY DEF W!Init, W!Screens, W!NoListing
  <2>2. mem = W!Nothing /\ file = W!Nothing
        /\ W!Nothing \in [Agents -> [text : W!Texts \cup {"none"}, ripe : BOOLEAN,
                                     sent : {"never", "recent", "old"}]]
    BY DEF W!Init, W!Nothing, W!Fresh
  <2> QED BY <1>1, <2>1, <2>2 DEF W!Init, W!TypeOK
<1>3. pc = "sleep" /\ \A a \in Agents : pressed[a] = 0
  BY DEF W!Init
<1>4. RecordInv /\ PromptInv /\ EnterInv /\ W!EnterOnce
  BY <1>3 DEF RecordInv, PromptInv, EnterInv, W!EnterOnce, Counts
<1> QED BY <1>2, <1>4 DEF WatchdogInv

(* What the watchdog keeps of a session.                                   *)
Records == [text : W!Texts \cup {"none"}, ripe : BOOLEAN, sent : {"never", "recent", "old"}]

LEMMA WatchdogTypes ==
  ASSUME W!TypeOK
  PROVE  /\ screen \in [Agents -> W!Screens] /\ listing \in [Agents -> W!Screens \cup {"seen"}]
         /\ mem \in [Agents -> Records] /\ file \in [Agents -> Records]
         /\ \A a \in Agents :
              /\ mem[a].text \in W!Texts \cup {"none"} /\ mem[a].ripe \in BOOLEAN
              /\ mem[a].sent \in {"never", "recent", "old"}
              /\ file[a].text \in W!Texts \cup {"none"} /\ file[a].ripe \in BOOLEAN
              /\ file[a].sent \in {"never", "recent", "old"}
              /\ pressed[a] \in 0 .. 2
         /\ pressed \in [Agents -> 0 .. 2]
         /\ W!Nothing \in [Agents -> Records] /\ W!NoListing \in [Agents -> W!Screens \cup {"seen"}]
<1>1. mem \in [Agents -> Records] /\ file \in [Agents -> Records]
  BY DEF W!TypeOK, Records
<1>2. \A a \in Agents : mem[a] \in Records /\ file[a] \in Records
  BY <1>1
<1>3. W!Nothing \in [Agents -> Records] /\ W!NoListing \in [Agents -> W!Screens \cup {"seen"}]
  BY DEF W!Nothing, W!Fresh, Records, W!NoListing, W!Screens
<1> QED BY <1>1, <1>2, <1>3 DEF W!TypeOK, Records

(* A screen that changes: what was pressed for it no longer counts.        *)
LEMMA ShowsInv ==
  ASSUME WatchdogInv, NEW a \in Agents, NEW t \in W!Screens, W!Shows(a, t),
         retyped' \in SUBSET Agents, UNCHANGED <<pc, mem, file, listing, at, before>>
  PROVE  WatchdogInv'
<1> USE DEF WatchdogInv
<1>1. /\ screen' \in [Agents -> W!Screens] /\ pressed' \in [Agents -> 0 .. 2]
      /\ \A b \in Agents : b # a => screen'[b] = screen[b] /\ pressed'[b] = pressed[b]
      /\ screen'[a] = t /\ pressed'[a] = 0 /\ lapsed' = lapsed \ {a}
  BY WatchdogTypes DEF W!Shows
<1>2. W!TypeOK'
  BY <1>1 DEF W!TypeOK
<1>3. \A b \in Agents : Counts(b)' => b # a /\ Counts(b)
  BY <1>1 DEF Counts
<1>4. RecordInv'
  BY <1>1, <1>3 DEF RecordInv, Recorded
<1>5. PromptInv'
  BY <1>1 DEF PromptInv, W!Candidate
<1>6. EnterInv'
  BY DEF EnterInv, W!Candidate
<1>7. W!EnterOnce'
  BY <1>1, WatchdogTypes DEF W!EnterOnce
<1> QED BY <1>2, <1>4, <1>5, <1>6, <1>7

(* A step of the watchdog that presses nothing and keeps what counts.      *)
LEMMA QuietStep ==
  ASSUME WatchdogInv, W!TypeOK', UNCHANGED <<screen, pressed>>,
         lapsed \subseteq lapsed', RecordInv', EnterInv'
  PROVE  WatchdogInv'
<1>1. PromptInv'
  BY DEF WatchdogInv, PromptInv, W!Candidate
<1>2. W!EnterOnce'
  BY DEF WatchdogInv, W!EnterOnce
<1> QED BY <1>1, <1>2 DEF WatchdogInv

LEMMA DieInv ==
  ASSUME WatchdogInv, W!Die
  PROVE  WatchdogInv'
<1> USE DEF WatchdogInv
<1>1. W!TypeOK'
  BY WatchdogTypes DEF W!Die, W!TypeOK, Records, W!Forgotten, W!Screens
<1>2. RecordInv'
  BY DEF W!Die, RecordInv, Counts, Recorded, W!Forgotten
<1>3. EnterInv'
  BY DEF W!Die, EnterInv
<1> QED BY <1>1, <1>2, <1>3, QuietStep DEF W!Die

LEMMA ListInv ==
  ASSUME WatchdogInv, W!List
  PROVE  WatchdogInv'
<1> USE DEF WatchdogInv
<1>0. UNCHANGED <<screen, file, at, before, pressed, lapsed, retyped>>
      /\ pc = "sleep" /\ pc' = "loop" /\ mem' = file /\ listing' = screen
  BY DEF W!List, W!ghosts
<1>1. W!TypeOK'
  BY <1>0, WatchdogTypes DEF W!TypeOK
<1>2. RecordInv'
  BY <1>0 DEF RecordInv, Counts, Recorded
<1>3. EnterInv'
  BY <1>0 DEF EnterInv
<1> QED BY <1>0, <1>1, <1>2, <1>3, QuietStep

(* A look at one session replaces its record.                              *)
LEMMA LookInv ==
  ASSUME WatchdogInv, NEW a \in Agents, W!Looking(a), NEW m \in Records,
         mem' = [mem EXCEPT ![a] = m], pc' = "loop",
         UNCHANGED <<screen, file, at, before, pressed, lapsed, retyped>>,
         Counts(a) => m.text = screen[a] /\ m.sent # "never"
  PROVE  WatchdogInv'
<1> USE DEF WatchdogInv
<1>1. /\ pc = "loop" /\ listing' \in [Agents -> W!Screens \cup {"seen"}]
      /\ listing'[a] = "seen" /\ \A b \in Agents : b # a => listing'[b] = listing[b]
  BY WatchdogTypes DEF W!Looking
<1>2. /\ mem' \in [Agents -> Records] /\ mem'[a] = m
      /\ \A b \in Agents : b # a => mem'[b] = mem[b]
  BY WatchdogTypes
<1>3. W!TypeOK'
  BY <1>1, <1>2 DEF W!TypeOK, Records
<1>4. RecordInv'
  <2> SUFFICES ASSUME NEW b \in Agents, Counts(b)
               PROVE  listing'[b] \in {"seen", screen[b]} /\ Recorded(mem, b)'
    BY <1>1 DEF RecordInv, Counts
  <2>1. listing[b] \in {"seen", screen[b]} /\ Recorded(mem, b)
    BY <1>1 DEF RecordInv
  <2>2. CASE b = a
    BY <1>1, <1>2, <2>2 DEF Recorded
  <2>3. CASE b # a
    BY <1>1, <1>2, <2>1, <2>3 DEF Recorded
  <2> QED BY <2>2, <2>3
<1>5. EnterInv'
  BY DEF EnterInv
<1> QED BY <1>3, <1>4, <1>5, QuietStep

(* What counts is a prompt, and it is known when it is looked at.          *)
LEMMA LookFacts ==
  ASSUME WatchdogInv, NEW a \in Agents, W!Looking(a), Counts(a)
  PROVE  /\ listing[a] = screen[a] /\ W!Candidate(a, listing[a])
         /\ W!Known(a) /\ mem[a].sent # "never"
<1>1. pc = "loop" /\ listing[a] # "seen"
  BY DEF W!Looking, W!todo
<1>2. listing[a] = screen[a] /\ Recorded(mem, a)
  BY <1>1 DEF WatchdogInv, RecordInv
<1> QED BY <1>2 DEF Recorded, W!Known, WatchdogInv, PromptInv, Counts

LEMMA WatchdogLooks ==
  ASSUME WatchdogInv, NEW a \in Agents, W!Look(a)
  PROVE  WatchdogInv'
<1>0. W!TypeOK
  BY DEF WatchdogInv
<1>1. CASE W!Forget(a)
  <2>1. W!Fresh("none") \in Records
    BY DEF W!Fresh, Records
  <2>2. /\ W!Looking(a) /\ mem' = [mem EXCEPT ![a] = W!Fresh("none")] /\ pc' = "loop"
        /\ UNCHANGED <<screen, file, at, before, pressed, lapsed, retyped>>
        /\ ~W!Tracked(a)
    BY <1>1 DEF W!Forget, W!ghosts, W!Looking
  <2>3. ~Counts(a)
    BY <2>2, LookFacts DEF W!Tracked
  <2> QED BY <2>1, <2>2, <2>3, LookInv
<1>2. CASE W!Notice(a)
  <2>1. /\ W!Looking(a) /\ mem' = [mem EXCEPT ![a] = W!Fresh(listing[a])] /\ pc' = "loop"
        /\ UNCHANGED <<screen, file, at, before, pressed, lapsed, retyped>>
        /\ ~W!Known(a) /\ W!Tracked(a)
    BY <1>2 DEF W!Notice, W!ghosts, W!Looking
  <2>2. W!Fresh(listing[a]) \in Records
    BY <2>1, WatchdogConstants DEF W!Fresh, Records, W!Tracked, W!Anomaly
  <2>3. ~Counts(a)
    BY <2>1, LookFacts
  <2> QED BY <2>1, <2>2, <2>3, LookInv
<1>3. CASE W!Keep(a)
  <2>1. /\ W!Looking(a) /\ mem' = mem /\ pc' = "loop"
        /\ UNCHANGED <<screen, file, at, before, pressed, lapsed, retyped>>
    BY <1>3 DEF W!Keep, W!memory, W!ghosts, W!Looking
  <2>2. mem' = [mem EXCEPT ![a] = mem[a]] /\ mem[a] \in Records
    BY <1>0, <2>1, WatchdogTypes
  <2>3. Counts(a) => mem[a].text = screen[a] /\ mem[a].sent # "never"
    BY <2>1, LookFacts DEF W!Known
  <2> QED BY <2>1, <2>2, <2>3, LookInv
<1>4. CASE W!Alert(a)
  <2> DEFINE m == [mem[a] EXCEPT !.sent = "recent"]
  <2>1. /\ W!Looking(a) /\ mem' = [mem EXCEPT ![a] = m] /\ pc' = "loop"
        /\ UNCHANGED <<screen, file, at, before, pressed, lapsed, retyped>>
    BY <1>4 DEF W!Alert, W!ghosts, W!Looking
  <2>2. m \in Records /\ m.text = mem[a].text /\ m.sent = "recent"
    BY <1>0, WatchdogTypes DEF Records
  <2>3. Counts(a) => m.text = screen[a]
    BY <2>1, <2>2, LookFacts DEF W!Known
  <2> HIDE DEF m
  <2> QED BY <2>1, <2>2, <2>3, LookInv
<1>5. CASE W!Enter(a)
  <2>1. /\ W!Looking(a) /\ pc = "loop" /\ pc' = "read" /\ at' = a
        /\ UNCHANGED <<screen, mem, file, before, pressed, lapsed, retyped>>
        /\ W!EnterDue(a) /\ W!Known(a)
    BY <1>5 DEF W!Enter, W!ghosts, W!memory, W!Looking
  <2>2. /\ listing' \in [Agents -> W!Screens \cup {"seen"}]
        /\ listing'[a] = "seen" /\ \A b \in Agents : b # a => listing'[b] = listing[b]
    BY <1>0, <2>1, WatchdogTypes DEF W!Looking
  <2>3. W!TypeOK'
    BY <2>1, <2>2 DEF W!TypeOK, WatchdogInv
  <2>4. RecordInv'
    BY <2>1, <2>2 DEF RecordInv, Counts, Recorded, WatchdogInv
  <2>5. EnterInv'
    BY <2>1, <2>2 DEF EnterInv, W!EnterDue, W!Known, W!Candidate
  <2> QED BY <2>1, <2>3, <2>4, <2>5, QuietStep
<1> QED BY <1>1, <1>2, <1>3, <1>4, <1>5 DEF W!Look

(* The Enter under way is the first for its text, or the one before it is  *)
(* forgotten.                                                              *)
LEMMA PressInv ==
  ASSUME WatchdogInv, W!Press \/ W!WriteInstead
  PROVE  WatchdogInv'
<1> USE DEF WatchdogInv
<1> DEFINE m == [mem[at] EXCEPT !.sent = "recent"]
<1>a. at \in Agents /\ m \in Records /\ m.text = mem[at].text /\ m.sent = "recent"
  BY WatchdogTypes DEF Records, W!TypeOK
<1>b. \/ pc = "press" /\ pc' = "check" /\ mem' = mem
      \/ pc = "refused" /\ pc' = "loop" /\ mem' = [mem EXCEPT ![at] = m]
  BY DEF W!Press, W!WriteInstead, W!memory, W!Submitted
<1> HIDE DEF m
<1>0. /\ pc \in {"press", "refused"} /\ pc' \in {"check", "loop"} /\ W!EnterKey(at)
      /\ UNCHANGED <<file, listing, at, before, lapsed, retyped>>
      /\ at \in Agents
  BY <1>a, <1>b DEF W!Press, W!WriteInstead, W!memory, W!look
<1>c. /\ mem' \in [Agents -> Records] /\ \A b \in Agents : b # at => mem'[b] = mem[b]
      /\ mem'[at].text = mem[at].text
      /\ pc' = "loop" => mem'[at].sent = "recent"
      /\ pc' = "check" => mem' = mem
  BY <1>a, <1>b, WatchdogTypes
<1>1. /\ pressed' \in [Agents -> 0 .. 2]
      /\ \A b \in Agents : b # at => pressed'[b] = pressed[b]
      /\ pressed'[at] # pressed[at] =>
           screen[at] = mem[at].text /\ pressed'[at] = pressed[at] + 1
  <2>1. W!Counted
    BY DEF W!Press, W!WriteInstead
  <2>2. pressed \in [Agents -> 0 .. 2] /\ pressed[at] \in 0 .. 2
    BY <1>0, WatchdogTypes
  <2> DEFINE more == screen[at] = mem[at].text /\ pressed[at] < 2
  <2> DEFINE n == IF more THEN pressed[at] + 1 ELSE pressed[at]
  <2>3. pressed' = [pressed EXCEPT ![at] = n]
    BY <2>1 DEF W!Counted
  <2>4. n \in 0 .. 2 /\ (n # pressed[at] => screen[at] = mem[at].text /\ n = pressed[at] + 1)
    BY <2>2
  <2> HIDE DEF n
  <2> QED BY <1>0, <2>2, <2>3, <2>4
<1>2. /\ screen' \in [Agents -> W!Screens]
      /\ \A b \in Agents : b # at => screen'[b] = screen[b]
      /\ screen'[at] \in {screen[at], "quiet"}
  BY <1>0, WatchdogTypes DEF W!EnterKey, W!Screens
<1>3. /\ listing[at] = "seen" /\ W!Candidate(at, mem[at].text) /\ mem[at].sent = "never"
      /\ mem[at].text \in W!Texts
  BY <1>0, WatchdogConstants DEF EnterInv
<1>4. ~Counts(at)
  BY <1>0, <1>3 DEF RecordInv, Recorded
<1>5. W!TypeOK'
  BY <1>0, <1>1, <1>2, <1>c DEF W!TypeOK, Records
<1>6. Counts(at)' => pressed'[at] # pressed[at] /\ screen'[at] = mem[at].text
  BY <1>0, <1>1, <1>2, <1>4, WatchdogConstants DEF Counts
<1>7. RecordInv'
  <2> SUFFICES ASSUME NEW b \in Agents, Counts(b)'
               PROVE  /\ listing[b] \in {"seen", screen'[b]}
                      /\ \/ Recorded(mem, b)'
                         \/ b = at /\ pc' = "check" /\ mem'[b].text = screen'[b]
    BY <1>0 DEF RecordInv
  <2>1. CASE b = at
    BY <1>0, <1>c, <1>3, <1>6, <2>1 DEF Counts, Recorded
  <2>2. CASE b # at
    <3>1. Counts(b) /\ screen'[b] = screen[b]
      BY <1>0, <1>1, <1>2, <2>2 DEF Counts
    <3> QED BY <1>0, <1>c, <2>2, <3>1 DEF RecordInv, Recorded
  <2> QED BY <2>1, <2>2
<1>8. PromptInv'
  <2> SUFFICES ASSUME NEW b \in Agents, pressed'[b] > 0, screen'[b] \in W!Texts
               PROVE  W!Candidate(b, screen'[b])
    BY DEF PromptInv, W!Candidate
  <2>1. CASE b = at
    <3>1. screen'[at] = screen[at]
      BY <1>2, <2>1, WatchdogConstants
    <3>2. CASE pressed'[at] # pressed[at]
      BY <1>1, <1>3, <2>1, <3>1, <3>2
    <3>3. CASE pressed'[at] = pressed[at]
      BY <1>0, <2>1, <3>1, <3>3 DEF PromptInv
    <3> QED BY <3>2, <3>3
  <2>2. CASE b # at
    BY <1>1, <1>2, <2>2 DEF PromptInv
  <2> QED BY <2>1, <2>2
<1>9. EnterInv'
  BY <1>0, <1>c, <1>3 DEF EnterInv, W!Candidate
<1>10. W!EnterOnce'
  <2> SUFFICES ASSUME NEW b \in Agents PROVE pressed'[b] <= 1 \/ b \in lapsed
    BY <1>0 DEF W!EnterOnce
  <2>1. CASE b # at \/ pressed'[at] = pressed[at]
    BY <1>1, <2>1 DEF W!EnterOnce
  <2>2. CASE b = at /\ pressed'[at] # pressed[at]
    <3>1. screen[at] \in W!Texts /\ pressed'[at] = pressed[at] + 1
      BY <1>1, <1>3, <2>2
    <3>2. ~(pressed[at] > 0) \/ at \in lapsed
      BY <1>4, <3>1 DEF Counts
    <3> QED BY <1>0, <2>2, <3>1, <3>2, WatchdogTypes
  <2> QED BY <2>1, <2>2
<1> QED BY <1>5, <1>7, <1>8, <1>9, <1>10

LEMMA CheckInv ==
  ASSUME WatchdogInv, W!ReadBefore \/ W!Refused \/ W!Check
  PROVE  WatchdogInv'
<1> USE DEF WatchdogInv
<1> DEFINE m == [mem[at] EXCEPT !.sent = "recent"]
<1>1. at \in Agents /\ m \in Records /\ m.text = mem[at].text /\ m.sent = "recent"
  BY WatchdogTypes DEF Records, W!TypeOK
<1>2. /\ UNCHANGED <<screen, file, listing, at, pressed, lapsed, retyped>>
      /\ pc \in {"read", "press", "check"}
      /\ IF pc = "check" THEN pc' \in {"fallback", "loop"} ELSE pc' \in {"press", "refused"}
      /\ pc' # "loop" => mem' = mem
      /\ pc' = "loop" => mem' = [mem EXCEPT ![at] = m]
      /\ before' \in W!Screens
  BY <1>1, WatchdogTypes
     DEF W!ReadBefore, W!Refused, W!Check, W!ghosts, W!memory, W!Submitted, W!Screens
<1> HIDE DEF m
<1>3. /\ mem' \in [Agents -> Records] /\ \A b \in Agents : b # at => mem'[b] = mem[b]
      /\ mem'[at].text = mem[at].text
      /\ pc' = "loop" => mem'[at].sent = "recent"
  BY <1>1, <1>2, WatchdogTypes
<1>4. W!TypeOK'
  BY <1>2, <1>3 DEF W!TypeOK, Records
<1>5. RecordInv'
  <2> SUFFICES ASSUME NEW b \in Agents, Counts(b)
               PROVE  /\ listing[b] \in {"seen", screen[b]}
                      /\ \/ Recorded(mem, b)'
                         \/ b = at /\ pc' = "fallback" /\ mem'[b].text = screen[b]
    BY <1>2 DEF RecordInv, Counts
  <2>1. /\ listing[b] \in {"seen", screen[b]}
        /\ Recorded(mem, b) \/ (b = at /\ pc = "check" /\ mem[b].text = screen[b])
    BY <1>2 DEF RecordInv
  <2>2. CASE b # at
    BY <1>2, <1>3, <2>1, <2>2 DEF Recorded
  <2>3. CASE b = at
    BY <1>2, <1>3, <2>1, <2>3 DEF Recorded
  <2> QED BY <2>1, <2>2, <2>3
<1>6. EnterInv'
  BY <1>2 DEF EnterInv, W!Candidate
<1> QED BY <1>2, <1>4, <1>5, <1>6, QuietStep

LEMMA FallbackInv ==
  ASSUME WatchdogInv, W!Fallback
  PROVE  WatchdogInv'
<1> USE DEF WatchdogInv
<1> DEFINE m == [mem[at] EXCEPT !.sent = "recent"]
<1>1. at \in Agents /\ m \in Records /\ m.text = mem[at].text /\ m.sent = "recent"
  BY WatchdogTypes DEF Records, W!TypeOK
<1>2. /\ UNCHANGED <<file, listing, at, before, pressed, lapsed, retyped>>
      /\ pc = "fallback" /\ pc' = "loop" /\ mem' = [mem EXCEPT ![at] = m] /\ W!EnterKey(at)
  BY DEF W!Fallback, W!ghosts, W!look, W!Submitted
<1> HIDE DEF m
<1>3. /\ mem' \in [Agents -> Records] /\ \A b \in Agents : b # at => mem'[b] = mem[b]
      /\ mem'[at].text = mem[at].text /\ mem'[at].sent = "recent"
  BY <1>1, <1>2, WatchdogTypes
<1>4. /\ screen' \in [Agents -> W!Screens]
      /\ \A b \in Agents : b # at => screen'[b] = screen[b]
      /\ screen'[at] \in {screen[at], "quiet"}
  BY <1>1, <1>2, WatchdogTypes DEF W!EnterKey, W!Screens
<1>5. W!TypeOK'
  BY <1>2, <1>3, <1>4 DEF W!TypeOK, Records
<1>6. \A b \in Agents : screen'[b] \in W!Texts => screen'[b] = screen[b]
  BY <1>4, WatchdogConstants
<1>7. RecordInv'
  <2> SUFFICES ASSUME NEW b \in Agents, Counts(b), screen'[b] = screen[b]
               PROVE  listing[b] \in {"seen", screen[b]} /\ Recorded(mem, b)'
    BY <1>2, <1>6 DEF RecordInv, Counts
  <2>1. /\ listing[b] \in {"seen", screen[b]}
        /\ Recorded(mem, b) \/ (b = at /\ mem[b].text = screen[b])
    BY <1>2 DEF RecordInv
  <2> QED BY <1>3, <2>1 DEF Recorded
<1>8. PromptInv'
  BY <1>2, <1>6 DEF PromptInv, W!Candidate
<1>9. EnterInv'
  BY <1>2 DEF EnterInv
<1>10. W!EnterOnce'
  BY <1>2 DEF W!EnterOnce
<1> QED BY <1>5, <1>7, <1>8, <1>9, <1>10

LEMMA SaveInv ==
  ASSUME WatchdogInv, W!Save \/ W!SaveTorn \/ W!TimePasses \/ W!Start
  PROVE  WatchdogInv'
<1> USE DEF WatchdogInv
<1>1. CASE W!Save
  <2>0. /\ pc = "loop" /\ W!todo = {} /\ pc' = "sleep" /\ mem' = W!Nothing
        /\ file' = W!Remembered /\ listing' = W!NoListing
        /\ UNCHANGED <<screen, at, before, pressed, lapsed, retyped>>
    BY <1>1 DEF W!Save, W!ghosts
  <2>1. W!Remembered \in [Agents -> Records]
    BY WatchdogTypes DEF W!Remembered, W!Fresh, Records
  <2>2. W!TypeOK'
    BY <2>0, <2>1, WatchdogTypes DEF W!TypeOK, Records
  <2>3. ASSUME NEW a \in Agents, Counts(a) PROVE Recorded(file, a)'
    <3>1. listing[a] \in {"seen", screen[a]} /\ Recorded(mem, a) /\ screen[a] # "gone"
      BY <2>0, <2>3, WatchdogConstants DEF RecordInv, Counts
    <3>2. file'[a] = mem[a]
      <4>1. CASE listing[a] = "gone"
        <5>1. "gone" = "seen"
          BY <3>1, <4>1
        <5> QED BY <5>1
      <4>2. CASE listing[a] # "gone"
        BY <2>0, <4>2 DEF W!Remembered
      <4> QED BY <4>1, <4>2
    <3> QED BY <2>0, <3>1, <3>2 DEF Recorded
  <2>4. RecordInv'
    BY <2>0, <2>3 DEF RecordInv, Counts
  <2>5. EnterInv'
    BY <2>0 DEF EnterInv
  <2> QED BY <2>0, <2>2, <2>4, <2>5, QuietStep
<1>2. CASE W!SaveTorn
  <2>0. /\ pc' = "down" /\ mem' = W!Nothing /\ file' = W!Nothing /\ listing' = W!NoListing
        /\ lapsed' = lapsed \cup {a \in Agents : pressed[a] > 0}
        /\ UNCHANGED <<screen, at, before, pressed, retyped>>
    BY <1>2 DEF W!SaveTorn
  <2>2. W!TypeOK'
    BY <2>0, WatchdogTypes DEF W!TypeOK, Records
  <2>3. RecordInv'
    BY <2>0 DEF RecordInv, Counts
  <2>4. EnterInv'
    BY <2>0 DEF EnterInv
  <2> QED BY <2>0, <2>2, <2>3, <2>4, QuietStep
<1>3. CASE W!TimePasses
  <2>0. /\ pc \in {"sleep", "down"}
        /\ file' = [a \in Agents |-> IF file[a].text = "none" THEN file[a] ELSE W!Aged(file[a])]
        /\ UNCHANGED <<screen, pc, mem, listing, at, before, pressed, lapsed, retyped>>
    BY <1>3 DEF W!TimePasses, W!look, W!ghosts
  <2>1. ASSUME NEW a \in Agents
        PROVE  /\ file'[a] \in Records /\ file'[a].text = file[a].text
               /\ file'[a].sent = "never" <=> file[a].sent = "never"
    <3>1. file[a] \in Records
      BY WatchdogTypes
    <3>2. /\ W!Aged(file[a]) \in Records /\ W!Aged(file[a]).text = file[a].text
          /\ W!Aged(file[a]).sent = "never" <=> file[a].sent = "never"
      BY <3>1 DEF W!Aged, Records
    <3> QED BY <2>0, <3>1, <3>2
  <2>2. W!TypeOK'
    <3>1. file' \in [Agents -> Records]
      BY <2>0, <2>1
    <3> QED BY <2>0, <3>1 DEF W!TypeOK, Records
  <2>3. RecordInv'
    BY <2>0, <2>1 DEF RecordInv, Counts, Recorded
  <2>4. EnterInv'
    BY <2>0 DEF EnterInv
  <2> QED BY <2>0, <2>2, <2>3, <2>4, QuietStep
<1>4. CASE W!Start
  <2>0. /\ pc = "down" /\ pc' = "sleep"
        /\ UNCHANGED <<screen, mem, file, listing, at, before, pressed, lapsed, retyped>>
    BY <1>4 DEF W!Start, W!look, W!ghosts, W!memory
  <2>2. W!TypeOK'
    BY <2>0 DEF W!TypeOK
  <2>3. RecordInv'
    BY <2>0 DEF RecordInv, Counts, Recorded
  <2>4. EnterInv'
    BY <2>0 DEF EnterInv
  <2> QED BY <2>0, <2>2, <2>3, <2>4, QuietStep
<1> QED BY <1>1, <1>2, <1>3, <1>4

LEMMA WatchdogStep ==
  ASSUME WatchdogInv, W!Next
  PROVE  WatchdogInv'
<1>1. ASSUME NEW a \in Agents, W!Quieten(a) \/ W!Vanish(a)
      PROVE  WatchdogInv'
  <2>1. PICK t \in {"quiet", "gone"} :
          /\ W!Shows(a, t) /\ retyped' = retyped \ {a}
          /\ UNCHANGED <<pc, mem, file, listing, at, before>>
    BY <1>1 DEF W!Quieten, W!Vanish, W!memory, W!look
  <2>2. t \in W!Screens /\ retyped' \in SUBSET Agents
    BY <2>1 DEF W!Screens, WatchdogInv, W!TypeOK
  <2> QED BY <2>1, <2>2, ShowsInv
<1>2. ASSUME NEW p \in Typed, W!Type(p[1], p[2])
      PROVE  WatchdogInv'
  <2>1. p[1] \in Agents /\ p[2] \in W!Screens
    BY ScreenToolsAssumption DEF W!WatchdogAssumption, W!Screens
  <2>2. /\ W!Shows(p[1], p[2]) /\ retyped' \in {retyped \cup {p[1]}, retyped \ {p[1]}}
        /\ UNCHANGED <<pc, mem, file, listing, at, before>>
    BY <1>2 DEF W!Type, W!memory, W!look
  <2>3. retyped' \in SUBSET Agents
    BY <2>1, <2>2 DEF WatchdogInv, W!TypeOK
  <2> QED BY <2>1, <2>2, <2>3, ShowsInv
<1>3. CASE W!Die \/ W!WriteRefused
  BY <1>3, DieInv DEF W!WriteRefused
<1> QED BY <1>1, <1>2, <1>3, ListInv, WatchdogLooks, PressInv, CheckInv, FallbackInv, SaveInv
        DEF W!Next, W!Tick

----------------------------------------------------------------------------
(* THE NEWLINE MONITOR *)

LEMMA MonitorConstants ==
  /\ Ceo \in Agents
  /\ <<"gone">> \notin N!Seen /\ <<"other">> \notin N!Seen
  /\ <<"none">> \notin N!Seen /\ <<"done">> \notin N!Seen
  /\ <<"gone">> # <<"done">> /\ <<"none">> # <<"done">>
  /\ <<"gone">> # <<"other">> /\ <<"done">> # <<"other">>
  /\ N!Seen \subseteq N!Screens /\ <<"gone">> \in N!Screens /\ <<"other">> \in N!Screens
  /\ Shown \subseteq Agents \X N!Screens
<1>1. \A x \in Directives \X {"typed", "working"} : Len(x) = 2
  OBVIOUS
<1>2. /\ Len(<<"gone">>) = 1 /\ Len(<<"other">>) = 1
      /\ Len(<<"none">>) = 1 /\ Len(<<"done">>) = 1
  OBVIOUS
<1>3. /\ <<"gone">> # <<"queued">> /\ <<"other">> # <<"queued">>
      /\ <<"none">> # <<"queued">> /\ <<"done">> # <<"queued">>
  OBVIOUS
<1>4. /\ <<"gone">> \notin N!Seen /\ <<"other">> \notin N!Seen
      /\ <<"none">> \notin N!Seen /\ <<"done">> \notin N!Seen
  BY <1>1, <1>2, <1>3 DEF N!Seen
<1>5. /\ <<"gone">> # <<"done">> /\ <<"none">> # <<"done">>
      /\ <<"gone">> # <<"other">> /\ <<"done">> # <<"other">>
  OBVIOUS
<1> QED BY <1>4, <1>5, ScreenToolsAssumption DEF N!MonitorAssumption, N!Screens

(* What the newline monitor keeps of a session.                            *)
Cases == [seen : N!Seen \cup {<<"none">>}, ripe : BOOLEAN, alert : {"never", "recent", "old"}]

LEMMA NewlineTypes ==
  ASSUME N!TypeOK
  PROVE  /\ mem \in [Agents -> Cases] /\ file \in [Agents -> Cases]
         /\ \A a \in Agents : mem[a] \in Cases /\ file[a] \in Cases
         /\ screen \in [Agents -> N!Screens]
         /\ listing \in [Agents -> N!Screens \cup {<<"done">>}]
         /\ N!None \in Cases /\ N!Nothing \in [Agents -> Cases]
         /\ N!NoListing \in [Agents -> N!Screens \cup {<<"done">>}]
<1>1. mem \in [Agents -> Cases] /\ file \in [Agents -> Cases]
  BY DEF N!TypeOK, Cases
<1>2. N!None \in Cases
  BY DEF N!None, Cases
<1> QED BY <1>1, <1>2, MonitorConstants DEF N!TypeOK, N!Nothing, N!NoListing

LEMMA ElapsedCase ==
  ASSUME NEW c \in Cases
  PROVE  N!Elapsed(c) \in Cases
<1>1. (c.seen \in N!Seen) \in BOOLEAN
  OBVIOUS
<1>2. PICK y \in BOOLEAN : y = (c.seen \in N!Seen)
  BY <1>1, Zenon
<1>3. PICK x \in {"never", "recent", "old"} :
        x = IF c.alert = "recent" THEN "old" ELSE c.alert
  BY DEF Cases
<1>4. N!Elapsed(c) = [c EXCEPT !.ripe = y, !.alert = x]
  BY <1>2, <1>3 DEF N!Elapsed
<1>5. [c EXCEPT !.ripe = y, !.alert = x] \in Cases
  BY DEF Cases
<1> QED BY <1>4, <1>5

LEMMA NewlineInit == N!Init => NewlineInv
<1> SUFFICES ASSUME N!Init PROVE NewlineInv
  OBVIOUS
<1>1. N!None \in Cases
  BY DEF N!None, Cases
<1>2. mem \in [Agents -> Cases] /\ file \in [Agents -> Cases]
  BY <1>1 DEF N!Init, N!Nothing
<1>3. /\ screen \in [Agents -> N!Screens]
      /\ listing \in [Agents -> N!Screens \cup {<<"done">>}] /\ at \in Agents
  BY MonitorConstants DEF N!Init, N!NoListing
<1>4. N!TypeOK
  BY <1>2, <1>3 DEF N!Init, N!TypeOK, Cases
<1> QED BY <1>4 DEF N!Init, NewlineInv, AlertInv, LateInv, RepeatInv, N!EntersSpaced

(* A step that presses no Enter and keeps the record of those that were.   *)
LEMMA NewlineQuiet ==
  ASSUME NewlineInv, N!TypeOK', UNCHANGED <<since, late, twice>>, slow' \in {slow, FALSE},
         excused \subseteq excused', AlertInv', RepeatInv'
  PROVE  NewlineInv'
BY DEF NewlineInv, LateInv, N!TypeOK, N!EntersSpaced

LEMMA ScreenChangesInv ==
  ASSUME NewlineInv, NEW a \in Agents, NEW s \in N!Screens, N!ScreenChanges(a, s)
  PROVE  NewlineInv'
<1> USE DEF NewlineInv
<1>1. /\ screen' \in [Agents -> N!Screens] /\ \A b \in Agents : b # a => screen'[b] = screen[b]
      /\ since' = since \ {a} /\ late' = late \ {a}
      /\ twice' = twice \ {a} /\ excused' = excused \ {a}
      /\ UNCHANGED <<pc, mem, file, listing, at, slow>>
  BY NewlineTypes DEF N!ScreenChanges, N!memory
<1>2. N!TypeOK'
  BY <1>1 DEF N!TypeOK
<1>3. AlertInv'
  BY <1>1 DEF AlertInv
<1>4. RepeatInv'
  BY <1>1 DEF RepeatInv
<1> QED BY <1>1, <1>2, <1>3, <1>4 DEF LateInv, N!EntersSpaced

LEMMA NewlineLookInv ==
  ASSUME NewlineInv, NEW a \in Agents, N!Looking(a), pc' = "loop", NEW m \in Cases,
         mem' = [mem EXCEPT ![a] = m], N!Quiet,
         a \in since \ (excused \cup late) => m = mem[a]
  PROVE  NewlineInv'
<1> USE DEF NewlineInv
<1>1. /\ pc = "loop" /\ listing' \in [Agents -> N!Screens \cup {<<"done">>}]
      /\ listing'[a] = <<"done">> /\ \A b \in Agents : b # a => listing'[b] = listing[b]
      /\ UNCHANGED <<screen, file, at, slow, since, late, twice, excused>>
  BY NewlineTypes DEF N!Looking, N!Quiet, N!ghosts
<1>2. /\ mem' \in [Agents -> Cases] /\ mem'[a] = m
      /\ \A b \in Agents : b # a => mem'[b] = mem[b]
  BY NewlineTypes
<1>3. N!TypeOK'
  BY <1>1, <1>2 DEF N!TypeOK, Cases
<1>4. AlertInv'
  <2> SUFFICES ASSUME NEW b \in Agents, b \in since \ (excused \cup late)
               PROVE  /\ screen[b] \in N!Seen
                      /\ listing'[b] \in {<<"done">>, screen[b]} /\ mem'[b].seen = screen[b]
                      /\ mem'[b].alert = "recent"
    BY <1>1 DEF AlertInv
  <2>1. /\ screen[b] \in N!Seen /\ listing[b] \in {<<"done">>, screen[b]}
        /\ mem[b].seen = screen[b] /\ mem[b].alert = "recent"
    BY <1>1 DEF AlertInv
  <2>2. CASE b = a
    BY <1>1, <1>2, <2>1, <2>2
  <2>3. CASE b # a
    BY <1>1, <1>2, <2>1, <2>3
  <2> QED BY <2>2, <2>3
<1>5. RepeatInv'
  BY DEF RepeatInv
<1> QED BY <1>1, <1>3, <1>4, <1>5, NewlineQuiet

LEMMA NewlineLooks ==
  ASSUME NewlineInv, NEW a \in Agents, N!Look(a)
  PROVE  NewlineInv'
<1>0. N!TypeOK
  BY DEF NewlineInv
<1>a. ASSUME N!Looking(a), a \in since \ (excused \cup late)
      PROVE  listing[a] = screen[a] /\ screen[a] \in N!Seen /\ mem[a].seen = listing[a]
  BY <1>a DEF N!Looking, NewlineInv, AlertInv
<1>1. CASE N!Forget(a)
  <2>1. /\ N!Looking(a) /\ listing[a] = <<"other">> /\ pc' = "loop"
        /\ mem' = [mem EXCEPT ![a] = N!None] /\ N!Quiet
    BY <1>1 DEF N!Forget, N!Looking
  <2>2. a \notin since \ (excused \cup late)
    BY <1>a, <2>1, MonitorConstants
  <2> QED BY <1>0, <2>1, <2>2, NewlineTypes, NewlineLookInv
<1>2. CASE N!Detect(a)
  <2> DEFINE m == [N!None EXCEPT !.seen = listing[a]]
  <2>1. /\ N!Looking(a) /\ listing[a] \in N!Seen /\ mem[a].seen # listing[a] /\ pc' = "loop"
        /\ mem' = [mem EXCEPT ![a] = m] /\ N!Quiet
    BY <1>2 DEF N!Detect, N!Looking
  <2>2. m \in Cases
    BY <2>1 DEF N!None, Cases
  <2>3. a \notin since \ (excused \cup late)
    BY <1>a, <2>1
  <2> HIDE DEF m
  <2> QED BY <2>1, <2>2, <2>3, NewlineLookInv
<1>3. CASE N!Wait(a)
  <2>1. N!Looking(a) /\ pc' = "loop" /\ mem' = mem /\ N!Quiet
    BY <1>3 DEF N!Wait, N!Looking
  <2>2. mem[a] \in Cases /\ mem' = [mem EXCEPT ![a] = mem[a]]
    BY <1>0, <2>1, NewlineTypes
  <2> QED BY <2>1, <2>2, NewlineLookInv
<1>4. CASE N!Repeat(a)
  <2>1. /\ N!Looking(a) /\ pc = "loop" /\ mem[a].seen = listing[a] /\ mem[a].alert # "recent"
        /\ listing[a] # <<"gone">> /\ listing[a] # <<"done">>
        /\ pc' = "enter" /\ at' = a
        /\ UNCHANGED <<screen, mem, file, slow, since, late, twice, excused>>
    BY <1>4 DEF N!Repeat, N!Looking, N!Due, N!memory, N!ghosts
  <2>2. /\ listing' \in [Agents -> N!Screens \cup {<<"done">>}]
        /\ listing'[a] = <<"done">> /\ \A b \in Agents : b # a => listing'[b] = listing[b]
    BY <1>0, <2>1, NewlineTypes DEF N!Looking
  <2>3. mem[a].seen \in N!Seen
    <3>1. mem[a].seen \in N!Seen \cup {<<"none">>}
      BY <1>0, NewlineTypes DEF Cases
    <3>2. listing[a] # <<"none">>
      <4>1. listing[a] \in N!Screens \cup {<<"done">>}
        BY <1>0, NewlineTypes
      <4>2. <<"none">> # <<"gone">> /\ <<"none">> # <<"other">>
        OBVIOUS
      <4> QED BY <4>1, <4>2, MonitorConstants DEF N!Screens
    <3> QED BY <2>1, <3>1, <3>2
  <2>4. N!TypeOK'
    BY <1>0, <2>1, <2>2 DEF N!TypeOK
  <2>5. AlertInv'
    BY <2>1, <2>2 DEF AlertInv, NewlineInv
  <2>6. RepeatInv'
    BY <2>1, <2>2, <2>3 DEF RepeatInv
  <2> QED BY <2>1, <2>4, <2>5, <2>6, NewlineQuiet
<1> QED BY <1>1, <1>2, <1>3, <1>4 DEF N!Look

(* An Enter for what is still there is the first one in its time.          *)
LEMMA NewlinePress ==
  ASSUME NewlineInv, N!Press
  PROVE  NewlineInv'
<1> USE DEF NewlineInv
<1>0. /\ pc = "enter" /\ pc' = "notify" /\ N!EnterKey(at) /\ at \in Agents
      /\ UNCHANGED <<mem, file, listing, at, slow>>
      /\ since' \subseteq since \cup {at} /\ since' \subseteq Agents /\ late' \subseteq Agents
      /\ at \in since' \ late' => (screen' = screen /\ screen[at] = mem[at].seen) \/ at \in since \ late
      /\ \A b \in Agents \ {at} : b \in since' \ late' => b \in since \ late
      /\ slow /\ since \subseteq late => since' \subseteq late'
      /\ twice' = IF screen[at] = mem[at].seen /\ at \in since THEN twice \cup {at} ELSE twice
      /\ excused' = IF screen[at] = mem[at].seen /\ at \in late THEN excused \cup {at} ELSE excused
  <2>1. /\ pc = "enter" /\ pc' = "notify" /\ N!EnterKey(at) /\ at \in Agents
        /\ UNCHANGED <<mem, file, listing, at, slow>>
        /\ twice' = IF screen[at] = mem[at].seen /\ at \in since THEN twice \cup {at} ELSE twice
        /\ excused' = IF screen[at] = mem[at].seen /\ at \in late THEN excused \cup {at} ELSE excused
    BY DEF N!Press, N!Aimed, N!memory, N!TypeOK
  <2>2. since \subseteq Agents /\ late \subseteq Agents /\ slow \in BOOLEAN
    BY DEF N!TypeOK
  <2>3. CASE screen' # screen /\ since' = since \ {at} /\ late' = late \ {at}
    BY <2>1, <2>2, <2>3
  <2>4. CASE /\ screen' = screen /\ screen[at] = mem[at].seen
             /\ since' = since \cup {at} /\ late' = IF slow THEN late \cup {at} ELSE late \ {at}
    BY <2>1, <2>2, <2>4
  <2>5. CASE UNCHANGED <<since, late>>
    BY <2>1, <2>2, <2>5
  <2> QED BY <2>3, <2>4, <2>5 DEF N!Press, N!Aimed
<1>1. /\ listing[at] = <<"done">> /\ mem[at].seen \in N!Seen /\ mem[at].alert # "recent"
  BY <1>0 DEF RepeatInv
<1>2. at \in since => at \in excused \cup late
  BY <1>0, <1>1 DEF AlertInv
<1>3. screen' \in [Agents -> N!Screens] /\ \A b \in Agents : b # at => screen'[b] = screen[b]
  <2>1. CASE screen' = screen
    BY <2>1, NewlineTypes
  <2>2. CASE screen' # screen
    <3> DEFINE s == IF Len(screen[at]) = 2 THEN <<screen[at][1], "working">> ELSE <<"other">>
    <3>1. screen[at] \in N!Seen /\ screen' = [screen EXCEPT ![at] = s]
      BY <1>0, <2>2 DEF N!EnterKey
    <3>2. s \in N!Screens
      <4>1. CASE Len(screen[at]) = 2
        <5>1. screen[at] \in Directives \X {"typed", "working"}
          <6>1. screen[at] # <<"queued">>
            BY <4>1
          <6> QED BY <3>1, <6>1 DEF N!Seen
        <5>2. screen[at][1] \in Directives
          BY <5>1
        <5> QED BY <4>1, <5>2, MonitorConstants DEF N!Seen, N!Screens
      <4>2. CASE Len(screen[at]) # 2
        BY <4>2, MonitorConstants
      <4> QED BY <4>1, <4>2
    <3> HIDE DEF s
    <3> QED BY <1>0, <3>1, <3>2, NewlineTypes
  <2> QED BY <2>1, <2>2
<1>4. N!TypeOK'
  BY <1>0, <1>3 DEF N!TypeOK
<1>5. AlertInv'
  <2> SUFFICES ASSUME NEW b \in Agents, b \in since' \ (excused' \cup late')
               PROVE  /\ screen'[b] \in N!Seen /\ listing[b] \in {<<"done">>, screen'[b]}
                      /\ mem[b].seen = screen'[b]
                      /\ mem[b].alert = "recent" \/ b = at
    BY <1>0 DEF AlertInv
  <2>1. CASE b = at
    <3>0. at \notin excused
      BY <1>0, <2>1
    <3>1. screen' = screen /\ screen[at] = mem[at].seen
      BY <1>0, <1>2, <2>1, <3>0
    <3> QED BY <1>1, <2>1, <3>1
  <2>2. CASE b # at
    <3>1. b \in since \ (excused \cup late)
      BY <1>0, <2>2
    <3> QED BY <1>0, <1>3, <2>2, <3>1 DEF AlertInv
  <2> QED BY <2>1, <2>2
<1>6. RepeatInv'
  BY <1>0, <1>1 DEF RepeatInv
<1>7. N!EntersSpaced'
  BY <1>0, <1>2 DEF N!EntersSpaced
<1>8. LateInv'
  BY <1>0 DEF LateInv
<1> QED BY <1>4, <1>5, <1>6, <1>7, <1>8

LEMMA NewlineAlerts ==
  ASSUME NewlineInv, N!PressFails \/ N!Notify \/ N!NotifyFails
  PROVE  NewlineInv'
<1> USE DEF NewlineInv
<1>1. CASE N!PressFails
  <2>1. /\ pc = "enter" /\ pc' = "notify"
        /\ UNCHANGED <<screen, mem, file, listing, at, slow, since, late, twice, excused>>
    BY <1>1 DEF N!PressFails, N!memory, N!ghosts
  <2> QED BY <2>1 DEF N!TypeOK, AlertInv, LateInv, RepeatInv, N!EntersSpaced
<1>2. CASE N!Notify
  <2> DEFINE m == [mem[at] EXCEPT !.alert = "recent"]
  <2>1. /\ pc = "notify" /\ pc' = "loop" /\ mem' = [mem EXCEPT ![at] = m] /\ at \in Agents
        /\ UNCHANGED <<screen, file, listing, at, slow, since, late, twice, excused>>
    BY <1>2 DEF N!Notify, N!Alerted, N!ghosts, N!TypeOK
  <2>2. m \in Cases /\ m.seen = mem[at].seen /\ m.alert = "recent"
    BY <2>1, NewlineTypes DEF Cases
  <2> HIDE DEF m
  <2>3. /\ mem' \in [Agents -> Cases] /\ \A b \in Agents : b # at => mem'[b] = mem[b]
        /\ mem'[at].seen = mem[at].seen /\ mem'[at].alert = "recent"
    BY <2>1, <2>2, NewlineTypes
  <2>4. N!TypeOK'
    BY <2>1, <2>3 DEF N!TypeOK, Cases
  <2>5. AlertInv'
    BY <2>1, <2>3 DEF AlertInv
  <2>6. RepeatInv'
    BY <2>1 DEF RepeatInv
  <2> QED BY <2>1, <2>4, <2>5, <2>6, NewlineQuiet
<1>3. CASE N!NotifyFails
  <2>1. /\ pc = "notify" /\ pc' = "loop" /\ excused' = excused \cup {at} /\ at \in Agents
        /\ UNCHANGED <<screen, mem, file, listing, at, slow, since, late, twice>>
    BY <1>3 DEF N!NotifyFails, N!memory, N!TypeOK
  <2>2. N!TypeOK'
    BY <2>1 DEF N!TypeOK
  <2>3. AlertInv' /\ RepeatInv'
    BY <2>1 DEF AlertInv, RepeatInv
  <2> QED BY <2>1, <2>2, <2>3, NewlineQuiet
<1> QED BY <1>1, <1>2, <1>3

LEMMA NewlineTicks ==
  ASSUME NewlineInv, N!Die \/ N!Start \/ N!List \/ N!Save
  PROVE  NewlineInv'
<1> USE DEF NewlineInv
<1>1. CASE N!Die
  <2>1. /\ pc' = "down" /\ mem' = N!Nothing /\ listing' = N!NoListing
        /\ slow' = FALSE /\ excused' = excused \cup since
        /\ UNCHANGED <<screen, file, at, since, late, twice>>
    BY <1>1 DEF N!Die
  <2>2. N!TypeOK'
    BY <2>1, NewlineTypes DEF N!TypeOK, Cases
  <2>3. AlertInv' /\ RepeatInv'
    BY <2>1 DEF AlertInv, RepeatInv
  <2> QED BY <2>1, <2>2, <2>3, NewlineQuiet
<1>2. CASE N!Start
  <2>1. /\ pc = "down" /\ pc' = "sleep"
        /\ UNCHANGED <<screen, mem, file, listing, at, slow, since, late, twice, excused>>
    BY <1>2 DEF N!Start, N!memory, N!ghosts
  <2> QED BY <2>1 DEF N!TypeOK, AlertInv, LateInv, RepeatInv, N!EntersSpaced
<1>3. CASE N!List
  <2>1. /\ pc = "sleep" /\ pc' = "loop" /\ mem' = file /\ listing' = screen
        /\ UNCHANGED <<screen, file, at, slow, since, late, twice, excused>>
    BY <1>3 DEF N!List, N!Quiet, N!ghosts
  <2>2. N!TypeOK'
    BY <2>1, NewlineTypes DEF N!TypeOK, Cases
  <2>3. AlertInv' /\ RepeatInv'
    BY <2>1 DEF AlertInv, RepeatInv
  <2> QED BY <2>1, <2>2, <2>3, NewlineQuiet
<1>4. CASE N!Save
  <2>1. /\ pc = "loop" /\ pc' = "sleep" /\ mem' = N!Nothing /\ listing' = N!NoListing
        /\ file' = [a \in Agents |-> IF listing[a] = <<"gone">> THEN N!None
                                     ELSE IF slow THEN N!Elapsed(mem[a]) ELSE mem[a]]
        /\ slow' = FALSE
        /\ UNCHANGED <<screen, at, since, late, twice, excused>>
    BY <1>4 DEF N!Save, N!Unlisted
  <2>2. file' \in [Agents -> Cases]
    BY <2>1, NewlineTypes, ElapsedCase
  <2>3. N!TypeOK'
    BY <2>1, <2>2, NewlineTypes DEF N!TypeOK, Cases
  <2>4. ASSUME NEW a \in Agents, a \in since \ (excused \cup late)
        PROVE  screen[a] \in N!Seen /\ file'[a].seen = screen[a] /\ file'[a].alert = "recent"
    <3>1. /\ screen[a] \in N!Seen /\ listing[a] \in {<<"done">>, screen[a]}
          /\ mem[a].seen = screen[a] /\ mem[a].alert = "recent"
      BY <2>1, <2>4 DEF AlertInv
    <3>2. listing[a] # <<"gone">> /\ ~slow
      BY <2>4, <3>1, MonitorConstants DEF LateInv
    <3> QED BY <2>1, <3>1, <3>2
  <2>5. AlertInv' /\ RepeatInv'
    BY <2>1, <2>4 DEF AlertInv, RepeatInv
  <2> QED BY <2>1, <2>3, <2>5, NewlineQuiet
<1> QED BY <1>1, <1>2, <1>3, <1>4

LEMMA NewlineTime ==
  ASSUME NewlineInv, N!ThresholdPasses \/ N!RepeatPasses \/ N!Hangs
  PROVE  NewlineInv'
<1> USE DEF NewlineInv
<1>1. CASE N!ThresholdPasses
  <2>1. /\ pc \in {"sleep", "down"}
        /\ file' = [a \in Agents |-> [file[a] EXCEPT !.ripe = file[a].seen \in N!Seen]]
        /\ UNCHANGED <<screen, pc, mem, listing, at, slow, since, late, twice, excused>>
    BY <1>1 DEF N!ThresholdPasses, N!ghosts
  <2>2. ASSUME NEW a \in Agents
        PROVE  /\ file'[a] \in Cases
               /\ file'[a].seen = file[a].seen /\ file'[a].alert = file[a].alert
    <3>1. file[a] \in Cases /\ (file[a].seen \in N!Seen) \in BOOLEAN
      BY NewlineTypes
    <3> QED BY <2>1, <3>1 DEF Cases
  <2>3. file' \in [Agents -> Cases]
    BY <2>1, <2>2
  <2>4. N!TypeOK'
    BY <2>1, <2>3 DEF N!TypeOK, Cases
  <2>5. AlertInv' /\ RepeatInv'
    BY <2>1, <2>2 DEF AlertInv, RepeatInv
  <2> QED BY <2>1, <2>4, <2>5, NewlineQuiet
<1>2. CASE N!RepeatPasses \/ N!Hangs
  <2>1. /\ since' = {} /\ late' = {} /\ slow' \in {slow, TRUE}
        /\ file' = [a \in Agents |-> N!Elapsed(file[a])]
        /\ UNCHANGED <<screen, pc, mem, listing, at, twice, excused>>
    BY <1>2 DEF N!RepeatPasses, N!Hangs
  <2>2. file' \in [Agents -> Cases]
    BY <2>1, NewlineTypes, ElapsedCase
  <2>3. N!TypeOK'
    BY <2>1, <2>2 DEF N!TypeOK, Cases
  <2>4. AlertInv' /\ LateInv' /\ RepeatInv'
    BY <2>1 DEF AlertInv, LateInv, RepeatInv
  <2> QED BY <2>1, <2>3, <2>4 DEF N!EntersSpaced
<1> QED BY <1>1, <1>2

LEMMA NewlineStep ==
  ASSUME NewlineInv, N!Next
  PROVE  NewlineInv'
<1>1. ASSUME NEW p \in Shown, N!ScreenChanges(p[1], p[2])
      PROVE  NewlineInv'
  <2>1. p[1] \in Agents /\ p[2] \in N!Screens
    BY MonitorConstants
  <2> QED BY <1>1, <2>1, ScreenChangesInv
<1> QED BY <1>1, NewlineLooks, NewlinePress, NewlineAlerts, NewlineTicks, NewlineTime
        DEF N!Next, N!Tick

----------------------------------------------------------------------------
(* THE CHECK FOR LOST INPUT *)

LEMMA LossCheckInit == I!Init => LossCheckInv
<1> SUFFICES ASSUME I!Init PROVE LossCheckInv
  OBVIOUS
<1>1. log \in BOOLEAN
  BY DEF I!Init
<1>2. I!TypeOK
  BY <1>1 DEF I!Init, I!TypeOK, I!Stages, I!Texts, I!Looks
<1>3. KeptInv /\ FieldInv /\ LogInv /\ VerdictInv
  BY DEF I!Init, KeptInv, FieldInv, LogInv, VerdictInv, Untyped, I!Editing, Ending, I!Looks, Later,
     I!PassMeansKept, I!ReproducedMeansLost
<1> QED BY <1>2, <1>3 DEF LossCheckInv

(* The stages, as they follow one another.                                 *)
LEMMA Stages ==
  /\ I!Stages = Untyped \cup I!Editing \cup Ending \cup {"close", "over"}
  /\ I!Begun = {"clear", "type"} \cup I!Editing \cup Ending
  /\ Later("typed") = {"shrink", "shrunk", "restore", "restored", "reload", "reloaded",
                       "retype", "entered", "enter", "judge"}
  /\ Later("shrunk") = {"restore", "restored", "reload", "reloaded", "retype", "entered",
                        "enter", "judge"}
  /\ Later("restored") = {"reload", "reloaded", "retype", "entered", "enter", "judge"}
  /\ Later("reloaded") = {"retype", "entered", "enter", "judge"}
  /\ Later("entered") = {"enter", "judge"}
BY DEF I!Stages, I!Begun, I!Looks, Untyped, I!Editing, Ending, Later

(* Where the check goes on, what it has found is behind it as before.      *)
LEMMA KeptBehind ==
  ASSUME I!TypeOK, KeptInv, kept' = kept,
         pc' \in {pc, "close", "over"} \/ \A l \in I!Looks : pc \in Later(l) => pc' \in Later(l),
         pc \in {"close", "over"} => pc' \in {"close", "over"}
  PROVE  KeptInv'
<1> SUFFICES ASSUME NEW l \in kept PROVE pc' \in Later(l) \cup {"close", "over"}
  BY DEF KeptInv, Later
<1>1. l \in I!Looks /\ pc \in Later(l) \cup {"close", "over"}
  BY DEF I!TypeOK, KeptInv
<1> QED BY <1>1

LEMMA MissedBehind ==
  ASSUME Missed, kept' = kept, \A l \in I!Looks : pc \in Later(l) => pc' \in Later(l)
  PROVE  Missed'
<1>1. PICK l \in I!Looks \ kept : pc \in Later(l)
  BY DEF Missed
<1>2. l \in I!Looks \ kept' /\ pc' \in Later(l)
  BY <1>1
<1> QED BY <1>2 DEF Missed, Later

(* A step that changes neither the draft nor what was found.               *)
LEMMA StagePasses ==
  ASSUME LossCheckInv, UNCHANGED <<stored, log, absent, lost, sent, old, kept, verdict, status>>,
         field' \in {field, stored, "none"}, I!TypeOK',
         \/ pc' = pc
         \/ pc' \in {"close", "over"}
         \/ pc \in Untyped \ {"type"} /\ pc' \in Untyped
         \/ pc = "shrink" /\ pc' = "shrunk"
         \/ pc = "restore" /\ pc' = "restored",
         pc \in {"close", "over"} => pc' \in {"close", "over"}
  PROVE  LossCheckInv'
<1>0. KeptInv'
  <2>1. CASE pc \in Untyped \ {"type"} /\ pc' \in Untyped
    <3>1. \A l \in I!Looks : pc \notin Later(l)
      BY <2>1, Stages DEF I!Looks, Untyped
    <3> QED BY <2>1, <3>1, KeptBehind DEF LossCheckInv, Untyped
  <2>2. CASE \/ pc = "shrink" /\ pc' = "shrunk"
             \/ pc = "restore" /\ pc' = "restored"
    <3>1. \A l \in I!Looks : pc \in Later(l) => pc' \in Later(l)
      BY <2>2, Stages DEF I!Looks
    <3> QED BY <2>2, <3>1, KeptBehind DEF LossCheckInv
  <2> QED BY <2>1, <2>2, KeptBehind DEF LossCheckInv
<1>1. VerdictInv'
  BY DEF LossCheckInv, VerdictInv, I!PassMeansKept, I!ReproducedMeansLost, Untyped
<1>2. LogInv'
  BY DEF LossCheckInv, LogInv, Untyped
<1>3. FieldInv'
  <2>1. "gone" \in lost /\ pc' \in I!Editing \cup Ending =>
          Missed' \/ (pc' \in I!Editing /\ "text" \notin {field', stored})
    <3> SUFFICES ASSUME "gone" \in lost, pc' \in I!Editing \cup Ending
                 PROVE  Missed' \/ (pc' \in I!Editing /\ "text" \notin {field', stored})
      OBVIOUS
    <3>1. \/ pc' = pc
          \/ pc = "shrink" /\ pc' = "shrunk"
          \/ pc = "restore" /\ pc' = "restored"
      BY DEF I!Editing, Ending, Untyped, I!Looks
    <3>2. Missed \/ (pc \in I!Editing /\ "text" \notin {field, stored})
      BY <3>1 DEF LossCheckInv, FieldInv, I!Editing, I!Looks
    <3>3. CASE Missed
      <4>1. \A l \in I!Looks : pc \in Later(l) => pc' \in Later(l)
        BY <3>1, Stages DEF I!Looks
      <4> QED BY <3>3, <4>1, MissedBehind
    <3>4. CASE pc \in I!Editing /\ "text" \notin {field, stored}
      BY <3>1, <3>4 DEF I!Editing, I!Looks
    <3> QED BY <3>2, <3>3, <3>4
  <2>2. "draft" \notin old /\ "changed" \notin lost =>
          /\ pc' \in Untyped => field' \in {"empty", "none"} /\ stored = "empty"
          /\ pc' \in I!Editing \ Later("reloaded") /\ "type" \notin absent =>
               field' \in {"text", "none"} /\ stored = "text"
          /\ pc' \in Later("reloaded") /\ absent = {} => "reloaded" \in kept
    BY Stages DEF LossCheckInv, FieldInv, I!Editing, Untyped, I!Looks
  <2> QED BY <2>1, <2>2 DEF FieldInv, Later
<1> QED BY <1>0, <1>1, <1>2, <1>3 DEF LossCheckInv

LEMMA PassingStages ==
  ASSUME LossCheckInv,
         \/ I!Launch \/ I!Ready \/ I!NotReady \/ I!Connect \/ I!ConnectFails \/ I!Clear
         \/ I!Resize("shrink", "shrunk") \/ I!Resize("restore", "restored")
         \/ I!Fails \/ I!Close \/ I!Silent
         \/ I!BrowserGoes \/ I!BrowserMute \/ I!ComposerComes
  PROVE  LossCheckInv'
<1> USE DEF I!Rest, I!composer, I!ghosts, I!report
<1>0. I!TypeOK
  BY DEF LossCheckInv
<1>1. CASE I!Launch \/ I!Ready \/ I!Connect \/ I!Clear
  <2>1. /\ UNCHANGED <<field, stored, log, absent, lost, sent, old, kept, verdict, status, exit>>
        /\ pc \in Untyped \ {"type"} /\ pc' \in Untyped
        /\ chrome' \in {chrome, "starting", "up"} /\ focus' \in {focus, field # "none"}
    BY <1>1 DEF I!Launch, I!Ready, I!Connect, I!Clear, I!Answers, Untyped
  <2>2. focus' \in BOOLEAN /\ (focus' => field' # "none")
    BY <1>0, <2>1 DEF I!TypeOK
  <2>3. I!TypeOK'
    BY <1>0, <2>1, <2>2, Stages DEF I!TypeOK
  <2> QED BY <2>1, <2>3, StagePasses DEF Untyped
<1>2. CASE I!NotReady \/ I!ConnectFails \/ I!Fails \/ I!Close \/ I!Silent
  <2>1. /\ UNCHANGED <<stored, log, absent, lost, sent, old, kept, verdict, status>>
        /\ \/ field' = field /\ focus' = focus
           \/ field' = "none" /\ focus' = FALSE
        /\ pc' \in {"close", "over"} /\ chrome' \in {chrome, "gone"} /\ exit' \in {exit, 0, 1}
    BY <1>2 DEF I!NotReady, I!ConnectFails, I!Fails, I!Close, I!Silent, I!Throw
  <2>2. /\ field' \in I!Texts \cup {"none"} /\ focus' \in BOOLEAN /\ (focus' => field' # "none")
    <3>1. CASE field' = field /\ focus' = focus
      BY <1>0, <3>1 DEF I!TypeOK
    <3>2. CASE field' = "none" /\ focus' = FALSE
      BY <3>2
    <3> QED BY <2>1, <3>1, <3>2
  <2>3. chrome' \in {"none", "starting", "up", "mute", "gone"} /\ log' \in BOOLEAN
    BY <1>0, <2>1 DEF I!TypeOK
  <2>5. pc' \in I!Stages /\ exit' \in {0, 1, 9}
    BY <1>0, <2>1, Stages DEF I!TypeOK
  <2>6. I!TypeOK'
    BY <1>0, <2>1, <2>2, <2>3, <2>5 DEF I!TypeOK
  <2>4. field' \in {field, stored, "none"}
    BY <2>1
  <2> QED BY <2>1, <2>4, <2>6, StagePasses
<1>3. CASE I!Resize("shrink", "shrunk") \/ I!Resize("restore", "restored")
  <2>1. /\ UNCHANGED <<field, focus, stored, log, absent, lost, sent, old, kept, verdict,
                       status, exit, chrome>>
        /\ \/ pc = "shrink" /\ pc' = "shrunk"
           \/ pc = "restore" /\ pc' = "restored"
    BY <1>3 DEF I!Resize, I!Answers
  <2>2. I!TypeOK'
    BY <1>0, <2>1 DEF I!TypeOK, I!Stages, I!Looks
  <2> QED BY <2>1, <2>2, StagePasses
<1>4. CASE I!BrowserGoes \/ I!BrowserMute \/ I!ComposerComes
  <2>1. /\ UNCHANGED <<stored, log, absent, lost, sent, old, kept, verdict, status, exit, pc>>
        /\ field' \in {field, stored, "none"} /\ chrome' \in {chrome, "gone", "mute"}
    BY <1>4 DEF I!BrowserGoes, I!BrowserMute, I!ComposerComes
  <2>2. /\ field' \in I!Texts \cup {"none"} /\ focus' \in BOOLEAN /\ (focus' => field' # "none")
    <3>1. CASE I!BrowserGoes
      BY <3>1 DEF I!BrowserGoes
    <3>2. CASE I!BrowserMute
      BY <1>0, <3>2 DEF I!BrowserMute, I!TypeOK
    <3>3. CASE I!ComposerComes
      BY <1>0, <3>3 DEF I!ComposerComes, I!TypeOK, I!Texts
    <3> QED BY <1>4, <3>1, <3>2, <3>3
  <2>3. chrome' \in {"none", "starting", "up", "mute", "gone"} /\ log' \in BOOLEAN
    BY <1>0, <2>1 DEF I!TypeOK
  <2>4. I!TypeOK'
    BY <1>0, <2>1, <2>2, <2>3 DEF I!TypeOK
  <2> QED BY <2>1, <2>4, StagePasses
<1> QED BY <1>1, <1>2, <1>3, <1>4

(* When the page has lost the text, the next look finds it so.             *)
LEMMA PageInv ==
  ASSUME LossCheckInv,
         I!ComposerGoes \/ \E f, s \in I!Texts : I!PageChanges(f, s)
  PROVE  LossCheckInv'
<1>0. I!TypeOK
  BY DEF LossCheckInv
<1>1. /\ pc \in I!Begun /\ UNCHANGED <<pc, chrome, log, absent, sent, old, kept, verdict, status, exit>>
      /\ field' \in I!Texts \cup {"none"} /\ stored' \in I!Texts
      /\ focus' \in BOOLEAN /\ (focus' => field' # "none")
      /\ lost \subseteq lost' /\ lost' \subseteq {"changed", "gone"}
      /\ pc \notin I!Editing => lost' = lost
      /\ "text" \notin {field, stored} \/ "gone" \in lost' \ lost => "text" \notin {field', stored'}
      /\ "changed" \in lost' \/ pc \in Ending \/ (field' = "none" /\ stored' = stored)
  <2>1. CASE I!ComposerGoes
    BY <1>0, <2>1, Stages DEF I!ComposerGoes, I!Lose, I!report, I!TypeOK
  <2>2. ASSUME NEW f \in I!Texts, NEW s \in I!Texts, I!PageChanges(f, s)
        PROVE  <1>1!:
    <3>1. /\ pc \in I!Editing \cup Ending /\ field # "none" /\ field' = f /\ stored' = s
          /\ f \in {"empty", "other", field, stored}
          /\ s \in {"empty", "other", field, stored, f}
          /\ UNCHANGED <<pc, chrome, focus, log, absent, sent, old, kept, verdict, status, exit>>
      BY <2>2 DEF I!PageChanges, I!report, Ending
    <3>2. /\ pc \in I!Editing =>
               lost' = lost \cup {"changed"} \cup
                 (IF "text" \in {field, stored} /\ "text" \notin {f, s} THEN {"gone"} ELSE {})
          /\ pc \notin I!Editing => lost' = lost
      BY <2>2 DEF I!PageChanges
    <3>3. field' # "none" /\ focus' \in BOOLEAN
      BY <1>0, <3>1 DEF I!TypeOK, I!Texts
    <3>4. lost \subseteq lost' /\ lost' \subseteq {"changed", "gone"}
      BY <1>0, <3>2 DEF I!TypeOK
    <3>5. "text" \notin {field, stored} \/ "gone" \in lost' \ lost => "text" \notin {field', stored'}
      BY <3>1, <3>2
    <3> QED BY <3>1, <3>2, <3>3, <3>4, <3>5, Stages
  <2> QED BY <2>1, <2>2
<1>2. pc \notin {"close", "over"} /\ (pc \in Untyped => pc \notin I!Editing /\ pc \notin Ending)
  BY <1>1, Stages DEF I!Editing, I!Looks, Ending, Untyped
<1>3. I!TypeOK'
  BY <1>0, <1>1 DEF I!TypeOK
<1>4. VerdictInv'
  BY <1>1, <1>2 DEF LossCheckInv, VerdictInv, I!PassMeansKept, I!ReproducedMeansLost
<1>5. LogInv'
  BY <1>1, <1>2 DEF LossCheckInv, LogInv
<1>6. Missed' <=> Missed
  BY <1>1 DEF Missed, Later
<1>7. KeptInv'
  BY <1>0, <1>1, KeptBehind DEF LossCheckInv
<1>8. "gone" \in lost' /\ pc \in I!Editing \cup Ending =>
        Missed' \/ (pc \in I!Editing /\ "text" \notin {field', stored'})
  BY <1>1, <1>6 DEF LossCheckInv, FieldInv
<1>9. "draft" \notin old /\ "changed" \notin lost' =>
        /\ pc \in Untyped => field' \in {"empty", "none"} /\ stored' = "empty"
        /\ pc \in I!Editing \ Later("reloaded") /\ "type" \notin absent =>
             field' \in {"text", "none"} /\ stored' = "text"
        /\ pc \in Later("reloaded") /\ absent = {} => "reloaded" \in kept
  <2> SUFFICES ASSUME "draft" \notin old, "changed" \notin lost' PROVE <1>9!2
    OBVIOUS
  <2>1. "changed" \notin lost
    BY <1>1
  <2>2. pc \in Ending \/ (field' = "none" /\ stored' = stored)
    BY <1>1
  <2>3. pc \in Ending => pc \notin Untyped /\ pc \notin I!Editing
    BY DEF Ending, Untyped, I!Editing, I!Looks
  <2> QED BY <2>1, <2>2, <2>3 DEF LossCheckInv, FieldInv
<1>10. FieldInv'
  BY <1>1, <1>8, <1>9 DEF FieldInv, Later
<1> QED BY <1>3, <1>4, <1>5, <1>7, <1>10 DEF LossCheckInv

LEMMA TypeInv ==
  ASSUME LossCheckInv, I!Type
  PROVE  LossCheckInv'
<1>0. I!TypeOK
  BY DEF LossCheckInv
<1>1. /\ pc = "type" /\ pc' = "typed" /\ focus' = FALSE
      /\ UNCHANGED <<chrome, log, lost, sent, old, kept, verdict, status, exit>>
      /\ \/ /\ field # "none" /\ absent' = absent /\ stored' = field'
            /\ field' \in {"text", "other"} /\ (field = "empty" => field' = "text")
         \/ UNCHANGED <<field, stored>> /\ absent' = absent \cup {"type"}
  BY <1>0 DEF I!Type, I!Typing, I!Answers, I!report, I!TypeOK
<1>2. I!TypeOK'
  <2>1. /\ field' \in I!Texts \cup {"none"} /\ stored' \in I!Texts
        /\ absent' \subseteq {"type", "reloaded"}
    BY <1>0, <1>1 DEF I!TypeOK, I!Texts
  <2> QED BY <1>0, <1>1, <2>1 DEF I!TypeOK, I!Stages, I!Looks
<1>3. VerdictInv' /\ LogInv' /\ lost' = {}
  BY <1>1 DEF LossCheckInv, VerdictInv, LogInv, Untyped, I!PassMeansKept, I!ReproducedMeansLost
<1>4. pc \in Untyped /\ pc' \notin Untyped /\ pc' \notin Later("reloaded")
  BY <1>1, Stages DEF Untyped
<1>5. FieldInv'
  <2>1. "draft" \notin old /\ "changed" \notin lost /\ "type" \notin absent' =>
          field' \in {"text", "none"} /\ stored' = "text"
    BY <1>1, <1>4 DEF LossCheckInv, FieldInv
  <2> QED BY <1>1, <1>3, <1>4, <2>1 DEF FieldInv, Later
<1>6. KeptInv'
  <2>1. \A l \in I!Looks : pc \notin Later(l)
    BY <1>1, Stages DEF I!Looks
  <2> QED BY <1>0, <1>1, <2>1, KeptBehind DEF LossCheckInv
<1> QED BY <1>2, <1>3, <1>5, <1>6 DEF LossCheckInv

LEMMA LooksInv ==
  ASSUME LossCheckInv, NEW stage, NEW next, I!Look(stage, next),
         <<stage, next>> \in {<<"typed", "shrink">>, <<"shrunk", "restore">>,
                              <<"restored", "reload">>, <<"reloaded", "retype">>,
                              <<"entered", "enter">>}
  PROVE  LossCheckInv'
<1>0. I!TypeOK
  BY DEF LossCheckInv
<1>1. /\ pc = stage /\ pc' = next /\ stage \in I!Looks
      /\ kept' = (IF field = "text" THEN kept \cup {stage} ELSE kept)
      /\ absent' = IF field = "none" /\ stage = "reloaded" THEN absent \cup {stage} ELSE absent
      /\ UNCHANGED <<field, focus, stored, chrome, log, lost, sent, old, verdict, status, exit>>
  BY DEF I!Look, I!Answers, I!composer, I!report, I!Looks
<1>2. /\ stage \in I!Editing /\ next \in I!Editing \cup {"enter"} /\ next \in Later(stage)
      /\ \A l \in I!Looks : stage \in Later(l) => next \in Later(l) /\ l # stage
      /\ next \in Later("reloaded") => stage = "reloaded" \/ stage \in Later("reloaded")
      /\ next \notin Later("reloaded") => stage \notin Later("reloaded") /\ stage # "reloaded"
      /\ next \notin Untyped /\ stage \notin Untyped
      /\ stage \notin Later(stage) /\ stage \notin {"close", "over"}
  BY Stages DEF I!Looks, I!Editing, Untyped
<1>3. I!TypeOK'
  <2>1. absent' \subseteq {"type", "reloaded"} /\ kept' \subseteq I!Looks
    BY <1>0, <1>1 DEF I!TypeOK
  <2> QED BY <1>0, <1>1, <1>2, <2>1, Stages DEF I!TypeOK, Ending
<1>4. VerdictInv'
  BY <1>1 DEF LossCheckInv, VerdictInv, I!PassMeansKept, I!ReproducedMeansLost, I!Looks
<1>5. LogInv'
  BY <1>1, <1>2 DEF LossCheckInv, LogInv
<1>6. stage \notin kept
  BY <1>1, <1>2 DEF LossCheckInv, KeptInv
<1>7. KeptInv'
  <2> SUFFICES ASSUME NEW l \in kept' PROVE next \in Later(l)
    BY <1>1 DEF KeptInv, Later
  <2>1. l = stage \/ l \in kept
    BY <1>1
  <2>2. CASE l \in kept
    BY <1>0, <1>1, <1>2, <2>2 DEF LossCheckInv, KeptInv, I!TypeOK
  <2> QED BY <1>2, <2>1, <2>2
<1>8. "gone" \in lost => Missed'
  <2> SUFFICES ASSUME "gone" \in lost PROVE Missed'
    OBVIOUS
  <2>1. Missed \/ field # "text"
    BY <1>1, <1>2 DEF LossCheckInv, FieldInv
  <2>2. CASE field = "text"
    <3>1. PICK l \in I!Looks \ kept : pc \in Later(l)
      BY <2>1, <2>2 DEF Missed
    <3>2. l \in I!Looks \ kept' /\ pc' \in Later(l)
      BY <1>1, <1>2, <3>1
    <3> QED BY <3>2 DEF Missed, Later
  <2>3. CASE field # "text"
    <3>1. stage \in I!Looks \ kept' /\ pc' \in Later(stage)
      BY <1>1, <1>2, <1>6, <2>3
    <3> QED BY <3>1 DEF Missed, Later
  <2> QED BY <2>2, <2>3
<1>9. "draft" \notin old /\ "changed" \notin lost =>
        /\ pc' \in I!Editing \ Later("reloaded") /\ "type" \notin absent' =>
             field \in {"text", "none"} /\ stored = "text"
        /\ pc' \in Later("reloaded") /\ absent' = {} => "reloaded" \in kept'
  <2> SUFFICES ASSUME "draft" \notin old, "changed" \notin lost PROVE <1>9!2
    OBVIOUS
  <2>1. stage \notin Later("reloaded") /\ "type" \notin absent =>
          field \in {"text", "none"} /\ stored = "text"
    BY <1>1, <1>2 DEF LossCheckInv, FieldInv
  <2>2. stage \in Later("reloaded") /\ absent = {} => "reloaded" \in kept
    BY <1>1, <1>2 DEF LossCheckInv, FieldInv
  <2>3. pc' \notin Later("reloaded") => stage \notin Later("reloaded") /\ absent' = absent
    BY <1>1, <1>2
  <2>4. ASSUME stage = "reloaded", absent' = {} PROVE "reloaded" \in kept'
    <3>1. absent = {} /\ field # "none" /\ stage \notin Later("reloaded")
      BY <1>1, <1>2, <2>4
    <3> QED BY <1>1, <2>1, <2>4, <3>1
  <2>5. absent \subseteq absent' /\ kept \subseteq kept'
    BY <1>1
  <2> QED BY <1>1, <1>2, <2>1, <2>2, <2>3, <2>4, <2>5
<1>10. FieldInv'
  BY <1>1, <1>2, <1>8, <1>9 DEF FieldInv, Later
<1> QED BY <1>3, <1>4, <1>5, <1>7, <1>10 DEF LossCheckInv

LEMMA ReloadInv ==
  ASSUME LossCheckInv, I!Reload
  PROVE  LossCheckInv'
<1>0. I!TypeOK
  BY DEF LossCheckInv
<1>1. /\ pc = "reload" /\ pc' = "reloaded" /\ field' \in {stored, "none"} /\ focus' = FALSE
      /\ UNCHANGED <<stored, chrome, log, absent, sent, old, kept, verdict, status, exit>>
      /\ lost' = lost \cup
           IF "text" \in {field, stored} /\ "text" \notin {field', stored'} THEN {"gone"} ELSE {}
  BY DEF I!Reload, I!Answers, I!report, I!Lose
<1>2. \A l \in I!Looks : pc \in Later(l) => pc' \in Later(l)
  BY <1>1, Stages DEF I!Looks
<1>3. /\ pc \in I!Editing /\ pc' \in I!Editing /\ pc \notin Untyped /\ pc' \notin Untyped
      /\ pc \notin Later("reloaded") /\ pc' \notin Later("reloaded")
  BY <1>1, Stages DEF I!Editing, Untyped, I!Looks
<1>4. I!TypeOK'
  <2>1. pc' \in I!Stages /\ field' \in I!Texts \cup {"none"}
    BY <1>0, <1>1 DEF I!TypeOK, I!Stages, I!Looks, I!Texts
  <2>2. lost' \subseteq {"changed", "gone"}
    BY <1>0, <1>1 DEF I!TypeOK
  <2> QED BY <1>0, <1>1, <2>1, <2>2 DEF I!TypeOK
<1>5. VerdictInv' /\ LogInv'
  BY <1>1, <1>3 DEF LossCheckInv, VerdictInv, LogInv, I!PassMeansKept, I!ReproducedMeansLost
<1>6. KeptInv'
  BY <1>0, <1>1, <1>2, KeptBehind DEF LossCheckInv
<1>7. "gone" \in lost' => Missed' \/ "text" \notin {field', stored'}
  <2>1. CASE "gone" \in lost
    <3>1. Missed \/ "text" \notin {field, stored}
      BY <1>3, <2>1 DEF LossCheckInv, FieldInv
    <3> QED BY <1>1, <1>2, <3>1, MissedBehind
  <2>2. CASE "gone" \notin lost
    BY <1>1, <2>2
  <2> QED BY <2>1, <2>2
<1>8. "draft" \notin old /\ "changed" \notin lost' /\ "type" \notin absent =>
        field' \in {"text", "none"} /\ stored = "text"
  BY <1>1, <1>3 DEF LossCheckInv, FieldInv
<1>9. FieldInv'
  BY <1>1, <1>3, <1>7, <1>8 DEF FieldInv, Later
<1> QED BY <1>4, <1>5, <1>6, <1>9 DEF LossCheckInv

(* What is typed again was missed by a look.                               *)
LEMMA RetypeInv ==
  ASSUME LossCheckInv, I!Retype
  PROVE  LossCheckInv'
<1>0. I!TypeOK
  BY DEF LossCheckInv
<1>1. /\ pc = "retype" /\ pc' = "entered"
      /\ UNCHANGED <<focus, chrome, log, absent, lost, sent, old, kept, verdict, status, exit>>
      /\ field' \in {field, "text", "other"} /\ stored' \in {stored, field'}
      /\ field = "none" => field' = field /\ stored' = stored
      /\ field # "none" => field' # "none"
      /\ "reloaded" \in kept => field' = field /\ stored' = stored
  BY DEF I!Retype, I!Typing, I!Answers, I!report, I!composer, I!ghosts
<1>2. /\ \A l \in I!Looks : pc \in Later(l) => pc' \in Later(l)
      /\ "reloaded" \in I!Looks /\ pc \in Later("reloaded") /\ pc' \in Later("reloaded")
  BY <1>1, Stages DEF I!Looks
<1>3. pc \in I!Editing /\ pc' \in I!Editing /\ pc \notin Untyped /\ pc' \notin Untyped
  BY <1>1 DEF I!Editing, Untyped, I!Looks
<1>4. I!TypeOK'
  BY <1>0, <1>1 DEF I!TypeOK, I!Stages, I!Looks, I!Texts
<1>5. VerdictInv' /\ LogInv'
  BY <1>1, <1>3 DEF LossCheckInv, VerdictInv, LogInv, I!PassMeansKept, I!ReproducedMeansLost
<1>6. KeptInv'
  BY <1>0, <1>1, <1>2, KeptBehind DEF LossCheckInv
<1>7. "gone" \in lost => Missed' \/ "text" \notin {field', stored'}
  <2> SUFFICES ASSUME "gone" \in lost PROVE Missed' \/ "text" \notin {field', stored'}
    OBVIOUS
  <2>1. CASE "reloaded" \in kept
    BY <1>1, <1>2, <1>3, <2>1, MissedBehind DEF LossCheckInv, FieldInv
  <2>2. CASE "reloaded" \notin kept
    <3>1. "reloaded" \in I!Looks \ kept' /\ pc' \in Later("reloaded")
      BY <1>1, <1>2, <2>2
    <3> QED BY <3>1 DEF Missed, Later
  <2> QED BY <2>1, <2>2
<1>8. "draft" \notin old /\ "changed" \notin lost /\ absent = {} => "reloaded" \in kept
  BY <1>1, <1>2 DEF LossCheckInv, FieldInv
<1>9. FieldInv'
  BY <1>1, <1>2, <1>3, <1>7, <1>8 DEF FieldInv, Later
<1> QED BY <1>4, <1>5, <1>6, <1>9 DEF LossCheckInv

LEMMA EnterStepInv ==
  ASSUME LossCheckInv, I!Enter
  PROVE  LossCheckInv'
<1>0. I!TypeOK
  BY DEF LossCheckInv
<1>1. /\ pc = "enter" /\ pc' = "judge"
      /\ UNCHANGED <<chrome, focus, absent, lost, old, kept, verdict, status, exit>>
      /\ field' \in {field, "empty"} /\ stored' \in {stored, "empty"}
      /\ field = "none" => field' = "none"
      /\ field # "none" => field' # "none"
      /\ \/ sent' \in {"text", "other"} /\ log' \in {log, TRUE}
         \/ UNCHANGED <<log, sent>>
  BY DEF I!Enter, I!Answers, I!report
<1>2. /\ \A l \in I!Looks : pc \in Later(l) => pc' \in Later(l)
      /\ pc \in Later("reloaded") /\ pc' \in Later("reloaded")
  BY <1>1, Stages DEF I!Looks
<1>3. /\ pc \in Ending /\ pc' \in Ending /\ pc \notin I!Editing /\ pc' \notin I!Editing
      /\ pc' \notin Untyped
  BY <1>1 DEF I!Editing, Ending, Untyped, I!Looks
<1>4. I!TypeOK'
  <2>1. log' \in BOOLEAN /\ sent' \in {"nothing", "text", "other"}
    BY <1>0, <1>1 DEF I!TypeOK
  <2> QED BY <1>0, <1>1, <2>1 DEF I!TypeOK, I!Stages, I!Looks, I!Texts
<1>5. VerdictInv'
  BY <1>1 DEF LossCheckInv, VerdictInv, I!PassMeansKept, I!ReproducedMeansLost
<1>6. LogInv'
  <2>1. log' => sent' # "nothing" \/ "log" \in old
    <3>1. CASE sent' \in {"text", "other"}
      BY <3>1
    <3>2. CASE UNCHANGED <<log, sent>>
      BY <3>2 DEF LossCheckInv, LogInv
    <3> QED BY <1>1, <3>1, <3>2
  <2> QED BY <1>1, <1>3, <2>1 DEF LogInv
<1>7. KeptInv'
  BY <1>0, <1>1, <1>2, KeptBehind DEF LossCheckInv
<1>8. "gone" \in lost => Missed'
  BY <1>1, <1>2, <1>3, MissedBehind DEF LossCheckInv, FieldInv
<1>9. "draft" \notin old /\ "changed" \notin lost /\ absent = {} => "reloaded" \in kept
  BY <1>2 DEF LossCheckInv, FieldInv
<1>10. FieldInv'
  BY <1>1, <1>3, <1>8, <1>9 DEF FieldInv, Later
<1> QED BY <1>4, <1>5, <1>6, <1>7, <1>10 DEF LossCheckInv

(* All looks have found the text: no loss was missed.                      *)
LEMMA JudgeInv ==
  ASSUME LossCheckInv, I!Judge
  PROVE  LossCheckInv'
<1>0. I!TypeOK
  BY DEF LossCheckInv
<1>1. /\ pc = "judge" /\ pc' = "close" /\ exit' \in {exit, 1}
      /\ UNCHANGED <<field, focus, stored, chrome, log, absent, lost, sent, old, kept>>
      /\ verdict' = (IF I!Ok THEN "ok" ELSE "bad")
      /\ status' = (IF "reloaded" \in kept THEN "fixed" ELSE "reproduced")
  BY DEF I!Judge, I!Answers, I!Rest, I!composer, I!ghosts
<1>2. /\ pc \in Ending /\ pc \notin I!Editing /\ pc \in Later("reloaded")
      /\ pc' \notin Untyped \cup I!Editing \cup Ending /\ pc' \notin Later("reloaded")
  BY <1>1, Stages DEF I!Editing, Ending, Untyped, I!Looks
<1>3. I!TypeOK'
  BY <1>0, <1>1 DEF I!TypeOK, I!Stages, I!Looks
<1>4. verdict' = "ok" => "gone" \notin lost /\ (sent # "nothing" \/ "log" \in old)
  BY <1>1, <1>2 DEF LossCheckInv, FieldInv, LogInv, Missed, I!Ok
<1>5. status' = "reproduced" => "changed" \in lost \/ "draft" \in old \/ absent # {}
  BY <1>1, <1>2 DEF LossCheckInv, FieldInv
<1>6. VerdictInv'
  BY <1>0, <1>1, <1>4, <1>5 DEF VerdictInv, I!PassMeansKept, I!ReproducedMeansLost, I!TypeOK
<1>7. LogInv'
  BY <1>1, <1>2 DEF LossCheckInv, LogInv, Ending
<1>8. KeptInv'
  BY <1>0, <1>1, KeptBehind DEF LossCheckInv
<1>9. FieldInv'
  BY <1>1, <1>2 DEF FieldInv, Later
<1> QED BY <1>3, <1>6, <1>7, <1>8, <1>9 DEF LossCheckInv

LEMMA LossCheckStep == LossCheckInv /\ I!Next => LossCheckInv'
<1> SUFFICES ASSUME LossCheckInv, I!Next PROVE LossCheckInv'
  OBVIOUS
<1>1. CASE \/ I!Look("typed", "shrink") \/ I!Look("shrunk", "restore")
           \/ I!Look("restored", "reload") \/ I!Look("reloaded", "retype")
           \/ I!Look("entered", "enter")
  BY <1>1, LooksInv
<1> QED BY <1>1, PassingStages, PageInv, TypeInv, ReloadInv, RetypeInv, EnterStepInv, JudgeInv
        DEF I!Next, I!Step, I!Page

----------------------------------------------------------------------------
(* THE RESIDENT MONITOR *)

LEMMA ResidentConstants ==
  /\ \A s, t \in Agents : Title[s] # t
  /\ \A s \in Agents : s \in R!Keys /\ Title[s] \in R!Keys
  /\ \A p \in Drawn : p[1] \in Agents /\ p[2] \in R!Shows
  /\ \A p \in Chosen : p[1] \in Agents /\ p[2] \in Agents
<1>1. R!ResidentAssumption
  BY ScreenToolsAssumption
<1>2. \A s, t \in Agents : Title[s] # t
  BY <1>1 DEF R!ResidentAssumption
<1>3. \A s \in Agents : s \in R!Keys /\ Title[s] \in R!Keys
  BY DEF R!Keys
<1> QED BY <1>1, <1>2, <1>3 DEF R!ResidentAssumption

LEMMA ResidentInit == R!Init => ResidentInv
<1> SUFFICES ASSUME R!Init PROVE ResidentInv
  OBVIOUS
<1>1. R!TypeOK
  <2>1. /\ dom = [s \in Agents |-> "none"] /\ target = [s \in Agents |-> s]
        /\ before = [k \in R!Keys |-> "none"]
    BY DEF R!Init, R!Nothing
  <2>2. dom \in [Agents -> R!Shows] /\ before \in [R!Keys -> R!Shows]
    BY <2>1 DEF R!Shows
  <2>3. target \in [Agents -> Agents]
    BY <2>1
  <2> QED BY <2>2, <2>3 DEF R!Init, R!TypeOK
<1>2. SeenInv
  BY DEF R!Init, SeenInv
<1>3. BrowserInv /\ R!DropHasShown /\ R!BrowserAsFound
  BY DEF R!Init, BrowserInv, R!DropHasShown, R!BrowserAsFound
<1> QED BY <1>1, <1>2, <1>3 DEF ResidentInv

(* A step of the world, or one that looks at nothing.                      *)
LEMMA BlindStep ==
  ASSUME ResidentInv, R!TypeOK', UNCHANGED <<before, shown, once>>,
         alarm' \in {alarm, {}},
         chrome' = chrome \/ (pc = "start" /\ chrome' = "own" /\ chrome # "found" /\ alarm' = alarm),
         chrome = "found" \/ \A s \in Agents : target'[s] = s,
         pc' # "start" \/ pc' = pc,
         pc' = "wait" => pc \in {"start", "wait"},
         ready' # ready => pc' \notin {"start", "wait", "over"},
         pc' = "over" => (pc = "wait" /\ chrome' = chrome) \/ (pc = "over" /\ chrome' = chrome)
  PROVE  ResidentInv'
<1> USE DEF ResidentInv
<1>1. SeenInv'
  BY DEF SeenInv, R!Keys
<1>2. BrowserInv'
  BY DEF BrowserInv
<1>3. R!DropHasShown'
  BY DEF BrowserInv, R!DropHasShown
<1>4. R!BrowserAsFound'
  BY DEF BrowserInv, R!BrowserAsFound
<1> QED BY <1>1, <1>2, <1>3, <1>4

(* The server, the page and its user.                                      *)
LEMMA ResidentWorld ==
  ASSUME ResidentInv, R!World \/ R!Ages
  PROVE  ResidentInv'
<1>t. R!TypeOK
  BY DEF ResidentInv
<1>f. chrome # "found" => \A s \in Agents : target[s] = s
  BY DEF ResidentInv, SeenInv
<1>1. ASSUME NEW s \in Agents, R!Server(s) PROVE ResidentInv'
  <2>1. /\ UNCHANGED <<pc, once, chrome, dom, target, seen, before, alarm, latest, shown, old,
                       ready, exit>>
        /\ api' \subseteq Agents
    BY <1>1, <1>t DEF R!Server, R!page, R!memory, R!TypeOK
  <2>2. R!TypeOK'
    BY <1>t, <2>1 DEF R!TypeOK, R!Keys
  <2> QED BY <1>f, <2>1, <2>2, BlindStep
<1>2. ASSUME NEW p \in Drawn, R!Draws(p[1], p[2]) PROVE ResidentInv'
  <2>1. /\ UNCHANGED <<pc, once, chrome, api, target, seen, before, alarm, latest, shown, old,
                       ready, exit>>
        /\ dom' = [dom EXCEPT ![p[1]] = p[2]]
    BY <1>2 DEF R!Draws, R!memory, R!fixed
  <2>2. dom' \in [Agents -> R!Shows]
    BY <1>t, <2>1, ResidentConstants DEF R!TypeOK
  <2>3. R!TypeOK'
    BY <1>t, <2>1, <2>2 DEF R!TypeOK, R!Keys
  <2> QED BY <1>f, <2>1, <2>3, BlindStep
<1>3. ASSUME NEW p \in Chosen, R!Retarget(p[1], p[2]) PROVE ResidentInv'
  <2>1. /\ UNCHANGED <<pc, once, chrome, api, dom, seen, before, alarm, latest, shown, old,
                       ready, exit>>
        /\ chrome = "found" /\ target' = [target EXCEPT ![p[1]] = p[2]]
    BY <1>3 DEF R!Retarget, R!memory, R!fixed
  <2>2. target' \in [Agents -> Agents]
    BY <1>t, <2>1, ResidentConstants DEF R!TypeOK
  <2>3. R!TypeOK'
    BY <1>t, <2>1, <2>2 DEF R!TypeOK, R!Keys
  <2> QED BY <2>1, <2>3, BlindStep
<1>4. CASE R!Ages
  <2>1. /\ UNCHANGED <<pc, once, chrome, api, dom, target, seen, before, alarm, latest, shown,
                       ready, exit>>
        /\ old' \in BOOLEAN
    BY <1>4 DEF R!Ages, R!page, R!memory
  <2>2. R!TypeOK'
    BY <1>t, <2>1 DEF R!TypeOK, R!Keys
  <2> QED BY <1>f, <2>1, <2>2, BlindStep
<1> QED BY <1>1, <1>2, <1>3, <1>4 DEF R!World

(* The steps of the monitor between its samples.                           *)
LEMMA ResidentMoves ==
  ASSUME ResidentInv,
         \/ R!EnsureChrome \/ R!Ready \/ R!NotReady \/ R!EnsureWorkPage \/ R!Fails
         \/ R!FetchSessions \/ R!Stop
  PROVE  ResidentInv'
<1>t. R!TypeOK
  BY DEF ResidentInv
<1>f. chrome # "found" => \A s \in Agents : target[s] = s
  BY DEF ResidentInv, SeenInv
<1> USE DEF R!page, R!memory, R!fixed
<1>1. CASE R!EnsureChrome \/ R!Ready
  <2>1. /\ UNCHANGED <<once, api, dom, target, seen, before, alarm, latest, shown, old, exit>>
        /\ pc' \in {"wait", "page"} /\ ready' \in {ready, TRUE}
        /\ pc \in {"start", "wait"} /\ (ready' # ready => pc' = "page")
        /\ chrome' = chrome \/ (pc = "start" /\ chrome' = "own" /\ chrome # "found")
    BY <1>1 DEF R!EnsureChrome, R!Ready
  <2>2. R!TypeOK'
    BY <1>t, <2>1 DEF R!TypeOK, R!Keys
  <2> QED BY <1>f, <2>1, <2>2, BlindStep
<1>2. CASE R!NotReady \/ R!Fails \/ R!Stop
  <2>1. /\ UNCHANGED <<once, chrome, api, dom, target, seen, before, alarm, latest, shown, old,
                       ready>>
        /\ exit' \in {exit, 1}
        /\ pc' = "close" \/ (pc = "wait" /\ pc' = "over")
    BY <1>2 DEF R!NotReady, R!Fails, R!Stop
  <2>2. R!TypeOK'
    BY <1>t, <2>1 DEF R!TypeOK, R!Keys
  <2> QED BY <1>f, <2>1, <2>2, BlindStep
<1>3. CASE R!EnsureWorkPage
  <2>1. /\ UNCHANGED <<once, chrome, api, seen, before, alarm, latest, shown, old, ready, exit>>
        /\ pc' = "fetch" /\ dom' = [s \in Agents |-> "none"] /\ target' = [s \in Agents |-> s]
    BY <1>3 DEF R!EnsureWorkPage, R!Nothing
  <2>2. dom' \in [Agents -> R!Shows]
    BY <2>1 DEF R!Shows
  <2>3. target' \in [Agents -> Agents] /\ \A s \in Agents : target'[s] = s
    BY <2>1
  <2>4. R!TypeOK'
    BY <1>t, <2>1, <2>2, <2>3 DEF R!TypeOK, R!Keys
  <2> QED BY <2>1, <2>3, <2>4, BlindStep
<1>4. CASE R!FetchSessions
  <2>1. /\ UNCHANGED <<once, chrome, api, dom, target, before, shown, old, ready, exit>>
        /\ pc' = "look" /\ seen' = api /\ alarm' = {} /\ latest' = "none"
    BY <1>4 DEF R!FetchSessions
  <2>2. R!TypeOK'
    BY <1>t, <2>1 DEF R!TypeOK, R!Keys
  <2> QED BY <1>f, <2>1, <2>2, BlindStep
<1> QED BY <1>1, <1>2, <1>3, <1>4

(* The finally block: the end of a browser of its own.                     *)
LEMMA ResidentEnds ==
  ASSUME ResidentInv, R!Finally
  PROVE  ResidentInv'
<1> USE DEF ResidentInv
<1>1. /\ UNCHANGED <<once, api, dom, target, seen, before, alarm, latest, shown, old, ready, exit>>
      /\ pc' = "over" /\ chrome' = (IF once /\ chrome = "own" THEN "gone" ELSE chrome)
  BY DEF R!Finally, R!page, R!memory, R!fixed
<1>2. R!TypeOK'
  BY <1>1 DEF R!TypeOK, R!Keys
<1>3. SeenInv'
  BY <1>1 DEF SeenInv, R!Keys
<1>4. BrowserInv'
  BY <1>1 DEF BrowserInv
<1>5. R!DropHasShown'
  BY <1>1 DEF R!DropHasShown
<1>6. R!BrowserAsFound'
  BY <1>1 DEF R!BrowserAsFound
<1> QED BY <1>2, <1>3, <1>4, <1>5, <1>6

(* What was seen with text before a card collapsed is a card of its title. *)
LEMMA PreviousShown ==
  ASSUME ResidentInv, chrome # "found", NEW c \in Agents, R!Previous(c) = "text"
  PROVE  \E s \in shown : Title[s] = Title[c]
<1>1. target[c] = c /\ shown \subseteq Agents
  BY DEF ResidentInv, SeenInv, R!TypeOK
<1>2. CASE before[c] = "text"
  <2>1. PICK s \in shown : c \in {s, Title[s]}
    BY <1>2, ResidentConstants DEF ResidentInv, SeenInv
  <2>2. c = s
    BY <1>1, <2>1, ResidentConstants
  <2> QED BY <2>2
<1>3. CASE before[Title[c]] = "text"
  <2>1. PICK s \in shown : Title[c] \in {s, Title[s]}
    BY <1>3, ResidentConstants DEF ResidentInv, SeenInv
  <2>2. Title[c] = Title[s]
    BY <1>1, <2>1, ResidentConstants
  <2> QED BY <2>2
<1> QED BY <1>1, <1>2, <1>3 DEF R!Previous

LEMMA ResidentSamples ==
  ASSUME ResidentInv, NEW noise \in BOOLEAN, R!Sample(noise)
  PROVE  ResidentInv'
<1>t. R!TypeOK
  BY DEF ResidentInv
<1>f. chrome # "found" => \A s \in Agents : target[s] = s
  BY DEF ResidentInv, SeenInv
<1>1. /\ UNCHANGED <<once, chrome, api, dom, target, old, ready, exit>>
      /\ pc = "look" /\ pc' \in {"close", "sleep"} /\ seen' = {} /\ latest' \in {"problem", "ok"}
      /\ before' \in [R!Keys -> R!Shows] /\ R!Remembered(before')
      /\ shown' = shown \cup {c \in R!Cards : dom[c] = "text"}
  BY DEF R!Sample, R!page, R!fixed
<1>2. alarm' = {<<target[c], IF old THEN "t-plus-collapse" ELSE "random-blank-drop">> :
                  c \in {c \in R!Cards : R!Collapsed(c)}}
  BY DEF R!Sample
<1>3. \A a \in alarm' : \E c \in R!Cards :
        R!Collapsed(c) /\ a = <<target[c], IF old THEN "t-plus-collapse" ELSE "random-blank-drop">>
  BY <1>2
<1>4. R!Cards \subseteq Agents /\ shown \subseteq shown' /\ shown' \subseteq Agents
  BY <1>t, <1>1 DEF R!Cards, R!TypeOK
<1>5. R!TypeOK'
  <2>1. alarm' \subseteq Agents \X R!Codes
    <3> SUFFICES ASSUME NEW a \in alarm' PROVE a \in Agents \X R!Codes
      OBVIOUS
    <3>1. PICK c \in R!Cards :
            a = <<target[c], IF old THEN "t-plus-collapse" ELSE "random-blank-drop">>
      BY <1>3
    <3>2. target[c] \in Agents
      BY <1>t, <1>4 DEF R!TypeOK
    <3> QED BY <3>1, <3>2 DEF R!Codes
  <2> QED BY <1>t, <1>1, <1>4, <2>1 DEF R!TypeOK, R!Keys
<1>6. SeenInv'
  <2> SUFFICES ASSUME chrome # "found", NEW k \in R!Keys, before'[k] = "text"
               PROVE  \E s \in shown' : k \in {s, Title[s]}
    BY <1>1, <1>f DEF SeenInv, R!Keys
  <2> DEFINE own == {c \in R!Cards : k \in {target[c], Title[c]}}
  <2>1. IF own = {} THEN before'[k] = before[k] ELSE \E c \in own : before'[k] = dom[c]
    BY <1>1 DEF R!Remembered
  <2>2. CASE own = {}
    <3>1. PICK s \in shown : k \in {s, Title[s]}
      BY <2>1, <2>2 DEF ResidentInv, SeenInv
    <3> QED BY <1>4, <3>1
  <2>3. CASE own # {}
    <3>1. PICK c \in own : before'[k] = dom[c]
      BY <2>1, <2>3
    <3>2. c \in shown' /\ target[c] = c /\ k \in {target[c], Title[c]}
      BY <1>1, <1>4, <1>f, <3>1
    <3> QED BY <3>2
  <2> QED BY <2>2, <2>3
<1>7. R!DropHasShown'
  <2> SUFFICES ASSUME chrome = "own", NEW a \in alarm', a[2] = "random-blank-drop"
               PROVE  \E s \in shown' : Title[s] = Title[a[1]]
    BY <1>1 DEF R!DropHasShown
  <2>1. PICK c \in R!Cards :
          /\ R!Collapsed(c)
          /\ a = <<target[c], IF old THEN "t-plus-collapse" ELSE "random-blank-drop">>
    BY <1>3
  <2>2. ~old /\ a[1] = c
    BY <1>4, <1>f, <2>1
  <2>3. R!Previous(c) = "text"
    BY <2>1, <2>2 DEF R!Collapsed
  <2>4. PICK s \in shown : Title[s] = Title[c]
    BY <1>4, <2>3, PreviousShown
  <2> QED BY <1>4, <2>2, <2>4
<1>8. BrowserInv' /\ R!BrowserAsFound'
  BY <1>1 DEF ResidentInv, BrowserInv, R!BrowserAsFound
<1> QED BY <1>5, <1>6, <1>7, <1>8 DEF ResidentInv

LEMMA ResidentStep == ResidentInv /\ R!Next => ResidentInv'
BY ResidentWorld, ResidentMoves, ResidentEnds, ResidentSamples DEF R!Next, R!Step

----------------------------------------------------------------------------
(* ALL OF THEM *)

LEMMA InitIInv == Init => IInv
BY WatchdogInit, NewlineInit, LossCheckInit, ResidentInit DEF Init, IInv

LEMMA Stuttering == IInv /\ UNCHANGED vars => IInv'
<1> SUFFICES ASSUME IInv, UNCHANGED vars PROVE IInv'
  OBVIOUS
<1> USE DEF vars, ofWatchdog, ofNewline, ofLossCheck, ofResident, watching, browsing
<1>1. ASSUME WatchdogInv PROVE WatchdogInv'
  BY <1>1 DEF WatchdogInv, W!TypeOK, RecordInv, Recorded, Counts, PromptInv, EnterInv, W!EnterOnce,
     W!Candidate
<1>2. ASSUME NewlineInv PROVE NewlineInv'
  BY <1>2 DEF NewlineInv, N!TypeOK, AlertInv, LateInv, RepeatInv, N!EntersSpaced
<1>3. ASSUME LossCheckInv PROVE LossCheckInv'
  <2>1. I!TypeOK'
    BY <1>3 DEF LossCheckInv, I!TypeOK
  <2> QED BY <1>3, <2>1, StagePasses
<1>4. ASSUME ResidentInv PROVE ResidentInv'
  BY <1>4 DEF ResidentInv, R!TypeOK, R!Keys, SeenInv, BrowserInv, R!DropHasShown, R!BrowserAsFound
<1> QED BY <1>1, <1>2, <1>3, <1>4 DEF IInv

LEMMA NextIInv == IInv /\ [Next]_vars => IInv'
<1> SUFFICES ASSUME IInv, [Next]_vars PROVE IInv'
  OBVIOUS
<1>1. CASE StillWatchdog /\ W!Next
  BY <1>1, WatchdogStep DEF IInv, StillWatchdog
<1>2. CASE StillNewline /\ N!Next
  BY <1>2, NewlineStep DEF IInv, StillNewline
<1>3. CASE StillLossCheck /\ I!Next
  BY <1>3, LossCheckStep DEF IInv, StillLossCheck
<1>4. CASE StillResident /\ R!Next
  BY <1>4, ResidentStep DEF IInv, StillResident
<1>5. CASE UNCHANGED vars
  BY <1>5, Stuttering
<1> QED BY <1>1, <1>2, <1>3, <1>4, <1>5 DEF Next

LEMMA Invariance == Spec => []IInv
BY InitIInv, NextIInv, PTL DEF Spec

(* What each tool keeps of a terminal is of the kind its code reads back.  *)
THEOREM TypeCorrect == Spec => []TypeOK
<1>1. IInv => TypeOK
  BY DEF IInv, TypeOK, WatchdogInv, NewlineInv, LossCheckInv, ResidentInv
<1> QED BY <1>1, Invariance, PTL

(* The watchdog presses Enter once for a text that it finds stuck, and the *)
(* newline monitor no sooner than repeatAlertMs after the last time,       *)
(* whatever the screens do and whenever the process dies, unless it died   *)
(* between the Enter and the end of its tick, the alert of the monitor was *)
(* not taken, or its Enter came in a tick that had hung for so long: the   *)
(* record of the Enter is in the file between two ticks, and in memory     *)
(* within one.                                                             *)
THEOREM EntersAreSpaced == Spec => []EntersSpaced
<1>1. IInv => EntersSpaced
  BY DEF IInv, EntersSpaced, WatchdogInv, NewlineInv
<1> QED BY <1>1, Invariance, PTL

(* What the check for lost input and the resident monitor report of a page *)
(* has happened on it, whatever the page and its browser do: a text that   *)
(* was gone has failed a look or fails the next, and one that is reported  *)
(* lost was changed by the page, unless there was no composer or an older  *)
(* draft; what is remembered as text, in a browser of its own, was on a    *)
(* card of that id or title.  The browsers are left as they should be.     *)
THEOREM ProbesAreTruthful == Spec => []ProbesTellTruth
<1>1. IInv => ProbesTellTruth
  BY DEF IInv, ProbesTellTruth, LossCheckInv, VerdictInv, ResidentInv
<1> QED BY <1>1, Invariance, PTL
=============================================================================
