---------------------------- MODULE InputLossCheck ----------------------------
(***************************************************************************)
(* The check for lost input (check-9000-terminal-input-loss-cdp.cjs).  It  *)
(* starts a browser, types a text into the composer of a terminal, and     *)
(* looks whether it is still there after the window was resized and the    *)
(* page loaded again, and whether it reaches the terminal.  The page under *)
(* test may do anything to the text, the composer may be missing (the page *)
(* still loads, or shows another terminal), and the browser may go away at *)
(* any step.                                                               *)
(***************************************************************************)
EXTENDS Naturals

(* The looks of main at the composer, in order, and what else it does.     *)
Looks == {"typed", "shrunk", "restored", "reloaded", "entered"}
Stages ==
  {"launch", "wait", "connect", "clear", "type", "shrink", "restore", "reload",
   "retype", "enter", "judge", "close", "over"} \cup Looks

VARIABLES
  pc,       \* what comes next
  chrome,   \* the browser: not started, running, gone, or running but mute
  field,    \* what the composer shows: nothing, the text, or something else;
            \* "none": there is no composer
  focus,    \* whether what is typed goes to the composer
  stored,   \* the draft that the page keeps in localStorage
  log,      \* whether the terminal or its log has the first characters of the
            \* text, which is all that is compared
  kept,     \* the looks that have found the text
  absent,   \* ghost: there was no composer to type into, or none after the reload
  lost,     \* ghost: what the page has done to the text before it was submitted:
            \* "changed" what it shows or stores, and has it "gone" from both
  sent,     \* ghost: what reached the session
  old,      \* ghost: a draft or a log of an earlier run
  verdict,  \* the summary that is written: ok, bad, or none at all
  status,   \* its status line: fixed or reproduced
  exit      \* the exit code, 9 while it runs

vars == <<pc, chrome, field, focus, stored, log, kept, absent, lost, sent, old, verdict, status, exit>>

Texts == {"empty", "text", "other"}

TypeOK ==
  /\ pc \in Stages /\ chrome \in {"none", "starting", "up", "mute", "gone"}
  /\ field \in Texts \cup {"none"} /\ stored \in Texts /\ focus \in BOOLEAN
  /\ focus => field # "none"
  /\ log \in BOOLEAN /\ lost \subseteq {"changed", "gone"} /\ sent \in {"nothing", "text", "other"}
  /\ kept \subseteq Looks /\ absent \subseteq {"type", "reloaded"} /\ old \subseteq {"draft", "log"}
  /\ verdict \in {"none", "ok", "bad"} /\ status \in {"none", "fixed", "reproduced"}
  /\ exit \in {0, 1, 9}

Init ==
  /\ pc = "launch" /\ chrome = "none"
  /\ old \in SUBSET {"draft", "log"}
  /\ stored = IF "draft" \in old THEN "other" ELSE "empty"
  /\ log = ("log" \in old)
  /\ field \in {stored, "none"} /\ focus = FALSE
  /\ kept = {} /\ absent = {} /\ lost = {} /\ sent = "nothing"
  /\ verdict = "none" /\ status = "none" /\ exit = 9

composer == <<field, focus, stored>>
ghosts == <<absent, lost, sent, old>>
report == <<verdict, status, exit>>

----------------------------------------------------------------------------
(* THE BROWSER AND THE PAGE UNDER TEST *)

(* The composer goes with it.                                              *)
BrowserGoes ==
  /\ chrome \in {"starting", "up", "mute"}
  /\ chrome' = "gone" /\ field' = "none" /\ focus' = FALSE
  /\ UNCHANGED <<pc, stored, log, ghosts, kept, report>>

(* The page stops to answer.                                               *)
BrowserMute ==
  /\ chrome = "up" /\ chrome' = "mute"
  /\ UNCHANGED <<pc, composer, log, ghosts, kept, report>>

(* The text is gone when it is neither in the composer nor in the draft.   *)
Lose == lost' = lost \cup
  IF "text" \in {field, stored} /\ "text" \notin {field', stored'} THEN {"gone"} ELSE {}

(* From the first look at the page to the verdict, and while the text is   *)
(* in the composer.                                                        *)
Begun == Stages \ {"launch", "wait", "connect", "close", "over"}
Editing == Looks \cup {"shrink", "restore", "reload", "retype"}

(* What the check is there to find: a resize, a poll or a reload changes   *)
(* what the page shows or stores, or makes the one from the other.         *)
PageChanges(f, s) ==
  /\ chrome = "up" /\ pc \in Editing \cup {"enter", "judge"}
  /\ field # "none" /\ f \in {"empty", "other", field, stored}
  /\ s \in IF pc \in Editing THEN {"empty", "other", field, stored} ELSE {f}
  /\ <<f, s>> # <<field, stored>>
  /\ field' = f /\ stored' = s
  /\ IF pc \in Editing
     THEN lost' = lost \cup {"changed"} \cup
            (IF "text" \in {field, stored} /\ "text" \notin {f, s} THEN {"gone"} ELSE {})
     ELSE UNCHANGED lost
  /\ UNCHANGED <<pc, chrome, focus, log, absent, sent, old, kept, report>>

(* The composer goes, and comes back with the draft.                       *)
ComposerGoes ==
  /\ chrome = "up" /\ pc \in Begun /\ field # "none"
  /\ field' = "none" /\ focus' = FALSE /\ UNCHANGED stored
  /\ IF pc \in Editing THEN Lose ELSE UNCHANGED lost
  /\ UNCHANGED <<pc, chrome, log, absent, sent, old, kept, report>>

ComposerComes ==
  /\ chrome = "up" /\ pc \in Begun /\ field = "none"
  /\ field' = stored
  /\ UNCHANGED <<pc, chrome, focus, stored, log, ghosts, kept, report>>

----------------------------------------------------------------------------
(* THE CHECK.                                                              *)
(* Definitions named _Faulty... are plausible mistakes in the definition   *)
(* after them; no specification uses them.                                 *)

Rest == UNCHANGED <<composer, log, ghosts, kept>>

Launch ==
  /\ pc = "launch"
  /\ pc' = "wait" /\ chrome' = "starting"
  /\ Rest /\ UNCHANGED report

(* waitForVersion: 15 s.                                                   *)
Ready ==
  /\ pc = "wait" /\ chrome = "starting"
  /\ pc' = "connect" /\ chrome' = "up"
  /\ Rest /\ UNCHANGED report

Throw == pc' = "close" /\ exit' = 1 /\ UNCHANGED <<chrome, verdict, status>>

NotReady == pc = "wait" /\ Throw /\ Rest

Answers(stage) == pc = stage /\ chrome = "up"

(* Requests to a page that does not answer have no timeout and no handler  *)
(* for a closed socket.  Once the browser has gone, nothing is left that   *)
(* could keep the process: it ends with exit code 0 and without a summary. *)
Silent ==
  /\ pc \in Begun /\ chrome = "gone"
  /\ pc' = "over" /\ exit' = 0
  /\ Rest /\ UNCHANGED <<chrome, verdict, status>>

(* createCdp of the browser and findPageTarget.                            *)
Connect ==
  /\ Answers("connect")
  /\ pc' = "clear"
  /\ Rest /\ UNCHANGED <<chrome, report>>

ConnectFails == pc = "connect" /\ Throw /\ Rest

(* An answer that is an error, or no value, ends the check.                *)
Fails == pc \in Begun /\ chrome = "up" /\ Throw /\ Rest

(* The composer gets the focus, if there is one.  The drafts of the        *)
(* session storage are removed, but those of the page are in the local     *)
(* storage, and the value that a script sets does not reach its state: the *)
(* page may show the draft again before the first key (see Typing).        *)
Clear ==
  /\ Answers("clear")
  /\ pc' = "type" /\ focus' = (field # "none")
  /\ UNCHANGED <<chrome, field, stored, log, ghosts, kept, report>>

Typing ==
  /\ field' \in IF field = "empty" THEN {"text"} ELSE {"text", "other"}
  /\ stored' = field'

(* Keys that find no composer are lost.  What the page does while they are *)
(* typed is as if it did it right after them, and where the focus is then  *)
(* does not matter.                                                        *)
Type ==
  /\ Answers("type")
  /\ pc' = "typed"
  /\ IF focus THEN Typing /\ UNCHANGED absent
              ELSE UNCHANGED <<field, stored>> /\ absent' = absent \cup {"type"}
  /\ focus' = FALSE
  /\ UNCHANGED <<chrome, log, lost, sent, old, kept, report>>

(* Any text will do. *)
Look_FaultyAnyText(stage, next) ==
  /\ Answers(stage) /\ pc' = next
  /\ kept' = IF field \notin {"empty", "none"} THEN kept \cup {stage} ELSE kept
  /\ absent' = IF field = "none" /\ stage = "reloaded" THEN absent \cup {stage} ELSE absent
  /\ UNCHANGED <<chrome, composer, log, lost, sent, old, report>>

(* The value of the composer is read and compared with the text; a missing *)
(* composer reads as an empty one.                                         *)
Look(stage, next) ==
  /\ Answers(stage) /\ pc' = next
  /\ kept' = IF field = "text" THEN kept \cup {stage} ELSE kept
  /\ absent' = IF field = "none" /\ stage = "reloaded" THEN absent \cup {stage} ELSE absent
  /\ UNCHANGED <<chrome, composer, log, lost, sent, old, report>>

Resize(stage, next) ==
  /\ Answers(stage) /\ pc' = next
  /\ Rest /\ UNCHANGED <<chrome, report>>

(* The composer of a page loaded again shows the stored draft, when the    *)
(* page has come so far 2.5 s later.                                       *)
Reload ==
  /\ Answers("reload")
  /\ pc' = "reloaded" /\ field' \in {stored, "none"} /\ focus' = FALSE
  /\ UNCHANGED stored /\ Lose
  /\ UNCHANGED <<chrome, log, absent, sent, old, kept, report>>

(* A text that was lost is typed again, so that it can be submitted.       *)
Retype ==
  /\ Answers("retype")
  /\ pc' = "entered"
  /\ IF "reloaded" \in kept \/ field = "none"
     THEN UNCHANGED composer
     ELSE Typing /\ UNCHANGED focus
  /\ UNCHANGED <<chrome, log, ghosts, kept, report>>

(* Enter, and a click if the composer is not empty after it.  The page     *)
(* delivers what the composer has, fails to, or drops it.  What is         *)
(* delivered shows up in time or not, and something else than the text may *)
(* have its first characters too.                                          *)
Enter ==
  /\ Answers("enter")
  /\ pc' = "judge"
  /\ \/ field \in {"text", "other"} /\ sent' = field /\ log' \in {log, TRUE}
        /\ field' = "empty" /\ stored' = "empty"
     \/ field # "none" /\ field' = "empty" /\ stored' = "empty" /\ UNCHANGED <<log, sent>>
     \/ UNCHANGED <<field, stored, log, sent>>
  /\ UNCHANGED <<chrome, focus, absent, lost, old, kept, report>>

(* What the terminal or its log has may be of an earlier run: it is always *)
(* the same text.                                                          *)
Ok == kept = Looks /\ field \in {"empty", "none"} /\ log

Judge ==
  /\ Answers("judge")
  /\ pc' = "close"
  /\ verdict' = (IF Ok THEN "ok" ELSE "bad")
  /\ status' = (IF "reloaded" \in kept THEN "fixed" ELSE "reproduced")
  /\ exit' = IF Ok THEN exit ELSE 1
  /\ Rest /\ UNCHANGED chrome

(* The finally block closes the browser, waits for the answer, kills it.   *)
Close ==
  /\ pc = "close" /\ chrome # "mute"
  /\ pc' = "over" /\ chrome' = "gone"
  /\ field' = "none" /\ focus' = FALSE
  /\ exit' = IF exit = 9 THEN 0 ELSE exit
  /\ UNCHANGED <<stored, log, ghosts, kept, verdict, status>>

Step ==
  \/ Launch \/ Ready \/ NotReady \/ Connect \/ ConnectFails \/ Clear \/ Type
  \/ Look("typed", "shrink") \/ Resize("shrink", "shrunk") \/ Look("shrunk", "restore")
  \/ Resize("restore", "restored") \/ Look("restored", "reload") \/ Reload
  \/ Look("reloaded", "retype") \/ Retype \/ Look("entered", "enter") \/ Enter
  \/ Judge \/ Fails \/ Close \/ Silent

Page == ComposerGoes \/ ComposerComes \/ \E f, s \in Texts : PageChanges(f, s)

Next == Step \/ BrowserGoes \/ BrowserMute \/ Page

Spec == Init /\ [][Next]_vars
FairSpec == Spec /\ WF_vars(Step)

----------------------------------------------------------------------------
(* PROPERTIES *)

(* A pass means that the page never had the text in neither its composer   *)
(* nor its draft, and that something was delivered (the text, unless the   *)
(* page changed it after the last look), or that the log of an earlier run *)
(* was there.                                                              *)
PassMeansKept ==
  verdict = "ok" => "gone" \notin lost /\ (sent # "nothing" \/ "log" \in old)

(* What it reports as reproduced has happened: the page has changed what   *)
(* it showed or stored of the text.  But for two cases: a draft of an      *)
(* earlier run was there, which it fails to remove, or there was no        *)
(* composer to type into, or none yet to look at after the reload, which   *)
(* it takes for a loss.                                                    *)
ReproducedMeansLost ==
  status = "reproduced" =>
    "changed" \in lost \/ "draft" \in old \/ absent \cap {"type", "reloaded"} # {}

(* The check ends, with the exit code of its verdict and the browser       *)
(* closed, unless the browser is gone or mute before the summary.          *)
EndsWithVerdict ==
  <>(\/ pc = "over" /\ chrome = "gone" /\ (exit = 0 <=> verdict = "ok")
     \/ chrome \in {"gone", "mute"} /\ verdict = "none"
     \/ chrome = "mute")
=============================================================================
