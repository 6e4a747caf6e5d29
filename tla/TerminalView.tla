----------------------------- MODULE TerminalView -----------------------------
(***************************************************************************)
(* The view of a terminal in the browser (HqTerminalPreview of main.tsx).  *)
(* It is seeded with the preview that the page has of its session, opens a *)
(* socket, attaches, and draws what it receives: a snapshot of the         *)
(* server's display, and the output that follows.  Two seconds after the   *)
(* socket has closed it seeds itself again and opens another.              *)
(*                                                                         *)
(* Output comes in chunks, numbered in their order.  The display and its   *)
(* previews are their number.  Requests, events and previews may be late.  *)
(***************************************************************************)
EXTENDS Naturals, Sequences

CONSTANTS
  Variants,   \* card and fullscreen
  MaxOut      \* bound: chunks of output

(* Assumed wherever this module is used.                                   *)
ViewAssumption == MaxOut \in Nat \ {0}

VARIABLES
  variant,   \* the variant of the view
  out,       \* the chunks that the session has put out
  preview,   \* the preview that the page has of the session
  conn,      \* the socket: none, connecting, open, attached or closed
  ref,       \* whether socketRef holds that socket
  timer,     \* whether the 2 s after a close run
  queue,     \* the messages on their way to the view
  screen,    \* the chunks on the screen
  seeded,    \* whether a snapshot was drawn (seededSessionRef)
  seed,      \* the last preview drawn by the third effect (seededPreviewRef)
  got        \* ghost: the chunks received on this socket

vars == <<variant, out, preview, conn, ref, timer, queue, screen, seeded, seed, got>>

Chunks == 1 .. MaxOut
Message == [is : {"snapshot", "output"}, n : Chunks]

TypeOK ==
  /\ variant \in Variants
  /\ out \in 0 .. MaxOut /\ preview \in 0 .. out
  /\ conn \in {"none", "connecting", "open", "attached", "closed"}
  /\ ref \in BOOLEAN /\ timer \in BOOLEAN
  /\ queue \in Seq(Message)
  /\ screen \subseteq 1 .. out /\ got \subseteq 1 .. out
  /\ seeded \in BOOLEAN /\ seed \in 0 .. out

Init ==
  /\ variant \in Variants
  /\ out \in {0, 1} /\ preview \in 0 .. out
  /\ conn = "none" /\ ref = FALSE /\ timer = FALSE /\ queue = <<>>
  /\ screen = {} /\ seeded = FALSE /\ seed = 0 /\ got = {}

server == <<variant, out>>
socket == <<conn, ref, timer>>

----------------------------------------------------------------------------
(* THE SERVER, external to the page: see TerminalFanout *)

Output ==
  /\ out < MaxOut /\ out' = out + 1
  /\ queue' = IF conn = "attached" THEN Append(queue, [is |-> "output", n |-> out']) ELSE queue
  /\ UNCHANGED <<variant, preview, socket, screen, seeded, seed, got>>

(* A display that is blank has no snapshot.                                *)
Attach ==
  /\ conn = "open" /\ conn' = "attached"
  /\ queue' = IF out = 0 THEN queue ELSE Append(queue, [is |-> "snapshot", n |-> out])
  /\ UNCHANGED <<server, preview, ref, timer, screen, seeded, seed, got>>

(* The fullscreen variant attaches with a size, and a PTY that cannot be   *)
(* resized is attached without a snapshot.                                 *)
AttachFails ==
  /\ conn = "open" /\ variant = "fullscreen" /\ conn' = "attached"
  /\ UNCHANGED <<server, preview, ref, timer, queue, screen, seeded, seed, got>>

----------------------------------------------------------------------------
(* THE VIEW.                                                               *)
(* Definitions named _Faulty... are plausible mistakes in the definition   *)
(* after them; no specification uses them.                                 *)

(* The second effect: when the view is mounted, and after a close.         *)
Connect(next) ==
  /\ conn' = "connecting" /\ ref' = TRUE
  /\ seeded' = FALSE /\ seed' = next /\ got' = {}
  /\ screen' = 1 .. preview /\ queue' = <<>>

(* All three effects run: the third seeds the view again.                  *)
Mount ==
  /\ conn = "none" /\ Connect(preview)
  /\ UNCHANGED <<server, preview, timer>>

Opens ==
  /\ conn = "connecting" /\ conn' = "open"
  /\ UNCHANGED <<server, preview, ref, timer, queue, screen, seeded, seed, got>>

(* The first snapshot of a socket replaces what is on the screen.          *)
Draw(m) ==
  /\ screen' = IF m.is = "output" THEN screen \cup {m.n}
               ELSE IF seeded THEN screen \cup 1 .. m.n ELSE 1 .. m.n
  /\ seeded' = (seeded \/ m.is = "snapshot")

Receive ==
  /\ queue # <<>> /\ queue' = Tail(queue)
  /\ Draw(Head(queue))
  /\ got' = got \cup (IF Head(queue).is = "output" THEN {Head(queue).n} ELSE 1 .. Head(queue).n)
  /\ UNCHANGED <<server, preview, socket, seed>>

(* The preview is drawn whatever is on the screen. *)
Reseed_FaultyAlways ==
  IF preview' # seed
  THEN seed' = preview' /\ screen' = 1 .. preview'
  ELSE UNCHANGED <<seed, screen>>

(* The third effect: a view without a snapshot draws each new preview.     *)
Reseed ==
  IF ~seeded /\ preview' # seed
  THEN seed' = preview' /\ screen' = 1 .. preview'
  ELSE UNCHANGED <<seed, screen>>

(* The page has fetched the sessions.  sessionsMatch keeps the old row     *)
(* unless there is a preview for the first time or something else about    *)
(* the session has changed.                                                *)
NewPreview(n) ==
  /\ conn # "none" /\ n \in preview + 1 .. out
  /\ preview' = n /\ Reseed
  /\ UNCHANGED <<server, socket, queue, seeded, got>>

(* The server ends or restarts, the view lags behind, the network fails.   *)
Closes ==
  /\ conn \in {"connecting", "open", "attached"}
  /\ conn' = "closed" /\ ref' = FALSE /\ timer' = TRUE /\ queue' = <<>>
  /\ UNCHANGED <<server, preview, screen, seeded, seed, got>>

(* 2 s later: wsKey.  The third effect does not run.                       *)
Reconnect ==
  /\ timer /\ timer' = FALSE
  /\ IF ref THEN UNCHANGED <<conn, ref, queue, screen, seeded, seed, got>> ELSE Connect(0)
  /\ UNCHANGED <<server, preview>>

Works == Mount \/ Opens \/ Attach \/ AttachFails \/ Receive \/ Reconnect

Next == Works \/ Output \/ Closes \/ \E n \in Chunks : NewPreview(n)

Spec == Init /\ [][Next]_vars

(* The browser delivers messages and runs its timers, the server answers.  *)
FairSpec == Spec /\ WF_vars(Works)

----------------------------------------------------------------------------
(* PROPERTIES *)

Last(s) == CHOOSE n \in s : \A m \in s : m <= n

(* A view that has drawn a snapshot shows all output up to the last that   *)
(* it has received, without a gap, whatever previews arrive.  A view       *)
(* without one does not: it draws a late preview over newer output.        *)
ShowsWhatCame ==
  seeded => screen = 1 .. Last(got)

(* Once the socket stops to close the view is attached and shows what the  *)
(* session has put out, unless it was attached without a snapshot.         *)
ComesBack ==
  <>[][~Closes]_vars =>
    <>[](conn = "attached" /\ (seeded => screen = 1 .. out))
=============================================================================
