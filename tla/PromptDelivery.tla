---------------------------- MODULE PromptDelivery ----------------------------
(***************************************************************************)
(* How a prompt reaches a terminal.  A composer of the web app             *)
(* (sendTerminalPrompt) delivers what was typed in two requests: the text, *)
(* and after its acknowledgement the Enter that submits it.  The server    *)
(* (handle_terminal_protocol and the write handlers) finds the session of  *)
(* the id again for each of them and writes to its PTY.  Other clients of  *)
(* the API write too, the session may be deleted and created again, and    *)
(* its child may end.                                                      *)
(*                                                                         *)
(* What is typed is a sequence of words, numbered in the order they are    *)
(* typed.  The input of a PTY is a sequence of keys: a word or Enter, each *)
(* with the send it belongs to, a send being the number of its text        *)
(* request.                                                                *)
(***************************************************************************)
EXTENDS Naturals, SequencesExt

CONSTANTS
  Composers,    \* card, fullscreen and popout composers of one session id
  NInstances,   \* bound: sessions created under the id
  MaxWords,     \* bound: words typed
  MaxRequests,  \* bound: requests posted
  Others,       \* requests of other clients of the API: <<op, body, times>>
  Hazards       \* what the environment does besides sending

Instances == 1 .. NInstances
Requests == 1 .. MaxRequests
Enter == 0
Foreign == MaxWords + 1   \* a word nobody types in a composer
Ops == {"text", "submit", "write", "key"}

ASSUME PromptAssumption ==
  /\ NInstances \in Nat \ {0} /\ MaxWords \in Nat /\ MaxRequests \in Nat
  /\ Others \subseteq Ops \X {<<>>, <<Foreign>>, <<Enter>>} \X {1, 2}
  /\ Hazards \subseteq {"typeahead", "timeout", "reload", "recreate", "exit"}

VARIABLES
  table,    \* sessions[id]: an instance, 0 if there is none
  born,     \* instances created so far
  dead,     \* instances whose child has ended
  exited,   \* instances whose status is Exited
  reported, \* instances whose waiter has reported
  pty,      \* what was written to the PTY of each instance
  req,      \* the requests posted, in order
  typed,    \* number of words typed
  text,     \* what each composer shows (promptRef)
  stored,   \* the draft of the session id in localStorage
  comp      \* what each composer waits for

server == <<table, born, dead, exited, reported>>
client == <<typed, text, stored, comp>>
vars == <<server, pty, req, client>>

Request(op, body, times, send) ==
  [op |-> op, body |-> body, times |-> times, send |-> send,
   pc |-> "posted", at |-> 0, gone |-> FALSE]

Idle == [pc |-> "idle", send |-> 0, awaits |-> 0]

TypeOK ==
  /\ table \in 0 .. born /\ born \in Instances
  /\ exited \subseteq 1 .. born
  /\ reported \subseteq dead /\ dead \subseteq 1 .. born
  /\ \A i \in Instances :
       \A n \in DOMAIN pty[i] : pty[i][n] \in (0 .. Len(req)) \X (0 .. Foreign)
  /\ Len(req) <= MaxRequests
  /\ \A r \in DOMAIN req :
       /\ req[r].op \in Ops /\ req[r].times \in {1, 2}
       /\ req[r].pc \in {"posted", "found", "sleep", "ok", "error"}
       /\ req[r].at \in 0 .. born /\ req[r].send \in 0 .. r
       /\ req[r].pc \in {"found", "sleep"} => req[r].at # 0
  /\ typed \in 0 .. MaxWords
  /\ \A c \in Composers :
       /\ comp[c].pc \in {"idle", "text", "submit"}
       /\ comp[c].pc = "text" => req[comp[c].awaits].op = "text"
       /\ comp[c].pc = "submit" => req[comp[c].awaits].op = "submit"
       /\ ToSet(text[c]) \subseteq 1 .. typed
  /\ ToSet(stored) \subseteq 1 .. typed

Init ==
  /\ table = 1 /\ born = 1 /\ dead = {} /\ exited = {} /\ reported = {}
  /\ pty = [i \in Instances |-> <<>>]
  /\ req = <<>>
  /\ typed = 0 /\ stored = <<>>
  /\ text = [c \in Composers |-> <<>>]
  /\ comp = [c \in Composers |-> Idle]

----------------------------------------------------------------------------
(* THE SERVER.                                                             *)
(* Definitions named _Faulty... are plausible mistakes in the definition   *)
(* after them; no specification uses them.                                 *)

(* An id that is not in the table is not noticed. *)
Lookup_FaultyNoCheck(r) ==
  /\ req[r].pc = "posted"
  /\ req' = [req EXCEPT ![r].at = table, ![r].pc = "found"]
  /\ UNCHANGED <<server, pty, client>>

(* write_session_bytes takes the session from the table, and lets the      *)
(* table go before it locks the session.                                   *)
Lookup(r) ==
  /\ req[r].pc = "posted"
  /\ req' = [req EXCEPT ![r].at = table, ![r].pc = IF table = 0 THEN "error" ELSE "found"]
  /\ UNCHANGED <<server, pty, client>>

Keys(r) == IF req[r].op = "submit" THEN <<Enter>> ELSE req[r].body

(* What is left to do after the write.  An answer that carries the status  *)
(* carries that of the moment of the write.                                *)
Written(q) ==
  CASE q.op = "key" -> [q EXCEPT !.pc = "ok"]
    [] q.op = "submit" /\ q.times = 1 -> [q EXCEPT !.pc = "ok"]
    [] q.op = "submit" /\ q.times = 2 -> [q EXCEPT !.pc = "posted", !.times = 1]
    [] OTHER -> [q EXCEPT !.pc = "sleep", !.gone = q.at \in exited]

(* Under the lock of the session.  An empty text is not written: its       *)
(* request only reads the session.                                         *)
WriteBytes(r) ==
  LET q == req[r]
  IN  /\ q.pc = "found"
      /\ pty' = [pty EXCEPT ![q.at] = @ \o [n \in DOMAIN Keys(r) |-> <<q.send, Keys(r)[n]>>]]
      /\ req' = [req EXCEPT ![r] = Written(q)]
      /\ UNCHANGED <<server, client>>

(* The PTY of a child that has ended may refuse input.                     *)
WriteFails(r) ==
  /\ req[r].pc = "found" /\ req[r].at \in dead /\ Keys(r) # <<>>
  /\ req' = [req EXCEPT ![r].pc = "error"]
  /\ UNCHANGED <<server, pty, client>>

(* The sleep after a text is over: PROMPT_TEXT_FLUSH_DELAY_MS, and 300 ms  *)
(* more in write_to_session, which then goes on to submit unless the       *)
(* session had exited by the time of the write.                            *)
Wake(r) ==
  /\ req[r].pc = "sleep"
  /\ req' = [req EXCEPT ![r] =
       IF @.op = "text" \/ @.gone THEN [@ EXCEPT !.pc = "ok"]
       ELSE [@ EXCEPT !.op = "submit", !.pc = "posted"]]
  /\ UNCHANGED <<server, pty, client>>

Delete ==
  /\ "recreate" \in Hazards /\ table # 0
  /\ table' = 0
  /\ UNCHANGED <<born, dead, exited, reported, pty, req, client>>

Create ==
  /\ table = 0 /\ born < NInstances
  /\ born' = born + 1 /\ table' = born'
  /\ UNCHANGED <<dead, exited, reported, pty, req, client>>

ChildEnds(i) ==
  /\ "exit" \in Hazards /\ i \in (1 .. born) \ dead
  /\ dead' = dead \cup {i}
  /\ UNCHANGED <<table, born, exited, reported, pty, req, client>>

(* The waiter of a child that has ended marks whatever session of the id   *)
(* is in the table by then.                                                *)
ReportExit(i) ==
  /\ i \in dead \ reported
  /\ reported' = reported \cup {i}
  /\ exited' = IF table = 0 THEN exited ELSE exited \cup {table}
  /\ UNCHANGED <<table, born, dead, pty, req, client>>

----------------------------------------------------------------------------
(* THE CLIENTS. *)

Post(q) == req' = Append(req, q)

(* The bound on the requests leaves room for the Enter of each text sent.  *)
Room(n) == Len(req) + Cardinality({c \in Composers : comp[c].pc = "text"}) + n <= MaxRequests

(* Any other request: a raw key of the xterm view, the /write of a tool,   *)
(* an Enter of the watchdog.                                               *)
PostOther ==
  /\ Room(1)
  /\ \E o \in Others : Post(Request(o[1], o[2], o[3], 0))
  /\ UNCHANGED <<server, pty, client>>

(* The textarea is never disabled, so there may be typing during a send.   *)
Type(c) ==
  /\ typed < MaxWords
  /\ comp[c].pc = "idle" \/ "typeahead" \in Hazards
  /\ typed' = typed + 1
  /\ text' = [text EXCEPT ![c] = Append(@, typed')]
  /\ stored' = text'[c]
  /\ UNCHANGED <<server, pty, req, comp>>

(* The text and the Enter are posted without waiting in between. *)
Send_FaultyNoWait(c) ==
  LET s == Len(req) + 1
  IN  /\ comp[c].pc = "idle" /\ text[c] # <<>> /\ Room(2)
      /\ req' = req \o <<Request("text", text[c], 1, s), Request("submit", <<>>, 1, s)>>
      /\ comp' = [comp EXCEPT ![c] = [pc |-> "submit", send |-> s, awaits |-> s + 1]]
      /\ UNCHANGED <<server, pty, typed, text, stored>>

(* sendingRef lets one send run at a time.                                 *)
Send(c) ==
  LET s == Len(req) + 1
  IN  /\ comp[c].pc = "idle" /\ text[c] # <<>> /\ Room(2)
      /\ Post(Request("text", text[c], 1, s))
      /\ comp' = [comp EXCEPT ![c] = [pc |-> "text", send |-> s, awaits |-> s]]
      /\ UNCHANGED <<server, pty, typed, text, stored>>

Answered(c, pc, answer) ==
  comp[c].pc = pc /\ req[comp[c].awaits].pc = answer

(* The Enter is left out. *)
TextAcked_FaultyNoSubmit(c) ==
  /\ Answered(c, "text", "ok")
  /\ comp' = [comp EXCEPT ![c] = Idle]
  /\ UNCHANGED <<server, pty, req, typed, text, stored>>

(* promptTextAck, then 120 ms, then promptSubmit. *)
TextAcked(c) ==
  /\ Answered(c, "text", "ok")
  /\ Post(Request("submit", <<>>, 1, comp[c].send))
  /\ comp' = [comp EXCEPT ![c].pc = "submit", ![c].awaits = Len(req')]
  /\ UNCHANGED <<server, pty, typed, text, stored>>

(* The text that was sent stays in the composer. *)
SubmitAcked_FaultyKeepsText(c) ==
  /\ Answered(c, "submit", "ok")
  /\ comp' = [comp EXCEPT ![c] = Idle]
  /\ UNCHANGED <<server, pty, req, typed, text, stored>>

(* promptSubmitAck: the composer and the draft are emptied. *)
SubmitAcked(c) ==
  /\ Answered(c, "submit", "ok")
  /\ comp' = [comp EXCEPT ![c] = Idle]
  /\ text' = [text EXCEPT ![c] = <<>>]
  /\ stored' = <<>>
  /\ UNCHANGED <<server, pty, req, typed>>

(* The draft is emptied whether or not the send succeeds. *)
Failed_FaultyClears(c) ==
  /\ Answered(c, "text", "error") \/ Answered(c, "submit", "error")
  /\ comp' = [comp EXCEPT ![c] = Idle]
  /\ text' = [text EXCEPT ![c] = <<>>]
  /\ stored' = <<>>
  /\ UNCHANGED <<server, pty, req, typed>>

(* A send that fails leaves the text where it is, to be sent again. *)
Failed(c) ==
  /\ Answered(c, "text", "error") \/ Answered(c, "submit", "error")
  /\ comp' = [comp EXCEPT ![c] = Idle]
  /\ UNCHANGED <<server, pty, req, typed, text, stored>>

(* No answer within 5 s: the same for the composer, but the request goes   *)
(* on in the server.                                                       *)
TimesOut(c) ==
  /\ "timeout" \in Hazards /\ comp[c].pc # "idle"
  /\ comp' = [comp EXCEPT ![c] = Idle]
  /\ UNCHANGED <<server, pty, req, typed, text, stored>>

(* The page is loaded again. *)
Reload(c) ==
  /\ "reload" \in Hazards
  /\ comp' = [comp EXCEPT ![c] = Idle]
  /\ text' = [text EXCEPT ![c] = stored]
  /\ UNCHANGED <<server, pty, req, typed, stored>>

----------------------------------------------------------------------------
Serve(r) == r \in DOMAIN req /\ (Lookup(r) \/ WriteBytes(r) \/ WriteFails(r) \/ Wake(r))
Answer(c) == TextAcked(c) \/ SubmitAcked(c) \/ Failed(c)

Next ==
  \/ \E r \in Requests : Serve(r)
  \/ \E c \in Composers : Answer(c) \/ Type(c) \/ Send(c) \/ TimesOut(c) \/ Reload(c)
  \/ Delete \/ Create
  \/ \E i \in Instances : ChildEnds(i) \/ ReportExit(i)
  \/ PostOther

Spec == Init /\ [][Next]_vars

(* Handlers are tasks of the tokio runtime and run on; the browser         *)
(* delivers answers and runs its timers.  That a request is posted at all, *)
(* or that anything is typed or sent, is assumed of nobody.                *)
FairSpec ==
  /\ Spec
  /\ \A r \in Requests : WF_vars(Serve(r))
  /\ \A c \in Composers : WF_vars(Answer(c))

----------------------------------------------------------------------------
(* SAFETY *)

WrittenIn(s, key) == {i \in Instances : <<s, key>> \in ToSet(pty[i])}

(* The Enter of a send is written after its text, whoever else writes and  *)
(* whatever fails: for each Enter of a send, each word of the send is      *)
(* before it in the same PTY or in the PTY of an earlier session.          *)
(* sendTerminalPrompt gets this by waiting for promptTextAck.              *)
TextBeforeSubmit ==
  \A i \in Instances : \A n \in DOMAIN pty[i] :
    pty[i][n][2] = Enter /\ pty[i][n][1] # 0 =>
      \A w \in ToSet(req[pty[i][n][1]].body) :
        \E j \in 1 .. i : \E k \in DOMAIN pty[j] :
          pty[j][k] = <<pty[i][n][1], w>> /\ (j = i => k < n)

(* What was typed is somewhere until a PTY has it: in the composer, in its *)
(* draft, or in a request.  "Card draft clears only after successful send" *)
(* (docs/terminal-fleet-grid-hq-dev3-report-20260602.md).  It fails for    *)
(* words typed while a send is under way: its success empties the composer *)
(* whatever it holds by then.  (One composer: the composers of an id share *)
(* one draft, and each empties it.)                                        *)
TypedNotLost ==
  \A w \in 1 .. typed :
    \/ w \in ToSet(stored) \/ \E c \in Composers : w \in ToSet(text[c])
    \/ \E r \in DOMAIN req : w \in ToSet(req[r].body) /\ req[r].pc # "error"

(* The words of the line that the Enter at n submits.                      *)
Line(i, n) ==
  LET start == CHOOSE k \in 0 .. n - 1 :
                 /\ k = 0 \/ pty[i][k][2] = Enter
                 /\ \A m \in k + 1 .. n - 1 : pty[i][m][2] # Enter
  IN  [k \in 1 .. n - 1 - start |-> pty[i][start + k][2]]

Enters(i) == {n \in DOMAIN pty[i] : pty[i][n][2] = Enter}

(* The line that the Enter of a send submits is the text of that send,     *)
(* whole and alone (NL-007 and NL-015 of                                   *)
(* docs/terminal-newline-validation-20260531.md), as long as the composers *)
(* of a session send one after the other and nobody creates it again.      *)
(* Nothing reserves the line between a text and its Enter, so two sends at *)
(* a time break it.                                                        *)
OneSendAtATime ==
  \A c, d \in Composers : comp[c].pc # "idle" /\ comp[d].pc # "idle" => c = d

WholeLine(i, n) == LET s == pty[i][n][1] IN s # 0 => Line(i, n) = req[s].body

LinesAreSends ==
  [](OneSendAtATime /\ born = 1) => [](\A i \in Instances : \A n \in Enters(i) : WholeLine(i, n))

(* Nothing is submitted twice (NL-016), unless a composer loses track of a *)
(* send: a draft is kept until the submit is acknowledged, so a composer   *)
(* that is loaded again meanwhile, or gives up on a late answer, still     *)
(* shows what it has sent.  And as long as the composers send one after    *)
(* the other, or nobody creates the session again: the Enter of another    *)
(* composer may submit what the first has written and is still waiting to  *)
(* submit, and when the session is replaced then, the first one's own      *)
(* Enter fails and its text is sent again to the new session.              *)
SubmittedOnce ==
  \A i, j \in Instances : \A n \in Enters(i), k \in Enters(j) :
    <<i, n>> # <<j, k>> => ToSet(Line(i, n)) \cap ToSet(Line(j, k)) = {}

NoResubmit == []OneSendAtATime \/ [](born = 1) => []SubmittedOnce

(* LIVENESS *)

(* A text that a composer has written is submitted, unless the session has *)
(* been deleted or its child has ended.                                    *)
TextGetsSubmitted ==
  \A i \in Instances, s \in Requests, w \in 1 .. MaxWords :
    (i \in WrittenIn(s, w))
      ~> (i \in WrittenIn(s, Enter) \/ table # i \/ i \in dead)
=============================================================================
