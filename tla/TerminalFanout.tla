--------------------------- MODULE TerminalFanout ---------------------------
(***************************************************************************)
(* How the output of a terminal reaches its views.  One session id: the    *)
(* reader thread of each PTY spawned under it (spawn_pty_reader and        *)
(* append_terminal_output), what the server retains of its output (ring    *)
(* buffer, display snapshot, last non-empty snapshot: three maps, each     *)
(* under a mutex of its own), the broadcast channel of server events, and  *)
(* the WebSocket tasks (terminal_socket) with what the view at the other   *)
(* end has on its screen.                                                  *)
(*                                                                         *)
(* Output is a sequence of chunks.  A chunk either draws something or      *)
(* clears the screen; the contents of a screen are the chunks drawn on it  *)
(* since it was last cleared.                                              *)
(***************************************************************************)
EXTENDS Naturals, Sequences, FiniteSetsExt, Functions

CONSTANTS
  Views,      \* terminal views; each has one connection at a time
  NReaders,   \* PTYs spawned under the id, one after the other
  Capacity,   \* of the broadcast channel
  MaxChunks,  \* bound: chunks read by one reader
  MaxLog      \* bound: server events sent

ASSUME FanoutAssumption ==
  /\ NReaders \in Nat \ {0}
  /\ Capacity \in Nat \ {0}
  /\ MaxChunks \in Nat /\ MaxLog \in Nat

Readers == 1 .. NReaders

VARIABLES
  buffer,     \* terminal_buffers[id]
  display,    \* terminal_display_snapshots[id]
  last,       \* terminal_last_nonempty_snapshots[id]
  reader,     \* the reader threads
  log,        \* everything ever sent to the channel
  conn        \* the connection of each view

vars == <<buffer, display, last, reader, log, conn>>

Chunks == [by : Readers, n : 1 .. MaxChunks, clears : BOOLEAN]

Draw(screen, c) == IF c.clears THEN <<>> ELSE Append(screen, c)

(* Any server event that is not output of this id: of another session, or  *)
(* an Exit or SessionDeleted, which go to every socket, attached or not.   *)
Other == [by |-> 0, n |-> 0, clears |-> FALSE]

Reader(pc, made, chunk, text) ==
  [pc |-> pc, made |-> made, chunk |-> chunk, text |-> text]

(* A connection: what its task is doing, whether the id is in              *)
(* attached_sessions, the next event its receiver will read, the snapshot  *)
(* an attach holds, and at the client the screen and whether an attach has *)
(* brought it up to date.                                                  *)
Closed == [pc |-> "closed", attached |-> FALSE, next |-> 0,
           held |-> <<>>, screen |-> <<>>, current |-> FALSE]

TypeOK ==
  /\ buffer \in Seq(Chunks) /\ display \in Seq(Chunks) /\ last \in Seq(Chunks)
  /\ \A g \in Readers :
       /\ reader[g].pc \in {"unborn", "reading", "snapshot", "cache", "send"}
       /\ reader[g].made \in 0 .. MaxChunks
       /\ reader[g].chunk \in Chunks \cup {Other}
       /\ reader[g].text \in Seq(Chunks)
  /\ log \in Seq(Chunks \cup {Other})
  /\ \A v \in Views :
       /\ conn[v].pc \in {"closed", "loop", "fallback", "last", "attach", "replay", "busy"}
       /\ conn[v].next \in 0 .. Len(log) + 1
       /\ conn[v].held \in Seq(Chunks) /\ conn[v].screen \in Seq(Chunks)
       /\ {conn[v].attached, conn[v].current} \subseteq BOOLEAN

Init ==
  /\ buffer = <<>> /\ display = <<>> /\ last = <<>>
  /\ reader = [g \in Readers |-> Reader("unborn", 0, Other, <<>>)]
  /\ log = <<>>
  /\ conn = [v \in Views |-> Closed]

----------------------------------------------------------------------------
(* Definitions named _Faulty... are plausible mistakes in the definition   *)
(* after them; no specification uses them.                                 *)

(* spawn_pty_reader, its start: it replaces what an earlier reader of the  *)
(* id left in two of the three maps.                                       *)
StartReader(g) ==
  /\ reader[g].pc = "unborn"
  /\ \A h \in Readers : h < g => reader[h].pc # "unborn"
  /\ reader' = [reader EXCEPT ![g].pc = "reading"]
  /\ buffer' = <<>> /\ display' = <<>>
  /\ UNCHANGED <<last, log, conn>>

(* append_terminal_output takes one lock after another: ring buffer,       *)
(* display snapshot, last non-empty snapshot; then it sends.               *)
PushBuffer(g) ==
  /\ reader[g].pc = "reading"
  /\ reader[g].made < MaxChunks
  /\ \E clears \in BOOLEAN :
       LET c == [by |-> g, n |-> reader[g].made + 1, clears |-> clears]
       IN  /\ buffer' = Append(buffer, c)
           /\ reader' = [reader EXCEPT ![g] = Reader("snapshot", c.n, c, <<>>)]
  /\ UNCHANGED <<display, last, log, conn>>

PushSnapshot(g) ==
  /\ reader[g].pc = "snapshot"
  /\ display' = Draw(display, reader[g].chunk)
  /\ reader' = [reader EXCEPT ![g].pc = "cache", ![g].text = display']
  /\ UNCHANGED <<buffer, last, log, conn>>

CacheLast(g) ==
  /\ reader[g].pc = "cache"
  /\ last' = IF reader[g].text = <<>> THEN last ELSE reader[g].text
  /\ reader' = [reader EXCEPT ![g].pc = "send", ![g].text = <<>>]
  /\ UNCHANGED <<buffer, display, log, conn>>

SendOutput(g) ==
  /\ reader[g].pc = "send"
  /\ Len(log) < MaxLog
  /\ log' = Append(log, reader[g].chunk)
  /\ reader' = [reader EXCEPT ![g].pc = "reading"]
  /\ UNCHANGED <<buffer, display, last, conn>>

(* Any other sender of server events: the handlers, the readers of other   *)
(* sessions, and the waiter of this one, which does not wait for the       *)
(* reader.                                                                 *)
SendOther ==
  /\ Len(log) < MaxLog
  /\ log' = Append(log, Other)
  /\ UNCHANGED <<buffer, display, last, reader, conn>>

----------------------------------------------------------------------------
(* Subscribe only when the view attaches. *)
Connect_FaultySkipsQueue(v) ==
  /\ conn[v].pc = "closed"
  /\ conn' = [conn EXCEPT ![v] = [Closed EXCEPT !.pc = "loop", !.next = Len(log) + 2]]
  /\ UNCHANGED <<buffer, display, last, reader, log>>

(* The client opens its socket (first, or again two seconds after a        *)
(* close); the task subscribes before anything else.                       *)
Connect(v) ==
  /\ conn[v].pc = "closed"
  /\ conn' = [conn EXCEPT ![v] = [Closed EXCEPT !.pc = "loop", !.next = Len(log) + 1]]
  /\ UNCHANGED <<buffer, display, last, reader, log>>

(* The client goes away; a send or a receive fails and the loop ends.      *)
Disconnect(v) ==
  /\ conn[v].pc # "closed"
  /\ conn' = [conn EXCEPT ![v] = Closed]
  /\ UNCHANGED <<buffer, display, last, reader, log>>

Unread(v) == Len(log) + 1 - conn[v].next

(* Lagged is taken as a reason to go on with what the channel still has. *)
ReceiveLagged_FaultySkips(v) ==
  /\ conn[v].pc = "loop"
  /\ Unread(v) > Capacity
  /\ conn' = [conn EXCEPT ![v].next = Len(log) + 1 - Capacity]
  /\ UNCHANGED <<buffer, display, last, reader, log>>

(* Lagged is retried without moving on. *)
ReceiveLagged_FaultyRetry(v) ==
  /\ conn[v].pc = "loop"
  /\ Unread(v) > Capacity
  /\ UNCHANGED vars

(* The two outcomes of rx.recv(): the channel holds the last Capacity      *)
(* events; a receiver that has not read an older one gets Lagged, and the  *)
(* socket is closed.                                                       *)
ReceiveLagged(v) ==
  /\ conn[v].pc = "loop"
  /\ Unread(v) > Capacity
  /\ conn' = [conn EXCEPT ![v] = Closed]
  /\ UNCHANGED <<buffer, display, last, reader, log>>

Receive(v) ==
  LET e == log[conn[v].next]
  IN  /\ conn[v].pc = "loop"
      /\ Unread(v) \in 1 .. Capacity
      /\ conn' = [conn EXCEPT
           ![v].next = @ + 1,
           ![v].screen = IF conn[v].attached /\ e # Other THEN Draw(@, e) ELSE @]
      /\ UNCHANGED <<buffer, display, last, reader, log>>

----------------------------------------------------------------------------
(* An attach without requestReplay: the id is marked attached, the current *)
(* display is read, the PTY is resized if the client gave dimensions, and  *)
(* the display read before the resize is sent.                             *)
AttachRead(v) ==
  /\ conn[v].pc = "loop"
  /\ conn' = [conn EXCEPT ![v].attached = TRUE,
                          ![v].held = display,
                          ![v].pc = IF display = <<>> THEN "fallback" ELSE "attach"]
  /\ UNCHANGED <<buffer, display, last, reader, log>>

(* What the ring buffer draws on a screen: its part after the last clear.  *)
BufferTail ==
  LET clear == Max({0} \cup {n \in DOMAIN buffer : buffer[n].clears})
  IN  SubSeq(buffer, clear + 1, Len(buffer))

(* terminal_current_display_for_attach, when the first look at the display *)
(* found it empty: the display again, then the last non-empty one, then    *)
(* the ring buffer, each under its own lock.                               *)
AttachFallback(v) ==
  /\ conn[v].pc = "fallback"
  /\ conn' = [conn EXCEPT ![v].pc = IF display = <<>> THEN "last" ELSE "attach",
                          ![v].held = display]
  /\ UNCHANGED <<buffer, display, last, reader, log>>

AttachLast(v) ==
  /\ conn[v].pc = "last"
  /\ conn' = [conn EXCEPT ![v].pc = IF last = <<>> THEN "replay" ELSE "attach",
                          ![v].held = last]
  /\ UNCHANGED <<buffer, display, last, reader, log>>

(* An attach with requestReplay goes through handle_terminal_protocol,     *)
(* which reads the ring buffer after its resize.                           *)
AttachReplay(v) ==
  /\ conn[v].pc = "loop"
  /\ conn' = [conn EXCEPT ![v].pc = "replay", ![v].attached = TRUE]
  /\ UNCHANGED <<buffer, display, last, reader, log>>

ReplayRead(v) ==
  /\ conn[v].pc = "replay"
  /\ conn' = [conn EXCEPT ![v].pc = "attach", ![v].held = BufferTail]
  /\ UNCHANGED <<buffer, display, last, reader, log>>

(* The resize fails.  The client gets an error and no snapshot, and stays  *)
(* attached.                                                               *)
AttachError(v) ==
  /\ conn[v].pc = "attach"
  /\ conn' = [conn EXCEPT ![v].pc = "loop", ![v].held = <<>>]
  /\ UNCHANGED <<buffer, display, last, reader, log>>

(* The client writes the snapshot over whatever it showed.                 *)
AttachReply(v) ==
  /\ conn[v].pc = "attach"
  /\ conn' = [conn EXCEPT ![v].pc = "loop", ![v].held = <<>>, ![v].current = TRUE,
                          ![v].screen = IF conn[v].held = <<>> THEN @ ELSE conn[v].held]
  /\ UNCHANGED <<buffer, display, last, reader, log>>

(* Any other message.  handle_terminal_protocol runs inside the loop, and  *)
(* a prompt sleeps 420 ms and more in it: nothing is received meanwhile.   *)
ProtocolBegin(v) ==
  /\ conn[v].pc = "loop"
  /\ conn' = [conn EXCEPT ![v].pc = "busy"]
  /\ UNCHANGED <<buffer, display, last, reader, log>>

ProtocolEnd(v) ==
  /\ conn[v].pc = "busy"
  /\ conn' = [conn EXCEPT ![v].pc = "loop"]
  /\ UNCHANGED <<buffer, display, last, reader, log>>

----------------------------------------------------------------------------
ReaderStep(g) ==
  StartReader(g) \/ PushBuffer(g) \/ PushSnapshot(g) \/ CacheLast(g) \/ SendOutput(g)

Task(v) ==
  \/ Receive(v) \/ ReceiveLagged(v)
  \/ AttachFallback(v) \/ AttachLast(v) \/ ReplayRead(v) \/ AttachError(v) \/ AttachReply(v)
  \/ ProtocolEnd(v)

Client(v) ==
  Connect(v) \/ Disconnect(v) \/ AttachRead(v) \/ AttachReplay(v) \/ ProtocolBegin(v)

Next ==
  \/ \E g \in Readers : ReaderStep(g)
  \/ SendOther
  \/ \E v \in Views : Task(v) \/ Client(v)

Spec == Init /\ [][Next]_vars

(* The socket task runs on the tokio runtime, so what it has begun goes    *)
(* on.  tokio::select! polls its branches in random order, so a client     *)
(* that never stops sending does not keep the receive branch from being    *)
(* taken: strong fairness of Receive.                                      *)
FairSpec ==
  /\ Spec
  /\ \A v \in Views :
       /\ SF_vars(Receive(v)) /\ SF_vars(ReceiveLagged(v))
       /\ WF_vars(AttachFallback(v) \/ AttachLast(v) \/ ReplayRead(v))
       /\ WF_vars(AttachError(v) \/ AttachReply(v)) /\ WF_vars(ProtocolEnd(v))

----------------------------------------------------------------------------
(* SAFETY *)

UnreadChunks(v) == {log[n] : n \in conn[v].next .. Len(log)}

InHand == {reader[g].chunk : g \in {h \in Readers : reader[h].pc \in {"cache", "send"}}}

ClearPending == \E g \in Readers : reader[g].pc = "snapshot" /\ reader[g].chunk.clears

(* The chunk a live screen gains next is never one that skips output: on   *)
(* the screen of a view each chunk is followed by its successor or, where  *)
(* the snapshot and the queue overlap, by an earlier one.  Only a chunk    *)
(* that cleared the screen can be missing in between, whatever other       *)
(* readers draw.                                                           *)
Between(c, d) == {e \in Range(buffer) : e.by = c.by /\ e.n \in c.n + 1 .. d.n - 1}

NoSkip ==
  \A v \in Views : \A k \in 1 .. Len(conn[v].screen) - 1 :
    LET c == conn[v].screen[k]
        d == conn[v].screen[k + 1]
    IN  c.by = d.by => \A e \in Between(c, d) : e.clears

(* Whatever is on the server's display is on the screen of every view that *)
(* is current, or still to be received by it, or about to be sent; and a   *)
(* screen has no gap.  It rests on three orders in the code: subscribe     *)
(* before attach, mark attached before reading the display, retain output  *)
(* before sending it; and on closing a connection that lags.  (One reader: *)
(* a second one that starts while the first has a chunk in hand resets     *)
(* what it retains.)                                                       *)
NothingMissed ==
  /\ \A v \in Views :
       conn[v].current /\ ~ClearPending =>
         Range(display) \subseteq Range(conn[v].screen) \cup UnreadChunks(v) \cup InHand
  /\ NoSkip

(* A view that is current and has nothing left to receive shows what the   *)
(* server's display holds: "All display surfaces render that same tail"    *)
(* (docs/terminal-source-tail-policy-20260604.md).  An attach between the  *)
(* push to the display and the receipt of the event draws a chunk twice,   *)
(* one just after a clear is answered with the screen before it: it does   *)
(* not hold, as TLC shows with two readers and a view.                     *)
SettledViewAgrees ==
  \A v \in Views :
    /\ conn[v].current /\ conn[v].pc = "loop" /\ Unread(v) = 0
    /\ \A g \in Readers : reader[g].pc \in {"unborn", "reading"}
    => conn[v].screen = display

(* LIVENESS *)

(* Every event sent to an attached view is received in the end, unless the *)
(* connection is closed.                                                   *)
Delivered ==
  \A v \in Views, n \in 1 .. MaxLog :
    conn[v].attached /\ conn[v].next <= n /\ n <= Len(log)
      ~> conn[v].pc = "closed" \/ conn[v].next > n
=============================================================================
