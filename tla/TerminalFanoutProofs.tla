------------------------ MODULE TerminalFanoutProofs ------------------------
(***************************************************************************)
(* Proofs about TerminalFanout: type correctness for any number of views   *)
(* and readers, and, for one reader, that no view misses output.  Capacity *)
(* and the bounds are arbitrary.                                           *)
(***************************************************************************)
EXTENDS TerminalFanout, TLAPS, FiniteSetTheorems, SequenceTheorems

Connection ==
  [pc       : {"closed", "loop", "fallback", "last", "attach", "replay", "busy"},
   attached : BOOLEAN,
   next     : Nat,
   held     : Seq(Chunks),
   screen   : Seq(Chunks),
   current  : BOOLEAN]

ReaderState ==
  [pc    : {"unborn", "reading", "snapshot", "cache", "send"},
   made  : 0 .. MaxChunks,
   chunk : Chunks \cup {Other},
   text  : Seq(Chunks)]

(* The state is well typed; a reader past its read holds a chunk; a        *)
(* receiver is never ahead of the channel.                                 *)
TypeInv ==
  /\ buffer \in Seq(Chunks) /\ display \in Seq(Chunks) /\ last \in Seq(Chunks)
  /\ reader \in [Readers -> ReaderState]
  /\ \A g \in Readers :
       reader[g].pc \in {"snapshot", "cache", "send"} => reader[g].chunk \in Chunks
  /\ log \in Seq(Chunks \cup {Other})
  /\ conn \in [Views -> Connection]
  /\ \A v \in Views :
       /\ conn[v].next <= Len(log) + 1
       /\ conn[v].pc # "closed" => conn[v].next >= 1

(* What a view shows before it attaches.                                   *)
AttachInv ==
  \A v \in Views :
    /\ conn[v].pc \in {"fallback", "last", "attach", "replay"} => conn[v].attached
    /\ ~conn[v].attached => conn[v].screen = <<>> /\ ~conn[v].current

-----------------------------------------------------------------------------
(* How far the one reader is: the chunks it has put in the ring buffer,    *)
(* those the display shows, and those it has sent.                         *)
Made  == reader[1].made
Shown == IF reader[1].pc = "snapshot" THEN Made - 1 ELSE Made
Sent  == IF reader[1].pc \in {"unborn", "reading"} THEN Made ELSE Made - 1

(* The number of the last chunk of a screen; a screen that shows the       *)
(* output up to chunk e without a gap.                                     *)
Latest(s) == IF s = <<>> THEN 0 ELSE s[Len(s)].n

EndsAt(s, e) ==
  /\ Len(s) <= e /\ e <= Len(buffer)
  /\ \A k \in 1 .. Len(s) : s[k] = buffer[e - Len(s) + k] /\ ~s[k].clears

AllClear(a, b) == \A m \in a .. b : buffer[m].clears

(* The chunks of the one reader are numbered by their place in the ring    *)
(* buffer.                                                                 *)
BufferInv ==
  /\ Len(buffer) = Made
  /\ \A k \in 1 .. Len(buffer) : buffer[k].n = k
  /\ reader[1].pc = "unborn" => Made = 0
  /\ reader[1].pc \in {"snapshot", "cache", "send"} =>
       Made > 0 /\ reader[1].chunk = buffer[Made]

(* The display is what was drawn since the last clear; the last non-empty  *)
(* one is followed by clears only.                                         *)
DisplayInv ==
  /\ EndsAt(display, Shown)
  /\ Len(display) = Shown \/ buffer[Shown - Len(display)].clears
  /\ reader[1].pc = "cache" => reader[1].text = display

LastInv ==
  /\ EndsAt(last, Latest(last)) /\ Latest(last) <= Shown
  /\ last # <<>> =>
       AllClear(Latest(last) + 1,
                IF reader[1].pc = "cache" /\ display # <<>> THEN Shown - 1 ELSE Shown)

(* The channel has carried every chunk that was sent, in order.            *)
LogInv ==
  /\ \A p \in 1 .. Len(log) :
       log[p] = Other \/ (log[p].n \in 1 .. Sent /\ log[p] = buffer[log[p].n])
  /\ \A p, q \in 1 .. Len(log) :
       p < q /\ log[p] # Other /\ log[q] # Other => log[p].n < log[q].n
  /\ \A n \in 1 .. Sent : \E p \in 1 .. Len(log) : log[p] = buffer[n]

(* A receiver at event n of the channel has chunk m still to come.         *)
Coming(n, m) == \E p \in 1 .. Len(log) : n <= p /\ log[p].n = m

(* Chunk m was sent and is on a screen that shows all there is.            *)
Live(m) == m \in 1 .. Sent /\ \A k \in m .. Len(buffer) : ~buffer[k].clears

(* What a screen must still show is on it, or comes to it.                 *)
Keeps(n, s) ==
  \A m \in 1 .. Sent :
    Live(m) => Coming(n, m) \/ \E k \in 1 .. Len(s) : s[k] = buffer[m]

(* A screen that the queued output continues: no gap in it misses a chunk, *)
(* and between its end and what is to come there are clears only.          *)
Continues(n, s) ==
  /\ \A k \in 1 .. Len(s) : s[k].n \in 1 .. Len(buffer) /\ s[k] = buffer[s[k].n]
  /\ \A k \in 1 .. Len(s) - 1 : AllClear(s[k].n + 1, s[k + 1].n - 1)
  /\ s # <<>> => \A m \in Latest(s) + 1 .. Sent : Coming(n, m) \/ buffer[m].clears

ViewInv ==
  \A v \in Views :
    /\ conn[v].current => Keeps(conn[v].next, conn[v].screen)
    /\ Continues(conn[v].next, conn[v].screen)
    /\ conn[v].pc = "attach" =>
         Keeps(conn[v].next, conn[v].held) /\ Continues(conn[v].next, conn[v].held)
    /\ conn[v].pc = "last" => Keeps(conn[v].next, last) /\ Continues(conn[v].next, last)

IInv == /\ TypeInv /\ AttachInv /\ BufferInv /\ DisplayInv /\ LastInv
        /\ LogInv /\ ViewInv

-----------------------------------------------------------------------------
(* LEMMAS ABOUT SEQUENCES AND THE RING BUFFER *)

(* A non-empty finite set of numbers has a greatest element, and that is   *)
(* what Max returns: the element with the fewest above it.                 *)
LEMMA MaxOfFinite ==
  ASSUME NEW S \in SUBSET Nat, IsFiniteSet(S), S # {}
  PROVE  Max(S) \in S /\ \A x \in S : x <= Max(S)
  <1> DEFINE Above(x) == {y \in S : y > x}
             T == {Above(x) : x \in S}
  <1>1. T \subseteq FiniteSubsetsOf(S) /\ T # {}
    <2>1. \A x \in S : Above(x) \subseteq S /\ IsFiniteSet(Above(x))
      BY FS_Subset
    <2> QED BY <2>1 DEF FiniteSubsetsOf
  <1>2. PICK U \in T : \A W \in T : <<W, U>> \notin StrictSubsetOrdering(S)
    <2> HIDE DEF T
    <2> QED BY <1>1, FS_StrictSubsetOrderingWellFounded, WFMin
  <1>3. PICK m \in S : U = Above(m)
    OBVIOUS
  <1>4. \A x \in S : m >= x
    <2> SUFFICES ASSUME NEW x \in S, x > m PROVE FALSE
      OBVIOUS
    <2>1. Above(x) \subseteq Above(m) /\ x \in Above(m) /\ x \notin Above(x)
      <3>1. \A y \in S : y > x => y > m
        OBVIOUS
      <3>2. ~(x > x)
        OBVIOUS
      <3> QED BY <3>1, <3>2
    <2>2. <<Above(x), Above(m)>> \in StrictSubsetOrdering(S)
      BY <2>1 DEF StrictSubsetOrdering
    <2> QED BY <1>2, <1>3, <2>2
  <1>5. \E n \in S : \A x \in S : n >= x
    BY <1>4
  <1> QED BY <1>5 DEF Max

(* A chunk appended to a sequence of chunks.                               *)
LEMMA AppendFacts ==
  ASSUME NEW S, NEW s \in Seq(S), NEW x \in S
  PROVE  /\ Append(s, x) \in Seq(S) /\ Len(Append(s, x)) = Len(s) + 1
         /\ Append(s, x)[Len(s) + 1] = x
         /\ \A k \in 1 .. Len(s) : Append(s, x)[k] = s[k]
  OBVIOUS

(* What Draw does to a screen is a screen.                                 *)
LEMMA DrawType ==
  ASSUME NEW s \in Seq(Chunks), NEW c \in Chunks
  PROVE  Draw(s, c) \in Seq(Chunks)
  BY AppendFacts, EmptySeq DEF Draw

(* What the ring buffer draws: the chunks after its last clear.            *)
LEMMA BufferTailFacts ==
  ASSUME buffer \in Seq(Chunks)
  PROVE  /\ BufferTail \in Seq(Chunks)
         /\ EndsAt(BufferTail, Len(buffer))
         /\ \/ Len(BufferTail) = Len(buffer)
            \/ buffer[Len(buffer) - Len(BufferTail)].clears
  <1> DEFINE S == {0} \cup {n \in DOMAIN buffer : buffer[n].clears}
             m == Max(S)
  <1>1. DOMAIN buffer = 1 .. Len(buffer) /\ Len(buffer) \in Nat
    BY LenProperties
  <1>2. S \in SUBSET (0 .. Len(buffer)) /\ S # {}
    BY <1>1
  <1> HIDE DEF S
  <1>3. m \in S /\ \A x \in S : x <= m
    <2>1. IsFiniteSet(S) /\ S \in SUBSET Nat
      <3>1. IsFiniteSet(0 .. Len(buffer))
        BY <1>1, FS_Interval
      <3>2. IsFiniteSet(S)
        BY <1>2, <3>1, FS_Subset
      <3> QED BY <1>1, <1>2, <3>2
    <2> QED BY <1>2, <2>1, MaxOfFinite
  <1>4. m \in 0 .. Len(buffer)
    BY <1>2, <1>3
  <1> HIDE DEF m
  <1>5. BufferTail = SubSeq(buffer, m + 1, Len(buffer))
    BY DEF BufferTail, m, S
  <1>6. /\ BufferTail \in Seq(Chunks)
        /\ Len(BufferTail) = Len(buffer) - m
        /\ \A k \in 1 .. Len(BufferTail) : BufferTail[k] = buffer[m + k]
    <2>1. m + 1 \in Int /\ Len(buffer) \in Int
      BY <1>1, <1>4
    <2>2. \A i \in m + 1 .. Len(buffer) : buffer[i] \in Chunks
      BY <1>1, <1>4, ElementOfSeq
    <2>3. /\ BufferTail \in Seq(Chunks)
          /\ Len(BufferTail) = IF m + 1 <= Len(buffer) THEN Len(buffer) - (m + 1) + 1 ELSE 0
          /\ \A k \in 1 .. Len(buffer) - (m + 1) + 1 : BufferTail[k] = buffer[m + 1 + k - 1]
      BY <1>5, <2>1, <2>2, SubSeqProperties
    <2>4. Len(BufferTail) = Len(buffer) - m
      BY <1>1, <1>4, <2>3
    <2>5. \A k \in Nat : m + 1 + k - 1 = m + k
      BY <1>4
    <2>6. \A k \in 1 .. Len(BufferTail) : BufferTail[k] = buffer[m + k]
      <3>1. 1 .. Len(buffer) - (m + 1) + 1 = 1 .. Len(BufferTail)
        BY <1>1, <1>4, <2>4
      <3> QED BY <2>3, <2>5, <3>1
    <2> QED BY <2>3, <2>4, <2>6
  <1>7. \A k \in m + 1 .. Len(buffer) : ~buffer[k].clears
    BY <1>1, <1>3, <1>4 DEF S
  <1>8. m = 0 \/ buffer[m].clears
    BY <1>3 DEF S
  <1>9. \A k \in 1 .. Len(BufferTail) :
           BufferTail[k] = buffer[Len(buffer) - Len(BufferTail) + k] /\ ~BufferTail[k].clears
    <2> SUFFICES ASSUME NEW k \in 1 .. Len(BufferTail)
                 PROVE  /\ BufferTail[k] = buffer[Len(buffer) - Len(BufferTail) + k]
                        /\ ~BufferTail[k].clears
      OBVIOUS
    <2>1. /\ Len(buffer) - Len(BufferTail) + k = m + k
          /\ m + k \in m + 1 .. Len(buffer)
      BY <1>1, <1>4, <1>6
    <2> QED BY <1>6, <1>7, <2>1
  <1>10. Len(buffer) - Len(BufferTail) = m /\ Len(BufferTail) <= Len(buffer)
    BY <1>1, <1>4, <1>6
  <1>11. EndsAt(BufferTail, Len(buffer))
    <2>1. Len(buffer) <= Len(buffer)
      BY <1>1
    <2> QED BY <1>9, <1>10, <2>1 DEF EndsAt
  <1>12. m = 0 => Len(BufferTail) = Len(buffer)
    BY <1>1, <1>6
  <1> QED BY <1>6, <1>8, <1>10, <1>11, <1>12

-----------------------------------------------------------------------------
(* TYPE CORRECTNESS *)

(* At the start nothing was read and nobody is connected.                  *)
LEMMA InitTypeInv == Init => TypeInv /\ AttachInv
  BY FanoutAssumption, EmptySeq
  DEF Init, TypeInv, AttachInv, Connection, ReaderState, Closed, Reader

(* A step that does no more than give a view the connection c.             *)
OnlyMoves(v, c) ==
  conn' = [conn EXCEPT ![v] = c] /\ UNCHANGED <<buffer, display, last, reader, log>>

SameScreen(v, c) ==
  c.next = conn[v].next /\ c.screen = conn[v].screen /\ c.current = conn[v].current

(* Such a step keeps the typing when the connection is a possible one.     *)
LEMMA ConnMoves ==
  ASSUME TypeInv, AttachInv, NEW v \in Views, NEW c \in Connection, OnlyMoves(v, c),
         c.next <= Len(log) + 1, c.pc # "closed" => c.next >= 1,
         c.pc \in {"fallback", "last", "attach", "replay"} => c.attached,
         ~c.attached => c.screen = <<>> /\ ~c.current
  PROVE  TypeInv' /\ AttachInv'
  BY DEF TypeInv, AttachInv, OnlyMoves

(* What each action of a view makes of its connection.  A new connection   *)
(* starts at the end of the channel.                                       *)
LEMMA ConnectStep ==
  ASSUME TypeInv, NEW v \in Views, Connect(v)
  PROVE  \E c \in Connection :
           /\ OnlyMoves(v, c) /\ c.pc = "loop" /\ c.next = Len(log) + 1
           /\ c.screen = <<>> /\ ~c.current
  <1> DEFINE d == Closed
             c == [d EXCEPT !.pc = "loop", !.next = Len(log) + 1]
  <1>1. OnlyMoves(v, c)
    BY DEF Connect, OnlyMoves
  <1>2. d \in Connection /\ d.screen = <<>> /\ ~d.current
    BY EmptySeq DEF Closed, Connection
  <1>3. Len(log) + 1 \in Nat
    BY DEF TypeInv
  <1> HIDE DEF d
  <1>4. /\ c \in Connection /\ c.next = Len(log) + 1 /\ c.pc = "loop"
        /\ c.screen = d.screen /\ c.current = d.current
    BY <1>2, <1>3 DEF Connection
  <1> HIDE DEF c
  <1> QED BY <1>1, <1>2, <1>4

(* A view that goes away, or lags, is left with a closed connection.       *)
LEMMA CloseStep ==
  ASSUME NEW v \in Views, Disconnect(v) \/ ReceiveLagged(v)
  PROVE  \E c \in Connection :
           OnlyMoves(v, c) /\ c.pc = "closed" /\ c.next = 0 /\ c.screen = <<>> /\ ~c.current
  <1>1. OnlyMoves(v, Closed)
    BY DEF Disconnect, ReceiveLagged, OnlyMoves
  <1>2. /\ Closed \in Connection /\ Closed.pc = "closed" /\ Closed.next = 0
        /\ Closed.screen = <<>> /\ ~Closed.current
    BY EmptySeq DEF Closed, Connection
  <1> QED BY <1>1, <1>2

(* A receive reads an event that is there, and draws it if the view is     *)
(* attached.                                                               *)
LEMMA ReceiveStep ==
  ASSUME TypeInv, NEW v \in Views, Receive(v)
  PROVE  /\ conn[v].next \in 1 .. Len(log)
         /\ log[conn[v].next] \in Chunks \cup {Other}
         /\ \E c \in Connection :
              /\ OnlyMoves(v, c) /\ c.pc = "loop" /\ c.next = conn[v].next + 1
              /\ c.attached = conn[v].attached /\ c.current = conn[v].current
              /\ c.screen = IF conn[v].attached /\ log[conn[v].next] # Other
                            THEN Draw(conn[v].screen, log[conn[v].next])
                            ELSE conn[v].screen
  <1> DEFINE x == conn[v]
             e == log[x.next]
             n == x.next + 1
             s == IF x.attached /\ e # Other THEN Draw(x.screen, e) ELSE x.screen
             c == [x EXCEPT !.next = n, !.screen = s]
  <1>1. x \in Connection /\ Len(log) \in Nat
    BY DEF TypeInv
  <1>2. x.next \in 1 .. Len(log) /\ n \in Nat
    <2>1. Len(log) + 1 - x.next >= 1
      BY FanoutAssumption DEF Receive, Unread
    <2>2. x.next \in Nat /\ x.next >= 1
      BY <1>1 DEF Receive, TypeInv, Connection
    <2> QED BY <1>1, <2>1, <2>2
  <1>3. e \in Chunks \cup {Other}
    BY <1>2, ElementOfSeq DEF TypeInv
  <1>4. OnlyMoves(v, c)
    <2>1. conn' = [conn EXCEPT ![v].next = n, ![v].screen = s]
      BY DEF Receive
    <2> HIDE DEF n, s
    <2> QED BY <2>1 DEF Receive, OnlyMoves
  <1> HIDE DEF e
  <1>5. s \in Seq(Chunks)
    BY <1>1, <1>3, DrawType DEF Connection
  <1> HIDE DEF n, s
  <1>6. x.pc = "loop"
    BY DEF Receive
  <1> HIDE DEF x
  <1>7. /\ c \in Connection /\ c.pc = "loop" /\ c.next = n /\ c.screen = s
        /\ c.attached = x.attached /\ c.current = x.current
    BY <1>1, <1>2, <1>5, <1>6 DEF Connection
  <1> HIDE DEF c
  <1> QED BY <1>2, <1>3, <1>4, <1>7 DEF x, n, s, e

(* The actions that take a snapshot, and which one.                        *)
LEMMA HoldStep ==
  ASSUME TypeInv, NEW v \in Views,
         AttachRead(v) \/ AttachFallback(v) \/ AttachLast(v) \/ ReplayRead(v)
  PROVE  \E c \in Connection :
           /\ OnlyMoves(v, c) /\ SameScreen(v, c)
           /\ c.pc \in {"fallback", "last", "attach", "replay"}
           /\ AttachRead(v) \/ c.attached = conn[v].attached
           /\ AttachRead(v) => c.attached
           /\ c.pc = "last" => display = <<>>
           /\ c.pc = "attach" =>
                \/ c.held = display /\ display # <<>>
                \/ c.held = last /\ conn[v].pc = "last"
                \/ c.held = BufferTail
  <1> DEFINE x == conn[v]
  <1>1. x \in Connection
    BY DEF TypeInv
  <1>2. CASE AttachRead(v)
    <2> DEFINE p == IF display = <<>> THEN "fallback" ELSE "attach"
               c == [x EXCEPT !.attached = TRUE, !.held = display, !.pc = p]
    <2>1. OnlyMoves(v, c)
      <3>1. conn' = [conn EXCEPT ![v].attached = TRUE, ![v].held = display, ![v].pc = p]
        BY <1>2 DEF AttachRead
      <3> HIDE DEF p
      <3> QED BY <1>2, <3>1 DEF AttachRead, OnlyMoves
    <2>2. p \in {"fallback", "attach"} /\ (p = "attach" => display # <<>>)
      OBVIOUS
    <2>3. display \in Seq(Chunks)
      BY DEF TypeInv
    <2> HIDE DEF p, x
    <2>4. /\ c \in Connection /\ c.pc = p /\ c.attached /\ c.held = display
          /\ c.next = x.next /\ c.screen = x.screen /\ c.current = x.current
      BY <1>1, <2>2, <2>3 DEF Connection
    <2> HIDE DEF c
    <2> QED BY <1>2, <2>1, <2>2, <2>4 DEF SameScreen, x
  <1>3. ASSUME NEW h \in Seq(Chunks), NEW p \in {"last", "attach", "replay"}, ~AttachRead(v),
               conn' = [conn EXCEPT ![v].pc = p, ![v].held = h],
               UNCHANGED <<buffer, display, last, reader, log>>
        PROVE  \E c \in Connection :
           /\ OnlyMoves(v, c) /\ SameScreen(v, c)
           /\ c.pc = p /\ c.attached = conn[v].attached /\ c.held = h
    <2> DEFINE c == [x EXCEPT !.pc = p, !.held = h]
    <2>1. OnlyMoves(v, c)
      BY <1>3 DEF OnlyMoves
    <2> HIDE DEF x
    <2>2. /\ c \in Connection /\ c.pc = p /\ c.attached = x.attached /\ c.held = h
          /\ c.next = x.next /\ c.screen = x.screen /\ c.current = x.current
      BY <1>1 DEF Connection
    <2> HIDE DEF c
    <2> QED BY <2>1, <2>2 DEF SameScreen, x
  <1>4. BufferTail \in Seq(Chunks) /\ display \in Seq(Chunks) /\ last \in Seq(Chunks)
    BY BufferTailFacts DEF TypeInv
  <1>5. CASE AttachFallback(v) /\ ~AttachRead(v)
    <2> DEFINE p == IF display = <<>> THEN "last" ELSE "attach"
    <2>1. /\ conn' = [conn EXCEPT ![v].pc = p, ![v].held = display]
          /\ UNCHANGED <<buffer, display, last, reader, log>>
      BY <1>5 DEF AttachFallback
    <2>2. /\ p \in {"last", "attach", "replay"}
          /\ p = "last" => display = <<>>
          /\ p = "attach" => display # <<>>
      OBVIOUS
    <2> HIDE DEF p
    <2>3. PICK c \in Connection :
            /\ OnlyMoves(v, c) /\ SameScreen(v, c)
            /\ c.pc = p /\ c.attached = conn[v].attached /\ c.held = display
      BY <1>3, <1>4, <1>5, <2>1, <2>2
    <2> QED BY <1>5, <2>1, <2>2, <2>3
  <1>6. CASE AttachLast(v) /\ ~AttachRead(v)
    <2> DEFINE p == IF last = <<>> THEN "replay" ELSE "attach"
    <2>1. /\ conn' = [conn EXCEPT ![v].pc = p, ![v].held = last] /\ conn[v].pc = "last"
          /\ UNCHANGED <<buffer, display, last, reader, log>>
      BY <1>6 DEF AttachLast
    <2>2. p \in {"last", "attach", "replay"} /\ p # "last"
      OBVIOUS
    <2> HIDE DEF p
    <2>3. PICK c \in Connection :
            /\ OnlyMoves(v, c) /\ SameScreen(v, c)
            /\ c.pc = p /\ c.attached = conn[v].attached /\ c.held = last
      BY <1>3, <1>4, <1>6, <2>1, <2>2
    <2> QED BY <1>6, <2>1, <2>2, <2>3
  <1>7. CASE ReplayRead(v) /\ ~AttachRead(v)
    BY <1>3, <1>4, <1>7 DEF ReplayRead
  <1> QED BY <1>2, <1>5, <1>6, <1>7

(* A reply brings the snapshot to the screen, unless it is empty.          *)
LEMMA ReplyStep ==
  ASSUME TypeInv, NEW v \in Views, AttachReply(v)
  PROVE  \E c \in Connection :
           /\ OnlyMoves(v, c) /\ c.pc = "loop" /\ c.attached = conn[v].attached
           /\ c.next = conn[v].next /\ c.current
           /\ c.screen = IF conn[v].held = <<>> THEN conn[v].screen ELSE conn[v].held
  <1> DEFINE x == conn[v]
             s == IF x.held = <<>> THEN x.screen ELSE x.held
             c == [x EXCEPT !.pc = "loop", !.held = <<>>, !.current = TRUE, !.screen = s]
  <1>1. x \in Connection /\ <<>> \in Seq(Chunks)
    BY EmptySeq DEF TypeInv
  <1>2. OnlyMoves(v, c)
    <2>1. conn' = [conn EXCEPT ![v].pc = "loop", ![v].held = <<>>, ![v].current = TRUE,
                               ![v].screen = s]
      BY DEF AttachReply
    <2> HIDE DEF s
    <2> QED BY <2>1 DEF AttachReply, OnlyMoves
  <1>3. s \in Seq(Chunks)
    BY <1>1 DEF Connection
  <1> HIDE DEF x, s
  <1>4. /\ c \in Connection /\ c.pc = "loop" /\ c.attached = x.attached
        /\ c.next = x.next /\ c.current /\ c.screen = s
    BY <1>1, <1>3 DEF Connection
  <1> HIDE DEF c
  <1> QED BY <1>2, <1>4 DEF x, s

(* The others leave the screen alone and hold nothing new.                 *)
LEMMA IdleStep ==
  ASSUME TypeInv, NEW v \in Views,
         AttachReplay(v) \/ AttachError(v) \/ ProtocolBegin(v) \/ ProtocolEnd(v)
  PROVE  \E c \in Connection :
           /\ OnlyMoves(v, c) /\ SameScreen(v, c) /\ c.pc \in {"loop", "replay", "busy"}
           /\ conn[v].attached => c.attached
           /\ c.pc = "replay" => c.attached
           /\ c.attached \/ c.attached = conn[v].attached
           /\ conn[v].pc # "closed"
  <1> DEFINE x == conn[v]
  <1>1. x \in Connection /\ <<>> \in Seq(Chunks)
    BY EmptySeq DEF TypeInv
  <1>2. CASE AttachReplay(v)
    <2> DEFINE c == [x EXCEPT !.pc = "replay", !.attached = TRUE]
    <2>1. OnlyMoves(v, c) /\ x.pc # "closed"
      BY <1>2 DEF AttachReplay, OnlyMoves
    <2> HIDE DEF x
    <2>2. /\ c \in Connection /\ c.pc = "replay" /\ c.attached
          /\ c.next = x.next /\ c.screen = x.screen /\ c.current = x.current
      BY <1>1 DEF Connection
    <2> HIDE DEF c
    <2> QED BY <2>1, <2>2 DEF SameScreen, x
  <1>3. CASE AttachError(v)
    <2> DEFINE c == [x EXCEPT !.pc = "loop", !.held = <<>>]
    <2>1. OnlyMoves(v, c) /\ x.pc # "closed"
      BY <1>3 DEF AttachError, OnlyMoves
    <2> HIDE DEF x
    <2>2. /\ c \in Connection /\ c.pc = "loop" /\ c.attached = x.attached
          /\ c.next = x.next /\ c.screen = x.screen /\ c.current = x.current
      BY <1>1 DEF Connection
    <2> HIDE DEF c
    <2> QED BY <2>1, <2>2 DEF SameScreen, x
  <1>4. CASE ProtocolBegin(v) \/ ProtocolEnd(v)
    <2>1. PICK p \in {"loop", "busy"} :
            conn' = [conn EXCEPT ![v].pc = p] /\ x.pc # "closed"
            /\ UNCHANGED <<buffer, display, last, reader, log>>
      BY <1>4 DEF ProtocolBegin, ProtocolEnd
    <2> DEFINE c == [x EXCEPT !.pc = p]
    <2>2. OnlyMoves(v, c)
      BY <2>1 DEF OnlyMoves
    <2> HIDE DEF x
    <2>3. /\ c \in Connection /\ c.pc = p /\ c.attached = x.attached
          /\ c.next = x.next /\ c.screen = x.screen /\ c.current = x.current
      BY <1>1 DEF Connection
    <2> HIDE DEF c
    <2> QED BY <2>1, <2>2, <2>3 DEF SameScreen, x
  <1> QED BY <1>2, <1>3, <1>4

(* No step breaks the typing.                                              *)
LEMMA NextTypeInv == TypeInv /\ AttachInv /\ [Next]_vars => TypeInv' /\ AttachInv'
<1> SUFFICES ASSUME TypeInv, AttachInv, [Next]_vars PROVE TypeInv' /\ AttachInv'
  OBVIOUS
<1>r. \A g \in Readers : reader[g] \in ReaderState
  BY DEF TypeInv
<1>c. \A v \in Views :
        /\ conn[v] \in Connection /\ conn[v].next <= Len(log) + 1
        /\ conn[v].pc # "closed" => conn[v].next >= 1
  BY DEF TypeInv
<1>l. Len(log) \in Nat
  BY DEF TypeInv
<1>o. Closed \in Connection
  BY EmptySeq DEF Closed, Connection
<1>1. ASSUME NEW g \in Readers, StartReader(g) PROVE TypeInv' /\ AttachInv'
  BY <1>1, <1>r, EmptySeq DEF StartReader, TypeInv, AttachInv, ReaderState
<1>2. ASSUME NEW g \in Readers, PushBuffer(g) PROVE TypeInv' /\ AttachInv'
  <2>1. PICK clears \in BOOLEAN :
          LET c == [by |-> g, n |-> reader[g].made + 1, clears |-> clears]
          IN  /\ buffer' = Append(buffer, c)
              /\ reader' = [reader EXCEPT ![g] = Reader("snapshot", c.n, c, <<>>)]
    BY <1>2 DEF PushBuffer
  <2> DEFINE c == [by |-> g, n |-> reader[g].made + 1, clears |-> clears]
  <2>2. c \in Chunks /\ c.n \in 0 .. MaxChunks
    BY <1>2, <1>r, FanoutAssumption DEF PushBuffer, ReaderState, Chunks
  <2> HIDE DEF c
  <2>3. /\ buffer' = Append(buffer, c)
        /\ reader' = [reader EXCEPT ![g] = Reader("snapshot", c.n, c, <<>>)]
    BY <2>1 DEF c
  <2>4. Reader("snapshot", c.n, c, <<>>) \in ReaderState
    BY <2>2, EmptySeq DEF Reader, ReaderState
  <2>5. reader' \in [Readers -> ReaderState] /\ buffer' \in Seq(Chunks)
    BY <2>2, <2>3, <2>4, AppendFacts DEF TypeInv
  <2>6. \A h \in Readers :
          reader'[h].pc \in {"snapshot", "cache", "send"} => reader'[h].chunk \in Chunks
    BY <2>2, <2>3 DEF TypeInv, Reader
  <2> QED BY <1>2, <2>5, <2>6 DEF PushBuffer, TypeInv, AttachInv
<1>3. ASSUME NEW g \in Readers, PushSnapshot(g) PROVE TypeInv' /\ AttachInv'
  <2>1. display' \in Seq(Chunks)
    <3>1. reader[g].chunk \in Chunks /\ display' = Draw(display, reader[g].chunk)
      BY <1>3 DEF PushSnapshot, TypeInv
    <3> QED BY <3>1, DrawType DEF TypeInv
  <2> DEFINE r == [reader[g] EXCEPT !.pc = "cache", !.text = display']
  <2>2. reader' = [reader EXCEPT ![g] = r]
    BY <1>3 DEF PushSnapshot
  <2>3. r \in ReaderState /\ r.pc = "cache" /\ r.chunk = reader[g].chunk
    BY <1>r, <2>1 DEF ReaderState
  <2>4. reader[g].chunk \in Chunks
    BY <1>3 DEF PushSnapshot, TypeInv
  <2> HIDE DEF r
  <2>5. reader' \in [Readers -> ReaderState]
    BY <2>2, <2>3 DEF TypeInv
  <2>6. \A h \in Readers :
          reader'[h].pc \in {"snapshot", "cache", "send"} => reader'[h].chunk \in Chunks
    BY <2>2, <2>3, <2>4 DEF TypeInv
  <2>7. UNCHANGED <<buffer, last, log, conn>>
    BY <1>3 DEF PushSnapshot
  <2> QED BY <2>1, <2>5, <2>6, <2>7 DEF TypeInv, AttachInv
<1>4. ASSUME NEW g \in Readers, CacheLast(g) PROVE TypeInv' /\ AttachInv'
  <2>1. last' \in Seq(Chunks)
    BY <1>4, <1>r DEF CacheLast, TypeInv, ReaderState
  <2> DEFINE r == [reader[g] EXCEPT !.pc = "send", !.text = <<>>]
  <2>2. reader' = [reader EXCEPT ![g] = r]
    BY <1>4 DEF CacheLast
  <2>3. r \in ReaderState /\ r.pc = "send" /\ r.chunk = reader[g].chunk
    BY <1>r, EmptySeq DEF ReaderState
  <2>4. reader[g].chunk \in Chunks
    BY <1>4 DEF CacheLast, TypeInv
  <2> HIDE DEF r
  <2>5. reader' \in [Readers -> ReaderState]
    BY <2>2, <2>3 DEF TypeInv
  <2>6. \A h \in Readers :
          reader'[h].pc \in {"snapshot", "cache", "send"} => reader'[h].chunk \in Chunks
    BY <2>2, <2>3, <2>4 DEF TypeInv
  <2>7. UNCHANGED <<buffer, display, log, conn>>
    BY <1>4 DEF CacheLast
  <2> QED BY <2>1, <2>5, <2>6, <2>7 DEF TypeInv, AttachInv
<1>5. ASSUME NEW g \in Readers, SendOutput(g) PROVE TypeInv' /\ AttachInv'
  <2>1. reader[g].chunk \in Chunks \cup {Other}
    BY <1>r DEF ReaderState
  <2>2. log' \in Seq(Chunks \cup {Other}) /\ Len(log') = Len(log) + 1
    BY <1>5, <2>1, AppendFacts DEF SendOutput, TypeInv
  <2>3. \A v \in Views : conn'[v].next <= Len(log') + 1
    BY <1>5, <1>c, <1>l, <2>2 DEF SendOutput, Connection
  <2>4. AttachInv'
    BY <1>5 DEF SendOutput, AttachInv
  <2> QED BY <1>5, <1>r, <2>2, <2>3, <2>4 DEF SendOutput, TypeInv, ReaderState
<1>6. ASSUME SendOther PROVE TypeInv' /\ AttachInv'
  <2>1. log' \in Seq(Chunks \cup {Other}) /\ Len(log') = Len(log) + 1
    BY <1>6, AppendFacts DEF SendOther, TypeInv
  <2> QED BY <1>6, <1>c, <1>l, <2>1 DEF SendOther, TypeInv, AttachInv, Connection
<1>7. ASSUME NEW v \in Views, Receive(v) PROVE TypeInv' /\ AttachInv'
  <2>1. conn[v].next \in 1 .. Len(log)
    BY <1>7, ReceiveStep
  <2>2. PICK c \in Connection :
          /\ OnlyMoves(v, c) /\ c.pc = "loop" /\ c.next = conn[v].next + 1
          /\ c.attached = conn[v].attached /\ c.current = conn[v].current
          /\ conn[v].attached \/ c.screen = conn[v].screen
    BY <1>7, ReceiveStep
  <2>3. c.next <= Len(log) + 1 /\ c.next >= 1 /\ c.pc \notin {"fallback", "last", "attach", "replay"}
    BY <1>l, <2>1, <2>2
  <2>4. ~c.attached => c.screen = <<>> /\ ~c.current
    BY <2>2 DEF AttachInv
  <2> QED BY <2>2, <2>3, <2>4, ConnMoves
<1>8. ASSUME NEW v \in Views, Connect(v) PROVE TypeInv' /\ AttachInv'
  <2>1. PICK c \in Connection :
          /\ OnlyMoves(v, c) /\ c.pc = "loop" /\ c.next = Len(log) + 1
          /\ c.screen = <<>> /\ ~c.current
    BY <1>8, ConnectStep
  <2>2. c.next <= Len(log) + 1 /\ c.next >= 1 /\ c.pc \notin {"fallback", "last", "attach", "replay"}
    BY <1>l, <2>1
  <2> QED BY <2>1, <2>2, ConnMoves
<1>9. ASSUME NEW v \in Views, Disconnect(v) \/ ReceiveLagged(v) PROVE TypeInv' /\ AttachInv'
  <2>1. PICK c \in Connection :
          OnlyMoves(v, c) /\ c.pc = "closed" /\ c.next = 0 /\ c.screen = <<>> /\ ~c.current
    BY <1>9, CloseStep
  <2>2. c.next <= Len(log) + 1 /\ c.pc \notin {"fallback", "last", "attach", "replay"}
    BY <1>l, <2>1
  <2> QED BY <2>1, <2>2, ConnMoves
<1>10. ASSUME NEW v \in Views,
              AttachRead(v) \/ AttachFallback(v) \/ AttachLast(v) \/ ReplayRead(v)
       PROVE  TypeInv' /\ AttachInv'
  <2>1. /\ conn[v].pc \in {"loop", "fallback", "last", "replay"}
        /\ AttachRead(v) \/ conn[v].attached
    BY <1>10 DEF AttachRead, AttachFallback, AttachLast, ReplayRead, AttachInv
  <2>2. PICK c \in Connection :
          /\ OnlyMoves(v, c) /\ SameScreen(v, c)
          /\ c.pc \in {"fallback", "last", "attach", "replay"}
          /\ AttachRead(v) \/ c.attached = conn[v].attached
          /\ AttachRead(v) => c.attached
    BY <1>10, HoldStep
  <2>3. c.attached /\ c.next <= Len(log) + 1 /\ c.next >= 1
    BY <1>c, <2>1, <2>2 DEF SameScreen
  <2> QED BY <2>2, <2>3, ConnMoves
<1>11. ASSUME NEW v \in Views, AttachReply(v) PROVE TypeInv' /\ AttachInv'
  <2>1. conn[v].pc = "attach" /\ conn[v].attached
    BY <1>11 DEF AttachReply, AttachInv
  <2>2. PICK c \in Connection :
          /\ OnlyMoves(v, c) /\ c.pc = "loop" /\ c.attached = conn[v].attached
          /\ c.next = conn[v].next
    BY <1>11, ReplyStep
  <2>3. c.attached /\ c.next <= Len(log) + 1 /\ c.next >= 1
    BY <1>c, <2>1, <2>2
  <2> QED BY <2>2, <2>3, ConnMoves
<1>13. ASSUME NEW v \in Views,
              AttachReplay(v) \/ AttachError(v) \/ ProtocolBegin(v) \/ ProtocolEnd(v)
       PROVE  TypeInv' /\ AttachInv'
  <2>1. PICK c \in Connection :
          /\ OnlyMoves(v, c) /\ SameScreen(v, c) /\ c.pc \in {"loop", "replay", "busy"}
          /\ c.pc = "replay" => c.attached
          /\ c.attached \/ c.attached = conn[v].attached
          /\ conn[v].pc # "closed"
    BY <1>13, IdleStep
  <2>2. c.next <= Len(log) + 1 /\ c.next >= 1
    BY <1>c, <2>1 DEF SameScreen
  <2>3. ~c.attached => c.screen = <<>> /\ ~c.current
    BY <2>1 DEF SameScreen, AttachInv
  <2>4. c.pc \in {"fallback", "last", "attach", "replay"} => c.attached
    BY <2>1
  <2> QED BY <2>1, <2>2, <2>3, <2>4, ConnMoves
<1>12. CASE UNCHANGED vars
  BY <1>12 DEF vars, TypeInv, AttachInv
<1> QED
  BY <1>1, <1>2, <1>3, <1>4, <1>5, <1>6, <1>7, <1>8, <1>9, <1>10, <1>11, <1>12, <1>13
  DEF Next, ReaderStep, Task, Client

(* Every reachable state is well typed.                                    *)
THEOREM TypeCorrect == Spec => []TypeOK
  <1>1. TypeInv => TypeOK
    BY DEF TypeInv, TypeOK, ReaderState, Connection
  <1> QED BY <1>1, InitTypeInv, NextTypeInv, PTL DEF Spec

-----------------------------------------------------------------------------
(* ONE READER *)

(* Where the reader can be.                                                *)
LEMMA ReaderFacts ==
  ASSUME NReaders = 1, TypeInv, BufferInv
  PROVE  /\ Readers = {1} /\ reader[1] \in ReaderState
         /\ Made \in Nat /\ Shown \in Nat /\ Sent \in Nat /\ Len(buffer) = Made
         /\ Sent <= Shown /\ Shown <= Made
         /\ Sent = Shown \/ (Sent = Made - 1 /\ Shown = Made /\ reader[1].pc \in {"cache", "send"})
         /\ Shown = Made \/ (Shown = Made - 1 /\ reader[1].pc = "snapshot")
         /\ \A k \in 1 .. Len(buffer) : buffer[k] \in Chunks /\ buffer[k].n = k
  <1>1. Readers = {1}
    BY DEF Readers
  <1>2. reader[1] \in ReaderState
    BY <1>1 DEF TypeInv
  <1>3. /\ Made \in Nat /\ Len(buffer) = Made
        /\ reader[1].pc \in {"unborn", "reading", "snapshot", "cache", "send"}
        /\ reader[1].pc \in {"snapshot", "cache", "send"} => Made > 0
    BY <1>2, FanoutAssumption DEF ReaderState, BufferInv, Made
  <1>4. \A k \in 1 .. Len(buffer) : buffer[k] \in Chunks /\ buffer[k].n = k
    BY ElementOfSeq DEF TypeInv, BufferInv
  <1>5. CASE reader[1].pc \in {"unborn", "reading"}
    BY <1>1, <1>2, <1>3, <1>4, <1>5 DEF Shown, Sent
  <1>6. CASE reader[1].pc = "snapshot"
    BY <1>1, <1>2, <1>3, <1>4, <1>6 DEF Shown, Sent
  <1>7. CASE reader[1].pc \in {"cache", "send"}
    BY <1>1, <1>2, <1>3, <1>4, <1>7 DEF Shown, Sent
  <1> QED BY <1>3, <1>5, <1>6, <1>7

(* A screen that ends with chunk e shows chunks of the ring buffer and has *)
(* no gap.                                                                 *)
LEMMA EndsAtFacts ==
  ASSUME NReaders = 1, TypeInv, BufferInv,
         NEW s \in Seq(Chunks), NEW e \in Nat, EndsAt(s, e)
  PROVE  /\ \A k \in 1 .. Len(s) :
              /\ s[k].n = e - Len(s) + k /\ s[k].n \in 1 .. Len(buffer)
              /\ s[k] = buffer[s[k].n]
         /\ \A k \in 1 .. Len(s) - 1 : AllClear(s[k].n + 1, s[k + 1].n - 1)
         /\ s # <<>> => Latest(s) = e
  <1>1. Len(s) \in Nat /\ Len(s) <= e /\ e <= Len(buffer) /\ Len(buffer) \in Nat
    BY ReaderFacts DEF EndsAt
  <1>2. \A k \in 1 .. Len(s) :
          s[k].n = e - Len(s) + k /\ s[k].n \in 1 .. Len(buffer) /\ s[k] = buffer[s[k].n]
    <2> SUFFICES ASSUME NEW k \in 1 .. Len(s)
                 PROVE  /\ s[k].n = e - Len(s) + k /\ s[k].n \in 1 .. Len(buffer)
                        /\ s[k] = buffer[s[k].n]
      OBVIOUS
    <2>1. e - Len(s) + k \in 1 .. Len(buffer)
      BY <1>1
    <2>2. s[k] = buffer[e - Len(s) + k]
      BY DEF EndsAt
    <2> QED BY <2>1, <2>2, ReaderFacts
  <1>3. \A k \in 1 .. Len(s) - 1 : AllClear(s[k].n + 1, s[k + 1].n - 1)
    <2> SUFFICES ASSUME NEW k \in 1 .. Len(s) - 1
                 PROVE  AllClear(s[k].n + 1, s[k + 1].n - 1)
      OBVIOUS
    <2>1. s[k].n = e - Len(s) + k /\ s[k + 1].n = e - Len(s) + (k + 1)
      <3>1. k \in 1 .. Len(s) /\ k + 1 \in 1 .. Len(s)
        BY <1>1
      <3> QED BY <1>2, <3>1
    <2>2. \A m \in s[k].n + 1 .. s[k + 1].n - 1 : FALSE
      BY <1>1, <2>1
    <2> QED BY <2>2 DEF AllClear
  <1>4. s # <<>> => Latest(s) = e
    <2> HAVE s # <<>>
    <2>1. Len(s) \in 1 .. Len(s)
      BY <1>1
    <2>2. s[Len(s)].n = e - Len(s) + Len(s)
      BY <1>2, <2>1
    <2> QED BY <1>1, <2>2 DEF Latest
  <1> QED BY <1>2, <1>3, <1>4

(* A screen that shows all there is up to chunk e, and e is not behind     *)
(* what was sent, serves a view well.                                      *)
LEMMA FullScreen ==
  ASSUME NReaders = 1, TypeInv, BufferInv,
         NEW s \in Seq(Chunks), NEW e \in Nat, EndsAt(s, e), Sent <= e,
         Len(s) = e \/ buffer[e - Len(s)].clears,
         NEW n \in Nat
  PROVE  Keeps(n, s) /\ Continues(n, s)
  <1>1. Len(s) \in Nat /\ Len(s) <= e /\ e <= Len(buffer) /\ Len(buffer) \in Nat /\ Sent \in Nat
    BY ReaderFacts DEF EndsAt
  <1>2. Keeps(n, s)
    <2> SUFFICES ASSUME NEW m \in 1 .. Sent, Live(m)
                 PROVE  \E k \in 1 .. Len(s) : s[k] = buffer[m]
      BY DEF Keeps
    <2>1. m > e - Len(s)
      <3> SUFFICES ASSUME m <= e - Len(s) PROVE FALSE
        BY <1>1
      <3>1. e - Len(s) \in m .. Len(buffer) /\ Len(s) # e
        BY <1>1
      <3> QED BY <3>1 DEF Live
    <2>2. /\ m - (e - Len(s)) \in 1 .. Len(s)
          /\ e - Len(s) + (m - (e - Len(s))) = m
      BY <1>1, <2>1
    <2> QED BY <2>2 DEF EndsAt
  <1>3. Continues(n, s)
    <2>1. s # <<>> => \A m \in Latest(s) + 1 .. Sent : FALSE
      BY <1>1, EndsAtFacts
    <2> QED BY <2>1, EndsAtFacts DEF Continues
  <1> QED BY <1>2, <1>3

(* The number of the last chunk of the last non-empty display.             *)
LEMMA LastType ==
  ASSUME TypeInv
  PROVE  /\ Latest(last) \in Nat /\ last \in Seq(Chunks)
         /\ last = <<>> => Latest(last) = 0
  <1>1. CASE last # <<>>
    <2>1. Len(last) \in 1 .. Len(last)
      BY <1>1 DEF TypeInv
    <2>2. last[Len(last)] \in Chunks
      BY <2>1, ElementOfSeq DEF TypeInv
    <2> QED BY <1>1, <2>2, FanoutAssumption DEF Latest, Chunks, TypeInv
  <1>2. CASE last = <<>>
    BY <1>2 DEF Latest, TypeInv
  <1> QED BY <1>1, <1>2

(* The last non-empty display serves a view well while the display is      *)
(* empty: all that was drawn since was cleared.                            *)
LEMMA LastScreen ==
  ASSUME NReaders = 1, TypeInv, BufferInv, DisplayInv, LastInv,
         display = <<>>, NEW n \in Nat
  PROVE  Keeps(n, last) /\ Continues(n, last)
  <1>1. /\ Latest(last) \in Nat /\ Sent \in Nat /\ Shown \in Nat /\ Sent <= Shown
        /\ Shown <= Len(buffer) /\ Len(buffer) \in Nat
    BY LastType, ReaderFacts
  <1>2. Shown = 0 \/ buffer[Shown].clears
    <2>1. Len(display) = 0
      OBVIOUS
    <2> QED BY <1>1, <2>1 DEF DisplayInv
  <1>3. Keeps(n, last)
    <2> SUFFICES ASSUME NEW m \in 1 .. Sent, Live(m) PROVE FALSE
      BY DEF Keeps
    <2>1. Shown \in m .. Len(buffer) /\ Shown # 0
      BY <1>1
    <2> QED BY <1>2, <2>1 DEF Live
  <1>4. Continues(n, last)
    <2>1. last # <<>> => \A m \in Latest(last) + 1 .. Sent : buffer[m].clears
      <3>1. last # <<>> => AllClear(Latest(last) + 1, Shown)
        BY DEF LastInv
      <3>2. \A m \in Latest(last) + 1 .. Sent : m \in Latest(last) + 1 .. Shown
        BY <1>1
      <3> QED BY <3>1, <3>2 DEF AllClear
    <2>2. EndsAt(last, Latest(last)) /\ last \in Seq(Chunks)
      BY DEF LastInv, TypeInv
    <2> QED BY <1>1, <2>1, <2>2, EndsAtFacts DEF Continues
  <1> QED BY <1>3, <1>4

(* What a receiver has to come after it has passed event n.                *)
LEMMA Passed ==
  ASSUME NReaders = 1, TypeInv, BufferInv, LogInv, NEW n \in 1 .. Len(log)
  PROVE  /\ log[n] = Other => \A m \in 1 .. Sent : Coming(n, m) => Coming(n + 1, m)
         /\ log[n] # Other =>
              /\ log[n].n \in 1 .. Sent /\ log[n] = buffer[log[n].n]
              /\ \A m \in 1 .. Sent :
                   /\ m > log[n].n => Coming(n + 1, m)
                   /\ m < log[n].n => ~Coming(n, m)
                   /\ m # log[n].n /\ Coming(n, m) => Coming(n + 1, m)
  <1>1. Len(log) \in Nat /\ Sent \in Nat /\ Sent <= Len(buffer) /\ Len(buffer) \in Nat
    BY ReaderFacts DEF TypeInv
  <1>2. \A p \in 1 .. Len(log), m \in 1 .. Sent : log[p].n = m => log[p] # Other
    BY DEF Other
  <1>3. \A m : Coming(n, m) /\ log[n].n # m => Coming(n + 1, m)
    <2> SUFFICES ASSUME NEW m, NEW p \in 1 .. Len(log), n <= p, log[p].n = m, log[n].n # m
                 PROVE  Coming(n + 1, m)
      BY DEF Coming
    <2>1. n + 1 <= p
      OBVIOUS
    <2> QED BY <2>1 DEF Coming
  <1>4. CASE log[n] = Other
    BY <1>2, <1>3, <1>4
  <1>5. CASE log[n] # Other
    <2>1. log[n].n \in 1 .. Sent /\ log[n] = buffer[log[n].n]
      BY <1>5 DEF LogInv
    <2>2. ASSUME NEW m \in 1 .. Sent, m > log[n].n PROVE Coming(n + 1, m)
      <3>1. PICK p \in 1 .. Len(log) : log[p] = buffer[m]
        BY DEF LogInv
      <3>2. log[p].n = m /\ log[p] # Other
        <4>1. m \in 1 .. Len(buffer)
          BY <1>1
        <4> QED BY <1>2, <3>1, <4>1, ReaderFacts
      <3>3. p > n
        <4>1. CASE p < n
          BY <1>5, <2>1, <2>2, <3>2, <4>1 DEF LogInv
        <4>2. CASE p = n
          BY <1>1, <2>1, <2>2, <3>2, <4>2
        <4> QED BY <4>1, <4>2
      <3>4. n + 1 <= p
        BY <3>3
      <3> QED BY <3>2, <3>4 DEF Coming
    <2>3. ASSUME NEW m \in 1 .. Sent, m < log[n].n, Coming(n, m) PROVE FALSE
      <3>1. PICK p \in 1 .. Len(log) : n <= p /\ log[p].n = m
        BY <2>3 DEF Coming
      <3>2. p # n
        BY <1>1, <2>1, <2>3, <3>1
      <3>3. n < p /\ log[p] # Other
        BY <1>2, <3>1, <3>2
      <3>4. log[n].n < m
        BY <1>5, <3>1, <3>3 DEF LogInv
      <3> QED BY <1>1, <2>1, <2>3, <3>4
    <2> QED BY <1>3, <1>5, <2>1, <2>2, <2>3
  <1> QED BY <1>4, <1>5

-----------------------------------------------------------------------------
(* At the start nothing was read, sent or shown.                           *)
LEMMA InitIInv == NReaders = 1 /\ Init => IInv
  <1> SUFFICES ASSUME NReaders = 1, Init PROVE IInv
    OBVIOUS
  <1>1. TypeInv /\ AttachInv
    BY InitTypeInv
  <1>2. /\ reader[1].pc = "unborn" /\ Made = 0 /\ Shown = 0 /\ Sent = 0
        /\ buffer = <<>> /\ display = <<>> /\ last = <<>> /\ log = <<>>
        /\ Len(buffer) = 0 /\ Len(log) = 0
    BY DEF Init, Readers, Reader, Made, Shown, Sent
  <1>3. BufferInv
    BY <1>2 DEF BufferInv
  <1>4. DisplayInv
    BY <1>2 DEF DisplayInv, EndsAt
  <1>5. LastInv
    BY <1>2 DEF LastInv, EndsAt, Latest
  <1>6. LogInv
    BY <1>2 DEF LogInv
  <1>7. ViewInv
    BY <1>2 DEF Init, Closed, ViewInv, Continues
  <1> QED BY <1>1, <1>3, <1>4, <1>5, <1>6, <1>7 DEF IInv

(* A step of the reader or of another sender: output is only added at the  *)
(* end, and whatever it counts as sent was sent before or is in the        *)
(* channel now.                                                            *)
Extends ==
  /\ Len(buffer) <= Len(buffer') /\ \A k \in 1 .. Len(buffer) : buffer'[k] = buffer[k]
  /\ Len(log) <= Len(log') /\ \A p \in 1 .. Len(log) : log'[p] = log[p]
  /\ \A m \in 1 .. Sent' :
       m \in 1 .. Sent \/ \E p \in Len(log) + 1 .. Len(log') : log'[p].n = m

(* Under such a step every view stays as well served as it was.            *)
LEMMA ViewKept ==
  ASSUME NReaders = 1, IInv, TypeInv', BufferInv', Extends, conn' = conn,
         last' = last \/ \A n \in Nat : Keeps(n, last') /\ Continues(n, last')
  PROVE  ViewInv'
  <1>1. /\ Len(buffer) \in Nat /\ Len(buffer') \in Nat /\ Len(log) \in Nat /\ Len(log') \in Nat
        /\ Sent \in Nat /\ Sent <= Len(buffer) /\ Sent' \in Nat /\ Sent' <= Len(buffer')
    <2>1. Sent \in Nat /\ Sent <= Len(buffer)
      BY ReaderFacts DEF IInv
    <2>2. Sent' \in Nat /\ Sent' <= Len(buffer')
      <3>1. /\ reader'[1] \in ReaderState /\ Len(buffer') = Made'
            /\ reader'[1].pc \in {"snapshot", "cache", "send"} => Made' > 0
        BY DEF TypeInv, BufferInv, Readers
      <3> QED BY <3>1, FanoutAssumption DEF Sent, Made, ReaderState
    <2> QED BY <2>1, <2>2 DEF IInv, TypeInv
  <1>2. ASSUME NEW n \in Nat, n <= Len(log) + 1,
               NEW m \in 1 .. Sent', m \notin 1 .. Sent \/ Coming(n, m)
        PROVE  Coming(n, m)'
    <2>1. CASE m \notin 1 .. Sent
      <3>1. PICK p \in Len(log) + 1 .. Len(log') : log'[p].n = m
        BY <2>1 DEF Extends
      <3>2. p \in 1 .. Len(log') /\ n <= p
        BY <1>1, <1>2
      <3> QED BY <3>1, <3>2 DEF Coming
    <2>2. CASE Coming(n, m)
      <3>1. PICK p \in 1 .. Len(log) : n <= p /\ log[p].n = m
        BY <2>2 DEF Coming
      <3>2. p \in 1 .. Len(log') /\ log'[p].n = m
        BY <1>1, <3>1 DEF Extends
      <3> QED BY <3>1, <3>2 DEF Coming
    <2> QED BY <1>2, <2>1, <2>2
  <1>3. ASSUME NEW n \in Nat, n <= Len(log) + 1, NEW s, Keeps(n, s)
        PROVE  Keeps(n, s)'
    <2> SUFFICES ASSUME NEW m \in 1 .. Sent', Live(m)'
                 PROVE  Coming(n, m)' \/ \E k \in 1 .. Len(s) : s[k] = buffer'[m]
      BY DEF Keeps
    <2>1. CASE m \notin 1 .. Sent
      BY <1>2, <1>3, <2>1
    <2>2. CASE m \in 1 .. Sent
      <3>1. \A k \in m .. Len(buffer) : ~buffer[k].clears
        <4> SUFFICES ASSUME NEW k \in m .. Len(buffer) PROVE ~buffer[k].clears
          OBVIOUS
        <4>1. k \in 1 .. Len(buffer) /\ k \in m .. Len(buffer')
          BY <1>1, <2>2 DEF Extends
        <4>2. ~buffer'[k].clears
          BY <4>1 DEF Live
        <4> QED BY <4>1, <4>2 DEF Extends
      <3>2. Live(m)
        BY <2>2, <3>1 DEF Live
      <3>3. buffer'[m] = buffer[m]
        BY <1>1, <2>2 DEF Extends
      <3> QED BY <1>2, <1>3, <2>2, <3>2, <3>3 DEF Keeps
    <2> QED BY <2>1, <2>2
  <1>4. ASSUME NEW n \in Nat, n <= Len(log) + 1, NEW s \in Seq(Chunks), Continues(n, s)
        PROVE  Continues(n, s)'
    <2>0. \A k \in 1 .. Len(s) : s[k].n \in 1 .. Len(buffer) /\ s[k] = buffer[s[k].n]
      BY <1>4 DEF Continues
    <2>1. \A k \in 1 .. Len(s) : s[k].n \in 1 .. Len(buffer') /\ s[k] = buffer'[s[k].n]
      <3>1. \A j \in 1 .. Len(buffer) : j \in 1 .. Len(buffer') /\ buffer'[j] = buffer[j]
        BY <1>1 DEF Extends
      <3> QED BY <2>0, <3>1
    <2>2. \A k \in 1 .. Len(s) - 1 : \A m \in s[k].n + 1 .. s[k + 1].n - 1 : buffer'[m].clears
      <3> SUFFICES ASSUME NEW k \in 1 .. Len(s) - 1, NEW m \in s[k].n + 1 .. s[k + 1].n - 1
                   PROVE  buffer'[m].clears
        OBVIOUS
      <3>1. k \in 1 .. Len(s) /\ k + 1 \in 1 .. Len(s)
        OBVIOUS
      <3>2. s[k].n \in 1 .. Len(buffer) /\ s[k + 1].n \in 1 .. Len(buffer)
        BY <2>0, <3>1
      <3>3. m \in 1 .. Len(buffer)
        <4>1. \A a, b \in 1 .. Len(buffer) : \A x \in a + 1 .. b - 1 : x \in 1 .. Len(buffer)
          BY <1>1
        <4> QED BY <3>2, <4>1
      <3>4. buffer[m].clears
        BY <1>4 DEF Continues, AllClear
      <3> QED BY <3>3, <3>4 DEF Extends
    <2>3. ASSUME s # <<>>, NEW m \in Latest(s) + 1 .. Sent'
          PROVE  Coming(n, m)' \/ buffer'[m].clears
      <3>1. Len(s) \in 1 .. Len(s)
        BY <2>3
      <3>2. Latest(s) \in 1 .. Len(buffer)
        BY <2>0, <2>3, <3>1 DEF Latest
      <3>3. m \in 1 .. Sent'
        BY <1>1, <3>2
      <3>4. CASE m \notin 1 .. Sent
        BY <1>2, <1>4, <3>3, <3>4
      <3>5. CASE m \in 1 .. Sent
        <4>1. m \in Latest(s) + 1 .. Sent /\ m \in 1 .. Len(buffer)
          BY <1>1, <3>2, <3>5
        <4>2. Coming(n, m) \/ buffer[m].clears
          BY <1>4, <2>3, <4>1 DEF Continues
        <4> QED BY <1>2, <1>4, <3>3, <4>1, <4>2 DEF Extends
      <3> QED BY <3>4, <3>5
    <2>4. Latest(s)' = Latest(s)
      BY DEF Latest
    <2> QED BY <2>1, <2>2, <2>3, <2>4 DEF Continues, AllClear
  <1>5. \A v \in Views : conn[v].next \in Nat /\ conn[v].next <= Len(log) + 1
                        /\ conn[v].screen \in Seq(Chunks) /\ conn[v].held \in Seq(Chunks)
    BY DEF IInv, TypeInv, Connection
  <1>6. ASSUME NEW v \in Views, conn[v].pc = "last"
        PROVE  (Keeps(conn[v].next, last) /\ Continues(conn[v].next, last))'
    <2>1. PICK s \in Seq(Chunks) : s = last'
      BY DEF TypeInv
    <2>2. Keeps(conn[v].next, s) /\ Continues(conn[v].next, s)
      BY <1>5, <1>6, <2>1 DEF IInv, ViewInv
    <2>3. Keeps(conn[v].next, s)' /\ Continues(conn[v].next, s)'
      BY <1>3, <1>4, <1>5, <2>2
    <2> QED BY <2>1, <2>3 DEF Keeps, Continues, Latest
  <1> QED BY <1>3, <1>4, <1>5, <1>6 DEF IInv, ViewInv

(* A step that gives a view a connection that serves it.                   *)
LEMMA ViewMoves ==
  ASSUME IInv, NEW v \in Views, NEW c \in Connection, OnlyMoves(v, c),
         c.current => Keeps(c.next, c.screen),
         Continues(c.next, c.screen),
         c.pc = "attach" => Keeps(c.next, c.held) /\ Continues(c.next, c.held),
         c.pc = "last" => Keeps(c.next, last) /\ Continues(c.next, last)
  PROVE  BufferInv' /\ DisplayInv' /\ LastInv' /\ LogInv' /\ ViewInv'
  <1> USE DEF OnlyMoves, IInv
  <1>1. Made' = Made /\ Shown' = Shown /\ Sent' = Sent
    BY DEF Made, Shown, Sent
  <1>2. BufferInv' /\ DisplayInv' /\ LastInv' /\ LogInv'
    BY <1>1 DEF BufferInv, DisplayInv, LastInv, LogInv, EndsAt, AllClear, Latest
  <1>3. \A n, s : Keeps(n, s)' = Keeps(n, s)
    BY <1>1 DEF Keeps, Live, Coming
  <1>4. \A n, s : Continues(n, s)' = Continues(n, s)
    BY <1>1 DEF Continues, AllClear, Latest, Coming
  <1>5. conn'[v] = c /\ \A w \in Views \ {v} : conn'[w] = conn[w]
    BY DEF TypeInv
  <1> QED BY <1>2, <1>3, <1>4, <1>5 DEF ViewInv

-----------------------------------------------------------------------------
(* THE STEPS OF THE VIEWS *)

Rest == BufferInv /\ DisplayInv /\ LastInv /\ LogInv /\ ViewInv

(* A receive keeps the view well served: the channel has the chunks in     *)
(* order.                                                                  *)
LEMMA ReceiveKeeps ==
  ASSUME NReaders = 1, IInv, NEW v \in Views, Receive(v)
  PROVE  Rest'
<1> DEFINE n == conn[v].next
           e == log[n]
           s == conn[v].screen
<1>1. n \in 1 .. Len(log) /\ n \in Nat /\ e \in Chunks \cup {Other} /\ s \in Seq(Chunks)
  BY ReceiveStep DEF IInv, TypeInv, Connection
<1>2. PICK c \in Connection :
        /\ OnlyMoves(v, c) /\ c.pc = "loop" /\ c.next = n + 1
        /\ c.attached = conn[v].attached /\ c.current = conn[v].current
        /\ c.screen = IF conn[v].attached /\ e # Other THEN Draw(s, e) ELSE s
  BY ReceiveStep DEF IInv
<1>3. (conn[v].current => Keeps(n, s)) /\ Continues(n, s)
  BY DEF IInv, ViewInv
<1>4. ~conn[v].attached => s = <<>> /\ ~conn[v].current
  BY DEF IInv, AttachInv
<1>p. /\ e = Other => \A m \in 1 .. Sent : Coming(n, m) => Coming(n + 1, m)
      /\ e # Other =>
           /\ e.n \in 1 .. Sent /\ e = buffer[e.n]
           /\ \A m \in 1 .. Sent :
                /\ m > e.n => Coming(n + 1, m)
                /\ m < e.n => ~Coming(n, m)
                /\ m # e.n /\ Coming(n, m) => Coming(n + 1, m)
  BY <1>1, Passed DEF IInv
<1>f. /\ Sent \in Nat /\ Sent <= Len(buffer) /\ Len(buffer) \in Nat /\ Len(s) \in Nat
      /\ \A k \in 1 .. Len(buffer) : buffer[k].n = k
  BY <1>1, ReaderFacts DEF IInv
<1> HIDE DEF n, e, s
<1>5. Continues(n + 1, <<>>)
  BY DEF Continues
<1>6. CASE ~conn[v].attached
  BY <1>2, <1>4, <1>5, <1>6, ViewMoves DEF Rest
<1>7. CASE conn[v].attached /\ e = Other
  <2>1. Keeps(n, s) => Keeps(n + 1, s)
    BY <1>7, <1>p DEF Keeps
  <2>2. Continues(n + 1, s)
    <3>1. s # <<>> => \A m \in Latest(s) + 1 .. Sent : m \in 1 .. Sent
      <4> HAVE s # <<>>
      <4>1. Len(s) \in 1 .. Len(s)
        BY <1>1
      <4>2. Latest(s) \in 1 .. Len(buffer)
        BY <1>3, <4>1 DEF Continues, Latest
      <4> QED BY <1>f, <4>2
    <3> QED BY <1>3, <1>7, <1>p, <3>1 DEF Continues
  <2> QED BY <1>2, <1>3, <1>7, <2>1, <2>2, ViewMoves DEF Rest
<1>8. CASE conn[v].attached /\ e # Other /\ e.clears
  <2>1. c.screen = <<>>
    BY <1>2, <1>8 DEF Draw
  <2>2. Keeps(n + 1, <<>>)
    <3> SUFFICES ASSUME NEW m \in 1 .. Sent, Live(m) PROVE Coming(n + 1, m)
      BY DEF Keeps
    <3>1. ~(e.n \in m .. Len(buffer))
      BY <1>8, <1>p DEF Live
    <3>2. m > e.n
      BY <1>8, <1>f, <1>p, <3>1
    <3> QED BY <1>8, <1>p, <3>2
  <2> QED BY <1>2, <1>5, <2>1, <2>2, ViewMoves DEF Rest
<1>9. CASE conn[v].attached /\ e # Other /\ ~e.clears
  <2> DEFINE t == Append(s, e)
  <2>1. c.screen = t
    BY <1>2, <1>9 DEF Draw
  <2>2. /\ t \in Seq(Chunks) /\ Len(t) = Len(s) + 1 /\ t[Len(s) + 1] = e
        /\ \A k \in 1 .. Len(s) : t[k] = s[k]
    <3>1. e \in Chunks
      BY <1>1, <1>9
    <3> QED BY <1>1, <3>1, AppendFacts
  <2> HIDE DEF t
  <2>3. Keeps(n, s) => Keeps(n + 1, t)
    <3> SUFFICES ASSUME Keeps(n, s), NEW m \in 1 .. Sent, Live(m)
                 PROVE  Coming(n + 1, m) \/ \E k \in 1 .. Len(t) : t[k] = buffer[m]
      BY DEF Keeps
    <3>1. CASE m = e.n
      <4>1. Len(s) + 1 \in 1 .. Len(t) /\ t[Len(s) + 1] = buffer[m]
        BY <1>9, <1>f, <1>p, <2>2, <3>1
      <4> QED BY <4>1
    <3>2. CASE m # e.n /\ Coming(n, m)
      BY <1>9, <1>p, <3>2
    <3>3. CASE \E k \in 1 .. Len(s) : s[k] = buffer[m]
      <4>1. PICK k \in 1 .. Len(s) : s[k] = buffer[m]
        BY <3>3
      <4>2. k \in 1 .. Len(t) /\ t[k] = buffer[m]
        BY <1>f, <2>2, <4>1
      <4> QED BY <4>2
    <3> QED BY <3>1, <3>2, <3>3 DEF Keeps
  <2>4. Continues(n + 1, t)
    <3>0. e.n \in 1 .. Len(buffer) /\ e = buffer[e.n]
      BY <1>9, <1>f, <1>p
    <3>1. \A k \in 1 .. Len(t) : t[k].n \in 1 .. Len(buffer) /\ t[k] = buffer[t[k].n]
      <4> SUFFICES ASSUME NEW k \in 1 .. Len(t)
                   PROVE  t[k].n \in 1 .. Len(buffer) /\ t[k] = buffer[t[k].n]
        OBVIOUS
      <4>1. CASE k \in 1 .. Len(s)
        BY <1>3, <2>2, <4>1 DEF Continues
      <4>2. CASE k = Len(s) + 1
        BY <2>2, <3>0, <4>2
      <4> QED BY <1>f, <2>2, <4>1, <4>2
    <3>2. \A k \in 1 .. Len(t) - 1 : AllClear(t[k].n + 1, t[k + 1].n - 1)
      <4> SUFFICES ASSUME NEW k \in 1 .. Len(t) - 1
                   PROVE  AllClear(t[k].n + 1, t[k + 1].n - 1)
        OBVIOUS
      <4>1. CASE k \in 1 .. Len(s) - 1
        <5>1. k \in 1 .. Len(s) /\ k + 1 \in 1 .. Len(s)
          BY <1>f, <4>1
        <5> QED BY <1>3, <2>2, <4>1, <5>1 DEF Continues
      <4>2. CASE k = Len(s) /\ s # <<>>
        <5>1. k \in 1 .. Len(s) /\ t[k] = s[k] /\ t[k + 1] = e
          BY <1>f, <2>2, <4>2
        <5>2. t[k].n = Latest(s) /\ Latest(s) \in 1 .. Len(buffer)
          BY <1>3, <4>2, <5>1 DEF Latest, Continues
        <5>3. ASSUME NEW m \in Latest(s) + 1 .. e.n - 1 PROVE buffer[m].clears
          <6>1. m \in Latest(s) + 1 .. Sent /\ m \in 1 .. Sent /\ m < e.n
            BY <1>9, <1>f, <1>p, <5>2
          <6>2. ~Coming(n, m)
            BY <1>9, <1>p, <6>1
          <6> QED BY <1>3, <4>2, <6>1, <6>2 DEF Continues
        <5> QED BY <5>1, <5>2, <5>3 DEF AllClear
      <4> QED BY <1>1, <1>f, <2>2, <4>1, <4>2
    <3>3. \A m \in Latest(t) + 1 .. Sent : Coming(n + 1, m)
      <4>1. Latest(t) = e.n
        <5>1. t # <<>>
          BY <1>f, <2>2
        <5> QED BY <1>f, <2>2, <5>1 DEF Latest
      <4>2. \A m \in e.n + 1 .. Sent : m \in 1 .. Sent /\ m > e.n
        BY <1>f, <3>0
      <4> QED BY <1>9, <1>p, <4>1, <4>2
    <3> QED BY <3>1, <3>2, <3>3 DEF Continues
  <2> QED BY <1>2, <1>3, <2>1, <2>3, <2>4, ViewMoves DEF Rest
<1> QED BY <1>6, <1>7, <1>8, <1>9

(* Every other step of a view.                                             *)
LEMMA ViewKeeps ==
  ASSUME NReaders = 1, IInv, NEW v \in Views, Task(v) \/ Client(v)
  PROVE  Rest'
<1>c. /\ conn[v] \in Connection /\ conn[v].next \in Nat
      /\ conn[v].current => Keeps(conn[v].next, conn[v].screen)
      /\ Continues(conn[v].next, conn[v].screen)
  BY DEF IInv, ViewInv, TypeInv, Connection
<1>1. CASE Receive(v)
  BY <1>1, ReceiveKeeps
<1>2. ASSUME NEW c \in Connection, OnlyMoves(v, c), c.screen = <<>>, ~c.current,
             c.pc \notin {"attach", "last"}
      PROVE  Rest'
  <2>1. Continues(c.next, c.screen)
    BY <1>2 DEF Continues
  <2> QED BY <1>2, <2>1, ViewMoves DEF Rest
<1>3. CASE Connect(v)
  <2>1. PICK c \in Connection :
          OnlyMoves(v, c) /\ c.pc = "loop" /\ c.screen = <<>> /\ ~c.current
    BY <1>3, ConnectStep DEF IInv
  <2> QED BY <1>2, <2>1
<1>4. CASE Disconnect(v) \/ ReceiveLagged(v)
  <2>1. PICK c \in Connection :
          OnlyMoves(v, c) /\ c.pc = "closed" /\ c.screen = <<>> /\ ~c.current
    BY <1>4, CloseStep
  <2> QED BY <1>2, <2>1
<1>5. CASE AttachRead(v) \/ AttachFallback(v) \/ AttachLast(v) \/ ReplayRead(v)
  <2>1. PICK c \in Connection :
           /\ OnlyMoves(v, c) /\ SameScreen(v, c)
           /\ c.pc = "last" => display = <<>>
           /\ c.pc = "attach" =>
                \/ c.held = display /\ display # <<>>
                \/ c.held = last /\ conn[v].pc = "last"
                \/ c.held = BufferTail
    BY <1>5, HoldStep DEF IInv
  <2>f. /\ Sent \in Nat /\ Shown \in Nat /\ Len(buffer) \in Nat
        /\ Sent <= Shown /\ Shown <= Len(buffer)
    BY ReaderFacts DEF IInv
  <2>2. Keeps(c.next, display) /\ Continues(c.next, display)
    <3>1. /\ display \in Seq(Chunks) /\ EndsAt(display, Shown)
          /\ Len(display) = Shown \/ buffer[Shown - Len(display)].clears
      BY DEF IInv, TypeInv, DisplayInv
    <3> QED BY <1>c, <2>1, <2>f, <3>1, FullScreen DEF IInv, SameScreen
  <2>3. Keeps(c.next, BufferTail) /\ Continues(c.next, BufferTail)
    <3>1. /\ BufferTail \in Seq(Chunks) /\ EndsAt(BufferTail, Len(buffer))
          /\ \/ Len(BufferTail) = Len(buffer)
             \/ buffer[Len(buffer) - Len(BufferTail)].clears
      BY BufferTailFacts DEF IInv, TypeInv
    <3>2. Sent <= Len(buffer)
      BY <2>f
    <3> QED BY <1>c, <2>1, <2>f, <3>1, <3>2, FullScreen DEF IInv, SameScreen
  <2>4. c.pc = "last" => Keeps(c.next, last) /\ Continues(c.next, last)
    BY <1>c, <2>1, LastScreen DEF IInv, SameScreen
  <2>5. conn[v].pc = "last" => Keeps(c.next, last) /\ Continues(c.next, last)
    BY <2>1 DEF IInv, ViewInv, SameScreen
  <2>6. c.pc = "attach" => Keeps(c.next, c.held) /\ Continues(c.next, c.held)
    BY <2>1, <2>2, <2>3, <2>5
  <2> QED BY <1>c, <2>1, <2>4, <2>6, ViewMoves DEF SameScreen, Rest
<1>6. CASE AttachReply(v)
  <2>1. PICK c \in Connection :
           /\ OnlyMoves(v, c) /\ c.pc = "loop" /\ c.next = conn[v].next
           /\ c.screen = IF conn[v].held = <<>> THEN conn[v].screen ELSE conn[v].held
    BY <1>6, ReplyStep DEF IInv
  <2>2. /\ Keeps(conn[v].next, conn[v].held)
        /\ Continues(conn[v].next, conn[v].held)
    BY <1>6 DEF AttachReply, IInv, ViewInv
  <2>3. CASE conn[v].held = <<>>
    <3>1. Len(conn[v].held) = 0
      BY <2>3
    <3>2. Keeps(conn[v].next, conn[v].screen)
      BY <2>2, <3>1 DEF Keeps
    <3> QED BY <1>c, <2>1, <2>3, <3>2, ViewMoves DEF Rest
  <2>4. CASE conn[v].held # <<>>
    BY <2>1, <2>2, <2>4, ViewMoves DEF Rest
  <2> QED BY <2>3, <2>4
<1>7. CASE AttachReplay(v) \/ AttachError(v) \/ ProtocolBegin(v) \/ ProtocolEnd(v)
  <2>1. PICK c \in Connection :
          OnlyMoves(v, c) /\ SameScreen(v, c) /\ c.pc \in {"loop", "replay", "busy"}
    BY <1>7, IdleStep DEF IInv
  <2> QED BY <1>c, <2>1, ViewMoves DEF SameScreen, Rest
<1> QED BY <1>1, <1>3, <1>4, <1>5, <1>6, <1>7 DEF Task, Client

-----------------------------------------------------------------------------
(* THE STEPS OF THE READER AND OF OTHER SENDERS *)

(* A part of a screen's description that does not look beyond what the     *)
(* ring buffer already held.                                               *)
LEMMA EndsAtKept ==
  ASSUME NEW s \in Seq(Chunks), NEW e \in Nat, EndsAt(s, e),
         Len(buffer) \in Nat, Len(buffer') \in Nat, Len(buffer) <= Len(buffer'),
         \A k \in 1 .. Len(buffer) : buffer'[k] = buffer[k]
  PROVE  EndsAt(s, e)'
  <1>1. Len(s) \in Nat /\ Len(s) <= e /\ e <= Len(buffer)
    BY DEF EndsAt
  <1>2. \A k \in 1 .. Len(s) : e - Len(s) + k \in 1 .. Len(buffer)
    BY <1>1
  <1>3. e <= Len(buffer')
    BY <1>1
  <1> QED BY <1>1, <1>2, <1>3 DEF EndsAt

(* No step of the reader or of another sender breaks the invariant.        *)
LEMMA ReaderKeeps ==
  ASSUME NReaders = 1, IInv, TypeInv', ReaderStep(1) \/ SendOther
  PROVE  Rest'
<1>f. /\ reader[1] \in ReaderState /\ Readers = {1} /\ reader \in [Readers -> ReaderState]
      /\ Made \in Nat /\ Shown \in Nat /\ Sent \in Nat /\ Len(buffer) = Made
      /\ Sent <= Shown /\ Shown <= Made
      /\ \A k \in 1 .. Len(buffer) : buffer[k] \in Chunks /\ buffer[k].n = k
  BY ReaderFacts DEF IInv, TypeInv
<1>t. /\ buffer \in Seq(Chunks) /\ display \in Seq(Chunks) /\ last \in Seq(Chunks)
      /\ log \in Seq(Chunks \cup {Other}) /\ Latest(last) \in Nat /\ Len(log) \in Nat
  BY LastType DEF IInv, TypeInv
<1>1. CASE StartReader(1)
  <2>1. /\ reader[1].pc = "unborn" /\ Made = 0 /\ Len(buffer) = 0 /\ Shown = 0 /\ Sent = 0
        /\ buffer' = <<>> /\ display' = <<>> /\ UNCHANGED <<last, log, conn>>
        /\ reader'[1].pc = "reading" /\ reader'[1].made = reader[1].made
    BY <1>1, <1>f DEF StartReader, IInv, BufferInv, Shown, Sent
  <2>2. buffer = <<>> /\ display = <<>>
    <3>1. Len(display) <= 0 /\ Len(display) \in Nat
      BY <1>t, <2>1 DEF IInv, DisplayInv, EndsAt
    <3> QED BY <1>t, <2>1, <3>1, EmptySeq
  <2>3. Made' = 0 /\ Shown' = 0 /\ Sent' = 0 /\ UNCHANGED <<buffer, display, last, log, conn>>
    BY <2>1, <2>2 DEF Made, Shown, Sent
  <2>4. BufferInv'
    BY <2>1, <2>3 DEF BufferInv
  <2>5. DisplayInv'
    BY <2>1, <2>3 DEF IInv, DisplayInv, EndsAt
  <2>6. LastInv'
    BY <2>1, <2>3 DEF IInv, LastInv, EndsAt, AllClear, Latest
  <2>7. LogInv'
    BY <2>1, <2>3 DEF IInv, LogInv
  <2>8. Extends
    BY <1>f, <1>t, <2>1, <2>2, <2>3 DEF Extends
  <2> QED BY <2>3, <2>4, <2>5, <2>6, <2>7, <2>8, ViewKept DEF Rest
<1>2. CASE PushBuffer(1)
  <2>1. PICK clears \in BOOLEAN :
          LET c == [by |-> 1, n |-> reader[1].made + 1, clears |-> clears]
          IN  /\ buffer' = Append(buffer, c)
              /\ reader' = [reader EXCEPT ![1] = Reader("snapshot", c.n, c, <<>>)]
    BY <1>2 DEF PushBuffer
  <2> DEFINE c == [by |-> 1, n |-> reader[1].made + 1, clears |-> clears]
  <2>2. c \in Chunks /\ c.n = Made + 1
    BY <1>2, <1>f, FanoutAssumption DEF PushBuffer, ReaderState, Chunks, Made
  <2> HIDE DEF c
  <2>3. /\ buffer' = Append(buffer, c) /\ UNCHANGED <<display, last, log, conn>>
        /\ reader' = [reader EXCEPT ![1] = Reader("snapshot", c.n, c, <<>>)]
        /\ reader[1].pc = "reading"
    BY <1>2, <2>1 DEF c, PushBuffer
  <2>4. /\ reader'[1].pc = "snapshot" /\ Made' = Made + 1 /\ reader'[1].chunk = c
        /\ Shown = Made /\ Sent = Made /\ Shown' = Made /\ Sent' = Made
    BY <1>f, <2>2, <2>3 DEF Reader, Made, Shown, Sent
  <2>5. /\ Len(buffer') = Made + 1 /\ buffer'[Made + 1] = c
        /\ \A k \in 1 .. Len(buffer) : buffer'[k] = buffer[k]
    BY <1>f, <1>t, <2>2, <2>3, AppendFacts
  <2>6. BufferInv'
    <3>1. \A k \in 1 .. Len(buffer') : buffer'[k].n = k
      <4> SUFFICES ASSUME NEW k \in 1 .. Len(buffer') PROVE buffer'[k].n = k
        OBVIOUS
      <4>1. k \in 1 .. Len(buffer) \/ k = Made + 1
        BY <1>f, <2>5
      <4> QED BY <1>f, <2>2, <2>5, <4>1
    <3> QED BY <1>f, <2>4, <2>5, <3>1 DEF BufferInv
  <2>7. Len(buffer) <= Len(buffer') /\ Len(buffer) \in Nat /\ Len(buffer') \in Nat
    BY <1>f, <2>5
  <2>8. EndsAt(display, Shown)' /\ EndsAt(last, Latest(last))'
    BY <1>f, <1>t, <2>3, <2>4, <2>5, <2>7, EndsAtKept DEF IInv, DisplayInv, LastInv, Latest
  <2>9. DisplayInv'
    <3>1. Len(display) = Shown \/ Shown - Len(display) \in 1 .. Len(buffer)
      BY <1>f, <1>t DEF IInv, DisplayInv, EndsAt
    <3> QED BY <2>3, <2>4, <2>5, <2>8, <3>1 DEF IInv, DisplayInv
  <2>10. LastInv'
    <3>1. last # <<>> =>
            \A m \in Latest(last) + 1 .. Made : m \in 1 .. Len(buffer) /\ buffer[m].clears
      <4>1. last # <<>> => AllClear(Latest(last) + 1, Made)
        BY <2>3, <2>4 DEF IInv, LastInv
      <4> QED BY <1>f, <1>t, <4>1 DEF AllClear
    <3>2. Latest(last)' = Latest(last)
      BY <2>3 DEF Latest
    <3> QED BY <2>3, <2>4, <2>5, <2>8, <3>1, <3>2 DEF IInv, LastInv, AllClear
  <2>11. LogInv'
    <3>1. \A m \in 1 .. Sent : buffer'[m] = buffer[m]
      BY <1>f, <2>5
    <3>2. log' = log /\ Sent' = Sent
      BY <2>3, <2>4
    <3>3. \A p \in 1 .. Len(log) :
            log[p] = Other \/ (log[p].n \in 1 .. Sent /\ log[p] = buffer'[log[p].n])
      BY <3>1 DEF IInv, LogInv
    <3>4. \A m \in 1 .. Sent : \E p \in 1 .. Len(log) : log[p] = buffer'[m]
      BY <3>1 DEF IInv, LogInv
    <3> QED BY <3>2, <3>3, <3>4 DEF IInv, LogInv
  <2>12. Extends
    BY <1>t, <2>3, <2>4, <2>5, <2>7 DEF Extends
  <2> QED BY <2>3, <2>6, <2>9, <2>10, <2>11, <2>12, ViewKept DEF Rest
<1>3. CASE PushSnapshot(1)
  <2> DEFINE c == reader[1].chunk
  <2>1. /\ reader[1].pc = "snapshot" /\ display' = Draw(display, c)
        /\ UNCHANGED <<buffer, last, log, conn>>
        /\ reader'[1].pc = "cache" /\ reader'[1].made = reader[1].made
        /\ reader'[1].chunk = c /\ reader'[1].text = display'
    BY <1>3, <1>f DEF PushSnapshot
  <2>2. /\ Shown = Made - 1 /\ Sent = Made - 1 /\ Made' = Made /\ Shown' = Made /\ Sent' = Made - 1
        /\ Made > 0 /\ c = buffer[Made] /\ c \in Chunks /\ Made \in 1 .. Len(buffer)
    BY <1>f, <2>1 DEF Made, Shown, Sent, IInv, BufferInv
  <2> HIDE DEF c
  <2>3. BufferInv'
    BY <2>1, <2>2 DEF IInv, BufferInv, c
  <2>4. DisplayInv'
    <3>1. CASE c.clears
      <4>1. display' = <<>> /\ Len(display') = 0
        BY <2>1, <3>1 DEF Draw
      <4> QED BY <1>f, <2>1, <2>2, <3>1, <4>1 DEF DisplayInv, EndsAt
    <3>2. CASE ~c.clears
      <4>1. display' = Append(display, c)
        BY <2>1, <3>2 DEF Draw
      <4>2. /\ Len(display') = Len(display) + 1 /\ display'[Len(display) + 1] = c
            /\ \A k \in 1 .. Len(display) : display'[k] = display[k]
        BY <1>t, <2>2, <4>1, AppendFacts
      <4>n. Len(display) \in Nat
        BY <1>t, <2>2, <4>1, AppendFacts
      <4>s. Len(display) <= Shown
        BY DEF IInv, DisplayInv, EndsAt
      <4>m. Made - Len(display') = Shown - Len(display)
        BY <1>f, <2>2, <4>2, <4>n
      <4>3. /\ Len(display) \in Nat /\ Len(display) <= Shown
            /\ Made - Len(display') = Shown - Len(display)
        BY <4>n, <4>s, <4>m
      <4>4. EndsAt(display, Shown)'
        <5>1. Len(display') <= Made /\ Made <= Len(buffer)
          BY <1>f, <2>2, <4>2, <4>3
        <5>2. ASSUME NEW k \in 1 .. Len(display')
              PROVE  display'[k] = buffer[Made - Len(display') + k] /\ ~display'[k].clears
          <6>1. CASE k \in 1 .. Len(display)
            BY <4>2, <4>3, <6>1 DEF IInv, DisplayInv, EndsAt
          <6>2. CASE k = Len(display) + 1
            <7>1. Made - Len(display') + k = Made
              BY <1>f, <2>2, <4>2, <4>3, <6>2
            <7> QED BY <2>2, <3>2, <4>2, <6>2, <7>1
          <6> QED BY <4>2, <4>3, <6>1, <6>2
        <5> QED BY <2>1, <2>2, <5>1, <5>2 DEF EndsAt
      <4>5. Len(display') = Made \/ buffer[Made - Len(display')].clears
        BY <1>f, <2>2, <4>2, <4>3 DEF IInv, DisplayInv
      <4> QED BY <2>1, <2>2, <4>4, <4>5 DEF DisplayInv
    <3> QED BY <3>1, <3>2
  <2>5. LastInv'
    <3>1. EndsAt(last, Latest(last))' /\ Latest(last)' = Latest(last) /\ Latest(last) <= Made
      BY <1>f, <1>t, <2>1, <2>2 DEF IInv, LastInv, EndsAt, Latest
    <3>2. last # <<>> => AllClear(Latest(last) + 1, Made - 1)
      BY <2>1, <2>2 DEF IInv, LastInv
    <3>3. CASE display' # <<>>
      BY <2>1, <2>2, <3>1, <3>2, <3>3 DEF LastInv, AllClear
    <3>4. CASE display' = <<>>
      <4>1. c.clears
        <5>1. ~c.clears => Len(display') = Len(display) + 1
          BY <1>t, <2>1, <2>2, AppendFacts DEF Draw
        <5>2. Len(display') = 0 /\ Len(display) \in Nat
          BY <1>t, <3>4
        <5> QED BY <5>1, <5>2
      <4>2. last # <<>> => AllClear(Latest(last) + 1, Made)
        <5>1. \A m \in Latest(last) + 1 .. Made : m \in Latest(last) + 1 .. Made - 1 \/ m = Made
          BY <1>f, <1>t
        <5> QED BY <2>2, <3>2, <4>1, <5>1 DEF AllClear
      <4> QED BY <2>1, <2>2, <3>1, <3>4, <4>2 DEF LastInv, AllClear
    <3> QED BY <3>3, <3>4
  <2>6. LogInv'
    BY <2>1, <2>2 DEF IInv, LogInv
  <2>7. Extends
    BY <1>f, <1>t, <2>1, <2>2 DEF Extends
  <2> QED BY <2>1, <2>3, <2>4, <2>5, <2>6, <2>7, ViewKept DEF Rest
<1>4. CASE CacheLast(1)
  <2>1. /\ reader[1].pc = "cache" /\ reader[1].text = display
        /\ last' = IF display = <<>> THEN last ELSE display
        /\ UNCHANGED <<buffer, display, log, conn>>
        /\ reader'[1].pc = "send" /\ reader'[1].made = reader[1].made
        /\ reader'[1].chunk = reader[1].chunk
    BY <1>4, <1>f DEF CacheLast, IInv, DisplayInv
  <2>2. Made' = Made /\ Shown = Made /\ Shown' = Made /\ Sent' = Sent
    BY <2>1 DEF Made, Shown, Sent
  <2>3. BufferInv'
    BY <2>1, <2>2 DEF IInv, BufferInv
  <2>4. DisplayInv'
    BY <2>1, <2>2 DEF IInv, DisplayInv, EndsAt
  <2>5. LastInv'
    <3>1. CASE display = <<>>
      <4>1. last' = last /\ Latest(last)' = Latest(last)
        BY <2>1, <3>1 DEF Latest
      <4> QED BY <2>1, <2>2, <3>1, <4>1 DEF IInv, LastInv, EndsAt, AllClear
    <3>2. CASE display # <<>>
      <4>1. last' = display /\ EndsAt(display, Made)
        BY <2>1, <2>2, <3>2 DEF IInv, DisplayInv
      <4>2. Latest(display) = Made
        BY <1>f, <1>t, <3>2, <4>1, EndsAtFacts DEF IInv
      <4>3. Latest(last)' = Made
        BY <2>1, <4>1, <4>2 DEF Latest
      <4>4. EndsAt(last, Latest(last))'
        BY <2>1, <4>1, <4>3 DEF EndsAt
      <4>5. \A m \in Made + 1 .. Made : FALSE
        BY <1>f
      <4> QED BY <1>f, <2>1, <2>2, <4>3, <4>4, <4>5 DEF LastInv, AllClear
    <3> QED BY <3>1, <3>2
  <2>6. LogInv'
    BY <2>1, <2>2 DEF IInv, LogInv
  <2>7. Extends
    BY <1>f, <1>t, <2>1, <2>2 DEF Extends
  <2>8. last' = last \/ \A n \in Nat : Keeps(n, last') /\ Continues(n, last')
    <3>1. /\ EndsAt(display, Shown) /\ Sent <= Shown
          /\ Len(display) = Shown \/ buffer[Shown - Len(display)].clears
      BY <1>f DEF IInv, DisplayInv
    <3>2. \A n \in Nat : Keeps(n, display) /\ Continues(n, display)
      BY <1>f, <1>t, <3>1, FullScreen DEF IInv
    <3> QED BY <2>1, <3>2
  <2> QED BY <2>1, <2>3, <2>4, <2>5, <2>6, <2>7, <2>8, ViewKept DEF Rest
<1>5. CASE SendOutput(1)
  <2> DEFINE c == reader[1].chunk
  <2>1. /\ reader[1].pc = "send" /\ log' = Append(log, c)
        /\ UNCHANGED <<buffer, display, last, conn>>
        /\ reader'[1].pc = "reading" /\ reader'[1].made = reader[1].made
    BY <1>5, <1>f DEF SendOutput
  <2>2. /\ Made' = Made /\ Shown = Made /\ Shown' = Made /\ Sent = Made - 1 /\ Sent' = Made
        /\ Made > 0 /\ c = buffer[Made] /\ c \in Chunks /\ c.n = Made
    BY <1>f, <2>1 DEF Made, Shown, Sent, IInv, BufferInv
  <2> HIDE DEF c
  <2>3. /\ Len(log') = Len(log) + 1 /\ log'[Len(log) + 1] = c
        /\ \A p \in 1 .. Len(log) : log'[p] = log[p]
    BY <1>t, <2>1, <2>2, AppendFacts
  <2>4. BufferInv'
    BY <2>1, <2>2 DEF IInv, BufferInv
  <2>5. DisplayInv'
    BY <2>1, <2>2 DEF IInv, DisplayInv, EndsAt
  <2>6. LastInv'
    BY <2>1, <2>2 DEF IInv, LastInv, EndsAt, AllClear, Latest
  <2>7. LogInv'
    <3>0. /\ \A p \in 1 .. Len(log') : p \in 1 .. Len(log) \/ p = Len(log) + 1
          /\ \A m \in 1 .. Made : m \in 1 .. Sent \/ m = Made
          /\ Len(log) + 1 \in 1 .. Len(log') /\ Made \in 1 .. Made
          /\ \A p \in 1 .. Len(log) : p \in 1 .. Len(log')
          /\ \A m \in 1 .. Sent : m \in 1 .. Made /\ m < Made
      BY <1>f, <1>t, <2>2, <2>3
    <3>1. ASSUME NEW p \in 1 .. Len(log')
          PROVE  log'[p] = Other \/ (log'[p].n \in 1 .. Made /\ log'[p] = buffer[log'[p].n])
      <4>1. CASE p \in 1 .. Len(log)
        BY <2>3, <3>0, <4>1 DEF IInv, LogInv
      <4>2. CASE p = Len(log) + 1
        BY <2>2, <2>3, <3>0, <4>2
      <4> QED BY <3>0, <4>1, <4>2
    <3>2. ASSUME NEW p \in 1 .. Len(log'), NEW q \in 1 .. Len(log'),
                 p < q, log'[p] # Other, log'[q] # Other
          PROVE  log'[p].n < log'[q].n
      <4>1. p \in 1 .. Len(log)
        BY <1>t, <2>3, <3>2
      <4>2. CASE q \in 1 .. Len(log)
        BY <2>3, <3>2, <4>1, <4>2 DEF IInv, LogInv
      <4>3. CASE q = Len(log) + 1
        <5>1. log[p].n \in 1 .. Sent
          BY <2>3, <3>2, <4>1 DEF IInv, LogInv
        <5> QED BY <2>2, <2>3, <3>0, <4>1, <4>3, <5>1
      <4> QED BY <3>0, <4>2, <4>3
    <3>3. ASSUME NEW m \in 1 .. Made PROVE \E p \in 1 .. Len(log') : log'[p] = buffer[m]
      <4>1. CASE m \in 1 .. Sent
        <5>1. PICK p \in 1 .. Len(log) : log[p] = buffer[m]
          BY <4>1 DEF IInv, LogInv
        <5> QED BY <2>3, <3>0, <5>1
      <4>2. CASE m = Made
        BY <2>2, <2>3, <3>0, <4>2
      <4> QED BY <3>0, <4>1, <4>2
    <3>4. Sent' = Made /\ buffer' = buffer
      BY <2>1, <2>2
    <3> HIDE DEF Sent
    <3> QED BY <3>1, <3>2, <3>3, <3>4 DEF LogInv
  <2>8. Extends
    <3>1. \A m \in 1 .. Made :
            m \in 1 .. Sent \/ \E p \in Len(log) + 1 .. Len(log') : log'[p].n = m
      <4>1. Len(log) + 1 \in Len(log) + 1 .. Len(log') /\ log'[Len(log) + 1].n = Made
        BY <1>t, <2>2, <2>3
      <4>2. \A m \in 1 .. Made : m \in 1 .. Sent \/ m = Made
        BY <1>f, <2>2
      <4> QED BY <4>1, <4>2
    <3> QED BY <1>f, <1>t, <2>1, <2>2, <2>3, <3>1 DEF Extends
  <2> QED BY <2>1, <2>4, <2>5, <2>6, <2>7, <2>8, ViewKept DEF Rest
<1>6. CASE SendOther
  <2>1. log' = Append(log, Other) /\ UNCHANGED <<buffer, display, last, reader, conn>>
    BY <1>6 DEF SendOther
  <2>2. Made' = Made /\ Shown' = Shown /\ Sent' = Sent
    BY <2>1 DEF Made, Shown, Sent
  <2>3. /\ Len(log') = Len(log) + 1 /\ log'[Len(log) + 1] = Other
        /\ \A p \in 1 .. Len(log) : log'[p] = log[p]
    BY <1>t, <2>1, AppendFacts
  <2>4. BufferInv' /\ DisplayInv' /\ LastInv'
    BY <2>1, <2>2 DEF IInv, BufferInv, DisplayInv, LastInv, EndsAt, AllClear, Latest
  <2>5. LogInv'
    <3>1. \A p \in 1 .. Len(log') : p \in 1 .. Len(log) \/ log'[p] = Other
      BY <1>t, <2>3
    <3>2. \A p \in 1 .. Len(log) : p \in 1 .. Len(log')
      BY <1>t, <2>3
    <3> QED BY <2>1, <2>2, <2>3, <3>1, <3>2 DEF IInv, LogInv
  <2>6. Extends
    BY <1>f, <1>t, <2>1, <2>2, <2>3 DEF Extends
  <2> QED BY <2>1, <2>4, <2>5, <2>6, ViewKept DEF Rest
<1> QED BY <1>1, <1>2, <1>3, <1>4, <1>5, <1>6 DEF ReaderStep

-----------------------------------------------------------------------------
(* No step breaks the invariant.                                           *)
LEMMA NextIInv == NReaders = 1 /\ IInv /\ [Next]_vars => IInv'
  <1> SUFFICES ASSUME NReaders = 1, IInv, [Next]_vars PROVE IInv'
    OBVIOUS
  <1>1. TypeInv' /\ AttachInv'
    BY NextTypeInv DEF IInv
  <1>2. Rest'
    <2>1. ASSUME NEW g \in Readers, ReaderStep(g) PROVE Rest'
      <3>1. g = 1
        BY DEF Readers
      <3> QED BY <1>1, <2>1, <3>1, ReaderKeeps
    <2>2. CASE SendOther
      BY <1>1, <2>2, ReaderKeeps
    <2>3. ASSUME NEW v \in Views, Task(v) \/ Client(v) PROVE Rest'
      BY <2>3, ViewKeeps
    <2>4. CASE UNCHANGED vars
      <3>1. UNCHANGED <<buffer, display, last, reader, log, conn>>
        BY <2>4 DEF vars
      <3>2. Made' = Made /\ Shown' = Shown /\ Sent' = Sent
        BY <3>1 DEF Made, Shown, Sent
      <3>3. BufferInv' /\ DisplayInv' /\ LastInv' /\ LogInv'
        BY <3>1, <3>2
        DEF IInv, BufferInv, DisplayInv, LastInv, LogInv, EndsAt, AllClear, Latest
      <3>4. \A n, t : Keeps(n, t)' = Keeps(n, t)
        BY <3>1, <3>2 DEF Keeps, Live, Coming
      <3>5. \A n, t : Continues(n, t)' = Continues(n, t)
        BY <3>1, <3>2 DEF Continues, AllClear, Latest, Coming
      <3>6. ViewInv'
        BY <3>1, <3>4, <3>5 DEF IInv, ViewInv
      <3> QED BY <3>3, <3>6 DEF Rest
    <2> QED BY <2>1, <2>2, <2>3, <2>4 DEF Next
  <1> QED BY <1>1, <1>2 DEF IInv, Rest

(* What the invariant says of a view is that it misses nothing.            *)
LEMMA IInvNothingMissed == NReaders = 1 /\ IInv => NothingMissed
<1> SUFFICES ASSUME NReaders = 1, IInv PROVE NothingMissed
  OBVIOUS
<1>f. /\ Made \in Nat /\ Shown \in Nat /\ Sent \in Nat /\ Len(buffer) = Made
      /\ Sent <= Shown /\ Shown <= Made /\ 1 \in Readers
      /\ Sent = Shown \/ (Sent = Made - 1 /\ Shown = Made /\ reader[1].pc \in {"cache", "send"})
      /\ Shown = Made \/ (Shown = Made - 1 /\ reader[1].pc = "snapshot")
      /\ \A k \in 1 .. Len(buffer) : buffer[k] \in Chunks /\ buffer[k].n = k
  BY ReaderFacts DEF IInv
<1>t. /\ buffer \in Seq(Chunks) /\ display \in Seq(Chunks) /\ Len(log) \in Nat
      /\ \A v \in Views : conn[v].screen \in Seq(Chunks) /\ conn[v].next \in Nat
  BY DEF IInv, TypeInv, Connection
<1>1. ASSUME NEW v \in Views, conn[v].current, ~ClearPending, NEW d \in Range(display)
      PROVE  d \in Range(conn[v].screen) \cup UnreadChunks(v) \cup InHand
  <2>1. PICK k \in 1 .. Len(display) : d = display[k]
    BY <1>t DEF Range
  <2> DEFINE m == Shown - Len(display) + k
  <2>2. /\ Len(display) \in Nat /\ Len(display) <= Shown /\ m \in 1 .. Shown /\ d = buffer[m]
        /\ \A j \in 1 .. Len(display) :
             display[j] = buffer[Shown - Len(display) + j] /\ ~display[j].clears
    BY <1>f, <1>t, <2>1 DEF IInv, DisplayInv, EndsAt
  <2>3. ASSUME NEW j \in m .. Len(buffer) PROVE ~buffer[j].clears
    <3>1. CASE j <= Shown
      <4> DEFINE i == j - (Shown - Len(display))
      <4>1. i \in 1 .. Len(display) /\ Shown - Len(display) + i = j
        BY <1>f, <2>1, <2>2, <3>1
      <4> HIDE DEF i, m
      <4> QED BY <2>2, <4>1
    <3>2. CASE j > Shown
      <4>1. j = Made /\ reader[1].pc = "snapshot" /\ reader[1].chunk = buffer[Made]
        BY <1>f, <2>2, <3>2 DEF IInv, BufferInv
      <4> QED BY <1>1, <1>f, <4>1 DEF ClearPending
    <3> QED BY <1>f, <2>2, <3>1, <3>2
  <2> HIDE DEF m
  <2>4. CASE m \in 1 .. Sent
    <3>1. Live(m)
      BY <2>3, <2>4 DEF Live
    <3>2. CASE Coming(conn[v].next, m)
      <4>1. PICK p \in 1 .. Len(log) : conn[v].next <= p /\ log[p].n = m
        BY <3>2 DEF Coming
      <4>2. log[p] = buffer[m]
        <5>1. log[p] # Other
          BY <2>4, <4>1 DEF Other
        <5> QED BY <4>1, <5>1 DEF IInv, LogInv
      <4>3. p \in conn[v].next .. Len(log)
        BY <1>t, <4>1
      <4> QED BY <2>2, <4>2, <4>3 DEF UnreadChunks
    <3>3. CASE \E j \in 1 .. Len(conn[v].screen) : conn[v].screen[j] = buffer[m]
      BY <1>t, <2>2, <3>3 DEF Range
    <3> QED BY <1>1, <2>4, <3>1, <3>2, <3>3 DEF IInv, ViewInv, Keeps
  <2>5. CASE m \notin 1 .. Sent
    <3>1. m = Made /\ reader[1].pc \in {"cache", "send"}
      BY <1>f, <2>2, <2>5
    <3>2. reader[1].chunk = buffer[m]
      BY <3>1 DEF IInv, BufferInv
    <3> QED BY <1>f, <2>2, <3>1, <3>2 DEF InHand
  <2> QED BY <2>4, <2>5
<1>2. NoSkip
  <2> SUFFICES ASSUME NEW v \in Views, NEW k \in 1 .. Len(conn[v].screen) - 1,
                      NEW e \in Between(conn[v].screen[k], conn[v].screen[k + 1])
               PROVE  e.clears
    BY DEF NoSkip
  <2>1. PICK j \in 1 .. Len(buffer) : e = buffer[j]
    BY <1>t DEF Between, Range
  <2>2. j \in conn[v].screen[k].n + 1 .. conn[v].screen[k + 1].n - 1
    BY <1>f, <2>1 DEF Between
  <2>3. AllClear(conn[v].screen[k].n + 1, conn[v].screen[k + 1].n - 1)
    BY DEF IInv, ViewInv, Continues
  <2> QED BY <2>1, <2>2, <2>3 DEF AllClear
<1> QED BY <1>1, <1>2 DEF NothingMissed

(* While one PTY is read, no view misses output that the server's display  *)
(* shows, however it attaches, lags and reconnects, and its screen has no  *)
(* gap.                                                                    *)
THEOREM NoOutputMissed == ASSUME NReaders = 1 PROVE Spec => []NothingMissed
  BY InitIInv, NextIInv, IInvNothingMissed, PTL DEF Spec
=============================================================================
