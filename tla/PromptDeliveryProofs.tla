-------------------------- MODULE PromptDeliveryProofs --------------------------
(***************************************************************************)
(* Proofs about PromptDelivery, for any composers, any other clients and   *)
(* any number of words, requests and sessions.                             *)
(***************************************************************************)
EXTENDS PromptDelivery, FiniteSetTheorems, TLAPS

Words == Nat \ {0}

Reqs ==
  [op : Ops, body : Seq(Nat), times : {1, 2}, send : Nat,
   pc : {"posted", "found", "sleep", "ok", "error"}, at : Nat, gone : BOOLEAN]

(* The words of a send are in the PTY that its text was written to.        *)
InPty(p, i, s, body) ==
  \A w \in ToSet(body) : \E k \in 1 .. Len(p[i]) : p[i][k] = <<s, w>>

(* A request of a composer is a text, which knows no Enter, or the Enter   *)
(* of a text that was written.                                             *)
ReqInv(r) ==
  /\ req[r].at \in 0 .. born
  /\ req[r].pc = "found" => req[r].at # 0
  /\ req[r].send # 0 /\ req[r].op # "submit" =>
       req[r].op = "text" /\ req[r].send = r /\ Enter \notin ToSet(req[r].body)
  /\ req[r].send # 0 /\ req[r].op = "text" /\ req[r].pc \in {"sleep", "ok"} =>
       req[r].at # 0 /\ InPty(pty, req[r].at, r, req[r].body)
  /\ req[r].send # 0 /\ req[r].op = "submit" =>
       /\ req[r].send \in 1 .. Len(req)
       /\ req[req[r].send].op = "text" /\ req[req[r].send].pc = "ok"
       /\ req[req[r].send].send = req[r].send
       /\ req[r].pc = "found" => req[req[r].send].at <= req[r].at

CompInv(c) ==
  comp[c].pc = "text" =>
    /\ comp[c].awaits \in 1 .. Len(req) /\ comp[c].send = comp[c].awaits
    /\ req[comp[c].awaits].op = "text" /\ req[comp[c].awaits].send = comp[c].awaits

(* TextBeforeSubmit for one key.                                           *)
KeyInv(i, n) ==
  /\ pty[i][n][1] <= Len(req)
  /\ pty[i][n][2] = Enter /\ pty[i][n][1] # 0 =>
       \A w \in ToSet(req[pty[i][n][1]].body) :
         \E j \in 1 .. i : \E k \in 1 .. Len(pty[j]) :
           pty[j][k] = <<pty[i][n][1], w>> /\ (j = i => k < n)

TypeInv ==
  /\ born \in Instances /\ table \in {0, born}
  /\ pty \in [Instances -> Seq(Nat \X Nat)] /\ req \in Seq(Reqs)
  /\ typed \in Nat /\ text \in [Composers -> Seq(Words)] /\ stored \in Seq(Words)
  /\ comp \in [Composers -> [pc : {"idle", "text", "submit"}, send : Nat, awaits : Nat]]

ReqsInv == \A r \in 1 .. Len(req) : ReqInv(r)
PtyInv == \A i \in Instances : \A n \in 1 .. Len(pty[i]) : KeyInv(i, n)
CompsInv == \A c \in Composers : CompInv(c)

IInv == TypeInv /\ ReqsInv /\ PtyInv /\ CompsInv

LEMMA InitIInv == Init => IInv
<1> SUFFICES ASSUME Init PROVE IInv
  OBVIOUS
<1>1. TypeInv
  BY PromptAssumption DEF Init, TypeInv, Instances, Idle
<1>2. ReqsInv /\ PtyInv
  BY DEF Init, ReqsInv, PtyInv
<1>3. CompsInv
  BY DEF Init, CompsInv, CompInv, Idle
<1> QED BY <1>1, <1>2, <1>3 DEF IInv

----------------------------------------------------------------------------
LEMMA AppendFacts ==
  ASSUME NEW Elem, NEW s \in Seq(Elem), NEW e \in Elem
  PROVE  /\ Append(s, e) \in Seq(Elem) /\ Len(Append(s, e)) = Len(s) + 1 /\ Len(s) \in Nat
         /\ \A n \in 1 .. Len(s) : Append(s, e)[n] = s[n]
         /\ Append(s, e)[Len(s) + 1] = e
  OBVIOUS

LEMMA ConcatFacts ==
  ASSUME NEW Elem, NEW s \in Seq(Elem), NEW t \in Seq(Elem)
  PROVE  /\ s \o t \in Seq(Elem) /\ Len(s \o t) = Len(s) + Len(t)
         /\ Len(s) \in Nat /\ Len(t) \in Nat
         /\ \A n \in 1 .. Len(s) : (s \o t)[n] = s[n]
         /\ \A n \in 1 .. Len(t) : (s \o t)[Len(s) + n] = t[n]
  OBVIOUS

LEMMA ReplaceFacts ==
  ASSUME NEW Elem, NEW s \in Seq(Elem), NEW r \in 1 .. Len(s), NEW e \in Elem
  PROVE  /\ [s EXCEPT ![r] = e] \in Seq(Elem) /\ Len([s EXCEPT ![r] = e]) = Len(s)
         /\ [s EXCEPT ![r] = e][r] = e
         /\ \A n \in 1 .. Len(s) : n # r => [s EXCEPT ![r] = e][n] = s[n]
  OBVIOUS

(* What an IInv of the requests and the PTYs says is kept when PTYs grow.  *)
Grows ==
  \A i \in Instances :
    /\ Len(pty[i]) \in Nat /\ Len(pty'[i]) \in Nat /\ Len(pty[i]) <= Len(pty'[i])
    /\ \A n \in 1 .. Len(pty[i]) : pty'[i][n] = pty[i][n]

LEMMA GrowsKeeps ==
  ASSUME Grows, NEW i \in Instances, NEW k \in 1 .. Len(pty[i])
  PROVE  k \in 1 .. Len(pty'[i]) /\ pty'[i][k] = pty[i][k]
<1> QED BY DEF Grows

LEMMA InPtyGrows ==
  ASSUME Grows, NEW i \in Instances, NEW s, NEW body, InPty(pty, i, s, body)
  PROVE  InPty(pty', i, s, body)
<1> SUFFICES ASSUME NEW w \in ToSet(body)
             PROVE  \E k \in 1 .. Len(pty'[i]) : pty'[i][k] = <<s, w>>
  BY DEF InPty
<1>1. PICK k \in 1 .. Len(pty[i]) : pty[i][k] = <<s, w>>
  BY DEF InPty
<1> QED BY <1>1 DEF Grows

(* A key that was written stays right.                                     *)
LEMMA KeyStays ==
  ASSUME TypeInv, Grows, NEW i \in Instances, NEW n \in 1 .. Len(pty[i]), KeyInv(i, n),
         Len(req) \in Nat, Len(req') \in Nat, Len(req) <= Len(req'),
         \A s \in 1 .. Len(req) : req'[s].body = req[s].body
  PROVE  KeyInv(i, n)'
<1>1. pty'[i][n] = pty[i][n]
  BY DEF Grows
<1>2. pty[i][n][1] \in Nat /\ pty[i][n][1] <= Len(req)
  <2>1. pty[i] \in Seq(Nat \X Nat)
    BY DEF TypeInv
  <2>2. pty[i][n] \in Nat \X Nat
    BY <2>1
  <2> QED BY <2>2 DEF KeyInv
<1>3. ASSUME pty[i][n][2] = Enter, pty[i][n][1] # 0,
             NEW w \in ToSet(req'[pty[i][n][1]].body)
      PROVE  \E j \in 1 .. i : \E k \in 1 .. Len(pty'[j]) :
               pty'[j][k] = <<pty[i][n][1], w>> /\ (j = i => k < n)
  <2>1. w \in ToSet(req[pty[i][n][1]].body)
    BY <1>2, <1>3
  <2>2. PICK j \in 1 .. i : \E k \in 1 .. Len(pty[j]) :
               pty[j][k] = <<pty[i][n][1], w>> /\ (j = i => k < n)
    BY <1>3, <2>1 DEF KeyInv
  <2>3. PICK k \in 1 .. Len(pty[j]) : pty[j][k] = <<pty[i][n][1], w>> /\ (j = i => k < n)
    BY <2>2
  <2>4. j \in Instances
    BY PromptAssumption DEF Instances
  <2>5. k \in 1 .. Len(pty'[j]) /\ pty'[j][k] = pty[j][k]
    BY <2>3, <2>4, GrowsKeeps
  <2> QED BY <2>3, <2>5
<1> QED
  <2> DEFINE c == pty[i][n]
  <2>1. pty'[i][n] = c /\ c[1] <= Len(req')
    BY <1>1, <1>2
  <2>2. c[2] = Enter /\ c[1] # 0 =>
          \A w \in ToSet(req'[c[1]].body) :
            \E j \in 1 .. i : \E k \in 1 .. Len(pty'[j]) :
              pty'[j][k] = <<c[1], w>> /\ (j = i => k < n)
    BY <1>3
  <2> QED BY ONLY <2>1, <2>2, Enter' = Enter DEF KeyInv

(* A request that is served goes on as it is, but for its stage.           *)
LEMMA ServedInv ==
  ASSUME IInv, Grows, NEW r \in 1 .. Len(req), NEW q \in Reqs,
         req' = [req EXCEPT ![r] = q], UNCHANGED <<born, comp>>,
         req[r].pc \notin {"ok", "error"},
         q.body = req[r].body, q.send = req[r].send, q.send # 0 => q.op = req[r].op,
         q.at \in 0 .. born, q.pc = "found" => q.at # 0,
         q.send # 0 /\ q.op = "text" /\ q.pc \in {"sleep", "ok"} =>
           q.at # 0 /\ InPty(pty', q.at, r, q.body),
         q.send # 0 /\ q.op = "submit" /\ q.pc = "found" => req[q.send].at <= q.at
  PROVE  ReqsInv' /\ CompsInv' /\ req' \in Seq(Reqs) /\ Len(req') = Len(req)
         /\ \A s \in 1 .. Len(req) : req'[s].body = req[s].body
<1>1. /\ req' \in Seq(Reqs) /\ Len(req') = Len(req) /\ req'[r] = q
      /\ \A s \in 1 .. Len(req) : s # r => req'[s] = req[s]
  BY ReplaceFacts DEF IInv, TypeInv
<1>2. ASSUME NEW s \in 1 .. Len(req) PROVE ReqInv(s)'
  <2>1. ReqInv(s)
    BY DEF IInv, ReqsInv
  <2>2. ASSUME req[s].send # 0, req[s].op = "submit"
        PROVE  /\ req[s].send \in 1 .. Len(req) /\ req'[req[s].send] = req[req[s].send]
               /\ req[req[s].send].op = "text" /\ req[req[s].send].pc = "ok"
               /\ req[req[s].send].send = req[s].send
    <3>1. /\ req[s].send \in 1 .. Len(req)
          /\ req[req[s].send].op = "text" /\ req[req[s].send].pc = "ok"
          /\ req[req[s].send].send = req[s].send
      BY <2>1, <2>2 DEF ReqInv
    <3> QED BY <1>1, <3>1
  <2>3. CASE s = r
    <3>1. q.send # 0 /\ q.op # "submit" =>
            q.op = "text" /\ q.send = r /\ Enter \notin ToSet(q.body)
      BY <2>1, <2>3 DEF ReqInv
    <3>2. q.send # 0 /\ q.op = "submit" =>
            /\ q.send \in 1 .. Len(req')
            /\ req'[q.send].op = "text" /\ req'[q.send].pc = "ok" /\ req'[q.send].send = q.send
            /\ q.pc = "found" => req'[q.send].at <= q.at
      BY <1>1, <2>2, <2>3
    <3> QED BY <1>1, <2>3, <3>1, <3>2 DEF ReqInv
  <2>4. CASE s # r
    <3>1. req'[s] = req[s]
      BY <1>1, <2>4
    <3>2. req[s].send # 0 /\ req[s].op = "text" /\ req[s].pc \in {"sleep", "ok"} =>
            req[s].at # 0 /\ InPty(pty', req[s].at, s, req[s].body)
      <4>1. ASSUME req[s].send # 0, req[s].op = "text", req[s].pc \in {"sleep", "ok"}
            PROVE  req[s].at # 0 /\ InPty(pty', req[s].at, s, req[s].body)
        <5>1. req[s].at \in 0 .. born /\ req[s].at # 0 /\ InPty(pty, req[s].at, s, req[s].body)
          BY <2>1, <4>1 DEF ReqInv
        <5>2. req[s].at \in Instances
          BY <5>1, PromptAssumption DEF Instances, IInv, TypeInv
        <5> QED BY <5>1, <5>2, InPtyGrows
      <4> QED BY <4>1
    <3> QED BY <1>1, <2>1, <2>2, <3>1, <3>2 DEF ReqInv
  <2> QED BY <2>3, <2>4
<1>3. ASSUME NEW c \in Composers PROVE CompInv(c)'
  <2>1. CompInv(c)
    BY DEF IInv, CompsInv
  <2>2. ASSUME NEW s \in 1 .. Len(req), req[s].op = "text", req[s].send = s
        PROVE  req'[s].op = "text" /\ req'[s].send = s
    BY <1>1, <2>2
  <2> QED BY <1>1, <2>1, <2>2 DEF CompInv
<1> QED BY <1>1, <1>2, <1>3 DEF ReqsInv, CompsInv

(* A new request is a text, the Enter of a text that was acknowledged, or  *)
(* not of a composer.                                                      *)
LEMMA PostedInv ==
  ASSUME IInv, NEW q \in Reqs, req' = Append(req, q), UNCHANGED <<born, pty>>,
         q.pc = "posted", q.at = 0,
         \/ q.send = 0
         \/ q.op = "text" /\ q.send = Len(req) + 1 /\ Enter \notin ToSet(q.body)
         \/ /\ q.op = "submit" /\ q.send \in 1 .. Len(req)
            /\ req[q.send].op = "text" /\ req[q.send].pc = "ok" /\ req[q.send].send = q.send
  PROVE  /\ ReqsInv' /\ PtyInv' /\ req' \in Seq(Reqs) /\ Len(req) \in Nat
         /\ Len(req') = Len(req) + 1 /\ req'[Len(req')] = q
         /\ \A s \in 1 .. Len(req) : req'[s] = req[s]
<1>1. /\ req' \in Seq(Reqs) /\ Len(req) \in Nat /\ Len(req') = Len(req) + 1
      /\ req'[Len(req) + 1] = q /\ \A s \in 1 .. Len(req) : req'[s] = req[s]
  BY AppendFacts DEF IInv, TypeInv
<1>2. ASSUME NEW s \in 1 .. Len(req') PROVE ReqInv(s)'
  <2>1. CASE s \in 1 .. Len(req)
    <3>1. ReqInv(s) /\ req'[s] = req[s]
      BY <1>1, <2>1 DEF IInv, ReqsInv
    <3>2. req[s].send # 0 /\ req[s].op = "submit" =>
            req[s].send \in 1 .. Len(req') /\ req'[req[s].send] = req[req[s].send]
      BY <1>1, <3>1 DEF ReqInv
    <3> QED BY <3>1, <3>2 DEF ReqInv
  <2>2. CASE s = Len(req) + 1
    <3>1. q.send # 0 /\ q.op = "submit" =>
            q.send \in 1 .. Len(req') /\ req'[q.send] = req[q.send]
      BY <1>1
    <3>2. born \in Nat
      BY PromptAssumption DEF IInv, TypeInv, Instances
    <3> QED BY <1>1, <2>2, <3>1, <3>2 DEF ReqInv
  <2> QED BY <1>1, <2>1, <2>2
<1>3. Grows
  <2> SUFFICES ASSUME NEW i \in Instances PROVE Len(pty[i]) \in Nat
    BY DEF Grows
  <2>1. pty[i] \in Seq(Nat \X Nat)
    BY DEF IInv, TypeInv
  <2> QED BY <2>1
<1>4. PtyInv'
  <2> SUFFICES ASSUME NEW i \in Instances, NEW n \in 1 .. Len(pty[i]) PROVE KeyInv(i, n)'
    BY DEF PtyInv
  <2>1. KeyInv(i, n) /\ TypeInv
    BY DEF IInv, PtyInv
  <2>2. Len(req') \in Nat /\ Len(req) <= Len(req')
    BY <1>1
  <2> QED BY <1>1, <1>3, <2>1, <2>2, KeyStays
<1> QED BY <1>1, <1>2, <1>4 DEF ReqsInv

----------------------------------------------------------------------------
(* THE STEPS OF THE SERVER.                                                *)

(* Where the PTYs stay as they are, the keys in them stay right.           *)
LEMMA QuietKeys ==
  ASSUME IInv, UNCHANGED pty, Len(req') \in Nat, Len(req) <= Len(req'),
         \A s \in 1 .. Len(req) : req'[s].body = req[s].body
  PROVE  PtyInv'
<1>1. Grows
  <2> SUFFICES ASSUME NEW i \in Instances PROVE Len(pty[i]) \in Nat
    BY DEF Grows
  <2>1. pty[i] \in Seq(Nat \X Nat)
    BY DEF IInv, TypeInv
  <2> QED BY <2>1
<1>2. Len(req) \in Nat
  BY DEF IInv, TypeInv
<1> SUFFICES ASSUME NEW i \in Instances, NEW n \in 1 .. Len(pty[i]) PROVE KeyInv(i, n)'
  BY DEF PtyInv
<1>3. KeyInv(i, n) /\ TypeInv
  BY DEF IInv, PtyInv
<1> QED BY <1>1, <1>2, <1>3, KeyStays

(* A step of a request that writes nothing.                                *)
LEMMA QuietServed ==
  ASSUME IInv, NEW r \in 1 .. Len(req), NEW q \in Reqs,
         req' = [req EXCEPT ![r] = q], UNCHANGED <<server, pty, client>>,
         req[r].pc \notin {"ok", "error"},
         q.body = req[r].body, q.send = req[r].send, q.send # 0 => q.op = req[r].op,
         q.at \in 0 .. born, q.pc = "found" => q.at # 0,
         q.send # 0 /\ q.op = "text" /\ q.pc \in {"sleep", "ok"} =>
           q.at # 0 /\ InPty(pty, q.at, r, q.body),
         q.send # 0 /\ q.op = "submit" /\ q.pc = "found" => req[q.send].at <= q.at
  PROVE  IInv'
<1>1. Grows
  <2> SUFFICES ASSUME NEW i \in Instances PROVE Len(pty[i]) \in Nat
    BY DEF Grows, client
  <2>1. pty[i] \in Seq(Nat \X Nat)
    BY DEF IInv, TypeInv
  <2> QED BY <2>1
<1>2. pty' = pty /\ UNCHANGED <<born, comp>>
  BY DEF server, client
<1>3. InPty(pty', q.at, r, q.body) = InPty(pty, q.at, r, q.body)
  BY <1>2 DEF InPty
<1>4. /\ ReqsInv' /\ CompsInv' /\ req' \in Seq(Reqs) /\ Len(req') = Len(req)
      /\ \A s \in 1 .. Len(req) : req'[s].body = req[s].body
  BY <1>1, <1>2, <1>3, ServedInv
<1>5. Len(req') \in Nat /\ Len(req) <= Len(req')
  BY <1>4 DEF IInv, TypeInv
<1>6. PtyInv'
  BY <1>2, <1>4, <1>5, QuietKeys
<1>7. TypeInv'
  BY <1>4 DEF IInv, TypeInv, server, client
<1> QED BY <1>4, <1>6, <1>7 DEF IInv

LEMMA ReqType ==
  ASSUME IInv, NEW r \in 1 .. Len(req)
  PROVE  req[r] \in Reqs /\ ReqInv(r) /\ born \in Nat
<1> QED BY PromptAssumption DEF IInv, TypeInv, ReqsInv, Instances

(* The Enter of a text that was written finds no session older than the    *)
(* one the text went to.                                                   *)
LEMMA LookupInv ==
  ASSUME IInv, NEW r \in 1 .. Len(req), Lookup(r)
  PROVE  IInv'
<1> DEFINE q == [req[r] EXCEPT !.at = table, !.pc = IF table = 0 THEN "error" ELSE "found"]
<1>1. req[r] \in Reqs /\ ReqInv(r) /\ born \in Nat
  BY ReqType
<1>2. /\ q \in Reqs /\ q.body = req[r].body /\ q.send = req[r].send /\ q.op = req[r].op
      /\ q.at = table /\ q.pc = IF table = 0 THEN "error" ELSE "found"
  <2>1. table \in Nat
    BY <1>1 DEF IInv, TypeInv
  <2> QED BY <1>1, <2>1 DEF Reqs
<1>3. req' = [req EXCEPT ![r] = q] /\ req[r].pc = "posted" /\ UNCHANGED <<server, pty, client>>
  <2>1. /\ req[r].pc = "posted" /\ UNCHANGED <<server, pty, client>>
        /\ req' = [req EXCEPT ![r].at = table, ![r].pc = IF table = 0 THEN "error" ELSE "found"]
    BY DEF Lookup
  <2>2. r \in DOMAIN req /\ req \in Seq(Reqs)
    BY DEF IInv, TypeInv
  <2>3. [req EXCEPT ![r].at = table, ![r].pc = IF table = 0 THEN "error" ELSE "found"]
          = [req EXCEPT ![r] = q]
    BY <1>1, <2>2 DEF Reqs
  <2> QED BY <2>1, <2>3
<1>4. q.at \in 0 .. born /\ (q.pc = "found" => q.at = born /\ q.at # 0)
  BY <1>1, <1>2 DEF IInv, TypeInv
<1>5. ASSUME q.send # 0, q.op = "submit", q.pc = "found" PROVE req[q.send].at <= q.at
  <2>1. q.send \in 1 .. Len(req)
    BY <1>1, <1>2, <1>5 DEF ReqInv
  <2>2. req[q.send].at \in 0 .. born
    BY <2>1, ReqType DEF ReqInv
  <2> QED BY <1>1, <1>4, <1>5, <2>2
<1>6. q.pc \notin {"sleep", "ok"}
  BY <1>2
<1> HIDE DEF q
<1> QED BY <1>2, <1>3, <1>4, <1>5, <1>6, QuietServed

LEMMA WriteFailsInv ==
  ASSUME IInv, NEW r \in 1 .. Len(req), WriteFails(r)
  PROVE  IInv'
<1> DEFINE q == [req[r] EXCEPT !.pc = "error"]
<1>1. req[r] \in Reqs /\ ReqInv(r)
  BY ReqType
<1>2. /\ q \in Reqs /\ q.body = req[r].body /\ q.send = req[r].send /\ q.op = req[r].op
      /\ q.at = req[r].at /\ q.pc = "error"
  BY <1>1 DEF Reqs
<1>3. req' = [req EXCEPT ![r] = q] /\ req[r].pc = "found" /\ UNCHANGED <<server, pty, client>>
  BY <1>1 DEF WriteFails, Reqs, IInv, TypeInv
<1>4. q.at \in 0 .. born
  BY <1>1, <1>2 DEF ReqInv
<1> HIDE DEF q
<1> QED BY <1>2, <1>3, <1>4, QuietServed

(* A request of a composer that sleeps is a text.                          *)
LEMMA WakeInv ==
  ASSUME IInv, NEW r \in 1 .. Len(req), Wake(r)
  PROVE  IInv'
<1>1. req[r] \in Reqs /\ ReqInv(r) /\ req[r].pc = "sleep" /\ UNCHANGED <<server, pty, client>>
  BY ReqType DEF Wake
<1>2. PICK q : /\ req' = [req EXCEPT ![r] = q]
               /\ q = IF req[r].op = "text" \/ req[r].gone THEN [req[r] EXCEPT !.pc = "ok"]
                      ELSE [req[r] EXCEPT !.op = "submit", !.pc = "posted"]
  BY DEF Wake, IInv, TypeInv
<1>3. /\ q \in Reqs /\ q.body = req[r].body /\ q.send = req[r].send /\ q.at = req[r].at
      /\ q.pc \in {"ok", "posted"}
      /\ q.op # req[r].op => req[r].op # "text" /\ q.op = "submit"
  BY <1>1, <1>2 DEF Reqs, Ops
<1>4. q.at \in 0 .. born
  BY <1>1, <1>3 DEF ReqInv
<1>5. q.send # 0 => q.op = req[r].op
  BY <1>1, <1>2, <1>3 DEF ReqInv, Reqs, Ops
<1>6. q.send # 0 /\ q.op = "text" => q.at # 0 /\ InPty(pty, q.at, r, q.body)
  BY <1>1, <1>3, <1>5 DEF ReqInv
<1> QED BY <1>1, <1>2, <1>3, <1>4, <1>5, <1>6, QuietServed

(* A write appends keys to one PTY.                                        *)
LEMMA PtyAppended ==
  ASSUME TypeInv, NEW i \in Instances, NEW t \in Seq(Nat \X Nat),
         pty' = [pty EXCEPT ![i] = @ \o t]
  PROVE  /\ pty' \in [Instances -> Seq(Nat \X Nat)] /\ Grows
         /\ pty[i] \in Seq(Nat \X Nat) /\ Len(pty[i]) \in Nat
         /\ pty'[i] = pty[i] \o t /\ Len(pty'[i]) = Len(pty[i]) + Len(t)
         /\ \A n \in 1 .. Len(t) : pty'[i][Len(pty[i]) + n] = t[n]
         /\ \A j \in Instances : j # i => pty'[j] = pty[j]
<1>1. pty[i] \in Seq(Nat \X Nat) /\ \A j \in Instances : pty[j] \in Seq(Nat \X Nat)
  BY DEF TypeInv
<1>2. pty'[i] = pty[i] \o t /\ \A j \in Instances : j # i => pty'[j] = pty[j]
  BY DEF TypeInv
<1>3. /\ pty'[i] \in Seq(Nat \X Nat) /\ Len(pty[i]) \in Nat /\ Len(t) \in Nat
      /\ Len(pty'[i]) = Len(pty[i]) + Len(t)
      /\ \A n \in 1 .. Len(pty[i]) : pty'[i][n] = pty[i][n]
      /\ \A n \in 1 .. Len(t) : pty'[i][Len(pty[i]) + n] = t[n]
  BY <1>1, <1>2, ConcatFacts
<1>4. pty' \in [Instances -> Seq(Nat \X Nat)]
  BY <1>3 DEF TypeInv
<1>5. Grows
  <2> SUFFICES ASSUME NEW j \in Instances
               PROVE  /\ Len(pty[j]) \in Nat /\ Len(pty'[j]) \in Nat
                      /\ Len(pty[j]) <= Len(pty'[j])
                      /\ \A n \in 1 .. Len(pty[j]) : pty'[j][n] = pty[j][n]
    BY DEF Grows
  <2>1. CASE j = i
    BY <1>3, <2>1
  <2>2. CASE j # i
    <3>1. pty'[j] = pty[j] /\ Len(pty[j]) \in Nat
      BY <1>1, <1>2, <2>2
    <3> QED BY <3>1
  <2> QED BY <2>1, <2>2
<1> QED BY <1>1, <1>2, <1>3, <1>4, <1>5

(* What is written for a request: the Enter of a composer's submit is the  *)
(* Enter of a text that is in this PTY or in one of an earlier session.    *)
LEMMA WriteBytesInv ==
  ASSUME IInv, NEW r \in 1 .. Len(req), WriteBytes(r)
  PROVE  IInv'
<1>1. req[r] \in Reqs /\ ReqInv(r) /\ born \in Nat /\ TypeInv
  BY ReqType DEF IInv
<1>2. PICK i \in Nat, s \in Nat : i = req[r].at /\ s = req[r].send
  BY <1>1 DEF Reqs
<1>3. /\ req[r].pc = "found" /\ UNCHANGED <<server, client>>
      /\ pty' = [pty EXCEPT ![i] = @ \o [n \in DOMAIN Keys(r) |-> <<s, Keys(r)[n]>>]]
      /\ req' = [req EXCEPT ![r] = Written(req[r])]
  BY <1>2 DEF WriteBytes
<1>4. i \in 1 .. born /\ i \in Instances
  <2>1. i \in 0 .. born /\ i # 0
    BY <1>1, <1>2, <1>3 DEF ReqInv
  <2>2. born \in 1 .. NInstances /\ NInstances \in Nat
    BY <1>1, PromptAssumption DEF TypeInv, Instances
  <2> QED BY <2>1, <2>2 DEF Instances
<1>5. PICK keys \in Seq(Nat) : keys = Keys(r)
  <2>1. req[r].body \in Seq(Nat) /\ <<Enter>> \in Seq(Nat)
    BY <1>1 DEF Enter, Reqs
  <2>2. Keys(r) \in Seq(Nat)
    BY <2>1 DEF Keys
  <2> QED BY <2>2
<1>6. PICK t \in Seq(Nat \X Nat) :
        /\ pty' = [pty EXCEPT ![i] = @ \o t] /\ Len(t) = Len(keys)
        /\ \A n \in 1 .. Len(t) : t[n] = <<s, keys[n]>>
  <2> DEFINE t == [n \in DOMAIN keys |-> <<s, keys[n]>>]
  <2>1. pty' = [pty EXCEPT ![i] = @ \o t]
    BY <1>3, <1>5
  <2>2. /\ t \in Seq(Nat \X Nat) /\ Len(t) = Len(keys)
        /\ \A n \in 1 .. Len(t) : t[n] = <<s, keys[n]>>
    BY <1>2, <1>5
  <2> QED BY <2>1, <2>2
<1>7. PICK q \in Reqs :
        /\ req' = [req EXCEPT ![r] = q] /\ q.body = req[r].body /\ q.send = s
        /\ q.op = req[r].op /\ q.at = i /\ q.pc # "found"
  <2>1. PICK p \in Reqs : p = req[r]
    BY <1>1
  <2>2. PICK q : q = Written(p)
    OBVIOUS
  <2>3. /\ q \in Reqs /\ q.body = p.body /\ q.send = p.send /\ q.op = p.op
        /\ q.at = p.at /\ q.pc # "found"
    <3>1. CASE p.op = "key" \/ (p.op = "submit" /\ p.times = 1)
      <4>1. q = [p EXCEPT !.pc = "ok"]
        BY <2>2, <3>1 DEF Written
      <4> QED BY <4>1 DEF Reqs
    <3>2. CASE p.op = "submit" /\ p.times = 2
      <4>1. q = [p EXCEPT !.pc = "posted", !.times = 1]
        BY <2>2, <3>2 DEF Written
      <4> QED BY <4>1 DEF Reqs
    <3>3. CASE p.op \notin {"key", "submit"}
      <4>1. q = [p EXCEPT !.pc = "sleep", !.gone = p.at \in exited]
        BY <2>2, <3>3 DEF Written
      <4>2. (p.at \in exited) \in BOOLEAN
        OBVIOUS
      <4> QED BY <4>1, <4>2 DEF Reqs
    <3>4. p.times \in {1, 2}
      BY <2>1 DEF Reqs
    <3> QED BY <3>1, <3>2, <3>3, <3>4
  <2> QED BY <1>2, <1>3, <2>1, <2>2, <2>3
<1>8. /\ pty' \in [Instances -> Seq(Nat \X Nat)] /\ Grows
      /\ pty[i] \in Seq(Nat \X Nat) /\ Len(pty[i]) \in Nat
      /\ Len(pty'[i]) = Len(pty[i]) + Len(t)
      /\ \A n \in 1 .. Len(t) : pty'[i][Len(pty[i]) + n] = t[n]
      /\ \A j \in Instances : j # i => pty'[j] = pty[j]
  BY <1>1, <1>4, <1>6, PtyAppended
<1>9. ASSUME s # 0, req[r].op = "text" PROVE InPty(pty', i, r, q.body)
  <2>1. s = r /\ keys = q.body
    BY <1>1, <1>2, <1>5, <1>7, <1>9 DEF ReqInv, Keys
  <2> SUFFICES ASSUME NEW w \in ToSet(q.body)
               PROVE  \E k \in 1 .. Len(pty'[i]) : pty'[i][k] = <<r, w>>
    BY DEF InPty
  <2>2. PICK n \in 1 .. Len(keys) : keys[n] = w
    BY <1>5, <2>1 DEF ToSet
  <2>3. t[n] = <<r, w>> /\ n \in 1 .. Len(t)
    BY <1>6, <2>1, <2>2
  <2>4. Len(pty[i]) + n \in 1 .. Len(pty'[i])
    BY <1>5, <1>6, <1>8, <2>3
  <2> QED BY <1>8, <2>3, <2>4
<1>10. UNCHANGED <<born, comp>> /\ q.at \in 0 .. born /\ q.at # 0
  BY <1>3, <1>4, <1>7 DEF server, client
<1>11. /\ ReqsInv' /\ CompsInv' /\ req' \in Seq(Reqs) /\ Len(req') = Len(req)
       /\ \A n \in 1 .. Len(req) : req'[n].body = req[n].body
  <2>1. Grows /\ req' = [req EXCEPT ![r] = q] /\ req[r].pc \notin {"ok", "error"}
    BY <1>3, <1>7, <1>8
  <2>2. q.send # 0 /\ q.op = "text" => q.at # 0 /\ InPty(pty', q.at, r, q.body)
    BY <1>7, <1>9, <1>10
  <2>3. q.body = req[r].body /\ q.send = req[r].send /\ q.op = req[r].op /\ q.pc # "found"
    BY <1>2, <1>7
  <2> QED BY <1>10, <2>1, <2>2, <2>3, ServedInv
<1>12. Len(req) \in Nat /\ Len(req') \in Nat /\ Len(req) <= Len(req')
  BY <1>1, <1>11 DEF TypeInv
<1>13. ASSUME NEW j \in Instances, NEW n \in 1 .. Len(pty[j]) PROVE KeyInv(j, n)'
  BY <1>1, <1>8, <1>11, <1>12, <1>13, KeyStays DEF IInv, PtyInv
<1>14. ASSUME NEW n \in 1 .. Len(t), NEW m, m = Len(pty[i]) + n PROVE KeyInv(i, m)'
  <2>1. pty'[i][m][1] = s /\ pty'[i][m][2] = keys[n]
    <3>1. pty'[i][m] = t[n] /\ t[n] = <<s, keys[n]>>
      BY <1>6, <1>8, <1>14
    <3> QED BY <3>1
  <2>2. s <= Len(req')
    <3>1. r <= Len(req) /\ r \in Nat
      BY <1>12
    <3>2. s # 0 => s = r \/ s \in 1 .. Len(req)
      BY <1>1, <1>2 DEF ReqInv
    <3> QED BY <1>2, <1>11, <1>12, <3>1, <3>2
  <2>3. ASSUME keys[n] = Enter, s # 0, NEW w \in ToSet(req'[s].body)
        PROVE  \E j \in 1 .. i : \E k \in 1 .. Len(pty'[j]) :
                 pty'[j][k] = <<s, w>> /\ (j = i => k < m)
    <3>1. req[r].op = "submit"
      <4> SUFFICES ASSUME req[r].op # "submit" PROVE FALSE
        OBVIOUS
      <4>1. Enter \notin ToSet(keys)
        BY <1>1, <1>2, <1>5, <2>3 DEF ReqInv, Keys
      <4>2. n \in DOMAIN keys
        BY <1>5, <1>6
      <4> QED BY <2>3, <4>1, <4>2 DEF ToSet
    <3>2. /\ s \in 1 .. Len(req) /\ req[s].op = "text" /\ req[s].pc = "ok"
          /\ req[s].send = s /\ req[s].at <= i
      BY <1>1, <1>2, <1>3, <2>3, <3>1 DEF ReqInv
    <3>3. PICK j \in 0 .. born : j = req[s].at /\ j # 0 /\ InPty(pty, j, s, req[s].body)
      BY <2>3, <3>2, ReqType DEF ReqInv
    <3>4. j \in 1 .. i
      BY SMTT(30), <1>1, <1>2, <3>2, <3>3
    <3>5. j \in Instances
      BY <1>4, <3>4, PromptAssumption DEF Instances
    <3>6. w \in ToSet(req[s].body)
      BY <1>11, <2>3, <3>2
    <3>7. PICK k \in 1 .. Len(pty[j]) : pty[j][k] = <<s, w>>
      BY <3>3, <3>6 DEF InPty
    <3>8. k \in 1 .. Len(pty'[j]) /\ pty'[j][k] = <<s, w>>
      BY <1>8, <3>5, <3>7, GrowsKeeps
    <3>9. j = i => k < m
      BY <1>6, <1>8, <1>14, <3>7
    <3> QED BY <3>4, <3>8, <3>9
  <2> QED BY ONLY <2>1, <2>2, <2>3, Enter' = Enter DEF KeyInv
<1>15. PtyInv'
  <2> SUFFICES ASSUME NEW j \in Instances, NEW n \in 1 .. Len(pty'[j]) PROVE KeyInv(j, n)'
    BY DEF PtyInv
  <2>1. CASE n \in 1 .. Len(pty[j])
    BY <1>13, <2>1
  <2>2. CASE n \notin 1 .. Len(pty[j])
    <3>1. j = i
      BY <1>8, <2>2
    <3>2. PICK k \in 1 .. Len(t) : n = Len(pty[i]) + k
      <4>1. n - Len(pty[i]) \in 1 .. Len(t) /\ n = Len(pty[i]) + (n - Len(pty[i]))
        BY <1>6, <1>8, <2>2, <3>1
      <4> QED BY <4>1
    <3> QED BY <1>14, <3>1, <3>2
  <2> QED BY <2>1, <2>2
<1>16. TypeInv'
  BY <1>1, <1>3, <1>8, <1>11 DEF TypeInv, server, client
<1> QED BY <1>11, <1>15, <1>16 DEF IInv

----------------------------------------------------------------------------
(* THE STEPS OF THE CLIENTS AND OF THE SESSION.                            *)

(* A step that posts and writes nothing.                                   *)
LEMMA QuietInv ==
  ASSUME IInv, UNCHANGED <<req, pty>>, TypeInv', born <= born',
         \A c \in Composers : comp'[c].pc = "text" => comp'[c] = comp[c]
  PROVE  IInv'
<1>1. born \in Nat /\ born' \in Nat
  BY PromptAssumption DEF IInv, TypeInv, Instances
<1>2. ReqsInv'
  <2> SUFFICES ASSUME NEW r \in 1 .. Len(req) PROVE ReqInv(r)'
    BY DEF ReqsInv
  <2>1. ReqInv(r)
    BY DEF IInv, ReqsInv
  <2>2. req[r].at \in 0 .. born'
    BY <1>1, <2>1 DEF ReqInv
  <2> QED BY <2>1, <2>2 DEF ReqInv
<1>3. PtyInv'
  <2>1. Len(req') \in Nat /\ Len(req) <= Len(req')
    BY DEF IInv, TypeInv
  <2> QED BY <2>1, QuietKeys
<1>4. CompsInv'
  BY DEF IInv, CompsInv, CompInv
<1> QED BY <1>2, <1>3, <1>4 DEF IInv

LEMMA SessionInv ==
  ASSUME IInv, \/ Delete \/ Create
               \/ \E i \in Instances : ChildEnds(i) \/ ReportExit(i)
  PROVE  IInv'
<1>1. born \in Nat /\ NInstances \in Nat
  BY PromptAssumption DEF IInv, TypeInv, Instances
<1>2. CASE Delete
  <2>1. TypeInv' /\ UNCHANGED <<req, pty, born, comp>>
    BY <1>2 DEF Delete, client, IInv, TypeInv
  <2> QED BY <1>1, <2>1, QuietInv
<1>3. CASE Create
  <2>1. born' \in Instances /\ born <= born' /\ table' = born'
    BY <1>1, <1>3 DEF Create, Instances
  <2>2. TypeInv' /\ UNCHANGED <<req, pty, comp>>
    BY <1>3, <2>1 DEF Create, client, IInv, TypeInv
  <2> QED BY <2>1, <2>2, QuietInv
<1>4. ASSUME NEW i \in Instances, ChildEnds(i) \/ ReportExit(i) PROVE IInv'
  <2>1. TypeInv' /\ UNCHANGED <<req, pty, born, comp>>
    BY <1>4 DEF ChildEnds, ReportExit, client, IInv, TypeInv
  <2> QED BY <1>1, <2>1, QuietInv
<1> QED BY <1>2, <1>3, <1>4

(* What a composer does without a request.                                 *)
LEMMA ComposerInv ==
  ASSUME IInv, NEW c \in Composers,
         Type(c) \/ SubmitAcked(c) \/ Failed(c) \/ TimesOut(c) \/ Reload(c)
  PROVE  IInv'
<1>1. born \in Nat /\ typed \in Nat /\ text[c] \in Seq(Words) /\ stored \in Seq(Words)
  BY PromptAssumption DEF IInv, TypeInv, Instances
<1>2. CASE Type(c)
  <2>1. typed' \in Words /\ typed' \in Nat
    BY <1>1, <1>2 DEF Type, Words
  <2>2. text' = [text EXCEPT ![c] = Append(text[c], typed')]
    BY <1>2 DEF Type
  <2>3. Append(text[c], typed') \in Seq(Words)
    BY <1>1, <2>1, AppendFacts
  <2>4. text' \in [Composers -> Seq(Words)] /\ text'[c] \in Seq(Words)
    BY <2>2, <2>3 DEF IInv, TypeInv
  <2>5. stored' = text'[c] /\ UNCHANGED <<req, pty, table, born, comp>>
    BY <1>2 DEF Type, server
  <2>6. TypeInv'
    BY <2>1, <2>4, <2>5 DEF IInv, TypeInv
  <2> QED BY <1>1, <2>5, <2>6, QuietInv
<1>3. CASE SubmitAcked(c) \/ Failed(c) \/ TimesOut(c) \/ Reload(c)
  <2>1. comp' = [comp EXCEPT ![c] = Idle] /\ UNCHANGED <<req, pty, table, born, typed>>
    BY <1>3 DEF SubmitAcked, Failed, TimesOut, Reload, server
  <2>2. /\ text' \in {text, [text EXCEPT ![c] = <<>>], [text EXCEPT ![c] = stored]}
        /\ stored' \in {stored, <<>>}
    BY <1>3 DEF SubmitAcked, Failed, TimesOut, Reload
  <2>3. text' \in [Composers -> Seq(Words)] /\ stored' \in Seq(Words)
    <3>1. <<>> \in Seq(Words)
      OBVIOUS
    <3>2. text \in [Composers -> Seq(Words)]
      BY DEF IInv, TypeInv
    <3>3. \A u \in Seq(Words) : [text EXCEPT ![c] = u] \in [Composers -> Seq(Words)]
      BY <3>2
    <3> QED BY <1>1, <2>2, <3>1, <3>2, <3>3
  <2>4. /\ comp' \in [Composers -> [pc : {"idle", "text", "submit"}, send : Nat, awaits : Nat]]
        /\ \A d \in Composers : comp'[d].pc = "text" => comp'[d] = comp[d]
    BY <2>1 DEF Idle, IInv, TypeInv
  <2>5. TypeInv'
    BY <2>1, <2>3, <2>4 DEF IInv, TypeInv
  <2> QED BY <1>1, <2>1, <2>4, <2>5, QuietInv
<1> QED BY <1>2, <1>3

LEMMA PostOtherInv ==
  ASSUME IInv, PostOther
  PROVE  IInv'
<1>1. PICK o \in Others : req' = Append(req, Request(o[1], o[2], o[3], 0))
  BY DEF PostOther, Post
<1>2. PICK q : q = Request(o[1], o[2], o[3], 0)
  OBVIOUS
<1>3. q \in Reqs /\ q.pc = "posted" /\ q.at = 0 /\ q.send = 0
  <2>1. o[1] \in Ops /\ o[2] \in {<<>>, <<Foreign>>, <<Enter>>} /\ o[3] \in {1, 2}
    BY PromptAssumption
  <2>2. <<Foreign>> \in Seq(Nat) /\ <<Enter>> \in Seq(Nat) /\ <<>> \in Seq(Nat)
    <3>1. Foreign \in Nat /\ Enter \in Nat
      BY PromptAssumption DEF Foreign, Enter
    <3> QED BY <3>1
  <2> QED BY <1>2, <2>1, <2>2 DEF Request, Reqs
<1>4. UNCHANGED <<server, pty, client>>
  BY DEF PostOther
<1>5. UNCHANGED <<born, pty>>
  BY <1>4 DEF server
<1>6. /\ ReqsInv' /\ PtyInv' /\ req' \in Seq(Reqs)
      /\ \A s \in 1 .. Len(req) : req'[s] = req[s]
      /\ Len(req) \in Nat /\ Len(req') = Len(req) + 1
  BY <1>1, <1>2, <1>3, <1>5, PostedInv
<1>7. TypeInv'
  BY <1>4, <1>6 DEF IInv, TypeInv, server, client
<1>8. CompsInv'
  <2> SUFFICES ASSUME NEW c \in Composers PROVE CompInv(c)'
    BY DEF CompsInv
  <2>1. CompInv(c) /\ comp' = comp
    BY <1>4 DEF IInv, CompsInv, client
  <2> QED BY <1>6, <2>1 DEF CompInv
<1> QED BY <1>6, <1>7, <1>8 DEF IInv

(* A composer posts a text, or the Enter of a text that was acknowledged.  *)
LEMMA PromptInv ==
  ASSUME IInv, NEW c \in Composers, Send(c) \/ TextAcked(c)
  PROVE  IInv'
<1>1. /\ Len(req) \in Nat /\ comp[c] \in [pc : {"idle", "text", "submit"}, send : Nat, awaits : Nat]
      /\ text[c] \in Seq(Words)
  BY DEF IInv, TypeInv
<1>2. UNCHANGED <<born, table, pty, typed, text, stored>>
  BY DEF Send, TextAcked, server
<1>3. PICK q \in Reqs, d \in [pc : {"idle", "text", "submit"}, send : Nat, awaits : Nat] :
        /\ req' = Append(req, q) /\ comp' = [comp EXCEPT ![c] = d]
        /\ q.pc = "posted" /\ q.at = 0
        /\ \/ /\ q.op = "text" /\ q.send = Len(req) + 1 /\ Enter \notin ToSet(q.body)
              /\ d.send = Len(req) + 1 /\ d.awaits = Len(req) + 1
           \/ /\ q.op = "submit" /\ q.send \in 1 .. Len(req) /\ d.pc = "submit"
              /\ req[q.send].op = "text" /\ req[q.send].pc = "ok" /\ req[q.send].send = q.send
  <2>1. CASE Send(c)
    <3> DEFINE s == Len(req) + 1
               q == Request("text", text[c], 1, s)
               d == [pc |-> "text", send |-> s, awaits |-> s]
    <3>1. req' = Append(req, q) /\ comp' = [comp EXCEPT ![c] = d]
      BY <2>1 DEF Send, Post
    <3>2. /\ q \in Reqs /\ q.pc = "posted" /\ q.at = 0 /\ q.op = "text"
          /\ q.send = s /\ q.body = text[c]
      BY <1>1 DEF Request, Reqs, Ops, Words
    <3>3. Enter \notin ToSet(q.body)
      <4> SUFFICES ASSUME NEW n \in DOMAIN text[c], text[c][n] = Enter PROVE FALSE
        BY <3>2 DEF ToSet
      <4> QED BY <1>1 DEF Words, Enter
    <3>4. d \in [pc : {"idle", "text", "submit"}, send : Nat, awaits : Nat] /\ d.send = s /\ d.awaits = s
      BY <1>1
    <3> HIDE DEF q, d
    <3> QED BY <3>1, <3>2, <3>3, <3>4
  <2>2. CASE TextAcked(c)
    <3> DEFINE s == comp[c].send
               q == Request("submit", <<>>, 1, s)
               d == [comp[c] EXCEPT !.pc = "submit", !.awaits = Len(req')]
    <3>1. req' = Append(req, q) /\ comp' = [comp EXCEPT ![c] = d]
      BY <2>2 DEF TextAcked, Post, IInv, TypeInv
    <3>2. comp[c].pc = "text" /\ req[comp[c].awaits].pc = "ok" /\ CompInv(c)
      BY <2>2 DEF TextAcked, Answered, IInv, CompsInv
    <3>3. s \in 1 .. Len(req) /\ req[s].op = "text" /\ req[s].pc = "ok" /\ req[s].send = s
      BY <3>2 DEF CompInv
    <3>4. q \in Reqs /\ q.pc = "posted" /\ q.at = 0 /\ q.op = "submit" /\ q.send = s
      BY <1>1 DEF Request, Reqs, Ops
    <3>5. Len(req') \in Nat
      BY <1>1, <3>1, <3>4, AppendFacts DEF IInv, TypeInv
    <3>6. d \in [pc : {"idle", "text", "submit"}, send : Nat, awaits : Nat] /\ d.pc = "submit"
      BY <1>1, <3>5
    <3> HIDE DEF q, d
    <3> QED BY <3>1, <3>3, <3>4, <3>6
  <2> QED BY <2>1, <2>2
<1>4. /\ ReqsInv' /\ PtyInv' /\ req' \in Seq(Reqs)
      /\ Len(req') = Len(req) + 1 /\ req'[Len(req) + 1] = q
      /\ \A s \in 1 .. Len(req) : req'[s] = req[s]
  BY <1>1, <1>2, <1>3, PostedInv
<1>5. TypeInv'
  BY <1>2, <1>3, <1>4 DEF IInv, TypeInv
<1>6. ASSUME NEW e \in Composers PROVE CompInv(e)'
  <2>1. CASE e = c
    <3>1. comp'[e] = d
      BY <1>3, <2>1 DEF IInv, TypeInv
    <3> QED BY <1>1, <1>3, <1>4, <3>1 DEF CompInv
  <2>2. CASE e # c
    <3>1. comp'[e] = comp[e] /\ CompInv(e)
      BY <1>3, <2>2 DEF IInv, TypeInv, CompsInv
    <3> QED BY <1>1, <1>4, <3>1 DEF CompInv
  <2> QED BY <2>1, <2>2
<1> QED BY <1>4, <1>5, <1>6 DEF IInv, CompsInv

----------------------------------------------------------------------------
LEMMA NextIInv == IInv /\ [Next]_vars => IInv'
<1> SUFFICES ASSUME IInv, [Next]_vars PROVE IInv'
  OBVIOUS
<1>1. ASSUME NEW r \in Requests, Serve(r) PROVE IInv'
  <2>1. r \in 1 .. Len(req)
    BY <1>1 DEF Serve, IInv, TypeInv
  <2> QED BY <1>1, <2>1, LookupInv, WriteBytesInv, WriteFailsInv, WakeInv DEF Serve
<1>2. ASSUME NEW c \in Composers,
             Answer(c) \/ Type(c) \/ Send(c) \/ TimesOut(c) \/ Reload(c)
      PROVE  IInv'
  BY <1>2, PromptInv, ComposerInv DEF Answer
<1>3. CASE Delete \/ Create \/ \E i \in Instances : ChildEnds(i) \/ ReportExit(i)
  BY <1>3, SessionInv
<1>4. CASE PostOther
  BY <1>4, PostOtherInv
<1>5. CASE UNCHANGED vars
  <2>1. UNCHANGED <<req, pty, born, table, typed, text, stored, comp>>
    BY <1>5 DEF vars, server, client
  <2>2. TypeInv' /\ born \in Nat
    BY <2>1, PromptAssumption DEF IInv, TypeInv, Instances
  <2> QED BY <2>1, <2>2, QuietInv
<1> QED BY <1>1, <1>2, <1>3, <1>4, <1>5 DEF Next

(* The Enter of a send is written after its text, whoever else writes,     *)
(* whatever fails, and whether the session is deleted and created again in *)
(* between: what write_session_bytes, the write handlers and               *)
(* sendTerminalPrompt make of it together.                                 *)
THEOREM TextFirst == Spec => []TextBeforeSubmit
<1>1. IInv => TextBeforeSubmit
  <2> SUFFICES ASSUME IInv PROVE TextBeforeSubmit
    OBVIOUS
  <2> SUFFICES ASSUME NEW i \in Instances, NEW n \in DOMAIN pty[i]
               PROVE  pty[i][n][2] = Enter /\ pty[i][n][1] # 0 =>
                        \A w \in ToSet(req[pty[i][n][1]].body) :
                          \E j \in 1 .. i : \E k \in DOMAIN pty[j] :
                            pty[j][k] = <<pty[i][n][1], w>> /\ (j = i => k < n)
    BY DEF TextBeforeSubmit
  <2> HAVE pty[i][n][2] = Enter /\ pty[i][n][1] # 0
  <2> TAKE w \in ToSet(req[pty[i][n][1]].body)
  <2>1. \A j \in Instances : pty[j] \in Seq(Nat \X Nat)
    BY DEF IInv, TypeInv
  <2>2. n \in 1 .. Len(pty[i])
    BY <2>1
  <2>3. KeyInv(i, n)
    BY <2>2 DEF IInv, PtyInv
  <2>4. PICK j \in 1 .. i : \E k \in 1 .. Len(pty[j]) :
               pty[j][k] = <<pty[i][n][1], w>> /\ (j = i => k < n)
    BY <2>3 DEF KeyInv
  <2>5. j \in Instances
    BY PromptAssumption DEF Instances
  <2>6. DOMAIN pty[j] = 1 .. Len(pty[j])
    BY <2>1, <2>5
  <2> QED BY <2>4, <2>6
<1> QED BY <1>1, InitIInv, NextIInv, PTL DEF Spec

(* What a step does to the requests: it posts one, or moves one that is    *)
(* not finished on.                                                        *)
LEMMA RequestsMove ==
  ASSUME IInv, IInv', [Next]_vars
  PROVE  /\ Len(req) \in Nat /\ Len(req') \in Nat /\ Len(req) <= Len(req')
         /\ \A s \in 1 .. Len(req) :
              /\ req'[s].body = req[s].body
              /\ req[s].pc = "ok" => req'[s] = req[s]
<1>1. Len(req) \in Nat /\ req \in Seq(Reqs)
  BY DEF IInv, TypeInv
<1>2. ASSUME NEW r \in 1 .. Len(req), NEW q, req' = [req EXCEPT ![r] = q],
             q.body = req[r].body, req[r].pc # "ok"
      PROVE  /\ Len(req') = Len(req)
             /\ \A s \in 1 .. Len(req) :
                  req'[s].body = req[s].body /\ (req[s].pc = "ok" => req'[s] = req[s])
  BY <1>1, <1>2
<1>3. ASSUME NEW r \in Requests, Serve(r)
      PROVE  /\ Len(req') = Len(req)
             /\ \A s \in 1 .. Len(req) :
                  req'[s].body = req[s].body /\ (req[s].pc = "ok" => req'[s] = req[s])
  <2>1. r \in 1 .. Len(req) /\ req[r] \in Reqs
    BY <1>1, <1>3 DEF Serve
  <2>2. CASE Lookup(r)
    <3> DEFINE q == [req[r] EXCEPT !.at = table, !.pc = IF table = 0 THEN "error" ELSE "found"]
    <3>1. q.body = req[r].body
      BY <2>1 DEF Reqs
    <3>2. req' = [req EXCEPT ![r] = q] /\ req[r].pc # "ok"
      BY <1>1, <2>1, <2>2 DEF Lookup, Reqs
    <3> HIDE DEF q
    <3> QED BY <1>2, <2>1, <3>1, <3>2
  <2>3. CASE WriteBytes(r)
    <3> DEFINE q == Written(req[r])
    <3>1. q.body = req[r].body
      BY <2>1 DEF Written, Reqs
    <3>2. req' = [req EXCEPT ![r] = q] /\ req[r].pc # "ok"
      BY <2>3 DEF WriteBytes
    <3> HIDE DEF q
    <3> QED BY <1>2, <2>1, <3>1, <3>2
  <2>4. CASE WriteFails(r)
    <3> DEFINE q == [req[r] EXCEPT !.pc = "error"]
    <3>1. q.body = req[r].body
      BY <2>1 DEF Reqs
    <3>2. req' = [req EXCEPT ![r] = q] /\ req[r].pc # "ok"
      BY <2>4 DEF WriteFails
    <3> HIDE DEF q
    <3> QED BY <1>2, <2>1, <3>1, <3>2
  <2>5. CASE Wake(r)
    <3> DEFINE q == IF req[r].op = "text" \/ req[r].gone THEN [req[r] EXCEPT !.pc = "ok"]
                    ELSE [req[r] EXCEPT !.op = "submit", !.pc = "posted"]
    <3>1. q.body = req[r].body
      BY <2>1 DEF Reqs
    <3>2. req' = [req EXCEPT ![r] = q] /\ req[r].pc # "ok"
      BY <2>5 DEF Wake
    <3> HIDE DEF q
    <3> QED BY <1>2, <2>1, <3>1, <3>2
  <2> QED BY <1>3, <2>2, <2>3, <2>4, <2>5 DEF Serve
<1>4. ASSUME NEW q, Post(q)
      PROVE  Len(req') = Len(req) + 1 /\ \A s \in 1 .. Len(req) : req'[s] = req[s]
  BY <1>1, <1>4 DEF Post
<1>5. ASSUME NEW c \in Composers, Send(c) \/ TextAcked(c)
      PROVE  Len(req') = Len(req) + 1 /\ \A s \in 1 .. Len(req) : req'[s] = req[s]
  BY <1>4, <1>5 DEF Send, TextAcked
<1>6. CASE PostOther
  BY <1>1, <1>4, <1>6 DEF PostOther
<1>7. CASE UNCHANGED req
  BY <1>1, <1>7
<1>8. ASSUME NEW c \in Composers, Answer(c) \/ Type(c) \/ Send(c) \/ TimesOut(c) \/ Reload(c)
      PROVE  UNCHANGED req \/ Send(c) \/ TextAcked(c)
  BY <1>8 DEF Answer, SubmitAcked, Failed, Type, TimesOut, Reload
<1>9. CASE Delete \/ Create \/ \E i \in Instances : ChildEnds(i) \/ ReportExit(i)
  BY <1>7, <1>9 DEF Delete, Create, ChildEnds, ReportExit
<1>10. CASE UNCHANGED vars
  BY <1>7, <1>10 DEF vars
<1>11. CASE \E c \in Composers : Answer(c) \/ Type(c) \/ Send(c) \/ TimesOut(c) \/ Reload(c)
  BY <1>1, <1>5, <1>7, <1>8, <1>11
<1>12. CASE \E r \in Requests : Serve(r)
  BY <1>1, <1>3, <1>12
<1> QED BY <1>6, <1>9, <1>10, <1>11, <1>12 DEF Next

----------------------------------------------------------------------------
(* NOTHING TYPED IS LOST, with one composer and no typing during a send.   *)

(* The composer shows its draft, and what it sends is what it shows.       *)
DraftInv ==
  \A c \in Composers :
    /\ text[c] = stored
    /\ comp[c].pc # "idle" =>
         comp[c].send \in 1 .. Len(req) /\ req[comp[c].send].body = text[c]
    /\ comp[c].pc = "submit" => req[comp[c].send].pc = "ok"

(* Every word is in the draft or in a request that was served.             *)
KeptInv ==
  \A w \in 1 .. typed :
    \/ w \in ToSet(stored)
    \/ \E r \in 1 .. Len(req) : w \in ToSet(req[r].body) /\ req[r].pc = "ok"

LEMMA InitDraft == Init => DraftInv /\ KeptInv
  BY DEF Init, DraftInv, KeptInv, Idle

(* What was kept in a request stays kept.                                  *)
LEMMA KeptStays ==
  ASSUME IInv, IInv', [Next]_vars, KeptInv, typed' = typed,
         \A w \in ToSet(stored) :
           w \in ToSet(stored') \/ \E r \in 1 .. Len(req) :
                                     w \in ToSet(req[r].body) /\ req[r].pc = "ok"
  PROVE  KeptInv'
<1> SUFFICES ASSUME NEW w \in 1 .. typed, w \notin ToSet(stored')
             PROVE  \E r \in 1 .. Len(req') : w \in ToSet(req'[r].body) /\ req'[r].pc = "ok"
  BY DEF KeptInv
<1>1. PICK r \in 1 .. Len(req) : w \in ToSet(req[r].body) /\ req[r].pc = "ok"
  BY DEF KeptInv
<1> QED BY <1>1, RequestsMove

(* A step that touches no composer keeps what they know of their sends.    *)
LEMMA DraftStays ==
  ASSUME IInv, IInv', [Next]_vars, DraftInv, UNCHANGED <<text, stored, comp>>
  PROVE  DraftInv'
<1> SUFFICES ASSUME NEW c \in Composers
             PROVE  /\ comp[c].pc # "idle" =>
                         /\ comp[c].send \in 1 .. Len(req')
                         /\ req'[comp[c].send].body = text[c]
                    /\ comp[c].pc = "submit" => req'[comp[c].send].pc = "ok"
  BY DEF DraftInv
<1>1. comp[c].pc \in {"idle", "text", "submit"}
  BY DEF IInv, TypeInv
<1>2. ASSUME comp[c].pc # "idle"
      PROVE  /\ comp[c].send \in 1 .. Len(req')
             /\ req'[comp[c].send].body = text[c]
             /\ comp[c].pc = "submit" => req'[comp[c].send].pc = "ok"
  <2>1. comp[c].send \in 1 .. Len(req) /\ req[comp[c].send].body = text[c]
    BY <1>2 DEF DraftInv
  <2> QED BY <1>2, <2>1, RequestsMove DEF DraftInv
<1> QED BY <1>1, <1>2

(* The step of a composer that becomes idle and either keeps text and      *)
(* draft, reads the draft again, or empties both.                          *)
LEMMA DraftRests ==
  ASSUME IInv, DraftInv, \A c, d \in Composers : c = d, NEW c \in Composers,
         comp' = [comp EXCEPT ![c] = Idle], text'[c] = stored'
  PROVE  DraftInv'
<1>1. comp'[c] = Idle /\ \A d \in Composers : d = c
  BY DEF IInv, TypeInv
<1> QED BY <1>1 DEF DraftInv, Idle

LEMMA NextDraft ==
  ASSUME \A c, d \in Composers : c = d, "typeahead" \notin Hazards
  PROVE  IInv /\ IInv' /\ DraftInv /\ KeptInv /\ [Next]_vars => DraftInv' /\ KeptInv'
<1> SUFFICES ASSUME IInv, IInv', DraftInv, KeptInv, [Next]_vars PROVE DraftInv' /\ KeptInv'
  OBVIOUS
<1>0. /\ \A c \in Composers : text[c] \in Seq(Words) /\ text'[c] \in Seq(Words)
      /\ stored \in Seq(Words) /\ typed \in Nat /\ req \in Seq(Reqs) /\ Len(req) \in Nat
      /\ comp \in [Composers -> [pc : {"idle", "text", "submit"}, send : Nat, awaits : Nat]]
      /\ text \in [Composers -> Seq(Words)]
  BY DEF IInv, TypeInv
<1>1. CASE UNCHANGED <<typed, text, stored, comp>>
  <2>1. DraftInv'
    BY <1>1, DraftStays
  <2>2. KeptInv'
    BY <1>1, KeptStays
  <2> QED BY <2>1, <2>2
<1>2. ASSUME NEW c \in Composers, Type(c) PROVE DraftInv' /\ KeptInv'
  <2>1. /\ typed' = typed + 1 /\ comp[c].pc = "idle" /\ UNCHANGED <<req, comp>>
        /\ text'[c] = Append(text[c], typed') /\ stored' = text'[c]
    BY <1>0, <1>2 DEF Type
  <2>2. \A d \in Composers : d = c
    OBVIOUS
  <2>3. DraftInv'
    BY <2>1, <2>2 DEF DraftInv
  <2>4. \A w : w \in ToSet(stored) \/ w = typed' => w \in ToSet(stored')
    <3>1. stored = text[c]
      BY DEF DraftInv
    <3>2. stored' = Append(stored, typed')
      BY <2>1, <3>1
    <3>3. /\ \A n \in DOMAIN stored : n \in DOMAIN stored' /\ stored'[n] = stored[n]
          /\ Len(stored) + 1 \in DOMAIN stored' /\ stored'[Len(stored) + 1] = typed'
      BY <1>0, <2>1, <3>2
    <3> QED BY <3>3 DEF ToSet
  <2>5. KeptInv'
    <3> SUFFICES ASSUME NEW w \in 1 .. typed'
                 PROVE  \/ w \in ToSet(stored')
                        \/ \E r \in 1 .. Len(req) : w \in ToSet(req[r].body) /\ req[r].pc = "ok"
      BY <2>1 DEF KeptInv
    <3>1. w \in 1 .. typed \/ w = typed'
      BY <1>0, <2>1
    <3> QED BY <2>4, <3>1 DEF KeptInv
  <2> QED BY <2>3, <2>5
<1>3. ASSUME NEW c \in Composers, Send(c) PROVE DraftInv' /\ KeptInv'
  <2> DEFINE s == Len(req) + 1
  <2>1. /\ req' = Append(req, Request("text", text[c], 1, s))
        /\ comp'[c] = [pc |-> "text", send |-> s, awaits |-> s]
        /\ UNCHANGED <<typed, text, stored>>
    BY <1>0, <1>3 DEF Send, Post
  <2>2. s \in 1 .. Len(req') /\ req'[s].body = text[c]
    BY <1>0, <2>1 DEF Request
  <2>3. \A d \in Composers : d = c
    OBVIOUS
  <2>4. DraftInv'
    BY <2>1, <2>2, <2>3 DEF DraftInv
  <2>5. KeptInv'
    BY <2>1, KeptStays
  <2> QED BY <2>4, <2>5
<1>4. ASSUME NEW c \in Composers, TextAcked(c) PROVE DraftInv' /\ KeptInv'
  <2>1. /\ comp[c].pc = "text" /\ req[comp[c].awaits].pc = "ok"
        /\ comp'[c].pc = "submit" /\ comp'[c].send = comp[c].send
        /\ UNCHANGED <<typed, text, stored>>
    BY <1>0, <1>4 DEF TextAcked, Answered
  <2>2. comp[c].send \in 1 .. Len(req) /\ req[comp[c].send].pc = "ok"
        /\ req[comp[c].send].body = text[c]
    BY <2>1 DEF IInv, CompsInv, CompInv, DraftInv
  <2>3. \A d \in Composers : d = c
    OBVIOUS
  <2>4. comp[c].send \in 1 .. Len(req') /\ req'[comp[c].send] = req[comp[c].send]
    BY <2>2, RequestsMove
  <2>5. DraftInv'
    BY <2>1, <2>2, <2>3, <2>4 DEF DraftInv
  <2>6. KeptInv'
    BY <2>1, KeptStays
  <2> QED BY <2>5, <2>6
<1>5. ASSUME NEW c \in Composers, SubmitAcked(c) PROVE DraftInv' /\ KeptInv'
  <2>1. /\ comp[c].pc = "submit" /\ comp' = [comp EXCEPT ![c] = Idle]
        /\ text'[c] = <<>> /\ stored' = <<>> /\ typed' = typed
    BY <1>0, <1>5 DEF SubmitAcked, Answered
  <2>2. /\ stored = text[c] /\ comp[c].send \in 1 .. Len(req)
        /\ req[comp[c].send].body = text[c] /\ req[comp[c].send].pc = "ok"
    BY <2>1 DEF DraftInv
  <2>3. DraftInv'
    BY <2>1, DraftRests
  <2>4. KeptInv'
    BY <2>1, <2>2, KeptStays
  <2> QED BY <2>3, <2>4
<1>6. ASSUME NEW c \in Composers, Failed(c) \/ TimesOut(c) \/ Reload(c)
      PROVE  DraftInv' /\ KeptInv'
  <2>1. /\ comp' = [comp EXCEPT ![c] = Idle] /\ UNCHANGED <<typed, stored>>
        /\ text'[c] = text[c] \/ text'[c] = stored
    BY <1>0, <1>6 DEF Failed, TimesOut, Reload
  <2>2. text'[c] = stored'
    BY <2>1 DEF DraftInv
  <2>3. DraftInv'
    BY <2>1, <2>2, DraftRests
  <2>4. KeptInv'
    BY <2>1, KeptStays
  <2> QED BY <2>3, <2>4
<1>7. ASSUME NEW r \in Requests, Serve(r) PROVE UNCHANGED <<typed, text, stored, comp>>
  BY <1>7 DEF Serve, Lookup, WriteBytes, WriteFails, Wake, client
<1>8. CASE Delete \/ Create \/ PostOther \/ \E i \in Instances : ChildEnds(i) \/ ReportExit(i)
  BY <1>1, <1>8 DEF Delete, Create, ChildEnds, ReportExit, PostOther, client
<1>9. CASE UNCHANGED vars
  BY <1>1, <1>9 DEF vars, client
<1> QED BY <1>1, <1>2, <1>3, <1>4, <1>5, <1>6, <1>7, <1>8, <1>9 DEF Next, Answer

(* What is typed into the one composer of a session is in the composer, in *)
(* its draft or in a request that has not failed, whoever else writes,     *)
(* whatever is answered late or never, and however often the page is       *)
(* loaded again, unless there is typing during a send.                     *)
THEOREM NoWordLost ==
  ASSUME \A c, d \in Composers : c = d, "typeahead" \notin Hazards
  PROVE  Spec => []TypedNotLost
<1>1. IInv /\ KeptInv => TypedNotLost
  <2> SUFFICES ASSUME IInv, KeptInv, NEW w \in 1 .. typed, w \notin ToSet(stored)
               PROVE  \E r \in DOMAIN req : w \in ToSet(req[r].body) /\ req[r].pc # "error"
    BY DEF TypedNotLost
  <2>1. DOMAIN req = 1 .. Len(req)
    BY DEF IInv, TypeInv
  <2> QED BY <2>1 DEF KeptInv
<1>2. IInv /\ IInv' /\ DraftInv /\ KeptInv /\ [Next]_vars => DraftInv' /\ KeptInv'
  BY NextDraft
<1> QED BY <1>1, <1>2, InitDraft, InitIInv, NextIInv, PTL DEF Spec

----------------------------------------------------------------------------
(* THE STEPS, in the terms the proofs below need.                          *)

Replaces(r, q) ==
  /\ r \in 1 .. Len(req) /\ q \in Reqs /\ req' \in Seq(Reqs)
  /\ Len(req) \in Nat /\ Len(req') = Len(req) /\ req'[r] = q
  /\ \A s \in 1 .. Len(req) : s # r => req'[s] = req[s]
  /\ q.body = req[r].body /\ q.send = req[r].send

Posts(q) ==
  /\ q \in Reqs /\ req' \in Seq(Reqs)
  /\ Len(req) \in Nat /\ Len(req') = Len(req) + 1 /\ req'[Len(req) + 1] = q
  /\ \A s \in 1 .. Len(req) : req'[s] = req[s]

Writes(i, t) ==
  /\ i \in Instances /\ t \in Seq(Nat \X Nat)
  /\ Len(pty[i]) \in Nat /\ Len(t) \in Nat /\ Len(pty'[i]) = Len(pty[i]) + Len(t)
  /\ \A n \in 1 .. Len(pty[i]) : pty'[i][n] = pty[i][n]
  /\ \A n \in 1 .. Len(t) : pty'[i][Len(pty[i]) + n] = t[n]
  /\ \A j \in Instances : j # i => pty'[j] = pty[j]

LEMMA ReplacesIs ==
  ASSUME IInv, NEW r \in 1 .. Len(req), NEW q \in Reqs, req' = [req EXCEPT ![r] = q],
         q.body = req[r].body, q.send = req[r].send
  PROVE  Replaces(r, q)
<1>1. req \in Seq(Reqs) /\ Len(req) \in Nat
  BY DEF IInv, TypeInv
<1>2. /\ req' \in Seq(Reqs) /\ Len(req') = Len(req) /\ req'[r] = q
      /\ \A s \in 1 .. Len(req) : s # r => req'[s] = req[s]
  BY <1>1, ReplaceFacts
<1> QED BY <1>1, <1>2 DEF Replaces

LEMMA PostsIs ==
  ASSUME IInv, NEW q \in Reqs, Post(q)
  PROVE  Posts(q)
<1>1. req \in Seq(Reqs) /\ req' = Append(req, q)
  BY DEF IInv, TypeInv, Post
<1> QED BY <1>1, AppendFacts DEF Posts

LEMMA LookupIs ==
  ASSUME IInv, NEW r \in 1 .. Len(req), Lookup(r)
  PROVE  /\ req[r].pc = "posted" /\ UNCHANGED <<server, pty, client>>
         /\ \E q \in Reqs :
              /\ Replaces(r, q) /\ q.op = req[r].op /\ q.times = req[r].times
              /\ q.at = table /\ q.pc = (IF table = 0 THEN "error" ELSE "found")
<1> DEFINE q == [req[r] EXCEPT !.at = table, !.pc = IF table = 0 THEN "error" ELSE "found"]
<1>1. req[r] \in Reqs /\ table \in Nat
  BY ReqType DEF IInv, TypeInv
<1>2. /\ q \in Reqs /\ q.body = req[r].body /\ q.send = req[r].send /\ q.op = req[r].op
      /\ q.times = req[r].times
      /\ q.at = table /\ q.pc = IF table = 0 THEN "error" ELSE "found"
  BY <1>1 DEF Reqs
<1>3. req' = [req EXCEPT ![r] = q] /\ req[r].pc = "posted" /\ UNCHANGED <<server, pty, client>>
  <2>1. /\ req[r].pc = "posted" /\ UNCHANGED <<server, pty, client>>
        /\ req' = [req EXCEPT ![r].at = table, ![r].pc = IF table = 0 THEN "error" ELSE "found"]
    BY DEF Lookup
  <2>2. r \in DOMAIN req /\ req \in Seq(Reqs)
    BY DEF IInv, TypeInv
  <2>3. [req EXCEPT ![r].at = table, ![r].pc = IF table = 0 THEN "error" ELSE "found"]
          = [req EXCEPT ![r] = q]
    BY <1>1, <2>2 DEF Reqs
  <2> QED BY <2>1, <2>3
<1> HIDE DEF q
<1>4. Replaces(r, q)
  BY <1>2, <1>3, ReplacesIs
<1> QED BY <1>2, <1>3, <1>4

LEMMA WriteIs ==
  ASSUME IInv, NEW r \in 1 .. Len(req), WriteBytes(r)
  PROVE  /\ req[r].pc = "found" /\ UNCHANGED <<server, client>>
         /\ Keys(r) \in Seq(Nat)
         /\ \E q \in Reqs :
              /\ Replaces(r, q) /\ q.op = req[r].op /\ q.at = req[r].at
              /\ req[r].op = "text" => q.pc = "sleep" /\ q.times = req[r].times
              /\ req[r].op = "submit" /\ req[r].times = 1 => q.pc = "ok" /\ q.times = 1
              /\ q.pc \in {"ok", "posted", "sleep"}
         /\ \E t \in Seq(Nat \X Nat) :
              /\ Writes(req[r].at, t) /\ Len(t) = Len(Keys(r))
              /\ \A n \in 1 .. Len(Keys(r)) : t[n] = <<req[r].send, Keys(r)[n]>>
<1>1. req[r] \in Reqs /\ ReqInv(r) /\ born \in Nat /\ TypeInv
  BY ReqType DEF IInv
<1>2. PICK i \in Nat, s \in Nat : i = req[r].at /\ s = req[r].send
  BY <1>1 DEF Reqs
<1>3. PICK keys : keys = Keys(r)
  OBVIOUS
<1>4. /\ req[r].pc = "found" /\ UNCHANGED <<server, client>>
      /\ pty' = [pty EXCEPT ![i] = @ \o [n \in DOMAIN keys |-> <<s, keys[n]>>]]
      /\ req' = [req EXCEPT ![r] = Written(req[r])]
  BY <1>2, <1>3 DEF WriteBytes
<1>5. i \in Instances
  <2>1. i \in 0 .. born /\ i # 0
    BY <1>1, <1>2, <1>4 DEF ReqInv
  <2>2. born \in 1 .. NInstances /\ NInstances \in Nat
    BY <1>1, PromptAssumption DEF TypeInv, Instances
  <2> QED BY <2>1, <2>2 DEF Instances
<1>6. keys \in Seq(Nat) /\ Len(keys) \in Nat /\ DOMAIN keys = 1 .. Len(keys)
  <2>1. req[r].body \in Seq(Nat) /\ <<Enter>> \in Seq(Nat)
    <3>1. Enter \in Nat
      BY DEF Enter
    <3> QED BY <1>1, <3>1 DEF Reqs
  <2>2. keys \in Seq(Nat)
    BY <1>3, <2>1 DEF Keys
  <2> QED BY <2>2
<1>7. PICK t : t = [n \in DOMAIN keys |-> <<s, keys[n]>>]
  OBVIOUS
<1>8. /\ t \in Seq(Nat \X Nat) /\ Len(t) = Len(keys)
      /\ \A n \in 1 .. Len(keys) : t[n] = <<s, keys[n]>>
  BY <1>2, <1>6, <1>7
<1>9. Writes(i, t)
  <2>1. pty' = [pty EXCEPT ![i] = @ \o t]
    BY <1>4, <1>7
  <2>2. /\ Grows /\ pty[i] \in Seq(Nat \X Nat) /\ Len(pty[i]) \in Nat
        /\ Len(pty'[i]) = Len(pty[i]) + Len(t)
        /\ \A n \in 1 .. Len(t) : pty'[i][Len(pty[i]) + n] = t[n]
        /\ \A j \in Instances : j # i => pty'[j] = pty[j]
    BY <1>1, <1>5, <1>8, <2>1, PtyAppended
  <2>3. \A n \in 1 .. Len(pty[i]) : pty'[i][n] = pty[i][n]
    BY <1>5, <2>2 DEF Grows
  <2> QED BY <1>5, <1>6, <1>8, <2>2, <2>3 DEF Writes
<1>10. PICK q : q = Written(req[r])
  OBVIOUS
<1>11. /\ q \in Reqs /\ q.body = req[r].body /\ q.send = req[r].send /\ q.op = req[r].op
       /\ q.at = req[r].at
       /\ req[r].op = "text" => q.pc = "sleep" /\ q.times = req[r].times
       /\ req[r].op = "submit" /\ req[r].times = 1 => q.pc = "ok" /\ q.times = 1
       /\ q.pc \in {"ok", "posted", "sleep"}
  <2>1. (req[r].at \in exited) \in BOOLEAN
    OBVIOUS
  <2>2. PICK b \in BOOLEAN : b = (req[r].at \in exited)
    BY <2>1
  <2>3. CASE req[r].op = "key"
    <3>1. q = [req[r] EXCEPT !.pc = "ok"]
      BY <1>10, <2>3 DEF Written
    <3> QED BY <1>1, <2>3, <3>1 DEF Reqs
  <2>4. CASE req[r].op = "submit" /\ req[r].times = 1
    <3>1. q = [req[r] EXCEPT !.pc = "ok"]
      BY <1>10, <2>4 DEF Written
    <3> QED BY <1>1, <2>4, <3>1 DEF Reqs
  <2>5. CASE req[r].op = "submit" /\ req[r].times = 2
    <3>1. q = [req[r] EXCEPT !.pc = "posted", !.times = 1]
      BY <1>10, <2>5 DEF Written
    <3>2. /\ q.body = req[r].body /\ q.send = req[r].send /\ q.op = req[r].op
          /\ q.at = req[r].at /\ q.pc = "posted" /\ q.times = 1 /\ q.gone = req[r].gone
      BY <1>1, <3>1 DEF Reqs
    <3>3. q \in Reqs
      BY <1>1, <3>1 DEF Reqs
    <3> QED BY <2>5, <3>2, <3>3
  <2>6. CASE req[r].op \in {"text", "write"}
    <3>1. q = [req[r] EXCEPT !.pc = "sleep", !.gone = b]
      BY <1>10, <2>2, <2>6 DEF Written
    <3> QED BY <1>1, <2>2, <2>6, <3>1 DEF Reqs
  <2> QED BY <1>1, <2>3, <2>4, <2>5, <2>6 DEF Reqs, Ops
<1>12. Replaces(r, q)
  BY <1>4, <1>10, <1>11, ReplacesIs
<1> QED BY <1>2, <1>3, <1>4, <1>6, <1>8, <1>9, <1>11, <1>12

LEMMA WriteFailsIs ==
  ASSUME IInv, NEW r \in 1 .. Len(req), WriteFails(r)
  PROVE  /\ req[r].pc = "found" /\ req[r].at \in dead /\ UNCHANGED <<server, pty, client>>
         /\ \E q \in Reqs :
              /\ Replaces(r, q) /\ q.op = req[r].op /\ q.times = req[r].times
              /\ q.at = req[r].at /\ q.pc = "error"
<1> DEFINE q == [req[r] EXCEPT !.pc = "error"]
<1>1. req[r] \in Reqs
  BY ReqType
<1>2. /\ q \in Reqs /\ q.body = req[r].body /\ q.send = req[r].send /\ q.op = req[r].op
      /\ q.times = req[r].times /\ q.at = req[r].at /\ q.pc = "error"
  BY <1>1 DEF Reqs
<1>3. /\ req' = [req EXCEPT ![r] = q] /\ req[r].pc = "found" /\ req[r].at \in dead
      /\ UNCHANGED <<server, pty, client>>
  BY <1>1 DEF WriteFails, Reqs, IInv, TypeInv
<1> HIDE DEF q
<1>4. Replaces(r, q)
  BY <1>2, <1>3, ReplacesIs
<1> QED BY <1>2, <1>3, <1>4

LEMMA WakeIs ==
  ASSUME IInv, NEW r \in 1 .. Len(req), Wake(r)
  PROVE  /\ req[r].pc = "sleep" /\ UNCHANGED <<server, pty, client>>
         /\ \E q \in Reqs :
              /\ Replaces(r, q) /\ q.at = req[r].at /\ q.times = req[r].times
              /\ req[r].op = "text" => q.pc = "ok" /\ q.op = "text"
              /\ q.op = req[r].op \/ q.op = "submit"
              /\ q.pc \in {"ok", "posted"}
<1>1. req[r] \in Reqs /\ req[r].pc = "sleep" /\ UNCHANGED <<server, pty, client>>
  BY ReqType DEF Wake
<1>2. PICK q : /\ req' = [req EXCEPT ![r] = q]
               /\ q = IF req[r].op = "text" \/ req[r].gone THEN [req[r] EXCEPT !.pc = "ok"]
                      ELSE [req[r] EXCEPT !.op = "submit", !.pc = "posted"]
  BY DEF Wake, IInv, TypeInv
<1>3. /\ q \in Reqs /\ q.body = req[r].body /\ q.send = req[r].send /\ q.at = req[r].at
      /\ q.times = req[r].times
      /\ req[r].op = "text" => q.pc = "ok" /\ q.op = "text"
      /\ q.op = req[r].op \/ q.op = "submit"
      /\ q.pc \in {"ok", "posted"}
  BY <1>1, <1>2 DEF Reqs, Ops
<1>4. Replaces(r, q)
  BY <1>2, <1>3, ReplacesIs
<1> QED BY <1>1, <1>3, <1>4

LEMMA SendIs ==
  ASSUME IInv, NEW c \in Composers, Send(c)
  PROVE  /\ comp[c].pc = "idle" /\ text[c] # <<>> /\ Room(2)
         /\ UNCHANGED <<server, pty, typed, text, stored>>
         /\ comp' = [comp EXCEPT ![c] = [pc |-> "text", send |-> Len(req) + 1,
                                         awaits |-> Len(req) + 1]]
         /\ \E q \in Reqs :
              /\ Posts(q) /\ q.op = "text" /\ q.times = 1 /\ q.pc = "posted" /\ q.at = 0
              /\ q.send = Len(req) + 1 /\ q.body = text[c]
<1> DEFINE s == Len(req) + 1
           q == Request("text", text[c], 1, s)
<1>1. Len(req) \in Nat /\ text[c] \in Seq(Words)
  BY DEF IInv, TypeInv
<1>2. /\ q \in Reqs /\ q.pc = "posted" /\ q.at = 0 /\ q.op = "text" /\ q.times = 1
      /\ q.send = s /\ q.body = text[c]
  BY <1>1 DEF Request, Reqs, Ops, Words
<1>3. /\ comp[c].pc = "idle" /\ text[c] # <<>> /\ Room(2) /\ Post(q)
      /\ UNCHANGED <<server, pty, typed, text, stored>>
      /\ comp' = [comp EXCEPT ![c] = [pc |-> "text", send |-> s, awaits |-> s]]
  BY DEF Send
<1> HIDE DEF q
<1>4. Posts(q)
  BY <1>2, <1>3, PostsIs
<1> QED BY <1>2, <1>3, <1>4

LEMMA TextAckedIs ==
  ASSUME IInv, NEW c \in Composers, TextAcked(c)
  PROVE  /\ comp[c].pc = "text" /\ comp[c].awaits = comp[c].send
         /\ comp[c].send \in 1 .. Len(req) /\ req[comp[c].send].pc = "ok"
         /\ req[comp[c].send].op = "text"
         /\ UNCHANGED <<server, pty, typed, text, stored>>
         /\ comp'[c].pc = "submit" /\ comp'[c].send = comp[c].send
         /\ comp'[c].awaits = Len(req) + 1 /\ \A d \in Composers : d # c => comp'[d] = comp[d]
         /\ \E q \in Reqs :
              /\ Posts(q) /\ q.op = "submit" /\ q.times = 1 /\ q.pc = "posted" /\ q.at = 0
              /\ q.send = comp[c].send /\ q.body = <<>>
<1> DEFINE q == Request("submit", <<>>, 1, comp[c].send)
<1>1. /\ Len(req) \in Nat
      /\ comp \in [Composers -> [pc : {"idle", "text", "submit"}, send : Nat, awaits : Nat]]
  BY DEF IInv, TypeInv
<1>2. /\ q \in Reqs /\ q.pc = "posted" /\ q.at = 0 /\ q.op = "submit" /\ q.times = 1
      /\ q.send = comp[c].send /\ q.body = <<>>
  BY <1>1 DEF Request, Reqs, Ops
<1>3. Post(q) /\ UNCHANGED <<server, pty, typed, text, stored>>
  BY DEF TextAcked
<1>4. /\ comp[c].pc = "text" /\ req[comp[c].awaits].pc = "ok"
      /\ comp'[c].pc = "submit" /\ comp'[c].send = comp[c].send
      /\ comp'[c].awaits = Len(req') /\ \A d \in Composers : d # c => comp'[d] = comp[d]
  BY <1>1 DEF TextAcked, Answered
<1>5. /\ comp[c].awaits = comp[c].send /\ comp[c].send \in 1 .. Len(req)
      /\ req[comp[c].send].op = "text"
  BY <1>4 DEF IInv, CompsInv, CompInv
<1> HIDE DEF q
<1>6. Posts(q)
  BY <1>2, <1>3, PostsIs
<1>7. Len(req') = Len(req) + 1
  BY <1>6 DEF Posts
<1> QED BY <1>2, <1>3, <1>4, <1>5, <1>6, <1>7

----------------------------------------------------------------------------
(* EVERY STATE IS WELL TYPED, and the bounds hold.                         *)

ServerRange == exited \subseteq 1 .. born /\ reported \subseteq dead /\ dead \subseteq 1 .. born

DraftRange ==
  /\ typed \in 0 .. MaxWords /\ ToSet(stored) \subseteq 1 .. typed
  /\ \A c \in Composers : ToSet(text[c]) \subseteq 1 .. typed

KeyRange == \A i \in Instances : \A n \in 1 .. Len(pty[i]) : pty[i][n][2] \in 0 .. Foreign

ReqRange ==
  \A r \in 1 .. Len(req) :
    /\ ToSet(req[r].body) \subseteq 0 .. Foreign /\ req[r].send \in 0 .. r
    /\ req[r].pc = "sleep" => req[r].at # 0

AwaitInv ==
  \A c \in Composers :
    comp[c].pc = "submit" =>
      comp[c].awaits \in 1 .. Len(req) /\ req[comp[c].awaits].op = "submit"

(* The requests and the Enters that are still to come are within the bound.*)
Waiting == {c \in Composers : comp[c].pc = "text"}

RoomInv == IsFiniteSet(Waiting) /\ Len(req) + Cardinality(Waiting) <= MaxRequests

Ranges == ServerRange /\ DraftRange /\ KeyRange /\ ReqRange /\ AwaitInv /\ RoomInv

LEMMA InitRanges == Init => Ranges
<1> SUFFICES ASSUME Init PROVE Ranges
  OBVIOUS
<1>1. ServerRange /\ KeyRange /\ ReqRange /\ AwaitInv
  BY DEF Init, ServerRange, KeyRange, ReqRange, AwaitInv, Instances, Idle
<1>4. DraftRange
  <2>1. ToSet(<<>>) = {}
    BY DEF ToSet
  <2> QED BY <2>1, PromptAssumption DEF Init, DraftRange
<1>2. Waiting = {}
  BY DEF Init, Waiting, Idle
<1>3. IsFiniteSet({}) /\ Cardinality({}) = 0 /\ Len(req) = 0
  BY FS_EmptySet DEF Init
<1> QED BY <1>1, <1>2, <1>3, <1>4, PromptAssumption DEF Ranges, RoomInv

(* A step of a request: it keeps its body, its send and, if it is a submit,*)
(* its operation.                                                          *)
LEMMA ServeRanges ==
  ASSUME IInv, Ranges, NEW r, NEW q, Replaces(r, q), UNCHANGED <<server, client>>,
         q.op = req[r].op \/ q.op = "submit",
         q.pc = "sleep" => q.at # 0, KeyRange'
  PROVE  Ranges'
<1>1. /\ Len(req') = Len(req) /\ req'[r] = q /\ Len(req) \in Nat
      /\ \A s \in 1 .. Len(req) : s # r => req'[s] = req[s]
      /\ q.body = req[r].body /\ q.send = req[r].send
  BY DEF Replaces
<1>2. ServerRange' /\ DraftRange'
  BY DEF Ranges, ServerRange, DraftRange, server, client
<1>3. ReqRange'
  BY <1>1 DEF Ranges, ReqRange
<1>4. comp' = comp
  BY DEF client
<1>5. AwaitInv'
  BY <1>1, <1>4 DEF Ranges, AwaitInv
<1>6. RoomInv'
  <2>1. Waiting' = Waiting
    BY <1>4 DEF Waiting
  <2> QED BY <1>1, <2>1 DEF Ranges, RoomInv
<1> QED BY <1>2, <1>3, <1>5, <1>6 DEF Ranges

LEMMA ServedRanges ==
  ASSUME IInv, Ranges, NEW r \in Requests, Serve(r)
  PROVE  Ranges'
<1>1. r \in 1 .. Len(req)
  BY DEF Serve, IInv, TypeInv
<1>2. pty' = pty => KeyRange'
  BY DEF Ranges, KeyRange
<1>3. CASE Lookup(r)
  <2>1. PICK q \in Reqs : Replaces(r, q) /\ q.op = req[r].op /\ q.pc \in {"error", "found"}
    BY <1>1, <1>3, LookupIs
  <2>2. UNCHANGED <<server, pty, client>>
    BY <1>1, <1>3, LookupIs
  <2> QED BY <1>2, <2>1, <2>2, ServeRanges
<1>4. CASE WriteFails(r)
  <2>1. PICK q \in Reqs : Replaces(r, q) /\ q.op = req[r].op /\ q.pc = "error"
    BY <1>1, <1>4, WriteFailsIs
  <2>2. UNCHANGED <<server, pty, client>>
    BY <1>1, <1>4, WriteFailsIs
  <2> QED BY <1>2, <2>1, <2>2, ServeRanges
<1>5. CASE Wake(r)
  <2>1. PICK q \in Reqs :
          Replaces(r, q) /\ (q.op = req[r].op \/ q.op = "submit") /\ q.pc \in {"ok", "posted"}
    BY <1>1, <1>5, WakeIs
  <2>2. UNCHANGED <<server, pty, client>>
    BY <1>1, <1>5, WakeIs
  <2> QED BY <1>2, <2>1, <2>2, ServeRanges
<1>6. CASE WriteBytes(r)
  <2>1. PICK q \in Reqs : Replaces(r, q) /\ q.op = req[r].op /\ q.at = req[r].at
    BY <1>1, <1>6, WriteIs
  <2>2. UNCHANGED <<server, client>> /\ req[r].pc = "found" /\ Keys(r) \in Seq(Nat)
    BY <1>1, <1>6, WriteIs
  <2>3. q.at # 0
    BY <1>1, <2>1, <2>2, ReqType DEF ReqInv
  <2>4. PICK t \in Seq(Nat \X Nat) :
          /\ Writes(req[r].at, t) /\ Len(t) = Len(Keys(r))
          /\ \A n \in 1 .. Len(Keys(r)) : t[n] = <<req[r].send, Keys(r)[n]>>
    BY <1>1, <1>6, WriteIs
  <2>5. \A n \in 1 .. Len(Keys(r)) : Keys(r)[n] \in 0 .. Foreign
    <3>1. ToSet(req[r].body) \subseteq 0 .. Foreign /\ req[r] \in Reqs
      BY <1>1, ReqType DEF Ranges, ReqRange
    <3>2. CASE req[r].op = "submit"
      <4>1. 0 \in 0 .. Foreign
        BY PromptAssumption DEF Foreign
      <4> QED BY <3>2, <4>1 DEF Keys, Enter
    <3>3. CASE req[r].op # "submit"
      <4>1. Keys(r) = req[r].body /\ DOMAIN req[r].body = 1 .. Len(req[r].body)
        BY <3>1, <3>3 DEF Keys, Reqs
      <4> QED BY <3>1, <4>1 DEF ToSet
    <3> QED BY <3>2, <3>3
  <2>6. KeyRange'
    <3> SUFFICES ASSUME NEW j \in Instances, NEW n \in 1 .. Len(pty'[j])
                 PROVE  pty'[j][n][2] \in 0 .. Foreign
      BY DEF KeyRange
    <3>1. CASE j # req[r].at
      BY <2>4, <3>1 DEF Writes, Ranges, KeyRange
    <3>2. CASE j = req[r].at
      <4>1. CASE n \in 1 .. Len(pty[j])
        BY <2>4, <3>2, <4>1 DEF Writes, Ranges, KeyRange
      <4>2. CASE n \notin 1 .. Len(pty[j])
        <5>1. PICK k \in 1 .. Len(t) : n = Len(pty[j]) + k
          <6>1. Len(pty[j]) \in Nat /\ Len(t) \in Nat /\ Len(pty'[j]) = Len(pty[j]) + Len(t)
            BY <2>4, <3>2 DEF Writes
          <6>2. n - Len(pty[j]) \in 1 .. Len(t) /\ n = Len(pty[j]) + (n - Len(pty[j]))
            BY <4>2, <6>1
          <6> QED BY <6>2
        <5>2. pty'[j][n] = t[k] /\ t[k] = <<req[r].send, Keys(r)[k]>>
          BY <2>4, <3>2, <5>1 DEF Writes
        <5>3. Keys(r)[k] \in 0 .. Foreign
          BY <2>4, <2>5
        <5> QED BY <5>2, <5>3
      <4> QED BY <4>1, <4>2
    <3> QED BY <3>1, <3>2
  <2> QED BY <2>1, <2>2, <2>3, <2>6, ServeRanges
<1> QED BY <1>3, <1>4, <1>5, <1>6 DEF Serve

(* What a step of the composers does to the ranges when it posts nothing.  *)
LEMMA QuietRanges ==
  ASSUME IInv, Ranges, UNCHANGED <<req, pty>>, ServerRange', DraftRange',
         \A c \in Composers : comp'[c].pc # "idle" => comp'[c] = comp[c]
  PROVE  Ranges'
<1>1. KeyRange' /\ ReqRange'
  BY DEF Ranges, KeyRange, ReqRange
<1>2. AwaitInv'
  BY DEF Ranges, AwaitInv
<1>3. RoomInv'
  <2>1. Waiting' \subseteq Waiting
    BY DEF Waiting
  <2>2. IsFiniteSet(Waiting') /\ Cardinality(Waiting') <= Cardinality(Waiting)
    BY <2>1, FS_Subset DEF Ranges, RoomInv
  <2>3. Cardinality(Waiting) \in Nat /\ Cardinality(Waiting') \in Nat
    BY <2>2, FS_CardinalityType DEF Ranges, RoomInv
  <2>4. Len(req) + Cardinality(Waiting) <= MaxRequests /\ Len(req) \in Nat
    BY DEF Ranges, RoomInv, IInv, TypeInv
  <2>5. Len(req) + Cardinality(Waiting') <= MaxRequests
    BY <2>2, <2>3, <2>4, PromptAssumption
  <2> QED BY <2>2, <2>5 DEF RoomInv
<1> QED BY <1>1, <1>2, <1>3 DEF Ranges

(* And when it posts a request.                                            *)
LEMMA PostedRanges ==
  ASSUME IInv, Ranges, NEW q, Posts(q), UNCHANGED <<server, pty, typed, text, stored>>,
         ToSet(q.body) \subseteq 0 .. Foreign, q.send \in 0 .. Len(req) + 1, q.pc = "posted",
         \A c \in Composers :
           comp'[c].pc = "submit" =>
             \/ comp'[c] = comp[c]
             \/ comp'[c].awaits = Len(req) + 1 /\ q.op = "submit",
         RoomInv'
  PROVE  Ranges'
<1>1. /\ Len(req) \in Nat /\ Len(req') = Len(req) + 1 /\ req'[Len(req) + 1] = q
      /\ \A s \in 1 .. Len(req) : req'[s] = req[s]
  BY DEF Posts
<1>2. ServerRange' /\ DraftRange' /\ KeyRange'
  BY DEF Ranges, ServerRange, DraftRange, KeyRange, server
<1>3. ReqRange'
  <2> SUFFICES ASSUME NEW r \in 1 .. Len(req')
               PROVE  /\ ToSet(req'[r].body) \subseteq 0 .. Foreign /\ req'[r].send \in 0 .. r
                      /\ req'[r].pc = "sleep" => req'[r].at # 0
    BY DEF ReqRange
  <2>1. CASE r \in 1 .. Len(req)
    BY <1>1, <2>1 DEF Ranges, ReqRange
  <2>2. CASE r = Len(req) + 1
    BY <1>1, <2>2
  <2> QED BY <1>1, <2>1, <2>2
<1>4. AwaitInv'
  <2> SUFFICES ASSUME NEW c \in Composers, comp'[c].pc = "submit"
               PROVE  comp'[c].awaits \in 1 .. Len(req') /\ req'[comp'[c].awaits].op = "submit"
    BY DEF AwaitInv
  <2>1. CASE comp'[c] = comp[c]
    <3>1. comp[c].awaits \in 1 .. Len(req) /\ req[comp[c].awaits].op = "submit"
      BY <2>1 DEF Ranges, AwaitInv
    <3> QED BY <1>1, <2>1, <3>1
  <2>2. CASE comp'[c].awaits = Len(req) + 1 /\ q.op = "submit"
    BY <1>1, <2>2
  <2> QED BY <2>1, <2>2
<1> QED BY <1>2, <1>3, <1>4 DEF Ranges

LEMMA PostingRanges ==
  ASSUME IInv, Ranges, \/ PostOther \/ \E c \in Composers : Send(c) \/ TextAcked(c)
  PROVE  Ranges'
<1>0. /\ Len(req) \in Nat /\ MaxRequests \in Nat /\ IsFiniteSet(Waiting)
      /\ Cardinality(Waiting) \in Nat /\ Len(req) + Cardinality(Waiting) <= MaxRequests
      /\ comp \in [Composers -> [pc : {"idle", "text", "submit"}, send : Nat, awaits : Nat]]
  BY PromptAssumption, FS_CardinalityType DEF Ranges, RoomInv, IInv, TypeInv
<1>1. CASE PostOther
  <2>1. PICK o \in Others : Post(Request(o[1], o[2], o[3], 0))
    BY <1>1 DEF PostOther
  <2>2. PICK q : q = Request(o[1], o[2], o[3], 0)
    OBVIOUS
  <2>3. Foreign \in Nat /\ Enter \in 0 .. Foreign /\ Enter \in Nat
    BY PromptAssumption DEF Foreign, Enter
  <2>4. o[1] \in Ops /\ o[2] \in {<<>>, <<Foreign>>, <<Enter>>} /\ o[3] \in {1, 2}
    BY PromptAssumption
  <2>5. o[2] \in Seq(Nat) /\ ToSet(o[2]) \subseteq 0 .. Foreign
    <3>1. CASE o[2] = <<>>
      BY <3>1 DEF ToSet
    <3>2. CASE o[2] = <<Foreign>>
      BY <2>3, <3>2 DEF ToSet
    <3>3. CASE o[2] = <<Enter>>
      BY <2>3, <3>3 DEF ToSet
    <3> QED BY <2>4, <3>1, <3>2, <3>3
  <2>6. q \in Reqs /\ q.body = o[2] /\ q.send = 0 /\ q.pc = "posted"
    BY <2>2, <2>4, <2>5 DEF Request, Reqs
  <2>7. Posts(q)
    BY <2>1, <2>2, <2>6, PostsIs
  <2>8. UNCHANGED <<server, pty, typed, text, stored, comp>> /\ Room(1)
    BY <1>1 DEF PostOther, client
  <2>9. RoomInv'
    <3>1. Waiting' = Waiting /\ Len(req') = Len(req) + 1
      BY <2>7, <2>8 DEF Waiting, Posts
    <3>2. Len(req) + Cardinality(Waiting) + 1 <= MaxRequests
      BY <2>8 DEF Room, Waiting
    <3> QED BY <1>0, <3>1, <3>2 DEF RoomInv
  <2>10. q.send \in 0 .. Len(req) + 1
    BY <1>0, <2>6
  <2> QED BY <2>5, <2>6, <2>7, <2>8, <2>9, <2>10, PostedRanges
<1>2. ASSUME NEW c \in Composers, Send(c) PROVE Ranges'
  <2>1. PICK q \in Reqs : /\ Posts(q) /\ q.op = "text" /\ q.pc = "posted"
                          /\ q.send = Len(req) + 1 /\ q.body = text[c]
    BY <1>2, SendIs
  <2>2. /\ comp[c].pc = "idle" /\ Room(2) /\ UNCHANGED <<server, pty, typed, text, stored>>
        /\ comp' = [comp EXCEPT ![c] = [pc |-> "text", send |-> Len(req) + 1,
                                        awaits |-> Len(req) + 1]]
    BY <1>2, SendIs
  <2>3. comp'[c].pc = "text" /\ \A d \in Composers : d # c => comp'[d] = comp[d]
    BY <1>0, <2>2
  <2>4. RoomInv'
    <3>1. Waiting' = Waiting \cup {c} /\ c \notin Waiting
      BY <2>2, <2>3 DEF Waiting
    <3>2. IsFiniteSet(Waiting') /\ Cardinality(Waiting') = Cardinality(Waiting) + 1
      BY <1>0, <3>1, FS_AddElement
    <3>3. Len(req) + Cardinality(Waiting) + 2 <= MaxRequests /\ Len(req') = Len(req) + 1
      BY <2>1, <2>2 DEF Room, Waiting, Posts
    <3> QED BY <1>0, <3>2, <3>3 DEF RoomInv
  <2>5. ToSet(q.body) \subseteq 0 .. Foreign
    <3>1. ToSet(text[c]) \subseteq 1 .. typed /\ typed \in 0 .. MaxWords
      BY DEF Ranges, DraftRange
    <3> QED BY <2>1, <3>1, PromptAssumption DEF Foreign
  <2>6. q.send \in 0 .. Len(req) + 1
    BY <1>0, <2>1
  <2> QED BY <2>1, <2>2, <2>3, <2>4, <2>5, <2>6, PostedRanges
<1>3. ASSUME NEW c \in Composers, TextAcked(c) PROVE Ranges'
  <2>1. PICK q \in Reqs : /\ Posts(q) /\ q.op = "submit" /\ q.pc = "posted"
                          /\ q.send = comp[c].send /\ q.body = <<>>
    BY <1>3, TextAckedIs
  <2>2. /\ comp[c].pc = "text" /\ comp'[c].pc = "submit" /\ comp[c].send \in 1 .. Len(req)
        /\ UNCHANGED <<server, pty, typed, text, stored>>
        /\ comp'[c].awaits = Len(req) + 1 /\ \A d \in Composers : d # c => comp'[d] = comp[d]
    BY <1>3, TextAckedIs
  <2>3. RoomInv'
    <3>1. Waiting' = Waiting \ {c} /\ c \in Waiting
      BY <2>2 DEF Waiting
    <3>2. IsFiniteSet(Waiting') /\ Cardinality(Waiting') = Cardinality(Waiting) - 1
      BY <1>0, <3>1, FS_RemoveElement
    <3>3. Len(req') = Len(req) + 1
      BY <2>1 DEF Posts
    <3> QED BY <1>0, <3>2, <3>3 DEF RoomInv
  <2>4. ToSet(q.body) \subseteq 0 .. Foreign
    BY <2>1 DEF ToSet
  <2>5. q.send \in 0 .. Len(req) + 1
    BY <1>0, <2>1, <2>2
  <2> QED BY <2>1, <2>2, <2>3, <2>4, <2>5, PostedRanges
<1> QED BY <1>1, <1>2, <1>3

LEMMA ComposingRanges ==
  ASSUME IInv, Ranges, NEW c \in Composers,
         Type(c) \/ SubmitAcked(c) \/ Failed(c) \/ TimesOut(c) \/ Reload(c)
  PROVE  Ranges'
<1>0. /\ text \in [Composers -> Seq(Words)] /\ typed \in 0 .. MaxWords /\ MaxWords \in Nat
      /\ comp \in [Composers -> [pc : {"idle", "text", "submit"}, send : Nat, awaits : Nat]]
      /\ ToSet(stored) \subseteq 1 .. typed
      /\ \A d \in Composers : ToSet(text[d]) \subseteq 1 .. typed
  BY PromptAssumption DEF IInv, TypeInv, Ranges, DraftRange
<1>1. UNCHANGED <<req, pty, server>>
  BY DEF Type, SubmitAcked, Failed, TimesOut, Reload
<1>2. ServerRange'
  BY <1>1 DEF Ranges, ServerRange, server
<1>3. \A d \in Composers : comp'[d].pc # "idle" => comp'[d] = comp[d]
  BY <1>0 DEF Type, SubmitAcked, Failed, TimesOut, Reload, Idle
<1>4. DraftRange'
  <2>1. CASE Type(c)
    <3>1. /\ typed' = typed + 1 /\ typed' \in 0 .. MaxWords /\ stored' = text'[c]
          /\ text'[c] = Append(text[c], typed')
          /\ \A d \in Composers : d # c => text'[d] = text[d]
      BY <1>0, <2>1 DEF Type
    <3>2. ToSet(text'[c]) \subseteq ToSet(text[c]) \cup {typed'}
      <4>1. text[c] \in Seq(Words)
        BY <1>0
      <4>2. \A n \in DOMAIN text'[c] :
              text'[c][n] = typed' \/ (n \in DOMAIN text[c] /\ text'[c][n] = text[c][n])
        BY <3>1, <4>1
      <4> QED BY <4>2 DEF ToSet
    <3>3. ToSet(text[c]) \cup {typed'} \subseteq 1 .. typed'
      BY <1>0, <3>1
    <3>4. 1 .. typed \subseteq 1 .. typed'
      BY <1>0, <3>1
    <3> QED BY <1>0, <3>1, <3>2, <3>3, <3>4 DEF DraftRange
  <2>2. CASE SubmitAcked(c)
    <3>1. /\ typed' = typed /\ stored' = <<>> /\ text'[c] = <<>>
          /\ \A d \in Composers : d # c => text'[d] = text[d]
      BY <1>0, <2>2 DEF SubmitAcked
    <3>2. ToSet(<<>>) = {}
      BY DEF ToSet
    <3> QED BY <1>0, <3>1, <3>2 DEF DraftRange
  <2>3. CASE Failed(c) \/ TimesOut(c) \/ Reload(c)
    <3>1. /\ typed' = typed /\ stored' = stored /\ text'[c] \in {text[c], stored}
          /\ \A d \in Composers : d # c => text'[d] = text[d]
      BY <1>0, <2>3 DEF Failed, TimesOut, Reload
    <3> QED BY <1>0, <3>1 DEF DraftRange
  <2> QED BY <2>1, <2>2, <2>3
<1> QED BY <1>1, <1>2, <1>3, <1>4, QuietRanges

LEMMA NextRanges == IInv /\ Ranges /\ [Next]_vars => Ranges'
<1> SUFFICES ASSUME IInv, Ranges, [Next]_vars PROVE Ranges'
  OBVIOUS
<1>1. CASE \E r \in Requests : Serve(r)
  BY <1>1, ServedRanges
<1>2. CASE PostOther \/ \E c \in Composers : Send(c) \/ TextAcked(c)
  BY <1>2, PostingRanges
<1>3. CASE \E c \in Composers :
             Type(c) \/ SubmitAcked(c) \/ Failed(c) \/ TimesOut(c) \/ Reload(c)
  BY <1>3, ComposingRanges
<1>4. CASE \/ Delete \/ Create \/ UNCHANGED vars
           \/ \E i \in Instances : ChildEnds(i) \/ ReportExit(i)
  <2>1. UNCHANGED <<req, pty, client>>
    BY <1>4 DEF Delete, Create, ChildEnds, ReportExit, vars
  <2>2. DraftRange'
    BY <2>1 DEF Ranges, DraftRange, client
  <2>3. ServerRange'
    <3>1. born \in Nat /\ born >= 1 /\ table \in {0, born}
      BY PromptAssumption DEF IInv, TypeInv, Instances
    <3>2. ServerRange
      BY DEF Ranges
    <3>3. CASE Delete \/ UNCHANGED vars
      BY <3>2, <3>3 DEF Delete, ServerRange, vars, server
    <3>4. CASE Create
      <4>1. born' = born + 1 /\ UNCHANGED <<exited, dead, reported>>
        BY <3>4 DEF Create
      <4>2. 1 .. born \subseteq 1 .. born'
        BY <3>1, <4>1
      <4> QED BY <3>2, <4>1, <4>2 DEF ServerRange
    <3>5. ASSUME NEW i \in Instances, ChildEnds(i) PROVE ServerRange'
      BY <3>2, <3>5 DEF ChildEnds, ServerRange
    <3>6. ASSUME NEW i \in Instances, ReportExit(i) PROVE ServerRange'
      <4>1. table # 0 => table \in 1 .. born
        BY <3>1
      <4>2. /\ i \in dead /\ reported' = reported \cup {i} /\ UNCHANGED <<dead, born>>
            /\ exited' = exited \/ (table # 0 /\ exited' = exited \cup {table})
        BY <3>6 DEF ReportExit
      <4> QED BY <3>2, <4>1, <4>2 DEF ServerRange
    <3> QED BY <1>4, <3>3, <3>4, <3>5, <3>6
  <2>4. \A c \in Composers : comp'[c] = comp[c]
    BY <2>1 DEF client
  <2> QED BY <2>1, <2>2, <2>3, <2>4, QuietRanges
<1> QED BY <1>1, <1>2, <1>3, <1>4 DEF Next, Answer

(* Every reachable state is well typed and within the bounds: no request   *)
(* is posted past MaxRequests, whatever the number of composers, and every *)
(* request works on a session that was created.                            *)
THEOREM TypeCorrect == Spec => []TypeOK
<1>1. IInv /\ Ranges => TypeOK
  <2> SUFFICES ASSUME IInv, Ranges PROVE TypeOK
    OBVIOUS
  <2>0. /\ req \in Seq(Reqs) /\ Len(req) \in Nat /\ DOMAIN req = 1 .. Len(req)
        /\ born \in Instances /\ born \in Nat
    BY PromptAssumption DEF IInv, TypeInv, Instances
  <2>1. table \in 0 .. born
    BY <2>0 DEF IInv, TypeInv
  <2>2. ASSUME NEW i \in Instances, NEW n \in DOMAIN pty[i]
        PROVE  pty[i][n] \in (0 .. Len(req)) \X (0 .. Foreign)
    <3>1. pty[i] \in Seq(Nat \X Nat)
      BY DEF IInv, TypeInv
    <3>2. n \in 1 .. Len(pty[i]) /\ pty[i][n] \in Nat \X Nat
      BY <2>2, <3>1
    <3>3. pty[i][n][1] <= Len(req) /\ pty[i][n][2] \in 0 .. Foreign
      BY <3>2 DEF IInv, PtyInv, KeyInv, Ranges, KeyRange
    <3> QED BY <2>0, <3>2, <3>3
  <2>3. Len(req) <= MaxRequests
    <3>1. Cardinality(Waiting) \in Nat /\ Len(req) + Cardinality(Waiting) <= MaxRequests
      BY FS_CardinalityType DEF Ranges, RoomInv
    <3> QED BY <2>0, <3>1, PromptAssumption
  <2>4. ASSUME NEW r \in DOMAIN req
        PROVE  /\ req[r].op \in Ops /\ req[r].times \in {1, 2}
               /\ req[r].pc \in {"posted", "found", "sleep", "ok", "error"}
               /\ req[r].at \in 0 .. born /\ req[r].send \in 0 .. r
               /\ req[r].pc \in {"found", "sleep"} => req[r].at # 0
    <3>1. req[r] \in Reqs /\ ReqInv(r)
      BY <2>0, <2>4, ReqType
    <3>2. req[r].send \in 0 .. r /\ (req[r].pc = "sleep" => req[r].at # 0)
      BY <2>0, <2>4 DEF Ranges, ReqRange
    <3>3. req[r].at \in 0 .. born /\ (req[r].pc = "found" => req[r].at # 0)
      BY <3>1 DEF ReqInv
    <3> QED BY <3>1, <3>2, <3>3 DEF Reqs
  <2>5. ASSUME NEW c \in Composers
        PROVE  /\ comp[c].pc \in {"idle", "text", "submit"}
               /\ comp[c].pc = "text" => req[comp[c].awaits].op = "text"
               /\ comp[c].pc = "submit" => req[comp[c].awaits].op = "submit"
               /\ ToSet(text[c]) \subseteq 1 .. typed
    <3>1. comp[c].pc \in {"idle", "text", "submit"}
      BY DEF IInv, TypeInv
    <3>2. CompInv(c)
      BY DEF IInv, CompsInv
    <3> QED BY <3>1, <3>2 DEF CompInv, Ranges, AwaitInv, DraftRange
  <2> QED
    BY <2>0, <2>1, <2>2, <2>3, <2>4, <2>5 DEF TypeOK, Ranges, ServerRange, DraftRange
<1> QED BY <1>1, InitIInv, NextIInv, InitRanges, NextRanges, PTL DEF Spec

----------------------------------------------------------------------------
(* COMPOSERS THAT KEEP TRACK OF THEIR SENDS.  Nobody else posts, no answer *)
(* comes too late, the page stays and the child lives: what remains is     *)
(* typing during a send, and sessions deleted and created again.           *)

Disciplined == Hazards \subseteq {"typeahead", "recreate"} /\ Others = {}

Serving(r) == req[r].pc \in {"posted", "found", "sleep"}

Busy(c) == comp[c].pc # "idle"

(* A request that is not finished is one a composer waits for.             *)
SerialInv ==
  \A r \in 1 .. Len(req) :
    /\ req[r].op \in {"text", "submit"} /\ req[r].times = 1 /\ req[r].send # 0
    /\ req[r].op = "text" => req[r].send = r
    /\ req[r].pc = "sleep" => req[r].op = "text"
    /\ Serving(r) => \E c \in Composers : Busy(c) /\ comp[c].awaits = r

(* What a composer knows of its send, and that no two have the same.       *)
SendInv(c) ==
  Busy(c) =>
    /\ comp[c].send \in 1 .. Len(req) /\ comp[c].awaits \in 1 .. Len(req)
    /\ req[comp[c].send].op = "text"
    /\ comp[c].pc = "text" => comp[c].awaits = comp[c].send
    /\ comp[c].pc = "submit" =>
         /\ req[comp[c].awaits].op = "submit" /\ req[comp[c].awaits].send = comp[c].send
         /\ req[comp[c].send].pc = "ok"
    /\ \A d \in Composers : Busy(d) /\ comp[d].send = comp[c].send => d = c
    /\ ToSet(req[comp[c].send].body) \subseteq ToSet(text[c])

NoneTwice(s) == \A m, n \in 1 .. Len(s) : s[m] = s[n] => m = n

(* No word is in two composers, or twice in one or in a request.           *)
WordInv ==
  /\ \A c \in Composers : NoneTwice(text[c])
  /\ \A c, d \in Composers : c # d => ToSet(text[c]) \cap ToSet(text[d]) = {}
  /\ \A r \in 1 .. Len(req) :
       NoneTwice(req[r].body) /\ ToSet(req[r].body) \subseteq 1 .. typed

(* A word in a PTY was written by the text of its send, and once.          *)
Owned(i, n) ==
  LET s == pty[i][n][1]
  IN  /\ s \in 1 .. Len(req) /\ req[s].op = "text"
      /\ pty[i][n][2] # Enter =>
           /\ pty[i][n][2] \in ToSet(req[s].body)
           /\ req[s].pc \in {"sleep", "ok"} /\ req[s].at = i

OwnedInv ==
  \A i \in Instances : \A n \in 1 .. Len(pty[i]) :
    /\ Owned(i, n)
    /\ \A m \in 1 .. Len(pty[i]) :
         pty[i][m] = pty[i][n] /\ pty[i][n][2] # Enter => m = n

Tracked ==
  /\ dead = {} /\ SerialInv /\ (\A c \in Composers : SendInv(c)) /\ WordInv /\ OwnedInv

Share(s, t) == \E w \in ToSet(s) : w \in ToSet(t)

Text(s) == req[s].op = "text"

(* No Enter was written after a word of the send.                          *)
Unentered(s) ==
  \A i \in Instances : \A m, n \in 1 .. Len(pty[i]) :
    m < n /\ pty[i][m][1] = s /\ pty[i][m][2] # Enter => pty[i][n][2] # Enter

(* A send whose text no Enter can submit any more: it was not written, or  *)
(* it is in the PTY of a session that was replaced.                        *)
Lost(s) ==
  \/ req[s].pc = "error"
  \/ /\ req[s].pc = "ok" /\ req[s].at # table /\ Unentered(s)
     /\ \A r \in 1 .. Len(req) : req[r].pc = "found" => req[r].at # req[s].at

(* One send at a time: a word is sent again only when its send was lost.   *)
LostInv ==
  /\ \A s, t \in 1 .. Len(req) : Text(s) /\ Text(t) /\ s < t /\ Share(req[s].body, req[t].body) => Lost(s)
  /\ \A s \in 1 .. Len(req), c \in Composers :
       Text(s) /\ Share(req[s].body, text[c]) /\ ~(Busy(c) /\ comp[c].send = s)
         => Lost(s)

Submitted(c) == comp[c].pc = "submit" /\ req[comp[c].awaits].pc = "ok"

OpenInv == \A c \in Composers : Busy(c) /\ ~Submitted(c) => Unentered(comp[c].send)

ErrorInv ==
  \A r \in 1 .. Len(req) :
    req[r].op = "submit" /\ req[r].pc = "error" => req[req[r].send].at # table

OneInv == LostInv /\ OpenInv /\ ErrorInv

(* No session but the first: a word is sent again only when there is none. *)
FirstInv ==
  /\ \A r \in 1 .. Len(req) : req[r].pc = "error" => table = 0
  /\ \A s, t \in 1 .. Len(req) : Text(s) /\ Text(t) /\ s < t /\ Share(req[s].body, req[t].body)
                 => table = 0 /\ req[t].pc \in {"posted", "error"}
  /\ \A s \in 1 .. Len(req), c \in Composers :
       Text(s) /\ Share(req[s].body, text[c]) /\ ~(Busy(c) /\ comp[c].send = s)
         => table = 0

(* Both: the line is empty until a text is written, then it is that text.  *)
LineStart(i, m) == m = 0 \/ pty[i][m][2] = Enter

TextAt(i, m, s) ==
  \A k \in 1 .. Len(req[s].body) : pty[i][m + k] = <<s, req[s].body[k]>>

TailEmpty(i) == LineStart(i, Len(pty[i]))

TailIs(i, s) ==
  \E m \in 0 .. Len(pty[i]) :
    LineStart(i, m) /\ Len(pty[i]) = m + Len(req[s].body) /\ TextAt(i, m, s)

LineIs(i, n) ==
  \E m \in 0 .. n - 1 :
    /\ LineStart(i, m) /\ n = m + Len(req[pty[i][n][1]].body) + 1
    /\ TextAt(i, m, pty[i][n][1])

Unwritten(c) ==
  \/ ~Busy(c) \/ Submitted(c)
  \/ comp[c].pc = "text" /\ req[comp[c].awaits].pc \in {"posted", "found"}

LineInv ==
  /\ \A i \in Instances : \A n \in 1 .. Len(pty[i]) : pty[i][n][2] = Enter => LineIs(i, n)
  /\ \A r \in 1 .. Len(req) :
       /\ req[r].op = "text" /\ req[r].pc = "found" => TailEmpty(1)
       /\ req[r].pc = "error" => table = 0
  /\ table # 0 /\ (\A c \in Composers : Unwritten(c)) => TailEmpty(1)
  /\ \A c \in Composers :
       Busy(c) /\ ~Submitted(c) /\ req[comp[c].send].pc \in {"sleep", "ok"}
         => TailIs(1, comp[c].send)

LEMMA SeqToSet ==
  ASSUME NEW E, NEW s \in Seq(E)
  PROVE  /\ ToSet(s) = {s[n] : n \in 1 .. Len(s)}
         /\ \A e \in E : ToSet(Append(s, e)) = ToSet(s) \cup {e}
<1>1. DOMAIN s = 1 .. Len(s)
  OBVIOUS
<1>2. ASSUME NEW e \in E PROVE ToSet(Append(s, e)) = ToSet(s) \cup {e}
  <2>1. /\ DOMAIN Append(s, e) = 1 .. Len(s) + 1 /\ Len(s) \in Nat
        /\ \A n \in 1 .. Len(s) : Append(s, e)[n] = s[n]
        /\ Append(s, e)[Len(s) + 1] = e
    OBVIOUS
  <2>2. \A n \in 1 .. Len(s) + 1 : n \in 1 .. Len(s) \/ n = Len(s) + 1
    BY <2>1
  <2>3. (1 .. Len(s)) \subseteq 1 .. Len(s) + 1 /\ Len(s) + 1 \in 1 .. Len(s) + 1
    BY <2>1
  <2> QED BY <1>1, <2>1, <2>2, <2>3 DEF ToSet
<1> QED BY <1>1, <1>2 DEF ToSet

(* The steps that are left.                                                *)
LEMMA DisciplinedSteps ==
  ASSUME Disciplined, IInv, dead = {}, [Next]_vars
  PROVE  \/ \E r \in 1 .. Len(req) : Lookup(r) \/ WriteBytes(r) \/ Wake(r)
         \/ \E c \in Composers :
              TextAcked(c) \/ SubmitAcked(c) \/ Failed(c) \/ Type(c) \/ Send(c)
         \/ Delete \/ Create \/ UNCHANGED vars
<1>1. ~PostOther
  BY DEF PostOther, Disciplined
<1>2. \A c \in Composers : ~TimesOut(c) /\ ~Reload(c)
  BY DEF TimesOut, Reload, Disciplined
<1>3. \A i \in Instances : ~ChildEnds(i) /\ ~ReportExit(i)
  BY DEF ChildEnds, ReportExit, Disciplined
<1>4. \A r : ~WriteFails(r)
  BY DEF WriteFails
<1>5. ASSUME NEW r \in Requests, Serve(r)
      PROVE  r \in 1 .. Len(req) /\ (Lookup(r) \/ WriteBytes(r) \/ Wake(r))
  BY <1>4, <1>5 DEF Serve, IInv, TypeInv
<1> QED BY <1>1, <1>2, <1>3, <1>5 DEF Next, Answer

LEMMA InitTracked == Init => Tracked
<1> SUFFICES ASSUME Init PROVE Tracked
  OBVIOUS
<1>1. dead = {} /\ SerialInv /\ OwnedInv
  BY DEF Init, SerialInv, OwnedInv
<1>2. \A c \in Composers : SendInv(c)
  BY DEF Init, SendInv, Busy, Idle
<1>3. WordInv
  BY DEF Init, WordInv, NoneTwice, ToSet
<1> QED BY <1>1, <1>2, <1>3 DEF Tracked

(* A step of a request, apart from what it writes.                         *)
LEMMA ServeTracked ==
  ASSUME IInv, Tracked, NEW r, NEW q, Replaces(r, q), UNCHANGED <<server, client>>,
         Serving(r), q.op = req[r].op, q.times = 1,
         q.pc = "sleep" => q.op = "text", OwnedInv'
  PROVE  Tracked'
<1>1. /\ Len(req') = Len(req) /\ req'[r] = q /\ Len(req) \in Nat /\ r \in 1 .. Len(req)
      /\ \A s \in 1 .. Len(req) : s # r => req'[s] = req[s]
      /\ q.body = req[r].body /\ q.send = req[r].send
  BY DEF Replaces
<1>2. UNCHANGED <<dead, typed, text, comp>>
  BY DEF server, client
<1>3. \A c \in Composers : Busy(c)' = Busy(c)
  BY <1>2 DEF Busy
<1>4. SerialInv'
  <2> SUFFICES ASSUME NEW s \in 1 .. Len(req)
               PROVE  /\ req'[s].op \in {"text", "submit"} /\ req'[s].times = 1
                      /\ req'[s].send # 0
                      /\ req'[s].op = "text" => req'[s].send = s
                      /\ req'[s].pc = "sleep" => req'[s].op = "text"
                      /\ Serving(s)' => \E c \in Composers : Busy(c) /\ comp[c].awaits = s
    BY <1>1, <1>2, <1>3 DEF SerialInv
  <2>1. /\ req[s].op \in {"text", "submit"} /\ req[s].times = 1 /\ req[s].send # 0
        /\ req[s].op = "text" => req[s].send = s
        /\ req[s].pc = "sleep" => req[s].op = "text"
        /\ Serving(s) => \E c \in Composers : Busy(c) /\ comp[c].awaits = s
    BY DEF Tracked, SerialInv
  <2>2. CASE s = r
    BY <1>1, <2>1, <2>2
  <2>3. CASE s # r
    BY <1>1, <2>1, <2>3 DEF Serving
  <2> QED BY <2>2, <2>3
<1>5. ASSUME NEW c \in Composers PROVE SendInv(c)'
  <2>1. SendInv(c)
    BY DEF Tracked
  <2>2. \A s \in 1 .. Len(req) :
          /\ req'[s].op = req[s].op /\ req'[s].body = req[s].body /\ req'[s].send = req[s].send
          /\ req[s].pc = "ok" => req'[s].pc = "ok"
    <3>1. req[r].pc # "ok"
      BY DEF Serving
    <3> QED BY <1>1, <3>1
  <2> QED BY <1>1, <1>2, <2>1, <2>2 DEF SendInv, Busy
<1>6. WordInv'
  BY <1>1, <1>2 DEF Tracked, WordInv
<1> QED BY <1>2, <1>4, <1>5, <1>6 DEF Tracked

(* A key stays owned while its send goes from written to answered.         *)
LEMMA OwnedStays ==
  ASSUME IInv, Tracked, NEW i \in Instances, NEW n \in 1 .. Len(pty[i]),
         Len(req) <= Len(req'), Len(req) \in Nat, Len(req') \in Nat,
         \A s \in 1 .. Len(req) :
           /\ req'[s].op = req[s].op /\ req'[s].body = req[s].body
           /\ req[s].pc \in {"sleep", "ok"} =>
                req'[s].pc \in {"sleep", "ok"} /\ req'[s].at = req[s].at,
         pty'[i][n] = pty[i][n]
  PROVE  Owned(i, n)'
<1> DEFINE s == pty[i][n][1]
           w == pty[i][n][2]
<1>1. /\ s \in 1 .. Len(req) /\ req[s].op = "text"
      /\ w # Enter => w \in ToSet(req[s].body) /\ req[s].pc \in {"sleep", "ok"} /\ req[s].at = i
  BY DEF Tracked, OwnedInv, Owned
<1>2. pty'[i][n][1] = s /\ pty'[i][n][2] = w /\ s \in 1 .. Len(req')
  BY <1>1
<1> HIDE DEF s, w
<1>3. /\ req'[s].op = "text"
      /\ w # Enter => w \in ToSet(req'[s].body) /\ req'[s].pc \in {"sleep", "ok"} /\ req'[s].at = i
  BY <1>1
<1> QED BY <1>2, <1>3, Enter' = Enter DEF Owned

LEMMA OwnedBy ==
  ASSUME NEW i, NEW n, NEW s, NEW w, pty'[i][n] = <<s, w>>,
         s \in 1 .. Len(req'), req'[s].op = "text",
         w # Enter => /\ w \in ToSet(req'[s].body)
                      /\ req'[s].pc \in {"sleep", "ok"} /\ req'[s].at = i
  PROVE  Owned(i, n)'
<1>1. pty'[i][n][1] = s /\ pty'[i][n][2] = w
  OBVIOUS
<1> QED BY <1>1, Enter' = Enter DEF Owned

LEMMA OwnedQuiet ==
  ASSUME IInv, Tracked, UNCHANGED pty,
         Len(req) <= Len(req'), Len(req) \in Nat, Len(req') \in Nat,
         \A s \in 1 .. Len(req) :
           /\ req'[s].op = req[s].op /\ req'[s].body = req[s].body
           /\ req[s].pc \in {"sleep", "ok"} =>
                req'[s].pc \in {"sleep", "ok"} /\ req'[s].at = req[s].at
  PROVE  OwnedInv'
<1> SUFFICES ASSUME NEW i \in Instances, NEW n \in 1 .. Len(pty[i])
             PROVE  /\ Owned(i, n)'
                    /\ \A m \in 1 .. Len(pty[i]) :
                         pty[i][m] = pty[i][n] /\ pty[i][n][2] # Enter => m = n
  BY DEF OwnedInv
<1>1. \A m \in 1 .. Len(pty[i]) : pty[i][m] = pty[i][n] /\ pty[i][n][2] # Enter => m = n
  BY DEF Tracked, OwnedInv
<1>2. pty'[i][n] = pty[i][n]
  OBVIOUS
<1> QED BY <1>1, <1>2, OwnedStays

LEMMA LookupTracked ==
  ASSUME IInv, Tracked, NEW r \in 1 .. Len(req), Lookup(r)
  PROVE  Tracked'
<1>1. PICK q \in Reqs : /\ Replaces(r, q) /\ q.op = req[r].op /\ q.times = req[r].times
                        /\ q.pc = (IF table = 0 THEN "error" ELSE "found")
  BY LookupIs
<1>2. req[r].pc = "posted" /\ UNCHANGED <<server, pty, client>>
  BY LookupIs
<1>3. q.times = 1 /\ Serving(r) /\ q.pc # "sleep"
  BY <1>1, <1>2 DEF Tracked, SerialInv, Serving
<1>4. OwnedInv'
  BY <1>1, <1>2, OwnedQuiet DEF Replaces
<1> QED BY <1>1, <1>2, <1>3, <1>4, ServeTracked

LEMMA WakeTracked ==
  ASSUME IInv, Tracked, NEW r \in 1 .. Len(req), Wake(r)
  PROVE  Tracked'
<1>1. req[r].pc = "sleep" /\ UNCHANGED <<server, pty, client>>
  BY WakeIs
<1>2. req[r].op = "text" /\ req[r].times = 1
  BY <1>1 DEF Tracked, SerialInv
<1>3. PICK q \in Reqs : /\ Replaces(r, q) /\ q.op = req[r].op /\ q.times = req[r].times
                        /\ q.at = req[r].at /\ q.pc = "ok"
  BY <1>2, WakeIs
<1>4. q.times = 1 /\ Serving(r) /\ q.pc # "sleep"
  BY <1>1, <1>2, <1>3 DEF Serving
<1>5. OwnedInv'
  BY <1>1, <1>3, OwnedQuiet DEF Replaces
<1> QED BY <1>1, <1>3, <1>4, <1>5, ServeTracked

(* A write: the words of a text, which no PTY has of this send, or the     *)
(* Enter of a submit.                                                      *)
LEMMA WriteTracked ==
  ASSUME IInv, Tracked, NEW r \in 1 .. Len(req), WriteBytes(r)
  PROVE  Tracked'
<1>1. req[r].pc = "found" /\ UNCHANGED <<server, client>> /\ Keys(r) \in Seq(Nat)
  BY WriteIs
<1>2. /\ req[r].op \in {"text", "submit"} /\ req[r].times = 1 /\ req[r].send # 0
      /\ req[r].op = "text" => req[r].send = r
  BY DEF Tracked, SerialInv
<1>3. PICK q \in Reqs : /\ Replaces(r, q) /\ q.op = req[r].op /\ q.at = req[r].at
                        /\ req[r].op = "text" => q.pc = "sleep" /\ q.times = 1
                        /\ req[r].op = "submit" => q.pc = "ok" /\ q.times = 1
  BY <1>2, WriteIs
<1>4. PICK t \in Seq(Nat \X Nat) :
        /\ Writes(req[r].at, t) /\ Len(t) = Len(Keys(r))
        /\ \A n \in 1 .. Len(Keys(r)) : t[n] = <<req[r].send, Keys(r)[n]>>
  BY WriteIs
<1> DEFINE i == req[r].at
           L == Len(pty[i])
<1>5. /\ i \in Instances /\ L \in Nat /\ Len(t) \in Nat /\ Len(pty'[i]) = L + Len(t)
      /\ \A n \in 1 .. L : pty'[i][n] = pty[i][n]
      /\ \A n \in 1 .. Len(t) : pty'[i][L + n] = t[n]
      /\ \A j \in Instances : j # i => pty'[j] = pty[j]
  BY <1>4 DEF Writes
<1>6. /\ Len(req') = Len(req) /\ req'[r] = q /\ Len(req) \in Nat
      /\ \A s \in 1 .. Len(req) : s # r => req'[s] = req[s]
      /\ q.body = req[r].body /\ q.send = req[r].send
  BY <1>3 DEF Replaces
<1>7. \A s \in 1 .. Len(req) :
        /\ req'[s].op = req[s].op /\ req'[s].body = req[s].body
        /\ req[s].pc \in {"sleep", "ok"} =>
             req'[s].pc \in {"sleep", "ok"} /\ req'[s].at = req[s].at
  BY <1>1, <1>3, <1>6
<1>8. ASSUME NEW j \in Instances, NEW n \in 1 .. Len(pty'[j])
      PROVE  \/ n \in 1 .. Len(pty[j]) /\ pty'[j][n] = pty[j][n]
             \/ j = i /\ \E k \in 1 .. Len(t) : n = L + k /\ pty'[j][n] = t[k]
  <2>1. CASE j # i
    BY <1>5, <2>1
  <2>2. CASE j = i /\ n \in 1 .. L
    BY <1>5, <2>2
  <2>3. CASE j = i /\ n \notin 1 .. L
    <3>1. n - L \in 1 .. Len(t) /\ n = L + (n - L)
      BY <1>5, <2>3
    <3> QED BY <1>5, <2>3, <3>1
  <2> QED BY <2>1, <2>2, <2>3
<1>9. ASSUME NEW j \in Instances, NEW n \in 1 .. Len(pty[j]), pty'[j][n] = pty[j][n]
      PROVE  Owned(j, n)'
  BY <1>6, <1>7, <1>9, OwnedStays
<1> DEFINE Fit(e) ==
             /\ e = <<e[1], e[2]>> /\ e[1] \in 1 .. Len(req') /\ req'[e[1]].op = "text"
             /\ e[2] # Enter => /\ e[2] \in ToSet(req'[e[1]].body)
                                /\ req'[e[1]].pc \in {"sleep", "ok"} /\ req'[e[1]].at = i
<1>10. ASSUME NEW k \in 1 .. Len(t)
       PROVE  /\ Fit(t[k])
              /\ t[k][2] # Enter =>
                   /\ t[k][1] = r
                   /\ \A m \in 1 .. Len(t) : t[m] = t[k] => m = k
  <2>1. t[k] = <<req[r].send, Keys(r)[k]>> /\ t[k][1] = req[r].send /\ t[k][2] = Keys(r)[k]
    BY <1>4
  <2>2. CASE req[r].op = "submit"
    <3>1. t[k][2] = Enter
      BY <1>4, <2>1, <2>2 DEF Keys
    <3>2. req[r].send \in 1 .. Len(req) /\ req[req[r].send].op = "text"
      BY <1>2, <2>2, ReqType DEF ReqInv
    <3>3. req[r].send \in 1 .. Len(req') /\ req'[req[r].send].op = "text"
      BY <1>6, <1>7, <3>2
    <3> QED BY <2>1, <3>1, <3>3
  <2>3. CASE req[r].op = "text"
    <3>1. Keys(r) = req[r].body /\ Enter \notin ToSet(req[r].body) /\ req[r].send = r
      BY <1>2, <2>3, ReqType DEF Keys, ReqInv
    <3>2. t[k][1] = r /\ t[k][2] = req[r].body[k] /\ k \in 1 .. Len(req[r].body)
      BY <1>4, <2>1, <3>1
    <3>3. t[k][2] \in ToSet(req[r].body)
      BY SMTT(30), <1>1, <3>1, <3>2, SeqToSet
    <3>4. Fit(t[k])
      <4>1. req'[r].op = "text" /\ req'[r].body = req[r].body /\ req'[r].pc = "sleep"
            /\ req'[r].at = i /\ r \in 1 .. Len(req')
        BY <1>3, <1>6, <2>3
      <4> QED BY <2>1, <3>2, <3>3, <4>1
    <3>5. \A m \in 1 .. Len(t) : t[m] = t[k] => m = k
      <4>1. NoneTwice(req[r].body)
        BY DEF Tracked, WordInv
      <4>2. \A m \in 1 .. Len(t) : t[m][2] = req[r].body[m] /\ m \in 1 .. Len(req[r].body)
        <5>1. \A m \in 1 .. Len(t) : t[m] = <<req[r].send, req[r].body[m]>>
          BY <1>4, <3>1
        <5>2. Len(t) = Len(req[r].body)
          BY <1>4, <3>1
        <5>3. \A m \in 1 .. Len(t) : t[m][2] = req[r].body[m]
          BY <5>1
        <5> QED BY <5>2, <5>3, Zenon
      <4>3. SUFFICES ASSUME NEW m \in 1 .. Len(t), t[m] = t[k] PROVE m = k
        OBVIOUS
      <4>4. /\ m \in 1 .. Len(req[r].body) /\ k \in 1 .. Len(req[r].body)
            /\ req[r].body[m] = req[r].body[k]
        <5>1. t[m][2] = req[r].body[m] /\ t[k][2] = req[r].body[k]
          BY <4>2
        <5>2. t[m][2] = t[k][2]
          BY <4>3
        <5> QED BY <4>2, <5>1, <5>2
      <4> QED BY <4>1, <4>4 DEF NoneTwice
    <3> QED BY <3>2, <3>4, <3>5
  <2> QED BY <1>2, <2>2, <2>3
<1>11. ASSUME NEW j \in Instances, NEW m \in 1 .. Len(pty[j]), pty[j][m][1] = r
       PROVE  pty[j][m][2] = Enter
  BY <1>1, <1>11 DEF Tracked, OwnedInv, Owned
<1> HIDE DEF i, L
<1>12. OwnedInv'
  <2> SUFFICES ASSUME NEW j \in Instances, NEW n \in 1 .. Len(pty'[j])
               PROVE  /\ Owned(j, n)'
                      /\ \A m \in 1 .. Len(pty'[j]) :
                           pty'[j][m] = pty'[j][n] /\ pty'[j][n][2] # Enter => m = n
    BY DEF OwnedInv
  <2>1. Owned(j, n)'
    <3>1. CASE n \in 1 .. Len(pty[j]) /\ pty'[j][n] = pty[j][n]
      BY <1>9, <3>1
    <3>2. CASE j = i /\ \E k \in 1 .. Len(t) : n = L + k /\ pty'[j][n] = t[k]
      <4>1. PICK k \in 1 .. Len(t) : pty'[j][n] = t[k]
        BY <3>2
      <4> DEFINE s == t[k][1]
                 w == t[k][2]
      <4>2. /\ pty'[j][n] = <<s, w>> /\ s \in 1 .. Len(req') /\ req'[s].op = "text"
            /\ w # Enter => /\ w \in ToSet(req'[s].body)
                            /\ req'[s].pc \in {"sleep", "ok"} /\ req'[s].at = j
        BY <1>10, <3>2, <4>1
      <4> HIDE DEF s, w
      <4> QED BY <4>2, OwnedBy
    <3> QED BY <1>8, <3>1, <3>2
  <2>2. ASSUME NEW m \in 1 .. Len(pty'[j]), pty'[j][m] = pty'[j][n], pty'[j][n][2] # Enter
        PROVE  m = n
    <3>1. CASE /\ n \in 1 .. Len(pty[j]) /\ pty'[j][n] = pty[j][n]
               /\ m \in 1 .. Len(pty[j]) /\ pty'[j][m] = pty[j][m]
      BY <2>2, <3>1 DEF Tracked, OwnedInv
    <3>2. ASSUME NEW a \in 1 .. Len(pty[j]), NEW k \in 1 .. Len(t), pty[j][a] = t[k],
                 t[k][2] # Enter
          PROVE  FALSE
      <4>1. t[k][1] = r
        BY <1>10, <3>2
      <4>2. pty[j][a][1] = r /\ pty[j][a][2] # Enter
        BY <3>2, <4>1
      <4> QED BY <1>11, <4>2
    <3>3. ASSUME NEW a \in 1 .. Len(t), NEW k \in 1 .. Len(t), t[a] = t[k], t[k][2] # Enter
          PROVE  a = k
      BY <1>10, <3>3
    <3>4. CASE ~(n \in 1 .. Len(pty[j]) /\ pty'[j][n] = pty[j][n])
      <4>1. PICK k \in 1 .. Len(t) : n = L + k /\ pty'[j][n] = t[k]
        BY <1>8, <3>4
      <4>2. ~(m \in 1 .. Len(pty[j]) /\ pty'[j][m] = pty[j][m])
        BY <2>2, <3>2, <4>1
      <4>3. PICK a \in 1 .. Len(t) : m = L + a /\ pty'[j][m] = t[a]
        BY <1>8, <4>2
      <4> QED BY <2>2, <3>3, <4>1, <4>3
    <3>5. CASE ~(m \in 1 .. Len(pty[j]) /\ pty'[j][m] = pty[j][m])
      <4>1. PICK k \in 1 .. Len(t) : m = L + k /\ pty'[j][m] = t[k]
        BY <1>8, <3>5
      <4>2. ~(n \in 1 .. Len(pty[j]) /\ pty'[j][n] = pty[j][n])
        BY <2>2, <3>2, <4>1
      <4>3. PICK a \in 1 .. Len(t) : n = L + a /\ pty'[j][n] = t[a]
        BY <1>8, <4>2
      <4> QED BY <2>2, <3>3, <4>1, <4>3
    <3> QED BY <3>1, <3>4, <3>5
  <2> QED BY <2>1, <2>2
<1>13. Serving(r) /\ q.times = 1 /\ (q.pc = "sleep" => q.op = "text")
  BY <1>1, <1>2, <1>3 DEF Serving
<1> QED BY <1>1, <1>3, <1>12, <1>13, ServeTracked

(* What a new request does to the old ones.                                *)
LEMMA PostTracked ==
  ASSUME IInv, Tracked, NEW q, Posts(q), UNCHANGED <<server, pty, typed, text>>,
         NEW c \in Composers, Busy(c)', comp'[c].awaits = Len(req) + 1,
         \A d \in Composers : d # c => comp'[d] = comp[d],
         Busy(c) => req[comp[c].awaits].pc = "ok",
         q.op \in {"text", "submit"}, q.times = 1, q.pc = "posted", q.send # 0,
         q.op = "text" => q.send = Len(req) + 1,
         NoneTwice(q.body), ToSet(q.body) \subseteq 1 .. typed,
         SendInv(c)', \A d \in Composers : Busy(d) /\ d # c => comp[d].send # comp'[c].send
  PROVE  Tracked'
<1>1. /\ Len(req) \in Nat /\ Len(req') = Len(req) + 1 /\ req'[Len(req) + 1] = q
      /\ \A s \in 1 .. Len(req) : req'[s] = req[s]
      /\ \A s \in 1 .. Len(req') : s \in 1 .. Len(req) \/ s = Len(req) + 1
  BY DEF Posts
<1>2. dead' = {}
  BY DEF Tracked, server
<1>3. SerialInv'
  <2> SUFFICES ASSUME NEW s \in 1 .. Len(req')
               PROVE  /\ req'[s].op \in {"text", "submit"} /\ req'[s].times = 1
                      /\ req'[s].send # 0
                      /\ req'[s].op = "text" => req'[s].send = s
                      /\ req'[s].pc = "sleep" => req'[s].op = "text"
                      /\ Serving(s)' => \E d \in Composers : Busy(d)' /\ comp'[d].awaits = s
    BY DEF SerialInv
  <2>1. CASE s \in 1 .. Len(req)
    <3>1. req'[s] = req[s] /\ Serving(s)' = Serving(s)
      BY <1>1, <2>1 DEF Serving
    <3>2. /\ req[s].op \in {"text", "submit"} /\ req[s].times = 1 /\ req[s].send # 0
          /\ req[s].op = "text" => req[s].send = s
          /\ req[s].pc = "sleep" => req[s].op = "text"
          /\ Serving(s) => \E d \in Composers : Busy(d) /\ comp[d].awaits = s
      BY <2>1 DEF Tracked, SerialInv
    <3>3. ASSUME Serving(s) PROVE \E d \in Composers : Busy(d)' /\ comp'[d].awaits = s
      <4>1. PICK d \in Composers : Busy(d) /\ comp[d].awaits = s
        BY <3>2, <3>3
      <4>2. d # c
        BY <3>3, <4>1 DEF Serving
      <4> QED BY <4>1, <4>2 DEF Busy
    <3> QED BY <3>1, <3>2, <3>3
  <2>2. CASE s = Len(req) + 1
    BY <1>1, <2>2
  <2> QED BY <1>1, <2>1, <2>2
<1>4. ASSUME NEW d \in Composers PROVE SendInv(d)'
  <2>1. CASE d = c
    BY <2>1
  <2>2. CASE d # c
    <3>1. SendInv(d) /\ comp'[d] = comp[d] /\ text'[d] = text[d]
      BY <2>2 DEF Tracked
    <3>2. ASSUME Busy(d), NEW e \in Composers, Busy(e)', comp'[e].send = comp[d].send
          PROVE  e = d
      <4>1. e # c
        BY <2>2, <3>2
      <4>2. comp'[e] = comp[e] /\ Busy(e)
        BY <3>2, <4>1 DEF Busy
      <4> QED BY <3>1, <3>2, <4>2 DEF SendInv
    <3>3. Busy(d)' = Busy(d)
      BY <3>1 DEF Busy
    <3>4. ASSUME Busy(d)
          PROVE  /\ comp[d].send \in 1 .. Len(req') /\ comp[d].awaits \in 1 .. Len(req')
                 /\ req'[comp[d].send] = req[comp[d].send]
                 /\ req'[comp[d].awaits] = req[comp[d].awaits]
      <4>1. comp[d].send \in 1 .. Len(req) /\ comp[d].awaits \in 1 .. Len(req)
        BY <3>1, <3>4 DEF SendInv
      <4> QED BY <1>1, <4>1
    <3> QED BY <3>1, <3>2, <3>3, <3>4 DEF SendInv
  <2> QED BY <2>1, <2>2
<1>5. WordInv'
  <2> SUFFICES ASSUME NEW s \in 1 .. Len(req')
               PROVE  NoneTwice(req'[s].body) /\ ToSet(req'[s].body) \subseteq 1 .. typed
    BY DEF Tracked, WordInv
  <2> QED BY <1>1 DEF Tracked, WordInv
<1>6. OwnedInv'
  <2>1. Len(req) <= Len(req') /\ Len(req') \in Nat
    BY <1>1
  <2> QED BY <1>1, <2>1, OwnedQuiet
<1> QED BY <1>2, <1>3, <1>4, <1>5, <1>6 DEF Tracked

LEMMA CompType ==
  ASSUME IInv
  PROVE  /\ req \in Seq(Reqs) /\ Len(req) \in Nat
         /\ typed \in Nat /\ text \in [Composers -> Seq(Words)]
         /\ comp \in [Composers -> [pc : {"idle", "text", "submit"}, send : Nat, awaits : Nat]]
         /\ pty \in [Instances -> Seq(Nat \X Nat)]
  BY DEF IInv, TypeInv

LEMMA SendTracked ==
  ASSUME IInv, Ranges, Tracked, NEW c \in Composers, Send(c)
  PROVE  Tracked'
<1> DEFINE L == Len(req)
<1>1. PICK q \in Reqs : /\ Posts(q) /\ q.op = "text" /\ q.times = 1 /\ q.pc = "posted"
                        /\ q.send = L + 1 /\ q.body = text[c]
  BY SendIs
<1>2. /\ comp[c].pc = "idle" /\ UNCHANGED <<server, pty, typed, text, stored>>
      /\ comp' = [comp EXCEPT ![c] = [pc |-> "text", send |-> L + 1, awaits |-> L + 1]]
  BY SendIs
<1>3. /\ comp'[c].pc = "text" /\ comp'[c].send = L + 1 /\ comp'[c].awaits = L + 1
      /\ \A d \in Composers : d # c => comp'[d] = comp[d]
  BY <1>2, CompType
<1>4. L \in Nat /\ Len(req') = L + 1 /\ req'[L + 1] = q /\ L + 1 \in 1 .. L + 1
  BY <1>1 DEF Posts
<1>5. \A d \in Composers : Busy(d) => comp[d].send \in 1 .. L
  BY DEF Tracked, SendInv
<1>6. \A d \in Composers : Busy(d) /\ d # c => comp[d].send # L + 1
  BY <1>4, <1>5
<1>7. SendInv(c)'
  <2>1. \A d \in Composers : Busy(d)' /\ comp'[d].send = L + 1 => d = c
    BY <1>3, <1>6 DEF Busy
  <2> QED BY <1>1, <1>2, <1>3, <1>4, <2>1 DEF SendInv
<1>8. NoneTwice(q.body) /\ ToSet(q.body) \subseteq 1 .. typed
  BY <1>1 DEF Tracked, WordInv, Ranges, DraftRange
<1>9. Busy(c)' /\ ~Busy(c)
  BY <1>2, <1>3 DEF Busy
<1>10. q.send # 0 /\ q.times = 1 /\ UNCHANGED <<server, pty, typed, text>>
  BY <1>1, <1>2, <1>4
<1> QED BY <1>1, <1>3, <1>6, <1>7, <1>8, <1>9, <1>10, PostTracked

LEMMA TextAckedTracked ==
  ASSUME IInv, Ranges, Tracked, NEW c \in Composers, TextAcked(c)
  PROVE  Tracked'
<1> DEFINE L == Len(req)
           s == comp[c].send
<1>1. PICK q \in Reqs : /\ Posts(q) /\ q.op = "submit" /\ q.times = 1 /\ q.pc = "posted"
                        /\ q.send = comp[c].send /\ q.body = <<>>
  BY TextAckedIs
<1>2. /\ comp[c].pc = "text" /\ comp[c].awaits = s /\ s \in 1 .. L
      /\ req[s].pc = "ok" /\ req[s].op = "text" /\ UNCHANGED <<server, pty, typed, text, stored>>
      /\ comp'[c].pc = "submit" /\ comp'[c].send = s /\ comp'[c].awaits = L + 1
      /\ \A d \in Composers : d # c => comp'[d] = comp[d]
  BY TextAckedIs
<1>3. /\ L \in Nat /\ Len(req') = L + 1 /\ req'[L + 1] = q /\ L + 1 \in 1 .. L + 1
      /\ s \in 1 .. L + 1 /\ req'[s] = req[s]
  BY <1>1, <1>2 DEF Posts
<1>4. Busy(c) /\ Busy(c)'
  BY <1>2 DEF Busy
<1>5. /\ \A d \in Composers : Busy(d) /\ comp[d].send = s => d = c
      /\ ToSet(req[s].body) \subseteq ToSet(text[c])
  BY <1>4 DEF Tracked, SendInv
<1>6. SendInv(c)'
  <2>1. \A d \in Composers : Busy(d)' /\ comp'[d].send = s => d = c
    BY <1>2, <1>5 DEF Busy
  <2> QED BY <1>1, <1>2, <1>3, <1>5, <2>1 DEF SendInv
<1>7. NoneTwice(q.body) /\ ToSet(q.body) \subseteq 1 .. typed
  <2>1. Len(<<>>) = 0 /\ ToSet(<<>>) = {}
    BY DEF ToSet
  <2> QED BY <1>1, <2>1 DEF NoneTwice
<1>8. /\ \A d \in Composers : Busy(d) /\ d # c => comp[d].send # comp'[c].send
      /\ q.send # 0 /\ UNCHANGED <<server, pty, typed, text>>
      /\ Busy(c) => req[comp[c].awaits].pc = "ok"
  BY <1>1, <1>2, <1>5
<1> QED BY <1>1, <1>2, <1>4, <1>6, <1>7, <1>8, PostTracked

(* A composer that is done with its send, or whose send has failed.        *)
LEMMA RestTracked ==
  ASSUME IInv, Tracked, NEW c \in Composers, SubmitAcked(c) \/ Failed(c)
  PROVE  Tracked'
<1>1. /\ Busy(c) /\ ~Serving(comp[c].awaits) /\ UNCHANGED <<server, pty, req, typed>>
      /\ comp' = [comp EXCEPT ![c] = Idle]
      /\ text' = text \/ text' = [text EXCEPT ![c] = <<>>]
  BY DEF SubmitAcked, Failed, Answered, Busy, Serving
<1>2. ~Busy(c)' /\ \A d \in Composers : d # c => comp'[d] = comp[d] /\ text'[d] = text[d]
  BY <1>1, CompType DEF Busy, Idle
<1>3. text'[c] = text[c] \/ text'[c] = <<>>
  BY <1>1, CompType
<1>4. \A d \in Composers : Busy(d)' => d # c /\ Busy(d) /\ comp'[d] = comp[d]
  BY <1>2 DEF Busy
<1>5. SerialInv'
  <2> SUFFICES ASSUME NEW s \in 1 .. Len(req), Serving(s)
               PROVE  \E d \in Composers : Busy(d)' /\ comp'[d].awaits = s
    BY <1>1 DEF Tracked, SerialInv, Serving
  <2>1. PICK d \in Composers : Busy(d) /\ comp[d].awaits = s
    BY DEF Tracked, SerialInv
  <2>2. d # c
    BY <1>1, <2>1
  <2> QED BY <1>2, <2>1, <2>2 DEF Busy
<1>6. ASSUME NEW d \in Composers PROVE SendInv(d)'
  <2> SUFFICES ASSUME Busy(d)' PROVE SendInv(d)'
    BY DEF SendInv
  <2>1. d # c /\ Busy(d) /\ comp'[d] = comp[d] /\ text'[d] = text[d] /\ SendInv(d)
    BY <1>2, <1>4 DEF Tracked
  <2>2. \A e \in Composers : Busy(e)' /\ comp'[e].send = comp[d].send => e = d
    BY <1>4, <2>1 DEF SendInv
  <2> QED BY <1>1, <2>1, <2>2 DEF SendInv
<1>7. WordInv'
  <2>1. Len(<<>>) = 0 /\ ToSet(<<>>) = {}
    BY DEF ToSet
  <2>2. \A d \in Composers : text'[d] = text[d] \/ text'[d] = <<>>
    BY <1>2, <1>3
  <2>3. NoneTwice(<<>>)
    BY <2>1 DEF NoneTwice
  <2>4. \A d \in Composers : NoneTwice(text'[d]) /\ ToSet(text'[d]) \subseteq ToSet(text[d])
    BY <2>1, <2>2, <2>3 DEF Tracked, WordInv
  <2>5. \A d, e \in Composers : d # e => ToSet(text'[d]) \cap ToSet(text'[e]) = {}
    BY <2>4 DEF Tracked, WordInv
  <2> QED BY <1>1, <2>4, <2>5 DEF Tracked, WordInv
<1>8. OwnedInv' /\ dead' = {}
  <2>1. Len(req) \in Nat
    BY CompType
  <2> QED BY <1>1, <2>1, OwnedQuiet DEF Tracked, server
<1> QED BY <1>5, <1>6, <1>7, <1>8 DEF Tracked

LEMMA TypeTracked ==
  ASSUME IInv, Ranges, Tracked, NEW c \in Composers, Type(c)
  PROVE  Tracked'
<1>1. /\ typed' = typed + 1 /\ typed \in Nat /\ text'[c] = Append(text[c], typed')
      /\ \A d \in Composers : d # c => text'[d] = text[d]
      /\ UNCHANGED <<server, pty, req, comp>> /\ text[c] \in Seq(Nat)
  BY CompType DEF Type, Words
<1>2. ToSet(text'[c]) = ToSet(text[c]) \cup {typed'}
  BY <1>1, SeqToSet
<1>3. \A d \in Composers : typed' \notin ToSet(text[d])
  BY SMTT(30), <1>1 DEF Ranges, DraftRange
<1>4. \A d \in Composers : ToSet(text[d]) \subseteq ToSet(text'[d])
  BY <1>1, <1>2
<1>5. NoneTwice(text'[c])
  <2>1. /\ Len(text'[c]) = Len(text[c]) + 1 /\ Len(text[c]) \in Nat
        /\ \A n \in 1 .. Len(text[c]) : text'[c][n] = text[c][n] /\ text[c][n] \in ToSet(text[c])
        /\ text'[c][Len(text[c]) + 1] = typed'
    BY <1>1, SeqToSet
  <2>2. \A n \in 1 .. Len(text'[c]) : n \in 1 .. Len(text[c]) \/ n = Len(text[c]) + 1
    BY <2>1
  <2>3. \A n \in 1 .. Len(text[c]) : text'[c][n] # typed'
    BY <1>3, <2>1
  <2>4. NoneTwice(text[c])
    BY DEF Tracked, WordInv
  <2> QED BY <2>1, <2>2, <2>3, <2>4 DEF NoneTwice
<1>6. WordInv'
  <2>1. ASSUME NEW d \in Composers, NEW e \in Composers, d # e
        PROVE  ToSet(text'[d]) \cap ToSet(text'[e]) = {}
    <3>1. ToSet(text[d]) \cap ToSet(text[e]) = {}
      BY <2>1 DEF Tracked, WordInv
    <3> QED BY <1>1, <1>2, <1>3, <2>1, <3>1
  <2>2. \A d \in Composers : NoneTwice(text'[d])
    BY <1>1, <1>5 DEF Tracked, WordInv
  <2>3. \A r \in 1 .. Len(req') : ToSet(req'[r].body) \subseteq 1 .. typed'
    <3>1. 1 .. typed \subseteq 1 .. typed'
      BY <1>1
    <3> QED BY <1>1, <3>1 DEF Tracked, WordInv
  <2> QED BY <1>1, <2>1, <2>2, <2>3 DEF Tracked, WordInv
<1>7. SerialInv' /\ OwnedInv' /\ dead' = {}
  <2>1. Len(req) \in Nat
    BY CompType
  <2>2. SerialInv'
    BY <1>1 DEF Tracked, SerialInv, Serving, Busy
  <2> QED BY <1>1, <2>1, <2>2, OwnedQuiet DEF Tracked, server
<1>8. \A d \in Composers : SendInv(d)'
  BY <1>1, <1>4 DEF Tracked, SendInv, Busy
<1> QED BY <1>6, <1>7, <1>8 DEF Tracked

(* Sessions come and go.                                                   *)
LEMMA SessionTracked ==
  ASSUME IInv, Tracked, UNCHANGED <<dead, pty, req, client>>
  PROVE  Tracked'
<1>1. UNCHANGED <<typed, text, comp>>
  BY DEF client
<1>2. SerialInv' /\ WordInv' /\ \A c \in Composers : SendInv(c)'
  <2>1. SerialInv'
    BY <1>1 DEF Tracked, SerialInv, Serving, Busy
  <2>2. WordInv'
    BY <1>1 DEF Tracked, WordInv
  <2>3. \A c \in Composers : SendInv(c)'
    BY <1>1 DEF Tracked, SendInv, Busy
  <2> QED BY <2>1, <2>2, <2>3
<1>3. OwnedInv'
  BY CompType, OwnedQuiet
<1> QED BY <1>2, <1>3 DEF Tracked

LEMMA NextTracked ==
  ASSUME Disciplined, IInv, Ranges, Tracked, [Next]_vars
  PROVE  Tracked'
<1>1. CASE \E r \in 1 .. Len(req) : Lookup(r) \/ WriteBytes(r) \/ Wake(r)
  BY <1>1, LookupTracked, WriteTracked, WakeTracked
<1>2. CASE \E c \in Composers : TextAcked(c) \/ SubmitAcked(c) \/ Failed(c) \/ Type(c) \/ Send(c)
  BY <1>2, TextAckedTracked, RestTracked, TypeTracked, SendTracked
<1>3. CASE Delete \/ Create \/ UNCHANGED vars
  BY <1>3, SessionTracked DEF Delete, Create, vars, server
<1> QED BY <1>1, <1>2, <1>3, DisciplinedSteps DEF Tracked

(* What any step that is left does to the requests and the PTYs.           *)
StepShape ==
  /\ Len(req) \in Nat /\ Len(req') \in Nat /\ Len(req) <= Len(req')
  /\ table' \in {table, 0} \/ (born' = born + 1 /\ table' = born + 1)
  /\ \A s \in 1 .. Len(req) :
       /\ req'[s].op = req[s].op /\ req'[s].body = req[s].body /\ req'[s].send = req[s].send
       /\ req[s].pc \in {"ok", "error"} => req'[s] = req[s]
       /\ table = 0 /\ req[s].pc = "posted" => req'[s].pc \in {"posted", "error"}
  /\ \A r \in 1 .. Len(req') :
       /\ req'[r].pc = "found" =>
            \/ req'[r].at = table /\ table' = table
            \/ r \in 1 .. Len(req) /\ req[r].pc = "found" /\ req'[r].at = req[r].at
       /\ req'[r].pc = "error" =>
            r \in 1 .. Len(req) /\ (req[r].pc = "error" \/ (table = 0 /\ table' = 0))
  /\ \/ UNCHANGED pty
     \/ \E r \in 1 .. Len(req) :
          req[r].pc = "found" /\ \A j \in Instances : j # req[r].at => pty'[j] = pty[j]

LEMMA ServeShape ==
  ASSUME NEW r, NEW q, Replaces(r, q), UNCHANGED server, q.op = req[r].op,
         req[r].pc \notin {"ok", "error"},
         table = 0 /\ req[r].pc = "posted" => q.pc \in {"posted", "error"},
         q.pc = "found" => q.at = table,
         q.pc = "error" => table = 0,
         \/ UNCHANGED pty
         \/ req[r].pc = "found" /\ \A j \in Instances : j # req[r].at => pty'[j] = pty[j]
  PROVE  StepShape
<1>1. /\ Len(req') = Len(req) /\ req'[r] = q /\ Len(req) \in Nat /\ r \in 1 .. Len(req)
      /\ \A s \in 1 .. Len(req) : s # r => req'[s] = req[s]
      /\ q.body = req[r].body /\ q.send = req[r].send
  BY DEF Replaces
<1>2. table' = table
  BY DEF server
<1>3. \A s \in 1 .. Len(req) :
       /\ req'[s].op = req[s].op /\ req'[s].body = req[s].body /\ req'[s].send = req[s].send
       /\ req[s].pc \in {"ok", "error"} => req'[s] = req[s]
       /\ table = 0 /\ req[s].pc = "posted" => req'[s].pc \in {"posted", "error"}
  BY <1>1
<1>4. \A s \in 1 .. Len(req) :
       /\ req'[s].pc = "found" =>
            \/ req'[s].at = table
            \/ req[s].pc = "found" /\ req'[s].at = req[s].at
       /\ req'[s].pc = "error" => req[s].pc = "error" \/ table = 0
  BY <1>1
<1> QED BY <1>1, <1>2, <1>3, <1>4 DEF StepShape

LEMMA PostShape ==
  ASSUME NEW q, Posts(q), q.pc = "posted", UNCHANGED <<table, pty>>
  PROVE  StepShape
<1>1. /\ Len(req) \in Nat /\ Len(req') = Len(req) + 1 /\ req'[Len(req) + 1] = q
      /\ \A s \in 1 .. Len(req) : req'[s] = req[s]
      /\ \A s \in 1 .. Len(req') : s \in 1 .. Len(req) \/ s = Len(req) + 1
  BY DEF Posts
<1>2. \A r \in 1 .. Len(req') :
       /\ req'[r].pc = "found" =>
            r \in 1 .. Len(req) /\ req[r].pc = "found" /\ req'[r].at = req[r].at
       /\ req'[r].pc = "error" => r \in 1 .. Len(req) /\ req[r].pc = "error"
  BY <1>1
<1>3. /\ Len(req') \in Nat /\ Len(req) <= Len(req') /\ table' \in {table, 0}
      /\ \A s \in 1 .. Len(req) :
           /\ req'[s].op = req[s].op /\ req'[s].body = req[s].body /\ req'[s].send = req[s].send
           /\ req[s].pc \in {"ok", "error"} => req'[s] = req[s]
           /\ table = 0 /\ req[s].pc = "posted" => req'[s].pc \in {"posted", "error"}
  BY <1>1
<1> QED BY <1>1, <1>2, <1>3 DEF StepShape

LEMMA AnyShape ==
  ASSUME Disciplined, IInv, Tracked, [Next]_vars
  PROVE  StepShape
<1>0. Len(req) \in Nat
  BY CompType
<1>1. ASSUME NEW r \in 1 .. Len(req), Lookup(r) PROVE StepShape
  <2>1. /\ req[r].pc = "posted" /\ UNCHANGED <<server, pty, client>>
    BY <1>1, LookupIs
  <2>2. PICK q \in Reqs : /\ Replaces(r, q) /\ q.op = req[r].op /\ q.at = table
                          /\ q.pc = (IF table = 0 THEN "error" ELSE "found")
    BY <1>1, LookupIs
  <2> QED BY <2>1, <2>2, ServeShape
<1>2. ASSUME NEW r \in 1 .. Len(req), Wake(r) PROVE StepShape
  <2>1. req[r].op = "text" /\ req[r].pc = "sleep" /\ UNCHANGED <<server, pty, client>>
    BY <1>2, WakeIs DEF Tracked, SerialInv
  <2>2. \E q \in Reqs : Replaces(r, q) /\ q.op = req[r].op /\ q.pc = "ok"
    BY <1>2, <2>1, WakeIs
  <2> QED BY <2>1, <2>2, ServeShape
<1>3. ASSUME NEW r \in 1 .. Len(req), WriteBytes(r) PROVE StepShape
  <2>1. /\ req[r].pc = "found" /\ UNCHANGED <<server, client>>
        /\ \E q \in Reqs : /\ Replaces(r, q) /\ q.op = req[r].op
                           /\ q.pc \in {"ok", "posted", "sleep"}
    BY <1>3, WriteIs
  <2>2. \A j \in Instances : j # req[r].at => pty'[j] = pty[j]
    BY <1>3, WriteIs DEF Writes
  <2> QED BY <2>1, <2>2, ServeShape
<1>4. ASSUME NEW c \in Composers, Send(c) \/ TextAcked(c) PROVE StepShape
  <2>1. UNCHANGED <<table, pty>> /\ \E q \in Reqs : Posts(q) /\ q.pc = "posted"
    BY <1>4, SendIs, TextAckedIs DEF server
  <2> QED BY <2>1, PostShape
<1>5. ASSUME UNCHANGED <<req, pty>>, table' \in {table, 0} \/ (born' = born + 1 /\ table' = born + 1)
      PROVE  StepShape
  BY <1>0, <1>5 DEF StepShape
<1>6. ASSUME NEW c \in Composers, SubmitAcked(c) \/ Failed(c) \/ Type(c) PROVE StepShape
  <2>1. UNCHANGED <<req, pty, table>>
    BY <1>6 DEF SubmitAcked, Failed, Type, server
  <2> QED BY <1>5, <2>1
<1>7. CASE Delete \/ Create \/ UNCHANGED vars
  <2>1. UNCHANGED <<req, pty>> /\ (table' \in {table, 0} \/ (born' = born + 1 /\ table' = born + 1))
    BY <1>7 DEF Delete, Create, vars, server
  <2> QED BY <1>5, <2>1
<1>8. dead = {}
  BY DEF Tracked
<1> QED BY <1>1, <1>2, <1>3, <1>4, <1>6, <1>7, <1>8, DisciplinedSteps

(* Where two texts of the next state that share a word come from.          *)
LEMMA TextsShared ==
  ASSUME Disciplined, IInv, Tracked, [Next]_vars,
         NEW s \in 1 .. Len(req'), NEW t \in 1 .. Len(req'),
         Text(s)', Text(t)', s < t, Share(req'[s].body, req'[t].body)
  PROVE  /\ s \in 1 .. Len(req) /\ Text(s)
         /\ \/ t \in 1 .. Len(req) /\ Text(t) /\ Share(req[s].body, req[t].body)
            \/ /\ t \notin 1 .. Len(req) /\ req'[t].pc = "posted"
               /\ \E c \in Composers : ~Busy(c) /\ Share(req[s].body, text[c])
<1>1. StepShape
  BY AnyShape
<1>2. CASE t \in 1 .. Len(req)
  <2>1. s \in 1 .. Len(req)
    BY <1>2
  <2> QED BY <1>1, <1>2, <2>1 DEF StepShape, Text
<1>3. CASE t \notin 1 .. Len(req)
  <2>1. PICK c \in Composers : Send(c) \/ TextAcked(c)
    <3>1. Len(req') # Len(req)
      BY <1>3
    <3>2. \A r \in 1 .. Len(req) : ~Lookup(r) /\ ~WriteBytes(r) /\ ~Wake(r)
      BY <3>1, LookupIs, WriteIs, WakeIs DEF Replaces
    <3> QED BY <3>1, <3>2, DisciplinedSteps
            DEF Tracked, SubmitAcked, Failed, Type, Delete, Create, vars
  <2>2. CASE Send(c)
    <3>1. PICK q \in Reqs : Posts(q) /\ q.pc = "posted" /\ q.body = text[c]
      BY <2>2, SendIs
    <3>2. ~Busy(c)
      BY <2>2, SendIs DEF Busy
    <3>3. t = Len(req) + 1 /\ s \in 1 .. Len(req) /\ req'[t] = q /\ req'[s] = req[s]
      BY <1>3, <3>1 DEF Posts
    <3> QED BY <1>3, <3>1, <3>2, <3>3 DEF Text
  <2>3. CASE TextAcked(c)
    <3>1. PICK q \in Reqs : Posts(q) /\ q.op = "submit"
      BY <2>3, TextAckedIs
    <3> QED BY <1>3, <3>1 DEF Posts, Text
  <2> QED BY <2>1, <2>2, <2>3
<1> QED BY <1>2, <1>3

(* Where a word that is sent and shown, but not in the send under way,     *)
(* comes from: it was shown already, or its send has just failed.          *)
LEMMA ShownShared ==
  ASSUME Disciplined, IInv, Ranges, Tracked, [Next]_vars,
         NEW s \in 1 .. Len(req'), NEW c \in Composers,
         Text(s)', Share(req'[s].body, text'[c]), ~(Busy(c)' /\ comp'[c].send = s)
  PROVE  /\ s \in 1 .. Len(req) /\ Text(s) /\ Share(req[s].body, text[c])
         /\ \/ ~(Busy(c) /\ comp[c].send = s)
            \/ Busy(c) /\ comp[c].send = s /\ req[comp[c].awaits].pc = "error"
<1>0. Len(req) \in Nat /\ Len(req') \in Nat
  BY AnyShape DEF StepShape
<1>1. ASSUME s \in 1 .. Len(req) PROVE Text(s) /\ req'[s].body = req[s].body
  BY <1>1, AnyShape DEF StepShape, Text
<1>2. CASE s \in 1 .. Len(req) /\ text'[c] = text[c] /\ comp'[c] = comp[c]
  BY <1>1, <1>2 DEF Busy
<1>3. ASSUME NEW d \in Composers, Send(d)
      PROVE  s \in 1 .. Len(req) /\ text'[c] = text[c] /\ (c = d => ~Busy(c)) /\ (c # d => comp'[c] = comp[c])
  <2>1. PICK q \in Reqs : Posts(q) /\ q.body = text[d]
    BY <1>3, SendIs
  <2>2. /\ comp[d].pc = "idle" /\ text' = text
        /\ comp' = [comp EXCEPT ![d] = [pc |-> "text", send |-> Len(req) + 1,
                                        awaits |-> Len(req) + 1]]
    BY <1>3, SendIs
  <2>3. /\ comp'[d].pc = "text" /\ comp'[d].send = Len(req) + 1
        /\ \A e \in Composers : e # d => comp'[e] = comp[e]
    BY <2>2, CompType
  <2>4. CASE s \notin 1 .. Len(req)
    <3>1. s = Len(req) + 1 /\ req'[s].body = text[d]
      BY <2>1, <2>4 DEF Posts
    <3>2. c # d
      BY <2>3, <3>1 DEF Busy
    <3>3. ToSet(text[d]) \cap ToSet(text[c]) = {}
      BY <3>2 DEF Tracked, WordInv
    <3> QED BY <2>2, <3>1, <3>3 DEF Share
  <2> QED BY <2>2, <2>3, <2>4 DEF Busy
<1>4. ASSUME NEW d \in Composers, TextAcked(d)
      PROVE  s \in 1 .. Len(req) /\ text'[c] = text[c] /\ (Busy(c)' <=> Busy(c)) /\ comp'[c].send = comp[c].send
  <2>1. PICK q \in Reqs : Posts(q) /\ q.op = "submit"
    BY <1>4, TextAckedIs
  <2>2. /\ text' = text /\ comp[d].pc = "text" /\ comp'[d].pc = "submit"
        /\ comp'[d].send = comp[d].send
        /\ \A e \in Composers : e # d => comp'[e] = comp[e]
    BY <1>4, TextAckedIs
  <2>3. s \in 1 .. Len(req)
    BY <2>1 DEF Posts, Text
  <2> QED BY <2>2, <2>3 DEF Busy
<1>5. ASSUME NEW d \in Composers, SubmitAcked(d)
      PROVE  s \in 1 .. Len(req) /\ c # d /\ text'[c] = text[c] /\ comp'[c] = comp[c]
  <2>1. text' = [text EXCEPT ![d] = <<>>] /\ comp' = [comp EXCEPT ![d] = Idle] /\ req' = req
    BY <1>5 DEF SubmitAcked
  <2>2. text'[d] = <<>> /\ ToSet(<<>>) = {}
    BY <2>1, CompType DEF ToSet
  <2>3. c # d
    BY <2>2 DEF Share
  <2> QED BY <2>1, <2>3, CompType
<1>6. ASSUME NEW d \in Composers, Failed(d)
      PROVE  /\ s \in 1 .. Len(req) /\ text'[c] = text[c]
             /\ c # d => comp'[c] = comp[c]
             /\ c = d => Busy(c) /\ req[comp[c].awaits].pc = "error"
  BY <1>6, CompType DEF Failed, Answered, Busy
<1>7. ASSUME NEW d \in Composers, Type(d)
      PROVE  s \in 1 .. Len(req) /\ Share(req[s].body, text[c]) /\ comp'[c] = comp[c]
  <2>1. /\ req' = req /\ comp' = comp /\ typed' = typed + 1 /\ typed \in Nat
        /\ text[d] \in Seq(Nat)
        /\ text'[d] = Append(text[d], typed') /\ \A e \in Composers : e # d => text'[e] = text[e]
    BY SMTT(30), <1>7, CompType DEF Type, Words
  <2>2. ToSet(text'[d]) = ToSet(text[d]) \cup {typed'}
    BY SMTT(30), <2>1, SeqToSet
  <2>3. typed' \notin ToSet(req[s].body)
    <3>1. s \in 1 .. Len(req)
      BY <2>1
    <3>2. ToSet(req[s].body) \subseteq 1 .. typed
      BY <3>1 DEF Tracked, WordInv
    <3> QED BY <2>1, <3>2
  <2>4. ToSet(text'[c]) \subseteq ToSet(text[c]) \cup {typed'}
    BY <2>1, <2>2
  <2> QED BY <2>1, <2>3, <2>4 DEF Share
<1>8. ASSUME NEW r \in 1 .. Len(req), Lookup(r) \/ WriteBytes(r) \/ Wake(r)
      PROVE  s \in 1 .. Len(req) /\ text'[c] = text[c] /\ comp'[c] = comp[c]
  BY <1>8, LookupIs, WriteIs, WakeIs DEF Replaces, client
<1>9. CASE Delete \/ Create \/ UNCHANGED vars
  BY <1>2, <1>9 DEF Delete, Create, vars, client
<1>10. CASE \E d \in Composers : Send(d)
  BY <1>1, <1>3, <1>10 DEF Busy
<1>11. CASE \E d \in Composers : TextAcked(d)
  BY <1>1, <1>4, <1>11
<1>12. CASE \E d \in Composers : SubmitAcked(d)
  BY <1>2, <1>5, <1>12
<1>13. CASE \E d \in Composers : Failed(d)
  BY <1>1, <1>2, <1>6, <1>13
<1>14. CASE \E d \in Composers : Type(d)
  BY <1>1, <1>7, <1>14 DEF Busy
<1>15. CASE \E r \in 1 .. Len(req) : Lookup(r) \/ WriteBytes(r) \/ Wake(r)
  BY <1>2, <1>8, <1>15
<1>16. dead = {}
  BY DEF Tracked
<1> QED BY <1>9, <1>10, <1>11, <1>12, <1>13, <1>14, <1>15, <1>16, DisciplinedSteps

(* A send that is lost stays lost.                                         *)
LEMMA LostStays ==
  ASSUME Disciplined, IInv, Tracked, Tracked', [Next]_vars,
         NEW s \in 1 .. Len(req), Text(s), Lost(s)
  PROVE  Lost(s)'
<1>1. StepShape
  BY AnyShape
<1>2. CASE req[s].pc = "error"
  BY <1>1, <1>2 DEF StepShape, Lost
<1>3. CASE req[s].pc # "error"
  <2>1. /\ req[s].pc = "ok" /\ req[s].at # table /\ Unentered(s)
        /\ \A r \in 1 .. Len(req) : req[r].pc = "found" => req[r].at # req[s].at
    BY <1>3 DEF Lost
  <2>2. req'[s] = req[s] /\ s \in 1 .. Len(req')
    BY <1>1, <2>1 DEF StepShape
  <2>3. req[s].at \in 1 .. born /\ born \in Nat
    BY <2>1, ReqType DEF ReqInv, Text, Tracked, SerialInv
  <2>4. req'[s].at # table'
    BY <1>1, <2>1, <2>2, <2>3 DEF StepShape
  <2>5. \A r \in 1 .. Len(req') : req'[r].pc = "found" => req'[r].at # req'[s].at
    BY <1>1, <2>1, <2>2 DEF StepShape
  <2>6. Unentered(s)'
    <3> SUFFICES ASSUME NEW i \in Instances, NEW m \in 1 .. Len(pty'[i]), NEW n \in 1 .. Len(pty'[i]),
                        m < n, pty'[i][m][1] = s, pty'[i][m][2] # Enter
                 PROVE  pty'[i][n][2] # Enter
      BY DEF Unentered
    <3>1. req'[s].at = i
      BY DEF Tracked, OwnedInv, Owned
    <3>2. pty'[i] = pty[i]
      BY SMTT(30), <1>1, <2>1, <2>2, <3>1 DEF StepShape
    <3> QED BY <2>1, <3>2 DEF Unentered
  <2> QED BY <2>1, <2>2, <2>4, <2>5, <2>6 DEF Lost
<1> QED BY <1>2, <1>3

(* One send at a time.                                                     *)
LEMMA LostStep ==
  ASSUME Disciplined, IInv, Ranges, Tracked, Tracked', [Next]_vars, OneSendAtATime, OneInv
  PROVE  LostInv'
<1>1. ASSUME NEW s \in 1 .. Len(req), NEW c \in Composers,
             Text(s), Share(req[s].body, text[c]), ~(Busy(c) /\ comp[c].send = s)
      PROVE  Lost(s)
  BY <1>1 DEF OneInv, LostInv
<1>2. ASSUME NEW s \in 1 .. Len(req'), NEW t \in 1 .. Len(req'),
             Text(s)', Text(t)', s < t, Share(req'[s].body, req'[t].body)
      PROVE  Lost(s)'
  <2>1. /\ s \in 1 .. Len(req) /\ Text(s)
        /\ \/ t \in 1 .. Len(req) /\ Text(t) /\ Share(req[s].body, req[t].body)
           \/ \E c \in Composers : ~Busy(c) /\ Share(req[s].body, text[c])
    BY <1>2, TextsShared
  <2>2. Lost(s)
    BY <1>1, <1>2, <2>1 DEF OneInv, LostInv
  <2> QED BY <2>1, <2>2, LostStays
<1>3. ASSUME NEW s \in 1 .. Len(req), NEW c \in Composers, Text(s), Busy(c), comp[c].send = s,
             req[comp[c].awaits].pc = "error"
      PROVE  Lost(s)
  <2>1. comp[c].pc \in {"text", "submit"} /\ comp[c].awaits \in 1 .. Len(req) /\ SendInv(c)
    BY <1>3, CompType DEF Busy, Tracked, SendInv
  <2>2. CASE comp[c].pc = "text"
    BY <1>3, <2>1, <2>2 DEF SendInv, Lost
  <2>3. CASE comp[c].pc = "submit"
    <3>1. /\ req[comp[c].awaits].op = "submit" /\ req[comp[c].awaits].send = s
          /\ req[s].pc = "ok"
      BY <1>3, <2>1, <2>3 DEF SendInv
    <3>2. req[s].at # table
      BY <1>3, <2>1, <3>1 DEF OneInv, ErrorInv
    <3>3. Unentered(s)
      BY <1>3 DEF OneInv, OpenInv, Submitted
    <3>4. ASSUME NEW r \in 1 .. Len(req) PROVE req[r].pc # "found"
      <4> SUFFICES ASSUME req[r].pc = "found" PROVE FALSE
        OBVIOUS
      <4>1. PICK d \in Composers : Busy(d) /\ comp[d].awaits = r
        BY DEF Tracked, SerialInv, Serving
      <4>2. d = c
        BY <1>3, <4>1 DEF Busy, OneSendAtATime
      <4> QED BY <1>3, <4>1, <4>2
    <3> QED BY <3>1, <3>2, <3>3, <3>4 DEF Lost
  <2> QED BY <2>1, <2>2, <2>3
<1>4. ASSUME NEW s \in 1 .. Len(req'), NEW c \in Composers,
             Text(s)', Share(req'[s].body, text'[c]), ~(Busy(c)' /\ comp'[c].send = s)
      PROVE  Lost(s)'
  <2>1. /\ s \in 1 .. Len(req) /\ Text(s) /\ Share(req[s].body, text[c])
        /\ \/ ~(Busy(c) /\ comp[c].send = s)
           \/ Busy(c) /\ comp[c].send = s /\ req[comp[c].awaits].pc = "error"
    BY <1>4, ShownShared
  <2>2. Lost(s)
    BY <1>1, <1>3, <2>1
  <2> QED BY <2>1, <2>2, LostStays
<1> QED BY <1>2, <1>4 DEF LostInv

LEMMA ErrorStep ==
  ASSUME Disciplined, IInv, Tracked, [Next]_vars, ErrorInv
  PROVE  ErrorInv'
<1> SUFFICES ASSUME NEW r \in 1 .. Len(req'), req'[r].op = "submit", req'[r].pc = "error"
             PROVE  req'[req'[r].send].at # table'
  BY DEF ErrorInv
<1>1. StepShape
  BY AnyShape
<1>2. /\ r \in 1 .. Len(req) /\ (req[r].pc = "error" \/ (table = 0 /\ table' = 0))
      /\ req[r].op = "submit" /\ req'[r].send = req[r].send
  BY <1>1 DEF StepShape
<1> DEFINE s == req[r].send
<1>3. /\ s \in 1 .. Len(req) /\ req[s].op = "text" /\ req[s].pc = "ok" /\ s # 0
      /\ req[s].send = s
  BY <1>2, ReqType DEF ReqInv, Tracked, SerialInv
<1>4. req[s].at \in 1 .. born /\ born \in Nat
  BY <1>3, ReqType DEF ReqInv
<1>5. req'[s] = req[s]
  BY <1>1, <1>3 DEF StepShape
<1>6. CASE req[r].pc = "error"
  <2>1. req[s].at # table
    BY <1>2, <1>6 DEF ErrorInv
  <2> QED BY <1>1, <1>2, <1>4, <1>5, <2>1 DEF StepShape
<1>7. CASE table' = 0
  BY <1>2, <1>4, <1>5, <1>7
<1> QED BY <1>2, <1>6, <1>7

(* A request that may still write is the one the one busy composer waits   *)
(* for, and what it writes is that composer's text or its Enter.           *)
LEMMA WriterIs ==
  ASSUME IInv, Tracked, OneSendAtATime, NEW r \in 1 .. Len(req), Serving(r)
  PROVE  \E c \in Composers :
           /\ Busy(c) /\ comp[c].awaits = r /\ \A d \in Composers : Busy(d) => d = c
           /\ req[r].send = comp[c].send /\ req[r].send \in 1 .. Len(req)
           /\ req[r].op = "text" => comp[c].pc = "text" /\ comp[c].send = r
           /\ req[r].op = "submit" => comp[c].pc = "submit" /\ req[comp[c].send].pc = "ok"
<1>1. PICK c \in Composers : Busy(c) /\ comp[c].awaits = r
  BY DEF Tracked, SerialInv
<1>2. \A d \in Composers : Busy(d) => d = c
  BY <1>1 DEF Busy, OneSendAtATime
<1>3. SendInv(c) /\ comp[c].pc \in {"text", "submit"}
  BY <1>1, CompType DEF Tracked, Busy
<1>4. req[r].op = "text" => req[r].send = r
  BY DEF Tracked, SerialInv
<1> QED BY <1>1, <1>2, <1>3, <1>4 DEF SendInv

(* The two kinds of write.                                                 *)
LEMMA TextWritten ==
  ASSUME IInv, Tracked, NEW r \in 1 .. Len(req), WriteBytes(r), req[r].op = "text"
  PROVE  /\ req[r].pc = "found" /\ UNCHANGED <<server, client>>
         /\ req[r].at \in Instances /\ Len(pty[req[r].at]) \in Nat /\ Len(req[r].body) \in Nat
         /\ Len(pty'[req[r].at]) = Len(pty[req[r].at]) + Len(req[r].body)
         /\ \A n \in 1 .. Len(pty[req[r].at]) : pty'[req[r].at][n] = pty[req[r].at][n]
         /\ \A k \in 1 .. Len(req[r].body) :
              /\ pty'[req[r].at][Len(pty[req[r].at]) + k] = <<r, req[r].body[k]>>
              /\ req[r].body[k] # Enter
         /\ \A j \in Instances : j # req[r].at => pty'[j] = pty[j]
         /\ Len(req') = Len(req) /\ req'[r].pc = "sleep" /\ req'[r].op = "text"
         /\ req'[r].body = req[r].body
         /\ \A s \in 1 .. Len(req) : s # r => req'[s] = req[s]
<1>1. req[r].times = 1 /\ req[r].send = r /\ r # 0
  BY CompType DEF Tracked, SerialInv
<1>2. /\ req[r].pc = "found" /\ UNCHANGED <<server, client>>
      /\ \E q \in Reqs : Replaces(r, q) /\ q.op = req[r].op /\ q.pc = "sleep"
  BY WriteIs
<1>3. PICK t \in Seq(Nat \X Nat) :
        /\ Writes(req[r].at, t) /\ Len(t) = Len(Keys(r))
        /\ \A n \in 1 .. Len(Keys(r)) : t[n] = <<req[r].send, Keys(r)[n]>>
  BY WriteIs
<1>4. Keys(r) = req[r].body /\ Enter \notin ToSet(req[r].body) /\ req[r].body \in Seq(Nat)
  BY <1>1, ReqType DEF Keys, ReqInv, Reqs
<1>5. \A k \in 1 .. Len(req[r].body) : req[r].body[k] # Enter
  BY <1>4, SeqToSet
<1>6. \A k \in 1 .. Len(req[r].body) : t[k] = <<r, req[r].body[k]>>
  BY <1>1, <1>3, <1>4
<1>7. /\ Len(req') = Len(req) /\ req'[r].pc = "sleep" /\ req'[r].op = "text"
      /\ req'[r].body = req[r].body
      /\ \A s \in 1 .. Len(req) : s # r => req'[s] = req[s]
  BY <1>2 DEF Replaces
<1>8. Len(t) = Len(req[r].body)
  BY <1>3, <1>4
<1> QED BY <1>2, <1>3, <1>5, <1>6, <1>7, <1>8 DEF Writes

LEMMA EnterWritten ==
  ASSUME IInv, Tracked, NEW r \in 1 .. Len(req), WriteBytes(r), req[r].op = "submit"
  PROVE  /\ req[r].pc = "found" /\ UNCHANGED <<server, client>>
         /\ req[r].at \in Instances /\ Len(pty[req[r].at]) \in Nat
         /\ Len(pty'[req[r].at]) = Len(pty[req[r].at]) + 1
         /\ \A n \in 1 .. Len(pty[req[r].at]) : pty'[req[r].at][n] = pty[req[r].at][n]
         /\ pty'[req[r].at][Len(pty[req[r].at]) + 1] = <<req[r].send, Enter>>
         /\ \A j \in Instances : j # req[r].at => pty'[j] = pty[j]
         /\ Len(req') = Len(req) /\ req'[r].pc = "ok" /\ req'[r].op = "submit"
         /\ req'[r].body = req[r].body
         /\ \A s \in 1 .. Len(req) : s # r => req'[s] = req[s]
<1>1. req[r].times = 1
  BY DEF Tracked, SerialInv
<1>2. /\ req[r].pc = "found" /\ UNCHANGED <<server, client>>
      /\ \E q \in Reqs : Replaces(r, q) /\ q.op = req[r].op /\ q.pc = "ok"
  BY <1>1, WriteIs
<1>3. PICK t \in Seq(Nat \X Nat) :
        /\ Writes(req[r].at, t) /\ Len(t) = Len(Keys(r))
        /\ \A n \in 1 .. Len(Keys(r)) : t[n] = <<req[r].send, Keys(r)[n]>>
  BY WriteIs
<1>4. Keys(r) = <<Enter>> /\ Len(Keys(r)) = 1 /\ Keys(r)[1] = Enter
  BY DEF Keys
<1>5. Len(t) = 1 /\ t[1] = <<req[r].send, Enter>>
  BY <1>3, <1>4
<1>6. /\ Len(req') = Len(req) /\ req'[r].pc = "ok" /\ req'[r].op = "submit"
      /\ req'[r].body = req[r].body
      /\ \A s \in 1 .. Len(req) : s # r => req'[s] = req[s]
  BY <1>2 DEF Replaces
<1>7. /\ req[r].at \in Instances /\ Len(pty[req[r].at]) \in Nat
      /\ Len(pty'[req[r].at]) = Len(pty[req[r].at]) + 1
      /\ \A n \in 1 .. Len(pty[req[r].at]) : pty'[req[r].at][n] = pty[req[r].at][n]
      /\ \A n \in 1 .. 1 : pty'[req[r].at][Len(pty[req[r].at]) + n] = t[n]
      /\ \A j \in Instances : j # req[r].at => pty'[j] = pty[j]
  BY <1>3, <1>5 DEF Writes
<1>8. pty'[req[r].at][Len(pty[req[r].at]) + 1] = <<req[r].send, Enter>>
  BY <1>5, <1>7
<1> QED BY <1>2, <1>6, <1>7, <1>8

(* A write under the one send that is under way leaves no Enter after the  *)
(* words of a send that is not submitted.                                  *)
LEMMA OpenWrite ==
  ASSUME IInv, Tracked, OneSendAtATime, OpenInv, NEW r \in 1 .. Len(req), WriteBytes(r)
  PROVE  OpenInv'
<1>1. req[r].pc = "found" /\ UNCHANGED <<server, client>> /\ Serving(r)
  BY WriteIs DEF Serving
<1>2. PICK c \in Composers :
        /\ Busy(c) /\ comp[c].awaits = r /\ \A d \in Composers : Busy(d) => d = c
        /\ req[r].send = comp[c].send /\ req[r].send \in 1 .. Len(req)
        /\ req[r].op = "text" => comp[c].pc = "text" /\ comp[c].send = r
        /\ req[r].op = "submit" => comp[c].pc = "submit" /\ req[comp[c].send].pc = "ok"
  BY <1>1, WriterIs
<1>3. comp' = comp
  BY <1>1 DEF client
<1>4. CASE req[r].op = "submit"
  <2>1. req'[r].pc = "ok"
    BY <1>4, EnterWritten
  <2>2. Submitted(c)'
    BY <1>2, <1>3, <1>4, <2>1 DEF Submitted
  <2> QED BY <1>2, <1>3, <2>2 DEF OpenInv, Busy
<1>5. CASE req[r].op = "text"
  <2>1. /\ req[r].at \in Instances /\ Len(pty[req[r].at]) \in Nat /\ Len(req[r].body) \in Nat
        /\ Len(pty'[req[r].at]) = Len(pty[req[r].at]) + Len(req[r].body)
        /\ \A n \in 1 .. Len(pty[req[r].at]) : pty'[req[r].at][n] = pty[req[r].at][n]
        /\ \A k \in 1 .. Len(req[r].body) :
              /\ pty'[req[r].at][Len(pty[req[r].at]) + k] = <<r, req[r].body[k]>>
              /\ req[r].body[k] # Enter
        /\ \A j \in Instances : j # req[r].at => pty'[j] = pty[j]
    BY <1>5, TextWritten
  <2>2. Unentered(r)
    BY <1>1, <1>2, <1>5 DEF OpenInv, Submitted
  <2>3. Unentered(r)'
    <3> SUFFICES ASSUME NEW i \in Instances, NEW m \in 1 .. Len(pty'[i]), NEW n \in 1 .. Len(pty'[i]),
                        m < n, pty'[i][m][1] = r, pty'[i][m][2] # Enter
                 PROVE  pty'[i][n][2] # Enter
      BY DEF Unentered
    <3>1. CASE n \in 1 .. Len(pty[i])
      <4>1. m \in 1 .. Len(pty[i])
        BY <3>1
      <4>2. pty'[i][m] = pty[i][m] /\ pty'[i][n] = pty[i][n]
        BY <2>1, <3>1, <4>1
      <4> QED BY <2>2, <3>1, <4>1, <4>2 DEF Unentered
    <3>2. CASE n \notin 1 .. Len(pty[i])
      <4>1. i = req[r].at
        BY <2>1, <3>2
      <4> DEFINE L == Len(pty[i])
                 B == Len(req[r].body)
                 k == n - L
      <4>2. L \in Nat /\ B \in Nat /\ Len(pty'[i]) = L + B
        BY <2>1, <4>1
      <4>3. n \in 1 .. L + B /\ n \notin 1 .. L
        BY <3>2, <4>2
      <4> HIDE DEF L, B
      <4>4. k \in 1 .. B /\ n = L + k
        BY <4>2, <4>3
      <4> HIDE DEF k
      <4>5. pty'[i][n] = <<r, req[r].body[k]>> /\ req[r].body[k] # Enter
        BY <2>1, <4>1, <4>4 DEF L, B
      <4> QED BY <4>5
    <3> QED BY <3>1, <3>2
  <2> QED BY <1>2, <1>3, <1>5, <2>3 DEF OpenInv, Busy
<1> QED BY <1>4, <1>5 DEF Tracked, SerialInv

LEMMA OpenStep ==
  ASSUME Disciplined, IInv, Tracked, [Next]_vars, OneSendAtATime, OpenInv
  PROVE  OpenInv'
<1>1. StepShape
  BY AnyShape
<1>2. \A s : pty' = pty /\ Unentered(s) => Unentered(s)'
  BY DEF Unentered
<1>3. ASSUME pty' = pty, NEW c \in Composers, comp'[c] = comp[c], Busy(c)', ~Submitted(c)'
      PROVE  Unentered(comp[c].send)'
  <2>1. Busy(c) /\ comp[c].awaits \in 1 .. Len(req)
    BY <1>3 DEF Busy, Tracked, SendInv
  <2>2. ~Submitted(c)
    BY <1>1, <1>3, <2>1 DEF Submitted, StepShape
  <2> QED BY <1>2, <1>3, <2>1, <2>2 DEF OpenInv
<1>4. ASSUME pty' = pty, comp' = comp PROVE OpenInv'
  BY <1>3, <1>4 DEF OpenInv
<1>5. ASSUME NEW r \in 1 .. Len(req), Lookup(r) \/ Wake(r) PROVE OpenInv'
  BY <1>4, <1>5, LookupIs, WakeIs DEF client
<1>6. ASSUME NEW c \in Composers, Send(c) PROVE OpenInv'
  <2>1. /\ pty' = pty /\ Len(req) \in Nat
        /\ comp' = [comp EXCEPT ![c] = [pc |-> "text", send |-> Len(req) + 1,
                                        awaits |-> Len(req) + 1]]
    BY <1>6, SendIs, CompType
  <2>2. comp'[c].send = Len(req) + 1 /\ \A d \in Composers : d # c => comp'[d] = comp[d]
    BY <2>1, CompType
  <2>3. Unentered(comp[c].send)'
    <3>1. \A i \in Instances : \A m \in 1 .. Len(pty[i]) : pty[i][m][1] \in 1 .. Len(req)
      BY DEF Tracked, OwnedInv, Owned
    <3>2. Len(req) + 1 \notin 1 .. Len(req)
      BY <2>1
    <3> DEFINE s == Len(req) + 1
    <3>3. \A i \in Instances : \A m \in 1 .. Len(pty[i]) : pty[i][m][1] # s
      BY <3>1, <3>2
    <3> HIDE DEF s
    <3>4. comp'[c].send = s
      BY <2>2 DEF s
    <3> QED BY <2>1, <3>3, <3>4 DEF Unentered
  <2> QED BY <1>3, <2>1, <2>2, <2>3 DEF OpenInv
<1>7. ASSUME NEW c \in Composers, TextAcked(c) PROVE OpenInv'
  <2>1. /\ pty' = pty /\ comp[c].pc = "text" /\ comp'[c].send = comp[c].send
        /\ \A d \in Composers : d # c => comp'[d] = comp[d]
    BY <1>7, TextAckedIs
  <2>2. Unentered(comp[c].send)
    BY <2>1 DEF OpenInv, Busy, Submitted
  <2> QED BY <1>2, <1>3, <2>1, <2>2 DEF OpenInv
<1>8. ASSUME NEW c \in Composers, SubmitAcked(c) \/ Failed(c) PROVE OpenInv'
  <2>1. pty' = pty /\ comp' = [comp EXCEPT ![c] = Idle]
    BY <1>8 DEF SubmitAcked, Failed
  <2>2. comp'[c] = Idle /\ \A d \in Composers : d # c => comp'[d] = comp[d]
    BY <2>1, CompType
  <2>3. ~Busy(c)'
    BY <2>2 DEF Busy, Idle
  <2> QED BY <1>3, <2>1, <2>2, <2>3 DEF OpenInv
<1>9. ASSUME NEW c \in Composers, Type(c) PROVE OpenInv'
  BY <1>4, <1>9 DEF Type
<1>10. CASE Delete \/ Create \/ UNCHANGED vars
  BY <1>4, <1>10 DEF Delete, Create, vars, client
<1>11. dead = {}
  BY DEF Tracked
<1> QED BY <1>5, <1>6, <1>7, <1>8, <1>9, <1>10, <1>11, OpenWrite, DisciplinedSteps

LEMMA OneStep ==
  ASSUME Disciplined, IInv, Ranges, Tracked, Tracked', [Next]_vars, OneSendAtATime, OneInv
  PROVE  OneInv'
<1>1. LostInv' /\ OpenInv' /\ ErrorInv'
  BY LostStep, OpenStep, ErrorStep DEF OneInv
<1> QED BY <1>1 DEF OneInv

(* One session.                                                            *)
LEMMA FirstStep ==
  ASSUME Disciplined, IInv, Ranges, Tracked, [Next]_vars, born = 1, born' = 1, FirstInv
  PROVE  FirstInv'
<1>1. StepShape /\ (table = 0 => table' = 0)
  <2>1. StepShape
    BY AnyShape
  <2> QED BY <2>1 DEF StepShape
<1>2. \A r \in 1 .. Len(req') : req'[r].pc = "error" => table' = 0
  BY <1>1 DEF StepShape, FirstInv
<1>3. ASSUME NEW s \in 1 .. Len(req'), NEW t \in 1 .. Len(req'),
             Text(s)', Text(t)', s < t, Share(req'[s].body, req'[t].body)
      PROVE  table' = 0 /\ req'[t].pc \in {"posted", "error"}
  <2>1. /\ s \in 1 .. Len(req) /\ Text(s)
        /\ \/ t \in 1 .. Len(req) /\ Text(t) /\ Share(req[s].body, req[t].body)
           \/ /\ t \notin 1 .. Len(req) /\ req'[t].pc = "posted"
              /\ \E c \in Composers : ~Busy(c) /\ Share(req[s].body, text[c])
    BY <1>3, TextsShared
  <2>2. CASE t \in 1 .. Len(req)
    <3>1. table = 0 /\ req[t].pc \in {"posted", "error"}
      BY <1>3, <2>1, <2>2 DEF FirstInv
    <3>2. req'[t].pc \in {"posted", "error"}
      BY <1>1, <2>2, <3>1 DEF StepShape
    <3> QED BY <1>1, <3>1, <3>2
  <2>3. CASE t \notin 1 .. Len(req)
    <3>1. PICK c \in Composers : ~Busy(c) /\ Share(req[s].body, text[c])
      BY <2>1, <2>3
    <3>2. table = 0
      BY <2>1, <3>1 DEF FirstInv
    <3> QED BY <1>1, <2>1, <2>3, <3>2
  <2> QED BY <2>2, <2>3
<1>4. ASSUME NEW s \in 1 .. Len(req'), NEW c \in Composers,
             Text(s)', Share(req'[s].body, text'[c]), ~(Busy(c)' /\ comp'[c].send = s)
      PROVE  table' = 0
  <2>1. /\ s \in 1 .. Len(req) /\ Text(s) /\ Share(req[s].body, text[c])
        /\ \/ ~(Busy(c) /\ comp[c].send = s)
           \/ Busy(c) /\ comp[c].send = s /\ req[comp[c].awaits].pc = "error"
    BY <1>4, ShownShared
  <2>2. Busy(c) => comp[c].awaits \in 1 .. Len(req)
    BY DEF Tracked, SendInv
  <2>3. table = 0
    BY <2>1, <2>2 DEF FirstInv
  <2> QED BY <1>1, <2>3
<1> QED BY <1>2, <1>3, <1>4 DEF FirstInv

(* A non-empty finite set of numbers has a greatest element, the one with  *)
(* the fewest above it.                                                    *)
LEMMA GreatestOfFinite ==
  ASSUME NEW S \in SUBSET Nat, IsFiniteSet(S), S # {}
  PROVE  \E m \in S : \A x \in S : m >= x
<1> DEFINE Above(x) == {y \in S : y > x}
           T == {Above(x) : x \in S}
<1>1. T \subseteq FiniteSubsetsOf(S) /\ T # {}
  <2>1. \A x \in S : Above(x) \subseteq S /\ IsFiniteSet(Above(x))
    BY FS_Subset
  <2> QED BY <2>1 DEF FiniteSubsetsOf
<1>2. PICK U \in T : \A W \in T : <<W, U>> \notin StrictSubsetOrdering(S)
  <2> HIDE DEF T
  <2> QED BY <1>1, FS_StrictSubsetOrderingWellFounded, WFMin
<1>3. PICK m \in S : U = Above(m)
  OBVIOUS
<1>4. ASSUME NEW x \in S, x > m PROVE FALSE
  <2>1. Above(x) \subseteq Above(m)
    <3>1. \A y \in S : y > x => y > m
      BY <1>4
    <3> QED BY <3>1
  <2>2. x \in Above(m) /\ x \notin Above(x)
    BY <1>4
  <2>3. <<Above(x), Above(m)>> \in StrictSubsetOrdering(S)
    BY <2>1, <2>2 DEF StrictSubsetOrdering
  <2> QED BY <1>2, <1>3, <2>3
<1> QED BY <1>4

(* The line that an Enter submits starts after the Enter before it.        *)
LEMMA LineFrom ==
  ASSUME IInv, NEW i \in Instances, NEW n \in 1 .. Len(pty[i])
  PROVE  \E k \in 0 .. n - 1 :
           /\ LineStart(i, k) /\ \A m \in k + 1 .. n - 1 : pty[i][m][2] # Enter
           /\ Line(i, n) = [x \in 1 .. n - 1 - k |-> pty[i][k + x][2]]
<1> DEFINE P(k) == /\ k = 0 \/ pty[i][k][2] = Enter
                   /\ \A m \in k + 1 .. n - 1 : pty[i][m][2] # Enter
           S == {k \in 0 .. n - 1 : k = 0 \/ pty[i][k][2] = Enter}
           start == CHOOSE k \in 0 .. n - 1 : P(k)
<1>1. n \in Nat /\ n - 1 \in Nat
  BY CompType
<1>2. PICK k \in S : \A x \in S : k >= x
  <2>1. S \in SUBSET Nat /\ 0 \in S
    BY <1>1
  <2>2. IsFiniteSet(S)
    <3>1. IsFiniteSet(0 .. n - 1)
      BY <1>1, FS_Interval
    <3> QED BY <3>1, FS_Subset
  <2> QED BY <2>1, <2>2, GreatestOfFinite
<1>3. P(k)
  <2> SUFFICES ASSUME NEW m \in k + 1 .. n - 1, pty[i][m][2] = Enter PROVE FALSE
    OBVIOUS
  <2>1. m \in S /\ m > k
    BY <1>1
  <2> QED BY <1>1, <1>2, <2>1
<1>4. start \in 0 .. n - 1 /\ P(start)
  <2>1. \E x \in 0 .. n - 1 : P(x)
    BY <1>3
  <2> HIDE DEF P
  <2> QED BY <2>1
<1>5. Line(i, n) = [x \in 1 .. n - 1 - start |-> pty[i][start + x][2]]
  BY DEF Line
<1> HIDE DEF start
<1> QED BY <1>4, <1>5 DEF LineStart

(* A word of that line is before the Enter, with no Enter between.         *)
LEMMA LineWord ==
  ASSUME IInv, NEW i \in Instances, NEW n \in 1 .. Len(pty[i]), NEW w \in ToSet(Line(i, n))
  PROVE  \E m \in 1 .. n - 1 :
           pty[i][m][2] = w /\ \A e \in m .. n - 1 : pty[i][e][2] # Enter
<1>1. PICK k \in 0 .. n - 1 :
           /\ \A m \in k + 1 .. n - 1 : pty[i][m][2] # Enter
           /\ Line(i, n) = [x \in 1 .. n - 1 - k |-> pty[i][k + x][2]]
  BY LineFrom
<1>2. PICK x \in 1 .. n - 1 - k : w = pty[i][k + x][2]
  BY <1>1 DEF ToSet
<1> DEFINE m == k + x
<1>3. n \in Nat /\ k \in Nat /\ x \in Nat
  BY CompType
<1>4. m \in 1 .. n - 1 /\ m \in k + 1 .. n - 1
  BY <1>3
<1>5. \A e \in m .. n - 1 : e \in k + 1 .. n - 1
  BY <1>3
<1> QED BY <1>1, <1>2, <1>4, <1>5

(* Two words that are the same, each on the way to an Enter, are one.      *)
LEMMA SameSend ==
  ASSUME Tracked, OneInv \/ FirstInv,
         NEW i \in Instances, NEW j \in Instances,
         NEW n \in 1 .. Len(pty[i]), pty[i][n][2] = Enter,
         NEW m \in 1 .. Len(pty[i]), m < n, NEW k \in 1 .. Len(pty[j]),
         pty[i][m][2] # Enter, pty[j][k][2] = pty[i][m][2],
         pty[i][m][1] < pty[j][k][1]
  PROVE  FALSE
<1> DEFINE s == pty[i][m][1]
           t == pty[j][k][1]
           w == pty[i][m][2]
<1>1. /\ s \in 1 .. Len(req) /\ req[s].op = "text" /\ w \in ToSet(req[s].body)
      /\ req[s].pc \in {"sleep", "ok"}
  BY DEF Tracked, OwnedInv, Owned
<1>2. /\ t \in 1 .. Len(req) /\ req[t].op = "text" /\ w \in ToSet(req[t].body)
      /\ req[t].pc \in {"sleep", "ok"}
  BY DEF Tracked, OwnedInv, Owned
<1>3. Text(s) /\ Text(t) /\ s < t /\ Share(req[s].body, req[t].body)
  BY <1>1, <1>2 DEF Text, Share
<1>4. CASE OneInv
  <2>1. Lost(s)
    BY <1>1, <1>2, <1>3, <1>4 DEF OneInv, LostInv
  <2>2. Unentered(s)
    BY <1>1, <2>1 DEF Lost
  <2> QED BY <2>2 DEF Unentered
<1>5. CASE FirstInv
  BY <1>1, <1>2, <1>3, <1>5 DEF FirstInv
<1> QED BY <1>4, <1>5

LEMMA OnceIs ==
  ASSUME IInv, Tracked, OneInv \/ FirstInv
  PROVE  SubmittedOnce
<1> SUFFICES ASSUME NEW i \in Instances, NEW j \in Instances,
                    NEW n \in Enters(i), NEW k \in Enters(j),
                    NEW w \in ToSet(Line(i, n)), w \in ToSet(Line(j, k)),
                    <<i, n>> # <<j, k>>
             PROVE  FALSE
  BY DEF SubmittedOnce
<1>1. /\ n \in 1 .. Len(pty[i]) /\ pty[i][n][2] = Enter /\ Len(pty[i]) \in Nat
      /\ k \in 1 .. Len(pty[j]) /\ pty[j][k][2] = Enter /\ Len(pty[j]) \in Nat
  <2>1. pty[i] \in Seq(Nat \X Nat) /\ pty[j] \in Seq(Nat \X Nat)
    BY CompType
  <2>2. DOMAIN pty[i] = 1 .. Len(pty[i]) /\ DOMAIN pty[j] = 1 .. Len(pty[j])
    BY <2>1
  <2>3. /\ n \in DOMAIN pty[i] /\ pty[i][n][2] = Enter
        /\ k \in DOMAIN pty[j] /\ pty[j][k][2] = Enter
    BY DEF Enters
  <2>4. Len(pty[i]) \in Nat /\ Len(pty[j]) \in Nat
    BY <2>1
  <2>5. n \in 1 .. Len(pty[i]) /\ pty[i][n][2] = Enter
    BY <2>2, <2>3
  <2>6. k \in 1 .. Len(pty[j]) /\ pty[j][k][2] = Enter
    BY <2>2, <2>3
  <2> QED BY <2>4, <2>5, <2>6
<1>2. PICK a \in 1 .. n - 1 : pty[i][a][2] = w /\ \A e \in a .. n - 1 : pty[i][e][2] # Enter
  BY <1>1, LineWord
<1>3. PICK b \in 1 .. k - 1 : pty[j][b][2] = w /\ \A e \in b .. k - 1 : pty[j][e][2] # Enter
  BY <1>1, LineWord
<1>4. /\ a \in 1 .. Len(pty[i]) /\ b \in 1 .. Len(pty[j]) /\ a < n /\ b < k
      /\ a \in a .. n - 1 /\ b \in b .. k - 1
  <2>1. PICK x \in Nat : x = Len(pty[i])
    BY <1>1
  <2>2. PICK y \in Nat : y = Len(pty[j])
    BY <1>1
  <2>3. n \in 1 .. x /\ k \in 1 .. y
    BY <1>1, <2>1, <2>2
  <2>4. /\ a \in 1 .. x /\ b \in 1 .. y /\ a < n /\ b < k
        /\ a \in a .. n - 1 /\ b \in b .. k - 1
    BY <2>3
  <2> QED BY <2>1, <2>2, <2>4
<1>5. w # Enter
  BY <1>2, <1>4
<1>6. pty[i][a][1] \in Nat /\ pty[j][b][1] \in Nat
  <2>1. pty[i][a][1] \in 1 .. Len(req) /\ pty[j][b][1] \in 1 .. Len(req) /\ Len(req) \in Nat
    BY <1>4, CompType DEF Tracked, OwnedInv, Owned
  <2> QED BY <2>1
<1>7. pty[i][a][1] = pty[j][b][1]
  <2>1. ~(pty[i][a][1] < pty[j][b][1])
    BY <1>1, <1>2, <1>3, <1>4, <1>5, SameSend
  <2>2. ~(pty[j][b][1] < pty[i][a][1])
    BY <1>1, <1>2, <1>3, <1>4, <1>5, SameSend
  <2> QED BY <1>6, <2>1, <2>2
<1>8. i = j
  BY SMTT(30), <1>2, <1>3, <1>4, <1>5, <1>7 DEF Tracked, OwnedInv, Owned
<1>9. pty[i][a] = pty[i][b]
  <2>1. pty[i][a] \in Nat \X Nat /\ pty[i][b] \in Nat \X Nat
    BY <1>4, <1>8, CompType
  <2> QED BY <1>2, <1>3, <1>7, <1>8, <2>1
<1>10. a = b
  BY <1>2, <1>4, <1>5, <1>8, <1>9 DEF Tracked, OwnedInv
<1>11. n # k
  BY <1>8
<1>12. CASE n < k
  <2>1. n \in b .. k - 1
    BY <1>1, <1>4, <1>10, <1>12
  <2> QED BY <1>1, <1>3, <1>8, <2>1
<1>13. CASE k < n
  <2>1. k \in a .. n - 1
    BY <1>1, <1>4, <1>10, <1>13
  <2> QED BY <1>1, <1>2, <1>8, <2>1
<1> QED BY <1>1, <1>11, <1>12, <1>13

LEMMA InitLater == Init => OneInv /\ FirstInv /\ LineInv
<1> SUFFICES ASSUME Init PROVE OneInv /\ FirstInv /\ LineInv
  OBVIOUS
<1>1. /\ 1 .. Len(req) = {} /\ \A c \in Composers : ~Busy(c)
      /\ \A i \in Instances : pty[i] = <<>>
  BY DEF Init, Busy, Idle
<1>2. OneInv
  BY <1>1 DEF OneInv, LostInv, OpenInv, ErrorInv
<1>3. FirstInv
  BY <1>1 DEF FirstInv
<1>4. LineInv
  <2>1. TailEmpty(1)
    BY <1>1, PromptAssumption DEF TailEmpty, LineStart, Instances
  <2> QED BY <1>1, <2>1 DEF LineInv
<1> QED BY <1>2, <1>3, <1>4

(* The only PTY is that of the first session.                              *)
LEMMA OnePty ==
  ASSUME IInv, Tracked, born = 1
  PROVE  /\ \A r \in 1 .. Len(req) : req[r].pc = "found" => req[r].at = 1
         /\ 1 \in Instances /\ table \in {0, 1} /\ Len(pty[1]) \in Nat
<1>1. 1 \in Instances /\ table \in {0, 1}
  BY PromptAssumption DEF IInv, TypeInv, Instances
<1>2. ASSUME NEW r \in 1 .. Len(req), req[r].pc = "found" PROVE req[r].at = 1
  <2>1. req[r].at \in 0 .. 1 /\ req[r].at # 0
    BY <1>2, ReqType DEF ReqInv
  <2> QED BY <2>1
<1> QED BY <1>1, <1>2, CompType

(* What was written stays as it was.                                       *)
Kept ==
  /\ \A s \in 1 .. Len(req) : req'[s].body = req[s].body
  /\ \A i \in Instances :
       /\ Len(pty[i]) \in Nat /\ Len(pty'[i]) \in Nat /\ Len(pty[i]) <= Len(pty'[i])
       /\ \A n \in 1 .. Len(pty[i]) : pty'[i][n] = pty[i][n]

LEMMA LineKept ==
  ASSUME Kept, NEW i \in Instances, NEW n \in 1 .. Len(pty[i]), LineIs(i, n),
         pty[i][n][1] \in 1 .. Len(req)
  PROVE  LineIs(i, n)'
<1>0. PICK s \in 1 .. Len(req) : s = pty[i][n][1]
  OBVIOUS
<1>1. PICK m \in 0 .. n - 1 :
         LineStart(i, m) /\ n = m + Len(req[s].body) + 1 /\ TextAt(i, m, s)
  BY <1>0 DEF LineIs
<1>2. n \in Nat /\ pty'[i][n] = pty[i][n] /\ \A x \in 1 .. n : pty'[i][x] = pty[i][x]
  <2>1. Len(pty[i]) \in Nat /\ \A x \in 1 .. Len(pty[i]) : pty'[i][x] = pty[i][x]
    BY DEF Kept
  <2>2. \A x \in 1 .. n : x \in 1 .. Len(pty[i])
    BY <2>1
  <2> QED BY <2>1, <2>2
<1>3. req'[s].body = req[s].body
  BY DEF Kept
<1>4. m # 0 => pty'[i][m] = pty[i][m]
  BY <1>2
<1> DEFINE B == Len(req[s].body)
<1>5. \A k \in 1 .. B : m + k \in 1 .. n
  <2>1. B = n - 1 - m
    BY <1>1, <1>2
  <2> QED BY <1>2, <2>1
<1>6. \A k \in 1 .. B : pty'[i][m + k] = <<s, req'[s].body[k]>>
  BY <1>1, <1>2, <1>3, <1>5 DEF TextAt
<1>7. LineStart(i, m)' /\ n = m + Len(req'[s].body) + 1 /\ TextAt(i, m, s)'
  BY <1>1, <1>3, <1>4, <1>6 DEF LineStart, TextAt
<1>8. pty'[i][n][1] = s
  BY <1>0, <1>2
<1> QED BY <1>7, <1>8 DEF LineIs

(* A step that writes nothing.                                             *)
LEMMA QuietLine ==
  ASSUME Disciplined, IInv, Tracked, [Next]_vars, born = 1, born' = 1, UNCHANGED pty, LineInv
  PROVE  /\ \A i \in Instances : \A n \in 1 .. Len(pty'[i]) : pty'[i][n][2] = Enter => LineIs(i, n)'
         /\ \A r \in 1 .. Len(req') : req'[r].pc = "error" => table' = 0
         /\ TailEmpty(1) => TailEmpty(1)'
         /\ \A s \in 1 .. Len(req) : TailIs(1, s) => TailIs(1, s)'
<1>1. StepShape /\ (table = 0 => table' = 0)
  <2>1. StepShape
    BY AnyShape
  <2> QED BY <2>1 DEF StepShape
<1>2. \A s \in 1 .. Len(req) : req'[s].body = req[s].body
  BY <1>1 DEF StepShape
<1>3. Kept
  BY <1>2, CompType DEF Kept
<1>4. ASSUME NEW i \in Instances, NEW n \in 1 .. Len(pty'[i]), pty'[i][n][2] = Enter
      PROVE  LineIs(i, n)'
  <2>1. n \in 1 .. Len(pty[i]) /\ LineIs(i, n)
    BY <1>4 DEF LineInv
  <2>2. pty[i][n][1] \in 1 .. Len(req)
    BY <2>1 DEF Tracked, OwnedInv, Owned
  <2> QED BY <1>3, <2>1, <2>2, LineKept
<1>5. \A r \in 1 .. Len(req') : req'[r].pc = "error" => table' = 0
  BY <1>1 DEF StepShape, LineInv
<1>6. TailEmpty(1) => TailEmpty(1)'
  BY DEF TailEmpty, LineStart
<1>7. ASSUME NEW s \in 1 .. Len(req), TailIs(1, s) PROVE TailIs(1, s)'
  BY <1>2, <1>7 DEF TailIs, LineStart, TextAt
<1> QED BY <1>4, <1>5, <1>6, <1>7

(* The text of the one send under way is written to an empty line, and its *)
(* Enter after its text.                                                   *)
LEMMA LineWrite ==
  ASSUME IInv, Tracked, OneSendAtATime, born = 1, LineInv,
         NEW r \in 1 .. Len(req), WriteBytes(r)
  PROVE  LineInv'
<1>1. req[r].pc = "found" /\ UNCHANGED <<server, client>> /\ Serving(r)
  BY WriteIs DEF Serving
<1>2. PICK c \in Composers :
        /\ Busy(c) /\ comp[c].awaits = r /\ \A d \in Composers : Busy(d) => d = c
        /\ req[r].send = comp[c].send /\ req[r].send \in 1 .. Len(req)
        /\ req[r].op = "text" => comp[c].pc = "text" /\ comp[c].send = r
        /\ req[r].op = "submit" => comp[c].pc = "submit" /\ req[comp[c].send].pc = "ok"
  BY <1>1, WriterIs
<1>3. comp' = comp /\ table' = table
  BY <1>1 DEF client, server
<1>4. req[r].at = 1 /\ 1 \in Instances /\ Len(pty[1]) \in Nat
  BY <1>1, OnePty
<1>0. PICK L \in Nat : L = Len(pty[1])
  BY <1>4
<1>5. \A x \in 1 .. Len(req) : x # r => req[x].pc # "found"
  <2> SUFFICES ASSUME NEW x \in 1 .. Len(req), req[x].pc = "found", x # r PROVE FALSE
    OBVIOUS
  <2>1. PICK d \in Composers : Busy(d) /\ comp[d].awaits = x
    BY DEF Tracked, SerialInv, Serving
  <2> QED BY <1>0, <1>2, <2>1
<1>6. CASE req[r].op = "text"
  <2>1. L \in Nat /\ Len(req[r].body) \in Nat /\ Len(pty'[1]) = L + Len(req[r].body)
    BY <1>0, <1>4, <1>6, TextWritten
  <2>2. \A n \in 1 .. L : pty'[1][n] = pty[1][n]
    <3>1. \A n \in 1 .. Len(pty[req[r].at]) : pty'[req[r].at][n] = pty[req[r].at][n]
      BY <1>6, TextWritten
    <3> QED BY <1>0, <1>4, <3>1
  <2>10. \A k \in 1 .. Len(req[r].body) :
          pty'[1][L + k] = <<r, req[r].body[k]>> /\ req[r].body[k] # Enter
    BY <1>0, <1>4, <1>6, TextWritten
  <2>11. \A j \in Instances : j # 1 => pty'[j] = pty[j]
    BY <1>4, <1>6, TextWritten
  <2>12. /\ Len(req') = Len(req) /\ req'[r].pc = "sleep" /\ req'[r].op = "text"
         /\ req'[r].body = req[r].body
         /\ \A s \in 1 .. Len(req) : s # r => req'[s] = req[s]
    BY <1>6, TextWritten
  <2>13. Kept
    <3>1. \A j \in Instances : Len(pty[j]) \in Nat
      BY CompType
    <3>2. L <= Len(pty'[1]) /\ Len(pty'[1]) \in Nat
      BY <2>1
    <3>3. \A s \in 1 .. Len(req) : req'[s].body = req[s].body
      BY <2>12
    <3> QED BY <1>0, <2>2, <2>11, <3>1, <3>2, <3>3 DEF Kept
  <2>3. TailEmpty(1)
    BY <1>1, <1>6 DEF LineInv
  <2>4. TailIs(1, r)'
    <3>1. LineStart(1, L)'
      <4>1. L = 0 \/ L \in 1 .. L
        BY <2>1
      <4> QED BY <1>0, <2>2, <2>3, <4>1 DEF TailEmpty, LineStart
    <3>2. L \in 0 .. Len(pty'[1])
      BY <2>1
    <3>3. TextAt(1, L, r)'
      BY <2>10, <2>12 DEF TextAt
    <3> QED BY <2>1, <2>12, <3>1, <3>2, <3>3 DEF TailIs
  <2>5. ASSUME NEW i \in Instances, NEW n \in 1 .. Len(pty'[i]), pty'[i][n][2] = Enter
        PROVE  LineIs(i, n)'
    <3>1. n \in 1 .. Len(pty[i])
      <4> SUFFICES ASSUME n \notin 1 .. Len(pty[i]) PROVE FALSE
        OBVIOUS
      <4>1. i = 1
        BY <2>11
      <4>0. PICK B \in Nat : B = Len(req[r].body)
        BY <2>1
      <4>2. n \in 1 .. L + B /\ n \notin 1 .. L /\ L \in Nat /\ B \in Nat
        <5>1. Len(pty'[i]) = L + B /\ Len(pty[i]) = L
          BY <1>0, <2>1, <4>0, <4>1
        <5>2. n \in 1 .. Len(pty'[i]) /\ n \notin 1 .. Len(pty[i])
          OBVIOUS
        <5> QED BY <2>1, <5>1, <5>2
      <4>3. \A k \in 1 .. B : pty'[1][L + k][2] # Enter
        BY <2>10, <4>0
      <4>4. n - L \in 1 .. B /\ n = L + (n - L)
        BY <4>2
      <4> QED BY <2>5, <4>1, <4>3, <4>4
    <3>2. pty'[i][n] = pty[i][n]
      BY <2>13, <3>1 DEF Kept
    <3>3. LineIs(i, n) /\ pty[i][n][1] \in 1 .. Len(req)
      BY <2>5, <3>1, <3>2 DEF LineInv, Tracked, OwnedInv, Owned
    <3> QED BY <2>13, <3>1, <3>3, LineKept
  <2>6. \A x \in 1 .. Len(req') : req'[x].pc # "found"
    BY <1>5, <2>12
  <2>7. \A x \in 1 .. Len(req') : req'[x].pc = "error" => table' = 0
    BY <1>3, <2>12 DEF LineInv
  <2>8. ~Unwritten(c)'
    BY <1>2, <1>3, <1>6, <2>12 DEF Unwritten, Busy, Submitted
  <2>9. ASSUME NEW d \in Composers, Busy(d)' PROVE TailIs(1, comp[d].send)'
    <3>1. d = c /\ comp'[d].send = r
      BY <1>2, <1>3, <1>6, <2>9 DEF Busy
    <3> QED BY <2>4, <3>1 DEF TailIs, TextAt
  <2> QED BY <2>5, <2>6, <2>7, <2>8, <2>9 DEF LineInv
<1>7. CASE req[r].op = "submit"
  <2>0. PICK s \in 1 .. Len(req) : s = req[r].send
    BY <1>2
  <2>1. Len(pty'[1]) = L + 1 /\ pty'[1][L + 1] = <<s, Enter>>
    BY <1>0, <1>4, <1>7, <2>0, EnterWritten
  <2>2. \A n \in 1 .. L : pty'[1][n] = pty[1][n]
    BY SMTT(30), <1>0, <1>4, <1>7, EnterWritten
  <2>11. \A j \in Instances : j # 1 => pty'[j] = pty[j]
    BY <1>4, <1>7, EnterWritten
  <2>12. /\ Len(req') = Len(req) /\ req'[r].pc = "ok" /\ req'[r].body = req[r].body
         /\ \A x \in 1 .. Len(req) : x # r => req'[x] = req[x]
    BY <1>7, EnterWritten
  <2>13. Kept
    <3>1. \A j \in Instances : Len(pty[j]) \in Nat
      BY CompType
    <3>2. L <= Len(pty'[1]) /\ Len(pty'[1]) \in Nat
      BY <1>0, <2>1
    <3>3. \A x \in 1 .. Len(req) : req'[x].body = req[x].body
      BY <2>12
    <3> QED BY SMTT(30), <1>0, <2>2, <2>11, <3>1, <3>2, <3>3 DEF Kept
  <2>3. TailIs(1, s)
    <3>1. Busy(c) /\ ~Submitted(c) /\ req[comp[c].send].pc = "ok" /\ comp[c].send = s
      BY <1>1, <1>2, <1>7, <2>0 DEF Submitted
    <3> QED BY <3>1 DEF LineInv
  <2>4. LineIs(1, L + 1)'
    <3>1. PICK m \in 0 .. L :
            LineStart(1, m) /\ L = m + Len(req[s].body) /\ TextAt(1, m, s)
      BY <1>0, <2>3 DEF TailIs
    <3> DEFINE B == Len(req[s].body)
    <3>2. B = L - m /\ m \in Nat /\ \A k \in 1 .. B : m + k \in 1 .. L
      <4>1. req[s].body \in Seq(Nat)
        BY ReqType DEF Reqs
      <4>2. B \in Nat
        BY <4>1

      <4>3. L = m + B
        BY <1>0, <3>1 DEF B
      <4> QED BY <1>0, <4>2, <4>3
    <3>3. req'[s].body = req[s].body
      BY <2>12
    <3>4. TextAt(1, m, s)'
      BY <2>2, <3>1, <3>2, <3>3 DEF TextAt
    <3>5. LineStart(1, m)'
      <4>1. m = 0 \/ m \in 1 .. L
        BY <3>1
      <4> QED BY <2>2, <3>1, <4>1 DEF LineStart
    <3>6. L + 1 = m + Len(req'[s].body) + 1 /\ m \in 0 .. (L + 1) - 1
      BY <1>0, <3>1, <3>3
    <3>7. pty'[1][L + 1][1] = s
      BY <1>0, <2>1
    <3> QED
      <4> PICK n \in Nat : n = L + 1
        BY <1>4
      <4>1. n = m + Len(req'[s].body) + 1 /\ m \in 0 .. n - 1 /\ pty'[1][n][1] = s
        BY <3>6, <3>7
      <4>2. LineIs(1, n)'
        BY <3>4, <3>5, <4>1 DEF LineIs
      <4> QED BY <4>2
  <2>5. ASSUME NEW i \in Instances, NEW n \in 1 .. Len(pty'[i]), pty'[i][n][2] = Enter
        PROVE  LineIs(i, n)'
    <3>1. CASE n \in 1 .. Len(pty[i])
      <4>1. pty'[i][n] = pty[i][n]
        BY <2>13, <3>1 DEF Kept
      <4>2. LineIs(i, n) /\ pty[i][n][1] \in 1 .. Len(req)
        BY <2>5, <3>1, <4>1 DEF LineInv, Tracked, OwnedInv, Owned
      <4> QED BY <2>13, <3>1, <4>2, LineKept
    <3>2. CASE n \notin 1 .. Len(pty[i])
      <4>1. i = 1
        BY <2>11, <3>2
      <4>2. n = L + 1
        BY <1>0, <2>1, <3>2, <4>1
      <4> QED BY <2>4, <4>1, <4>2
    <3> QED BY <3>1, <3>2
  <2>6. \A x \in 1 .. Len(req') : req'[x].pc # "found"
    BY <1>5, <2>12
  <2>7. \A x \in 1 .. Len(req') : req'[x].pc = "error" => table' = 0
    BY <1>3, <2>12 DEF LineInv
  <2>8. TailEmpty(1)'
    BY <1>0, <2>1 DEF TailEmpty, LineStart
  <2>9. \A d \in Composers : Busy(d)' => Submitted(d)'
    BY <1>2, <1>3, <1>7, <2>12 DEF Busy, Submitted
  <2> QED BY <2>5, <2>6, <2>7, <2>8, <2>9 DEF LineInv
<1> QED BY <1>6, <1>7 DEF Tracked, SerialInv

(* What is left to show of a step that writes nothing.                     *)
LEMMA LineRest ==
  ASSUME Disciplined, IInv, Tracked, [Next]_vars, born = 1, born' = 1, UNCHANGED pty, LineInv,
         \A r \in 1 .. Len(req') : req'[r].op = "text" /\ req'[r].pc = "found" => TailEmpty(1),
         table' # 0 /\ (\A c \in Composers : Unwritten(c)') => TailEmpty(1),
         \A c \in Composers :
           Busy(c)' /\ ~Submitted(c)' /\ req'[comp'[c].send].pc \in {"sleep", "ok"}
             => comp'[c].send \in 1 .. Len(req) /\ TailIs(1, comp'[c].send)
  PROVE  LineInv'
<1>1. /\ \A i \in Instances : \A n \in 1 .. Len(pty'[i]) : pty'[i][n][2] = Enter => LineIs(i, n)'
      /\ \A r \in 1 .. Len(req') : req'[r].pc = "error" => table' = 0
      /\ TailEmpty(1) => TailEmpty(1)'
      /\ \A s \in 1 .. Len(req) : TailIs(1, s) => TailIs(1, s)'
  BY QuietLine
<1>2. \A r \in 1 .. Len(req') : req'[r].op = "text" /\ req'[r].pc = "found" => TailEmpty(1)'
  BY <1>1
<1>3. table' # 0 /\ (\A c \in Composers : Unwritten(c)') => TailEmpty(1)'
  BY <1>1
<1>4. ASSUME NEW c \in Composers, Busy(c)', ~Submitted(c)',
             req'[comp'[c].send].pc \in {"sleep", "ok"}
      PROVE  TailIs(1, comp[c].send)'
  <2>1. PICK s \in 1 .. Len(req) : s = comp'[c].send
    BY <1>4
  <2>2. TailIs(1, s)
    BY <1>4, <2>1
  <2>3. TailIs(1, s)'
    BY <1>1, <2>2
  <2> QED BY <2>1, <2>3 DEF TailIs, TextAt
<1> QED BY <1>1, <1>2, <1>3, <1>4 DEF LineInv

(* A session is found, or a sleep is over.                                 *)
LEMMA LineServe ==
  ASSUME Disciplined, IInv, Tracked, [Next]_vars, OneSendAtATime, born = 1, born' = 1, LineInv,
         NEW r \in 1 .. Len(req), Lookup(r) \/ Wake(r)
  PROVE  LineInv'
<1>1. UNCHANGED <<table, pty, comp>> /\ req[r].pc \in {"posted", "sleep"} /\ Serving(r)
  BY LookupIs, WakeIs DEF server, client, Serving
<1>2. PICK q \in Reqs :
        /\ Replaces(r, q) /\ q.op = req[r].op
        /\ \/ /\ req[r].pc = "posted" /\ q.pc = (IF table = 0 THEN "error" ELSE "found")
           \/ req[r].pc = "sleep" /\ req[r].op = "text" /\ q.pc = "ok"
  <2>1. CASE Lookup(r)
    BY <2>1, LookupIs
  <2>2. CASE Wake(r)
    <3>1. req[r].pc = "sleep" /\ req[r].op = "text"
      BY <2>2, WakeIs DEF Tracked, SerialInv
    <3> QED BY <2>2, <3>1, WakeIs
  <2> QED BY <2>1, <2>2
<1>3. /\ Len(req') = Len(req) /\ req'[r] = q
      /\ \A s \in 1 .. Len(req) : s # r => req'[s] = req[s]
  BY <1>2 DEF Replaces
<1>4. PICK c \in Composers :
        /\ Busy(c) /\ comp[c].awaits = r /\ \A d \in Composers : Busy(d) => d = c
        /\ req[r].send = comp[c].send /\ req[r].send \in 1 .. Len(req)
        /\ req[r].op = "text" => comp[c].pc = "text" /\ comp[c].send = r
        /\ req[r].op = "submit" => comp[c].pc = "submit" /\ req[comp[c].send].pc = "ok"
  BY <1>1, WriterIs
<1>5. req[r].op \in {"text", "submit"}
  BY DEF Tracked, SerialInv
<1>6. \A d \in Composers : Busy(d)' = Busy(d)
  BY <1>1 DEF Busy
<1>7. \A d \in Composers : d # c => Unwritten(d)
  BY <1>4 DEF Unwritten
<1>8. ASSUME NEW s \in 1 .. Len(req'), req'[s].op = "text", req'[s].pc = "found"
      PROVE  TailEmpty(1)
  <2>1. CASE s # r
    BY <1>3, <1>8, <2>1 DEF LineInv
  <2>2. CASE s = r
    <3>1. req[r].pc = "posted" /\ table # 0 /\ req[r].op = "text"
      BY <1>2, <1>3, <1>8, <2>2
    <3>2. Unwritten(c)
      BY <1>4, <3>1 DEF Unwritten
    <3> QED BY <1>7, <3>1, <3>2 DEF LineInv
  <2> QED BY <2>1, <2>2
<1>9. ASSUME table # 0, Unwritten(c)' PROVE TailEmpty(1)
  <2>1. comp[c].pc = "text" /\ req'[r].pc \in {"posted", "found"}
    BY <1>1, <1>2, <1>3, <1>4, <1>5, <1>9 DEF Unwritten, Submitted, Busy
  <2>2. Unwritten(c)
    BY <1>2, <1>3, <1>4, <2>1 DEF Unwritten
  <2> QED BY <1>7, <1>9, <2>2 DEF LineInv
<1>10. ASSUME NEW d \in Composers, Busy(d)', ~Submitted(d)',
             req'[comp'[d].send].pc \in {"sleep", "ok"}
       PROVE  comp'[d].send \in 1 .. Len(req) /\ TailIs(1, comp'[d].send)
  <2>1. d = c /\ comp'[d].send = comp[c].send /\ comp[c].send \in 1 .. Len(req)
    BY <1>1, <1>4, <1>6, <1>10
  <2>2. ~Submitted(c)
    BY <1>1, <1>4 DEF Submitted
  <2>3. req[comp[c].send].pc \in {"sleep", "ok"}
    BY <1>2, <1>3, <1>10, <2>1
  <2>4. TailIs(1, comp[c].send)
    BY <1>4, <2>2, <2>3 DEF LineInv
  <2> QED BY <2>1, <2>4
<1> QED BY <1>1, <1>8, <1>9, <1>10, LineRest

(* A composer sends, or goes on to its Enter.                              *)
LEMMA LinePost ==
  ASSUME Disciplined, IInv, Tracked, [Next]_vars, OneSendAtATime, OneSendAtATime',
         born = 1, born' = 1, LineInv,
         NEW c \in Composers, Send(c) \/ TextAcked(c)
  PROVE  LineInv'
<1> DEFINE N == Len(req) + 1
<1>1. /\ UNCHANGED <<table, pty>> /\ \A d \in Composers : d # c => comp'[d] = comp[d]
      /\ Busy(c)' /\ comp'[c].awaits = N
  <2>1. CASE Send(c)
    <3>1. comp' = [comp EXCEPT ![c] = [pc |-> "text", send |-> N, awaits |-> N]]
      BY <2>1, SendIs
    <3>2. UNCHANGED <<table, pty>>
      BY <2>1, SendIs DEF server
    <3> QED BY <3>1, <3>2, CompType DEF Busy
  <2>2. CASE TextAcked(c)
    BY <2>2, TextAckedIs DEF server, Busy
  <2> QED BY <2>1, <2>2
<1>2. PICK q \in Reqs : Posts(q) /\ q.pc = "posted"
  BY SendIs, TextAckedIs
<1>3. /\ Len(req) \in Nat /\ Len(req') = N /\ req'[N] = q
      /\ \A s \in 1 .. Len(req) : req'[s] = req[s]
      /\ \A s \in 1 .. N : s \in 1 .. Len(req) \/ s = N
  BY <1>2 DEF Posts
<1>4. ASSUME NEW d \in Composers, d # c PROVE ~Busy(d)' /\ ~Busy(d) /\ Unwritten(d)
  <2>1. ~Busy(d)'
    BY <1>1, <1>4 DEF OneSendAtATime, Busy
  <2> QED BY <1>1, <1>4, <2>1 DEF Busy, Unwritten
<1>5. \A s \in 1 .. Len(req') : req'[s].op = "text" /\ req'[s].pc = "found" => TailEmpty(1)
  BY <1>2, <1>3 DEF LineInv
<1>6. ~Submitted(c)'
  BY <1>1, <1>2, <1>3 DEF Submitted
<1>7. CASE Send(c)
  <2>1. ~Busy(c) /\ comp'[c].send = N
    BY <1>7, SendIs, CompType DEF Busy
  <2>2. Unwritten(c)
    BY <2>1 DEF Unwritten
  <2>3. table' # 0 => TailEmpty(1)
    BY <1>1, <1>4, <2>2 DEF LineInv
  <2>4. req'[comp'[c].send].pc = "posted"
    BY <1>2, <1>3, <2>1
  <2> QED BY <1>1, <1>4, <1>5, <2>3, <2>4, LineRest
<1>8. CASE TextAcked(c)
  <2>1. /\ comp[c].pc = "text" /\ comp'[c].pc = "submit" /\ comp'[c].send = comp[c].send
        /\ comp[c].send \in 1 .. Len(req) /\ req[comp[c].send].pc = "ok"
    BY <1>8, TextAckedIs
  <2>2. ~Unwritten(c)'
    BY <1>1, <1>6, <2>1 DEF Unwritten
  <2>3. TailIs(1, comp[c].send)
    BY <2>1 DEF LineInv, Busy, Submitted
  <2> QED BY <1>1, <1>4, <1>5, <2>1, <2>2, <2>3, LineRest
<1> QED BY <1>7, <1>8

LEMMA LineStep ==
  ASSUME Disciplined, IInv, Tracked, [Next]_vars, OneSendAtATime, OneSendAtATime',
         born = 1, born' = 1, LineInv
  PROVE  LineInv'
<1>1. ASSUME NEW c \in Composers, SubmitAcked(c) \/ Failed(c) PROVE LineInv'
  <2>1. /\ UNCHANGED <<table, pty, req>> /\ comp' = [comp EXCEPT ![c] = Idle] /\ Busy(c)
        /\ Submitted(c) \/ req[comp[c].awaits].pc = "error"
    BY <1>1 DEF SubmitAcked, Failed, Answered, server, Submitted, Busy
  <2>2. comp'[c] = Idle /\ \A d \in Composers : d # c => comp'[d] = comp[d] /\ ~Busy(d)
    BY <2>1, CompType DEF OneSendAtATime, Busy
  <2>3. \A d \in Composers : ~Busy(d)'
    BY <2>2 DEF Busy, Idle
  <2>4. table' # 0 => TailEmpty(1)
    <3>1. CASE req[comp[c].awaits].pc = "error"
      <4>1. comp[c].awaits \in 1 .. Len(req)
        BY <2>1 DEF Tracked, SendInv
      <4> QED BY <2>1, <3>1, <4>1 DEF LineInv
    <3>2. CASE Submitted(c)
      <4>1. \A d \in Composers : Unwritten(d)
        BY <2>2, <3>2 DEF Unwritten
      <4> QED BY <2>1, <4>1 DEF LineInv
    <3> QED BY <2>1, <3>1, <3>2
  <2>5. \A r \in 1 .. Len(req') : req'[r].op = "text" /\ req'[r].pc = "found" => TailEmpty(1)
    BY <2>1 DEF LineInv
  <2> QED BY <2>1, <2>3, <2>4, <2>5, LineRest
<1>2. ASSUME UNCHANGED <<pty, req, comp>>, table' = table \/ table' = 0 PROVE LineInv'
  <2>1. \A c \in Composers : /\ Busy(c)' = Busy(c) /\ Submitted(c)' = Submitted(c)
                            /\ Unwritten(c)' = Unwritten(c)
    BY <1>2 DEF Busy, Submitted, Unwritten
  <2>2. table' # 0 /\ (\A c \in Composers : Unwritten(c)') => TailEmpty(1)
    BY <1>2, <2>1 DEF LineInv
  <2>3. ASSUME NEW c \in Composers, Busy(c)', ~Submitted(c)',
               req'[comp'[c].send].pc \in {"sleep", "ok"}
        PROVE  comp'[c].send \in 1 .. Len(req) /\ TailIs(1, comp'[c].send)
    <3>1. Busy(c) /\ ~Submitted(c) /\ req[comp[c].send].pc \in {"sleep", "ok"}
      BY <1>2, <2>1, <2>3
    <3> QED BY <1>2, <3>1 DEF Tracked, SendInv, LineInv
  <2>4. \A r \in 1 .. Len(req') : req'[r].op = "text" /\ req'[r].pc = "found" => TailEmpty(1)
    BY <1>2 DEF LineInv
  <2> QED BY <1>2, <2>2, <2>3, <2>4, LineRest
<1>3. ASSUME NEW c \in Composers, Type(c) PROVE LineInv'
  <2>1. UNCHANGED <<pty, req, comp, table>>
    BY <1>3 DEF Type, server
  <2> QED BY <1>2, <2>1
<1>4. CASE Delete \/ UNCHANGED vars
  <2>1. UNCHANGED <<pty, req, comp>> /\ (table' = table \/ table' = 0)
    BY <1>4 DEF Delete, vars, server, client
  <2> QED BY <1>2, <2>1
<1>5. ~Create
  BY DEF Create
<1>6. CASE \E r \in 1 .. Len(req) : Lookup(r) \/ WriteBytes(r) \/ Wake(r)
  BY <1>6, LineServe, LineWrite
<1>7. CASE \E c \in Composers : Send(c) \/ TextAcked(c)
  BY <1>7, LinePost
<1>8. dead = {}
  BY DEF Tracked
<1> QED BY <1>1, <1>3, <1>4, <1>5, <1>6, <1>7, <1>8, DisciplinedSteps

(* The line of an Enter is the text of its send.                           *)
LEMMA WholeIs ==
  ASSUME IInv, Tracked, LineInv, NEW i \in Instances, NEW n \in Enters(i)
  PROVE  WholeLine(i, n)
<1>1. n \in 1 .. Len(pty[i]) /\ pty[i][n][2] = Enter
  <2>1. n \in DOMAIN pty[i] /\ pty[i][n][2] = Enter
    BY DEF Enters
  <2> QED BY <2>1, CompType
<1>2. PICK s \in 1 .. Len(req) : s = pty[i][n][1] /\ req[s].op = "text"
  BY <1>1 DEF Tracked, OwnedInv, Owned
<1>3. s # 0 /\ req[s].send = s /\ req[s].body \in Seq(Nat) /\ Enter \notin ToSet(req[s].body)
  <2>1. req[s] \in Reqs /\ ReqInv(s) /\ req[s].send # 0 /\ req[s].send = s
    BY <1>2, ReqType DEF Tracked, SerialInv
  <2> QED BY <1>2, <2>1 DEF ReqInv, Reqs
<1>4. PICK B \in Nat : B = Len(req[s].body)
  BY <1>3
<1>5. PICK m \in 0 .. n - 1 : LineStart(i, m) /\ n = m + B + 1 /\ TextAt(i, m, s)
  BY <1>1, <1>2, <1>4 DEF LineInv, LineIs
<1>6. PICK k \in 0 .. n - 1 :
        /\ LineStart(i, k) /\ \A x \in k + 1 .. n - 1 : pty[i][x][2] # Enter
        /\ Line(i, n) = [x \in 1 .. n - 1 - k |-> pty[i][k + x][2]]
  BY <1>1, LineFrom
<1>7. \A x \in 1 .. B : pty[i][m + x][2] = req[s].body[x] /\ req[s].body[x] # Enter
  <2>1. \A x \in 1 .. B : req[s].body[x] \in ToSet(req[s].body)
    BY <1>3, <1>4, SeqToSet
  <2> QED BY SMTT(30), <1>3, <1>4, <1>5, <2>1 DEF TextAt
<1>8. n \in Nat /\ k \in Nat /\ m \in Nat
  BY <1>1, CompType
<1>9. ~(k < m)
  <2> SUFFICES ASSUME k < m PROVE FALSE
    OBVIOUS
  <2>1. m \in k + 1 .. n - 1 /\ m # 0
    BY <1>5, <1>8
  <2> QED BY <1>5, <1>6, <2>1 DEF LineStart
<1>10. ~(m < k)
  <2> SUFFICES ASSUME m < k PROVE FALSE
    OBVIOUS
  <2>1. k - m \in 1 .. B /\ k = m + (k - m) /\ k # 0
    BY <1>5, <1>6, <1>8
  <2> QED BY <1>6, <1>7, <2>1 DEF LineStart
<1>11. k = m /\ n - 1 - k = B
  BY <1>5, <1>8, <1>9, <1>10
<1>12. Line(i, n) = [x \in 1 .. B |-> req[s].body[x]]
  BY <1>6, <1>7, <1>11
<1>13. Line(i, n) = req[s].body
  BY SMTT(30), <1>3, <1>4, <1>12
<1> QED BY <1>2, <1>13 DEF WholeLine

----------------------------------------------------------------------------
LEMMA AllTracked ==
  ASSUME Disciplined
  PROVE  Spec => [](IInv /\ Ranges /\ Tracked)
<1>1. IInv /\ Ranges /\ Tracked /\ [Next]_vars => IInv' /\ Ranges' /\ Tracked'
  BY NextIInv, NextRanges, NextTracked
<1> QED BY <1>1, InitIInv, InitRanges, InitTracked, PTL DEF Spec

(* Composers that keep track of their sends submit nothing twice, for any  *)
(* number of composers, sessions, words and requests, and whatever is      *)
(* typed during a send, as long as they send one after the other or the    *)
(* first session is not followed by another.  With one send at a time a    *)
(* text is sent again only when no Enter can submit it any more; with one  *)
(* session, only when there is none.                                       *)
THEOREM SubmitsOnce ==
  ASSUME Others = {}, Hazards \subseteq {"typeahead", "recreate"}
  PROVE  Spec => NoResubmit
<1> USE DEF Disciplined
<1> DEFINE I == IInv /\ Ranges /\ Tracked
           First == born = 1
<1>1. Spec => []I
  BY AllTracked
<1>2. I /\ I' /\ OneSendAtATime /\ OneInv /\ [Next]_vars => OneInv'
  BY OneStep
<1>3. I /\ First /\ First' /\ FirstInv /\ [Next]_vars => FirstInv'
  BY FirstStep
<1>4. I /\ (OneInv \/ FirstInv) => SubmittedOnce
  BY OnceIs
<1>5. Init => OneInv /\ FirstInv
  BY InitLater
<1> HIDE DEF I, First
<1>6. Spec => ([]OneSendAtATime \/ []First => []SubmittedOnce)
  BY <1>1, <1>2, <1>3, <1>4, <1>5, PTL DEF Spec
<1> QED BY <1>6 DEF NoResubmit, First

(* If they send one after the other to the first session, what each Enter  *)
(* submits is the text of its send, whole and alone: the line is empty     *)
(* until a text is written, and then it is that text until its Enter.      *)
THEOREM LinesWhole ==
  ASSUME Others = {}, Hazards \subseteq {"typeahead", "recreate"}
  PROVE  Spec => LinesAreSends
<1> USE DEF Disciplined
<1> DEFINE I == IInv /\ Ranges /\ Tracked
           One == OneSendAtATime /\ born = 1
           Whole == \A i \in Instances : \A n \in Enters(i) : WholeLine(i, n)
<1>1. Spec => []I
  BY AllTracked
<1>2. I /\ One /\ One' /\ LineInv /\ [Next]_vars => LineInv'
  BY LineStep
<1>3. I /\ LineInv => Whole
  BY WholeIs
<1>4. Init => LineInv
  BY InitLater
<1> HIDE DEF I, One, Whole
<1>5. Spec => ([]One => []Whole)
  BY <1>1, <1>2, <1>3, <1>4, PTL DEF Spec
<1> QED BY <1>5 DEF LinesAreSends, One, Whole
=============================================================================
