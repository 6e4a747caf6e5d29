--------------------------- MODULE SharedFilesProofs ---------------------------
(***************************************************************************)
(* Proofs about the two files that many write, each on its own: the work   *)
(* ledger and the registry of OS agents.                                   *)
(*                                                                         *)
(* For any requests, tasks and faults: no ledger has an edit twice or an   *)
(* event before its task, what was acknowledged is in the file until       *)
(* requests overlap or a write is cut short, and WorkLedger implements     *)
(* EditLog.                                                                *)
(*                                                                         *)
(* For any number of runners, any bounds on the attempts and any faults:   *)
(* until a takeover goes wrong the lock of the registry excludes; until    *)
(* then, and until the start script crosses another write, what becomes of *)
(* each record is known, and the file implements RegistryMap; and where no *)
(* process dies or is suspended and no lock is leaked, no takeover goes    *)
(* wrong.                                                                  *)
(***************************************************************************)
EXTENDS WorkLedger, RunnerRegistry, TLAPS

(* THE WORK LEDGER *)

(* Before the place n of the document the task of its event is created.    *)
TaskBefore(doc, n, e) ==
  \/ e[doc[n]][2] = "default"
  \/ \E k \in 1 .. n - 1 : e[doc[k]] = <<"task", e[doc[n]][2]>>

(* A document with each edit once, of requests that were made, with no     *)
(* event before its task.  It is the same for p = pc and e = edit later.   *)
Good(doc, p, e) ==
  /\ doc \in Seq(Requests) /\ IsInjective(doc)
  /\ \A n \in DOMAIN doc :
       p[doc[n]] # "new" /\ (e[doc[n]][1] = "event" => TaskBefore(doc, n, e))

(* All documents are good, also those that nobody needs any more.          *)
DocInv ==
  /\ Good(mem, pc, edit) /\ Good(file.doc, pc, edit)
  /\ \A r \in Requests : Good(copy[r], pc, edit)

StateInv ==
  /\ file.readable \in BOOLEAN /\ up \in BOOLEAN
  /\ lapses \subseteq {"overlap", "crash", "torn"}
  /\ pc \in [Requests -> Begun \cup {"new", "done", "failed"}]
  /\ edit \in [Requests -> {"task", "event"} \X (Tasks \cup {"default"})]
  /\ copy \in [Requests -> Seq(Requests)]
  /\ gone \subseteq {r \in Requests : pc[r] \in {"truncate", "write", "failed"}}
  /\ ~up => "crash" \in lapses
  /\ \A r \in Requests : pc[r] \in Begun => up /\ copy[r] # <<>> /\ Last(copy[r]) = r

(* Without overlaps a handler is alone, and its copy is memory and its own *)
(* edit.                                                                   *)
AloneInv ==
  "overlap" \notin lapses =>
    \A r \in Requests : pc[r] \in Begun =>
      /\ copy[r] = Append(mem, r) /\ r \notin ToSet(mem)
      /\ \A q \in Requests : pc[q] \in Begun => q = r

(* Without torn writes as well, what the file has at each point of a save. *)
FileInv ==
  lapses \cap {"overlap", "torn"} = {} =>
    /\ Acknowledged \subseteq ToSet(mem)
    /\ (\A r \in Requests : pc[r] # "write") =>
         file.readable /\ ToSet(mem) \subseteq ToSet(file.doc)
    /\ \A r \in Requests :
         /\ pc[r] = "write" => file = Empty
         /\ pc[r] = "publish" => file.doc = copy[r]

IInv == StateInv /\ DocInv /\ AloneInv /\ FileInv

----------------------------------------------------------------------------
(* DOCUMENTS *)

LEMMA GoodStays ==
  ASSUME NEW doc, NEW p, NEW p2, NEW e, NEW e2, Good(doc, p, e),
         \A q \in Requests : p[q] # "new" => p2[q] # "new" /\ e2[q] = e[q]
  PROVE  Good(doc, p2, e2)
<1> DEFINE Here(n) == p[doc[n]] # "new"
<1>1. \A n \in DOMAIN doc : doc[n] \in Requests
  BY DEF Good
<1>2. \A n \in DOMAIN doc : p2[doc[n]] # "new" /\ e2[doc[n]] = e[doc[n]]
  BY <1>1 DEF Good
<1>3. ASSUME NEW n \in DOMAIN doc, e2[doc[n]][1] = "event"
      PROVE  TaskBefore(doc, n, e2)
  <2>1. TaskBefore(doc, n, e)
    BY <1>2, <1>3 DEF Good
  <2>2. 1 .. n - 1 \subseteq DOMAIN doc
    <3>1. PICK m \in Nat : DOMAIN doc = 1 .. m
      BY DEF Good
    <3> QED BY <3>1
  <2> QED BY <1>2, <2>1, <2>2 DEF TaskBefore
<1> QED BY <1>2, <1>3 DEF Good

LEMMA GoodAppends ==
  ASSUME NEW doc, NEW r \in Requests, NEW p, NEW e, Good(doc, p, e),
         r \notin ToSet(doc), p[r] # "new",
         e[r][1] = "event" =>
           \/ e[r][2] = "default"
           \/ \E n \in DOMAIN doc : e[doc[n]] = <<"task", e[r][2]>>
  PROVE  Good(Append(doc, r), p, e)
<1> DEFINE d == Append(doc, r)  m == Len(doc)
<1>1. doc \in Seq(Requests) /\ m \in Nat /\ DOMAIN doc = 1 .. m
  BY DEF Good
<1>2. d \in Seq(Requests) /\ DOMAIN d = 1 .. m + 1 /\ d[m + 1] = r
      /\ \A n \in 1 .. m : d[n] = doc[n]
  BY <1>1
<1>3. \A n \in 1 .. m : doc[n] # r
  BY <1>1 DEF ToSet
<1>4. IsInjective(d)
  BY <1>1, <1>2, <1>3 DEF Good, IsInjective
<1>5. ASSUME NEW n \in DOMAIN d
      PROVE  p[d[n]] # "new" /\ (e[d[n]][1] = "event" => TaskBefore(d, n, e))
  <2>1. CASE n = m + 1
    BY <1>1, <1>2, <2>1 DEF TaskBefore
  <2>2. CASE n \in 1 .. m
    <3>1. d[n] = doc[n] /\ \A k \in 1 .. n - 1 : d[k] = doc[k]
      BY <1>1, <1>2, <2>2
    <3> HIDE DEF d
    <3>2. p[doc[n]] # "new" /\ (e[doc[n]][1] = "event" => TaskBefore(doc, n, e))
      BY <1>1, <2>2 DEF Good
    <3>3. TaskBefore(doc, n, e) => TaskBefore(d, n, e)
      BY <3>1 DEF TaskBefore
    <3> QED BY <3>1, <3>2, <3>3
  <2> QED BY <1>1, <1>2, <2>1, <2>2
<1> HIDE DEF d
<1>6. Good(d, p, e)
  BY <1>2, <1>4, <1>5 DEF Good
<1> QED BY <1>6 DEF d

LEMMA GoodEmpty == ASSUME NEW p, NEW e PROVE Good(<<>>, p, e)
BY DEF Good, IsInjective

LEMMA InAppend ==
  ASSUME NEW doc \in Seq(Requests), NEW r \in Requests
  PROVE  ToSet(Append(doc, r)) = ToSet(doc) \cup {r}
<1> DEFINE d == Append(doc, r)  m == Len(doc)
<1>1. DOMAIN d = 1 .. m + 1 /\ m \in Nat /\ d[m + 1] = r /\ DOMAIN doc = 1 .. m
      /\ \A n \in 1 .. m : d[n] = doc[n]
  OBVIOUS
<1> HIDE DEF d, m
<1>2. ToSet(d) = ToSet(doc) \cup {r}
  BY <1>1 DEF ToSet
<1> QED BY <1>2 DEF d

(* What no step undoes: a request that was made stays made and as it was.  *)
Onward == \A q \in Requests : pc[q] # "new" => pc'[q] # "new" /\ edit'[q] = edit[q]

LEMMA GoodLater ==
  ASSUME DocInv, Onward
  PROVE  /\ Good(mem, pc', edit') /\ Good(file.doc, pc', edit')
         /\ \A r \in Requests : Good(copy[r], pc', edit')
BY GoodStays DEF DocInv, Onward

LEMMA GoodIsNotNew ==
  ASSUME NEW doc, NEW p, NEW e, NEW r, Good(doc, p, e), p[r] = "new"
  PROVE  r \notin ToSet(doc)
BY DEF Good, ToSet

----------------------------------------------------------------------------
(* THE INVARIANT *)

LEMMA InitIInv == Init => IInv
<1> SUFFICES ASSUME Init PROVE IInv
  OBVIOUS
<1> USE DEF Init
<1>1. StateInv
  BY DEF StateInv, Holds, Begun
<1>2. DocInv
  BY GoodEmpty DEF DocInv, Holds
<1>3. AloneInv /\ FileInv
  BY DEF AloneInv, FileInv, Holds, Begun, Acknowledged, ToSet
<1> QED BY <1>1, <1>2, <1>3 DEF IInv

LEMMA BeginIInv ==
  ASSUME IInv, NEW r \in Requests, Begin(r)
  PROVE  IInv'
<1> USE DEF IInv
<1>1. PICK ed \in Edits : BeginWith(r, ed, ed[1] = "event" /\ ~HasTask(mem, ed[2]))
  BY DEF Begin
<1>2. Onward /\ pc[r] = "new" /\ pc'[r] # "new" /\ edit'[r] = ed
      /\ UNCHANGED <<mem, file, up, gone>>
  BY <1>1 DEF Begin, Arrive, BeginWith, Onward, StateInv
<1>3. Good(mem, pc', edit') /\ r \notin ToSet(mem)
  BY <1>2, GoodLater, GoodIsNotNew DEF DocInv
<1>4. CASE ed[1] = "event" /\ ~HasTask(mem, ed[2])
  <2>1. pc' = [pc EXCEPT ![r] = "failed"] /\ edit' = [edit EXCEPT ![r] = ed] /\ copy' = copy
    BY <1>1, <1>4 DEF BeginWith
  <2>2. StateInv'
    <3>1. lapses' \subseteq {"overlap", "crash", "torn"} /\ (~up' => "crash" \in lapses')
      <4>1. lapses' = lapses \cup {"overlap" : q \in {q \in Requests : pc[q] \in Begun}}
            /\ up' = up
        BY <1>2 DEF Begin, Arrive
      <4>2. lapses' \subseteq lapses \cup {"overlap"} /\ lapses \subseteq lapses'
        BY <4>1
      <4> QED BY <4>1, <4>2 DEF StateInv
    <3>2. edit' \in [Requests -> {"task", "event"} \X (Tasks \cup {"default"})]
      BY <2>1 DEF StateInv, Edits
    <3> QED BY <1>2, <2>1, <3>1, <3>2 DEF StateInv, Begun
  <2>3. DocInv'
    BY <1>2, <2>1, GoodLater DEF DocInv
  <2>4. lapses \subseteq lapses'
    BY DEF Begin, Arrive
  <2>5. AloneInv'
    BY <1>2, <2>1, <2>4 DEF AloneInv, StateInv, Begun
  <2>6. FileInv'
    BY <1>2, <2>1, <2>4 DEF FileInv, StateInv, Acknowledged
  <2> QED BY <2>2, <2>3, <2>5, <2>6
<1>5. CASE ~(ed[1] = "event" /\ ~HasTask(mem, ed[2]))
  <2>1. /\ pc' = [pc EXCEPT ![r] = "truncate"] /\ edit' = [edit EXCEPT ![r] = ed]
        /\ copy' = [copy EXCEPT ![r] = Append(mem, r)]
    BY <1>1, <1>5 DEF BeginWith
  <2>2. mem \in Seq(Requests) /\ Append(mem, r) \in Seq(Requests)
        /\ Append(mem, r) # <<>> /\ Last(Append(mem, r)) = r
    BY DEF DocInv, Good, Last
  <2>3. StateInv'
    <3>1. lapses' \subseteq {"overlap", "crash", "torn"} /\ (~up' => "crash" \in lapses')
      <4>1. lapses' = lapses \cup {"overlap" : q \in {q \in Requests : pc[q] \in Begun}}
            /\ up' = up
        BY <1>2 DEF Begin, Arrive
      <4>2. lapses' \subseteq lapses \cup {"overlap"} /\ lapses \subseteq lapses'
        BY <4>1
      <4> QED BY <4>1, <4>2 DEF StateInv
    <3>2. edit' \in [Requests -> {"task", "event"} \X (Tasks \cup {"default"})]
      BY <2>1 DEF StateInv, Edits
    <3>3. up
      BY DEF Begin, Arrive
    <3> QED BY <1>2, <2>1, <2>2, <3>1, <3>2, <3>3 DEF StateInv, Begun
  <2>4. DocInv'
    <3>1. ed[1] = "event" => ed[2] = "default" \/ \E n \in DOMAIN mem : edit'[mem[n]] = <<"task", ed[2]>>
      <4>1. \A n \in DOMAIN mem : edit'[mem[n]] = edit[mem[n]]
        BY <1>2 DEF Onward, DocInv, Good
      <4> QED BY <1>5, <4>1 DEF HasTask
    <3>2. Good(Append(mem, r), pc', edit')
      BY <1>2, <1>3, <3>1, GoodAppends
    <3> QED BY <1>2, <2>1, <3>2, GoodLater DEF DocInv, StateInv
  <2>5. lapses' = lapses \cup {"overlap" : q \in {q \in Requests : pc[q] \in Begun}}
    BY DEF Begin, Arrive
  <2>6. AloneInv'
    BY <1>2, <1>3, <2>1, <2>5 DEF AloneInv, StateInv, Begun
  <2>7. FileInv'
    BY <1>2, <2>1, <2>5 DEF FileInv, StateInv, Acknowledged
  <2> QED BY <2>3, <2>4, <2>6, <2>7
<1> QED BY <1>4, <1>5

LEMMA TruncateIInv ==
  ASSUME IInv, NEW r \in Requests, Truncate(r)
  PROVE  IInv'
<1> USE DEF IInv
<1>1. /\ pc[r] = "truncate" /\ pc' = [pc EXCEPT ![r] = "write"] /\ file' = Empty
      /\ UNCHANGED <<mem, up, edit, copy, gone, lapses>>
  BY DEF Truncate
<1>2. StateInv'
  BY <1>1 DEF StateInv, Begun, Empty
<1>3. DocInv'
  <2>1. Onward
    BY <1>1 DEF Onward, StateInv
  <2> QED BY <1>1, <2>1, GoodLater, GoodEmpty DEF DocInv, Empty
<1>4. AloneInv'
  BY <1>1 DEF AloneInv, StateInv, Begun
<1>5. FileInv'
  BY <1>1 DEF FileInv, AloneInv, StateInv, Begun, Acknowledged
<1> QED BY <1>2, <1>3, <1>4, <1>5

LEMMA WriteIInv ==
  ASSUME IInv, NEW r \in Requests, Write(r)
  PROVE  IInv'
<1> USE DEF IInv
<1>1. /\ pc[r] = "write" /\ pc' = [pc EXCEPT ![r] = AfterWrite(r)]
      /\ UNCHANGED <<mem, up, edit, copy, gone, lapses>>
  BY DEF Write
<1>2. AfterWrite(r) \in {"failed", "publish"} /\ (r \in gone => AfterWrite(r) = "failed")
  BY DEF AfterWrite
<1>3. file' \in {Holds(copy[r]), Mixed(copy[r])}
      /\ (file = Empty => file' = Holds(copy[r]))
  BY DEF Write, Over
<1>4. file'.doc = copy[r] /\ file'.readable \in BOOLEAN
      /\ (file = Empty => file'.readable)
  <2>1. CASE file' = Holds(copy[r])
    BY <2>1 DEF Holds
  <2>2. CASE file' = Mixed(copy[r]) /\ file # Empty
    BY <2>2 DEF Mixed
  <2> QED BY <1>3, <2>1, <2>2
<1>5. StateInv'
  BY <1>1, <1>2, <1>4 DEF StateInv, Begun
<1>6. DocInv'
  <2>1. Onward
    BY <1>1, <1>2 DEF Onward, StateInv
  <2> QED BY <1>1, <1>4, <2>1, GoodLater DEF DocInv
<1>7. AloneInv'
  BY <1>1, <1>2 DEF AloneInv, StateInv, Begun
<1>8. FileInv'
  <2> SUFFICES ASSUME lapses \cap {"overlap", "torn"} = {} PROVE FileInv'
    BY <1>1 DEF FileInv
  <2>1. copy[r] = Append(mem, r) /\ \A q \in Requests : pc[q] \in Begun => q = r
    BY <1>1 DEF AloneInv, Begun
  <2>2. ToSet(mem) \subseteq ToSet(copy[r])
    BY <2>1, InAppend DEF DocInv, Good
  <2>3. file'.readable
    BY <1>1, <1>4 DEF FileInv
  <2>4. Acknowledged' = Acknowledged
    BY <1>1, <1>2 DEF Acknowledged, StateInv
  <2> QED BY <1>1, <1>2, <1>4, <2>1, <2>2, <2>3, <2>4 DEF FileInv, StateInv, Begun
<1> QED BY <1>5, <1>6, <1>7, <1>8

LEMMA WriteFailsIInv ==
  ASSUME IInv, NEW r \in Requests, WriteFails(r)
  PROVE  IInv'
<1> USE DEF IInv
<1>1. /\ pc[r] = "write" /\ pc' = [pc EXCEPT ![r] = "failed"]
      /\ lapses' = lapses \cup {"torn"}
      /\ UNCHANGED <<mem, file, up, edit, copy, gone>>
  BY DEF WriteFails
<1>2. StateInv'
  BY <1>1 DEF StateInv, Begun
<1>3. DocInv'
  <2>1. Onward
    BY <1>1 DEF Onward, StateInv
  <2> QED BY <1>1, <2>1, GoodLater DEF DocInv
<1>4. AloneInv'
  BY <1>1 DEF AloneInv, StateInv, Begun
<1>5. FileInv'
  BY <1>1 DEF FileInv
<1> QED BY <1>2, <1>3, <1>4, <1>5

LEMMA PublishIInv ==
  ASSUME IInv, NEW r \in Requests, Publish(r)
  PROVE  IInv'
<1> USE DEF IInv
<1>1. /\ pc[r] = "publish" /\ pc' = [pc EXCEPT ![r] = "done"] /\ mem' = copy[r]
      /\ UNCHANGED <<file, up, edit, copy, gone, lapses>>
  BY DEF Publish
<1>2. StateInv'
  BY <1>1 DEF StateInv, Begun
<1>3. DocInv'
  <2>1. Onward
    BY <1>1 DEF Onward, StateInv
  <2> QED BY <1>1, <2>1, GoodLater DEF DocInv
<1>4. AloneInv'
  BY <1>1 DEF AloneInv, StateInv, Begun
<1>5. FileInv'
  <2> SUFFICES ASSUME lapses \cap {"overlap", "torn"} = {} PROVE FileInv'
    BY <1>1 DEF FileInv
  <2>1. copy[r] = Append(mem, r) /\ \A q \in Requests : pc[q] \in Begun => q = r
    BY <1>1 DEF AloneInv, Begun
  <2>2. ToSet(copy[r]) = ToSet(mem) \cup {r}
    BY <2>1, InAppend DEF DocInv, Good
  <2>3. Acknowledged' = Acknowledged \cup {r}
    BY <1>1 DEF Acknowledged, StateInv
  <2>4. file.readable /\ file.doc = copy[r]
    BY <1>1, <2>1 DEF FileInv, Begun
  <2> QED BY <1>1, <2>1, <2>2, <2>3, <2>4 DEF FileInv, StateInv, Begun
<1> QED BY <1>2, <1>3, <1>4, <1>5

LEMMA DropIInv ==
  ASSUME IInv, NEW r \in Requests, Drop(r)
  PROVE  IInv'
<1> USE DEF IInv
<1>1. /\ r \notin gone /\ pc[r] \in Begun
      /\ UNCHANGED <<mem, file, up, edit, copy, lapses>>
      /\ \/ pc' = [pc EXCEPT ![r] = "failed"] /\ pc[r] = "publish" /\ gone' = gone
         \/ gone' = gone \cup {r} /\ pc[r] # "publish" /\ pc' = pc
  BY DEF Drop, Running
<1>2. StateInv'
  BY <1>1 DEF StateInv, Begun
<1>3. DocInv'
  <2>1. Onward
    BY <1>1 DEF Onward, StateInv
  <2> QED BY <1>1, <2>1, GoodLater DEF DocInv
<1>4. AloneInv'
  BY <1>1 DEF AloneInv, StateInv, Begun
<1>5. FileInv'
  BY <1>1 DEF FileInv, AloneInv, StateInv, Begun, Acknowledged
<1> QED BY <1>2, <1>3, <1>4, <1>5

LEMMA CrashIInv ==
  ASSUME IInv, Crash
  PROVE  IInv'
<1> USE DEF IInv
<1>1. /\ pc' = [r \in Requests |-> IF pc[r] \in Begun THEN "failed" ELSE pc[r]]
      /\ up' = FALSE /\ UNCHANGED <<mem, file, edit, copy, gone>>
      /\ lapses' = lapses \cup {"crash"} \cup {"torn" : r \in {r \in Requests : pc[r] = "write"}}
  BY DEF Crash
<1>2. StateInv'
  BY <1>1 DEF StateInv, Begun
<1>3. DocInv'
  <2>1. Onward
    BY <1>1 DEF Onward, StateInv
  <2> QED BY <1>1, <2>1, GoodLater DEF DocInv
<1>4. \A r \in Requests : pc'[r] \notin Begun
  BY <1>1 DEF StateInv, Begun
<1>5. AloneInv'
  BY <1>4 DEF AloneInv
<1>6. FileInv'
  <2>1. lapses \subseteq lapses' /\ \A r \in Requests : pc[r] = "write" => "torn" \in lapses'
    BY <1>1
  <2>2. Acknowledged' = Acknowledged
    BY <1>1 DEF Acknowledged, StateInv, Begun
  <2> QED BY <1>1, <1>4, <2>1, <2>2 DEF FileInv, StateInv, Begun
<1> QED BY <1>2, <1>3, <1>5, <1>6

LEMMA RestartIInv ==
  ASSUME IInv, Restart
  PROVE  IInv'
<1> USE DEF IInv
<1>1. /\ ~up /\ up' = TRUE /\ UNCHANGED <<file, pc, edit, copy, gone, lapses>>
      /\ mem' = IF file.readable THEN file.doc ELSE <<>>
  BY DEF Restart
<1>2. \A r \in Requests : pc[r] \notin Begun
  BY <1>1 DEF StateInv
<1>3. StateInv'
  BY <1>1 DEF StateInv, Begun
<1>4. DocInv'
  BY <1>1, GoodEmpty DEF DocInv
<1>5. AloneInv' /\ FileInv'
  BY <1>1, <1>2 DEF AloneInv, FileInv, Acknowledged, Begun
<1> QED BY <1>3, <1>4, <1>5

LEMMA NextIInv == IInv /\ [Next]_vars => IInv'
<1> SUFFICES ASSUME IInv, [Next]_vars PROVE IInv'
  OBVIOUS
<1>1. CASE \E r \in Requests : Handler(r)
  BY <1>1, BeginIInv, TruncateIInv, WriteIInv, WriteFailsIInv, PublishIInv, DropIInv DEF Handler
<1>2. CASE Crash
  BY <1>2, CrashIInv
<1>3. CASE Restart
  BY <1>3, RestartIInv
<1>4. CASE UNCHANGED vars
  BY <1>4 DEF vars, IInv, StateInv, DocInv, AloneInv, FileInv, Acknowledged
<1> QED BY <1>1, <1>2, <1>3, <1>4 DEF Next

LEMMA Invariant == Spec => []IInv
BY InitIInv, NextIInv, PTL DEF Spec

----------------------------------------------------------------------------
(* THEOREMS *)

(* Every reachable state of WorkLedger is well typed: no document has an   *)
(* edit twice, and who is at work holds a copy that ends in its own edit.  *)
THEOREM TypeCorrect == Spec => []TypeOK
<1>1. IInv => TypeOK
  <2> SUFFICES ASSUME IInv PROVE TypeOK
    OBVIOUS
  <2>1. mem \in Seq(Requests) /\ file.doc \in Seq(Requests) /\ IsInjective(mem)
    BY DEF IInv, DocInv, Good
  <2> QED BY <2>1 DEF IInv, StateInv, TypeOK
<1> QED BY <1>1, Invariant, PTL

(* WorkLedgerStore::save and its callers: as long as requests come one at  *)
(* a time and no write is cut short, what was acknowledged is in the file; *)
(* and no event is without its task, whatever runs at once, fails or is    *)
(* killed.                                                                 *)
THEOREM LedgerIsSound == Spec => []LedgerSound
<1>1. IInv => LossOnlyByTornWrite
  BY DEF IInv, FileInv, LossOnlyByTornWrite
<1>2. IInv => EventsHaveTasks
  <2> SUFFICES ASSUME IInv, NEW n \in DOMAIN mem, edit[mem[n]][1] = "event"
               PROVE  HasTask(SubSeq(mem, 1, n - 1), edit[mem[n]][2])
    BY DEF EventsHaveTasks
  <2> DEFINE before == SubSeq(mem, 1, n - 1)
  <2>1. Good(mem, pc, edit)
    BY DEF IInv, DocInv
  <2>2. mem \in Seq(Requests) /\ TaskBefore(mem, n, edit)
    BY <2>1 DEF Good
  <2>3. DOMAIN before = 1 .. n - 1 /\ \A k \in 1 .. n - 1 : before[k] = mem[k]
    BY <2>2
  <2> QED BY <2>2, <2>3 DEF HasTask, TaskBefore
<1> QED BY <1>1, <1>2, Invariant, PTL DEF LedgerSound

Broken == lapses \cap {"overlap", "crash"} # {}

(* A step appends an edit that is new, or changes nothing, or the promise  *)
(* is broken.                                                              *)
LEMMA StepMaps ==
  ASSUME IInv, IInv', [Next]_vars
  PROVE  \/ \E r \in Requests :
              /\ ~Broken /\ ~Broken' /\ mem' = Append(mem, r)
              /\ \A n \in DOMAIN mem : mem[n] # r
         \/ Broken' /\ mem' \in Seq(Requests)
         \/ mem' = mem /\ (Broken' <=> Broken)
<1>1. mem' \in Seq(Requests)
  BY DEF IInv, DocInv, Good
<1>2. lapses \subseteq lapses'
  <2>1. ASSUME NEW r \in Requests, Handler(r) PROVE lapses \subseteq lapses'
    BY <2>1 DEF Handler, Begin, Arrive, Truncate, Write, WriteFails, Publish, Drop
  <2>2. Crash => lapses \subseteq lapses'
    BY DEF Crash
  <2> QED BY <2>1, <2>2 DEF Next, Restart, vars
<1>3. Broken => Broken'
  BY <1>2 DEF Broken
<1>4. CASE Broken
  BY <1>1, <1>3, <1>4
<1>5. CASE ~Broken /\ ~Broken'
  <2>1. ASSUME NEW r \in Requests, Publish(r)
        PROVE  mem' = Append(mem, r) /\ \A n \in DOMAIN mem : mem[n] # r
    <3>1. copy[r] = Append(mem, r) /\ r \notin ToSet(mem)
      BY <1>5, <2>1 DEF IInv, AloneInv, Publish, Begun, Broken
    <3> QED BY <2>1, <3>1 DEF Publish, ToSet
  <2>2. ASSUME NEW r \in Requests, Handler(r), ~Publish(r) PROVE mem' = mem
    BY <2>2 DEF Handler, Begin, Truncate, Write, WriteFails, Drop
  <2>3. Crash => mem' = mem
    BY DEF Crash
  <2>4. ~Restart
    BY <1>5 DEF Restart, IInv, StateInv, Broken
  <2>5. UNCHANGED vars => mem' = mem
    BY DEF vars
  <2> QED BY <1>5, <2>1, <2>2, <2>3, <2>4, <2>5 DEF Next
<1>6. CASE ~Broken /\ Broken'
  BY <1>1, <1>6
<1> QED BY <1>4, <1>5, <1>6

(* As long as requests come one at a time and the API is not killed, the   *)
(* ledger implements EditLog: an edit is added at the end, once and at     *)
(* once, or not at all, whatever writes fail and handlers are dropped.     *)
THEOREM LedgerImplementsLog == Spec => IsALog
<1>1. Init => Log!Init
  BY DEF Init, Log!Init
<1>2. IInv /\ IInv' /\ [Next]_vars => [Log!Next]_Log!vars
  BY StepMaps DEF Log!Next, Log!Apply, Log!Break, Log!vars, Broken
<1> QED BY <1>1, <1>2, Invariant, PTL DEF Spec, IsALog, Log!Spec

----------------------------------------------------------------------------
(* THE REGISTRY OF OS AGENTS *)

(* RunnerRegistry's type invariant holds at the start.                     *)
LEMMA InitTyped == RegistryInit => RegistryTypeOK
<1> SUFFICES ASSUME RegistryInit PROVE RegistryTypeOK
    OBVIOUS
<1>1. NoCopy \in Records
      BY DEF NoCopy, Records
<1>2. seen \in [Runners -> Records]
      BY <1>1 DEF RegistryInit
<1>3. tries \in [Runners -> 0 .. MaxTries]
      BY RegistryAssumption DEF RegistryInit
<1> QED BY <1>1, <1>2, <1>3 DEF RegistryInit, RegistryTypeOK

(* Every step keeps the types: a retry counts only while attempts are left.*)
LEMMA StepTyped == RegistryTypeOK /\ [RegistryNext]_registryVars => RegistryTypeOK'
<1> SUFFICES ASSUME RegistryTypeOK, [RegistryNext]_registryVars PROVE RegistryTypeOK'
    OBVIOUS
<1> USE DEF RegistryAssumption, RegistryTypeOK, Records, history, Note
<1> USE RegistryAssumption
<1>1. ASSUME NEW r \in Runners, Start(r) \/ ChildEnds(r) PROVE RegistryTypeOK'
      BY <1>1 DEF Start, ChildEnds, Goto
<1>2. ASSUME NEW r \in Runners, Acquire(r) PROVE RegistryTypeOK'
  <2>1. CASE TryCreate(r)
        BY <2>1 DEF TryCreate, Goto
  <2>2. CASE TryBusy(r)
    <3>1. CASE tries[r] >= StaleAfter
          BY <2>2, <3>1 DEF TryBusy, Goto
    <3>2. CASE ~(tries[r] >= StaleAfter)
      <4>1. tries' = [tries EXCEPT ![r] = @ + 1] /\ UNCHANGED <<registry, lock, doing, wants, seen, script, history>>
            BY <2>2, <3>2 DEF TryBusy
      <4>2. tries[r] + 1 \in 0 .. MaxTries /\ doing[r] = "acquire"
            BY <2>2 DEF TryBusy
      <4> QED BY <4>1, <4>2
    <3> QED BY <3>1, <3>2
  <2>3. CASE Examine(r)
    <3>1. CASE lock # NoLock /\ lock.old
          BY <2>3, <3>1 DEF Examine, Goto
    <3>2. CASE ~(lock # NoLock /\ lock.old)
      <4>1. /\ doing' = [doing EXCEPT ![r] = "acquire"] /\ tries' = [tries EXCEPT ![r] = @ + 1]
            /\ UNCHANGED <<registry, lock, wants, seen, script, history>>
            BY <2>3, <3>2 DEF Examine, Goto
      <4>2. tries[r] + 1 \in 0 .. MaxTries
            BY <2>3 DEF Examine
      <4> QED BY <4>1, <4>2
    <3> QED BY <3>1, <3>2
  <2>4. CASE RemoveStale(r)
    <3>1. /\ doing' = [doing EXCEPT ![r] = "acquire"] /\ tries' = [tries EXCEPT ![r] = @ + 1]
          /\ lock' = NoLock /\ UNCHANGED <<registry, wants, seen, script>>
          BY <2>4 DEF RemoveStale, Goto
    <3>2. tries[r] + 1 \in 0 .. MaxTries
          BY <2>4 DEF RemoveStale
    <3>3. stolen' \in BOOLEAN /\ crossed' \in BOOLEAN
          BY <2>4 DEF RemoveStale
    <3>4. author' \in [Runners -> {"nobody", "own", "script"}]
          BY <2>4 DEF RemoveStale
    <3> QED BY <3>1, <3>2, <3>3, <3>4
  <2>5. CASE GiveUp(r)
    <3>1. /\ doing' \in {[doing EXCEPT ![r] = p] : p \in {"off", "silent"}}
          /\ tries' = [tries EXCEPT ![r] = 0]
          /\ UNCHANGED <<registry, lock, wants, seen, script, history>>
          BY <2>5 DEF GiveUp, Goto, AfterFailure
    <3> QED BY <3>1
  <2> QED BY <1>2, <2>1, <2>2, <2>3, <2>4, <2>5 DEF Acquire
<1>3. ASSUME NEW r \in Runners, Upsert(r) PROVE RegistryTypeOK'
  <2>1. CASE WritePid(r) \/ WritePidFails(r)
    <3>1. /\ doing' \in {[doing EXCEPT ![r] = p] : p \in {"read", "off", "silent"}}
          /\ UNCHANGED <<registry, lock, wants, tries, seen, script, history>>
          BY <2>1 DEF WritePid, WritePidFails, Goto, AfterFailure
    <3> HIDE DEF Records
    <3> QED BY <3>1
  <2>2. CASE ReadRegistry(r) \/ ReadFails(r)
    <3>1. /\ doing' \in {[doing EXCEPT ![r] = p] : p \in {"write", "blind"}}
          /\ seen' = seen \/ seen' = [seen EXCEPT ![r] = registry]
          /\ UNCHANGED <<registry, lock, wants, tries, script, history>>
          BY <2>2 DEF ReadRegistry, ReadFails, Goto
    <3>2. seen' \in [Runners -> Records]
          BY <3>1
    <3>3. doing' = [doing EXCEPT ![r] = "write"] \/ doing' = [doing EXCEPT ![r] = "blind"]
          BY <3>1
    <3>4. UNCHANGED <<registry, lock, wants, tries, script, stolen, crossed, author>>
          BY <3>1
    <3>5. \A q \in Runners : doing'[q] \in {"examine", "remove"} => tries'[q] < MaxTries
          BY <3>3, <3>4
    <3> HIDE DEF Records
    <3> QED BY <3>2, <3>3, <3>4, <3>5
  <2>3. CASE WriteRegistry(r) \/ WriteRegistryFails(r)
    <3>1. NoCopy \in Records
          BY DEF NoCopy
    <3>2. CASE WriteRegistry(r)
      <4>1. registry' \in Records
            BY <3>2 DEF WriteRegistry
      <4>2. author' \in [Runners -> {"nobody", "own", "script"}]
            BY <3>2 DEF WriteRegistry, Written
      <4>3. /\ seen' = [seen EXCEPT ![r] = NoCopy] /\ doing' = [doing EXCEPT ![r] = "release"]
            /\ UNCHANGED <<lock, wants, tries, script, stolen, crossed>>
            BY <3>2 DEF WriteRegistry, Goto
      <4> QED BY <3>1, <4>1, <4>2, <4>3
    <3>3. CASE WriteRegistryFails(r)
          BY <3>1, <3>3 DEF WriteRegistryFails, Goto
    <3> QED BY <2>3, <3>2, <3>3
  <2>4. CASE Release(r)
    <3>1. /\ doing' \in {[doing EXCEPT ![r] = p] : p \in {"off", "silent", "running", "ended"}}
          /\ lock' = NoLock
          BY <2>4 DEF Release, Goto, AfterFailure
    <3>2. UNCHANGED <<registry, wants, tries, seen, script, history>>
          BY <2>4 DEF Release
    <3> QED BY <3>1, <3>2
  <2> QED BY <1>3, <2>1, <2>2, <2>3, <2>4 DEF Upsert
<1>4. ASSUME NEW r \in Runners, Die(r) PROVE RegistryTypeOK'
      BY <1>4 DEF Die, Goto, NoCopy
<1>5. CASE LockAges
      BY <1>5 DEF LockAges
<1>6. CASE UNCHANGED registryVars
      BY <1>6 DEF registryVars
<1>7. ASSUME NEW r \in Runners, ScriptReads(r) PROVE RegistryTypeOK'
      BY <1>7 DEF ScriptReads
<1>8. CASE ScriptWrites
  <2>1. script \in [for : Runners, copy : Records]
        BY <1>8 DEF ScriptWrites
  <2>2. registry' \in Records
        BY <1>8, <2>1 DEF ScriptWrites
  <2>3. author' \in [Runners -> {"nobody", "own", "script"}]
        BY <1>8, <2>1 DEF ScriptWrites
  <2>4. /\ script' = NoScript /\ stolen' = stolen /\ crossed' \in BOOLEAN
        /\ UNCHANGED <<lock, doing, wants, tries, seen>>
        BY <1>8 DEF ScriptWrites
  <2> QED BY <2>2, <2>3, <2>4
<1>9. CASE ScriptFails
      BY <1>9 DEF ScriptFails
<1> QED BY <1>1, <1>2, <1>3, <1>4, <1>5, <1>6, <1>7, <1>8, <1>9 DEF RegistryNext

(* Every variable keeps its type, and a runner that examines or removes a *)
(* stale lock has an attempt left.                                         *)
THEOREM RegistryTypeCorrect == RegistrySpec => []RegistryTypeOK
BY InitTyped, StepTyped, PTL DEF RegistrySpec

----------------------------------------------------------------------------
(* Exclusion is inductive on its own: the only runner that may remove the  *)
(* lock of another is one that takes a lock over, and when that goes wrong *)
(* stolen is set for good.                                                 *)
LEMMA InitExcludes == RegistryInit => Exclusion
BY DEF RegistryInit, Exclusion, Inside

(* Exclusion passes through every step: create_new gives the lock to one   *)
(* runner, and only its owner or a takeover removes it.                    *)
LEMMA StepExcludes == RegistryTypeOK /\ Exclusion /\ [RegistryNext]_registryVars => Exclusion'
<1> SUFFICES ASSUME RegistryTypeOK, Exclusion, [RegistryNext]_registryVars PROVE Exclusion'
    OBVIOUS
<1> USE DEF RegistryTypeOK, Exclusion, Inside, history
<1>0. ASSUME NEW r \in Runners,
             \E p \in {"acquire", "examine", "remove", "off", "silent", "running", "ended"} :
               doing' = [doing EXCEPT ![r] = p],
             UNCHANGED <<lock, stolen>>
      PROVE  Exclusion'
      BY <1>0
<1>1. ASSUME NEW r \in Runners, Start(r) \/ ChildEnds(r) PROVE Exclusion'
      BY <1>0, <1>1 DEF Start, ChildEnds, Goto
<1>2. ASSUME NEW r \in Runners, Acquire(r) PROVE Exclusion'
  <2>1. CASE TryCreate(r)
    <3>1. ~stolen => Inside = {}
          BY <2>1 DEF TryCreate
    <3>2. doing' = [doing EXCEPT ![r] = "locked"] /\ lock' = [by |-> r, old |-> FALSE] /\ stolen' = stolen
          BY <2>1 DEF TryCreate, Goto
    <3>3. lock' \in [by : Runners, old : BOOLEAN] /\ lock'.by = r
          BY <3>2
    <3>4. lock' # NoLock
          BY <3>3, RegistryAssumption DEF RegistryAssumption
    <3> QED BY <3>1, <3>2, <3>3, <3>4
  <2>2. CASE TryBusy(r)
        BY <1>0, <2>2 DEF TryBusy, Goto
  <2>3. CASE Examine(r)
        BY <1>0, <2>3 DEF Examine, Goto
  <2>4. CASE RemoveStale(r)
    <3>1. ~stolen' => ~stolen /\ (lock = NoLock \/ lock.by \notin Inside)
          BY <2>4 DEF RemoveStale
    <3>2. ~stolen' => Inside = {}
          BY <3>1
    <3>3. doing' = [doing EXCEPT ![r] = "acquire"]
          BY <2>4 DEF RemoveStale, Goto
    <3> QED BY <3>2, <3>3
  <2>5. CASE GiveUp(r)
        BY <1>0, <2>5 DEF GiveUp, Goto, AfterFailure
  <2> QED BY <1>2, <2>1, <2>2, <2>3, <2>4, <2>5 DEF Acquire
<1>3. ASSUME NEW r \in Runners, Upsert(r) PROVE Exclusion'
  <2>1. CASE WritePid(r)
        BY <2>1 DEF WritePid, Goto
  <2>2. CASE WritePidFails(r)
        BY <1>0, <2>2 DEF WritePidFails, Goto, AfterFailure
  <2>3. CASE ReadRegistry(r) \/ ReadFails(r)
        BY <2>3 DEF ReadRegistry, ReadFails, Goto
  <2>4. CASE WriteRegistry(r) \/ WriteRegistryFails(r)
        BY <2>4 DEF WriteRegistry, WriteRegistryFails, Goto
  <2>5. CASE Release(r)
    <3>1. ~stolen => \A q \in Inside : q = r
          BY <2>5 DEF Release
    <3>2. \A q \in Runners : q # r => doing'[q] = doing[q]
          BY <2>5 DEF Release, Goto
    <3>3. doing'[r] \in {"off", "silent", "running", "ended"}
          BY <2>5 DEF Release, Goto, AfterFailure
    <3> QED BY <2>5, <3>1, <3>2, <3>3 DEF Release
  <2> QED BY <1>3, <2>1, <2>2, <2>3, <2>4, <2>5 DEF Upsert
<1>4. ASSUME NEW r \in Runners, Die(r) PROVE Exclusion'
      BY <1>0, <1>4 DEF Die, Goto
<1>5. CASE LockAges
      BY <1>5, RegistryAssumption DEF LockAges, RegistryAssumption
<1>6. CASE UNCHANGED registryVars
      BY <1>6 DEF registryVars
<1>7. ASSUME (\E r \in Runners : ScriptReads(r)) \/ ScriptWrites \/ ScriptFails PROVE Exclusion'
      BY <1>7 DEF ScriptReads, ScriptWrites, ScriptFails
<1> QED BY <1>1, <1>2, <1>3, <1>4, <1>5, <1>6, <1>7 DEF RegistryNext

(* Whoever is in the critical section owns the lock file, unless a         *)
(* takeover has removed one that it had not looked at.                     *)
THEOREM LockExcludes == RegistrySpec => []Exclusion
<1>1. RegistrySpec => []RegistryTypeOK
      BY RegistryTypeCorrect
<1> QED BY <1>1, InitExcludes, StepExcludes, PTL DEF RegistrySpec

----------------------------------------------------------------------------
(* RecordKept is not inductive.  A runner that is about to write must hold *)
(* a copy that is still the registry, or none, and one that has written    *)
(* must still find its record there, until another or the script writes.   *)
Whole == ~stolen /\ ~crossed

(* What the registry has for r, given who wrote it and what r recorded.    *)
ByAuthor(a, own) == CASE a = "nobody" -> NoRecord
                      [] a = "script" -> "active"
                      [] a = "own" -> own

Kept ==
  Whole =>
    \A r \in Runners :
      /\ doing[r] = "write" => seen[r] = registry
      /\ doing[r] = "blind" => seen[r] = NoCopy
      /\ doing[r] = "release" => registry[r] = ByAuthor(author[r], wants[r])
      /\ doing[r] = "running" => registry[r] = ByAuthor(author[r], "active")
      /\ doing[r] = "ended" => registry[r] = ByAuthor(author[r], "exited")

(* A runner holds a copy only to write it, and it writes only inside.      *)
CopyInv == \A r \in Runners : doing[r] # "write" => seen[r] = NoCopy

(* Nothing has been recorded at the start.                                 *)
LEMMA InitKeeps == RegistryInit => Kept /\ CopyInv
BY DEF RegistryInit, Kept, CopyInv

(* A copy is taken by the read and dropped by the write or the death.      *)
LEMMA StepCopies == RegistryTypeOK /\ CopyInv /\ [RegistryNext]_registryVars => CopyInv'
<1> SUFFICES ASSUME RegistryTypeOK, CopyInv, [RegistryNext]_registryVars PROVE CopyInv'
    OBVIOUS
<1> USE DEF RegistryTypeOK, CopyInv
<1>1. ASSUME NEW r \in Runners, Start(r) \/ ChildEnds(r) \/ Acquire(r) \/ Die(r) PROVE CopyInv'
      BY <1>1 DEF Start, ChildEnds, Acquire, TryCreate, TryBusy, Examine, RemoveStale, GiveUp, Die,
                  Goto, AfterFailure
<1>2. ASSUME NEW r \in Runners, Upsert(r) PROVE CopyInv'
      BY <1>2 DEF Upsert, WritePid, WritePidFails, ReadRegistry, ReadFails, WriteRegistry,
                  WriteRegistryFails, Release, Goto, AfterFailure
<1>3. CASE (\E r \in Runners : ScriptReads(r)) \/ ScriptWrites \/ ScriptFails \/ LockAges
      BY <1>3 DEF ScriptReads, ScriptWrites, ScriptFails, LockAges
<1>4. CASE UNCHANGED registryVars
      BY <1>4 DEF registryVars
<1> QED BY <1>1, <1>2, <1>3, <1>4 DEF RegistryNext

(* The holder of the lock, which is alone inside, changes the registry,    *)
(* and the script does, in the record of its agent only unless it crosses  *)
(* another write.                                                          *)
LEMMA StepKeeps ==
  RegistryTypeOK /\ CopyInv /\ Exclusion /\ Kept /\ [RegistryNext]_registryVars => Kept'
<1> SUFFICES ASSUME RegistryTypeOK, CopyInv, Exclusion, Kept, [RegistryNext]_registryVars PROVE Kept'
    OBVIOUS
<1> USE DEF RegistryTypeOK, Kept, Whole, history
<1>0. ASSUME NEW r \in Runners,
             \E p \in {"acquire", "examine", "remove", "off", "silent", "locked", "read", "abort"} :
               doing' = [doing EXCEPT ![r] = p],
             \A q \in Runners : q # r => seen'[q] = seen[q] /\ wants'[q] = wants[q],
             registry' = registry, Whole' => Whole /\ author' = author
      PROVE  Kept'
      BY <1>0
<1>1. ASSUME NEW r \in Runners, Start(r) \/ ChildEnds(r) PROVE Kept'
      BY <1>0, <1>1 DEF Start, ChildEnds, Goto
<1>2. ASSUME NEW r \in Runners, Acquire(r) PROVE Kept'
  <2>1. CASE RemoveStale(r)
        BY <1>0, <2>1 DEF RemoveStale, Goto, Note
  <2>2. CASE ~RemoveStale(r)
        BY <1>0, <1>2, <2>2 DEF Acquire, TryCreate, TryBusy, Examine, GiveUp, Goto, AfterFailure
  <2> QED BY <2>1, <2>2
<1>3. ASSUME NEW r \in Runners, Upsert(r) PROVE Kept'
  <2>1. CASE WritePid(r) \/ WritePidFails(r) \/ WriteRegistryFails(r)
        BY <1>0, <2>1 DEF WritePid, WritePidFails, WriteRegistryFails, Goto, AfterFailure
  <2>2. CASE ReadRegistry(r)
        BY <2>2 DEF ReadRegistry, Goto
  <2>3. CASE ReadFails(r)
        BY <2>3 DEF ReadFails, Goto, CopyInv
  <2>4. CASE WriteRegistry(r)
    <3> SUFFICES ASSUME Whole PROVE Kept'
        BY <2>4 DEF WriteRegistry
    <3>1. \A q \in Runners : q # r => doing'[q] = doing[q] /\ doing[q] \notin {"write", "blind", "release"}
          BY <2>4 DEF WriteRegistry, Goto, Exclusion, Inside
    <3>2. /\ doing'[r] = "release" /\ wants' = wants
          /\ author' = Written(r)
          BY <2>4 DEF WriteRegistry, Goto, Note
    <3>3. registry'[r] = wants[r] /\ author'[r] = "own"
          BY <2>4, <3>2 DEF WriteRegistry, Records, Written
    <3>4. ASSUME NEW q \in Runners, q # r
          PROVE  \/ registry'[q] = registry[q] /\ author'[q] = author[q]
                 \/ registry'[q] = NoRecord /\ author'[q] = "nobody"
          BY <2>4, <3>2, <3>4 DEF WriteRegistry, Records, Written, NoCopy
    <3> QED BY <3>1, <3>2, <3>3, <3>4 DEF ByAuthor
  <2>5. CASE Release(r)
    <3>1. CASE doing[r] = "abort"
          BY <1>0, <2>5, <3>1 DEF Release, Goto, AfterFailure
    <3>2. CASE doing[r] = "release"
          BY <2>5, <3>2 DEF Release, Goto
    <3> QED BY <2>5, <3>1, <3>2 DEF Release
  <2> QED BY <1>3, <2>1, <2>2, <2>3, <2>4, <2>5 DEF Upsert
<1>4. ASSUME NEW r \in Runners, Die(r) PROVE Kept'
      BY <1>0, <1>4 DEF Die, Goto
<1>5. CASE LockAges
      BY <1>5 DEF LockAges
<1>6. CASE UNCHANGED registryVars
      BY <1>6 DEF registryVars
<1>7. CASE (\E r \in Runners : ScriptReads(r)) \/ ScriptFails
      BY <1>7 DEF ScriptReads, ScriptFails
<1>8. CASE ScriptWrites
  <2> SUFFICES ASSUME Whole' PROVE Kept'
      OBVIOUS
  <2>1. /\ Whole /\ registry = script.copy
        /\ \A r \in Runners : doing[r] # "write"
        BY <1>8 DEF ScriptWrites
  <2>2. script \in [for : Runners, copy : Records]
        BY <1>8 DEF ScriptWrites
  <2>3. /\ author' = [author EXCEPT ![script.for] = "script"]
        /\ registry' = [registry EXCEPT ![script.for] = "active"]
        /\ UNCHANGED <<doing, wants, seen>>
        BY <1>8, <2>1 DEF ScriptWrites, Note
  <2> QED BY <2>1, <2>2, <2>3 DEF ByAuthor, Records
<1> QED BY <1>1, <1>2, <1>3, <1>4, <1>5, <1>6, <1>7, <1>8 DEF RegistryNext

(* What a runner has recorded of its agent stays in the registry, until a  *)
(* runner that cannot read the registry drops it or the script makes it    *)
(* active: nothing else loses a record, as long as no takeover has gone    *)
(* wrong and the script has not crossed another write.                     *)
THEOREM RecordsStay == RegistrySpec => []RecordKept
<1>1. RegistrySpec => []RegistryTypeOK
      BY RegistryTypeCorrect
<1>2. RegistrySpec => []Exclusion
      BY LockExcludes
<1>3. Kept => RecordKept
      BY DEF Kept, RecordKept, Whole, ByAuthor
<1> QED BY <1>1, <1>2, <1>3, InitKeeps, StepCopies, StepKeeps, PTL DEF RegistrySpec

----------------------------------------------------------------------------
(* A step of the registry is an upsert of one record, because its writer   *)
(* holds a copy that is still the registry, or a blind one, because it     *)
(* holds none; the script's is an upsert as well when it crosses nothing.  *)
(* Any other step leaves the registry, but for one that breaks the promise *)
(* or comes after it.                                                      *)
LEMMA RegistryStepMaps ==
  RegistryTypeOK /\ RegistryTypeOK' /\ Kept /\ [RegistryNext]_registryVars => [Map!Next]_(Map!vars)
<1> SUFFICES ASSUME RegistryTypeOK, RegistryTypeOK', Kept, [RegistryNext]_registryVars
             PROVE  Map!Next \/ UNCHANGED <<registry, stolen \/ crossed>>
    BY DEF Map!vars
<1> USE DEF history
<1>0. CASE ~Whole'
  <2>1. registry' \in [Runners -> Map!Statuses \cup {NoRecord}] /\ (stolen \/ crossed)' = TRUE
        BY <1>0 DEF RegistryTypeOK, Records, Map!Statuses, Whole
  <2> QED BY <2>1 DEF Map!Next, Map!Break
<1>1. ASSUME NEW r \in Runners, WriteRegistry(r), Whole' PROVE Map!Next
  <2>1. Whole /\ (stolen \/ crossed)' = (stolen \/ crossed)
        BY <1>1 DEF WriteRegistry, Whole
  <2>2. wants[r] \in Map!Statuses
        BY DEF RegistryTypeOK, Map!Statuses
  <2>3. CASE doing[r] = "write"
    <3>1. registry' = [registry EXCEPT ![r] = wants[r]]
          BY <1>1, <2>1, <2>3 DEF WriteRegistry, Kept
    <3> QED BY <2>1, <2>2, <3>1 DEF Map!Next, Map!Upsert, Whole
  <2>4. CASE doing[r] = "blind"
    <3>1. registry' = [NoCopy EXCEPT ![r] = wants[r]]
          BY <1>1, <2>1, <2>4 DEF WriteRegistry, Kept
    <3>2. registry' = [q \in Runners |-> IF q = r THEN wants[r] ELSE NoRecord]
          BY <3>1 DEF NoCopy
    <3> QED BY <2>1, <2>2, <3>2 DEF Map!Next, Map!UpsertBlind, Whole
  <2> QED BY <1>1, <2>3, <2>4 DEF WriteRegistry
<1>2. ASSUME NEW r \in Runners, Start(r) \/ ChildEnds(r) \/ Acquire(r) \/ Die(r), Whole'
      PROVE  UNCHANGED <<registry, stolen \/ crossed>>
  <2>1. CASE RemoveStale(r)
        BY <1>2, <2>1 DEF RegistryTypeOK, RemoveStale, Whole
  <2>2. CASE ~RemoveStale(r)
        BY <1>2, <2>2 DEF Start, ChildEnds, Acquire, TryCreate, TryBusy, Examine, GiveUp, Die
  <2> QED BY <2>1, <2>2
<1>3. ASSUME NEW r \in Runners, Upsert(r), ~WriteRegistry(r)
      PROVE  UNCHANGED <<registry, stolen \/ crossed>>
      BY <1>3 DEF Upsert, WritePid, WritePidFails, ReadRegistry, ReadFails, WriteRegistryFails, Release
<1>4. CASE (\E r \in Runners : ScriptReads(r)) \/ ScriptFails \/ LockAges \/ UNCHANGED registryVars
      BY <1>4 DEF ScriptReads, ScriptFails, LockAges, registryVars
<1>5. ASSUME ScriptWrites, Whole' PROVE Map!Next
  <2>1. Whole /\ registry = script.copy /\ (stolen \/ crossed)' = (stolen \/ crossed)
        BY <1>5 DEF ScriptWrites, Whole
  <2>2. script.for \in Runners
        BY <1>5 DEF ScriptWrites, RegistryTypeOK
  <2>3. registry' = [registry EXCEPT ![script.for] = "active"] /\ "active" \in Map!Statuses
        BY <1>5, <2>1 DEF ScriptWrites, Map!Statuses
  <2> QED BY <2>1, <2>2, <2>3 DEF Map!Next, Map!Upsert, Whole
<1> QED BY <1>0, <1>1, <1>2, <1>3, <1>4, <1>5 DEF RegistryNext

(* Until a lock is stolen or the script crosses another write, the         *)
(* registry file with its lock implements a map whose entries are updated  *)
(* at once and each for its own agent, or, when it cannot be read, dropped *)
(* but for the writer's own.                                               *)
THEOREM RegistryImplementsMap == RegistrySpec => IsAMap
<1>1. RegistrySpec => []RegistryTypeOK
      BY RegistryTypeCorrect
<1>2. RegistrySpec => []Exclusion
      BY LockExcludes
<1>3. RegistryInit => Map!Init
      BY DEF RegistryInit, Map!Init, NoCopy
<1> QED BY <1>1, <1>2, <1>3, InitKeeps, StepCopies, StepKeeps, RegistryStepMaps, PTL DEF RegistrySpec, IsAMap, Map!Spec

----------------------------------------------------------------------------
(* Where no process is killed or suspended and no lock is leaked, no lock  *)
(* is ever stale, so none is taken over.                                   *)
OnlyIOFaults == Mishaps \subseteq {"open", "read", "write"}

NoneStale ==
  /\ stolen = FALSE
  /\ lock # NoLock => lock.by \in Inside /\ ~lock.old
  /\ \A r \in Runners : doing[r] # "remove"

(* There is no lock at the start, stale or not.                            *)
LEMMA InitNoneStale == RegistryInit => NoneStale
BY DEF RegistryInit, NoneStale

(* Each step keeps the owner of the lock inside, or removes the lock.      *)
LEMMA StepNoneStale ==
  OnlyIOFaults /\ RegistryTypeOK /\ Exclusion /\ NoneStale /\ [RegistryNext]_registryVars => NoneStale'
<1> SUFFICES ASSUME OnlyIOFaults, RegistryTypeOK, Exclusion, NoneStale, [RegistryNext]_registryVars PROVE NoneStale'
    OBVIOUS
<1> USE DEF RegistryTypeOK, NoneStale, Inside, history
<1>0. ASSUME NEW r \in Runners \ Inside,
             \E p \in {"acquire", "examine", "off", "silent"} : doing' = [doing EXCEPT ![r] = p],
             UNCHANGED <<lock, stolen>>
      PROVE  NoneStale'
      BY <1>0
<1>1. ASSUME NEW r \in Runners, Start(r) \/ ChildEnds(r) PROVE NoneStale'
      BY <1>0, <1>1 DEF Start, ChildEnds, Goto
<1>2. ASSUME NEW r \in Runners, Acquire(r) PROVE NoneStale'
  <2>1. CASE TryCreate(r)
    <3>1. lock' = [by |-> r, old |-> FALSE] /\ doing' = [doing EXCEPT ![r] = "locked"] /\ stolen' = stolen
          BY <2>1 DEF TryCreate, Goto
    <3> QED BY <3>1
  <2>2. CASE TryBusy(r)
        BY <1>0, <2>2 DEF TryBusy, Goto
  <2>3. CASE Examine(r)
        BY <1>0, <2>3 DEF Examine, Goto
  <2>4. CASE RemoveStale(r)
        BY <2>4 DEF RemoveStale
  <2>5. CASE GiveUp(r)
        BY <1>0, <2>5 DEF GiveUp, Goto, AfterFailure
  <2> QED BY <1>2, <2>1, <2>2, <2>3, <2>4, <2>5 DEF Acquire
<1>3. ASSUME NEW r \in Runners, Upsert(r) PROVE NoneStale'
  <2>0. ASSUME \E p \in {"read", "write", "blind", "release", "abort"} : doing' = [doing EXCEPT ![r] = p],
               UNCHANGED <<lock, stolen>>
        PROVE  NoneStale'
        BY <2>0
  <2>1. CASE WritePid(r) \/ ReadRegistry(r) \/ ReadFails(r) \/ WriteRegistry(r) \/ WriteRegistryFails(r)
        BY <2>0, <2>1 DEF WritePid, ReadRegistry, ReadFails, WriteRegistry, WriteRegistryFails, Goto
  <2>2. CASE WritePidFails(r)
        BY <2>2 DEF WritePidFails, OnlyIOFaults
  <2>3. CASE Release(r)
    <3>1. \E p \in {"off", "silent", "running", "ended"} : doing' = [doing EXCEPT ![r] = p]
          BY <2>3 DEF Release, Goto, AfterFailure
    <3> QED BY <2>3, <3>1 DEF Release
  <2> QED BY <1>3, <2>1, <2>2, <2>3 DEF Upsert
<1>4. ASSUME NEW r \in Runners, Die(r) PROVE NoneStale'
      BY <1>4 DEF Die, OnlyIOFaults
<1>5. CASE LockAges
      BY <1>5 DEF LockAges, OnlyIOFaults
<1>6. CASE UNCHANGED registryVars
      BY <1>6 DEF registryVars
<1>7. CASE (\E r \in Runners : ScriptReads(r)) \/ ScriptWrites \/ ScriptFails
      BY <1>7 DEF ScriptReads, ScriptWrites, ScriptFails
<1> QED BY <1>1, <1>2, <1>3, <1>4, <1>5, <1>6, <1>7 DEF RegistryNext

(* So, for any number of runners that wait, fail to open the lock, to read *)
(* or to write, no lock is stolen, whatever the start script writes.       *)
THEOREM NothingStolen == OnlyIOFaults => (RegistrySpec => []~stolen)
<1> SUFFICES ASSUME OnlyIOFaults PROVE RegistrySpec => []~stolen
    OBVIOUS
<1>1. RegistrySpec => []RegistryTypeOK
      BY RegistryTypeCorrect
<1>2. RegistrySpec => []Exclusion
      BY LockExcludes
<1>3. RegistryTypeOK /\ Exclusion /\ NoneStale /\ [RegistryNext]_registryVars => NoneStale'
      BY StepNoneStale
<1>4. NoneStale => ~stolen
      BY DEF NoneStale
<1> QED BY <1>1, <1>2, <1>3, <1>4, InitNoneStale, PTL DEF RegistrySpec
=============================================================================
