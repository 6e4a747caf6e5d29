--------------------------- MODULE SessionsProofs ---------------------------
(***************************************************************************)
(* Proofs about Sessions, for any number of ids, handlers and instances    *)
(* and any limit.                                                          *)
(***************************************************************************)
EXTENDS Sessions, TLAPS, FiniteSetTheorems

(* What the handlers know of the instance they hold.                       *)
HolderInv ==
  \A r \in Reqs :
    /\ req[r].pc = "guard" => req[r].k > 0
    /\ req[r].pc \in {"limit", "spawn", "insert"} => req[r].id \in Ids
    /\ req[r].pc \in {"insert", "stop"} <=> req[r].inst # NoInst
    /\ req[r].pc = "insert" =>
         /\ home[req[r].inst] = req[r].id
         /\ waiter[req[r].inst] = "none"
         /\ proc[req[r].inst] # "unborn"
         /\ status[req[r].inst] = "active"
    /\ req[r].pc = "stop" =>
         /\ waiter[req[r].inst] # "none"
         /\ home[req[r].inst] \in Ids

(* What is known of an instance from its own record.                       *)
InstanceInv ==
  \A i \in Instances :
    /\ proc[i] = "unborn" => waiter[i] = "none" /\ status[i] = "unbuilt"
    /\ waiter[i] # "none" => home[i] \in Ids
    /\ waiter[i] \in {"queued", "done"} => proc[i] = "exited"

(* What is known of an instance that is in the table.                      *)
TableInv ==
  \A id \in Ids :
    Present(id) => /\ waiter[sessions[id]] # "none"
                   /\ status[sessions[id]] \in {"active", "exited"}

IInv == /\ TypeOK
        /\ HolderInv
        /\ InstanceInv
        /\ TableInv
        /\ OnePlacePerInstance
        /\ NoGhostActive
        /\ ExitReportHasCause

-----------------------------------------------------------------------------
(* The guard list of P1C_GUARD_SESSIONS has a length.                      *)
LEMMA LenGuardSeq == Len(GuardSeq) \in Nat
  BY SessionsAssumption

(* A task built from parts of the right type is a well-typed request.      *)
LEMMA TaskType ==
  ASSUME NEW pc \in {"idle", "limit", "guard", "spawn", "insert", "stop", "list"},
         NEW id \in Ids \cup {NoId}, NEW inst \in Instances \cup {NoInst},
         NEW k \in 0 .. Len(GuardSeq)
  PROVE  Task(pc, id, inst, k) \in Request
  BY DEF Task, Request

(* So is the request of a handler that serves nobody.                      *)
LEMMA IdleType == Idle \in Request
  BY LenGuardSeq, TaskType DEF Idle

(* Where a handler goes once its spawn is settled, and that it holds no    *)
(* instance there.                                                         *)
LEMMA AfterSpawnType ==
  ASSUME NEW q \in Request
  PROVE  /\ AfterSpawn(q) \in Request
         /\ AfterSpawn(q).pc \in {"idle", "guard", "list"}
         /\ AfterSpawn(q).inst = NoInst
         /\ AfterSpawn(q).pc = "guard" => AfterSpawn(q).k > 0
  <1>1. q.k \in Nat /\ q.k <= Len(GuardSeq)
    BY LenGuardSeq DEF Request
  <1>2. AfterSpawn(q) \in Request
    <2>1. q.k < Len(GuardSeq) => q.k + 1 \in 0 .. Len(GuardSeq)
      BY <1>1, LenGuardSeq
    <2>2. q.k < Len(GuardSeq) => Task("guard", NoId, NoInst, q.k + 1) \in Request
      BY <2>1, TaskType
    <2>3. Task("list", NoId, NoInst, 0) \in Request
      BY LenGuardSeq, TaskType
    <2> QED BY <2>2, <2>3, IdleType DEF AfterSpawn
  <1> QED BY <1>1, <1>2, LenGuardSeq DEF AfterSpawn, Task, Idle

(* The session the guard is at is one of the ids, as long as its position  *)
(* is in the list.                                                         *)
LEMMA GuardIdType ==
  ASSUME NEW q \in Request, q.k > 0 PROVE GuardSeq[q.k] \in Ids
  BY SessionsAssumption, LenGuardSeq DEF Request

-----------------------------------------------------------------------------
(* At the start the table is empty and no child was spawned.               *)
LEMMA InitIInv == Init => IInv
  <1>1. Init => TypeOK
    BY IdleType DEF Init, TypeOK
  <1> QED
    BY <1>1, SessionsAssumption
    DEF Init, IInv, HolderInv, InstanceInv, TableInv, OnePlacePerInstance,
        NoGhostActive, ExitReportHasCause, Idle, Task, Present, Holders

(* A handler that moves between two points at which it holds no instance   *)
(* keeps the invariant.                                                    *)
LEMMA TaskMoves ==
  ASSUME IInv, NEW r \in Reqs, NEW q \in Request,
         req' = [req EXCEPT ![r] = q],
         req[r].pc \notin {"insert", "stop"},
         q.pc \notin {"insert", "stop"}, q.inst = NoInst,
         q.pc = "guard" => q.k > 0,
         q.pc \in {"limit", "spawn"} => q.id \in Ids,
         UNCHANGED <<sessions, home, status, proc, waiter>>
  PROVE  IInv'
  <1> USE DEF IInv
  <1>1. TypeOK'
    BY DEF TypeOK
  <1>2. HolderInv'
    BY DEF HolderInv, TypeOK
  <1>3. OnePlacePerInstance'
    BY SessionsAssumption DEF OnePlacePerInstance, Holders, TypeOK
  <1>4. InstanceInv' /\ TableInv' /\ NoGhostActive' /\ ExitReportHasCause'
    BY DEF InstanceInv, TableInv, NoGhostActive, ExitReportHasCause, Present
  <1> QED BY <1>1, <1>2, <1>3, <1>4

(* No step breaks the invariant: one step of the proof per action, and     *)
(* under it one per part that the action can disturb.                      *)
LEMMA NextIInv == IInv /\ [Next]_vars => IInv'
<1> SUFFICES ASSUME IInv, [Next]_vars PROVE IInv'
  OBVIOUS
<1> USE DEF IInv
<1>t. NoInst \notin Instances /\ \A r \in Reqs : req[r] \in Request
  BY SessionsAssumption DEF TypeOK
<1>1. ASSUME NEW r \in Reqs, NEW id \in Ids, CreateCheck(r, id) PROVE IInv'
  <2> DEFINE q == Task("limit", id, NoInst, 0)
  <2>1. /\ q \in Request
        /\ q.pc \notin {"insert", "stop"} /\ q.inst = NoInst
        /\ q.pc = "guard" => q.k > 0
        /\ q.pc \in {"limit", "spawn"} => q.id \in Ids
    BY <1>1, <1>t, LenGuardSeq, TaskType DEF CreateCheck, Task
  <2> QED BY <1>1, <2>1, TaskMoves DEF CreateCheck
<1>2. ASSUME NEW r \in Reqs, CreateLimit(r) PROVE IInv'
  <2> DEFINE q == IF LimitReached THEN Idle ELSE Task("spawn", req[r].id, NoInst, 0)
  <2>1. /\ q \in Request
        /\ q.pc \notin {"insert", "stop"} /\ q.inst = NoInst
        /\ q.pc = "guard" => q.k > 0
        /\ q.pc \in {"limit", "spawn"} => q.id \in Ids
    <3>1. req[r].id \in Ids
      BY <1>2 DEF CreateLimit, HolderInv
    <3>2. Task("spawn", req[r].id, NoInst, 0) \in Request
      <4>1. req[r].id \in Ids \cup {NoId} /\ 0 \in 0 .. Len(GuardSeq)
        BY <3>1, LenGuardSeq
      <4> QED BY <4>1, TaskType
    <3> QED BY <3>1, <3>2, IdleType DEF Idle, Task
  <2> QED BY <1>2, <2>1, TaskMoves DEF CreateLimit
<1>3. ASSUME NEW r \in Reqs, SpawnFails(r) PROVE IInv'
  <2> DEFINE q == AfterSpawn(req[r])
  <2>1. /\ q \in Request
        /\ q.pc \notin {"insert", "stop"} /\ q.inst = NoInst
        /\ q.pc = "guard" => q.k > 0
        /\ q.pc \in {"limit", "spawn"} => q.id \in Ids
    BY <1>3, <1>t, AfterSpawnType DEF SpawnFails
  <2> QED BY <1>3, <2>1, TaskMoves DEF SpawnFails
<1>4. ASSUME NEW r \in Reqs, ListReply(r) PROVE IInv'
  <2> DEFINE q == Idle
  <2>1. /\ q \in Request
        /\ q.pc \notin {"insert", "stop"} /\ q.inst = NoInst
        /\ q.pc = "guard" => q.k > 0
        /\ q.pc \in {"limit", "spawn"} => q.id \in Ids
    BY <1>4, <1>t, IdleType DEF ListReply, Idle, Task
  <2> QED BY <1>4, <2>1, TaskMoves DEF ListReply
<1>5. ASSUME NEW r \in Reqs, ListCount(r) PROVE IInv'
  <2>1. PICK q \in {Task("list", NoId, NoInst, 0), Task("guard", NoId, NoInst, 1)} :
          /\ req' = [req EXCEPT ![r] = q]
          /\ q.pc = "guard" => GuardSeq # <<>>
    BY <1>5 DEF ListCount, Task
  <2>2. GuardSeq # <<>> => 1 \in 0 .. Len(GuardSeq)
    BY SessionsAssumption
  <2>3. q \in Request
    <3>1. Task("list", NoId, NoInst, 0) \in Request
      BY LenGuardSeq, TaskType
    <3>2. GuardSeq # <<>> => Task("guard", NoId, NoInst, 1) \in Request
      BY <2>2, TaskType
    <3>3. Task("guard", NoId, NoInst, 1).pc = "guard"
      BY DEF Task
    <3> QED BY <2>1, <3>1, <3>2, <3>3
  <2> QED BY SMTT(30), <1>5, <2>1, <2>3, TaskMoves DEF ListCount, Task
<1>6. ASSUME NEW r \in Reqs, GuardCheck(r) PROVE IInv'
  <2>1. req[r].k > 0 /\ req[r].k \in 0 .. Len(GuardSeq) /\ GuardSeq[req[r].k] \in Ids
    BY <1>6, <1>t, GuardIdType DEF GuardCheck, HolderInv, Request
  <2>2. CASE Present(GuardSeq[req[r].k])
    BY <1>6, <1>t, <2>2, AfterSpawnType, TaskMoves DEF GuardCheck
  <2>3. CASE ~Present(GuardSeq[req[r].k])
    <3> DEFINE q == Task("spawn", GuardSeq[req[r].k], NoInst, req[r].k)
    <3>1. q \in Request
      BY <2>1, TaskType
    <3>2. q.pc = "spawn" /\ q.inst = NoInst /\ q.id \in Ids
      BY <2>1 DEF Task
    <3>3. req' = [req EXCEPT ![r] = q]
      BY <1>6, <2>3 DEF GuardCheck
    <3> HIDE DEF q
    <3> QED BY <1>6, <3>1, <3>2, <3>3, TaskMoves DEF GuardCheck
  <2> QED BY <2>2, <2>3
<1>7. ASSUME NEW r \in Reqs, SpawnChild(r) PROVE IInv'
  <2>1. TypeOK'
    <3>1. PICK i \in Instances :
            req' = [req EXCEPT ![r] = Task("insert", req[r].id, i, req[r].k)]
      BY <1>7 DEF SpawnChild
    <3>2. req[r].id \in Ids /\ req[r].k \in 0 .. Len(GuardSeq)
      BY <1>7, <1>t DEF SpawnChild, HolderInv, Request
    <3>3. req' \in [Reqs -> Request]
      BY <3>1, <3>2, TaskType DEF TypeOK
    <3> QED BY <1>7, <3>2, <3>3 DEF SpawnChild, TypeOK
  <2>2. HolderInv'
    BY <1>7, <1>t, LenGuardSeq, TaskType
      DEF SpawnChild, Task, Idle, TypeOK, HolderInv, InstanceInv, TableInv,
          OnePlacePerInstance, Holders, Present
  <2>3. InstanceInv'
    BY <1>7, <1>t, LenGuardSeq, TaskType
      DEF SpawnChild, TypeOK, InstanceInv, HolderInv, TableInv, Present
  <2>4. TableInv'
    BY <1>7, <1>t, LenGuardSeq, TaskType
      DEF SpawnChild, TypeOK, TableInv, InstanceInv, HolderInv, OnePlacePerInstance,
          Holders, Present
  <2>5. OnePlacePerInstance'
    <3>1. PICK i \in Instances :
            /\ proc[i] = "unborn"
            /\ req' = [req EXCEPT ![r] = Task("insert", req[r].id, i, req[r].k)]
            /\ home' = [home EXCEPT ![i] = req[r].id]
      BY <1>7 DEF SpawnChild
    <3>2. \A id \in Ids : sessions[id] # i
      BY <1>t, <3>1, SessionsAssumption DEF TableInv, InstanceInv, Present, TypeOK
    <3>3. \A q \in Reqs : req[q].inst # i
      BY <1>t, <3>1, SessionsAssumption DEF HolderInv, InstanceInv, TypeOK, Request
    <3>4. \A q \in Reqs : req'[q].inst = IF q = r THEN i ELSE req[q].inst
      BY <3>1 DEF Task, TypeOK
    <3>5. req[r].inst = NoInst
      BY <1>7, <1>t DEF SpawnChild, HolderInv
    <3> QED
      BY <1>7, <1>t, <3>1, <3>2, <3>3, <3>4, <3>5
      DEF SpawnChild, TypeOK, OnePlacePerInstance, Holders
  <2>6. NoGhostActive'
    BY <1>7, <1>t, LenGuardSeq, TaskType
      DEF SpawnChild, TypeOK, NoGhostActive, OnePlacePerInstance, Holders, HolderInv,
          InstanceInv, TableInv, Present
  <2>7. ExitReportHasCause'
    BY <1>7, <1>t, LenGuardSeq, TaskType
      DEF SpawnChild, TypeOK, ExitReportHasCause, HolderInv, InstanceInv,
          OnePlacePerInstance, Present
  <2> QED BY <2>1, <2>2, <2>3, <2>4, <2>5, <2>6, <2>7
<1>8. ASSUME NEW r \in Reqs, SpawnLeaks(r) PROVE IInv'
  <2>1. TypeOK'
    <3>1. req' \in [Reqs -> Request]
      BY <1>8, <1>t, AfterSpawnType DEF SpawnLeaks, TypeOK
    <3> QED BY <1>8, <1>t, <3>1 DEF SpawnLeaks, TypeOK, HolderInv
  <2>2. HolderInv'
    BY <1>8, <1>t, AfterSpawnType
      DEF SpawnLeaks, TypeOK, HolderInv, InstanceInv, TableInv, OnePlacePerInstance,
          Holders, Present
  <2>3. InstanceInv'
    BY <1>8, <1>t, AfterSpawnType
      DEF SpawnLeaks, TypeOK, InstanceInv, HolderInv, TableInv, Present
  <2>4. TableInv'
    BY <1>8, <1>t, AfterSpawnType
      DEF SpawnLeaks, TypeOK, TableInv, InstanceInv, HolderInv, OnePlacePerInstance,
          Holders, Present
  <2>5. OnePlacePerInstance'
    BY <1>8, <1>t, AfterSpawnType
      DEF SpawnLeaks, TypeOK, OnePlacePerInstance, Holders, HolderInv, InstanceInv,
          TableInv, Present
  <2>6. NoGhostActive'
    BY <1>8, <1>t, AfterSpawnType
      DEF SpawnLeaks, TypeOK, NoGhostActive, OnePlacePerInstance, Holders, HolderInv,
          InstanceInv, TableInv, Present
  <2>7. ExitReportHasCause'
    BY <1>8, <1>t, AfterSpawnType
      DEF SpawnLeaks, TypeOK, ExitReportHasCause, HolderInv, InstanceInv,
          OnePlacePerInstance, Present
  <2> QED BY <2>1, <2>2, <2>3, <2>4, <2>5, <2>6, <2>7
<1>9. ASSUME NEW r \in Reqs, InsertSession(r) PROVE IInv'
  <2>1. TypeOK'
    <3>1. req' \in [Reqs -> Request]
      BY <1>9, <1>t, AfterSpawnType DEF InsertSession, TypeOK
    <3> QED BY <1>9, <1>t, <3>1 DEF InsertSession, TypeOK, HolderInv, Request
  <2>2. HolderInv'
    BY <1>9, <1>t, AfterSpawnType
      DEF InsertSession, TypeOK, HolderInv, InstanceInv, TableInv, OnePlacePerInstance,
          Holders, Present
  <2>3. InstanceInv'
    BY <1>9, <1>t, AfterSpawnType
      DEF InsertSession, TypeOK, InstanceInv, HolderInv, TableInv, Present
  <2>4. TableInv'
    <3> SUFFICES ASSUME NEW id \in Ids, Present(id)'
                 PROVE  /\ waiter'[sessions'[id]] # "none"
                        /\ status'[sessions'[id]] \in {"active", "exited"}
      BY DEF TableInv, Present
    <3>1. req[r].inst \in Instances /\ status[req[r].inst] = "active"
      BY <1>9, <1>t DEF InsertSession, HolderInv, Request
    <3>2. CASE id = req[r].id
      BY <1>9, <3>1, <3>2 DEF InsertSession, TypeOK
    <3>3. CASE id # req[r].id
      BY <1>9, <3>1, <3>3 DEF InsertSession, TypeOK, TableInv, Present
    <3> QED BY <3>2, <3>3
  <2>5. OnePlacePerInstance'
    BY <1>9, <1>t, AfterSpawnType
      DEF InsertSession, TypeOK, OnePlacePerInstance, Holders, HolderInv, InstanceInv,
          TableInv, Present
  <2>6. NoGhostActive'
    BY <1>9, <1>t, AfterSpawnType
      DEF InsertSession, TypeOK, NoGhostActive, OnePlacePerInstance, Holders, HolderInv,
          InstanceInv, TableInv, Present
  <2>7. ExitReportHasCause'
    BY <1>9, <1>t, AfterSpawnType
      DEF InsertSession, TypeOK, ExitReportHasCause, HolderInv, InstanceInv,
          OnePlacePerInstance, Present
  <2> QED BY <2>1, <2>2, <2>3, <2>4, <2>5, <2>6, <2>7
<1>10. ASSUME NEW r \in Reqs, NEW id \in Ids, DeleteRemove(r, id) PROVE IInv'
  <2>1. TypeOK'
    <3>0. sessions[id] \in Instances
      BY <1>10 DEF DeleteRemove, TypeOK, Present
    <3>1. req' \in [Reqs -> Request]
      <4>1. Task("stop", NoId, sessions[id], 0) \in Request
        BY <3>0, LenGuardSeq DEF Task, Request
      <4> QED BY <1>10, <4>1 DEF DeleteRemove, TypeOK
    <3> QED BY <1>10, <1>t, <3>1 DEF DeleteRemove, TypeOK, Present
  <2>2. HolderInv'
    BY <1>10, <1>t, LenGuardSeq, TaskType
      DEF DeleteRemove, Task, Idle, TypeOK, HolderInv, InstanceInv, TableInv,
          OnePlacePerInstance, Holders, Present
  <2>3. InstanceInv'
    BY <1>10, <1>t, LenGuardSeq, TaskType
      DEF DeleteRemove, TypeOK, InstanceInv, HolderInv, TableInv, Present
  <2>4. TableInv'
    BY <1>10, <1>t, LenGuardSeq, TaskType
      DEF DeleteRemove, TypeOK, TableInv, InstanceInv, HolderInv, OnePlacePerInstance,
          Holders, Present
  <2>5. OnePlacePerInstance'
    BY <1>10, <1>t, LenGuardSeq, TaskType
      DEF DeleteRemove, Task, Idle, TypeOK, OnePlacePerInstance, Holders, HolderInv,
          InstanceInv, TableInv, Present
  <2>6. NoGhostActive'
    BY <1>10, <1>t, LenGuardSeq, TaskType
      DEF DeleteRemove, TypeOK, NoGhostActive, OnePlacePerInstance, Holders, HolderInv,
          InstanceInv, TableInv, Present
  <2>7. ExitReportHasCause'
    BY <1>10, <1>t, LenGuardSeq, TaskType
      DEF DeleteRemove, TypeOK, ExitReportHasCause, HolderInv, InstanceInv,
          OnePlacePerInstance, Present
  <2> QED BY <2>1, <2>2, <2>3, <2>4, <2>5, <2>6, <2>7
<1>11. ASSUME NEW r \in Reqs, DeleteStop(r) PROVE IInv'
  <2>1. TypeOK'
    <3>1. req' \in [Reqs -> Request]
      BY <1>11, <1>t, IdleType DEF DeleteStop, TypeOK
    <3> QED BY <1>11, <1>t, <3>1 DEF DeleteStop, TypeOK, HolderInv
  <2>2. HolderInv'
    BY <1>11, <1>t, IdleType
      DEF DeleteStop, Task, Idle, TypeOK, HolderInv, InstanceInv, TableInv,
          OnePlacePerInstance, Holders, Present
  <2>3. InstanceInv'
    BY <1>11, <1>t, IdleType
      DEF DeleteStop, TypeOK, InstanceInv, HolderInv, TableInv, Present
  <2>4. TableInv'
    BY <1>11, <1>t, IdleType
      DEF DeleteStop, TypeOK, TableInv, InstanceInv, HolderInv, OnePlacePerInstance,
          Holders, Present
  <2>5. OnePlacePerInstance'
    BY <1>11, <1>t, IdleType
      DEF DeleteStop, Task, Idle, TypeOK, OnePlacePerInstance, Holders, HolderInv,
          InstanceInv, TableInv, Present
  <2>6. NoGhostActive'
    BY <1>11, <1>t, IdleType
      DEF DeleteStop, TypeOK, NoGhostActive, OnePlacePerInstance, Holders, HolderInv,
          InstanceInv, TableInv, Present
  <2>7. ExitReportHasCause'
    BY <1>11, <1>t, IdleType
      DEF DeleteStop, TypeOK, ExitReportHasCause, HolderInv, InstanceInv,
          OnePlacePerInstance, Present
  <2> QED BY <2>1, <2>2, <2>3, <2>4, <2>5, <2>6, <2>7
<1>12. ASSUME NEW i \in Instances, ChildExits(i) PROVE IInv'
  <2>1. TypeOK'
    BY <1>12, <1>t DEF ChildExits, TypeOK
  <2>2. HolderInv'
    BY <1>12, <1>t
      DEF ChildExits, TypeOK, HolderInv, InstanceInv, TableInv, OnePlacePerInstance,
          Holders, Present
  <2>3. InstanceInv'
    BY <1>12, <1>t DEF ChildExits, TypeOK, InstanceInv, HolderInv, TableInv, Present
  <2>4. TableInv'
    BY <1>12, <1>t
      DEF ChildExits, TypeOK, TableInv, InstanceInv, HolderInv, OnePlacePerInstance,
          Holders, Present
  <2>5. OnePlacePerInstance'
    BY <1>12, <1>t
      DEF ChildExits, TypeOK, OnePlacePerInstance, Holders, HolderInv, InstanceInv,
          TableInv, Present
  <2>6. NoGhostActive'
    BY <1>12, <1>t
      DEF ChildExits, TypeOK, NoGhostActive, OnePlacePerInstance, Holders, HolderInv,
          InstanceInv, TableInv, Present
  <2>7. ExitReportHasCause'
    BY <1>12, <1>t
      DEF ChildExits, TypeOK, ExitReportHasCause, HolderInv, InstanceInv,
          OnePlacePerInstance, Present
  <2> QED BY <2>1, <2>2, <2>3, <2>4, <2>5, <2>6, <2>7
<1>13. ASSUME NEW i \in Instances, WaitReturns(i) PROVE IInv'
  <2>1. TypeOK'
    BY <1>13, <1>t DEF WaitReturns, TypeOK
  <2>2. HolderInv'
    BY <1>13, <1>t
      DEF WaitReturns, TypeOK, HolderInv, InstanceInv, TableInv, OnePlacePerInstance,
          Holders, Present
  <2>3. InstanceInv'
    BY <1>13, <1>t DEF WaitReturns, TypeOK, InstanceInv, HolderInv, TableInv, Present
  <2>4. TableInv'
    BY <1>13, <1>t
      DEF WaitReturns, TypeOK, TableInv, InstanceInv, HolderInv, OnePlacePerInstance,
          Holders, Present
  <2>5. OnePlacePerInstance'
    BY <1>13, <1>t
      DEF WaitReturns, TypeOK, OnePlacePerInstance, Holders, HolderInv, InstanceInv,
          TableInv, Present
  <2>6. NoGhostActive'
    BY <1>13, <1>t
      DEF WaitReturns, TypeOK, NoGhostActive, OnePlacePerInstance, Holders, HolderInv,
          InstanceInv, TableInv, Present
  <2>7. ExitReportHasCause'
    BY <1>13, <1>t
      DEF WaitReturns, TypeOK, ExitReportHasCause, HolderInv, InstanceInv,
          OnePlacePerInstance, Present
  <2> QED BY <2>1, <2>2, <2>3, <2>4, <2>5, <2>6, <2>7
<1>14. ASSUME NEW i \in Instances, ReportExit(i) PROVE IInv'
  <2>1. TypeOK'
    BY <1>14, <1>t DEF ReportExit, Waited, Reports, TypeOK
  <2>2. HolderInv'
    BY <1>14, <1>t
      DEF ReportExit, Waited, Reports, TypeOK, HolderInv, InstanceInv, TableInv,
          OnePlacePerInstance,
          Holders, Present
  <2>3. InstanceInv'
    BY <1>14, <1>t DEF ReportExit, Waited, Reports, TypeOK, InstanceInv, HolderInv, TableInv,
        Present
  <2>4. TableInv'
    BY <1>14, <1>t
      DEF ReportExit, Waited, Reports, TypeOK, TableInv, InstanceInv, HolderInv,
          OnePlacePerInstance,
          Holders, Present
  <2>5. OnePlacePerInstance'
    BY <1>14, <1>t
      DEF ReportExit, Waited, Reports, TypeOK, OnePlacePerInstance, Holders, HolderInv,
          InstanceInv,
          TableInv, Present
  <2>6. NoGhostActive'
    BY <1>14, <1>t
      DEF ReportExit, Waited, Reports, TypeOK, NoGhostActive, OnePlacePerInstance, Holders,
          HolderInv,
          InstanceInv, TableInv, Present
  <2>7. ExitReportHasCause'
    BY <1>14, <1>t
      DEF ReportExit, Waited, Reports, TypeOK, ExitReportHasCause, HolderInv, InstanceInv,
          OnePlacePerInstance, Present
  <2> QED BY <2>1, <2>2, <2>3, <2>4, <2>5, <2>6, <2>7
<1>15. ASSUME NEW i \in Instances, WaitFails(i) PROVE IInv'
  <2>1. TypeOK'
    BY <1>15, <1>t DEF WaitFails, TypeOK
  <2>2. HolderInv'
    BY <1>15, <1>t
      DEF WaitFails, TypeOK, HolderInv, InstanceInv, TableInv, OnePlacePerInstance,
          Holders, Present
  <2>3. InstanceInv'
    BY <1>15, <1>t DEF WaitFails, TypeOK, InstanceInv, HolderInv, TableInv, Present
  <2>4. TableInv'
    BY <1>15, <1>t
      DEF WaitFails, TypeOK, TableInv, InstanceInv, HolderInv, OnePlacePerInstance,
          Holders, Present
  <2>5. OnePlacePerInstance'
    BY <1>15, <1>t
      DEF WaitFails, TypeOK, OnePlacePerInstance, Holders, HolderInv, InstanceInv,
          TableInv, Present
  <2>6. NoGhostActive'
    BY <1>15, <1>t
      DEF WaitFails, TypeOK, NoGhostActive, OnePlacePerInstance, Holders, HolderInv,
          InstanceInv, TableInv, Present
  <2>7. ExitReportHasCause'
    BY <1>15, <1>t
      DEF WaitFails, TypeOK, ExitReportHasCause, HolderInv, InstanceInv,
          OnePlacePerInstance, Present
  <2> QED BY <2>1, <2>2, <2>3, <2>4, <2>5, <2>6, <2>7
<1>16. CASE UNCHANGED vars
  BY <1>16 DEF vars, TypeOK, HolderInv, InstanceInv, TableInv, OnePlacePerInstance,
    NoGhostActive, ExitReportHasCause, Holders, Present
<1> QED
  BY <1>1, <1>2, <1>3, <1>4, <1>5, <1>6, <1>7, <1>8, <1>9, <1>10, <1>11, <1>12, <1>13,
     <1>14, <1>15, <1>16
  DEF Next, Handler, Child, CreateSpawn, CreateInsert, GuardSpawn, GuardInsert

-----------------------------------------------------------------------------
(* The inductive invariant holds in every reachable state.                 *)
LEMMA Invariance == Spec => []IInv
  BY InitIInv, NextIInv, PTL DEF Spec

(* Every reachable state is well typed.                                    *)
THEOREM TypeCorrect == Spec => []TypeOK
  <1>1. IInv => TypeOK
    BY DEF IInv
  <1> QED BY <1>1, Invariance, PTL

(* No session is shown as exited unless a child of its id was waited for.  *)
THEOREM ExitReports == Spec => []ExitReportHasCause
  <1>1. IInv => ExitReportHasCause
    BY DEF IInv
  <1> QED BY <1>1, Invariance, PTL

(* A session in the table whose waiter has finished is not shown active.   *)
THEOREM NoGhosts == Spec => []NoGhostActive
  <1>1. IInv => NoGhostActive
    BY DEF IInv
  <1> QED BY <1>1, Invariance, PTL

(* No instance is in the table and in a handler's hands at once, or in two *)
(* handlers' hands.                                                        *)
THEOREM OnePlace == Spec => []OnePlacePerInstance
  <1>1. IInv => OnePlacePerInstance
    BY DEF IInv
  <1> QED BY <1>1, Invariance, PTL

(* What delete_session wrote into a session is not overwritten.            *)
THEOREM StoppedStays == Spec => StoppedIsFinal
  <1>1. IInv /\ [Next]_vars
          => [\A i \in Instances : status[i] = "stopped" => status'[i] = "stopped"]_vars
    <2> SUFFICES ASSUME IInv, [Next]_vars, NEW i \in Instances, status[i] = "stopped"
                 PROVE  status'[i] = "stopped"
      BY DEF vars
    <2>1. ASSUME NEW r \in Reqs, SpawnChild(r) PROVE status'[i] = "stopped"
      BY <2>1 DEF IInv, InstanceInv, SpawnChild, TypeOK
    <2>2. ASSUME NEW r \in Reqs, DeleteStop(r) PROVE status'[i] = "stopped"
      BY <2>2 DEF IInv, DeleteStop, TypeOK
    <2>3. ASSUME NEW j \in Instances, ReportExit(j) PROVE status'[i] = "stopped"
      BY <2>3 DEF IInv, InstanceInv, TableInv, ReportExit, Waited, Reports, TypeOK
    <2>4. CASE UNCHANGED status
      BY <2>4
    <2> QED
      BY <2>1, <2>2, <2>3, <2>4
      DEF Next, Handler, Child, vars, CreateCheck, CreateLimit, CreateSpawn, CreateInsert,
          DeleteRemove, ListCount, GuardCheck, GuardSpawn, GuardInsert, ListReply,
          SpawnFails, SpawnLeaks, InsertSession, ChildExits, WaitReturns, WaitFails
  <1> QED BY <1>1, Invariance, PTL DEF Spec, StoppedIsFinal

-----------------------------------------------------------------------------
(* THE LIMIT ON ACTIVE SESSIONS *)

(* Creates that were let through and have not inserted yet, the ids the    *)
(* guard may insert, and whether a guard is at work.                       *)
Admitted == {r \in Reqs : req[r].pc \in {"spawn", "insert"} /\ req[r].k = 0}
AdmittedIds == {req[r].id : r \in Admitted}
Standard == {GuardSeq[n] : n \in 1 .. Len(GuardSeq)}
Guarding == \E r \in Reqs : req[r].k > 0

(* The ids that are active or may become so without another check.         *)
Charged == ActiveIds \cup AdmittedIds \cup (IF Guarding THEN Standard ELSE {})

Bound == MaxActive + Cardinality(Reqs) - 1
           + (IF GuardSeq = <<>> THEN 0 ELSE Len(GuardSeq) - 1)

GuardInv ==
  \A r \in Reqs :
    req[r].k > 0 => /\ req[r].pc \in {"guard", "spawn", "insert"}
                    /\ req[r].pc \in {"spawn", "insert"} => req[r].id \in Standard

ChargeInv == IsFiniteSet(Charged) /\ Cardinality(Charged) <= Bound

LimitInv == GuardInv /\ (MaxActive # 0 => ChargeInv)

-----------------------------------------------------------------------------
(* The ids of the guard are no more than its list is long.                 *)
LEMMA StandardCount ==
  IsFiniteSet(Standard) /\ Cardinality(Standard) <= Len(GuardSeq)
<1> DEFINE f == [n \in 1 .. Len(GuardSeq) |-> GuardSeq[n]]
<1>1. IsFiniteSet(1 .. Len(GuardSeq)) /\ Cardinality(1 .. Len(GuardSeq)) = Len(GuardSeq)
  BY SMTT(30), LenGuardSeq, FS_Interval
<1>2. f \in Surjection(1 .. Len(GuardSeq), Standard)
  BY DEF Surjection, Standard
<1> HIDE DEF f
<1> QED BY <1>1, <1>2, FS_Surjection

(* The ids of the admitted creates are no more than the creates.           *)
LEMMA AdmittedCount ==
  ASSUME NEW R, IsFiniteSet(R), Admitted \subseteq R
  PROVE  IsFiniteSet(AdmittedIds) /\ Cardinality(AdmittedIds) <= Cardinality(R)
<1> DEFINE f == [r \in Admitted |-> req[r].id]
<1>1. f \in Surjection(Admitted, AdmittedIds)
  BY DEF Surjection, AdmittedIds
<1> HIDE DEF f
<1>2. IsFiniteSet(Admitted) /\ Cardinality(Admitted) <= Cardinality(R)
  BY FS_Subset
<1>3. IsFiniteSet(AdmittedIds) /\ Cardinality(AdmittedIds) <= Cardinality(Admitted)
  BY <1>1, <1>2, FS_Surjection
<1> QED BY <1>2, <1>3, FS_CardinalityType

(* The size of a union is at most the sum of the sizes.                    *)
LEMMA UnionCount ==
  ASSUME NEW S, NEW T, IsFiniteSet(S), IsFiniteSet(T)
  PROVE  IsFiniteSet(S \cup T) /\ Cardinality(S \cup T) <= Cardinality(S) + Cardinality(T)
<1>1. /\ IsFiniteSet(S \cup T)
      /\ Cardinality(S \cup T) = Cardinality(S) + Cardinality(T) - Cardinality(S \cap T)
  BY FS_Union
<1>2. Cardinality(S \cap T) \in Nat
  BY FS_Intersection, FS_CardinalityType
<1>3. Cardinality(S) \in Nat /\ Cardinality(T) \in Nat
  BY FS_CardinalityType
<1> QED BY <1>1, <1>2, <1>3

(* When few enough ids are active, everything that is charged fits under   *)
(* the bound: a handler at the guard's work is not an admitted create.     *)
Room == /\ IsFiniteSet(Reqs) /\ Reqs # {} /\ MaxActive # 0
        /\ GuardInv /\ IInv
        /\ IsFiniteSet(ActiveIds) /\ Cardinality(ActiveIds) + 1 <= MaxActive

LEMMA ChargeFits == Room => ChargeInv
<1> SUFFICES ASSUME Room PROVE ChargeInv
  OBVIOUS
<1> USE DEF Room
<1> DEFINE a == Cardinality(ActiveIds)
           n == Cardinality(Reqs)
           g == Len(GuardSeq)
<1>1. a \in Nat /\ n \in Nat /\ n >= 1 /\ g \in Nat /\ MaxActive \in Nat
  BY FS_CardinalityType, FS_EmptySet, LenGuardSeq, SessionsAssumption
<1>2. Bound = MaxActive + n - 1 + (IF g = 0 THEN 0 ELSE g - 1)
  BY SessionsAssumption DEF Bound
<1>3. CASE ~Guarding
  <2>1. IsFiniteSet(AdmittedIds) /\ Cardinality(AdmittedIds) <= n
    BY AdmittedCount DEF Admitted
  <2>2. Charged = ActiveIds \cup AdmittedIds
    BY <1>3 DEF Charged
  <2>3. IsFiniteSet(Charged) /\ Cardinality(Charged) <= a + Cardinality(AdmittedIds)
    BY <2>1, <2>2, UnionCount
  <2>4. Cardinality(Charged) \in Nat /\ Cardinality(AdmittedIds) \in Nat
    BY <2>1, <2>3, FS_CardinalityType
  <2> HIDE DEF a, n, g
  <2>5. Cardinality(Charged) <= Bound
    BY <1>1, <1>2, <2>1, <2>3, <2>4 DEF a
  <2> QED BY <2>3, <2>5 DEF ChargeInv
<1>4. CASE Guarding
  <2>1. PICK r \in Reqs : req[r].k > 0
    BY <1>4 DEF Guarding
  <2>2. g # 0
    <3>1. req[r].k \in 0 .. g
      BY <2>1 DEF IInv, TypeOK, Request
    <3> QED BY <1>1, <2>1, <3>1
  <2>3. Admitted \subseteq Reqs \ {r}
    BY <2>1 DEF Admitted
  <2>4. IsFiniteSet(Reqs \ {r}) /\ Cardinality(Reqs \ {r}) = n - 1
    BY <2>1, FS_RemoveElement
  <2>5. IsFiniteSet(AdmittedIds) /\ Cardinality(AdmittedIds) <= n - 1
    BY <2>3, <2>4, AdmittedCount
  <2>6. IsFiniteSet(ActiveIds \cup AdmittedIds)
        /\ Cardinality(ActiveIds \cup AdmittedIds) <= a + Cardinality(AdmittedIds)
    BY <2>5, UnionCount
  <2>7. Charged = (ActiveIds \cup AdmittedIds) \cup Standard
    BY <1>4 DEF Charged
  <2>8. IsFiniteSet(Charged)
        /\ Cardinality(Charged)
             <= Cardinality(ActiveIds \cup AdmittedIds) + Cardinality(Standard)
    BY <2>6, <2>7, StandardCount, UnionCount
  <2>9. /\ Cardinality(Charged) \in Nat
        /\ Cardinality(ActiveIds \cup AdmittedIds) \in Nat
        /\ Cardinality(AdmittedIds) \in Nat
        /\ Cardinality(Standard) \in Nat
        /\ Cardinality(Standard) <= g
    BY <2>5, <2>6, <2>8, StandardCount, FS_CardinalityType
  <2> HIDE DEF a, n, g
  <2>10. Cardinality(Charged) <= Bound
    BY <1>1, <1>2, <2>2, <2>5, <2>6, <2>8, <2>9 DEF a
  <2> QED BY <2>8, <2>10 DEF ChargeInv
<1> QED BY <1>3, <1>4

(* So they do after a step.                                                *)
LEMMA ChargeFitsNext == Room' => ChargeInv'
  BY ChargeFits, PTL

(* What is charged never grows by itself past the bound: a step that       *)
(* charges no new id keeps the limit.                                      *)
LEMMA ChargeShrinks ==
  ASSUME ChargeInv, Charged' \subseteq Charged, IsFiniteSet(Reqs)
  PROVE  ChargeInv'
<1>1. IsFiniteSet(Charged') /\ Cardinality(Charged') <= Cardinality(Charged)
  BY FS_Subset DEF ChargeInv
<1>2. Bound' = Bound /\ Bound \in Int
  BY FS_CardinalityType, LenGuardSeq, SessionsAssumption DEF Bound
<1>3. Cardinality(Charged) \in Nat /\ Cardinality(Charged)' \in Nat
  BY <1>1, FS_CardinalityType DEF ChargeInv
<1> QED BY <1>1, <1>2, <1>3 DEF ChargeInv

(* At the start nothing is charged.                                        *)
LEMMA InitLimit == ASSUME IsFiniteSet(Reqs) PROVE Init => LimitInv
<1> SUFFICES ASSUME Init PROVE LimitInv
  OBVIOUS
<1>1. \A r \in Reqs : req[r].k = 0 /\ req[r].pc = "idle"
  BY DEF Init, Idle, Task
<1>2. ActiveIds = {}
  BY DEF Init, ActiveIds, Present
<1>3. Charged = {}
  BY <1>1, <1>2 DEF Charged, AdmittedIds, Admitted, Guarding
<1>4. GuardInv
  BY <1>1 DEF GuardInv
<1>5. MaxActive # 0 => 0 <= Bound
  BY FS_CardinalityType, LenGuardSeq, SessionsAssumption DEF Bound
<1> QED BY <1>3, <1>4, <1>5, FS_EmptySet DEF LimitInv, ChargeInv

(* A handler that gives up its request, or goes on with the guard's list,  *)
(* charges nothing new.                                                    *)
LEMMA AfterSpawnQuiet ==
  ASSUME NEW q \in Request
  PROVE  /\ AfterSpawn(q).pc \notin {"spawn", "insert"}
         /\ AfterSpawn(q).k > 0 => q.k > 0 /\ AfterSpawn(q).pc = "guard"
  BY LenGuardSeq DEF AfterSpawn, Task, Idle, Request

(* A step of one handler that leaves table and statuses alone and neither  *)
(* admits a create nor starts the guard charges nothing new.               *)
LEMMA QuietMove ==
  ASSUME IInv, NEW r \in Reqs, NEW q \in Request,
         req' = [req EXCEPT ![r] = q],
         ActiveIds' \subseteq Charged,
         q.pc \in {"spawn", "insert"} /\ q.k = 0 =>
           req[r].pc = "spawn" /\ req[r].k = 0 /\ req[r].id = q.id,
         q.k > 0 => req[r].k > 0
  PROVE  Charged' \subseteq Charged
<1>1. \A s \in Reqs : req'[s] = IF s = r THEN q ELSE req[s]
  BY DEF IInv, TypeOK
<1>2. Guarding' => Guarding
  BY <1>1 DEF Guarding
<1>3. AdmittedIds' \subseteq AdmittedIds
  BY <1>1 DEF AdmittedIds, Admitted
<1>4. Standard' = Standard
  BY DEF Standard
<1> QED BY <1>2, <1>3, <1>4 DEF Charged

(* A handler step keeps what is known of the guard when the handler it     *)
(* moves satisfies it after the step.                                      *)
LEMMA GuardMove ==
  ASSUME IInv, GuardInv, NEW r \in Reqs, NEW q \in Request,
         req' = [req EXCEPT ![r] = q],
         q.k > 0 => /\ q.pc \in {"guard", "spawn", "insert"}
                    /\ q.pc \in {"spawn", "insert"} => q.id \in Standard
  PROVE  GuardInv'
<1>1. \A s \in Reqs : req'[s] = IF s = r THEN q ELSE req[s]
  BY DEF IInv, TypeOK
<1>2. Standard' = Standard
  BY DEF Standard
<1> QED BY <1>1, <1>2 DEF GuardInv

-----------------------------------------------------------------------------
(* A step outside the handlers that only takes sessions out of "active".   *)
LEMMA ChildMove ==
  ASSUME LimitInv, IsFiniteSet(Reqs), UNCHANGED req, ActiveIds' \subseteq ActiveIds
  PROVE  LimitInv'
<1>1. Standard' = Standard /\ AdmittedIds' = AdmittedIds /\ Guarding' = Guarding
  BY DEF Standard, AdmittedIds, Admitted, Guarding
<1>2. Charged' \subseteq Charged
  BY <1>1 DEF Charged
<1>3. GuardInv'
  BY <1>1 DEF LimitInv, GuardInv
<1> QED BY <1>2, <1>3, ChargeShrinks DEF LimitInv

(* A handler step that charges nothing new keeps the limit.                *)
LEMMA HandlerMove ==
  ASSUME IInv, LimitInv, IsFiniteSet(Reqs), NEW r \in Reqs, NEW q \in Request,
         req' = [req EXCEPT ![r] = q],
         ActiveIds' \subseteq Charged,
         q.pc \in {"spawn", "insert"} /\ q.k = 0 =>
           req[r].pc = "spawn" /\ req[r].k = 0 /\ req[r].id = q.id,
         q.k > 0 => /\ req[r].k > 0
                    /\ q.pc \in {"guard", "spawn", "insert"}
                    /\ q.pc \in {"spawn", "insert"} => q.id \in Standard
  PROVE  LimitInv'
<1>1. Charged' \subseteq Charged
  BY QuietMove
<1>2. GuardInv'
  BY GuardMove DEF LimitInv
<1> QED BY <1>1, <1>2, ChargeShrinks DEF LimitInv

(* A create that is let through was counted: few enough ids are active.    *)
LEMMA LimitCreateLimit ==
  ASSUME IInv, IInv', LimitInv, IsFiniteSet(Reqs), NEW r \in Reqs, CreateLimit(r)
  PROVE  LimitInv'
<1> DEFINE q == IF LimitReached THEN Idle ELSE Task("spawn", req[r].id, NoInst, 0)
<1>1. q.k = 0 /\ req' = [req EXCEPT ![r] = q]
  BY DEF CreateLimit, Idle, Task
<1>2. q \in Request
  <2>1. q = req'[r]
    BY <1>1 DEF IInv, TypeOK
  <2> HIDE DEF q
  <2> QED BY <2>1 DEF IInv, TypeOK
<1>3. ActiveIds' = ActiveIds
  BY DEF CreateLimit, ActiveIds, Present
<1>4. GuardInv'
  <2> HIDE DEF q
  <2>1. ~(q.k > 0)
    BY <1>1
  <2> QED BY <1>1, <1>2, <2>1, GuardMove DEF LimitInv
<1>5. CASE LimitReached
  <2>1. q.pc = "idle"
    BY <1>5 DEF Idle, Task
  <2>2. ActiveIds' \subseteq Charged
    BY <1>3 DEF Charged
  <2>3. ~(q.k > 0) /\ ~(q.pc \in {"spawn", "insert"})
    BY <1>1, <2>1
  <2> HIDE DEF q
  <2> QED BY <1>1, <1>2, <2>2, <2>3, HandlerMove
<1>6. CASE ~LimitReached
  <2>1. SUFFICES ASSUME MaxActive # 0 PROVE ChargeInv'
    BY <1>4 DEF LimitInv
  <2>2. IsFiniteSet(ActiveIds)
    BY <2>1, FS_Subset DEF LimitInv, ChargeInv, Charged
  <2>3. Cardinality(ActiveIds) + 1 <= MaxActive
    BY <1>6, <2>1, <2>2, FS_CardinalityType, SessionsAssumption DEF LimitReached
  <2>4. IsFiniteSet(ActiveIds)' /\ Cardinality(ActiveIds)' + 1 <= MaxActive
    BY <1>3, <2>2, <2>3
  <2>5. Room'
    BY <1>4, <2>1, <2>4 DEF Room
  <2> QED BY <2>5, ChargeFitsNext
<1> QED BY <1>5, <1>6

(* The guard starts when the table is empty: nothing is active then, and   *)
(* the bound leaves room for the whole list and for every other handler.   *)
LEMMA LimitListCount ==
  ASSUME IInv, IInv', LimitInv, IsFiniteSet(Reqs), NEW r \in Reqs, ListCount(r)
  PROVE  LimitInv'
<1> DEFINE q == req'[r]
<1>0. /\ req' = [req EXCEPT ![r] = q] /\ q \in Request
      /\ q.pc \in {"list", "guard"}
      /\ q.pc = "list" => q.k = 0
  <2>1. q \in {Task("list", NoId, NoInst, 0), Task("guard", NoId, NoInst, 1)}
    BY DEF ListCount, IInv, TypeOK
  <2>2. req' = [req EXCEPT ![r] = q] /\ q \in Request
    BY DEF ListCount, IInv, TypeOK
  <2> QED BY <2>1, <2>2 DEF Task
<1>1. GuardInv'
  <2>1. q.k > 0 => /\ q.pc \in {"guard", "spawn", "insert"}
                   /\ q.pc \in {"spawn", "insert"} => q.id \in Standard
    BY <1>0
  <2> HIDE DEF q
  <2> QED BY <1>0, <2>1, GuardMove DEF LimitInv
<1>2. ActiveIds' = ActiveIds
  BY DEF ListCount, ActiveIds, Present
<1>3. CASE q.pc = "list"
  <2>1. ActiveIds' \subseteq Charged
    BY <1>2 DEF Charged
  <2>2. ~(q.k > 0)
    BY <1>0, <1>3
  <2> HIDE DEF q
  <2> QED BY <1>0, <1>3, <2>1, <2>2, HandlerMove
<1>4. CASE q.pc = "guard"
  <2>1. SUFFICES ASSUME MaxActive # 0 PROVE ChargeInv'
    BY <1>1 DEF LimitInv
  <2>2. \A id \in Ids : ~Present(id)
    BY <1>4 DEF ListCount, Task, IInv, TypeOK
  <2>3. ActiveIds = {}
    BY <2>2 DEF ActiveIds
  <2>4. IsFiniteSet(ActiveIds)' /\ Cardinality(ActiveIds)' + 1 <= MaxActive
    <3>1. ActiveIds' = {} /\ IsFiniteSet({}) /\ Cardinality({}) = 0
      BY <1>2, <2>3, FS_EmptySet
    <3>2. 1 <= MaxActive
      BY <2>1, SessionsAssumption
    <3> QED BY <3>1, <3>2
  <2>5. Room'
    BY <1>1, <2>1, <2>4 DEF Room
  <2> QED BY <2>5, ChargeFitsNext
<1> QED BY <1>0, <1>3, <1>4

(* An instance that was never spawned is not in the table, so a spawn adds *)
(* no active session.                                                      *)
LEMMA SpawnAddsNone ==
  ASSUME IInv, NEW i \in Instances, proc[i] = "unborn", UNCHANGED sessions,
         status' = [status EXCEPT ![i] = "active"]
  PROVE  ActiveIds' = ActiveIds
<1>1. \A id \in Ids : Present(id) => sessions[id] \in Instances /\ sessions[id] # i
  BY DEF IInv, TypeOK, TableInv, InstanceInv, Present
<1> QED BY <1>1 DEF ActiveIds, Present, IInv, TypeOK

(* A handler that moves without touching table or statuses, to a place     *)
(* where it neither is an admitted create nor starts the guard.            *)
LEMMA LimitMoves ==
  ASSUME IInv, LimitInv, IsFiniteSet(Reqs), NEW r \in Reqs, NEW q \in Request,
         req' = [req EXCEPT ![r] = q],
         UNCHANGED <<sessions, status>>,
         q.k = 0 => q.pc \notin {"spawn", "insert"},
         q.k > 0 => /\ req[r].k > 0
                    /\ q.pc \in {"guard", "spawn", "insert"}
                    /\ q.pc \in {"spawn", "insert"} => q.id \in Standard
  PROVE  LimitInv'
<1>1. ActiveIds' \subseteq Charged
  BY DEF ActiveIds, Present, Charged
<1> QED BY <1>1, HandlerMove

(* A step of a handler at the spawn charges nothing new.                   *)
LEMMA LimitSpawn ==
  ASSUME IInv, LimitInv, IsFiniteSet(Reqs), NEW r \in Reqs,
         SpawnChild(r) \/ SpawnFails(r) \/ SpawnLeaks(r)
  PROVE  LimitInv'
<1>t. req[r] \in Request /\ req[r].k \in Nat
  BY LenGuardSeq DEF IInv, TypeOK, Request
<1>1. CASE SpawnChild(r)
  <2>1. PICK i \in Instances :
          /\ proc[i] = "unborn"
          /\ status' = [status EXCEPT ![i] = "active"]
          /\ req' = [req EXCEPT ![r] = Task("insert", req[r].id, i, req[r].k)]
    BY <1>1 DEF SpawnChild
  <2> DEFINE q == Task("insert", req[r].id, i, req[r].k)
  <2>2. ActiveIds' \subseteq Charged
    BY <1>1, <2>1, SpawnAddsNone DEF SpawnChild, Charged
  <2>3. q \in Request /\ q.pc = "insert" /\ q.id = req[r].id /\ q.k = req[r].k
    BY <1>t DEF Task, Request
  <2>4. req[r].pc = "spawn" /\ (q.k > 0 => q.id \in Standard)
    BY <1>1, <2>3 DEF SpawnChild, LimitInv, GuardInv
  <2>5. req' = [req EXCEPT ![r] = q]
    BY <2>1
  <2> HIDE DEF q
  <2> QED BY <2>2, <2>3, <2>4, <2>5, HandlerMove
<1>2. CASE SpawnFails(r) \/ SpawnLeaks(r)
  <2> DEFINE q == AfterSpawn(req[r])
  <2>1. req' = [req EXCEPT ![r] = q] /\ UNCHANGED <<sessions, status>>
    BY <1>2 DEF SpawnFails, SpawnLeaks
  <2>2. /\ q \in Request
        /\ q.pc \notin {"spawn", "insert"}
        /\ q.k > 0 => req[r].k > 0 /\ q.pc = "guard"
    BY <1>t, AfterSpawnType, AfterSpawnQuiet
  <2> HIDE DEF q
  <2> QED BY <2>1, <2>2, LimitMoves
<1> QED BY <1>1, <1>2

(* What a handler inserts was charged: the id of an admitted create or one *)
(* of the guard's.                                                         *)
LEMMA LimitInsert ==
  ASSUME IInv, LimitInv, IsFiniteSet(Reqs), NEW r \in Reqs, InsertSession(r)
  PROVE  LimitInv'
<1>t. req[r] \in Request /\ req[r].k \in Nat
  BY LenGuardSeq DEF IInv, TypeOK, Request
<1> DEFINE q == AfterSpawn(req[r])
<1>1. req' = [req EXCEPT ![r] = q]
  BY DEF InsertSession
<1>2. /\ q \in Request
      /\ q.pc \notin {"spawn", "insert"}
      /\ q.k > 0 => req[r].k > 0 /\ q.pc = "guard"
  BY <1>t, AfterSpawnType, AfterSpawnQuiet
<1>3. req[r].id \in Charged
  <2>1. CASE req[r].k = 0
    BY <2>1 DEF InsertSession, Charged, AdmittedIds, Admitted
  <2>2. CASE req[r].k > 0
    BY <2>2 DEF InsertSession, LimitInv, GuardInv, Charged, Guarding
  <2> QED BY <1>t, <2>1, <2>2
<1>4. ActiveIds' \subseteq ActiveIds \cup {req[r].id}
  BY DEF InsertSession, ActiveIds, Present, IInv, TypeOK
<1>5. ActiveIds' \subseteq Charged
  BY <1>3, <1>4 DEF Charged
<1> HIDE DEF q
<1> QED BY <1>1, <1>2, <1>5, HandlerMove

(* delete_session takes an entry out, then marks an instance that is in no *)
(* table entry.                                                            *)
LEMMA LimitDelete ==
  ASSUME IInv, LimitInv, IsFiniteSet(Reqs), NEW r \in Reqs,
         DeleteStop(r) \/ \E id \in Ids : DeleteRemove(r, id), req'[r] \in Request
  PROVE  LimitInv'
<1> DEFINE q == req'[r]
<1>1. req' = [req EXCEPT ![r] = q] /\ q.k = 0 /\ q.pc \notin {"spawn", "insert"}
  BY DEF DeleteStop, DeleteRemove, Idle, Task, IInv, TypeOK
<1>2. ActiveIds' \subseteq ActiveIds
  <2>1. CASE DeleteStop(r)
    BY <2>1 DEF DeleteStop, ActiveIds, Present, IInv, TypeOK
  <2>2. CASE \E id \in Ids : DeleteRemove(r, id)
    BY <2>2 DEF DeleteRemove, ActiveIds, Present, IInv, TypeOK
  <2> QED BY <2>1, <2>2
<1>3. ActiveIds' \subseteq Charged
  BY <1>2 DEF Charged
<1>4. ~(q.k > 0)
  BY <1>1
<1> HIDE DEF q
<1>5. q \in Request
  BY DEF q
<1> QED BY <1>1, <1>3, <1>4, <1>5, HandlerMove

(* The guard's own check picks the next id of its list.                    *)
LEMMA LimitGuardCheck ==
  ASSUME IInv, LimitInv, IsFiniteSet(Reqs), NEW r \in Reqs, GuardCheck(r), req'[r] \in Request
  PROVE  LimitInv'
<1>t. req[r] \in Request /\ req[r].k \in 1 .. Len(GuardSeq)
  BY LenGuardSeq DEF GuardCheck, IInv, TypeOK, Request, HolderInv
<1> DEFINE q == req'[r]
<1>1. req' = [req EXCEPT ![r] = q]
  BY DEF GuardCheck, IInv, TypeOK
<1>2. CASE Present(GuardSeq[req[r].k])
  <2>1. q = AfterSpawn(req[r])
    BY <1>2 DEF GuardCheck, IInv, TypeOK
  <2>2. /\ q \in Request
        /\ q.pc \notin {"spawn", "insert"}
        /\ q.k > 0 => req[r].k > 0 /\ q.pc = "guard"
    BY <1>t, <2>1, AfterSpawnType, AfterSpawnQuiet
  <2> HIDE DEF q
  <2> QED BY <1>1, <2>2, LimitMoves DEF GuardCheck
<1>3. CASE ~Present(GuardSeq[req[r].k])
  <2>1. q = Task("spawn", GuardSeq[req[r].k], NoInst, req[r].k)
    BY <1>3 DEF GuardCheck, IInv, TypeOK
  <2>2. q.pc = "spawn" /\ q.k = req[r].k /\ q.id \in Standard
    BY <1>t, <2>1 DEF Task, Standard
  <2>3. q.k # 0 /\ q.k > 0 /\ req[r].k > 0
    BY <1>t, <2>2, LenGuardSeq
  <2> HIDE DEF q
  <2>4. q \in Request
    BY DEF q
  <2> QED BY <1>1, <2>2, <2>3, <2>4, LimitMoves DEF GuardCheck
<1> QED BY <1>2, <1>3

(* No step breaks the limit.                                               *)
LEMMA NextLimit ==
  ASSUME IsFiniteSet(Reqs)
  PROVE  IInv /\ IInv' /\ LimitInv /\ [Next]_vars => LimitInv'
<1> SUFFICES ASSUME IInv, IInv', LimitInv, [Next]_vars PROVE LimitInv'
  OBVIOUS
<1>t. \A r \in Reqs : req'[r] \in Request
  BY DEF IInv, TypeOK
<1>1. ASSUME NEW r \in Reqs, \/ \E id \in Ids : CreateCheck(r, id)
                             \/ ListReply(r)
      PROVE  LimitInv'
  <2> DEFINE q == req'[r]
  <2>1. /\ req' = [req EXCEPT ![r] = q] /\ UNCHANGED <<sessions, status>>
        /\ q.k = 0 /\ q.pc \notin {"spawn", "insert"}
    BY <1>1 DEF CreateCheck, ListReply, Idle, Task, IInv, TypeOK
  <2>2. q \in Request /\ ~(q.k > 0)
    BY <1>t, <2>1
  <2> HIDE DEF q
  <2> QED BY <2>1, <2>2, LimitMoves
<1>2. ASSUME NEW r \in Reqs, CreateLimit(r) PROVE LimitInv'
  BY <1>2, LimitCreateLimit
<1>3. ASSUME NEW r \in Reqs, CreateSpawn(r) \/ GuardSpawn(r) PROVE LimitInv'
  BY <1>3, LimitSpawn DEF CreateSpawn, GuardSpawn
<1>4. ASSUME NEW r \in Reqs, CreateInsert(r) \/ GuardInsert(r) PROVE LimitInv'
  BY <1>4, LimitInsert DEF CreateInsert, GuardInsert
<1>5. ASSUME NEW r \in Reqs, DeleteStop(r) \/ \E id \in Ids : DeleteRemove(r, id)
      PROVE  LimitInv'
  BY <1>5, <1>t, LimitDelete
<1>6. ASSUME NEW r \in Reqs, ListCount(r) PROVE LimitInv'
  BY <1>6, LimitListCount
<1>7. ASSUME NEW r \in Reqs, GuardCheck(r) PROVE LimitInv'
  BY <1>7, <1>t, LimitGuardCheck
<1>8. ASSUME NEW i \in Instances, Child(i) PROVE LimitInv'
  <2>1. ActiveIds' \subseteq ActiveIds
    BY <1>8 DEF Child, ChildExits, WaitReturns, WaitFails, ReportExit, Waited, Reports,
        ActiveIds, Present, IInv, TypeOK
  <2>2. UNCHANGED req
    BY <1>8 DEF Child, ChildExits, WaitReturns, WaitFails, ReportExit, Waited, Reports
  <2> QED BY <2>1, <2>2, ChildMove
<1>9. CASE UNCHANGED vars
  <2>1. ActiveIds' \subseteq ActiveIds
    BY <1>9 DEF vars, ActiveIds, Present
  <2> QED BY <1>9, <2>1, ChildMove DEF vars
<1> QED
  BY <1>1, <1>2, <1>3, <1>4, <1>5, <1>6, <1>7, <1>8, <1>9 DEF Next, Handler

(* However many creates and guards run at once, the active sessions exceed *)
(* LCC_MAX_ACTIVE_SESSIONS by at most one for each other handler and by    *)
(* the rest of the guard's list.                                           *)
THEOREM LimitOvershoot ==
  ASSUME IsFiniteSet(Reqs) PROVE Spec => []LimitOvershootBound
<1>1. Init => LimitInv
  BY InitLimit
<1>2. IInv /\ IInv' /\ LimitInv /\ [Next]_vars => LimitInv'
  BY NextLimit
<1>3. LimitInv => LimitOvershootBound
  <2> SUFFICES ASSUME LimitInv, MaxActive # 0 PROVE Cardinality(ActiveIds) <= Bound
    BY DEF LimitOvershootBound, Bound
  <2>1. IsFiniteSet(Charged) /\ Cardinality(Charged) <= Bound
    BY DEF LimitInv, ChargeInv
  <2>2. IsFiniteSet(ActiveIds) /\ Cardinality(ActiveIds) <= Cardinality(Charged)
    BY <2>1, FS_Subset DEF Charged
  <2>3. Bound \in Int
    BY FS_CardinalityType, LenGuardSeq, SessionsAssumption DEF Bound
  <2>4. Cardinality(ActiveIds) \in Nat /\ Cardinality(Charged) \in Nat
    BY <2>1, <2>2, FS_CardinalityType
  <2> QED BY <2>1, <2>2, <2>3, <2>4
<1> QED BY <1>1, <1>2, <1>3, Invariance, PTL DEF Spec

-----------------------------------------------------------------------------
(* REQUESTS THAT COME ONE AT A TIME *)

(* What a create or the guard has checked is still so when it inserts.     *)
CheckedInv ==
  \A r \in Reqs : req[r].pc \in {"limit", "spawn", "insert"} => ~Present(req[r].id)

(* As long as a guard is at work the table has standard sessions only.     *)
PoolInv ==
  \A r \in Reqs : req[r].k > 0 => \A id \in Ids : Present(id) => id \in Standard

AloneInv == GuardInv /\ CheckedInv /\ PoolInv /\ \A i \in Instances : HasOwner(i)

(* A handler that makes a step is the only one at work: one that was idle  *)
(* is not after the step.                                                  *)
LEMMA OthersIdle ==
  ASSUME IInv, OneAtATime, OneAtATime', NEW r \in Reqs, Handler(r)
  PROVE  \E q \in Request :
           /\ req' = [req EXCEPT ![r] = q]
           /\ \A s \in Reqs \ {r} : req[s].pc = "idle"
<1>1. req \in [Reqs -> Request] /\ req' \in [Reqs -> Request]
  <2>1. IInv'
    BY NextIInv DEF Next
  <2> QED BY <2>1 DEF IInv, TypeOK
<1>2. req' = [req EXCEPT ![r] = req'[r]]
  BY <1>1 DEF Handler, CreateCheck, CreateLimit, CreateSpawn, CreateInsert, DeleteRemove,
     DeleteStop, ListCount, GuardCheck, GuardSpawn, GuardInsert, ListReply, SpawnChild,
     SpawnFails, SpawnLeaks, InsertSession
<1>3. req[r].pc # "idle" \/ req'[r].pc # "idle"
  <2> SUFFICES ASSUME req[r].pc = "idle" PROVE req'[r].pc # "idle"
    OBVIOUS
  <2>1. \/ \E id \in Ids : CreateCheck(r, id) \/ DeleteRemove(r, id)
        \/ ListCount(r)
    BY DEF Handler, CreateLimit, CreateSpawn, CreateInsert,
       DeleteStop, GuardCheck, GuardSpawn, GuardInsert, ListReply, SpawnChild,
       SpawnFails, SpawnLeaks, InsertSession
  <2> QED BY <1>1, <2>1 DEF CreateCheck, DeleteRemove, ListCount, Task
<1>4. ASSUME NEW s \in Reqs \ {r} PROVE req[s].pc = "idle"
  <2>1. req'[s] = req[s]
    BY <1>1, <1>2
  <2> QED BY <1>3, <2>1 DEF OneAtATime
<1> QED BY <1>1, <1>2, <1>4

(* An idle handler has no part in the guard's list.                        *)
LEMMA IdleKeeps ==
  ASSUME IInv, GuardInv, NEW r \in Reqs, NEW q \in Request,
         req' = [req EXCEPT ![r] = q],
         \A s \in Reqs \ {r} : req[s].pc = "idle",
         q.k > 0 => /\ q.pc \in {"guard", "spawn", "insert"}
                    /\ q.pc \in {"spawn", "insert"} => q.id \in Standard
                    /\ \A id \in Ids : Present(id)' => id \in Standard,
         q.pc \in {"limit", "spawn", "insert"} => sessions'[q.id] = NoInst
  PROVE  GuardInv' /\ CheckedInv' /\ PoolInv'
<1>1. \A s \in Reqs : req'[s] = IF s = r THEN q ELSE req[s]
  BY DEF IInv, TypeOK
<1>2. \A s \in Reqs \ {r} : ~(req[s].k > 0)
  BY DEF GuardInv
<1>3. Standard' = Standard
  BY DEF Standard
<1>4. GuardInv'
  BY GuardMove
<1>5. CheckedInv'
  BY <1>1 DEF CheckedInv, Present
<1>6. PoolInv'
  BY <1>1, <1>2, <1>3 DEF PoolInv, Present
<1> QED BY <1>4, <1>5, <1>6

(* A handler lets nobody's child go that it does not hold itself.          *)
LEMMA OwnerKept ==
  ASSUME IInv, NEW i \in Instances, HasOwner(i), NEW r \in Reqs, NEW q \in Request,
         req' = [req EXCEPT ![r] = q],
         req[r].inst = i => q.inst = i,
         waiter'[i] = waiter[i], proc'[i] = proc[i], home'[i] = home[i],
         status[i] = "stopped" => status'[i] = "stopped",
         waiter[i] # "none" /\ sessions[home[i]] = i => sessions'[home[i]] = i \/ q.inst = i
  PROVE  HasOwner(i)'
<1>1. \A s \in Reqs : req'[s] = IF s = r THEN q ELSE req[s]
  BY DEF IInv, TypeOK
<1>2. Holders(i) # {} => Holders(i)' # {}
  BY <1>1 DEF Holders
<1>3. q.inst = i => Holders(i)' # {}
  BY <1>1 DEF Holders
<1> QED BY <1>2, <1>3 DEF HasOwner

(* A handler that holds no instance and only moves on.                     *)
LEMMA MovesAlone ==
  ASSUME IInv, AloneInv, NEW r \in Reqs, NEW q \in Request,
         req' = [req EXCEPT ![r] = q],
         \A s \in Reqs \ {r} : req[s].pc = "idle",
         req[r].pc \notin {"insert", "stop"},
         UNCHANGED <<sessions, home, status, proc, waiter>>,
         q.k > 0 => /\ q.pc \in {"guard", "spawn", "insert"}
                    /\ q.pc \in {"spawn", "insert"} => q.id \in Standard
                    /\ \A id \in Ids : Present(id) => id \in Standard,
         q.pc \in {"limit", "spawn", "insert"} => ~Present(q.id)
  PROVE  AloneInv'
<1>1. GuardInv' /\ CheckedInv' /\ PoolInv'
  BY IdleKeeps DEF AloneInv, Present
<1>2. req[r].inst \notin Instances
  BY SessionsAssumption DEF IInv, HolderInv
<1>3. \A i \in Instances : HasOwner(i)'
  BY <1>2, OwnerKept DEF AloneInv
<1> QED BY <1>1, <1>3 DEF AloneInv

LEMMA SpawnAlone ==
  ASSUME IInv, AloneInv, NEW r \in Reqs,
         NEW q \in Request, q = req'[r],
         \A s \in Reqs \ {r} : req[s].pc = "idle",
         SpawnChild(r) \/ SpawnFails(r) \/ SpawnLeaks(r)
  PROVE  AloneInv'
<1>1. /\ req[r].pc = "spawn" /\ req' = [req EXCEPT ![r] = q] /\ req[r] \in Request
      /\ UNCHANGED <<sessions, waiter>>
  BY DEF SpawnChild, SpawnFails, SpawnLeaks, IInv, TypeOK
<1>2. req[r].inst \notin Instances
  BY <1>1, SessionsAssumption DEF IInv, HolderInv
<1>3. \/ q = AfterSpawn(req[r])
      \/ q.pc = "insert" /\ q.id = req[r].id /\ q.k = req[r].k
  BY DEF SpawnChild, SpawnFails, SpawnLeaks, IInv, TypeOK, Task
<1>4. /\ ~Present(req[r].id)
      /\ req[r].k > 0 => req[r].id \in Standard /\ \A id \in Ids : Present(id) => id \in Standard
  BY <1>1 DEF AloneInv, CheckedInv, GuardInv, PoolInv
<1>5. /\ q.k > 0 => /\ q.pc \in {"guard", "spawn", "insert"}
                    /\ q.pc \in {"spawn", "insert"} => q.id \in Standard
                    /\ \A id \in Ids : Present(id)' => id \in Standard
      /\ q.pc \in {"limit", "spawn", "insert"} => sessions'[q.id] = NoInst
  <2>1. AfterSpawn(req[r]).pc \in {"idle", "guard", "list"}
    BY <1>1, AfterSpawnType
  <2>2. AfterSpawn(req[r]).k > 0 => req[r].k > 0 /\ AfterSpawn(req[r]).pc = "guard"
    BY <1>1, AfterSpawnQuiet
  <2> QED BY <1>1, <1>3, <1>4, <2>1, <2>2 DEF Present
<1>6. GuardInv' /\ CheckedInv' /\ PoolInv'
  BY <1>1, <1>5, IdleKeeps DEF AloneInv
<1>7. ASSUME NEW i \in Instances PROVE HasOwner(i)'
  <2>1. CASE proc[i] = "unborn"
    <3>1. waiter'[i] = "none"
      BY <1>1, <2>1 DEF IInv, InstanceInv
    <3> QED BY <3>1 DEF HasOwner
  <2>2. CASE proc[i] # "unborn"
    <3>1. proc'[i] = proc[i] /\ home'[i] = home[i] /\ status'[i] = status[i]
      BY <2>2 DEF SpawnChild, SpawnFails, SpawnLeaks, IInv, TypeOK
    <3> QED BY <1>1, <1>2, <3>1, OwnerKept DEF AloneInv
  <2> QED BY <2>1, <2>2
<1> QED BY <1>6, <1>7 DEF AloneInv

(* The entry that an insert replaces is empty.                             *)
LEMMA InsertAlone ==
  ASSUME IInv, AloneInv, NEW r \in Reqs,
         NEW q \in Request, q = req'[r],
         \A s \in Reqs \ {r} : req[s].pc = "idle",
         InsertSession(r)
  PROVE  AloneInv'
<1> DEFINE id == req[r].id
           j == req[r].inst
<1>1. /\ req[r].pc = "insert" /\ req' = [req EXCEPT ![r] = q] /\ req[r] \in Request
      /\ q = AfterSpawn(req[r]) /\ UNCHANGED <<home, status, proc>>
      /\ sessions' = [sessions EXCEPT ![id] = j] /\ waiter' = [waiter EXCEPT ![j] = "waiting"]
  BY DEF InsertSession, IInv, TypeOK
<1>2. id \in Ids /\ j # NoInst /\ home[j] = id
  BY <1>1 DEF IInv, HolderInv
<1>3. j \in Instances
  BY <1>1, <1>2 DEF Request
<1>4. ~Present(id) /\ (req[r].k > 0 => id \in Standard /\ \A e \in Ids : Present(e) => e \in Standard)
  BY <1>1 DEF AloneInv, CheckedInv, GuardInv, PoolInv
<1>5. \A e \in Ids : sessions'[e] = IF e = id THEN j ELSE sessions[e]
  BY <1>1, <1>2 DEF IInv, TypeOK
<1>6. \A e \in Ids : Present(e)' => e = id \/ Present(e)
  BY <1>5 DEF Present
<1>7. /\ AfterSpawn(req[r]).pc \in {"idle", "guard", "list"}
      /\ AfterSpawn(req[r]).k > 0 => req[r].k > 0 /\ AfterSpawn(req[r]).pc = "guard"
  BY <1>1, AfterSpawnType, AfterSpawnQuiet
<1>8. GuardInv' /\ CheckedInv' /\ PoolInv'
  <2>1. /\ q.k > 0 => q.pc = "guard" /\ \A e \in Ids : Present(e)' => e \in Standard
        /\ q.pc \notin {"limit", "spawn", "insert"}
    BY <1>1, <1>4, <1>6, <1>7
  <2> QED BY <1>1, <2>1, IdleKeeps DEF AloneInv
<1>9. ASSUME NEW i \in Instances PROVE HasOwner(i)'
  <2>1. CASE i = j
    <3>1. sessions'[home'[i]] = i
      BY <1>1, <1>2, <1>5, <2>1
    <3> QED BY <3>1 DEF HasOwner
  <2>2. CASE i # j
    <3>1. waiter'[i] = waiter[i]
      BY <1>1, <2>2 DEF IInv, TypeOK
    <3>2. waiter[i] # "none" /\ sessions[home[i]] = i => sessions'[home[i]] = i
      <4>1. waiter[i] # "none" => home[i] \in Ids
        BY DEF IInv, InstanceInv
      <4>2. sessions[id] = NoInst /\ i # NoInst
        BY <1>4, SessionsAssumption DEF Present
      <4> QED BY <1>5, <4>1, <4>2
    <3> QED BY <1>1, <2>2, <3>1, <3>2, OwnerKept DEF AloneInv
  <2> QED BY <2>1, <2>2
<1> QED BY <1>8, <1>9 DEF AloneInv

LEMMA DeleteAlone ==
  ASSUME IInv, AloneInv, NEW r \in Reqs,
         NEW q \in Request, q = req'[r],
         \A s \in Reqs \ {r} : req[s].pc = "idle",
         DeleteStop(r) \/ \E id \in Ids : DeleteRemove(r, id)
  PROVE  AloneInv'
<1>1. /\ req' = [req EXCEPT ![r] = q] /\ UNCHANGED <<home, proc, waiter>>
      /\ ~(q.k > 0) /\ q.pc \in {"idle", "stop"} /\ req[r].pc \in {"idle", "stop"}
  BY DEF DeleteStop, DeleteRemove, IInv, TypeOK, Idle, Task
<1>2. GuardInv' /\ CheckedInv' /\ PoolInv'
  BY <1>1, IdleKeeps DEF AloneInv
<1>3. CASE DeleteStop(r)
  <2>1. ASSUME NEW i \in Instances PROVE HasOwner(i)'
    <3>1. /\ status' = [status EXCEPT ![req[r].inst] = "stopped"] /\ UNCHANGED sessions
      BY <1>3 DEF DeleteStop
    <3>2. CASE i = req[r].inst
      BY <3>1, <3>2 DEF HasOwner, IInv, TypeOK
    <3>3. CASE i # req[r].inst
      <4>1. status'[i] = status[i]
        BY <3>1, <3>3 DEF IInv, TypeOK
      <4> QED BY <1>1, <3>1, <3>3, <4>1, OwnerKept DEF AloneInv
    <3> QED BY <3>2, <3>3
  <2> QED BY <1>2, <2>1 DEF AloneInv
<1>4. ASSUME NEW id \in Ids, DeleteRemove(r, id) PROVE AloneInv'
  <2>1. /\ req[r].pc = "idle" /\ sessions' = [sessions EXCEPT ![id] = NoInst]
        /\ q.inst = sessions[id] /\ UNCHANGED status
    BY <1>4 DEF DeleteRemove, IInv, TypeOK, Task
  <2>2. req[r].inst \notin Instances
    BY <2>1, SessionsAssumption DEF IInv, HolderInv
  <2>3. ASSUME NEW i \in Instances PROVE HasOwner(i)'
    <3>1. waiter[i] # "none" /\ sessions[home[i]] = i => sessions'[home[i]] = i \/ q.inst = i
      <4>1. waiter[i] # "none" => home[i] \in Ids
        BY DEF IInv, InstanceInv
      <4> QED BY <2>1, <4>1 DEF IInv, TypeOK
    <3> QED BY <1>1, <2>1, <2>2, <3>1, OwnerKept DEF AloneInv
  <2> QED BY <1>2, <2>3 DEF AloneInv
<1> QED BY <1>3, <1>4

(* The child of an instance and its waiter.                                *)
LEMMA ChildAlone ==
  ASSUME IInv, AloneInv, NEW j \in Instances, Child(j)
  PROVE  AloneInv'
<1>1. UNCHANGED <<sessions, home, req>>
  BY DEF Child, ChildExits, WaitReturns, WaitFails, ReportExit, Waited, Reports
<1>2. GuardInv' /\ CheckedInv' /\ PoolInv'
  BY <1>1 DEF AloneInv, GuardInv, CheckedInv, PoolInv, Standard, Present
<1>3. ASSUME NEW i \in Instances PROVE HasOwner(i)'
  <2>1. waiter'[i] # "none" /\ proc'[i] = "running" => waiter[i] # "none" /\ proc[i] = "running"
    BY DEF Child, ChildExits, WaitReturns, WaitFails, ReportExit, Waited, Reports, IInv, TypeOK
  <2>2. status[i] = "stopped" => status'[i] = "stopped"
    BY DEF Child, ChildExits, WaitReturns, WaitFails, ReportExit, Waited, Reports, IInv,
        InstanceInv, TableInv, TypeOK
  <2>3. Holders(i)' = Holders(i)
    BY <1>1 DEF Holders
  <2> QED BY <1>1, <2>1, <2>2, <2>3 DEF AloneInv, HasOwner
<1> QED BY <1>2, <1>3 DEF AloneInv

LEMMA InitAlone == Init => AloneInv
<1> SUFFICES ASSUME Init PROVE AloneInv
  OBVIOUS
<1>1. \A r \in Reqs : ~(req[r].k > 0) /\ req[r].pc = "idle"
  BY DEF Init, Idle, Task
<1>2. \A i \in Instances : waiter[i] = "none"
  BY DEF Init
<1> QED BY <1>1, <1>2 DEF AloneInv, GuardInv, CheckedInv, PoolInv, HasOwner

LEMMA NextAlone ==
  ASSUME IInv, AloneInv, OneAtATime, OneAtATime', [Next]_vars
  PROVE  AloneInv'
<1>1. ASSUME NEW r \in Reqs, Handler(r) PROVE AloneInv'
  <2>1. PICK q \in Request : /\ req' = [req EXCEPT ![r] = q]
                             /\ \A s \in Reqs \ {r} : req[s].pc = "idle"
    BY <1>1, OthersIdle
  <2>2. q = req'[r] /\ req[r] \in Request
    BY <2>1 DEF IInv, TypeOK
  <2>3. CASE CreateSpawn(r) \/ GuardSpawn(r)
    BY <2>1, <2>2, <2>3, SpawnAlone DEF CreateSpawn, GuardSpawn
  <2>4. CASE CreateInsert(r) \/ GuardInsert(r)
    BY <2>1, <2>2, <2>4, InsertAlone DEF CreateInsert, GuardInsert
  <2>5. CASE DeleteStop(r) \/ \E id \in Ids : DeleteRemove(r, id)
    BY <2>1, <2>2, <2>5, DeleteAlone
  <2>6. CASE \/ \E id \in Ids : CreateCheck(r, id)
            \/ CreateLimit(r) \/ ListReply(r) \/ ListCount(r) \/ GuardCheck(r)
    <3>1. UNCHANGED <<sessions, home, status, proc, waiter>> /\ req[r].pc \notin {"insert", "stop"}
      BY <2>6 DEF CreateCheck, CreateLimit, ListReply, ListCount, GuardCheck
    <3>2. ASSUME \/ \E id \in Ids : CreateCheck(r, id)
                 \/ CreateLimit(r) \/ ListReply(r)
          PROVE  ~(q.k > 0) /\ (q.pc \in {"limit", "spawn", "insert"} => ~Present(q.id))
      <4>1. req[r].pc = "limit" => ~Present(req[r].id)
        BY DEF AloneInv, CheckedInv
      <4>2. \/ q = Idle
            \/ q = Task("list", NoId, NoInst, 0)
            \/ \E id \in Ids : q = Task("limit", id, NoInst, 0) /\ ~Present(id)
            \/ q = Task("spawn", req[r].id, NoInst, 0) /\ req[r].pc = "limit"
        BY <2>2, <3>2 DEF CreateCheck, CreateLimit, ListReply, IInv, TypeOK
      <4> QED BY <4>1, <4>2 DEF Idle, Task
    <3>3. ASSUME ListCount(r)
          PROVE  q.k > 0 => q.pc = "guard" /\ \A id \in Ids : ~Present(id)
      BY <2>2, <3>3 DEF ListCount, IInv, TypeOK, Task
    <3>4. ASSUME ListCount(r)
          PROVE  q.pc \in {"list", "guard"}
      BY <2>2, <3>4 DEF ListCount, IInv, TypeOK, Task
    <3>5. ASSUME GuardCheck(r)
          PROVE  /\ q.k > 0 => /\ q.pc \in {"guard", "spawn"}
                               /\ q.pc = "spawn" => q.id \in Standard
                               /\ \A id \in Ids : Present(id) => id \in Standard
                 /\ q.pc \in {"limit", "spawn", "insert"} => ~Present(q.id)
      <4>1. req[r].pc = "guard" /\ req[r].k > 0 /\ req[r].k \in 1 .. Len(GuardSeq)
        BY <2>2, <3>5, LenGuardSeq DEF GuardCheck, IInv, HolderInv, Request
      <4>2. /\ \A id \in Ids : Present(id) => id \in Standard
            /\ GuardSeq[req[r].k] \in Standard
        BY <4>1 DEF AloneInv, PoolInv, Standard
      <4>3. \/ q = AfterSpawn(req[r])
            \/ /\ q = Task("spawn", GuardSeq[req[r].k], NoInst, req[r].k)
               /\ ~Present(GuardSeq[req[r].k])
        BY <2>2, <3>5 DEF GuardCheck, IInv, TypeOK
      <4>4. /\ AfterSpawn(req[r]).pc \in {"idle", "guard", "list"}
            /\ AfterSpawn(req[r]).k > 0 => AfterSpawn(req[r]).pc = "guard"
        BY <2>2, AfterSpawnType, AfterSpawnQuiet
      <4> QED BY <4>2, <4>3, <4>4 DEF Task
    <3> QED BY <2>1, <2>6, <3>1, <3>2, <3>3, <3>4, <3>5, MovesAlone
  <2> QED BY <1>1, <2>3, <2>4, <2>5, <2>6 DEF Handler
<1>2. ASSUME NEW i \in Instances, Child(i) PROVE AloneInv'
  BY <1>2, ChildAlone
<1>3. CASE UNCHANGED vars
  BY <1>3 DEF vars, AloneInv, GuardInv, CheckedInv, PoolInv, Standard, Present, HasOwner,
      Holders
<1> QED BY <1>1, <1>2, <1>3 DEF Next

(* As long as requests come one at a time no session gets lost: a child    *)
(* that was inserted and still runs is in the table under its id, or in    *)
(* the hands of the delete that took it out, or stopped by it.             *)
THEOREM NobodyGetsLost == Spec => OneOwner
<1> DEFINE Owned == \A i \in Instances : HasOwner(i)
<1>1. IInv /\ AloneInv /\ OneAtATime /\ OneAtATime' /\ [Next]_vars => AloneInv'
  BY NextAlone
<1>2. AloneInv => Owned
  BY DEF AloneInv
<1> HIDE DEF Owned
<1>3. Spec => ([]OneAtATime => []Owned)
  BY <1>1, <1>2, InitAlone, Invariance, PTL DEF Spec
<1> QED BY <1>3 DEF OneOwner, Owned

(* As long as requests come one at a time ensure_minimum_sessions tops up  *)
(* an empty pool only.                                                     *)
THEOREM GuardKeepsOut == Spec => GuardFillsEmptyPool
<1> DEFINE Only == \A r \in Reqs : StandardOnly(r)
<1>1. IInv /\ AloneInv /\ OneAtATime /\ OneAtATime' /\ [Next]_vars => AloneInv'
  BY NextAlone
<1>2. AloneInv => Only
  BY DEF AloneInv, PoolInv, StandardOnly, Standard
<1> HIDE DEF Only
<1>3. Spec => ([]OneAtATime => []Only)
  BY <1>1, <1>2, InitAlone, Invariance, PTL DEF Spec
<1> QED BY <1>3 DEF GuardFillsEmptyPool, Only

=============================================================================
