------------------------------ MODULE Sessions ------------------------------
(***************************************************************************)
(* The life of the terminal sessions of the API server: the table          *)
(* AppState.sessions, the handlers create_session, delete_session and      *)
(* list_sessions (with the P1-C guard ensure_minimum_sessions it runs      *)
(* first), the child processes they spawn, and the waiter thread of each   *)
(* child, which reports the child's exit in the table.                     *)
(*                                                                         *)
(* One step of the model is what a handler does between two points at      *)
(* which another task can run: every `.await` on the table's RwLock or on  *)
(* the file system is such a point.  The table is keyed by session id, so  *)
(* a child that outlives its table entry still shares its id with the next *)
(* session of that name; the model therefore tells an id from the          *)
(* instance (one spawned PTY and child) that carries it.                   *)
(***************************************************************************)
EXTENDS Naturals, Sequences, FiniteSets

CONSTANTS
  Ids,        \* session ids that clients and the guard use
  GuardSeq,   \* P1C_GUARD_SESSIONS: the ids the guard respawns, in order
  Reqs,       \* handler tasks; each serves one request after another
  Instances,  \* spawned PTYs with their child; the bound on spawns
  MaxActive,  \* active_session_limit(); 0 stands for None (no limit)
  NoId, NoInst

ASSUME SessionsAssumption ==
  /\ GuardSeq \in Seq(Ids)
  /\ MaxActive \in Nat
  /\ NoId \notin Ids
  /\ NoInst \notin Instances

VARIABLES
  sessions,   \* AppState.sessions: id -> the instance whose PTY it holds
  home,       \* the id an instance was spawned for
  status,     \* SessionMeta.status; "unbuilt" before the meta exists
  proc,       \* the child process
  waiter,     \* the thread of spawn_pty_waiter and the task it spawns
  req         \* the handler tasks

vars == <<sessions, home, status, proc, waiter, req>>

(* Where a handler task is, the id and the instance it works on, and its   *)
(* position in the guard's list (0 when it serves a client's create).      *)
Task(pc, id, inst, k) == [pc |-> pc, id |-> id, inst |-> inst, k |-> k]

Idle == Task("idle", NoId, NoInst, 0)

Request == [pc   : {"idle", "limit", "guard", "spawn", "insert", "stop", "list"},
            id   : Ids \cup {NoId},
            inst : Instances \cup {NoInst},
            k    : 0 .. Len(GuardSeq)]

TypeOK ==
  /\ sessions \in [Ids -> Instances \cup {NoInst}]
  /\ home \in [Instances -> Ids \cup {NoId}]
  /\ status \in [Instances -> {"unbuilt", "active", "exited", "stopped"}]
  /\ proc \in [Instances -> {"unborn", "running", "exited"}]
  /\ waiter \in [Instances -> {"none", "waiting", "queued", "failed", "done", "unsure"}]
  /\ req \in [Reqs -> Request]

Init ==
  /\ sessions = [id \in Ids |-> NoInst]
  /\ home = [i \in Instances |-> NoId]
  /\ status = [i \in Instances |-> "unbuilt"]
  /\ proc = [i \in Instances |-> "unborn"]
  /\ waiter = [i \in Instances |-> "none"]
  /\ req = [r \in Reqs |-> Idle]

----------------------------------------------------------------------------
(* Definitions whose name ends in _Faulty... are plausible mistakes in the *)
(* definition that follows them.  No specification uses them; each shows   *)
(* that a property below notices the mistake.                              *)

Present(id) == sessions[id] # NoInst

(* active_session_count: it holds the table's read lock while it locks one *)
(* session after another.  In that time a status can only go from active   *)
(* to exited, so the number it returns is the number of active sessions at *)
(* some moment of the count, and one step is a faithful abstraction.       *)
ActiveIds == {id \in Ids : Present(id) /\ status[sessions[id]] = "active"}

LimitReached_FaultyCompare == MaxActive # 0 /\ Cardinality(ActiveIds) > MaxActive

LimitReached == MaxActive # 0 /\ Cardinality(ActiveIds) >= MaxActive

----------------------------------------------------------------------------
(* Without the 409. *)
CreateCheck_FaultyNoConflict(r, id) ==
  /\ req[r].pc = "idle"
  /\ req' = [req EXCEPT ![r] = Task("limit", id, NoInst, 0)]
  /\ UNCHANGED <<sessions, home, status, proc, waiter>>

(* create_session, first half.  A request for an id in the table is        *)
(* answered with 409 and changes nothing.                                  *)
CreateCheck(r, id) ==
  /\ req[r].pc = "idle"
  /\ ~Present(id)
  /\ req' = [req EXCEPT ![r] = Task("limit", id, NoInst, 0)]
  /\ UNCHANGED <<sessions, home, status, proc, waiter>>

CreateLimit(r) ==
  /\ req[r].pc = "limit"
  /\ req' = [req EXCEPT ![r] = IF LimitReached
                               THEN Idle ELSE Task("spawn", req[r].id, NoInst, 0)]
  /\ UNCHANGED <<sessions, home, status, proc, waiter>>

(* What the handler does once its spawn is settled: a create answers, the  *)
(* guard goes on to the next standard session or to the listing.           *)
AfterSpawn(q) ==
  IF q.k = 0 THEN Idle
  ELSE IF q.k < Len(GuardSeq)
       THEN Task("guard", NoId, NoInst, q.k + 1)
       ELSE Task("list", NoId, NoInst, 0)

(* openpty, spawn_command, try_clone_reader and take_writer all succeed.   *)
SpawnChild(r) ==
  /\ req[r].pc = "spawn"
  /\ \E i \in Instances :
       /\ proc[i] = "unborn"
       /\ proc' = [proc EXCEPT ![i] = "running"]
       /\ home' = [home EXCEPT ![i] = req[r].id]
       /\ status' = [status EXCEPT ![i] = "active"]
       /\ req' = [req EXCEPT ![r] = Task("insert", req[r].id, i, req[r].k)]
  /\ UNCHANGED <<sessions, waiter>>

(* create_dir_all, openpty or spawn_command fails: nothing was spawned.    *)
SpawnFails(r) ==
  /\ req[r].pc = "spawn"
  /\ req' = [req EXCEPT ![r] = AfterSpawn(req[r])]
  /\ UNCHANGED <<sessions, home, status, proc, waiter>>

(* try_clone_reader or take_writer fails after spawn_command: the child    *)
(* runs, and no table entry and no waiter will ever know of it.            *)
SpawnLeaks(r) ==
  /\ req[r].pc = "spawn"
  /\ \E i \in Instances :
       /\ proc[i] = "unborn"
       /\ proc' = [proc EXCEPT ![i] = "running"]
       /\ home' = [home EXCEPT ![i] = req[r].id]
  /\ req' = [req EXCEPT ![r] = AfterSpawn(req[r])]
  /\ UNCHANGED <<sessions, status, waiter>>

(* The insert does not look at the entry it replaces.  spawn_pty_waiter    *)
(* follows it without an await in between.                                 *)
InsertSession(r) ==
  /\ req[r].pc = "insert"
  /\ sessions' = [sessions EXCEPT ![req[r].id] = req[r].inst]
  /\ waiter' = [waiter EXCEPT ![req[r].inst] = "waiting"]
  /\ req' = [req EXCEPT ![r] = AfterSpawn(req[r])]
  /\ UNCHANGED <<home, status, proc>>

CreateSpawn(r)  == req[r].k = 0 /\ (SpawnChild(r) \/ SpawnFails(r) \/ SpawnLeaks(r))
CreateInsert(r) == req[r].k = 0 /\ InsertSession(r)

----------------------------------------------------------------------------
(* get instead of remove. *)
DeleteRemove_FaultyKeep(r, id) ==
  /\ req[r].pc = "idle"
  /\ Present(id)
  /\ req' = [req EXCEPT ![r] = Task("stop", NoId, sessions[id], 0)]
  /\ UNCHANGED <<sessions, home, status, proc, waiter>>

(* delete_session.  An id that is not in the table is an OS agent or is    *)
(* answered with 404; neither touches the table.  The write guard is       *)
(* dropped before the session's mutex is taken, hence two steps.           *)
DeleteRemove(r, id) ==
  /\ req[r].pc = "idle"
  /\ Present(id)
  /\ sessions' = [sessions EXCEPT ![id] = NoInst]
  /\ req' = [req EXCEPT ![r] = Task("stop", NoId, sessions[id], 0)]
  /\ UNCHANGED <<home, status, proc, waiter>>

DeleteStop(r) ==
  /\ req[r].pc = "stop"
  /\ status' = [status EXCEPT ![req[r].inst] = "stopped"]
  /\ req' = [req EXCEPT ![r] = Idle]
  /\ UNCHANGED <<sessions, home, proc, waiter>>

----------------------------------------------------------------------------
(* The guard tops up the pool whatever its size. *)
ListCount_FaultyAlways(r) ==
  /\ req[r].pc = "idle"
  /\ req' = [req EXCEPT ![r] = IF GuardSeq = <<>>
                               THEN Task("list", NoId, NoInst, 0)
                               ELSE Task("guard", NoId, NoInst, 1)]
  /\ UNCHANGED <<sessions, home, status, proc, waiter>>

(* list_sessions: ensure_minimum_sessions reads the size of the table and, *)
(* when it was zero, goes through the standard sessions one by one.        *)
ListCount(r) ==
  /\ req[r].pc = "idle"
  /\ req' = [req EXCEPT ![r] =
               IF (\E id \in Ids : Present(id)) \/ GuardSeq = <<>>
               THEN Task("list", NoId, NoInst, 0)
               ELSE Task("guard", NoId, NoInst, 1)]
  /\ UNCHANGED <<sessions, home, status, proc, waiter>>

(* spawn_standard_session, its check.                                      *)
GuardCheck(r) ==
  /\ req[r].pc = "guard"
  /\ req' = [req EXCEPT ![r] =
               IF Present(GuardSeq[req[r].k]) THEN AfterSpawn(req[r])
               ELSE Task("spawn", GuardSeq[req[r].k], NoInst, req[r].k)]
  /\ UNCHANGED <<sessions, home, status, proc, waiter>>

GuardSpawn(r)  == req[r].k > 0 /\ (SpawnChild(r) \/ SpawnFails(r) \/ SpawnLeaks(r))
GuardInsert(r) == req[r].k > 0 /\ InsertSession(r)

(* The listing itself reads the table and answers.                         *)
ListReply(r) ==
  /\ req[r].pc = "list"
  /\ req' = [req EXCEPT ![r] = Idle]
  /\ UNCHANGED <<sessions, home, status, proc, waiter>>

----------------------------------------------------------------------------
(* The child ends by itself, or on the "exit" that delete_session types.   *)
ChildExits(i) ==
  /\ proc[i] = "running"
  /\ proc' = [proc EXCEPT ![i] = "exited"]
  /\ UNCHANGED <<sessions, home, status, waiter, req>>

(* try_wait taken for wait. *)
WaitReturns_FaultyNoWait(i) ==
  /\ waiter[i] = "waiting"
  /\ waiter' = [waiter EXCEPT ![i] = "queued"]
  /\ UNCHANGED <<sessions, home, status, proc, req>>

(* The waiter thread: wait() returns; the status task is handed to the     *)
(* runtime and Exit is broadcast without waiting for that task.            *)
WaitReturns(i) ==
  /\ waiter[i] = "waiting"
  /\ proc[i] = "exited"
  /\ waiter' = [waiter EXCEPT ![i] = "queued"]
  /\ UNCHANGED <<sessions, home, status, proc, req>>

(* wait() returns an error, which is taken for an exit without a code.     *)
WaitFails(i) ==
  /\ waiter[i] = "waiting"
  /\ waiter' = [waiter EXCEPT ![i] = "failed"]
  /\ UNCHANGED <<sessions, home, status, proc, req>>

Waited(i) == waiter[i] \in {"queued", "failed"}
Reports(i) == waiter' = [waiter EXCEPT ![i] = IF @ = "queued" THEN "done" ELSE "unsure"]

(* try_lock, and nothing when a handler has the lock. *)
ReportExit_FaultyTryLock(i) ==
  /\ Waited(i) /\ Reports(i)
  /\ status' = IF Present(home[i]) /\ \A r \in Reqs : req[r].pc = "idle"
               THEN [status EXCEPT ![sessions[home[i]]] = "exited"]
               ELSE status
  /\ UNCHANGED <<sessions, home, proc, req>>

(* The task keeps the session instead of looking it up. *)
ReportExit_FaultyOwnHandle(i) ==
  /\ Waited(i) /\ Reports(i)
  /\ status' = [status EXCEPT ![i] = "exited"]
  /\ UNCHANGED <<sessions, home, proc, req>>

(* The status task looks its session up BY ID.  The read guard of the      *)
(* `if let` scrutinee lives to the end of the block (edition 2021), so no  *)
(* insert or remove comes between the lookup and the update.               *)
ReportExit(i) ==
  /\ Waited(i) /\ Reports(i)
  /\ status' = IF Present(home[i])
               THEN [status EXCEPT ![sessions[home[i]]] = "exited"]
               ELSE status
  /\ UNCHANGED <<sessions, home, proc, req>>

----------------------------------------------------------------------------
Handler(r) ==
  \/ \E id \in Ids : CreateCheck(r, id)
  \/ CreateLimit(r)
  \/ CreateSpawn(r)
  \/ CreateInsert(r)
  \/ \E id \in Ids : DeleteRemove(r, id)
  \/ DeleteStop(r)
  \/ ListCount(r)
  \/ GuardCheck(r)
  \/ GuardSpawn(r)
  \/ GuardInsert(r)
  \/ ListReply(r)

Child(i) == ChildExits(i) \/ WaitReturns(i) \/ WaitFails(i) \/ ReportExit(i)

Next == (\E r \in Reqs : Handler(r)) \/ (\E i \in Instances : Child(i))

Spec == Init /\ [][Next]_vars

(* The waiter is an OS thread and its task runs on the tokio runtime: both *)
(* go on once their input is there.  Nothing is assumed of the clients or  *)
(* of the children.                                                        *)
FairSpec ==
  Spec /\ \A i \in Instances : WF_vars(WaitReturns(i)) /\ WF_vars(ReportExit(i))

----------------------------------------------------------------------------
(* SAFETY *)

(* A session is shown as exited only when some child spawned under its id  *)
(* has exited, or could not be waited for: spawn_pty_waiter reports no     *)
(* death of its own making, whatever creates and deletes of the id came in *)
(* between.  It may be the death of an earlier child of that id, and the   *)
(* session shown as exited may be running: ReportExit finds its session by *)
(* id.                                                                     *)
ExitReportHasCause ==
  \A j \in Instances :
    status[j] = "exited" =>
      \E i \in Instances :
        /\ home[i] = home[j]
        /\ waiter[i] = "unsure" \/ (waiter[i] = "done" /\ proc[i] = "exited")

(* A session in the table whose waiter has finished is not shown as        *)
(* active.  It rests on the order in create_session: the table entry comes *)
(* before spawn_pty_waiter, so the status task of a child that dies at     *)
(* once still finds its entry.                                             *)
NoGhostActive ==
  \A id \in Ids, i \in Instances :
    sessions[id] = i /\ waiter[i] \in {"done", "unsure"} => status[i] # "active"

(* Every instance is in at most one place: under its own id in the table,  *)
(* in the hands of one create or guard that has yet to insert it, or of    *)
(* one delete that has removed it.                                         *)
Holders(i) == {r \in Reqs : req[r].inst = i}

OnePlacePerInstance ==
  \A i \in Instances :
    /\ \A id \in Ids : sessions[id] = i => home[i] = id /\ Holders(i) = {}
    /\ \A r, s \in Holders(i) : r = s

(* Requests come one at a time: no two handlers are at work.               *)
OneAtATime ==
  \A r, s \in Reqs : req[r].pc # "idle" /\ req[s].pc # "idle" => r = s

(* An inserted child that still runs is under its id in the table, or a    *)
(* delete took it out: nobody else loses it.  Holds as long as requests    *)
(* come one at a time; two creates of one id that both pass the check      *)
(* before either inserts break it: the 409 "session already exists" is     *)
(* decided long before the insert, which looks at nothing.                 *)
HasOwner(i) ==
  waiter[i] # "none" /\ proc[i] = "running" =>
    sessions[home[i]] = i \/ status[i] = "stopped" \/ Holders(i) # {}

OneOwner == []OneAtATime => [](\A i \in Instances : HasOwner(i))

(* The guard of list_sessions tops up an empty pool only: when it inserts  *)
(* a standard session the table holds no session but standard ones.  Holds *)
(* as long as requests come one at a time: the guard counts once, before   *)
(* its first spawn.                                                        *)
StandardOnly(r) ==
  req[r].pc = "insert" /\ req[r].k > 0 =>
    \A id \in Ids : Present(id) => \E n \in 1 .. Len(GuardSeq) : GuardSeq[n] = id

GuardFillsEmptyPool == []OneAtATime => [](\A r \in Reqs : StandardOnly(r))

(* How far the active sessions can exceed LCC_MAX_ACTIVE_SESSIONS: each    *)
(* other handler past its own limit check may add one, and the guard,      *)
(* which does not ask for the limit, its whole list.                       *)
LimitOvershootBound ==
  MaxActive # 0 =>
    Cardinality(ActiveIds) <=
      MaxActive + Cardinality(Reqs) - 1
        + (IF GuardSeq = <<>> THEN 0 ELSE Len(GuardSeq) - 1)

(* A step never takes a session out of "stopped": the status task of the   *)
(* waiter cannot overwrite what delete_session wrote.                      *)
StoppedIsFinal ==
  [][\A i \in Instances : status[i] = "stopped" => status'[i] = "stopped"]_vars

(* LIVENESS *)

(* The death of a child is noticed: its entry leaves the table or stops    *)
(* being shown as active.                                                  *)
DeathIsNoticed ==
  \A id \in Ids, i \in Instances :
    (sessions[id] = i /\ proc[i] = "exited")
      ~> (sessions[id] # i \/ status[i] # "active")

=============================================================================
