---------------------------- MODULE RunnerRegistry ----------------------------
(***************************************************************************)
(* The registry of the OS agents (os_agent_runner.rs).  Each agent has a   *)
(* runner process, which records the agent as active when it starts and as *)
(* exited when its child has ended.  The registry is one file for all of   *)
(* them: a runner takes a lock file, reads the registry, puts its record   *)
(* in and renames a new file over the old one.  A lock file that is older  *)
(* than 30 s counts as stale, and whoever waits for it removes it.         *)
(*                                                                         *)
(* Two things do not go by these rules.  A registry that cannot be read or *)
(* parsed counts as empty, so that the write after it drops the others.    *)
(* And the script that starts an agent (start-9003-attach-poc.ps1) records *)
(* it as active in the same file without the lock.                         *)
(***************************************************************************)
EXTENDS Naturals

CONSTANTS
  Runners,     \* one per agent id
  Scripted,    \* those that the script starts
  NoRecord,
  NoLock,
  NoScript,
  StaleAfter,  \* failed attempts after which the age of the lock is looked at
  MaxTries,    \* attempts after which a runner gives up
  Mishaps      \* what may go wrong: "crash", "open", "pid", "read", "write", "slow"

ASSUME RegistryAssumption ==
  /\ StaleAfter \in Nat /\ MaxTries \in Nat /\ StaleAfter < MaxTries
  /\ Mishaps \subseteq {"crash", "open", "pid", "read", "write", "slow"}
  /\ Scripted \subseteq Runners
  /\ NoLock \notin [by : Runners, old : BOOLEAN]
  /\ NoRecord \notin {"active", "exited"}
  /\ NoScript \notin [for : Runners, copy : [Runners -> {NoRecord, "active", "exited"}]]

VARIABLES
  registry,   \* the file: the status recorded for each runner
  lock,       \* the lock file: who created it, and whether it is old
  doing,      \* what each runner is doing
  wants,      \* the status it is recording
  tries,      \* its failed attempts to create the lock file
  seen,       \* the registry as it has read it
  script,     \* the start script: its agent, and the registry as it has read it
  stolen,     \* history: a lock was removed that was in use or not old
  crossed,    \* history, until stolen: the script wrote between a runner's read
              \* and write, or something wrote between its own
  author      \* history, while neither has happened: who wrote the record of
              \* each runner that is in the registry: "own", itself, "script", or
              \* "nobody", for it has been dropped (or never written)

history == <<stolen, crossed, author>>

registryVars == <<registry, lock, doing, wants, tries, seen, script, history>>

Inside == {r \in Runners : doing[r] \in {"locked", "read", "write", "blind", "release", "abort"}}

Records == [Runners -> {NoRecord, "active", "exited"}]

NoCopy == [r \in Runners |-> NoRecord]

RegistryTypeOK ==
  /\ registry \in Records
  /\ lock \in [by : Runners, old : BOOLEAN] \cup {NoLock}
  /\ doing \in [Runners -> {"off", "acquire", "examine", "remove", "locked", "read", "write",
                         "blind", "release", "abort", "running", "ended", "silent"}]
  /\ wants \in [Runners -> {"active", "exited"}]
  /\ tries \in [Runners -> 0 .. MaxTries]
  /\ \A r \in Runners : doing[r] \in {"examine", "remove"} => tries[r] < MaxTries
  /\ seen \in [Runners -> Records]
  /\ script \in [for : Runners, copy : Records] \cup {NoScript}
  /\ stolen \in BOOLEAN /\ crossed \in BOOLEAN
  /\ author \in [Runners -> {"nobody", "own", "script"}]

RegistryInit ==
  /\ registry = NoCopy
  /\ lock = NoLock
  /\ doing = [r \in Runners |-> "off"]
  /\ wants = [r \in Runners |-> "active"]
  /\ tries = [r \in Runners |-> 0]
  /\ seen = [r \in Runners |-> NoCopy]
  /\ script = NoScript
  /\ stolen = FALSE /\ crossed = FALSE
  /\ author = [r \in Runners |-> "nobody"]

----------------------------------------------------------------------------
(* Definitions named _Faulty... are plausible mistakes in the definition   *)
(* after them; no specification uses them.                                 *)

Goto(r, place) == doing' = [doing EXCEPT ![r] = place]

(* Who has written what is remembered while it matters. *)
Note(authors) ==
  author' = IF stolen' \/ crossed' THEN [r \in Runners |-> "nobody"] ELSE authors

(* main, and the waiter once the child has ended: both call                *)
(* upsert_registry.  A runner that is not there, or whose child has ended, *)
(* may be started again.                                                   *)
Start(r) ==
  /\ doing[r] \in {"off", "ended", "silent"}
  /\ Goto(r, "acquire")
  /\ wants' = [wants EXCEPT ![r] = "active"]
  /\ UNCHANGED <<registry, lock, tries, seen, script, history>>

ChildEnds(r) ==
  /\ doing[r] = "running"
  /\ Goto(r, "acquire")
  /\ wants' = [wants EXCEPT ![r] = "exited"]
  /\ UNCHANGED <<registry, lock, tries, seen, script, history>>

(* The lock file is opened, whether or not it is there. *)
TryCreate_FaultyNotNew(r) ==
  /\ doing[r] = "acquire" /\ tries[r] < MaxTries
  /\ lock' = [by |-> r, old |-> FALSE]
  /\ Goto(r, "locked")
  /\ tries' = [tries EXCEPT ![r] = 0]
  /\ UNCHANGED <<registry, wants, seen, script, history>>

(* OpenOptions::create_new: at most one runner creates the file. *)
TryCreate(r) ==
  /\ doing[r] = "acquire" /\ tries[r] < MaxTries
  /\ lock = NoLock
  /\ lock' = [by |-> r, old |-> FALSE]
  /\ Goto(r, "locked")
  /\ tries' = [tries EXCEPT ![r] = 0]
  /\ UNCHANGED <<registry, wants, seen, script, history>>

(* The file is there.  Late enough, its age is asked for; before, and when *)
(* it is not old (or not there any more), the runner sleeps and tries      *)
(* again.                                                                  *)
TryBusy(r) ==
  /\ doing[r] = "acquire" /\ tries[r] < MaxTries
  /\ lock # NoLock
  /\ IF tries[r] >= StaleAfter
     THEN Goto(r, "examine") /\ UNCHANGED tries
     ELSE tries' = [tries EXCEPT ![r] = @ + 1] /\ UNCHANGED doing
  /\ UNCHANGED <<registry, lock, wants, seen, script, history>>

(* A look at the age is not an attempt. *)
Examine_FaultyNoCount(r) ==
  /\ doing[r] = "examine"
  /\ Goto(r, IF lock # NoLock /\ lock.old THEN "remove" ELSE "acquire")
  /\ UNCHANGED <<registry, lock, wants, tries, seen, script, history>>

Examine(r) ==
  /\ doing[r] = "examine"
  /\ IF lock # NoLock /\ lock.old
     THEN Goto(r, "remove") /\ UNCHANGED tries
     ELSE /\ Goto(r, "acquire")
          /\ tries' = [tries EXCEPT ![r] = @ + 1]
  /\ UNCHANGED <<registry, lock, wants, seen, script, history>>

(* remove_file removes whatever lock file is there by now. *)
RemoveStale(r) ==
  /\ doing[r] = "remove"
  /\ stolen' = (stolen \/ (lock # NoLock /\ (~lock.old \/ lock.by \in Inside)))
  /\ crossed' = (~stolen' /\ crossed)
  /\ Note(author)
  /\ lock' = NoLock
  /\ Goto(r, "acquire")
  /\ tries' = [tries EXCEPT ![r] = @ + 1]
  /\ UNCHANGED <<registry, wants, seen, script>>

(* Where an upsert that has failed leads: main returns its error and the   *)
(* process ends; the waiter ignores it.                                    *)
AfterFailure(r) == IF wants[r] = "active" THEN "off" ELSE "silent"

(* After the last attempt, or when the lock file cannot be opened for      *)
(* another reason than being there.                                        *)
GiveUp(r) ==
  /\ doing[r] = "acquire"
  /\ tries[r] = MaxTries \/ "open" \in Mishaps
  /\ Goto(r, AfterFailure(r))
  /\ tries' = [tries EXCEPT ![r] = 0]
  /\ UNCHANGED <<registry, lock, wants, seen, script, history>>

(* The lock is not kept: "let _ = RegistryLock::acquire(...)". *)
WritePid_FaultyDropped(r) ==
  /\ doing[r] = "locked"
  /\ Goto(r, "read")
  /\ lock' = NoLock
  /\ UNCHANGED <<registry, wants, tries, seen, script, history>>

(* The process id is written to the lock file.  When that fails there is   *)
(* no RegistryLock yet to remove the file.                                 *)
WritePid(r) ==
  /\ doing[r] = "locked"
  /\ Goto(r, "read")
  /\ UNCHANGED <<registry, lock, wants, tries, seen, script, history>>

WritePidFails(r) ==
  /\ "pid" \in Mishaps /\ doing[r] = "locked"
  /\ Goto(r, AfterFailure(r))
  /\ UNCHANGED <<registry, lock, wants, tries, seen, script, history>>

ReadRegistry(r) ==
  /\ doing[r] = "read"
  /\ seen' = [seen EXCEPT ![r] = registry]
  /\ Goto(r, "write")
  /\ UNCHANGED <<registry, lock, wants, tries, script, history>>

(* What cannot be read (the script replaces the file just then) or parsed  *)
(* is an empty list: unwrap_or_default.  So is a registry with one record  *)
(* that the script has written, as an object and not as a list.            *)
ReadFails(r) ==
  /\ "read" \in Mishaps /\ doing[r] = "read"
  /\ Goto(r, "blind")
  /\ UNCHANGED <<registry, lock, wants, tries, seen, script, history>>

(* Its own record is new; the others stay, unless it could not read them. *)
Written(r) ==
  [q \in Runners |-> IF q = r THEN "own" ELSE IF doing[r] = "blind" THEN "nobody" ELSE author[q]]

(* The records that were read are left out. *)
WriteRegistry_FaultyFresh(r) ==
  /\ doing[r] \in {"write", "blind"}
  /\ registry' = [NoCopy EXCEPT ![r] = wants[r]]
  /\ UNCHANGED <<stolen, crossed>>
  /\ Note(Written(r))
  /\ seen' = [seen EXCEPT ![r] = NoCopy]
  /\ Goto(r, "release")
  /\ UNCHANGED <<lock, wants, tries, script>>

(* write_registry_atomic: a file of its own, renamed over the registry.    *)
WriteRegistry(r) ==
  /\ doing[r] \in {"write", "blind"}
  /\ registry' = [seen[r] EXCEPT ![r] = wants[r]]
  /\ UNCHANGED <<stolen, crossed>>
  /\ Note(Written(r))
  /\ seen' = [seen EXCEPT ![r] = NoCopy]
  /\ Goto(r, "release")
  /\ UNCHANGED <<lock, wants, tries, script>>

WriteRegistryFails(r) ==
  /\ "write" \in Mishaps /\ doing[r] \in {"write", "blind"}
  /\ seen' = [seen EXCEPT ![r] = NoCopy]
  /\ Goto(r, "abort")
  /\ UNCHANGED <<registry, lock, wants, tries, script, history>>

(* RegistryLock::drop removes the file at its path, its own or not. *)
Release(r) ==
  /\ doing[r] \in {"release", "abort"}
  /\ lock' = NoLock
  /\ Goto(r, IF doing[r] = "abort" THEN AfterFailure(r)
             ELSE IF wants[r] = "active" THEN "running" ELSE "ended")
  /\ UNCHANGED <<registry, wants, tries, seen, script, history>>

(* The process is killed: a lock file that it has stays. *)
Die(r) ==
  /\ "crash" \in Mishaps /\ doing[r] # "off"
  /\ Goto(r, "off")
  /\ wants' = [wants EXCEPT ![r] = "active"]
  /\ tries' = [tries EXCEPT ![r] = 0]
  /\ seen' = [seen EXCEPT ![r] = NoCopy]
  /\ UNCHANGED <<registry, lock, script, history>>

(* Upsert-AttachRegistry: Read-Registry, and later Write-Registry of what  *)
(* was read, with the agent as active.  A failure ends the script.         *)
ScriptReads(r) ==
  /\ r \in Scripted /\ script = NoScript
  /\ script' = [for |-> r, copy |-> registry]
  /\ UNCHANGED <<registry, lock, doing, wants, tries, seen, history>>

ScriptWrites ==
  /\ script # NoScript
  /\ registry' = [script.copy EXCEPT ![script.for] = "active"]
  /\ crossed' = (~stolen /\ (crossed \/ registry # script.copy \/ \E r \in Runners : doing[r] = "write"))
  /\ UNCHANGED stolen
  /\ Note([author EXCEPT ![script.for] = "script"])
  /\ script' = NoScript
  /\ UNCHANGED <<lock, doing, wants, tries, seen>>

ScriptFails ==
  /\ script # NoScript
  /\ script' = NoScript
  /\ UNCHANGED <<registry, lock, doing, wants, tries, seen, history>>

(* 30 s go by after the lock file was written.  A runner that is inside    *)
(* needs milliseconds, unless it is suspended.                             *)
LockAges ==
  /\ lock # NoLock /\ ~lock.old
  /\ lock.by \in Inside => "slow" \in Mishaps
  /\ lock' = [lock EXCEPT !.old = TRUE]
  /\ UNCHANGED <<registry, doing, wants, tries, seen, script, history>>

----------------------------------------------------------------------------
Acquire(r) ==
  TryCreate(r) \/ TryBusy(r) \/ Examine(r) \/ RemoveStale(r) \/ GiveUp(r)

Upsert(r) ==
  \/ WritePid(r) \/ WritePidFails(r)
  \/ ReadRegistry(r) \/ ReadFails(r) \/ WriteRegistry(r) \/ WriteRegistryFails(r) \/ Release(r)

RegistryNext ==
  \/ \E r \in Runners : Start(r) \/ ChildEnds(r) \/ Acquire(r) \/ Upsert(r) \/ Die(r)
  \/ (\E r \in Runners : ScriptReads(r)) \/ ScriptWrites \/ ScriptFails
  \/ LockAges

RegistrySpec == RegistryInit /\ [][RegistryNext]_registryVars

(* A runner that has begun to record its status goes on. *)
FairRegistrySpec ==
  RegistrySpec /\ \A r \in Runners : WF_registryVars(Acquire(r) \/ Upsert(r))

----------------------------------------------------------------------------
(* The lock file excludes: whoever is inside has created the file that is  *)
(* there.  It holds through crashes, leaked locks and their takeover,      *)
(* until a takeover removes a lock other than the stale one it has looked  *)
(* at: RegistryLock::acquire checks the age and removes the file in two    *)
(* steps.                                                                  *)
Exclusion ==
  ~stolen => \A r \in Inside : lock # NoLock /\ lock.by = r

(* No record is overwritten with an older one.  While no lock was stolen   *)
(* and the script did not cross another write, a runner that has recorded  *)
(* its status, and does not record another, is in the registry with it,    *)
(* but for two things: a runner that could not read the registry has       *)
(* dropped the record, or the script has made it active again.             *)
RecordKept ==
  ~stolen /\ ~crossed =>
    \A r \in Runners :
      doing[r] \in {"running", "ended"} =>
        registry[r] = CASE author[r] = "nobody" -> NoRecord
                        [] author[r] = "script" -> "active"
                        [] author[r] = "own" -> IF doing[r] = "running" THEN "active" ELSE "exited"

(* The lock is what makes it so: as long as no lock is stolen, and the     *)
(* script, which does not take it, does not cross another write, the       *)
(* registry is the abstract map: each upsert changes one record, but for   *)
(* one that could not read the others, which drops them.                   *)
Map == INSTANCE RegistryMap WITH broken <- stolen \/ crossed

IsAMap == Map!Spec

(* However many wait and whatever happens to the holder, nobody waits for  *)
(* the lock for ever: it is had or given up.                               *)
NobodyWaitsForever ==
  \A r \in Runners : doing[r] = "acquire" ~> doing[r] \notin {"acquire", "examine", "remove"}
=============================================================================
