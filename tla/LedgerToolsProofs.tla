--------------------------- MODULE LedgerToolsProofs ---------------------------
(***************************************************************************)
(* Proofs about LedgerTools, for any agents, plans, tasks and owners.      *)
(***************************************************************************)
EXTENDS LedgerTools, TLAPS

(* THE DISPATCHER *)

(* Whom a run has dealt with it does not look at again, and what was sent  *)
(* within its cooldown is in the file or will be: unless it was lost.      *)
SentInv ==
  /\ got \in BOOLEAN /\ again \in BOOLEAN /\ lost \in BOOLEAN
  /\ todo \subseteq Agents /\ now \cap todo = {}
  /\ pc \in {"sleep", "patrol"} => now = {}
  /\ pc \in {"text", "submit"} => at \in Agents /\ at \notin state \cup now \cup todo
  /\ pc \in {"loop", "text", "submit", "alertText", "alertSubmit"} => "alert" \notin now
  /\ pc \in {"alertText", "alertSubmit"} => "alert" \notin state
  /\ pc = "idle" => now \subseteq state
  /\ got /\ ~lost => watched \in state \cup now
  /\ again => got /\ lost

LEMMA SentInit == D!Init => SentInv
BY DEF D!Init, SentInv

(* What is delivered was in its cooldown neither in the file nor in this   *)
(* run: if it was delivered before, that was lost.                         *)
LEMMA DeliveredSentInv ==
  ASSUME SentInv, NEW k, D!Delivered(k), k \notin state \cup now,
         UNCHANGED <<state, watched>>
  PROVE  /\ got' \in BOOLEAN /\ again' \in BOOLEAN /\ lost' \in BOOLEAN
         /\ got' /\ ~lost' => watched' \in state' \cup now'
         /\ again' => got' /\ lost'
<1>1. /\ got' \in BOOLEAN /\ (got' <=> got \/ k = watched)
      /\ again' \in BOOLEAN /\ (again' <=> again \/ (got /\ k = watched))
      /\ now' = now \cup {k} /\ lost' \in BOOLEAN /\ (lost => lost')
  BY DEF D!Delivered, SentInv
<1>2. got /\ k = watched => lost
  BY DEF SentInv
<1> QED BY <1>1, <1>2 DEF SentInv

LEMMA FailsSentInv ==
  ASSUME SentInv, pc' = "patrol", D!Over, UNCHANGED <<watched, got, again>>,
         \/ UNCHANGED state /\ lost' = (lost \/ watched \in now)
         \/ state' = {} /\ lost' = got
         \/ UNCHANGED <<state, lost>> /\ now \subseteq state
  PROVE  SentInv'
<1>1. lost' \in BOOLEAN /\ now' = {} /\ todo' = {}
  BY DEF SentInv, D!Over
<1>2. CASE UNCHANGED state /\ lost' = (lost \/ watched \in now)
  BY <1>1, <1>2 DEF SentInv
<1>3. CASE state' = {} /\ lost' = got
  BY <1>1, <1>3 DEF SentInv
<1>4. CASE UNCHANGED <<state, lost>> /\ now \subseteq state
  BY <1>1, <1>4 DEF SentInv
<1> QED BY <1>2, <1>3, <1>4

LEMMA DispatcherStep ==
  ASSUME SentInv, D!Next
  PROVE  SentInv'
<1> USE DEF D!run, D!files, D!ghosts, D!fleet
<1>1. ASSUME UNCHANGED <<now, state, watched, got, again, lost>>, todo' \subseteq todo,
             \/ UNCHANGED <<pc, at>>
             \/ pc' = "save"
             \/ pc' \in {"sleep", "patrol"} /\ now = {}
      PROVE  SentInv'
  BY <1>1 DEF SentInv
<1>2. CASE D!Begin
  <2>1. CASE off
    BY <1>1, <1>2, <2>1 DEF D!Begin, SentInv
  <2>2. CASE ~off
    <3>1. now = {} /\ pc' = "loop" /\ todo' \subseteq Agents
      BY <1>2, <2>2 DEF D!Begin, SentInv
    <3> QED BY <1>2, <2>2, <3>1 DEF D!Begin, SentInv
  <2> QED BY <2>1, <2>2
<1>3. ASSUME NEW a \in Agents, D!PassOver(a) PROVE SentInv'
  <2>1. UNCHANGED <<pc, at, now, state, watched, got, again, lost>> /\ todo' \subseteq todo
    BY <1>3 DEF D!PassOver, D!Looking
  <2> QED BY <1>1, <2>1
<1>4. ASSUME NEW a \in Agents, D!Dispatch(a) PROVE SentInv'
  <2>1. /\ pc = "loop" /\ a \in todo /\ a \notin state /\ pc' = "text" /\ at' = a
        /\ todo' = todo \ {a} /\ UNCHANGED <<now, state, watched, got, again, lost>>
    BY <1>4 DEF D!Dispatch, D!Looking, D!ShouldDispatch
  <2> QED BY <2>1 DEF SentInv
<1>5. CASE D!Text
  BY <1>5 DEF D!Text, SentInv
<1>6. CASE D!Submit
  <2>1. /\ pc = "submit" /\ pc' = "loop" /\ D!Delivered(at)
        /\ UNCHANGED <<todo, state, watched>>
    BY <1>6 DEF D!Submit
  <2>2. at \in Agents /\ at \notin state \cup now \cup todo /\ "alert" \notin now
    BY <2>1 DEF SentInv
  <2>3. now' = now \cup {at} /\ "alert" \notin now'
    BY <2>1, <2>2, LedgerToolsAssumption DEF D!Delivered, D!LoopAssumption
  <2> QED BY <2>1, <2>2, <2>3, DeliveredSentInv DEF SentInv
<1>7. CASE D!AlertSent
  <2>1. /\ pc = "alertSubmit" /\ pc' = "save" /\ D!Delivered("alert")
        /\ UNCHANGED <<todo, state, watched>>
    BY <1>7 DEF D!AlertSent
  <2>2. "alert" \notin state \cup now /\ "alert" \notin todo
    BY <2>1, LedgerToolsAssumption DEF SentInv, D!LoopAssumption
  <2>3. now' = now \cup {"alert"}
    BY <2>1 DEF D!Delivered
  <2> QED BY <2>1, <2>2, <2>3, DeliveredSentInv DEF SentInv
<1>8. CASE D!RunFails \/ D!Gone
  BY <1>8, FailsSentInv DEF D!RunFails, D!Gone
<1>9. CASE D!SaveTorn
  BY <1>9, FailsSentInv DEF D!SaveTorn
<1>10. CASE D!SaveIdle
  <2>1. now \subseteq state
    BY <1>10 DEF D!SaveIdle, SentInv
  <2> QED BY <1>10, <2>1, FailsSentInv DEF D!SaveIdle
<1>18. CASE D!IdleTorn
  <2>1. now \subseteq state
    BY <1>18 DEF D!IdleTorn, SentInv
  <2> QED BY <1>18, <2>1, FailsSentInv DEF D!IdleTorn
<1>11. CASE D!NoAlert
  BY <1>1, <1>11 DEF D!NoAlert
<1>12. CASE D!AlertManager
  <2>1. /\ pc = "loop" /\ pc' = "alertText" /\ "alert" \notin state
        /\ UNCHANGED <<todo, now, state, watched, got, again, lost>>
    BY <1>12 DEF D!AlertManager, D!AlertDue
  <2> QED BY <2>1 DEF SentInv
<1>13. CASE D!SaveState
  <2>1. /\ pc = "save" /\ pc' = "idle" /\ state' = state \cup now
        /\ UNCHANGED <<todo, now, watched, got, again, lost>>
    BY <1>13 DEF D!SaveState, D!Saved
  <2> QED BY <2>1 DEF SentInv
<1>14. CASE D!Patrol \/ D!PatrolFails
  BY <1>1, <1>14 DEF D!Patrol, D!PatrolFails, SentInv
<1>15. ASSUME NEW K, D!CooldownPasses(K) PROVE SentInv'
  <2>1. /\ pc = "sleep" /\ state' = state \ K /\ UNCHANGED <<pc, todo, now, watched>>
        /\ \/ got' = FALSE /\ again' = FALSE /\ lost' = FALSE
           \/ UNCHANGED <<got, again, lost>> /\ (lost \/ watched \notin K)
    BY <1>15 DEF D!CooldownPasses, SentInv
  <2>2. CASE got' = FALSE /\ again' = FALSE /\ lost' = FALSE
    BY <2>1, <2>2 DEF SentInv
  <2>3. CASE UNCHANGED <<got, again, lost>> /\ (lost \/ watched \notin K)
    BY <2>1, <2>3 DEF SentInv
  <2> QED BY <2>1, <2>2, <2>3
<1>16. CASE D!Time
  BY <1>15, <1>16 DEF D!Time
<1>17. CASE \/ D!FlagChanges \/ \E p \in Shown : D!AgentChanges(p[1], p[2])
            \/ \E t \in Tasks : D!TaskChanges(t)
  <2>1. UNCHANGED <<pc, at, todo, now, state, watched, got, again, lost>>
    BY <1>17 DEF D!FlagChanges, D!AgentChanges, D!TaskChanges
  <2> QED BY <1>1, <2>1
<1> QED BY <1>2, <1>3, <1>4, <1>5, <1>6, <1>7, <1>8, <1>9, <1>10, <1>11, <1>12, <1>13,
           <1>14, <1>16, <1>17, <1>18 DEF D!Next, D!Step

----------------------------------------------------------------------------
(* THE WAKE-UP OF THE CEO *)

(* What ceo was told within the cooldown is what the file says, or what    *)
(* the run that has told it has found: unless a run has not saved that.    *)
ToldInv ==
  /\ woken \in BOOLEAN /\ again \in BOOLEAN /\ lost \in BOOLEAN
  /\ saved = [print |-> saved.print, recent |-> saved.recent]
  /\ pc \in {"off", "decide"} => now = {}
  /\ pc = "ceo" => "ceo" \notin now /\ C!WakeDue
  /\ woken /\ ~lost /\ "ceo" \notin now => saved.print = told /\ "ceo" \in saved.recent
  /\ "ceo" \in now => told = found
  /\ pc \in {"lead", "save"} /\ "ceo" \notin now => ~C!WakeDue
  /\ again => woken /\ lost

LEMMA ToldInit == C!Init => ToldInv
BY DEF C!Init, ToldInv

LEMMA WakeStep ==
  ASSUME ToldInv, C!Next
  PROVE  ToldInv'
<1> USE DEF C!ghosts, C!world
<1>1. ASSUME UNCHANGED <<pc, saved, found, now, told, woken, again, lost>>
      PROVE  ToldInv'
  BY <1>1 DEF ToldInv, C!WakeDue
<1>2. CASE C!Disabled
  <2>1. UNCHANGED <<pc, saved, found, now, told, woken, again, lost>>
    BY <1>2 DEF C!Disabled
  <2> QED BY <1>1, <2>1
<1>3. CASE C!FlagChanges \/ \E p \in Becomes : C!TaskChanges(p[1], p[2])
  <2>1. UNCHANGED <<pc, saved, found, now, told, woken, again, lost>>
    BY <1>3 DEF C!FlagChanges, C!TaskChanges
  <2> QED BY <1>1, <2>1
<1>4. CASE C!Begin
  <2>1. /\ pc = "off" /\ pc' = "decide" /\ now = {}
        /\ UNCHANGED <<now, saved, told, woken, again, lost>>
    BY <1>4 DEF C!Begin, ToldInv
  <2> QED BY <2>1 DEF ToldInv
<1>5. CASE C!Decide
  <2>1. /\ now = {} /\ UNCHANGED <<found, now, saved, told, woken, again, lost>>
        /\ (pc' = "ceo" /\ C!WakeDue) \/ (pc' \in {"lead", "save"} /\ ~C!WakeDue)
    BY <1>5 DEF C!Decide, ToldInv
  <2> QED BY <2>1 DEF ToldInv, C!WakeDue
<1>6. CASE C!TellCeo
  <2>1. /\ pc = "ceo" /\ pc' \in {"lead", "save"} /\ now' = now \cup {"ceo"} /\ told' = found
        /\ woken' = TRUE /\ again' \in BOOLEAN /\ (again' <=> again \/ (woken /\ told = found))
        /\ lost' \in BOOLEAN /\ (lost => lost') /\ UNCHANGED <<found, saved>>
    BY <1>6 DEF C!TellCeo, ToldInv
  <2>2. woken /\ told = found => lost
    BY <2>1 DEF ToldInv, C!WakeDue
  <2> QED BY <2>1, <2>2 DEF ToldInv
<1>7. CASE C!TellLead
  <2>1. /\ pc = "lead" /\ pc' = "save" /\ now' = now \cup {"lead"}
        /\ UNCHANGED <<found, saved, told, woken, again, lost>>
    BY <1>7 DEF C!TellLead
  <2> QED BY <2>1 DEF ToldInv, C!WakeDue
<1>8. CASE C!Save
  <2>1. /\ pc = "save" /\ pc' = "off" /\ now' = {}
        /\ saved' = [print |-> found, recent |-> saved.recent \cup now]
        /\ UNCHANGED <<told, woken, again, lost>>
    BY <1>8 DEF C!Save
  <2>2. woken /\ ~lost => found = told /\ "ceo" \in saved.recent \cup now
    BY <2>1 DEF ToldInv, C!WakeDue
  <2> QED BY <2>1, <2>2 DEF ToldInv
<1>9. CASE C!SaveTorn
  <2>1. /\ pc' = "off" /\ now' = {} /\ saved' = [print |-> C!Nothing, recent |-> {}]
        /\ lost' = TRUE /\ UNCHANGED <<told, woken, again>>
    BY <1>9 DEF C!SaveTorn
  <2> QED BY <2>1 DEF ToldInv
<1>10. CASE C!Fail
  <2>1. /\ pc' = "off" /\ now' = {} /\ lost' \in BOOLEAN /\ (lost' <=> lost \/ "ceo" \in now)
        /\ UNCHANGED <<saved, told, woken, again>>
    BY <1>10 DEF C!Fail, ToldInv
  <2> QED BY <2>1 DEF ToldInv
<1>11. CASE C!EscalationCools
  <2>1. /\ pc = "off" /\ saved' = [saved EXCEPT !.recent = saved.recent \ {"lead"}]
        /\ UNCHANGED <<pc, found, now, told, woken, again, lost>>
    BY <1>11 DEF C!EscalationCools
  <2>2. saved' = [print |-> saved.print, recent |-> saved.recent \ {"lead"}]
    BY <2>1 DEF ToldInv
  <2> QED BY <2>1, <2>2 DEF ToldInv
<1>12. CASE C!WakeCools
  <2>1. /\ pc = "off" /\ saved' = [saved EXCEPT !.recent = {}]
        /\ \/ woken' = FALSE /\ again' = FALSE /\ lost' = FALSE
           \/ UNCHANGED <<woken, again, lost>> /\ lost
        /\ UNCHANGED <<pc, found, now, told>>
    BY <1>12 DEF C!WakeCools
  <2>2. saved' = [print |-> saved.print, recent |-> {}]
    BY <2>1 DEF ToldInv
  <2>3. now' = {} /\ pc' = "off"
    BY <2>1 DEF ToldInv
  <2>4. CASE woken' = FALSE /\ again' = FALSE /\ lost' = FALSE
    BY <2>2, <2>3, <2>4 DEF ToldInv
  <2>5. CASE UNCHANGED <<woken, again, lost>> /\ lost
    BY <2>2, <2>3, <2>5 DEF ToldInv
  <2> QED BY <2>1, <2>4, <2>5
<1> QED BY <1>2, <1>3, <1>4, <1>5, <1>6, <1>7, <1>8, <1>9, <1>10, <1>11, <1>12
        DEF C!Next, C!Step, C!Time

----------------------------------------------------------------------------
(* THE OPS LOOP *)

LEMMA OpsInit == O!Init => O!ProtectedUntouched
BY LedgerToolsAssumption DEF O!Init, O!ProtectedUntouched, O!OpsAssumption

LEMMA OpsStep ==
  ASSUME O!ProtectedUntouched, O!Next
  PROVE  O!ProtectedUntouched'
<1> USE DEF O!ProtectedUntouched, O!world, O!ghosts
<1>1. Lead \notin Protected
  BY LedgerToolsAssumption DEF O!OpsAssumption
<1>2. CASE O!Scan \/ O!Text \/ O!Save \/ O!Start
  BY <1>2 DEF O!Scan, O!Text, O!Save, O!Start
<1>3. CASE O!Die \/ O!Refused
  BY <1>1, <1>3 DEF O!Die, O!Refused
<1>4. CASE O!Submit
  BY <1>1, <1>4 DEF O!Submit
<1>5. CASE \E i \in O!Issues : O!Escalate(i) \/ O!Skip(i) \/ O!Dispatch(i)
  BY <1>5 DEF O!Escalate, O!Skip, O!Dispatch
<1>6. CASE \E p \in Turns : O!SessionChanges(p[1], p[2])
  BY <1>6 DEF O!SessionChanges
<1>7. CASE \E i \in Items : O!ItemChanges(i)
  BY <1>7 DEF O!ItemChanges
<1> QED BY <1>2, <1>3, <1>4, <1>5, <1>6, <1>7 DEF O!Next, O!Tick

----------------------------------------------------------------------------
(* TYPES *)

(* What SentInv says of the rest of the state, it keeps (DispatcherStep).  *)
LEMMA DispatcherTypes ==
  ASSUME SentInv, D!TypeOK, D!Next
  PROVE  D!TypeOK'
<1>s. /\ got' \in BOOLEAN /\ again' \in BOOLEAN /\ lost' \in BOOLEAN /\ todo' \subseteq Agents
      /\ pc' \in {"text", "submit"} => at' \in Agents \ now'
  BY DispatcherStep DEF SentInv
<1>c. /\ Lead \in Agents /\ Agents \subseteq D!Keys /\ "alert" \in D!Keys
      /\ D!Unseen \in [Agents -> D!Looks]
      /\ \A p \in Shown : p[1] \in Agents /\ p[2] \in D!Looks
  BY LedgerToolsAssumption DEF D!LoopAssumption, D!Keys, D!Unseen, D!Looks
<1> USE DEF D!run, D!files, D!ghosts, D!fleet, D!TypeOK, D!Over
<1>1. CASE D!Begin
  BY <1>1, <1>s, <1>c DEF D!Begin
<1>2. ASSUME NEW a \in Agents, D!PassOver(a) \/ D!Dispatch(a) PROVE D!TypeOK'
  BY <1>2, <1>s, <1>c DEF D!PassOver, D!Dispatch, D!Looking
<1>3. CASE D!Text
  BY <1>3, <1>s DEF D!Text
<1>4. CASE D!Submit
  BY <1>4, <1>s, <1>c DEF D!Submit, D!Delivered
<1>5. CASE D!RunFails \/ D!Gone
  BY <1>5, <1>s, <1>c DEF D!RunFails, D!Gone
<1>6. CASE D!NoAlert
  BY <1>6, <1>s DEF D!NoAlert
<1>7. CASE D!AlertManager
  <2>1. looks' \in [Agents -> D!Looks]
    BY <1>7, <1>c DEF D!AlertManager, D!Looks
  <2> QED BY <1>7, <1>s, <1>c, <2>1 DEF D!AlertManager
<1>8. CASE D!AlertSent
  BY <1>8, <1>s, <1>c DEF D!AlertSent, D!Delivered
<1>9. CASE D!SaveState
  BY <1>9, <1>s DEF D!SaveState, D!Saved
<1>10. CASE D!SaveTorn
  BY <1>10, <1>s, <1>c DEF D!SaveTorn
<1>11. CASE D!SaveIdle
  BY <1>11, <1>s, <1>c DEF D!SaveIdle, D!IdleLedger
<1>12. CASE D!Patrol \/ D!PatrolFails
  BY <1>12, <1>s DEF D!Patrol, D!PatrolFails
<1>13. ASSUME NEW K, D!CooldownPasses(K) PROVE D!TypeOK'
  BY <1>13, <1>s DEF D!CooldownPasses
<1>14. CASE D!FlagChanges
  BY <1>14, <1>s DEF D!FlagChanges
<1>17. CASE D!IdleTorn
  BY <1>17, <1>s, <1>c DEF D!IdleTorn
<1>15. ASSUME NEW p \in Shown, D!AgentChanges(p[1], p[2]) PROVE D!TypeOK'
  <2>1. looks' \in [Agents -> D!Looks]
    BY <1>15, <1>c DEF D!AgentChanges
  <2> QED BY <1>15, <1>s, <2>1 DEF D!AgentChanges
<1>16. ASSUME NEW t \in Tasks, D!TaskChanges(t) PROVE D!TypeOK'
  BY <1>16, <1>s DEF D!TaskChanges
<1> QED BY <1>1, <1>2, <1>3, <1>4, <1>5, <1>6, <1>7, <1>8, <1>9, <1>10, <1>11, <1>12, <1>13, <1>14,
           <1>15, <1>16, <1>17 DEF D!Next, D!Step, D!Time

(* What a run finds is one of the situations.                              *)
LEMMA FoundType ==
  ASSUME task \in [Items -> C!Conditions]
  PROVE  C!Found \in C!Situations
<1>1. C!Open \subseteq Items
  BY DEF C!Open
<1>2. \A t \in Items : C!Standing(t) \in {"fresh", "none"} \cup C!AtRisk
  BY DEF C!Standing, C!AtRisk
<1>3. [t \in Items |-> C!Standing(t)] \in [Items -> {"fresh", "none"} \cup C!AtRisk]
  BY <1>2
<1> QED BY <1>1, <1>3 DEF C!Found, C!Situations

LEMMA WakeTypes ==
  ASSUME C!TypeOK, C!Next
  PROVE  C!TypeOK'
<1>c. /\ C!Nothing \in C!Situations
      /\ \A p \in Becomes : p[1] \in Items /\ p[2] \in C!Conditions
  BY LedgerToolsAssumption DEF C!WakeAssumption, C!Situations
<1>f. C!Found \in C!Situations
  BY FoundType DEF C!TypeOK
<1>r. /\ saved.print \in C!Situations /\ saved.recent \subseteq {"ceo", "lead"}
      /\ \A R \in SUBSET {"ceo", "lead"} : [saved EXCEPT !.recent = R]
            \in [print : C!Situations, recent : SUBSET {"ceo", "lead"}]
  BY DEF C!TypeOK
<1> DEFINE Files == [print : C!Situations, recent : SUBSET {"ceo", "lead"}]
<1>k. ASSUME saved' \in Files, found' \in C!Situations, pc' \in {pc, "off"},
             now' \in {now, {}}, {woken', again', lost'} \subseteq {woken, again, lost, FALSE, TRUE},
             UNCHANGED <<task, off, latest, told>>
      PROVE  C!TypeOK'
  BY <1>k DEF C!TypeOK
<1> USE DEF C!world, C!ghosts
<1>1. CASE C!Disabled \/ C!FlagChanges \/ C!Decide \/ C!TellLead
  BY <1>1 DEF C!Disabled, C!FlagChanges, C!Decide, C!TellLead, C!TypeOK
<1>2. CASE C!Begin
  BY <1>2, <1>f DEF C!Begin, C!TypeOK
<1>3. CASE C!Fail
  BY <1>3, <1>c DEF C!Fail, C!TypeOK
<1>4. CASE C!TellCeo
  BY <1>4 DEF C!TellCeo, C!TypeOK
<1>5. CASE C!Save \/ C!SaveTorn
  <2>1. saved' \in Files
    <3>1. PICK s \in C!Situations : \E R \in SUBSET {"ceo", "lead"} :
            saved' = [print |-> s, recent |-> R]
      <4>1. found \in C!Situations /\ saved.recent \cup now \in SUBSET {"ceo", "lead"}
        BY <1>r DEF C!TypeOK
      <4> QED BY <1>5, <1>c, <4>1 DEF C!Save, C!SaveTorn
    <3> QED BY <3>1
  <2> HIDE DEF Files
  <2>2. /\ pc' = "off" /\ found' = C!Nothing /\ now' = {} /\ lost' \in {lost, TRUE}
        /\ UNCHANGED <<task, off, latest, told, woken, again>>
    BY <1>5 DEF C!Save, C!SaveTorn
  <2> QED BY <1>c, <2>1, <2>2, <1>k
<1>6. CASE C!EscalationCools \/ C!WakeCools
  <2>1. saved' \in Files
    <3>1. PICK R \in SUBSET {"ceo", "lead"} : saved' = [saved EXCEPT !.recent = R]
      BY <1>6, <1>r DEF C!EscalationCools, C!WakeCools
    <3> QED BY <1>r, <3>1
  <2> HIDE DEF Files
  <2>2. /\ {woken', again', lost'} \subseteq {woken, again, lost, FALSE}
        /\ UNCHANGED <<task, off, pc, found, now, latest, told>>
    BY <1>6 DEF C!EscalationCools, C!WakeCools
  <2>3. found' \in C!Situations /\ now' = now /\ pc' = pc
    BY <2>2 DEF C!TypeOK
  <2> QED BY <2>1, <2>2, <2>3, <1>k
<1>7. ASSUME NEW p \in Becomes, C!TaskChanges(p[1], p[2]) PROVE C!TypeOK'
  BY <1>7, <1>c DEF C!TaskChanges, C!TypeOK
<1> QED BY <1>1, <1>2, <1>3, <1>4, <1>5, <1>6, <1>7 DEF C!Next, C!Step, C!Time

LEMMA OpsTypes ==
  ASSUME O!TypeOK, O!Next
  PROVE  O!TypeOK'
<1>c. /\ Lead \in Agents /\ Owner \in [Items -> Agents \cup {O!Nobody}]
      /\ \A p \in Turns : p[1] \in Agents /\ p[2] \in O!Conditions
  BY LedgerToolsAssumption DEF O!OpsAssumption
<1> USE DEF O!world, O!ghosts
<1>1. CASE O!Scan
  <2>1. O!FindIssues \subseteq O!Issues
    BY <1>c DEF O!FindIssues, O!Issues, O!TypeOK
  <2> QED BY <1>1, <2>1 DEF O!Scan, O!TypeOK
<1>2. CASE O!Text \/ O!Save \/ O!Start
  BY <1>2 DEF O!Text, O!Save, O!Start, O!TypeOK
<1>3. CASE O!Submit
  BY <1>3, <1>c DEF O!Submit, O!Dealt, O!TypeOK
<1>4. CASE O!Refused \/ O!Die
  BY <1>4, <1>c DEF O!Refused, O!Die, O!TypeOK
<1>5. ASSUME NEW i \in O!Issues, O!Escalate(i) \/ O!Skip(i) PROVE O!TypeOK'
  BY <1>5 DEF O!Escalate, O!Skip, O!Dealt, O!TypeOK
<1>6. ASSUME NEW i \in O!Issues, O!Dispatch(i) PROVE O!TypeOK'
  <2>1. at' \in Agents
    BY <1>6, <1>c DEF O!Dispatch, O!Targets, O!TypeOK
  <2> QED BY <1>6, <2>1 DEF O!Dispatch, O!TypeOK
<1>7. ASSUME NEW p \in Turns, O!SessionChanges(p[1], p[2]) PROVE O!TypeOK'
  BY <1>7, <1>c DEF O!SessionChanges, O!TypeOK
<1>8. ASSUME NEW i \in Items, O!ItemChanges(i) PROVE O!TypeOK'
  BY <1>8 DEF O!ItemChanges, O!TypeOK
<1> QED BY <1>1, <1>2, <1>3, <1>4, <1>5, <1>6, <1>7, <1>8 DEF O!Next, O!Tick

----------------------------------------------------------------------------
(* THE PROGRAMS *)

IInv ==
  /\ running = "dispatcher" => SentInv
  /\ running = "wake" => ToldInv
  /\ running = "opsloop" => O!ProtectedUntouched

LEMMA InitIInv == Init => IInv
BY SentInit, ToldInit, OpsInit DEF Init, IInv

LEMMA NextIInv == IInv /\ [Next]_vars => IInv'
<1> SUFFICES ASSUME IInv, [Next]_vars PROVE IInv'
  OBVIOUS
<1>1. CASE StillDispatcher /\ D!Next
  BY <1>1, DispatcherStep DEF StillDispatcher, IInv
<1>2. CASE StillWake /\ C!Next
  BY <1>2, WakeStep DEF StillWake, IInv
<1>3. CASE StillOpsLoop /\ O!Next
  BY <1>3, OpsStep DEF StillOpsLoop, IInv
<1>4. CASE UNCHANGED vars
  BY <1>4 DEF vars, both, ofDispatcher, ofWake, ofOpsLoop, IInv, SentInv, ToldInv, C!WakeDue,
     O!ProtectedUntouched
<1> QED BY <1>1, <1>2, <1>3, <1>4 DEF Next

LEMMA InitTypes == Init => TypeOK
<1>1. D!Init => D!TypeOK
  BY LedgerToolsAssumption DEF D!Init, D!TypeOK, D!LoopAssumption, D!Keys, D!Unseen, D!Looks
<1>2. C!Init => C!TypeOK
  <2> SUFFICES ASSUME C!Init PROVE C!TypeOK
    OBVIOUS
  <2>1. C!Nothing \in C!Situations
    BY DEF C!Situations
  <2>2. task \in [Items -> C!Conditions]
    BY DEF C!Init, C!Conditions
  <2>3. saved \in [print : C!Situations, recent : SUBSET {"ceo", "lead"}]
    <3>1. saved = [print |-> C!Nothing, recent |-> {}]
      BY DEF C!Init
    <3> QED BY <2>1, <3>1
  <2> QED BY <2>1, <2>2, <2>3 DEF C!Init, C!TypeOK
<1>3. O!Init => O!TypeOK
  BY LedgerToolsAssumption DEF O!Init, O!TypeOK, O!OpsAssumption, O!Conditions
<1> QED BY <1>1, <1>2, <1>3 DEF Init, TypeOK

LEMMA NextTypes == IInv /\ TypeOK /\ [Next]_vars => TypeOK'
<1> SUFFICES ASSUME IInv, TypeOK, [Next]_vars PROVE TypeOK'
  OBVIOUS
<1>1. CASE StillDispatcher /\ D!Next
  BY <1>1, DispatcherTypes DEF StillDispatcher, IInv, TypeOK
<1>2. CASE StillWake /\ C!Next
  BY <1>2, WakeTypes DEF StillWake, TypeOK
<1>3. CASE StillOpsLoop /\ O!Next
  BY <1>3, OpsTypes DEF StillOpsLoop, TypeOK
<1>4. CASE UNCHANGED vars
  <2> USE <1>4 DEF vars, both, ofDispatcher, ofWake, ofOpsLoop
  <2>1. D!TypeOK => D!TypeOK'
    BY DEF D!TypeOK
  <2>2. C!TypeOK => C!TypeOK'
    BY DEF C!TypeOK
  <2>3. O!TypeOK => O!TypeOK'
    BY DEF O!TypeOK
  <2> QED BY <2>1, <2>2, <2>3 DEF TypeOK
<1> QED BY <1>1, <1>2, <1>3, <1>4 DEF Next

(* What the dispatcher, the patrol, the wake-up and the ops loop keep in   *)
(* memory and in their files is of the kind that they read back, and the   *)
(* agent that a task is typed to has not been dealt with in this run.      *)
THEOREM TypeCorrect == Spec => []TypeOK
BY InitIInv, NextIInv, InitTypes, NextTypes, PTL DEF Spec

(* The dispatcher, ceo-wake-tick and the ops loop: nobody is sent a task,  *)
(* an alert or the same news twice within the cooldown unless a run failed *)
(* after it had sent it, and developer-7 is never written to.              *)
THEOREM NothingUndue == Spec => []NoUndueWrites
<1>1. IInv => NoUndueWrites
  BY DEF IInv, SentInv, ToldInv, NoUndueWrites, D!PromptsSpaced, C!WakesSpaced
<1> QED BY <1>1, InitIInv, NextIInv, PTL DEF Spec
=============================================================================
