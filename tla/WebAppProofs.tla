----------------------------- MODULE WebAppProofs -----------------------------
(***************************************************************************)
(* Proofs about WebApp, for any number of composers and of changes.        *)
(***************************************************************************)
EXTENDS WebApp, Integers, TLAPS

(* What a fetch has read of a table is not older than what the page shows, *)
(* for no other fetch lands before it.                                     *)
ReadInv(f, t) ==
  flights[f][t] = P!Unread \/ (shown[t] <= flights[f][t] /\ flights[f][t] <= truth[t])

DataInv ==
  /\ page \in {"shell", "popout"}
  /\ truth \in [P!Tables -> Nat] /\ shown \in [P!Tables -> Nat]
  /\ flights \in [P!Flights -> [P!Tables -> Int]]
  /\ \A t \in P!Tables : shown[t] <= truth[t]
  /\ \A f \in P!Flights : flights[f] # P!NotBegun =>
       ref = f /\ \A t \in P!Fetched : ReadInv(f, t)

IInv == part = "data" => DataInv

LEMMA Constants ==
  /\ P!Unread \in Int /\ P!NotBegun \in [P!Tables -> Int] /\ P!Begun \in [P!Tables -> Int]
  /\ \A t \in P!Tables : P!NotBegun[t] # P!Unread
  /\ \A t \in P!Fetched : P!Begun[t] = P!Unread
  /\ P!NoFlight \notin P!Flights /\ P!Fetched \subseteq P!Tables
BY DEF P!Unread, P!NotBegun, P!Begun, P!Tables, P!Fetched, P!NoFlight, P!Flights

LEMMA InitIInv == Init => IInv
<1> SUFFICES ASSUME P!Init PROVE DataInv
  BY DEF Init, IInv
<1>1. ASSUME flights = [f \in P!Flights |-> IF f = 1 THEN P!Begun ELSE P!NotBegun], ref = 1
      PROVE  DataInv
  <2>1. page \in {"shell", "popout"} /\ truth = [t \in P!Tables |-> 0] /\ shown = truth
    BY DEF P!Init
  <2>2. \A t \in P!Fetched : flights[1][t] = P!Unread
    BY <1>1, Constants DEF P!Flights
  <2> QED BY <1>1, <2>1, <2>2, Constants DEF DataInv, ReadInv
<1>2. ASSUME flights = [f \in P!Flights |-> P!NotBegun]
      PROVE  DataInv
  BY <1>2, Constants DEF P!Init, DataInv
<1> QED BY <1>1, <1>2 DEF P!Init

(* A fetch is begun only if there is none.                                 *)
LEMMA RefreshDataInv ==
  ASSUME DataInv, NEW force, P!Refresh(force), UNCHANGED <<page, truth, shown>>
  PROVE  DataInv'
<1>1. CASE UNCHANGED <<flights, ref>>
  BY <1>1 DEF DataInv, ReadInv, P!Fetched
<1>2. CASE ref = P!NoFlight /\ P!Begin
  <2>1. PICK f \in P!Flights : flights' = [flights EXCEPT ![f] = P!Begun] /\ ref' = f
    BY <1>2 DEF P!Begin
  <2>2. \A g \in P!Flights : flights[g] = P!NotBegun
    BY <1>2, Constants DEF DataInv
  <2>3. P!Fetched' = P!Fetched
    BY DEF P!Fetched
  <2> QED BY <2>1, <2>2, <2>3, Constants DEF DataInv, ReadInv
<1> QED BY <1>1, <1>2 DEF P!Refresh, P!fetching

LEMMA ReadsDataInv ==
  ASSUME DataInv, NEW f \in P!Flights, NEW t \in P!Tables, P!Reads(f, t)
  PROVE  DataInv'
<1>1. /\ flights[f][t] = P!Unread
      /\ flights' = [flights EXCEPT ![f] = [flights[f] EXCEPT ![t] = truth[t]]]
      /\ UNCHANGED <<page, truth, shown, ref>>
  BY DEF P!Reads, P!data
<1>2. flights[f] # P!NotBegun
  BY <1>1, Constants
<1>3. P!Fetched' = P!Fetched
  BY <1>1 DEF P!Fetched
<1>4. ASSUME NEW g \in P!Flights, flights'[g] # P!NotBegun, NEW u \in P!Fetched
      PROVE  ref' = g /\ ReadInv(g, u)'
  BY <1>1, <1>2, <1>4, Constants DEF DataInv, ReadInv
<1>5. ASSUME NEW g \in P!Flights, flights'[g] # P!NotBegun PROVE ref' = g
  BY <1>1, <1>2, <1>5 DEF DataInv
<1>6. flights' \in [P!Flights -> [P!Tables -> Int]]
  BY <1>1 DEF DataInv
<1> QED BY <1>1, <1>3, <1>4, <1>5, <1>6 DEF DataInv

LEMMA LandsDataInv ==
  ASSUME DataInv, NEW f \in P!Flights, P!Lands(f)
  PROVE  DataInv' /\ \A t \in P!Tables : shown'[t] >= shown[t]
<1>1. /\ flights[f] # P!NotBegun /\ \A t \in P!Fetched : flights[f][t] # P!Unread
      /\ shown' = [t \in P!Tables |-> IF t \in P!Fetched THEN flights[f][t] ELSE shown[t]]
      /\ flights' = [flights EXCEPT ![f] = P!NotBegun]
      /\ UNCHANGED <<page, truth>>
  BY DEF P!Lands, P!Over
<1>2. ref = f /\ \A t \in P!Fetched : shown[t] <= flights[f][t] /\ flights[f][t] <= truth[t]
  BY <1>1 DEF DataInv, ReadInv
<1>3. \A t \in P!Tables : shown'[t] \in Nat /\ shown'[t] >= shown[t] /\ shown'[t] <= truth[t]
  BY <1>1, <1>2, Constants DEF DataInv
<1>4. \A g \in P!Flights : flights'[g] = P!NotBegun
  BY <1>1, <1>2 DEF DataInv
<1>5. shown' \in [P!Tables -> Nat] /\ flights' \in [P!Flights -> [P!Tables -> Int]]
  BY <1>1, <1>3, Constants DEF DataInv
<1> QED BY <1>1, <1>3, <1>4, <1>5 DEF DataInv

LEMMA FailsDataInv ==
  ASSUME DataInv, NEW f \in P!Flights, P!Fails(f)
  PROVE  DataInv'
<1>1. flights' = [flights EXCEPT ![f] = P!NotBegun] /\ UNCHANGED <<page, truth, shown>>
      /\ flights[f] # P!NotBegun
  BY DEF P!Fails, P!Over, P!data
<1>2. \A g \in P!Flights : flights'[g] = P!NotBegun
  BY <1>1 DEF DataInv
<1> QED BY <1>1, <1>2, Constants DEF DataInv

LEMMA ChangesDataInv ==
  ASSUME DataInv, NEW t \in P!Tables, P!Changes(t), UNCHANGED <<page, shown, flights, ref>>
  PROVE  DataInv'
<1>1. truth' = [truth EXCEPT ![t] = truth[t] + 1]
  BY DEF P!Changes
<1>2. truth' \in [P!Tables -> Nat] /\ \A u \in P!Tables : truth[u] <= truth'[u]
  BY <1>1 DEF DataInv
<1>3. P!Fetched' = P!Fetched
  BY DEF P!Fetched
<1>4. ASSUME NEW f \in P!Flights, NEW u \in P!Fetched, ReadInv(f, u)
      PROVE  ReadInv(f, u)'
  BY <1>2, <1>4, Constants DEF DataInv, ReadInv
<1>5. \A u \in P!Tables : shown[u] <= truth'[u]
  BY <1>2 DEF DataInv
<1> QED BY <1>2, <1>3, <1>4, <1>5 DEF DataInv

(* What a step of the page or of the server does to it.                    *)
LEMMA DataStep ==
  ASSUME DataInv, P!Next
  PROVE  DataInv' /\ \A t \in P!Tables : shown'[t] >= shown[t]
<1> USE DEF P!data, P!fetching
<1>1. shown \in [P!Tables -> Nat]
  BY DEF DataInv
<1>2. CASE P!Tick \/ P!OnEvent \/ P!Acted
  <2>1. UNCHANGED <<page, truth, shown>> /\ (P!Refresh(FALSE) \/ P!Refresh(page = "popout"))
    BY <1>2 DEF P!Tick, P!OnEvent, P!Acted
  <2>2. DataInv'
    BY <2>1, RefreshDataInv
  <2> QED BY <1>1, <2>1, <2>2
<1>3. CASE P!Effect
  <2>1. CASE P!Refresh(TRUE)
    <3>1. UNCHANGED <<page, truth, shown>>
      BY <1>3 DEF P!Effect
    <3>2. DataInv'
      BY <2>1, <3>1, RefreshDataInv
    <3> QED BY <1>1, <3>1, <3>2
  <2>2. CASE UNCHANGED <<flights, ref>>
    BY <1>1, <1>3, <2>2 DEF P!Effect, DataInv, ReadInv, P!Fetched
  <2> QED BY <1>3, <2>1, <2>2 DEF P!Effect
<1>4. CASE P!SocketCloses \/ \E c \in Composers : P!Compose(c)
  <2>1. UNCHANGED <<page, truth, shown, flights, ref>>
    BY <1>4 DEF P!SocketCloses, P!Compose
  <2> QED BY <1>1, <2>1 DEF DataInv, ReadInv, P!Fetched
<1>5. ASSUME NEW f \in P!Flights, P!Fails(f) \/ P!Lands(f) \/ \E t \in P!Tables : P!Reads(f, t)
      PROVE  DataInv' /\ \A t \in P!Tables : shown'[t] >= shown[t]
  <2>1. CASE P!Fails(f)
    BY <1>1, <2>1, FailsDataInv DEF P!Fails
  <2>2. CASE P!Lands(f)
    BY <2>2, LandsDataInv
  <2>3. CASE \E t \in P!Tables : P!Reads(f, t)
    <3>1. DataInv'
      BY <2>3, ReadsDataInv
    <3>2. UNCHANGED shown
      BY <2>3 DEF P!Reads
    <3> QED BY <1>1, <3>1, <3>2
  <2> QED BY <1>5, <2>1, <2>2, <2>3
<1>6. ASSUME NEW t \in P!Tables, P!Change(t) \/ P!Act(t)
      PROVE  DataInv' /\ \A u \in P!Tables : shown'[u] >= shown[u]
  BY <1>1, <1>6, ChangesDataInv DEF P!Change, P!Act
<1> QED BY <1>2, <1>3, <1>4, <1>5, <1>6 DEF P!Next

LEMMA NextIInv == IInv /\ [Next]_vars => IInv'
<1> SUFFICES ASSUME IInv, [Next]_vars, part' = "data" PROVE DataInv'
  BY DEF IInv
<1>1. CASE StillData /\ P!Next
  BY <1>1, DataStep DEF IInv, StillData
<1>2. CASE UNCHANGED vars
  BY <1>2 DEF vars, ofData, IInv, DataInv, ReadInv, P!Fetched
<1>3. part # "data" => part' # "data"
  BY DEF Next, StillLedger, StillView, StillShell, StillData, vars
<1>4. part = "data"
  BY <1>3
<1>5. ~(StillLedger \/ StillView \/ StillShell)
  BY <1>4 DEF StillLedger, StillView, StillShell
<1> QED BY <1>1, <1>2, <1>5 DEF Next

(* refresh of main.tsx: whatever the order in which requests are asked for *)
(* and answered, fail or are put off, no table on the page is ever         *)
(* replaced by an older one.                                               *)
THEOREM NoTableGoesBack == Spec => NeverGoesBack
<1>1. IInv /\ [Next]_vars =>
        [part = "data" => \A t \in P!Tables : shown'[t] >= shown[t]]_vars
  <2> SUFFICES ASSUME IInv, Next, part = "data"
               PROVE  \A t \in P!Tables : shown'[t] >= shown[t]
    OBVIOUS
  <2>1. StillData /\ P!Next
    BY DEF Next, StillLedger, StillView, StillShell
  <2> QED BY <2>1, DataStep DEF IInv
<1> QED BY <1>1, InitIInv, NextIInv, PTL DEF Spec, NeverGoesBack

----------------------------------------------------------------------------
(* THE SHELL *)

ShellInv ==
  /\ view \in Views /\ filter \in Filters /\ layout \in Layouts
  /\ selected \in Ids \cup {S!No} /\ url \in S!Urls /\ store \in S!Stores
  /\ S!ReloadRestores /\ S!SelectionExists

LEMMA ShellInit == S!Init => ShellInv
<1> SUFFICES ASSUME S!Init PROVE ShellInv
  OBVIOUS
<1> USE WebAppAssumption DEF S!StateAssumption
<1>1. url \in S!Urls /\ store \in S!Stores /\ dirty = TRUE
  BY DEF S!Init
<1>2. view \in Views /\ filter \in Filters /\ layout \in Layouts /\ selected \in Ids \cup {S!No}
  BY <1>1 DEF S!Init, S!StoredView, S!StoredFilter, S!StoredLayout, S!StoredSession, S!Or,
     S!Urls, S!Stores
<1> QED BY <1>1, <1>2 DEF ShellInv, S!ReloadRestores, S!SelectionExists

(* Every step but the effects asks for the effects.                        *)
LEMMA ShellStep ==
  ASSUME ShellInv, S!Next
  PROVE  ShellInv'
<1> USE WebAppAssumption DEF S!StateAssumption, ShellInv
<1>1. CASE S!Effects
  <2>1. S!NextStore \in S!Stores /\ S!NextUrl \in S!Urls
    BY DEF S!NextStore, S!NextUrl, S!Stores, S!Urls
  <2>2. S!SyncedLayout \in Layouts
    BY <2>1 DEF S!SyncedLayout, S!Or, S!Stores
  <2>3. /\ store' = S!NextStore /\ url' = S!NextUrl
        /\ selected' \in Ids \cup {S!No} /\ S!Fallback(selected') /\ layout' = S!SyncedLayout
        /\ dirty' = (selected' # selected \/ layout' # layout)
        /\ UNCHANGED <<view, filter, rows, live, deferred>>
    BY <1>1 DEF S!Effects
  <2>4. S!ReloadRestores'
    <3> SUFFICES ASSUME ~dirty'
                 PROVE  <<S!StoredView, S!StoredFilter, S!StoredLayout, S!StoredSession>>'
                        = <<view, filter, layout, selected>>'
      BY DEF S!ReloadRestores
    <3>1. selected' = selected /\ layout' = layout
      BY <2>3
    <3>2. /\ url'.view = view /\ url'.filter = filter /\ url'.layout = layout
          /\ url'.session = selected /\ store'.recent = selected
      BY <2>3 DEF S!NextStore, S!NextUrl
    <3> QED BY <2>3, <3>1, <3>2 DEF S!StoredView, S!StoredFilter, S!StoredLayout, S!StoredSession, S!Or
  <2>5. S!SelectionExists'
    <3> SUFFICES ASSUME ~dirty', view = "terminals", deferred = S!Visible', S!Visible' # {}
                 PROVE  selected' \in rows
      BY <2>3 DEF S!SelectionExists
    <3>1. selected' = selected /\ deferred # {} /\ deferred \subseteq rows
      BY <2>3 DEF S!Visible
    <3> QED BY <2>3, <3>1 DEF S!Fallback
  <2> QED BY <2>1, <2>2, <2>3, <2>4, <2>5
<1>2. CASE S!Reload
  <2>1. /\ S!StoredView \in Views /\ S!StoredFilter \in Filters /\ S!StoredLayout \in Layouts
        /\ S!StoredSession \in Ids \cup {S!No}
    BY DEF S!StoredView, S!StoredFilter, S!StoredLayout, S!StoredSession, S!Or,
       S!Urls, S!Stores
  <2> QED BY <1>2, <2>1 DEF S!Reload, S!ReloadRestores, S!SelectionExists
<1>3. CASE S!CatchUp
  BY <1>3 DEF S!CatchUp, S!ReloadRestores, S!SelectionExists
<1>4. CASE \E r \in SUBSET Ids : \E a \in SUBSET r : S!Refreshed(r, a)
  BY <1>4 DEF S!Refreshed, S!ReloadRestores, S!SelectionExists
<1>5. CASE \E i \in Ids : S!Select(i)
  BY <1>5 DEF S!Select, S!ReloadRestores, S!SelectionExists
<1>6. CASE \E v \in Views, f \in Filters, l \in Layouts : S!Choose(v, f, l)
  BY <1>6 DEF S!Choose, S!ReloadRestores, S!SelectionExists
<1> QED BY <1>1, <1>2, <1>3, <1>4, <1>5, <1>6 DEF S!Next

----------------------------------------------------------------------------
(* THE VIEW OF A TERMINAL *)

Messages == [is : {"snapshot", "output"}, n : Nat \ {0}]

LEMMA QueueFacts ==
  ASSUME NEW Elem, NEW q \in Seq(Elem), q # <<>>
  PROVE  /\ Len(q) \in Nat /\ Len(q) > 0 /\ q[1] \in Elem /\ Head(q) = q[1]
         /\ Tail(q) \in Seq(Elem) /\ Len(Tail(q)) = Len(q) - 1
         /\ \A i \in 1 .. Len(q) - 1 : Tail(q)[i] = q[i + 1]
         /\ Tail(q) = <<>> => Len(q) = 1
<1>1. Len(q) \in Nat /\ Len(q) > 0
  OBVIOUS
<1>2. Head(q) = q[1] /\ q[1] \in Elem
  BY <1>1
<1>3. Tail(q) \in Seq(Elem)
  OBVIOUS
<1>4. Len(Tail(q)) = Len(q) - 1
  OBVIOUS
<1>5. \A i \in 1 .. Len(q) - 1 : Tail(q)[i] = q[i + 1]
  BY <1>1
<1>6. Tail(q) = <<>> => Len(q) = 1
  <2>1. Len(<<>>) = 0
    OBVIOUS
  <2>2. Tail(q) = <<>> => Len(Tail(q)) = 0
    BY <2>1, Zenon
  <2> QED BY <1>1, <1>4, <2>2
<1> QED BY <1>1, <1>2, <1>3, <1>4, <1>5, <1>6

LEMMA AppendFacts ==
  ASSUME NEW Elem, NEW q \in Seq(Elem), NEW m \in Elem
  PROVE  /\ Append(q, m) \in Seq(Elem) /\ Append(q, m) # <<>> /\ Len(q) \in Nat
         /\ Len(Append(q, m)) = Len(q) + 1 /\ Append(q, m)[Len(q) + 1] = m
         /\ \A i \in 1 .. Len(q) : Append(q, m)[i] = q[i]
  OBVIOUS

(* The messages under way are consecutive and end with the last output; a  *)
(* snapshot is the first of them all, or was drawn.                        *)
QueueInv ==
  /\ queue \in Seq(Messages)
  /\ queue # <<>> => conn = "attached" /\ queue[Len(queue)].n = out
  /\ \A i \in 1 .. Len(queue) - 1 :
       queue[i + 1].n = queue[i].n + 1 /\ queue[i + 1].is = "output"
  /\ queue # <<>> /\ queue[1].is = "snapshot" => ~seeded

(* What a view that has drawn a snapshot shows, and what is to come.       *)
SeededInv ==
  seeded =>
    \E m \in Nat \ {0} :
      /\ screen = 1 .. m /\ got = 1 .. m
      /\ conn = "attached" => m = IF queue = <<>> THEN out ELSE queue[1].n - 1

ViewInv ==
  /\ out \in Nat /\ seeded \in BOOLEAN
  /\ conn \in {"none", "connecting", "open", "attached", "closed"}
  /\ conn \in {"connecting", "open"} => ~seeded /\ got = {}
  /\ ~seeded /\ queue # <<>> /\ queue[1].is = "snapshot" => got = {}
  /\ QueueInv /\ SeededInv

LEMMA ViewShows ==
  ASSUME ViewInv
  PROVE  T!ShowsWhatCame
<1> SUFFICES ASSUME seeded PROVE screen = 1 .. T!Last(got)
  BY DEF T!ShowsWhatCame
<1>1. PICK m \in Nat \ {0} : screen = 1 .. m /\ got = 1 .. m
  BY DEF ViewInv, SeededInv
<1>2. m \in got /\ \A k \in got : k <= m
  BY <1>1
<1>3. \A k \in got : (\A j \in got : j <= k) => k = m
  BY <1>1, <1>2
<1>4. T!Last(got) = m
  BY <1>2, <1>3 DEF T!Last
<1> QED BY <1>1, <1>4

LEMMA EmptyQueue == ASSUME queue = <<>> PROVE QueueInv
BY DEF QueueInv

LEMMA ViewInit == T!Init => ViewInv
<1> SUFFICES ASSUME T!Init PROVE ViewInv
  OBVIOUS
<1>1. queue = <<>> /\ seeded = FALSE /\ conn = "none" /\ out \in Nat
  BY DEF T!Init
<1> QED BY <1>1, EmptyQueue DEF ViewInv, SeededInv

LEMMA ReceiveViewInv ==
  ASSUME ViewInv, T!Receive
  PROVE  ViewInv'
<1> USE DEF ViewInv
<1> DEFINE first == queue[1]
<1>1. /\ queue # <<>> /\ queue' = Tail(queue) /\ T!Draw(first)
      /\ got' = got \cup (IF first.is = "output" THEN {first.n} ELSE 1 .. first.n)
      /\ UNCHANGED <<out, conn>>
  BY QueueFacts DEF T!Receive, T!server, T!socket, QueueInv
<1>2. /\ conn = "attached" /\ queue \in Seq(Messages)
      /\ Len(queue) \in Nat /\ Len(queue) > 0 /\ queue[Len(queue)].n = out
      /\ first.is \in {"snapshot", "output"} /\ first.n \in Nat \ {0}
  <2>1. conn = "attached" /\ queue \in Seq(Messages) /\ queue[Len(queue)].n = out
    BY <1>1 DEF QueueInv
  <2>2. Len(queue) \in Nat /\ Len(queue) > 0 /\ first \in Messages
    BY <1>1, <2>1, QueueFacts
  <2> QED BY <2>1, <2>2 DEF Messages
<1>3. /\ queue' \in Seq(Messages)
      /\ Len(queue') = Len(queue) - 1
      /\ \A i \in 1 .. Len(queue') : queue'[i] = queue[i + 1]
      /\ queue' = <<>> => Len(queue) = 1
  BY <1>1, <1>2, QueueFacts
<1>4. queue' # <<>> => queue'[1].is = "output" /\ queue'[1].n = first.n + 1
  <2>1. ASSUME queue' # <<>> PROVE 1 \in 1 .. Len(queue) - 1 /\ queue'[1] = queue[2]
    BY <1>2, <1>3, <2>1, QueueFacts
  <2> QED BY <2>1 DEF QueueInv
<1>5. queue' = <<>> => first.n = out
  BY <1>2, <1>3
<1>6. QueueInv'
  <2>1. queue' # <<>> => queue'[Len(queue')].n = out
    <3>1. ASSUME queue' # <<>> PROVE Len(queue') \in 1 .. Len(queue') /\ Len(queue') + 1 = Len(queue)
      BY <1>2, <1>3, <3>1, QueueFacts
    <3> QED BY <1>2, <1>3, <3>1
  <2>2. ASSUME NEW i \in 1 .. Len(queue') - 1
        PROVE  queue'[i + 1].n = queue'[i].n + 1 /\ queue'[i + 1].is = "output"
    <3>1. i + 1 \in 1 .. Len(queue) - 1 /\ i \in 1 .. Len(queue') /\ i + 1 \in 1 .. Len(queue')
      BY <1>2, <1>3
    <3>2. queue[(i + 1) + 1].n = queue[i + 1].n + 1 /\ queue[(i + 1) + 1].is = "output"
      BY <3>1 DEF QueueInv
    <3> QED BY <1>3, <3>1, <3>2
  <2>3. queue' # <<>> => queue'[1].is # "snapshot"
    BY <1>4
  <2> QED BY <1>1, <1>2, <1>3, <2>1, <2>2, <2>3 DEF QueueInv
<1>7. seeded' \in BOOLEAN /\ (seeded' <=> seeded \/ first.is = "snapshot")
  BY <1>1 DEF T!Draw
<1>8. SeededInv'
  <2> SUFFICES ASSUME seeded'
               PROVE  \E m \in Nat \ {0} :
                        /\ screen' = 1 .. m /\ got' = 1 .. m
                        /\ m = IF queue' = <<>> THEN out ELSE queue'[1].n - 1
    BY <1>1 DEF SeededInv
  <2>1. CASE seeded
    <3>1. first.is = "output"
      BY <1>1, <1>2, <2>1 DEF QueueInv
    <3>2. PICK m \in Nat \ {0} : screen = 1 .. m /\ got = 1 .. m /\ m = first.n - 1
      BY <1>1, <1>2, <2>1 DEF SeededInv
    <3>3. screen' = screen \cup {first.n} /\ got' = got \cup {first.n}
      BY <1>1, <3>1 DEF T!Draw
    <3>4. screen' = 1 .. m + 1 /\ got' = 1 .. m + 1 /\ first.n = m + 1
      BY <1>2, <3>2, <3>3
    <3> QED BY <1>2, <1>4, <1>5, <3>4
  <2>2. CASE ~seeded
    <3>1. first.is = "snapshot" /\ got = {}
      BY <1>1, <1>7, <2>2
    <3>2. screen' = 1 .. first.n /\ got' = 1 .. first.n
      BY <1>1, <2>2, <3>1 DEF T!Draw
    <3>3. first.n # 0
      BY <1>1, <1>2, <3>1 DEF QueueInv
    <3> QED BY <1>2, <1>4, <1>5, <3>2, <3>3
  <2> QED BY <2>1, <2>2
<1> QED BY <1>1, <1>2, <1>4, <1>6, <1>7, <1>8

LEMMA OutputViewInv ==
  ASSUME ViewInv, T!Output
  PROVE  ViewInv'
<1> USE DEF ViewInv
<1> DEFINE m == [is |-> "output", n |-> out']
<1>1. /\ out' = out + 1 /\ out' \in Nat \ {0} /\ m \in Messages
      /\ queue' = IF conn = "attached" THEN Append(queue, m) ELSE queue
      /\ UNCHANGED <<conn, screen, seeded, got>>
  BY DEF T!Output, T!socket, Messages
<1>2. CASE conn # "attached"
  <2>1. queue = <<>> /\ queue' = <<>>
    BY <1>1, <1>2 DEF QueueInv
  <2>2. QueueInv'
    BY <2>1, EmptyQueue DEF QueueInv
  <2> QED BY <1>1, <1>2, <2>1, <2>2 DEF SeededInv
<1>3. CASE conn = "attached"
  <2>1. queue \in Seq(Messages) /\ queue' = Append(queue, m)
    BY <1>1, <1>3 DEF QueueInv
  <2>2. /\ queue' \in Seq(Messages) /\ queue' # <<>> /\ Len(queue) \in Nat
        /\ Len(queue') = Len(queue) + 1 /\ queue'[Len(queue')] = m
        /\ \A i \in 1 .. Len(queue) : queue'[i] = queue[i]
    BY <1>1, <2>1, AppendFacts
  <2>3. queue = <<>> => queue'[1] = m
    BY <2>2
  <2>4. queue # <<>> => queue'[1] = queue[1]
    BY <2>1, <2>2, QueueFacts
  <2>5. QueueInv'
    <3>1. ASSUME NEW i \in 1 .. Len(queue') - 1
          PROVE  queue'[i + 1].n = queue'[i].n + 1 /\ queue'[i + 1].is = "output"
      <4>1. CASE i = Len(queue)
        BY <1>1, <2>2, <3>1, <4>1 DEF QueueInv
      <4>2. CASE i # Len(queue)
        <5>1. i \in 1 .. Len(queue) - 1 /\ i + 1 \in 1 .. Len(queue) /\ i \in 1 .. Len(queue)
          BY <2>2, <3>1, <4>2
        <5> QED BY <2>2, <5>1 DEF QueueInv
      <4> QED BY <4>1, <4>2
    <3>2. queue'[1].is = "snapshot" => ~seeded
      BY <2>3, <2>4 DEF QueueInv
    <3> QED BY <1>1, <1>3, <2>2, <3>1, <3>2 DEF QueueInv
  <2>6. SeededInv'
    BY <1>1, <1>3, <2>2, <2>3, <2>4 DEF SeededInv
  <2> QED BY <1>1, <1>3, <2>3, <2>4, <2>5, <2>6
<1> QED BY <1>2, <1>3

(* The snapshot is the first message of a socket.                          *)
LEMMA AttachViewInv ==
  ASSUME ViewInv, T!Attach \/ T!AttachFails
  PROVE  ViewInv'
<1> USE DEF ViewInv
<1> DEFINE m == [is |-> "snapshot", n |-> out]
<1>1. /\ conn = "open" /\ conn' = "attached" /\ ~seeded /\ got = {} /\ queue = <<>>
      /\ UNCHANGED <<out, screen, seeded, got>>
  BY DEF T!Attach, T!AttachFails, T!server, QueueInv
<1>2. CASE queue' = <<>>
  <2>1. QueueInv'
    BY <1>2, EmptyQueue DEF QueueInv
  <2> QED BY <1>1, <1>2, <2>1 DEF SeededInv
<1>3. CASE out # 0 /\ queue' = <<m>>
  <2>1. queue' \in Seq(Messages) /\ queue' # <<>> /\ Len(queue') = 1 /\ queue'[1] = m
    BY <1>3 DEF Messages
  <2>2. QueueInv'
    BY <1>1, <2>1 DEF QueueInv
  <2> QED BY <1>1, <2>2 DEF SeededInv
<1>4. queue' = <<>> \/ (out # 0 /\ queue' = <<m>>)
  BY <1>1 DEF T!Attach, T!AttachFails
<1> QED BY <1>2, <1>3, <1>4

(* No step but these sends, receives or draws while a snapshot is shown.   *)
LEMMA OtherViewInv ==
  ASSUME ViewInv,
         T!Mount \/ T!Reconnect \/ T!Opens \/ T!Closes \/ \E n \in T!Chunks : T!NewPreview(n)
  PROVE  ViewInv'
<1> USE DEF ViewInv
<1>1. ASSUME NEW next, T!Connect(next), UNCHANGED out PROVE ViewInv'
  <2>1. queue' = <<>> /\ conn' = "connecting" /\ ~seeded' /\ seeded' \in BOOLEAN /\ got' = {}
    BY <1>1 DEF T!Connect
  <2>2. QueueInv'
    BY <2>1, EmptyQueue DEF QueueInv
  <2> QED BY <1>1, <2>1, <2>2 DEF SeededInv
<1>2. ASSUME UNCHANGED <<out, queue, seeded, got>>, seeded => UNCHANGED screen,
             conn' = conn \/ (conn = "connecting" /\ conn' = "open")
      PROVE  ViewInv'
  BY <1>2 DEF QueueInv, SeededInv
<1>3. CASE T!Mount
  BY <1>1, <1>3 DEF T!Mount, T!server
<1>4. CASE T!Reconnect
  BY <1>1, <1>2, <1>4 DEF T!Reconnect, T!server
<1>5. CASE T!Opens
  BY <1>2, <1>5 DEF T!Opens, T!server
<1>6. CASE T!Closes
  <2>1. queue' = <<>> /\ conn' = "closed" /\ UNCHANGED <<out, screen, seeded, got>>
    BY <1>6 DEF T!Closes, T!server
  <2>2. QueueInv'
    BY <2>1, EmptyQueue DEF QueueInv
  <2> QED BY <2>1, <2>2 DEF SeededInv
<1>7. CASE \E n \in T!Chunks : T!NewPreview(n)
  <2>1. UNCHANGED <<out, queue, seeded, got, conn>>
    BY <1>7 DEF T!NewPreview, T!server, T!socket
  <2>2. seeded => UNCHANGED screen
    BY <1>7 DEF T!NewPreview, T!Reseed
  <2> QED BY <1>2, <2>1, <2>2
<1> QED BY <1>3, <1>4, <1>5, <1>6, <1>7

LEMMA ViewStep == ASSUME ViewInv, T!Next PROVE ViewInv'
BY ReceiveViewInv, OutputViewInv, AttachViewInv, OtherViewInv DEF T!Next, T!Works

----------------------------------------------------------------------------
(* THE APPLICATION *)

KeepInv == (part = "view" => ViewInv) /\ (part = "shell" => ShellInv)

(* HqTerminalPreview and App of main.tsx: a view that has drawn a snapshot *)
(* shows exactly the output up to the last that it has received, and a     *)
(* shell whose effects have run is the one that a reload shows, with a     *)
(* selected session that exists.                                           *)
THEOREM ViewsKeep == Spec => []ViewsKeepState
<1>1. Init => KeepInv
  <2> SUFFICES ASSUME Init PROVE KeepInv
    OBVIOUS
  <2>1. (part = "view" => T!Init) /\ (part = "shell" => S!Init)
    BY DEF Init
  <2> QED BY <2>1, ViewInit, ShellInit DEF KeepInv
<1>2. KeepInv /\ [Next]_vars => KeepInv'
  <2> SUFFICES ASSUME KeepInv, [Next]_vars PROVE KeepInv'
    OBVIOUS
  <2>1. CASE StillView /\ T!Next
    BY <2>1, ViewStep DEF StillView, KeepInv
  <2>2. CASE StillShell /\ S!Next
    BY <2>2, ShellStep DEF StillShell, KeepInv
  <2>3. CASE StillData \/ StillLedger
    BY <2>3 DEF StillData, StillLedger, KeepInv
  <2>4. CASE UNCHANGED vars
    BY <2>4 DEF vars, ofView, ofShell, KeepInv, ViewInv, QueueInv, SeededInv, ShellInv,
       S!ReloadRestores, S!SelectionExists, S!StoredView, S!StoredFilter, S!StoredLayout,
       S!StoredSession, S!Or, S!Visible
  <2> QED BY <2>1, <2>2, <2>3, <2>4 DEF Next
<1>3. KeepInv => ViewsKeepState
  BY ViewShows DEF KeepInv, ShellInv, ViewsKeepState
<1> QED BY <1>1, <1>2, <1>3, PTL DEF Spec

----------------------------------------------------------------------------
(* TYPES *)

(* A step takes a fetch from what was read, which DataInv bounds.          *)
LEMMA RefreshTypes ==
  ASSUME P!TypeOK, NEW force, P!Refresh(force), P!Begun \in [P!Tables -> -2 .. MaxChanges]
  PROVE  /\ flights' \in [P!Flights -> [P!Tables -> -2 .. MaxChanges]]
         /\ ref' \in P!Flights \cup {P!NoFlight} /\ pending' \in BOOLEAN
<1>1. /\ flights \in [P!Flights -> [P!Tables -> -2 .. MaxChanges]]
      /\ ref \in P!Flights \cup {P!NoFlight} /\ pending \in BOOLEAN
  BY DEF P!TypeOK
<1>2. CASE UNCHANGED <<flights, ref>>
  BY <1>1, <1>2 DEF P!Refresh, P!fetching, P!Begin
<1>3. CASE P!Begin /\ UNCHANGED pending
  <2>1. PICK f \in P!Flights : flights' = [flights EXCEPT ![f] = P!Begun] /\ ref' = f
    BY <1>3 DEF P!Begin
  <2> QED BY <1>1, <1>3, <2>1
<1> QED BY <1>2, <1>3 DEF P!Refresh, P!fetching

LEMMA FetchTypes ==
  /\ P!Begun \in [P!Tables -> -2 .. MaxChanges] /\ P!NotBegun \in [P!Tables -> -2 .. MaxChanges]
BY WebAppAssumption DEF P!PageAssumption, P!Begun, P!NotBegun, P!Unread

LEMMA DataTypes ==
  ASSUME DataInv, P!TypeOK, P!Next
  PROVE  P!TypeOK'
<1> USE DEF P!data, P!fetching
<1>1. /\ page \in {"shell", "popout"} /\ MaxChanges \in Nat
      /\ truth \in [P!Tables -> 0 .. MaxChanges] /\ shown \in [P!Tables -> 0 .. MaxChanges]
      /\ flights \in [P!Flights -> [P!Tables -> -2 .. MaxChanges]]
      /\ ref \in P!Flights \cup {P!NoFlight} /\ active \subseteq Composers
  BY WebAppAssumption DEF P!TypeOK, P!PageAssumption
<1>2. /\ pending \in BOOLEAN /\ woken \in BOOLEAN /\ socket \in BOOLEAN
      /\ event \in BOOLEAN /\ acting \in BOOLEAN
      /\ told \subseteq P!Flights /\ error \in BOOLEAN
  BY DEF P!TypeOK
<1>3. ASSUME /\ page' = page /\ truth' \in [P!Tables -> 0 .. MaxChanges]
             /\ shown' \in [P!Tables -> 0 .. MaxChanges]
             /\ flights' \in [P!Flights -> [P!Tables -> -2 .. MaxChanges]]
             /\ ref' \in P!Flights \cup {P!NoFlight} /\ active' \subseteq Composers
             /\ pending' \in BOOLEAN /\ woken' \in BOOLEAN /\ socket' \in BOOLEAN
             /\ event' \in BOOLEAN /\ acting' \in BOOLEAN
             /\ told' \subseteq P!Flights /\ error' \in BOOLEAN
      PROVE  P!TypeOK'
  BY <1>1, <1>3 DEF P!TypeOK
<1>4. ASSUME NEW force, P!Refresh(force), UNCHANGED <<page, truth, shown, active>>,
             woken' \in BOOLEAN, socket' \in BOOLEAN, event' \in BOOLEAN, acting' \in BOOLEAN,
             told' \subseteq P!Flights, error' \in BOOLEAN
      PROVE  P!TypeOK'
  <2>1. /\ flights' \in [P!Flights -> [P!Tables -> -2 .. MaxChanges]]
        /\ ref' \in P!Flights \cup {P!NoFlight} /\ pending' \in BOOLEAN
    BY <1>4, RefreshTypes, FetchTypes
  <2> QED BY <1>1, <1>3, <1>4, <2>1
<1>5. CASE P!Tick
  BY <1>2, <1>4, <1>5 DEF P!Tick
<1>6. CASE P!OnEvent
  BY <1>2, <1>4, <1>6 DEF P!OnEvent
<1>7. CASE P!Acted
  BY <1>2, <1>4, <1>7 DEF P!Acted
<1>8. CASE P!Effect
  <2>1. /\ UNCHANGED <<page, truth, shown, active, socket, event, acting>> /\ woken' \in BOOLEAN
        /\ error' \in BOOLEAN
    BY <1>2, <1>8 DEF P!Effect
  <2>2. CASE P!Refresh(TRUE) /\ told' = told \cup {ref'}
    <3>1. ref' \in P!Flights
      BY <1>1, <2>2, Constants DEF P!Refresh, P!Begin
    <3>2. told' \subseteq P!Flights
      BY <1>2, <2>2, <3>1
    <3> QED BY <1>2, <1>4, <2>1, <2>2, <3>2
  <2>3. CASE UNCHANGED <<flights, ref, told, pending>>
    BY <1>1, <1>2, <1>3, <2>1, <2>3
  <2> QED BY <1>8, <2>2, <2>3 DEF P!Effect
<1>9. CASE P!SocketCloses
  BY <1>1, <1>2, <1>3, <1>9 DEF P!SocketCloses
<1>10. CASE \E c \in Composers : P!Compose(c)
  <2>1. /\ UNCHANGED <<page, truth, shown, flights, ref, pending, socket, event, acting>>
        /\ UNCHANGED <<told, error>>
        /\ active' \subseteq Composers /\ woken' \in BOOLEAN
    BY <1>1, <1>10 DEF P!Compose
  <2> QED BY <1>1, <1>2, <1>3, <2>1
<1>11. ASSUME NEW t \in P!Tables, P!Change(t) \/ P!Act(t)
       PROVE  P!TypeOK'
  <2>1. /\ truth[t] < MaxChanges /\ truth' = [truth EXCEPT ![t] = truth[t] + 1]
        /\ UNCHANGED <<page, shown, flights, ref, pending, active, woken, socket, told, error>>
        /\ event' \in BOOLEAN /\ acting' \in BOOLEAN
    BY <1>2, <1>11 DEF P!Change, P!Act, P!Changes
  <2>2. truth[t] + 1 \in 0 .. MaxChanges
    BY <1>1, <2>1
  <2>3. truth' \in [P!Tables -> 0 .. MaxChanges]
    BY <1>1, <2>1, <2>2
  <2> QED BY <1>1, <1>2, <1>3, <2>1, <2>3
<1>12. ASSUME NEW f \in P!Flights, P!Fails(f)
       PROVE  P!TypeOK'
  <2>1. /\ flights' = [flights EXCEPT ![f] = P!NotBegun]
        /\ ref' = IF ref = f THEN P!NoFlight ELSE ref
        /\ UNCHANGED <<page, truth, shown, pending, active, woken, socket, event, acting>>
        /\ told' \subseteq P!Flights /\ error' \in BOOLEAN
    BY <1>2, <1>12 DEF P!Fails, P!Over
  <2> QED BY <1>1, <1>2, <1>3, <2>1, FetchTypes
<1>13. ASSUME NEW f \in P!Flights, P!Lands(f)
       PROVE  P!TypeOK'
  <2>1. /\ flights[f] # P!NotBegun /\ \A t \in P!Fetched : flights[f][t] # P!Unread
        /\ shown' = [t \in P!Tables |-> IF t \in P!Fetched THEN flights[f][t] ELSE shown[t]]
        /\ flights' = [flights EXCEPT ![f] = P!NotBegun]
        /\ ref' = IF ref = f THEN P!NoFlight ELSE ref
        /\ pending' = FALSE /\ UNCHANGED <<page, truth, active, woken, socket, event, acting>>
        /\ told' \subseteq P!Flights /\ error' \in BOOLEAN
    BY <1>2, <1>13 DEF P!Lands, P!Over
  <2>2. \A t \in P!Fetched : shown[t] <= flights[f][t] /\ flights[f][t] <= truth[t]
    BY <2>1 DEF DataInv, ReadInv
  <2>3. \A t \in P!Fetched : flights[f][t] \in 0 .. MaxChanges
    BY <1>1, <2>2, Constants
  <2>4. shown' \in [P!Tables -> 0 .. MaxChanges]
    BY <1>1, <2>1, <2>3
  <2> QED BY <1>1, <1>2, <1>3, <2>1, <2>4, FetchTypes
<1>14. ASSUME NEW f \in P!Flights, NEW t \in P!Tables, P!Reads(f, t)
       PROVE  P!TypeOK'
  <2>1. /\ flights' = [flights EXCEPT ![f] = [flights[f] EXCEPT ![t] = truth[t]]]
        /\ UNCHANGED <<page, truth, shown, ref, pending, active, woken, socket, event, acting>>
        /\ UNCHANGED <<told, error>>
    BY <1>14 DEF P!Reads
  <2>2. [flights[f] EXCEPT ![t] = truth[t]] \in [P!Tables -> -2 .. MaxChanges]
    BY <1>1
  <2>3. flights' \in [P!Flights -> [P!Tables -> -2 .. MaxChanges]]
    BY <1>1, <2>1, <2>2
  <2> QED BY <1>1, <1>2, <1>3, <2>1, <2>3
<1> QED BY <1>5, <1>6, <1>7, <1>8, <1>9, <1>10, <1>11, <1>12, <1>13, <1>14 DEF P!Next

(* What is asked, read and sent of the ledger.                             *)
Loads == {L!None, L!Asked} \cup {L!Read(l) : l \in L!Ledgers}
Edits == {L!None} \cup
  [is : {"posted", "done", "failed"}, status : Statuses \cup {"note"}]

LedgerInv ==
  /\ ledger \in L!Ledgers /\ row \in Statuses /\ notes \in 0 .. 2 * MaxNotes
  /\ ready \in BOOLEAN /\ stale \in BOOLEAN
  /\ loads \in [L!Slots -> Loads] /\ edits \in [L!Slots -> Edits]

LEMMA LedgerTypes == LedgerInv => L!TypeOK
<1> SUFFICES ASSUME LedgerInv PROVE L!TypeOK
  OBVIOUS
<1>1. ASSUME NEW n \in L!Slots
      PROVE  /\ loads[n] \in {L!None, L!Asked} \cup {L!Read(l) : l \in L!Ledgers}
             /\ edits[n] = L!None \/ edits[n].is \in {"posted", "done", "failed"}
  <2>1. loads[n] \in Loads /\ edits[n] \in Edits
    BY DEF LedgerInv
  <2> QED BY <2>1 DEF Loads, Edits
<1> QED BY <1>1 DEF LedgerInv, L!TypeOK

LEMMA LedgerInit == L!Init => LedgerInv
<1> SUFFICES ASSUME L!Init PROVE LedgerInv
  OBVIOUS
<1>1. ledger \in L!Ledgers /\ 0 \in 0 .. 2 * MaxNotes
  BY WebAppAssumption DEF L!LedgerAssumption, L!Init, L!Ledgers
<1>2. L!Asked \in Loads /\ L!None \in Loads /\ L!None \in Edits
  BY DEF Loads, Edits
<1> QED BY <1>1, <1>2 DEF L!Init, LedgerInv

LEMMA WithTypes ==
  ASSUME LedgerInv, NEW status \in Statuses \cup {"note"}
  PROVE  L!With(status) \in L!Ledgers
<1>1. ledger \in [status : Statuses, notes : 0 .. MaxNotes] /\ MaxNotes \in Nat
  BY WebAppAssumption DEF LedgerInv, L!Ledgers, L!LedgerAssumption
<1>2. CASE status = "note"
  <2>1. (IF ledger.notes < MaxNotes THEN ledger.notes + 1 ELSE ledger.notes) \in 0 .. MaxNotes
    BY <1>1
  <2> QED BY <1>1, <1>2, <2>1 DEF L!With, L!Ledgers
<1>3. CASE status # "note"
  BY <1>1, <1>3 DEF L!With, L!Ledgers
<1> QED BY <1>2, <1>3

LEMMA LedgerStep ==
  ASSUME LedgerInv, L!Next
  PROVE  LedgerInv'
<1> USE DEF L!shown
<1>1. /\ ledger \in L!Ledgers /\ row \in Statuses /\ notes \in 0 .. 2 * MaxNotes
      /\ ready \in BOOLEAN /\ stale \in BOOLEAN /\ MaxNotes \in Nat
      /\ loads \in [L!Slots -> Loads] /\ edits \in [L!Slots -> Edits]
  BY WebAppAssumption DEF LedgerInv, L!LedgerAssumption
<1>2. L!Asked \in Loads /\ L!None \in Loads /\ L!None \in Edits
  BY DEF Loads, Edits
<1>3. L!Read(ledger) \in Loads
  BY <1>1 DEF Loads
<1>4. L!BeginLoad => loads' \in [L!Slots -> Loads]
  BY <1>1, <1>2 DEF L!BeginLoad
<1>5. ASSUME NEW s \in Statuses \cup {"note"}, L!Post(s)
      PROVE  edits' \in [L!Slots -> Edits]
  <2>1. L!Edit("posted", s) \in Edits
    BY DEF L!Edit, Edits
  <2> QED BY <1>1, <1>5, <2>1 DEF L!Post
<1>6. CASE L!Timer
  BY <1>1, <1>4, <1>6 DEF L!Timer, LedgerInv
<1>7. ASSUME NEW s \in Statuses, L!SetStatus(s)
      PROVE  LedgerInv'
  BY <1>1, <1>5, <1>7 DEF L!SetStatus, LedgerInv
<1>8. ASSUME NEW s \in Statuses \cup {"note"}, L!Others(s)
      PROVE  LedgerInv'
  BY <1>1, <1>8, WithTypes DEF L!Others, LedgerInv
<1>9. CASE L!AddNote
  <2>1. notes' \in 0 .. 2 * MaxNotes /\ UNCHANGED <<ledger, row, ready, loads, stale>>
    BY <1>1, <1>9 DEF L!AddNote
  <2>2. edits' \in [L!Slots -> Edits]
    BY <1>5, <1>9 DEF L!AddNote
  <2> QED BY <1>1, <2>1, <2>2 DEF LedgerInv
<1>10. ASSUME NEW n \in L!Slots, L!Reads(n)
       PROVE  LedgerInv'
  BY <1>1, <1>3, <1>10 DEF L!Reads, LedgerInv
<1>11. ASSUME NEW n \in L!Slots, L!Lands(n)
       PROVE  LedgerInv'
  <2>1. loads[n] \in Loads /\ loads[n].is = "read"
    BY <1>1, <1>11 DEF L!Lands
  <2>2. PICK l \in L!Ledgers : loads[n] = L!Read(l)
    BY <2>1 DEF Loads, L!None, L!Asked
  <2>3. row' = l.status /\ notes' = l.notes
    BY <1>11, <2>2 DEF L!Lands, L!Read
  <2>4. l.status \in Statuses /\ l.notes \in 0 .. MaxNotes
    BY DEF L!Ledgers
  <2>5. row' \in Statuses /\ notes' \in 0 .. 2 * MaxNotes
    BY <1>1, <2>3, <2>4
  <2> QED BY <1>1, <1>2, <1>11, <2>5 DEF L!Lands, LedgerInv
<1>12. ASSUME NEW n \in L!Slots, L!LoadFails(n)
       PROVE  LedgerInv'
  <2>1. /\ notes' = 0 /\ ready' = FALSE /\ loads' = [loads EXCEPT ![n] = L!None]
        /\ UNCHANGED <<ledger, row, edits, stale>>
    BY <1>12 DEF L!LoadFails
  <2>2. notes' \in 0 .. 2 * MaxNotes
    BY <1>1, <2>1
  <2> QED BY <1>1, <1>2, <2>1, <2>2 DEF LedgerInv
<1>13. ASSUME NEW n \in L!Slots, L!Answered(n)
       PROVE  LedgerInv'
  BY <1>1, <1>2, <1>4, <1>13 DEF L!Answered, LedgerInv
<1>14. ASSUME NEW n \in L!Slots, L!EditFails(n)
       PROVE  LedgerInv'
  BY <1>1, <1>2, <1>14 DEF L!EditFails, LedgerInv
<1>15. ASSUME NEW n \in L!Slots, L!Applies(n)
       PROVE  LedgerInv'
  <2>1. /\ ledger' = L!With(edits[n].status) /\ stale' = TRUE
        /\ edits' = [edits EXCEPT ![n] = [edits[n] EXCEPT !.is = "done"]]
        /\ UNCHANGED <<row, notes, ready, loads>>
    BY <1>15 DEF L!Applies
  <2>2. edits[n] \in [is : {"posted", "done", "failed"}, status : Statuses \cup {"note"}]
    BY <1>1, <1>15 DEF L!Applies, Edits, L!None
  <2>3. ledger' \in L!Ledgers
    BY <2>1, <2>2, WithTypes
  <2>4. [edits[n] EXCEPT !.is = "done"] \in Edits
    BY <2>2 DEF Edits
  <2>5. edits' \in [L!Slots -> Edits]
    BY <1>1, <2>1, <2>4
  <2> QED BY <1>1, <2>1, <2>3, <2>5 DEF LedgerInv
<1> QED BY <1>6, <1>7, <1>8, <1>9, <1>10, <1>11, <1>12, <1>13, <1>14, <1>15
      DEF L!Next, L!People, L!Requests, L!Faults

(* Messages, previews and the screen tell of output that there has been.   *)
Sent == [is : {"snapshot", "output"}, n : 1 .. out]

ViewTypes == T!TypeOK /\ queue \in Seq(Sent)

LEMMA SeqGrows ==
  ASSUME NEW A, NEW B, A \subseteq B, NEW q \in Seq(A)
  PROVE  q \in Seq(B)
OBVIOUS

LEMMA ViewTypesInit == T!Init => ViewTypes
<1> SUFFICES ASSUME T!Init PROVE ViewTypes
  OBVIOUS
<1> USE WebAppAssumption DEF T!ViewAssumption
<1>1. queue = <<>> /\ out \in 0 .. MaxOut /\ 0 \in 0 .. out
  BY DEF T!Init
<1>2. queue \in Seq(Sent) /\ queue \in Seq(T!Message)
  BY <1>1
<1> QED BY <1>1, <1>2 DEF T!Init, T!TypeOK, ViewTypes

LEMMA ViewTypesStep ==
  ASSUME ViewTypes, T!Next
  PROVE  ViewTypes'
<1> USE DEF T!server, T!socket
<1>1. /\ variant \in Variants /\ out \in 0 .. MaxOut /\ preview \in 0 .. out
      /\ conn \in {"none", "connecting", "open", "attached", "closed"}
      /\ ref \in BOOLEAN /\ timer \in BOOLEAN /\ queue \in Seq(Sent)
      /\ screen \subseteq 1 .. out /\ got \subseteq 1 .. out
      /\ seeded \in BOOLEAN /\ seed \in 0 .. out /\ MaxOut \in Nat
  BY WebAppAssumption DEF T!ViewAssumption, ViewTypes, T!TypeOK
<1>2. ASSUME /\ variant' = variant /\ out' \in 0 .. MaxOut /\ preview' \in 0 .. out'
             /\ conn' \in {"none", "connecting", "open", "attached", "closed"}
             /\ ref' \in BOOLEAN /\ timer' \in BOOLEAN /\ queue' \in Seq(Sent')
             /\ screen' \subseteq 1 .. out' /\ got' \subseteq 1 .. out'
             /\ seeded' \in BOOLEAN /\ seed' \in 0 .. out'
      PROVE  ViewTypes'
  <2>1. Sent' \subseteq T!Message
    <3>1. 1 .. out' \subseteq T!Chunks
      BY <1>1, <1>2 DEF T!Chunks
    <3> QED BY <3>1 DEF Sent, T!Message
  <2>2. queue' \in Seq(T!Message)
    BY <1>2, <2>1, SeqGrows
  <2> QED BY <1>1, <1>2, <2>2 DEF ViewTypes, T!TypeOK
<1>3. ASSUME NEW next, T!Connect(next), next \in 0 .. out, UNCHANGED <<variant, out, preview>>,
             timer' \in BOOLEAN
      PROVE  ViewTypes'
  <2>1. /\ conn' = "connecting" /\ ref' = TRUE /\ seeded' = FALSE /\ seed' = next /\ got' = {}
        /\ screen' = 1 .. preview /\ queue' = <<>>
    BY <1>3 DEF T!Connect
  <2>2. screen' \subseteq 1 .. out' /\ queue' \in Seq(Sent')
    BY <1>1, <1>3, <2>1
  <2> QED BY <1>1, <1>2, <1>3, <2>1, <2>2
<1>4. CASE T!Output
  <2> DEFINE m == [is |-> "output", n |-> out']
  <2>1. /\ out' = out + 1 /\ out' \in 0 .. MaxOut
        /\ queue' = IF conn = "attached" THEN Append(queue, m) ELSE queue
        /\ UNCHANGED <<variant, preview, conn, ref, timer, screen, seeded, seed, got>>
    BY <1>1, <1>4 DEF T!Output
  <2>2. 1 .. out \subseteq 1 .. out' /\ 0 .. out \subseteq 0 .. out' /\ out' \in 1 .. out'
    BY <1>1, <2>1
  <2>3. Sent \subseteq Sent' /\ m \in Sent'
    BY <2>2 DEF Sent
  <2>4. queue \in Seq(Sent')
    BY <1>1, <2>3, SeqGrows
  <2>5. queue' \in Seq(Sent')
    <3> HIDE DEF m
    <3> QED BY <2>1, <2>3, <2>4, AppendFacts
  <2> QED BY <1>1, <1>2, <2>1, <2>2, <2>5
<1>5. CASE T!Attach
  <2> DEFINE m == [is |-> "snapshot", n |-> out]
  <2>1. /\ conn' = "attached" /\ queue' = IF out = 0 THEN queue ELSE Append(queue, m)
        /\ UNCHANGED <<variant, out, preview, ref, timer, screen, seeded, seed, got>>
    BY <1>5 DEF T!Attach
  <2>2. out # 0 => m \in Sent
    BY <1>1 DEF Sent
  <2>3. queue' \in Seq(Sent)
    <3> HIDE DEF m
    <3> QED BY <1>1, <2>1, <2>2, AppendFacts
  <2>4. Sent' = Sent
    BY <2>1 DEF Sent
  <2> QED BY <1>1, <1>2, <2>1, <2>3, <2>4
<1>6. CASE T!AttachFails \/ T!Opens
  <2>1. /\ conn' \in {"attached", "open"}
        /\ UNCHANGED <<variant, out, preview, ref, timer, queue, screen, seeded, seed, got>>
    BY <1>6 DEF T!AttachFails, T!Opens
  <2>2. Sent' = Sent
    BY <2>1 DEF Sent
  <2> QED BY <1>1, <1>2, <2>1, <2>2
<1>7. CASE T!Mount
  BY <1>1, <1>3, <1>7 DEF T!Mount
<1>8. CASE T!Receive
  <2> DEFINE first == Head(queue)
  <2>1. /\ queue # <<>> /\ queue' = Tail(queue) /\ T!Draw(first)
        /\ got' = got \cup (IF first.is = "output" THEN {first.n} ELSE 1 .. first.n)
        /\ UNCHANGED <<variant, out, preview, conn, ref, timer, seed>>
    BY <1>8 DEF T!Receive
  <2>2. first \in Sent /\ queue' \in Seq(Sent)
    BY <1>1, <2>1, QueueFacts
  <2>3. first.n \in 1 .. out
    BY <2>2 DEF Sent
  <2>4. 1 .. first.n \subseteq 1 .. out
    BY <1>1, <2>3
  <2>5. /\ screen' = IF first.is = "output" THEN screen \cup {first.n}
                     ELSE IF seeded THEN screen \cup 1 .. first.n ELSE 1 .. first.n
        /\ seeded' = (seeded \/ first.is = "snapshot")
    BY <2>1 DEF T!Draw
  <2>6. screen' \subseteq 1 .. out /\ got' \subseteq 1 .. out /\ seeded' \in BOOLEAN
    <3> HIDE DEF first
    <3> QED BY <1>1, <2>1, <2>3, <2>4, <2>5
  <2>7. Sent' = Sent
    BY <2>1 DEF Sent
  <2> QED BY <1>1, <1>2, <2>1, <2>2, <2>6, <2>7
<1>9. CASE T!Reconnect
  <2>1. /\ timer' = FALSE /\ UNCHANGED <<variant, out, preview>>
        /\ T!Connect(0) \/ UNCHANGED <<conn, ref, queue, screen, seeded, seed, got>>
    BY <1>9 DEF T!Reconnect
  <2>2. CASE T!Connect(0)
    <3>1. timer' \in BOOLEAN
      BY <2>1
    <3>2. PICK n : n = 0
      OBVIOUS
    <3>3. n \in 0 .. out
      BY <1>1, <3>2
    <3>4. T!Connect(n)
      BY <2>2, <3>2, Zenon
    <3> QED BY <1>3, <2>1, <3>1, <3>3, <3>4
  <2>3. CASE UNCHANGED <<conn, ref, queue, screen, seeded, seed, got>>
    <3>1. Sent' = Sent
      BY <2>1 DEF Sent
    <3> QED BY <1>1, <1>2, <2>1, <2>3, <3>1
  <2> QED BY <2>1, <2>2, <2>3
<1>10. CASE T!Closes
  <2>1. /\ conn' = "closed" /\ ref' = FALSE /\ timer' = TRUE /\ queue' = <<>>
        /\ UNCHANGED <<variant, out, preview, screen, seeded, seed, got>>
    BY <1>10 DEF T!Closes
  <2>2. queue' \in Seq(Sent')
    BY <2>1
  <2> QED BY <1>1, <1>2, <2>1, <2>2
<1>11. ASSUME NEW n \in T!Chunks, T!NewPreview(n)
       PROVE  ViewTypes'
  <2>1. /\ n \in preview + 1 .. out /\ preview' = n
        /\ UNCHANGED <<variant, out, conn, ref, timer, queue, seeded, got>>
        /\ (seed' = preview' /\ screen' = 1 .. preview') \/ UNCHANGED <<seed, screen>>
    BY <1>11 DEF T!NewPreview, T!Reseed
  <2>2. n \in 0 .. out /\ 1 .. n \subseteq 1 .. out
    BY <1>1, <2>1
  <2>3. Sent' = Sent
    BY <2>1 DEF Sent
  <2> QED BY <1>1, <1>2, <2>1, <2>2, <2>3
<1> QED BY <1>4, <1>5, <1>6, <1>7, <1>8, <1>9, <1>10, <1>11 DEF T!Next, T!Works

LEMMA ShellTypesInit == ShellInv /\ S!Init => S!TypeOK
<1> SUFFICES ASSUME ShellInv, S!Init PROVE S!TypeOK
  OBVIOUS
<1>1. rows = {} /\ live = {} /\ deferred = {} /\ skip \in BOOLEAN /\ dirty \in BOOLEAN
  BY DEF S!Init
<1> QED BY <1>1 DEF ShellInv, S!TypeOK

LEMMA ShellTypesStep ==
  ASSUME ShellInv, S!TypeOK, S!Next
  PROVE  S!TypeOK'
<1>1. /\ rows \subseteq Ids /\ live \subseteq rows /\ deferred \subseteq Ids
      /\ skip \in BOOLEAN /\ dirty \in BOOLEAN
  BY DEF S!TypeOK
<1>2. S!Visible \subseteq rows
  BY DEF S!Visible
<1>3. rows' \subseteq Ids /\ live' \subseteq rows' /\ deferred' \subseteq Ids
  BY <1>1, <1>2 DEF S!Next, S!Effects, S!CatchUp, S!Reload, S!Refreshed, S!Select, S!Choose
<1>4. skip' \in BOOLEAN /\ dirty' \in BOOLEAN
  BY <1>1 DEF S!Next, S!Effects, S!CatchUp, S!Reload, S!Refreshed, S!Select, S!Choose
<1>5. ShellInv'
  BY ShellStep
<1> QED BY <1>3, <1>4, <1>5 DEF ShellInv, S!TypeOK

TypesInv ==
  /\ part \in {"data", "ledger", "view", "shell"}
  /\ part = "data" => DataInv /\ P!TypeOK
  /\ part = "ledger" => LedgerInv
  /\ part = "view" => ViewTypes
  /\ part = "shell" => ShellInv /\ S!TypeOK

LEMMA InitTypes == Init => TypesInv
<1> SUFFICES ASSUME Init PROVE TypesInv
  OBVIOUS
<1>1. CASE part = "data" /\ P!Init
  <2>1. DataInv
    BY <1>1, InitIInv DEF IInv
  <2>2. /\ page \in {"shell", "popout"} /\ truth = [t \in P!Tables |-> 0] /\ shown = truth
        /\ flights \in [P!Flights -> [P!Tables -> -2 .. MaxChanges]]
        /\ ref \in P!Flights \cup {P!NoFlight} /\ told \subseteq P!Flights
        /\ active \subseteq Composers /\ pending \in BOOLEAN /\ woken = FALSE
        /\ socket \in BOOLEAN /\ event = FALSE /\ acting = FALSE /\ error = FALSE
    BY <1>1, FetchTypes DEF P!Init, P!Flights, P!NoFlight
  <2>3. truth \in [P!Tables -> 0 .. MaxChanges]
    BY <2>2, WebAppAssumption DEF P!PageAssumption
  <2>4. P!TypeOK
    BY <2>2, <2>3, FetchTypes DEF P!TypeOK
  <2> QED BY <1>1, <2>1, <2>4 DEF TypesInv
<1>2. CASE part = "ledger" /\ L!Init
  BY <1>2, LedgerInit DEF TypesInv
<1>3. CASE part = "view" /\ T!Init
  BY <1>3, ViewTypesInit DEF TypesInv
<1>4. CASE part = "shell" /\ S!Init
  BY <1>4, ShellInit, ShellTypesInit DEF TypesInv
<1> QED BY <1>1, <1>2, <1>3, <1>4 DEF Init

LEMMA NextTypes == TypesInv /\ [Next]_vars => TypesInv'
<1> SUFFICES ASSUME TypesInv, [Next]_vars PROVE TypesInv'
  OBVIOUS
<1>1. CASE StillData /\ P!Next
  <2>1. part = "data" /\ part' = part
    BY <1>1 DEF StillData
  <2>2. DataInv' /\ P!TypeOK'
    BY <1>1, <2>1, DataStep, DataTypes DEF TypesInv
  <2> QED BY <2>1, <2>2 DEF TypesInv
<1>2. CASE StillLedger /\ L!Next
  BY <1>2, LedgerStep DEF StillLedger, TypesInv
<1>3. CASE StillView /\ T!Next
  BY <1>3, ViewTypesStep DEF StillView, TypesInv
<1>4. CASE StillShell /\ S!Next
  BY <1>4, ShellStep, ShellTypesStep DEF StillShell, TypesInv
<1>5. CASE UNCHANGED vars
  <2>1. UNCHANGED <<part, ref>>
    BY <1>5 DEF vars
  <2>2. part = "data" => DataInv' /\ P!TypeOK'
    BY <1>5 DEF vars, ofData, TypesInv, DataInv, ReadInv, P!Fetched, P!TypeOK
  <2>3. part = "ledger" => LedgerInv'
    BY <1>5 DEF vars, ofLedger, TypesInv, LedgerInv
  <2>4. part = "view" => ViewTypes'
    BY <1>5 DEF vars, ofView, TypesInv, ViewTypes, Sent, T!TypeOK
  <2>5. part = "shell" => ShellInv' /\ S!TypeOK'
    BY <1>5 DEF vars, ofShell, TypesInv, ShellInv, S!TypeOK, S!ReloadRestores, S!SelectionExists,
       S!StoredView, S!StoredFilter, S!StoredLayout, S!StoredSession, S!Or, S!Visible
  <2> QED BY <2>1, <2>2, <2>3, <2>4, <2>5 DEF TypesInv
<1> QED BY <1>1, <1>2, <1>3, <1>4, <1>5 DEF Next

(* Each part of the application keeps a state of its type, whatever the    *)
(* order of requests, answers, messages, failures and actions of the user: *)
(* a page shows only tables that there have been, and the screen of a      *)
(* terminal only output that there has been.                               *)
THEOREM TypeCorrect == Spec => []TypeOK
<1>1. TypesInv => TypeOK
  BY LedgerTypes DEF TypesInv, ViewTypes, TypeOK
<1> QED BY <1>1, InitTypes, NextTypes, PTL DEF Spec
=============================================================================
