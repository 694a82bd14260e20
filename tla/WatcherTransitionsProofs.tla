---------------------- MODULE WatcherTransitionsProofs ----------------------
(* That a watcher's transitions exclude each other and leave it whole or not  *)
(* there at all, as long as no room is given another name, and that the file    *)
(* has the rows of the records, then and while rooms trade their names but      *)
(* nothing is started: for any number of rooms, coroutines, records and         *)
(* sessions, with starts and saves that fail, boots, reloads, shutdowns and     *)
(* crashes.                                                                    *)
EXTENDS WatcherLifecycleProofs, MCWatcherLifecycleScopes

-----------------------------------------------------------------------------
(* The inductive invariant.                                                 *)

\* No two rooms have one name, and no room is given another: the records and the rows of
\* the file are then under the names of their rooms.
Home(t) ==
    /\ task[t].at \notin {"free", "room"} =>
           task[t].name = label[task[t].room] /\ task[t].key = task[t].name
    /\ task[t].prior # None =>
           task[t].at \in {"injecting", "subscribing"} /\ task[t].prior.name = task[t].name
    /\ ~Holding(t) => task[t].ws = None
    /\ task[t].op = "boot" => task[t].pin # None
    /\ task[t].op = "join" => task[t].pin = None

Homes ==
    /\ \A r, q \in Rooms : label[r] = label[q] => r = q
    /\ \A r \in Rooms : states[r] # None => states[r].name = label[r]
    /\ \A n \in Names : disk[n] # None => label[disk[n].room] = n
    /\ \A t \in Tasks : Home(t)

\* One wake or join at a time is past the lock of its room, and one that has found no
\* record there finds none until it installs its own.
Makes(t) == task[t].op \in {"wake", "join"} /\ task[t].at \notin {"free", "room"}
Blank(t) == Makes(t) /\ task[t].at = "lock" /\ task[t].pin = None => states[task[t].room] = None
OneMaker == \A t, u \in Tasks : t # u /\ Makes(t) /\ Makes(u) => task[t].room # task[u].room

\* What a transition k finds of its room at each of its awaits: the record w, the
\* processor p, the route d, the bindings maps and the processors up.
Stage(k, w, p, d, maps, up) ==
    /\ k.at \in {"stopping", "dropping", "reclaiming"} =>
         /\ w # None /\ p = None /\ d = None
         /\ w.id = k.pin /\ w.session = k.ses
    /\ k.at = "reclaiming" => k.ws = None
    /\ k.at \in {"stopping", "dropping"} => k.ws \in {None, w.id} /\ ~w.paused
    /\ k.at = "provisioning" =>
         /\ p = None /\ d = None /\ k.ws = None
         /\ w = None <=> k.op = "wake" /\ k.pin = None
         /\ w # None => w.session = None /\ (k.op \in {"resume", "revive"} \/ ~w.paused)
    /\ k.at \in {"injecting", "subscribing"} =>
         /\ w # None /\ d = None
         /\ w.id = k.ws /\ w.session = k.ses /\ ~w.paused
         /\ maps[k.ses] = k.room /\ k.ws \notin up
    /\ k.at = "injecting" => p = None /\ (k.prior = None => k.op = "wake" /\ k.pin = None)
    /\ k.at = "subscribing" => p = k.ws

Staged(t) ==
    Holding(t) => Stage(task[t], states[task[t].room], procs[task[t].room],
                        routed[task[t].room], bound, running)

\* A room that is served, and what is left of one that is not.
Whole(r) ==
    /\ states[r] # None /\ states[r].id = procs[r] /\ ~states[r].paused
    /\ routed[r] = procs[r] /\ procs[r] \in running /\ r \in subscribed
    /\ states[r].session # None /\ bound[states[r].session] = r
RoomFits(r) ==
    /\ procs[r] # None =>
           Whole(r) \/ \E t \in Tasks : task[t].at = "subscribing" /\ task[t].room = r
    /\ routed[r] # None => routed[r] = procs[r]
    /\ \A s \in Sessions : bound[s] = r => SessionOf(states[r]) = s

\* The records and the sessions of two rooms are apart, those a start has replaced and
\* those in the file as well.
HasId(r, i) ==
    \/ IdOf(states[r]) = i
    \/ \E t \in Tasks : task[t].room = r /\ IdOf(task[t].prior) = i
HasSession(r, s) ==
    \/ SessionOf(states[r]) = s
    \/ \E n \in Names : IF disk[n] = None THEN FALSE ELSE disk[n].room = r /\ disk[n].session = s
    \/ \E t \in Tasks : task[t].room = r /\ SessionOf(task[t].prior) = s
Apart ==
    /\ \A r, q \in Rooms, i \in Recs : HasId(r, i) /\ HasId(q, i) => r = q
    /\ \A r, q \in Rooms, s \in Sessions : HasSession(r, s) /\ HasSession(q, s) => r = q
RunningHeld == running \subseteq {procs[r] : r \in Rooms} \cup {task[t].ws : t \in Tasks}

KInv ==
    /\ Homes /\ OneTransition /\ OneMaker /\ Apart /\ RunningHeld
    /\ \A t \in Tasks : Blank(t) /\ Staged(t)
    /\ \A r \in Rooms : RoomFits(r)

-----------------------------------------------------------------------------
(* What a step of one transition leaves alone.                              *)

\* The rooms other than r are as they were, and what it binds or unbinds is r's.
Elsewhere(r) ==
    /\ \A q \in Rooms : q # r =>
         /\ states'[q] = states[q] /\ procs'[q] = procs[q] /\ routed'[q] = routed[q]
         /\ q \in subscribed => q \in subscribed'
         /\ procs[q] \in running => procs[q] \in running'
    /\ \A i \in running' : i \in running \/ i = IdOf(states[r])
    /\ \A s \in Sessions : bound'[s] # bound[s] => {bound[s], bound'[s]} \subseteq {None, r}

\* Nobody else is inside the watcher of r.
Alone(t, r) == \A u \in Tasks : u # t /\ Holding(u) => task[u].room # r

\* A row of the file is one it had, or that of the record with its name.
Saved ==
    \A n \in Names : disk'[n] # None /\ disk'[n] # disk[n] =>
        /\ roomOf'[n] \in Rooms /\ disk'[n].room = roomOf'[n]
        /\ disk'[n].session = SessionOf(states'[roomOf'[n]])

LEMMA SaveSaves ==
    ASSUME IInv', NEW prune, Save(prune)
    PROVE  Saved
<1> SUFFICES ASSUME NEW n \in Names, disk'[n] # None, disk'[n] # disk[n]
             PROVE  /\ roomOf'[n] \in Rooms /\ disk'[n].room = roomOf'[n]
                    /\ disk'[n].session = SessionOf(states'[roomOf'[n]])
  BY DEF Saved
<1>1. roomOf'[n] # None
  BY DEF Save
<1>2. roomOf'[n] \in Rooms /\ states'[roomOf'[n]] # None
  BY <1>1 DEF IInv, Indexed, IndexAgrees
<1>3. disk'[n] = [room |-> roomOf'[n], session |-> states'[roomOf'[n]].session,
                  paused |-> states'[roomOf'[n]].paused,
                  dropped |-> states'[roomOf'[n]].dropped]
  BY <1>1 DEF Save
<1> QED BY <1>2, <1>3 DEF SessionOf

LEMMA UnsavedIsSaved == ASSUME UNCHANGED disk PROVE Saved
BY DEF Saved

LEMMA OthersRoom ==
    ASSUME IInv, KInv, NEW r \in Rooms, Elsewhere(r), NEW q \in Rooms, q # r,
           \A u \in Tasks : task[u].room = q => task'[u] = task[u]
    PROVE  RoomFits(q)'
<1>1. RoomFits(q)
  BY DEF KInv
<1>2. /\ states'[q] = states[q] /\ procs'[q] = procs[q] /\ routed'[q] = routed[q]
      /\ q \in subscribed => q \in subscribed'
      /\ procs[q] \in running => procs[q] \in running'
  BY DEF Elsewhere
<1>3. \A s \in Sessions : bound'[s] = q <=> bound[s] = q
  BY NoneAssumption DEF Elsewhere
<1>4. Whole(q) => Whole(q)'
  <2>1. ASSUME Whole(q) PROVE states[q].session \in Sessions
    BY <2>1, RecordsAre DEF Whole, IInv, Indexed
  <2> QED BY <1>2, <1>3, <2>1 DEF Whole
<1>5. (\E t \in Tasks : task[t].at = "subscribing" /\ task[t].room = q)
      => \E t \in Tasks : task'[t].at = "subscribing" /\ task'[t].room = q
  OBVIOUS
<1> QED BY <1>1, <1>2, <1>3, <1>4, <1>5 DEF RoomFits

LEMMA OthersStage ==
    ASSUME IInv, KInv, NEW r \in Rooms, Elsewhere(r), NEW u \in Tasks,
           task'[u] = task[u], Holding(u) => task[u].room # r
    PROVE  Staged(u)'
<1> DEFINE q == task[u].room
<1> SUFFICES ASSUME Holding(u)
             PROVE  Stage(task[u], states'[q], procs'[q], routed'[q], bound', running')
  BY DEF Staged, Holding, Busy, Waiting
<1>1. q \in Rooms /\ q # r
  BY FieldsOf DEF IInv, Fits, Holding, Busy
<1>2. states'[q] = states[q] /\ procs'[q] = procs[q] /\ routed'[q] = routed[q]
  BY <1>1 DEF Elsewhere
<1>3. task[u].at \in {"injecting", "subscribing"} /\ bound[task[u].ses] = q
      => bound'[task[u].ses] = q
  <2>1. task[u].at \in {"injecting", "subscribing"} => task[u].ses \in Sessions
    BY FieldsOf DEF IInv, Fits
  <2> QED BY <1>1, <2>1, NoneAssumption DEF Elsewhere
<1>4. Stage(task[u], states[q], procs[q], routed[q], bound, running)
  BY DEF KInv, Staged
<1>5. task[u].at \in {"injecting", "subscribing"} => task[u].ws \notin running'
  <2> SUFFICES ASSUME task[u].at \in {"injecting", "subscribing"}, task[u].ws = IdOf(states[r])
               PROVE  FALSE
    BY <1>4 DEF Elsewhere, Stage
  <2>1. task[u].ws = IdOf(states[q]) /\ task[u].ws \in Recs
    BY <1>4, FieldsOf DEF Stage, IInv, Fits, IdOf
  <2> QED BY <1>1, <2>1 DEF KInv, Apart, HasId
<1> QED BY <1>2, <1>3, <1>4, <1>5 DEF Stage

-----------------------------------------------------------------------------
(* One transition steps: what is left to show is about its room.             *)

\* A step of t that is inside the watcher of r, or enters it.
Inside(t, r, k) ==
    /\ task[t].at \notin {"free", "room"} /\ task[t].room = r
    /\ Go(t, k) /\ (k = Idle \/ k.room = r)
    /\ Alone(t, r) /\ Elsewhere(r) /\ Saved /\ label' = label

\* The step installs a record of the room, or one nobody has.
OldOrNew(t, r) ==
    /\ \A i \in Recs : IdOf(states'[r]) = i \/ IdOf(task'[t].prior) = i
                          => HasId(r, i) \/ i \notin UsedIds
    /\ \A s \in Sessions : SessionOf(states'[r]) = s \/ SessionOf(task'[t].prior) = s
                              => HasSession(r, s) \/ s \notin UsedSessions

LEMMA UsedIdsAre ==
    ASSUME IInv, NEW q \in Rooms, NEW i \in Recs, HasId(q, i)
    PROVE  i \in UsedIds
<1>1. CASE IdOf(states[q]) = i
  BY <1>1 DEF UsedIds
<1>2. CASE \E u \in Tasks : task[u].room = q /\ IdOf(task[u].prior) = i
  <2>1. PICK u \in Tasks : IdOf(task[u].prior) = i
    BY <1>2
  <2>2. i \in {task[u].pin, task[u].ws, IdOf(task[u].prior)}
    BY <2>1
  <2> QED BY <2>2 DEF UsedIds
<1> QED BY <1>1, <1>2 DEF HasId

LEMMA UsedSessionsAre ==
    ASSUME IInv, NEW q \in Rooms, NEW s \in Sessions, HasSession(q, s)
    PROVE  s \in UsedSessions
<1>1. CASE SessionOf(states[q]) = s
  BY <1>1 DEF UsedSessions
<1>2. CASE \E n \in Names : IF disk[n] = None THEN FALSE ELSE disk[n].room = q /\ disk[n].session = s
  <2>1. PICK n \in Names : disk[n] # None /\ disk[n].session = s
    BY <1>2
  <2>2. SessionOf(disk[n]) = s
    BY <2>1 DEF SessionOf
  <2> QED BY <2>2 DEF UsedSessions
<1>3. CASE \E u \in Tasks : task[u].room = q /\ SessionOf(task[u].prior) = s
  <2>1. PICK u \in Tasks : SessionOf(task[u].prior) = s
    BY <1>3
  <2>2. s \in {task[u].ses, SessionOf(task[u].prior)}
    BY <2>1
  <2> QED BY <2>2 DEF UsedSessions
<1> QED BY <1>1, <1>2, <1>3 DEF HasSession

\* Records and sessions stay apart, and the file's rows under their names.
LEMMA ApartStep ==
    ASSUME IInv, IInv', KInv, NEW t \in Tasks, NEW r \in Rooms, NEW k, Inside(t, r, k),
           OldOrNew(t, r)
    PROVE  Apart'
<1>1. ASSUME NEW u \in Tasks, u # t PROVE task'[u] = task[u]
  BY <1>1 DEF Inside, Go, IInv, Places
<1>2. task'[t].room \in {r, None}
  BY DEF Inside, Go, IInv, Places, Idle
<1>3. ASSUME NEW q \in Rooms, NEW i \in Recs, HasId(q, i)'
      PROVE  HasId(q, i) \/ (q = r /\ i \notin UsedIds)
  <2>1. CASE q = r
    <3>1. CASE IdOf(states'[q]) = i \/ IdOf(task'[t].prior) = i
      BY <2>1, <3>1 DEF OldOrNew
    <3>2. CASE \E u \in Tasks : u # t /\ task'[u].room = q /\ IdOf(task'[u].prior) = i
      BY <1>1, <3>2 DEF HasId
    <3> QED BY <1>3, <3>1, <3>2 DEF HasId
  <2>2. CASE q # r
    <3>1. states'[q] = states[q]
      BY <2>2 DEF Inside, Elsewhere
    <3>2. task'[t].room # q
      BY <1>2, <2>2, NoneAssumption
    <3> QED BY <1>1, <1>3, <3>1, <3>2 DEF HasId
  <2> QED BY <2>1, <2>2
<1>4. ASSUME NEW q \in Rooms, NEW s \in Sessions, HasSession(q, s)'
      PROVE  HasSession(q, s) \/ (q = r /\ s \notin UsedSessions)
  <2>1. CASE SessionOf(states'[q]) = s
    <3>1. CASE q = r
      BY <2>1, <3>1 DEF OldOrNew
    <3>2. CASE q # r
      BY <2>1, <3>2 DEF Inside, Elsewhere, HasSession
    <3> QED BY <3>1, <3>2
  <2>2. CASE \E n \in Names : IF disk'[n] = None THEN FALSE
                              ELSE disk'[n].room = q /\ disk'[n].session = s
    <3>1. PICK n \in Names : disk'[n] # None /\ disk'[n].room = q /\ disk'[n].session = s
      BY <2>2
    <3>2. CASE disk'[n] = disk[n]
      BY <3>1, <3>2 DEF HasSession
    <3>3. CASE disk'[n] # disk[n]
      <4>1. SessionOf(states'[q]) = s
        BY <3>1, <3>3 DEF Inside, Saved
      <4> QED BY <2>1, <4>1
    <3> QED BY <3>2, <3>3
  <2>3. CASE \E u \in Tasks : task'[u].room = q /\ SessionOf(task'[u].prior) = s
    <3>1. PICK u \in Tasks : task'[u].room = q /\ SessionOf(task'[u].prior) = s
      BY <2>3
    <3>2. CASE u = t
      <4>1. q = r
        BY <1>2, <3>1, <3>2, NoneAssumption
      <4> QED BY <3>1, <3>2, <4>1 DEF OldOrNew
    <3>3. CASE u # t
      BY <1>1, <3>1, <3>3 DEF HasSession
    <3> QED BY <3>2, <3>3
  <2> QED BY <1>4, <2>1, <2>2, <2>3 DEF HasSession
<1>5. ASSUME NEW q \in Rooms, NEW p \in Rooms, NEW i \in Recs, HasId(q, i)', HasId(p, i)'
      PROVE  q = p
  BY <1>3, <1>5, UsedIdsAre DEF KInv, Apart
<1>6. ASSUME NEW q \in Rooms, NEW p \in Rooms, NEW s \in Sessions,
             HasSession(q, s)', HasSession(p, s)'
      PROVE  q = p
  BY <1>4, <1>6, UsedSessionsAre DEF KInv, Apart
<1> QED BY <1>5, <1>6 DEF Apart

LEMMA HomesStep ==
    ASSUME IInv, IInv', KInv, NEW t \in Tasks, NEW r \in Rooms, NEW k, Inside(t, r, k),
           Home(t)', states'[r] # None => states'[r].name = label[r]
    PROVE  Homes'
<1>1. ASSUME NEW q \in Rooms, states'[q] # None PROVE states'[q].name = label[q]
  BY <1>1 DEF KInv, Homes, Inside, Elsewhere
<1>2. ASSUME NEW n \in Names, disk'[n] # None PROVE label[disk'[n].room] = n
  <2>1. CASE disk'[n] = disk[n]
    BY <1>2, <2>1 DEF KInv, Homes
  <2>2. CASE disk'[n] # disk[n]
    <3>1. roomOf'[n] \in Rooms /\ disk'[n].room = roomOf'[n]
      BY <1>2, <2>2 DEF Inside, Saved
    <3>2. states'[roomOf'[n]] # None /\ states'[roomOf'[n]].name = n
      BY <3>1 DEF IInv, Indexed, IndexAgrees
    <3> QED BY <1>1, <3>1, <3>2
  <2> QED BY <2>1, <2>2
<1>3. ASSUME NEW u \in Tasks, u # t PROVE Home(u)'
  <2>1. task'[u] = task[u] /\ label' = label
    BY <1>3 DEF Inside, Go, IInv, Places
  <2>2. Home(u)
    BY DEF KInv, Homes
  <2> QED BY <2>1, <2>2 DEF Home, Holding, Busy, Waiting
<1>4. label' = label
  BY DEF Inside
<1>5. \A p, q \in Rooms : label[p] = label[q] => p = q
  BY DEF KInv, Homes
<1> QED BY <1>1, <1>2, <1>3, <1>4, <1>5 DEF Homes

LEMMA StepKeeps ==
    ASSUME IInv, IInv', KInv, NEW t \in Tasks, NEW r \in Rooms, NEW k, Inside(t, r, k),
           OldOrNew(t, r), states'[r] # None => states'[r].name = label[r],
           Home(t)', Staged(t)', Blank(t)', RoomFits(r)', RunningHeld',
           Makes(t)' => Makes(t),
           states[r] = None /\ states'[r] # None => Makes(t)
    PROVE  KInv'
<1>1. ASSUME NEW u \in Tasks, u # t PROVE task'[u] = task[u]
  BY <1>1 DEF Inside, Go, IInv, Places
<1>2. Apart' /\ Homes'
  BY ApartStep, HomesStep
<1>3. OneTransition'
  <2> SUFFICES ASSUME NEW u \in Tasks, u # t, Holding(u), Holding(t)'
               PROVE  task[u].room # task'[t].room
    BY <1>1 DEF KInv, OneTransition, Holding, Busy, Waiting
  <2>1. task'[t].room = r
    BY DEF Inside, Go, IInv, Places, Holding, Busy, Idle
  <2> QED BY <2>1 DEF Inside, Alone
<1>4. OneMaker'
  <2> SUFFICES ASSUME NEW u \in Tasks, u # t, Makes(u), Makes(t)'
               PROVE  task[u].room # task'[t].room
    BY <1>1 DEF KInv, OneMaker, Makes
  <2>1. task'[t].room = r /\ task[t].room = r
    BY DEF Inside, Go, IInv, Places, Makes, Idle
  <2> QED BY <2>1 DEF KInv, OneMaker
<1>5. ASSUME NEW u \in Tasks, u # t PROVE Staged(u)'
  BY <1>1, <1>5, OthersStage DEF Inside, Alone
<1>6. ASSUME NEW u \in Tasks, u # t PROVE Blank(u)'
  <2> SUFFICES ASSUME Makes(u), task[u].at = "lock", task[u].pin = None
               PROVE  states'[task[u].room] = None
    BY <1>1, <1>6 DEF Blank, Makes
  <2>1. states[task[u].room] = None
    BY DEF KInv, Blank
  <2>2. task[u].room \in Rooms
    BY FieldsOf DEF IInv, Fits
  <2>3. CASE task[u].room = r
    <3>1. ~Makes(t)
      BY <1>6, <2>3 DEF KInv, OneMaker, Inside
    <3> QED BY <2>1, <2>3, <3>1
  <2>4. CASE task[u].room # r
    BY <2>1, <2>2, <2>4 DEF Inside, Elsewhere
  <2> QED BY <2>3, <2>4
<1>7. ASSUME NEW q \in Rooms, q # r PROVE RoomFits(q)'
  <2>1. \A u \in Tasks : task[u].room = q => task'[u] = task[u]
    BY <1>1, <1>7 DEF Inside
  <2> QED BY <1>7, <2>1, OthersRoom DEF Inside
<1> QED BY <1>2, <1>3, <1>4, <1>5, <1>6, <1>7 DEF KInv

-----------------------------------------------------------------------------
(* At home: what a transition finds under its name is its room's.            *)

LEMMA AtHome ==
    ASSUME IInv, KInv, NEW t \in Tasks, task[t].at \notin {"free", "room"}
    PROVE  LET r == task[t].room
               n == task[t].name
           IN /\ r \in Rooms /\ n = label[r] /\ task[t].key = n /\ n \in Names
              /\ roomOf[n] = IF states[r] = None THEN None ELSE r
              /\ Named(n) = states[r] /\ Installable(r, n)
<1> DEFINE r == task[t].room
           n == task[t].name
<1>1. r \in Rooms /\ n = label[r] /\ task[t].key = n /\ n \in Names
  BY FieldsOf DEF IInv, Fits, KInv, Homes, Home
<1>2. \A q \in Rooms : states[q] # None /\ states[q].name = n => q = r
  BY <1>1 DEF KInv, Homes
<1>3. states[r] # None => states[r].name = n
  BY <1>1 DEF KInv, Homes
<1>4. roomOf[n] = IF states[r] = None THEN None ELSE r
  <2>1. roomOf[n] \in Rooms \cup {None}
    BY <1>1 DEF IInv, Indexed
  <2>2. \A q \in Rooms : roomOf[n] = q => q = r /\ states[r] # None
    BY <1>1, <1>2, NoneAssumption DEF IInv, Indexed, IndexAgrees
  <2>3. states[r] # None => roomOf[n] = r
    BY <1>1, <1>3 DEF IInv, Indexed, IndexAgrees
  <2> QED BY <2>1, <2>2, <2>3
<1>5. Named(n) = states[r]
  BY <1>1, <1>4, NoneAssumption DEF Named
<1>6. Installable(r, n)
  BY <1>4 DEF Installable
<1> QED BY <1>1, <1>4, <1>5, <1>6

\* Who takes the lock of the name, or has it, is alone in the room.
LEMMA LockAlone ==
    ASSUME IInv, KInv, NEW t \in Tasks, task[t].at = "lock", LockFree(task[t].key)
    PROVE  Alone(t, task[t].room)
<1> SUFFICES ASSUME NEW u \in Tasks, u # t, Holding(u), task[u].room = task[t].room
             PROVE  FALSE
  BY DEF Alone
<1>1. task[u].key = task[t].key
  BY DEF KInv, Homes, Home, Holding, Busy, Waiting
<1> QED BY <1>1 DEF LockFree

LEMMA HolderAlone ==
    ASSUME KInv, NEW t \in Tasks, Holding(t)
    PROVE  Alone(t, task[t].room)
BY DEF KInv, OneTransition, Alone

\* When nobody is inside, a room that has a processor is served.
LEMMA ServedOrDown ==
    ASSUME KInv, NEW t \in Tasks, task[t].at = "lock", Alone(t, task[t].room),
           task[t].room \in Rooms, procs[task[t].room] # None
    PROVE  Whole(task[t].room)
BY DEF KInv, RoomFits, Alone, Holding, Busy, Waiting

\* A session of the room's record is bound to the room or to none.
LEMMA OwnSession ==
    ASSUME IInv, KInv, NEW r \in Rooms, NEW s \in Sessions, SessionOf(states[r]) = s
    PROVE  bound[s] \in {None, r}
<1>1. bound[s] \in Rooms \cup {None}
  BY DEF IInv, Maps
<1>2. ASSUME NEW q \in Rooms, bound[s] = q PROVE q = r
  <2>1. SessionOf(states[q]) = s
    BY <1>2 DEF KInv, RoomFits
  <2> QED BY <2>1 DEF KInv, Apart, HasSession
<1> QED BY <1>1, <1>2

LEMMA UnusedSession ==
    ASSUME IInv, NEW s \in Sessions, s \notin UsedSessions
    PROVE  bound[s] = None
BY DEF UsedSessions

\* Nothing a transition does before it enters concerns the watcher.
LEMMA RequestKeeps ==
    ASSUME IInv, IInv', KInv, NEW t \in Tasks, NEW k, Go(t, k), ~Holding(t), ~Holding(t)',
           UNCHANGED <<label, indexVars, routeVars, bound, disk>>, k.prior = None, k.ws = None,
           Home(t)', Blank(t)', Makes(t)' => \/ Makes(t) /\ k.room = task[t].room
                                             \/ RoomLockFree(k.room)
    PROVE  KInv'
<1>1. task'[t] = k /\ \A u \in Tasks : u # t => task'[u] = task[u]
  BY DEF Go, IInv, Places
<1>2. /\ label' = label /\ states' = states /\ roomOf' = roomOf /\ procs' = procs
      /\ routed' = routed /\ running' = running /\ subscribed' = subscribed
      /\ bound' = bound /\ disk' = disk
  BY DEF indexVars, routeVars
<1>3. Homes'
  <2>1. ASSUME NEW u \in Tasks, u # t PROVE Home(u)'
    <3>1. Home(u)
      BY DEF KInv, Homes
    <3> QED BY <1>1, <1>2, <2>1, <3>1 DEF Home, Holding, Busy, Waiting
  <2> QED BY <1>2, <2>1 DEF KInv, Homes
<1>4. OneTransition'
  BY <1>1 DEF KInv, OneTransition, Holding, Busy, Waiting
<1>5. OneMaker'
  <2> SUFFICES ASSUME NEW u \in Tasks, u # t, Makes(u), Makes(t)'
               PROVE  task[u].room # k.room
    BY <1>1 DEF KInv, OneMaker, Makes
  <2>1. CASE Makes(t) /\ k.room = task[t].room
    BY <2>1 DEF KInv, OneMaker
  <2>2. CASE RoomLockFree(k.room)
    BY <2>2 DEF RoomLockFree, Makes
  <2> QED BY <2>1, <2>2
<1>6. Apart'
  <2>1. \A q \in Rooms, i \in Recs : HasId(q, i)' => HasId(q, i)
    BY <1>1, <1>2, NoneAssumption DEF HasId, IdOf
  <2>2. \A q \in Rooms, s \in Sessions : HasSession(q, s)' => HasSession(q, s)
    BY <1>1, <1>2, NoneAssumption DEF HasSession, SessionOf
  <2> QED BY <2>1, <2>2 DEF KInv, Apart
<1>7. RunningHeld'
  <2>1. task[t].ws = None
    BY DEF KInv, Homes, Home
  <2>2. \A i \in running : i \in Recs /\ i # None
    BY NoneAssumption DEF IInv, Routes
  <2> QED BY <1>1, <1>2, <2>1, <2>2 DEF KInv, RunningHeld
<1>8. ASSUME NEW u \in Tasks, u # t PROVE Blank(u)' /\ Staged(u)'
  <2>1. Blank(u) /\ Staged(u)
    BY DEF KInv
  <2> QED BY <1>1, <1>2, <1>8, <2>1 DEF Blank, Makes, Staged, Holding, Busy, Waiting
<1>9. Staged(t)'
  BY DEF Staged
<1>10. ASSUME NEW q \in Rooms PROVE RoomFits(q)'
  <2>1. RoomFits(q)
    BY DEF KInv
  <2>2. Whole(q) => Whole(q)'
    BY <1>2 DEF Whole
  <2>3. \A u \in Tasks : task[u].at = "subscribing" => task'[u] = task[u]
    BY <1>1 DEF Holding, Busy, Waiting
  <2> QED BY <1>2, <2>1, <2>2, <2>3 DEF RoomFits
<1> QED BY <1>3, <1>4, <1>5, <1>6, <1>7, <1>8, <1>9, <1>10 DEF KInv

-----------------------------------------------------------------------------
(* Requests.                                                                *)

LEMMA LeavingAtLock ==
    ASSUME IInv, IInv', KInv, NEW t \in Tasks, ~Holding(t), Leave(t),
           UNCHANGED <<label, indexVars, routeVars, bound, disk>>
    PROVE  KInv'
<1>1. task'[t] = Idle
  BY DEF Leave, Go, IInv, Places
<1>2. ~Holding(t)' /\ Home(t)' /\ Blank(t)' /\ ~Makes(t)'
  BY <1>1 DEF Idle, Holding, Busy, Waiting, Home, Blank, Makes
<1>3. Idle.prior = None /\ Idle.ws = None
  BY DEF Idle
<1> QED BY <1>2, <1>3, RequestKeeps DEF Leave

LEMMA OfferStep ==
    ASSUME IInv, IInv', KInv, NEW t \in Tasks, NEW op \in Ops, NEW r \in Rooms, Offer(t, op, r)
    PROVE  KInv'
<1> DEFINE k == [[Idle EXCEPT !.at = "room"] EXCEPT !.op = op, !.room = r]
<1>1. /\ op \in {"wake", "join"} /\ ~Busy(t) /\ Go(t, k)
      /\ UNCHANGED <<label, indexVars, routeVars, bound, disk>>
  BY DEF Offer, Request
<1>2. k.at = "room" /\ k.op = op /\ k.prior = None /\ k.ws = None /\ k.pin = None
  BY DEF Idle
<1>3. task'[t] = k
  BY <1>1 DEF Go, IInv, Places
<1> HIDE DEF k
<1>4. ~Holding(t)' /\ Home(t)' /\ Blank(t)' /\ ~Makes(t)' /\ ~Holding(t)
  BY <1>1, <1>2, <1>3 DEF Holding, Busy, Waiting, Home, Blank, Makes
<1> QED BY <1>1, <1>2, <1>4, RequestKeeps

LEMMA OnRecordStep ==
    ASSUME IInv, IInv', KInv, NEW t \in Tasks, NEW op, op \notin {"wake", "join", "boot"},
           NEW r \in Rooms, OnRecord(t, op, r)
    PROVE  KInv'
<1> DEFINE k == [[Idle EXCEPT !.at = "lock", !.name = states[r].name, !.key = states[r].name,
                              !.pin = states[r].id] EXCEPT !.op = op, !.room = r]
<1>1. /\ states[r] # None /\ ~Busy(t) /\ Go(t, k)
      /\ UNCHANGED <<label, indexVars, routeVars, bound, disk>>
  BY DEF OnRecord, Request
<1>2. /\ k.at = "lock" /\ k.op = op /\ k.prior = None /\ k.ws = None /\ k.room = r
      /\ k.name = states[r].name /\ k.key = k.name
  BY DEF Idle
<1>3. task'[t] = k
  BY <1>1 DEF Go, IInv, Places
<1>4. states[r].name = label[r] /\ label' = label
  BY <1>1 DEF KInv, Homes
<1> HIDE DEF k
<1>5. ~Holding(t)' /\ Home(t)' /\ Blank(t)' /\ ~Makes(t)' /\ ~Holding(t)
  BY <1>1, <1>2, <1>3, <1>4 DEF Holding, Busy, Waiting, Home, Blank, Makes
<1> QED BY <1>1, <1>2, <1>5, RequestKeeps

LEMMA EnterRoomStep ==
    ASSUME IInv, IInv', KInv, NEW t \in Tasks, EnterRoom(t)
    PROVE  KInv'
<1> DEFINE r == task[t].room
           w == states[r]
           n == IF w = None THEN label[r] ELSE w.name
           k == [task[t] EXCEPT !.at = "lock", !.name = n, !.key = n, !.pin = IdOf(w)]
<1>1. /\ task[t].at = "room" /\ RoomLockFree(r)
      /\ UNCHANGED <<label, indexVars, routeVars, bound, disk>>
      /\ \/ Leave(t)
         \/ /\ Go(t, k) /\ (task[t].op = "boot" => IdOf(w) = task[t].pin)
            /\ task[t].op = "join" => w = None
  BY DEF EnterRoom
<1>2. ~Holding(t)
  BY <1>1 DEF Holding, Waiting
<1>3. CASE Leave(t)
  BY <1>1, <1>2, <1>3, LeavingAtLock
<1>4. CASE /\ Go(t, k) /\ (task[t].op = "boot" => IdOf(w) = task[t].pin)
           /\ task[t].op = "join" => w = None
  <2>1. r \in Rooms /\ task[t] \in Coroutines
    BY <1>1, FieldsOf DEF IInv, Fits
  <2>2. n = label[r] /\ label' = label
    BY <1>1, <2>1 DEF KInv, Homes
  <2>3. /\ k.at = "lock" /\ k.op = task[t].op /\ k.prior = task[t].prior /\ k.ws = task[t].ws
        /\ k.room = r /\ k.name = n /\ k.key = n /\ k.pin = IdOf(w)
    BY <2>1 DEF Coroutines
  <2>4. k.prior = None /\ k.ws = None /\ (task[t].op = "boot" => task[t].pin # None)
    BY <1>1, <1>2, <2>3 DEF KInv, Homes, Home
  <2>5. IdOf(w) = None <=> w = None
    BY <2>1, RecordsAre DEF IInv, Indexed, IdOf
  <2>6. task'[t] = k /\ states' = states
    BY <1>1, <1>4 DEF Go, IInv, Places, indexVars
  <2> HIDE DEF k, n
  <2>7. ~Holding(t)' /\ Home(t)' /\ Blank(t)'
    BY <1>4, <2>2, <2>3, <2>4, <2>5, <2>6 DEF Holding, Busy, Waiting, Home, Blank, Makes
  <2> QED BY <1>1, <1>2, <1>4, <2>3, <2>4, <2>7, RequestKeeps
<1> QED BY <1>1, <1>3, <1>4

-----------------------------------------------------------------------------
(* A start.                                                                 *)

\* What its caller has done to the bindings and the processors that are up.
Handed(t, r, maps) ==
    /\ \A s \in Sessions : maps[s] # bound[s] => maps[s] = None /\ bound[s] = r
    /\ running' \subseteq running
    /\ \A q \in Rooms : q # r /\ procs[q] \in running => procs[q] \in running'
    /\ \A i \in running' : \/ \E q \in Rooms : procs[q] = i
                           \/ \E u \in Tasks : u # t /\ task[u].ws = i

LEMMA HandedIsHeld ==
    ASSUME IInv, NEW t \in Tasks, NEW r, NEW maps, NEW k, Go(t, k), Handed(t, r, maps),
           procs' = procs
    PROVE  RunningHeld'
<1>1. \A u \in Tasks : u # t => task'[u] = task[u]
  BY DEF Go, IInv, Places
<1> QED BY <1>1 DEF Handed, RunningHeld

LEMMA BuildStep ==
    ASSUME IInv, IInv', KInv, NEW t \in Tasks, NEW r, r = task[t].room,
           task[t].at \in {"lock", "stopping", "provisioning"}, Alone(t, r),
           NEW s \in Sessions, NEW b \in BOOLEAN, NEW maps \in [Sessions -> Rooms \cup {None}],
           NEW fields, fields = task[t] \/ fields = [task[t] EXCEPT !.fresh = FALSE],
           procs[r] = None, routed[r] = None,
           IdsLeft, Build(t, r, task[t].name, s, b, maps, fields), Handed(t, r, maps),
           UNCHANGED <<label, procs, routed, subscribed, disk>>,
           SessionOf(states[r]) = s \/ (s \notin UsedSessions /\ SessionOf(states[r]) = None),
           states[r] = None => task[t].op = "wake" /\ task[t].pin = None
    PROVE  KInv'
<1> DEFINE n == task[t].name
           w == [id |-> NewId, name |-> n, session |-> s, paused |-> FALSE, dropped |-> b]
           k == [fields EXCEPT !.at = "injecting", !.name = n, !.ws = NewId,
                               !.prior = states[r], !.ses = s]
<1>1. /\ r \in Rooms /\ n = label[r] /\ task[t].key = n /\ n \in Names
      /\ Named(n) = states[r] /\ Installable(r, n)
  BY AtHome
<1>2. /\ Install(r, w) /\ bound' = [maps EXCEPT ![s] = r] /\ Go(t, k)
  BY <1>1 DEF Build
<1>3. NewId \in Recs /\ NewId \notin UsedIds
  BY DEF IdsLeft, NewId
<1>4. /\ w # None /\ w.id = NewId /\ w.session = s /\ w.name = n /\ ~w.paused
  BY <1>1, <1>3, RecordsAre DEF Records
<1>5. /\ states'[r] = w /\ \A q \in Rooms : q # r => states'[q] = states[q]
      /\ \A x \in Sessions : bound'[x] = IF x = s THEN r ELSE maps[x]
  BY <1>1, <1>2 DEF Install, IInv, Indexed
<1>6. /\ task'[t] = k /\ k.at = "injecting" /\ k.name = n /\ k.ws = NewId
      /\ k.prior = states[r] /\ k.ses = s /\ k.room = r /\ k.key = n
      /\ k.op = task[t].op /\ k.pin = task[t].pin
  <2>1. task'[t] = k /\ task[t] \in Coroutines
    BY <1>2, FieldsOf DEF Go, IInv, Places
  <2> QED BY <1>1, <2>1 DEF Coroutines
<1> HIDE DEF n, w, k
<1>7. bound[s] \in {None, r}
  BY <1>1, OwnSession, UnusedSession
<1>8. Elsewhere(r)
  <2>1. ASSUME NEW x \in Sessions, bound'[x] # bound[x]
        PROVE  {bound[x], bound'[x]} \subseteq {None, r}
    BY <1>5, <1>7, <2>1 DEF Handed
  <2> QED BY <1>5, <2>1 DEF Elsewhere, Handed
<1>9. Inside(t, r, k)
  BY <1>2, <1>6, <1>8, UnsavedIsSaved DEF Inside
<1>10. OldOrNew(t, r)
  <2>1. ASSUME NEW i \in Recs, IdOf(states'[r]) = i \/ IdOf(task'[t].prior) = i
        PROVE  HasId(r, i) \/ i \notin UsedIds
    BY <1>3, <1>4, <1>5, <1>6, <2>1 DEF IdOf, HasId
  <2>2. ASSUME NEW x \in Sessions, SessionOf(states'[r]) = x \/ SessionOf(task'[t].prior) = x
        PROVE  HasSession(r, x) \/ x \notin UsedSessions
    BY <1>4, <1>5, <1>6, <2>2 DEF SessionOf, HasSession
  <2> QED BY <2>1, <2>2 DEF OldOrNew
<1>11. Home(t)' /\ Blank(t)' /\ (Makes(t)' => Makes(t))
  <2>1. states[r] # None => states[r].name = n
    BY <1>1 DEF KInv, Homes
  <2>2. label' = label /\ Home(t)
    BY DEF KInv, Homes
  <2> QED BY <1>1, <1>6, <2>1, <2>2 DEF Home, Blank, Makes, Holding, Busy, Waiting
<1>12. Staged(t)'
  <2>1. NewId \notin running'
    BY <1>3 DEF Handed, UsedIds
  <2> QED BY <1>4, <1>5, <1>6, <2>1 DEF Staged, Stage
<1>13. RoomFits(r)'
  <2>1. ASSUME NEW x \in Sessions, bound'[x] = r PROVE SessionOf(states'[r]) = x
    <3>1. CASE x = s
      BY <1>4, <1>5, <3>1 DEF SessionOf
    <3>2. CASE x # s
      <4>1. bound[x] = r
        BY <1>1, <1>5, <2>1, <3>2, NoneAssumption DEF Handed
      <4>2. SessionOf(states[r]) = x
        BY <1>1, <4>1 DEF KInv, RoomFits
      <4> QED BY <3>2, <4>2, NoneAssumption
    <3> QED BY <3>1, <3>2
  <2> QED BY <2>1 DEF RoomFits
<1>14. RunningHeld'
  BY <1>2, HandedIsHeld
<1>15. states[r] = None => Makes(t)
  BY DEF Makes
<1> QED BY <1>1, <1>4, <1>5, <1>9, <1>10, <1>11, <1>12, <1>13, <1>14, <1>15, StepKeeps

LEMMA ProvisioningStep ==
    ASSUME IInv, IInv', KInv, NEW t \in Tasks, NEW r, r = task[t].room,
           task[t].at \in {"lock", "stopping"}, Alone(t, r), NEW k,
           \/ k = [task[t] EXCEPT !.at = "provisioning", !.ws = None, !.ses = None,
                                  !.fresh = TRUE]
           \/ k = [task[t] EXCEPT !.at = "provisioning", !.name = task[t].name, !.ws = None,
                                  !.ses = None, !.fresh = TRUE],
           Go(t, k), procs[r] = None, routed[r] = None, Handed(t, r, bound'),
           UNCHANGED <<label, procs, routed, subscribed, disk>>,
           \A q \in Rooms : q # r => states'[q] = states[q],
           IdOf(states'[r]) = IdOf(states[r]), SessionOf(states'[r]) = None,
           states'[r] # None => states'[r].name = label[r],
           states[r] = None => states'[r] = None,
           \A s \in Sessions : bound'[s] # r,
           states'[r] # None => task[t].op \in {"resume", "revive"} \/ ~states'[r].paused,
           states'[r] = None <=> task[t].op = "wake" /\ task[t].pin = None
    PROVE  KInv'
<1>1. r \in Rooms /\ task[t].key = task[t].name /\ task[t].name = label[r]
  BY AtHome
<1>2. /\ task'[t] = k /\ k.at = "provisioning" /\ k.ws = None /\ k.prior = task[t].prior
      /\ k.room = r /\ k.name = task[t].name /\ k.key = task[t].key
      /\ k.op = task[t].op /\ k.pin = task[t].pin
  <2>1. task'[t] = k /\ task[t] \in Coroutines
    BY FieldsOf DEF Go, IInv, Places
  <2> QED BY <2>1 DEF Coroutines
<1>3. task[t].prior = None /\ label' = label /\ (task[t].op = "boot" => task[t].pin # None)
      /\ (task[t].op = "join" => task[t].pin = None)
  BY DEF KInv, Homes, Home
<1>4. Elsewhere(r)
  BY DEF Elsewhere, Handed
<1>5. Inside(t, r, k)
  BY <1>2, <1>4, UnsavedIsSaved DEF Inside
<1>6. OldOrNew(t, r)
  BY <1>2, <1>3, NoneAssumption DEF OldOrNew, HasId, IdOf, SessionOf
<1>7. Home(t)' /\ Blank(t)' /\ (Makes(t)' => Makes(t))
  BY <1>1, <1>2, <1>3 DEF Home, Blank, Makes, Holding, Busy, Waiting
<1>8. Staged(t)'
  <2>1. states'[r] # None => states'[r].session = None
    BY DEF SessionOf
  <2> QED BY <1>2, <2>1 DEF Staged, Stage
<1>9. RoomFits(r)'
  BY DEF RoomFits
<1>10. RunningHeld'
  BY HandedIsHeld
<1> QED BY <1>1, <1>5, <1>6, <1>7, <1>8, <1>9, <1>10, StepKeeps

LEMMA StartStep ==
    ASSUME IInv, IInv', KInv, NEW t \in Tasks, NEW r, r = task[t].room,
           task[t].at \in {"lock", "stopping"}, Alone(t, r),
           NEW maps \in [Sessions -> Rooms \cup {None}],
           Start(t, r, task[t].name, states[r], maps), Handed(t, r, maps),
           UNCHANGED <<label, procs, routed, subscribed, disk>>,
           states[r] = None <=> task[t].op = "wake" /\ task[t].pin = None,
           states[r] # None => task[t].op \in {"resume", "revive"} \/ ~states[r].paused,
           \/ procs[r] = None /\ routed[r] = None
           \/ task[t].at = "lock" /\ maps = bound /\ running' = running
    PROVE  KInv'
<1> DEFINE n == task[t].name
           w == states[r]
           carried == task[t].op \in {"restart", "revive"} /\ w # None /\ w.dropped
<1>1. r \in Rooms /\ n = label[r] /\ Installable(r, n)
  BY AtHome
<1>2. w \in Records \cup {None}
  BY <1>1 DEF IInv, Indexed
<1>3. CASE Refused(r, n)
  <2>1. routed[r] # None
    BY <1>1, <1>3 DEF Refused
  <2>2. task[t].at = "lock" /\ maps = bound /\ running' = running
    BY <2>1
  <2>3. Leave(t) /\ bound' = bound /\ UNCHANGED indexVars
    BY <1>3, <2>2 DEF Start
  <2>4. UNCHANGED <<label, indexVars, routeVars, bound, disk>> /\ ~Holding(t)
    BY <2>2, <2>3 DEF routeVars, Holding, Waiting
  <2> QED BY <2>3, <2>4, LeavingAtLock
<1>4. CASE ~Refused(r, n)
  <2>1. routed[r] = None
    BY <1>1, <1>4 DEF Refused, IInv, Routes
  <2>2. procs[r] = None
    <3>1. CASE task[t].at = "lock"
      BY <1>1, <2>1, <3>1, ServedOrDown DEF Whole
    <3>2. CASE task[t].at = "stopping"
      BY <3>2
    <3> QED BY <3>1, <3>2
  <2>3. CASE IdOf(w) # None /\ w.session # None
    <3> DEFINE fields == [task[t] EXCEPT !.fresh = FALSE]
    <3>1. w \in Records /\ w.session \in Sessions
      BY <1>2, <2>3, RecordsAre DEF IdOf
    <3>2. IdsLeft /\ Build(t, r, n, w.session, carried, maps, fields)
      BY <1>4, <2>3 DEF Start
    <3>3. carried \in BOOLEAN
      BY <3>1, RecordsAre
    <3>4. SessionOf(states[r]) = w.session
      BY <3>1, RecordsAre DEF SessionOf
    <3> HIDE DEF carried
    <3> QED BY <2>1, <2>2, <3>1, <3>2, <3>3, <3>4, BuildStep
  <2>4. CASE ~(IdOf(w) # None /\ w.session # None)
    <3> DEFINE k == [task[t] EXCEPT !.at = "provisioning", !.name = n, !.ws = None,
                                    !.ses = None, !.fresh = TRUE]
    <3>1. Go(t, k) /\ bound' = maps /\ UNCHANGED indexVars
      BY <1>4, <2>4 DEF Start
    <3>2. SessionOf(states[r]) = None
      BY <1>2, <2>4, RecordsAre DEF SessionOf, IdOf
    <3>3. states' = states
      BY <3>1 DEF indexVars
    <3>4. ASSUME NEW s \in Sessions PROVE bound'[s] # r
      <4>1. bound[s] # r
        BY <1>1, <3>2, NoneAssumption DEF KInv, RoomFits
      <4> QED BY <1>1, <3>1, <4>1, NoneAssumption DEF Handed
    <3>5. states[r] # None => states[r].name = label[r]
      BY <1>1 DEF KInv, Homes
    <3>6. Handed(t, r, bound')
      BY <3>1
    <3> HIDE DEF k
    <3>7. k = [task[t] EXCEPT !.at = "provisioning", !.name = task[t].name, !.ws = None,
                              !.ses = None, !.fresh = TRUE]
      BY DEF k
    <3> QED BY <2>1, <2>2, <3>1, <3>2, <3>3, <3>4, <3>5, <3>6, <3>7, ProvisioningStep
  <2> QED BY <2>3, <2>4
<1> QED BY <1>3, <1>4

\* At the lock, and until a session is there, nothing has been touched.
LEMMA HandedAsIs ==
    ASSUME IInv, KInv, NEW t \in Tasks, task[t].at \in {"lock", "provisioning"}, NEW r,
           running' = running
    PROVE  Handed(t, r, bound)
<1>1. task[t].ws = None
  BY DEF KInv, Homes, Home, Staged, Stage, Holding, Busy, Waiting
<1>2. ASSUME NEW i \in running
      PROVE  \/ \E q \in Rooms : procs[q] = i
             \/ \E u \in Tasks : u # t /\ task[u].ws = i
  BY <1>1, <1>2, NoneAssumption DEF KInv, RunningHeld, IInv, Routes
<1> QED BY <1>2 DEF Handed

-----------------------------------------------------------------------------
(* The end of a transition.                                                 *)

LEMMA LeaveStep ==
    ASSUME IInv, IInv', KInv, NEW t \in Tasks, NEW r, r = task[t].room,
           task[t].at \notin {"free", "room"}, Leave(t), Alone(t, r), Elsewhere(r), Saved,
           label' = label, RoomFits(r)', RunningHeld',
           states'[r] # None => states'[r].name = label[r],
           states[r] = None /\ states'[r] # None => Makes(t),
           \/ IdOf(states'[r]) \in {None, IdOf(states[r]), IdOf(task[t].prior)}
           \/ IdOf(states'[r]) \notin UsedIds,
           SessionOf(states'[r]) \in {None, SessionOf(states[r]), SessionOf(task[t].prior)}
    PROVE  KInv'
<1>1. task'[t] = Idle
  BY DEF Leave, Go, IInv, Places
<1>2. r \in Rooms
  BY AtHome
<1>3. ~Holding(t)' /\ Home(t)' /\ Blank(t)' /\ ~Makes(t)' /\ Staged(t)'
  BY <1>1 DEF Idle, Holding, Busy, Waiting, Home, Blank, Makes, Staged
<1>4. OldOrNew(t, r)
  <2>1. Idle.prior = None
    BY DEF Idle
  <2>2. ASSUME NEW i \in Recs, IdOf(states'[r]) = i \/ IdOf(task'[t].prior) = i
        PROVE  HasId(r, i) \/ i \notin UsedIds
    BY <1>1, <2>1, <2>2, NoneAssumption DEF IdOf, HasId
  <2>3. ASSUME NEW s \in Sessions, SessionOf(states'[r]) = s \/ SessionOf(task'[t].prior) = s
        PROVE  HasSession(r, s) \/ s \notin UsedSessions
    BY <1>1, <2>1, <2>3, NoneAssumption DEF SessionOf, HasSession
  <2> QED BY <2>2, <2>3 DEF OldOrNew
<1>5. Inside(t, r, Idle)
  BY DEF Inside, Leave
<1> QED BY <1>2, <1>3, <1>4, <1>5, StepKeeps

LEMMA ProcessorIsOfRecord ==
    ASSUME IInv, KInv, NEW q \in Rooms, procs[q] # None
    PROVE  states[q] # None /\ states[q].id = procs[q]
<1>1. CASE Whole(q)
  BY <1>1 DEF Whole
<1>2. CASE \E u \in Tasks : task[u].at = "subscribing" /\ task[u].room = q
  <2>1. PICK u \in Tasks : task[u].at = "subscribing" /\ task[u].room = q
    BY <1>2
  <2>2. Stage(task[u], states[q], procs[q], routed[q], bound, running)
    BY <2>1 DEF KInv, Staged, Holding, Busy, Waiting
  <2> QED BY <2>1, <2>2 DEF Stage
<1> QED BY <1>1, <1>2 DEF KInv, RoomFits

\* A transition that gives up its processor and its session: nothing of the room
\* remains, and nothing of the others is gone.
LEMMA UnboundHands ==
    ASSUME IInv, KInv, NEW t \in Tasks, task[t].at \in {"stopping", "dropping", "reclaiming"},
           NEW r, r = task[t].room, running' = running \ {task[t].ws}
    PROVE  /\ Handed(t, r, Unbound(t))
           /\ \A s \in Sessions : Unbound(t)[s] # r
           /\ states[r] # None /\ procs[r] = None /\ routed[r] = None
           /\ IdOf(states[r]) = task[t].pin /\ task[t].prior = None
<1>1. r \in Rooms
  BY AtHome
<1>2. Stage(task[t], states[r], procs[r], routed[r], bound, running)
  BY DEF KInv, Staged, Holding, Busy, Waiting
<1>3. /\ states[r] # None /\ procs[r] = None /\ routed[r] = None /\ IdOf(states[r]) = task[t].pin
      /\ SessionOf(states[r]) = task[t].ses /\ task[t].ws \in {None, IdOf(states[r])}
  BY <1>2 DEF Stage, IdOf, SessionOf
<1>4. task[t].prior = None
  BY DEF KInv, Homes, Home
<1>5. \A s \in Sessions : Unbound(t)[s] = IF s = task[t].ses THEN None ELSE bound[s]
  BY NoneAssumption DEF Unbound, IInv, Maps
<1>6. ASSUME NEW s \in Sessions PROVE Unbound(t)[s] # r
  <2>1. bound[s] = r => s = task[t].ses
    BY <1>1, <1>3 DEF KInv, RoomFits
  <2> QED BY <1>1, <1>5, <2>1, NoneAssumption
<1>7. ASSUME NEW s \in Sessions, Unbound(t)[s] # bound[s]
      PROVE  Unbound(t)[s] = None /\ bound[s] = r
  <2>1. s = task[t].ses /\ Unbound(t)[s] = None
    BY <1>5, <1>7
  <2>2. bound[s] \in {None, r}
    BY <1>1, <1>3, <2>1, OwnSession
  <2> QED BY <1>7, <2>1, <2>2
<1>8. ASSUME NEW q \in Rooms, q # r, procs[q] \in running PROVE procs[q] \in running'
  <2>1. procs[q] # None /\ procs[q] \in Recs
    BY <1>8, NoneAssumption DEF IInv, Routes
  <2>2. IdOf(states[q]) = procs[q]
    BY <2>1, ProcessorIsOfRecord DEF IdOf
  <2>3. procs[q] # IdOf(states[r])
    BY <1>1, <1>8, <2>1, <2>2 DEF KInv, Apart, HasId
  <2> QED BY <1>3, <1>8, <2>1, <2>3
<1>9. ASSUME NEW i \in running'
      PROVE  \/ \E q \in Rooms : procs[q] = i
             \/ \E u \in Tasks : u # t /\ task[u].ws = i
  BY <1>9 DEF KInv, RunningHeld
<1>10. Handed(t, r, Unbound(t))
  BY <1>7, <1>8, <1>9 DEF Handed
<1> QED BY <1>3, <1>4, <1>6, <1>10

\* So ends a transition that leaves a record of the room behind, or none.
LEMMA DownStep ==
    ASSUME IInv, IInv', KInv, NEW t \in Tasks, task[t].at \in {"stopping", "dropping", "reclaiming"},
           NEW r, r = task[t].room, running' = running \ {task[t].ws}, bound' = Unbound(t),
           Leave(t), Saved, UNCHANGED <<label, procs, routed, subscribed>>,
           \A q \in Rooms : q # r => states'[q] = states[q],
           \/ states'[r] = None
           \/ /\ states'[r] # None /\ states'[r].name = states[r].name
              /\ states'[r].id = states[r].id /\ states'[r].session \in {None, states[r].session}
    PROVE  KInv'
<1>1. r \in Rooms
  BY AtHome
<1>2. /\ Handed(t, r, bound') /\ (\A s \in Sessions : bound'[s] # r)
      /\ states[r] # None /\ procs[r] = None /\ routed[r] = None
  BY UnboundHands
<1>3. Elsewhere(r)
  BY <1>2 DEF Elsewhere, Handed
<1>4. RoomFits(r)'
  BY <1>2 DEF RoomFits
<1>5. RunningHeld'
  BY <1>2, HandedIsHeld DEF Leave
<1>6. Alone(t, r)
  BY HolderAlone DEF Holding, Busy, Waiting
<1>7. states'[r] # None => states'[r].name = label[r]
  BY <1>1, <1>2 DEF KInv, Homes
<1>8. /\ IdOf(states'[r]) \in {None, IdOf(states[r])}
      /\ SessionOf(states'[r]) \in {None, SessionOf(states[r])}
  BY <1>2 DEF IdOf, SessionOf
<1> QED BY <1>2, <1>3, <1>4, <1>5, <1>6, <1>7, <1>8, LeaveStep

-----------------------------------------------------------------------------
(* The starts and how they end.                                              *)

LEMMA EnterWakeStep ==
    ASSUME IInv, IInv', KInv, NEW t \in Tasks, NEW r, r = task[t].room,
           EnterWake(t)
    PROVE  KInv'
<1>1. /\ task[t].op \in {"wake", "boot"} /\ task[t].at = "lock" /\ LockFree(task[t].key)
      /\ UNCHANGED <<label, routeVars, disk>>
  BY DEF EnterWake
<1>2. CASE WakeIsOver(t)
  BY <1>1, <1>2, LeavingAtLock DEF EnterWake, Holding, Waiting
<1>3. CASE ~WakeIsOver(t)
  <2>1. Start(t, r, task[t].name, IF task[t].pin = None THEN None ELSE states[r], bound)
    BY <1>3 DEF EnterWake
  <2>2. task[t].op = "boot" => task[t].pin # None
    BY DEF KInv, Homes, Home
  <2>3. task[t].pin = None => states[r] = None
    BY <1>1, <2>2 DEF KInv, Blank, Makes
  <2>4. /\ task[t].pin # None => states[r] # None
        /\ states[r] # None => ~states[r].paused
    BY <1>3, <2>3 DEF WakeIsOver, IdOf, Paused
  <2>5. Start(t, r, task[t].name, states[r], bound)
    BY <2>1, <2>3
  <2>6. Handed(t, r, bound)
    BY <1>1, HandedAsIs DEF routeVars
  <2>7. bound \in [Sessions -> Rooms \cup {None}]
    BY DEF IInv, Maps
  <2>8. Alone(t, r)
    BY <1>1, LockAlone
  <2>9. /\ UNCHANGED <<label, procs, routed, subscribed, disk>> /\ running' = running
    BY <1>1 DEF routeVars
  <2> QED BY <1>1, <2>2, <2>3, <2>4, <2>5, <2>6, <2>7, <2>8, <2>9, StartStep
<1> QED BY <1>2, <1>3

LEMMA EnterReviveStep ==
    ASSUME IInv, IInv', KInv, NEW t \in Tasks, NEW r, r = task[t].room,
           EnterRevive(t)
    PROVE  KInv'
<1> DEFINE w == states[r]
<1>1. /\ task[t].op = "revive" /\ task[t].at = "lock" /\ LockFree(task[t].key)
      /\ UNCHANGED <<label, routeVars, disk>>
  BY DEF EnterRevive
<1>2. CASE w = None \/ procs[r] # None
  BY <1>1, <1>2, LeavingAtLock DEF EnterRevive, Holding, Waiting
<1>3. CASE ~(w = None \/ procs[r] # None)
  <2>1. w.name = task[t].name
    BY <1>1, <1>3, AtHome DEF KInv, Homes
  <2>2. Start(t, r, task[t].name, states[r], bound)
    BY <1>3, <2>1 DEF EnterRevive
  <2>3. Handed(t, r, bound)
    BY <1>1, HandedAsIs DEF routeVars
  <2>4. bound \in [Sessions -> Rooms \cup {None}]
    BY DEF IInv, Maps
  <2>5. Alone(t, r) /\ states[r] # None
    BY <1>1, <1>3, LockAlone
  <2>6. /\ UNCHANGED <<label, procs, routed, subscribed, disk>> /\ running' = running
    BY <1>1 DEF routeVars
  <2> QED BY <1>1, <2>2, <2>3, <2>4, <2>5, <2>6, StartStep
<1> QED BY <1>2, <1>3

LEMMA EnterResumeStep ==
    ASSUME IInv, IInv', KInv, NEW t \in Tasks, NEW r, r = task[t].room,
           EnterResume(t)
    PROVE  KInv'
<1> DEFINE n == task[t].name
           w == Named(n)
           over == w = None \/ IdOf(w) # task[t].pin
<1>1. /\ task[t].op = "resume" /\ task[t].at = "lock" /\ LockFree(task[t].key)
      /\ UNCHANGED <<label, routeVars>>
  BY DEF EnterResume
<1>2. /\ r \in Rooms /\ w = states[r] /\ n = label[r]
      /\ roomOf[n] = IF states[r] = None THEN None ELSE r
  BY <1>1, AtHome
<1>3. Alone(t, r)
  BY <1>1, LockAlone
<1>4. CASE over
  BY <1>1, <1>4, LeavingAtLock DEF EnterResume, Holding, Waiting
<1>5. CASE ~over /\ ProcessorNamed(n) # None
  <2>1. /\ states' = [states EXCEPT ![roomOf[n]].paused = FALSE]
        /\ UNCHANGED <<roomOf, bound>> /\ Save({}) /\ Leave(t)
    BY <1>5 DEF EnterResume
  <2>2. states[r] # None /\ procs[r] # None /\ roomOf[n] = r
    BY <1>2, <1>5, NoneAssumption DEF ProcessorNamed
  <2>3. states[r] \in Records
    BY <1>2, <2>2 DEF IInv, Indexed
  <2>4. /\ \A q \in Rooms : q # r => states'[q] = states[q]
        /\ states'[r] = [states[r] EXCEPT !.paused = FALSE]
    BY <1>2, <2>1, <2>2 DEF IInv, Indexed
  <2>5. /\ states'[r] # None /\ states'[r].id = states[r].id
        /\ states'[r].name = states[r].name /\ states'[r].session = states[r].session
        /\ ~states'[r].paused
    <3>1. states'[r] \in Records
      BY <2>3, <2>4 DEF Records
    <3> QED BY <2>3, <2>4, <3>1, RecordsAre DEF Records
  <2>6. Whole(r)
    BY <1>1, <1>2, <1>3, <2>2, ServedOrDown
  <2>7. /\ procs' = procs /\ routed' = routed /\ running' = running /\ subscribed' = subscribed
        /\ label' = label /\ bound' = bound
    BY <1>1, <2>1 DEF routeVars
  <2>8. Elsewhere(r)
    BY <2>4, <2>7 DEF Elsewhere
  <2>9. Saved
    BY <2>1, SaveSaves
  <2>10. RoomFits(r)'
    <3>1. Whole(r)'
      BY <2>5, <2>6, <2>7 DEF Whole
    <3>2. \A s \in Sessions : bound[s] = r => SessionOf(states'[r]) = s
      BY <1>2, <2>2, <2>5 DEF KInv, RoomFits, SessionOf
    <3> QED BY <2>6, <2>7, <3>1, <3>2 DEF RoomFits, Whole
  <2>11. RunningHeld'
    <3>1. running' = running /\ Handed(t, r, bound)
      BY <1>1, <2>7, HandedAsIs
    <3> QED BY <2>1, <2>7, <3>1, HandedIsHeld DEF Leave
  <2>12. states'[r].name = label[r]
    BY <1>2, <2>2, <2>5 DEF KInv, Homes
  <2>13. IdOf(states'[r]) = IdOf(states[r]) /\ SessionOf(states'[r]) = SessionOf(states[r])
    BY <2>2, <2>5 DEF IdOf, SessionOf
  <2> QED BY <1>1, <1>3, <2>1, <2>2, <2>7, <2>8, <2>9, <2>10, <2>11, <2>12, <2>13, LeaveStep
<1>6. CASE ~over /\ ProcessorNamed(n) = None
  <2>1. Start(t, r, n, states[r], bound) /\ UNCHANGED disk
    BY <1>2, <1>6 DEF EnterResume
  <2>2. Handed(t, r, bound)
    BY <1>1, HandedAsIs DEF routeVars
  <2>3. bound \in [Sessions -> Rooms \cup {None}]
    BY DEF IInv, Maps
  <2>4. states[r] # None
    BY <1>2, <1>6
  <2>5. /\ UNCHANGED <<label, procs, routed, subscribed, disk>> /\ running' = running
    BY <1>1, <2>1 DEF routeVars
  <2> QED BY <1>1, <1>3, <2>1, <2>2, <2>3, <2>4, <2>5, StartStep
<1> QED BY <1>4, <1>5, <1>6

LEMMA ProvisionedStep ==
    ASSUME IInv, IInv', KInv, NEW t \in Tasks, NEW r, r = task[t].room,
           Provisioned(t)
    PROVE  KInv'
<1> DEFINE w == states[r]
           carried == task[t].op = "revive" /\ w # None /\ w.dropped
<1>1. /\ task[t].at = "provisioning" /\ IdsLeft
      /\ UNCHANGED <<label, routeVars, disk>>
  BY DEF Provisioned
<1>2. PICK s \in Sessions \ UsedSessions : Build(t, r, task[t].name, s, carried, bound, task[t])
  BY DEF Provisioned
<1>3. Stage(task[t], states[r], procs[r], routed[r], bound, running) /\ Holding(t)
  BY <1>1 DEF KInv, Staged, Holding, Busy, Waiting
<1>4. /\ procs[r] = None /\ routed[r] = None
      /\ w = None <=> task[t].op = "wake" /\ task[t].pin = None
      /\ SessionOf(w) = None
  BY <1>1, <1>3 DEF Stage, SessionOf
<1>5. Alone(t, r)
  BY <1>3, HolderAlone
<1>6. carried \in BOOLEAN
  <2>1. r \in Rooms
    BY <1>1, AtHome
  <2>2. w # None => w.dropped \in BOOLEAN
    BY <2>1, RecordsAre DEF IInv, Indexed
  <2> QED BY <2>2
<1>7. Handed(t, r, bound) /\ bound \in [Sessions -> Rooms \cup {None}]
  BY <1>1, HandedAsIs DEF routeVars, IInv, Maps
<1> HIDE DEF carried
<1>8. UNCHANGED <<label, procs, routed, subscribed, disk>>
  BY <1>1 DEF routeVars
<1> QED BY <1>1, <1>2, <1>4, <1>5, <1>6, <1>7, <1>8, BuildStep

LEMMA EnterJoinStep ==
    ASSUME IInv, IInv', KInv, NEW t \in Tasks, NEW r, r = task[t].room,
           EnterJoin(t)
    PROVE  KInv'
<1> DEFINE n == task[t].name
           free == ~Disarmed /\ Installable(r, n)
           w == [id |-> NewId, name |-> n, session |-> None, paused |-> FALSE, dropped |-> TRUE]
<1>1. /\ task[t].op = "join" /\ task[t].at = "lock" /\ LockFree(task[t].key) /\ IdsLeft
      /\ Leave(t) /\ UNCHANGED <<label, routeVars, bound>>
  BY DEF EnterJoin
<1>2. CASE ~free
  BY <1>1, <1>2, LeavingAtLock DEF EnterJoin, Holding, Waiting
<1>3. CASE free
  <2>1. Install(r, w) /\ Save({})
    BY <1>3 DEF EnterJoin
  <2>2. /\ r \in Rooms /\ n = label[r] /\ n \in Names
        /\ NewId \in Recs /\ NewId \notin UsedIds
    BY <1>1, AtHome DEF IdsLeft, NewId
  <2>3. states[r] = None /\ Makes(t)
    BY <1>1 DEF KInv, Homes, Home, Blank, Makes
  <2>4. w # None /\ w.id = NewId /\ w.name = n /\ w.session = None
    BY <2>2, RecordsAre DEF Records
  <2>5. /\ states'[r] = w /\ \A q \in Rooms : q # r => states'[q] = states[q]
        /\ procs' = procs /\ routed' = routed /\ running' = running
        /\ subscribed' = subscribed /\ bound' = bound /\ label' = label
    BY <1>1, <2>1, <2>2 DEF Install, IInv, Indexed, routeVars
  <2> HIDE DEF w, n
  <2>6. Alone(t, r)
    BY <1>1, LockAlone
  <2>7. Saved
    BY <2>1, SaveSaves
  <2>8. Elsewhere(r)
    BY <2>5 DEF Elsewhere
  <2>9. RoomFits(r)'
    <3>1. procs[r] = None
      BY <1>1, <2>2, <2>3, <2>6, ServedOrDown DEF Whole
    <3>2. \A s \in Sessions : bound[s] # r
      BY <2>2, <2>3, NoneAssumption DEF KInv, RoomFits, SessionOf
    <3>3. routed[r] = None
      BY <2>2, <3>1 DEF KInv, RoomFits
    <3> QED BY <2>5, <3>1, <3>2, <3>3 DEF RoomFits
  <2>10. RunningHeld'
    <3>1. Handed(t, r, bound)
      BY <1>1, <2>5, HandedAsIs
    <3> QED BY <1>1, <2>5, <3>1, HandedIsHeld DEF Leave
  <2>11. IdOf(states'[r]) = NewId /\ SessionOf(states'[r]) = None
    BY <2>4, <2>5 DEF IdOf, SessionOf
  <2> QED BY <1>1, <2>2, <2>3, <2>4, <2>5, <2>6, <2>7, <2>8, <2>9, <2>10, <2>11, LeaveStep
<1> QED BY <1>2, <1>3

\* A transition whose processor does not run leaves nothing running that is not held.
LEMMA NotRunningIsHeld ==
    ASSUME IInv, KInv, NEW t \in Tasks, NEW k, Go(t, k), NEW r \in Rooms, running' = running,
           task[t].ws \notin running, procs[r] \in {None, task[t].ws},
           \A q \in Rooms : q # r => procs'[q] = procs[q]
    PROVE  RunningHeld'
<1>1. \A u \in Tasks : u # t => task'[u] = task[u]
  BY DEF Go, IInv, Places
<1>2. None \notin running
  BY NoneAssumption DEF IInv, Routes
<1>3. ASSUME NEW i \in running
      PROVE  \/ \E q \in Rooms : procs'[q] = i
             \/ \E u \in Tasks : task'[u].ws = i
  <2>1. CASE \E q \in Rooms : procs[q] = i
    BY <1>2, <1>3, <2>1
  <2>2. CASE \E u \in Tasks : task[u].ws = i
    BY <1>1, <1>3, <2>2
  <2> QED BY <1>3, <2>1, <2>2 DEF KInv, RunningHeld
<1> QED BY <1>3 DEF RunningHeld

LEMMA NotProvisionedStep ==
    ASSUME IInv, IInv', KInv, NEW t \in Tasks, NEW r, r = task[t].room,
           NotProvisioned(t)
    PROVE  KInv'
<1>1. /\ task[t].at = "provisioning" /\ Leave(t)
      /\ label' = label /\ states' = states /\ procs' = procs /\ routed' = routed
      /\ running' = running /\ subscribed' = subscribed /\ bound' = bound /\ disk' = disk
  BY DEF NotProvisioned, indexVars, routeVars
<1>2. r \in Rooms
  BY <1>1, AtHome
<1>3. Stage(task[t], states[r], procs[r], routed[r], bound, running) /\ Holding(t)
  BY <1>1 DEF KInv, Staged, Holding, Busy, Waiting
<1>4. procs[r] = None /\ routed[r] = None /\ task[t].ws = None
  BY <1>1, <1>3 DEF Stage
<1>5. RoomFits(r)'
  BY <1>1, <1>2, <1>4 DEF KInv, RoomFits
<1>6. RunningHeld'
  <2>1. None \notin running
    BY NoneAssumption DEF IInv, Routes
  <2> QED BY <1>1, <1>2, <1>4, <2>1, NotRunningIsHeld DEF Leave
<1>7. Elsewhere(r) /\ Saved /\ Alone(t, r)
  BY <1>1, <1>3, HolderAlone, UnsavedIsSaved DEF Elsewhere
<1>8. states'[r] # None => states'[r].name = label[r]
  BY <1>1, <1>2 DEF KInv, Homes
<1> QED BY <1>1, <1>5, <1>6, <1>7, <1>8, LeaveStep

\* What a start has installed: a record of its room, which is not up yet.
LEMMA Installed ==
    ASSUME IInv, KInv, NEW t \in Tasks, NEW r, r = task[t].room,
           task[t].at \in {"injecting", "subscribing"}
    PROVE  /\ r \in Rooms /\ Holding(t) /\ Alone(t, r)
           /\ states[r] # None /\ routed[r] = None
           /\ states[r].id = task[t].ws /\ states[r].session = task[t].ses
           /\ ~states[r].paused /\ states[r].name = label[r]
           /\ bound[task[t].ses] = r /\ task[t].ws \notin running
           /\ procs[r] = IF task[t].at = "subscribing" THEN task[t].ws ELSE None
           /\ task[t].ws \in Recs /\ task[t].ses \in Sessions
           /\ roomOf[task[t].name] = r /\ task[t].name = label[r]
<1>1. Stage(task[t], states[r], procs[r], routed[r], bound, running) /\ Holding(t)
  BY DEF KInv, Staged, Holding, Busy, Waiting
<1>2. r \in Rooms /\ Alone(t, r)
  BY <1>1, AtHome, HolderAlone
<1>3. task[t].ws \in Recs /\ task[t].ses \in Sessions
  BY FieldsOf DEF IInv, Fits
<1>4. states[r] # None
  BY <1>1 DEF Stage
<1>5. states[r].name = label[r]
  BY <1>2, <1>4 DEF KInv, Homes
<1>6. roomOf[task[t].name] = r /\ task[t].name = label[r]
  BY <1>4, AtHome
<1> QED BY <1>1, <1>2, <1>3, <1>4, <1>5, <1>6 DEF Stage

LEMMA InjectedStep ==
    ASSUME IInv, IInv', KInv, NEW t \in Tasks, NEW r, r = task[t].room,
           Injected(t)
    PROVE  KInv'
<1> DEFINE k == [task[t] EXCEPT !.at = "subscribing"]
<1>1. task[t].at = "injecting"
  BY DEF Injected
<1>2. /\ r \in Rooms /\ Holding(t) /\ Alone(t, r)
      /\ states[r] # None /\ routed[r] = None
      /\ states[r].id = task[t].ws /\ states[r].session = task[t].ses
      /\ ~states[r].paused /\ states[r].name = label[r]
      /\ bound[task[t].ses] = r /\ task[t].ws \notin running
      /\ procs[r] = None
      /\ roomOf[task[t].name] = r /\ task[t].name = label[r]
  BY <1>1, Installed
<1>3. /\ procs' = [procs EXCEPT ![r] = task[t].ws] /\ Go(t, k)
      /\ label' = label /\ states' = states /\ routed' = routed
      /\ running' = running /\ subscribed' = subscribed /\ bound' = bound /\ disk' = disk
  BY <1>2, NoneAssumption DEF Injected, indexVars
<1>4. /\ task'[t] = k /\ k.at = "subscribing" /\ k.ws = task[t].ws /\ k.prior = task[t].prior
      /\ k.room = r /\ k.name = task[t].name /\ k.key = task[t].key /\ k.ses = task[t].ses
      /\ k.op = task[t].op /\ k.pin = task[t].pin
  <2>1. task'[t] = k /\ task[t] \in Coroutines
    BY <1>3, FieldsOf DEF Go, IInv, Places
  <2> QED BY <2>1 DEF Coroutines
<1> HIDE DEF k
<1>5. procs'[r] = task[t].ws /\ \A q \in Rooms : q # r => procs'[q] = procs[q]
  BY <1>2, <1>3 DEF IInv, Routes
<1>6. Inside(t, r, k)
  BY <1>1, <1>2, <1>3, <1>4, <1>5, UnsavedIsSaved DEF Inside, Elsewhere
<1>7. OldOrNew(t, r)
  BY <1>3, <1>4 DEF OldOrNew, HasId, HasSession
<1>8. Home(t)' /\ Blank(t)' /\ (Makes(t)' => Makes(t))
  <2>1. Home(t)
    BY DEF KInv, Homes
  <2> QED BY <1>1, <1>3, <1>4, <2>1 DEF Home, Blank, Makes, Holding, Busy, Waiting
<1>9. Staged(t)'
  BY <1>2, <1>3, <1>4, <1>5 DEF Staged, Stage
<1>10. RoomFits(r)'
  <2>1. \A s \in Sessions : bound[s] = r => SessionOf(states[r]) = s
    BY <1>2 DEF KInv, RoomFits
  <2> QED BY <1>2, <1>3, <1>4, <2>1 DEF RoomFits
<1>11. RunningHeld'
  BY <1>2, <1>3, <1>5, NotRunningIsHeld
<1> QED BY <1>2, <1>3, <1>6, <1>7, <1>8, <1>9, <1>10, <1>11, StepKeeps

LEMMA SubscribedStep ==
    ASSUME IInv, IInv', KInv, NEW t \in Tasks, NEW r, r = task[t].room,
           Subscribed(t)
    PROVE  KInv'
<1>1. task[t].at = "subscribing"
  BY DEF Subscribed
<1>2. /\ r \in Rooms /\ Holding(t) /\ Alone(t, r)
      /\ states[r] # None /\ routed[r] = None
      /\ states[r].id = task[t].ws /\ states[r].session = task[t].ses
      /\ ~states[r].paused /\ states[r].name = label[r]
      /\ bound[task[t].ses] = r
      /\ procs[r] = task[t].ws /\ task[t].ws \in Recs /\ task[t].ses \in Sessions
  BY <1>1, Installed
<1>3. /\ subscribed' = subscribed \cup {r} /\ routed' = [routed EXCEPT ![r] = task[t].ws]
      /\ running' = running \cup {task[t].ws} /\ Leave(t)
      /\ label' = label /\ states' = states /\ procs' = procs /\ bound' = bound /\ Save({})
  BY DEF Subscribed, Claim, indexVars
<1>4. routed'[r] = task[t].ws /\ \A q \in Rooms : q # r => routed'[q] = routed[q]
  BY <1>2, <1>3 DEF IInv, Routes
<1>5. Elsewhere(r)
  BY <1>2, <1>3, <1>4 DEF Elsewhere, IdOf
<1>6. Saved
  BY <1>3, SaveSaves
<1>7. RoomFits(r)'
  <2>1. \A s \in Sessions : bound[s] = r => SessionOf(states[r]) = s
    BY <1>2 DEF KInv, RoomFits
  <2>2. Whole(r)'
    BY <1>2, <1>3, <1>4, NoneAssumption DEF Whole
  <2> QED BY <1>2, <1>3, <1>4, <2>1, <2>2 DEF RoomFits
<1>8. RunningHeld'
  <2>1. task' = [task EXCEPT ![t] = Idle]
    BY <1>3 DEF Leave, Go
  <2>2. ASSUME NEW i \in running'
        PROVE  \/ \E q \in Rooms : procs'[q] = i
               \/ \E u \in Tasks : task'[u].ws = i
    <3>1. CASE i = task[t].ws
      BY <1>2, <1>3, <3>1
    <3>2. CASE i \in running /\ i # task[t].ws
      <4>1. CASE \E q \in Rooms : procs[q] = i
        BY <1>3, <4>1
      <4>2. CASE \E u \in Tasks : task[u].ws = i
        <5>1. PICK u \in Tasks : task[u].ws = i
          BY <4>2
        <5>2. task'[u].ws = i
          BY <2>1, <3>2, <5>1 DEF IInv, Places
        <5> QED BY <5>2
      <4> QED BY <3>2, <4>1, <4>2 DEF KInv, RunningHeld
    <3> QED BY <1>3, <2>2, <3>1, <3>2
  <2> QED BY <2>2 DEF RunningHeld
<1>9. states'[r] # None => states'[r].name = label[r]
  BY <1>2, <1>3
<1> QED BY <1>1, <1>2, <1>3, <1>5, <1>6, <1>7, <1>8, <1>9, LeaveStep

\* What a start that fails takes back: its session, from its room.
LEMMA SessionTaken ==
    ASSUME IInv, KInv, NEW t \in Tasks, NEW r, r = task[t].room,
           task[t].at \in {"injecting", "subscribing"},
           bound' = [bound EXCEPT ![task[t].ses] = None]
    PROVE  /\ \A s \in Sessions : bound'[s] # r
           /\ \A s \in Sessions : bound'[s] # bound[s] => {bound[s], bound'[s]} \subseteq {None, r}
<1>1. /\ r \in Rooms /\ states[r] # None /\ states[r].session = task[t].ses
      /\ bound[task[t].ses] = r /\ task[t].ses \in Sessions
  BY Installed
<1>2. \A s \in Sessions : bound'[s] = IF s = task[t].ses THEN None ELSE bound[s]
  BY <1>1 DEF IInv, Maps
<1>3. \A s \in Sessions : bound[s] = r => s = task[t].ses
  BY <1>1 DEF KInv, RoomFits, SessionOf
<1> QED BY <1>1, <1>2, <1>3, NoneAssumption

LEMMA NotInjectedStep ==
    ASSUME IInv, IInv', KInv, NEW t \in Tasks, NEW r, r = task[t].room,
           NotInjected(t)
    PROVE  KInv'
<1> DEFINE p == task[t].prior
<1>1. /\ task[t].at = "injecting" /\ Rollback(t) /\ Leave(t)
      /\ bound' = [bound EXCEPT ![task[t].ses] = None]
      /\ label' = label /\ procs' = procs /\ routed' = routed
      /\ running' = running /\ subscribed' = subscribed /\ disk' = disk
  BY DEF NotInjected, routeVars
<1>2. /\ r \in Rooms /\ Holding(t) /\ Alone(t, r)
      /\ states[r] # None /\ routed[r] = None /\ procs[r] = None
      /\ task[t].ws \notin running
      /\ roomOf[task[t].name] = r /\ task[t].name = label[r]
  BY <1>1, Installed
<1>3. p # None => p.name = task[t].name /\ Installable(r, p.name)
  BY <1>2 DEF KInv, Homes, Home, Installable
<1>4. /\ states'[r] = p
      /\ \A q \in Rooms : q # r => states'[q] = states[q]
  <2>1. CASE p # None
    <3>1. Install(r, p)
      BY <1>1, <1>3, <2>1 DEF Rollback
    <3> QED BY <1>2, <3>1 DEF Install, IInv, Indexed
  <2>2. CASE p = None
    <3>1. Uninstall(task[t].name)
      BY <1>1, <2>2 DEF Rollback
    <3> QED BY <1>2, <2>2, <3>1, NoneAssumption DEF Uninstall, IInv, Indexed
  <2> QED BY <2>1, <2>2
<1>5. /\ \A s \in Sessions : bound'[s] # r
      /\ \A s \in Sessions : bound'[s] # bound[s] => {bound[s], bound'[s]} \subseteq {None, r}
  BY <1>1, SessionTaken
<1>6. Elsewhere(r)
  BY <1>1, <1>4, <1>5 DEF Elsewhere
<1>7. RoomFits(r)'
  BY <1>1, <1>2, <1>5 DEF RoomFits
<1>8. RunningHeld'
  BY <1>1, <1>2, NotRunningIsHeld DEF Leave
<1>9. states'[r] # None => states'[r].name = label[r]
  BY <1>2, <1>3, <1>4
<1> QED BY <1>1, <1>2, <1>4, <1>6, <1>7, <1>8, <1>9, LeaveStep, UnsavedIsSaved

LEMMA NotSubscribedStep ==
    ASSUME IInv, IInv', KInv, NEW t \in Tasks, NEW r, r = task[t].room,
           NotSubscribed(t)
    PROVE  KInv'
<1>1. /\ task[t].at = "subscribing" /\ Leave(t)
      /\ bound' = [bound EXCEPT ![task[t].ses] = None]
      /\ label' = label /\ routed' = routed
      /\ running' = running /\ subscribed' = subscribed /\ disk' = disk
  BY DEF NotSubscribed
<1>2. /\ r \in Rooms /\ Holding(t) /\ Alone(t, r)
      /\ states[r] # None /\ routed[r] = None /\ procs[r] = task[t].ws
      /\ states[r].name = label[r]
      /\ task[t].ws \notin running /\ roomOf[task[t].name] = r
  BY <1>1, Installed
<1>3. procs' = [procs EXCEPT ![r] = None]
  BY <1>2, NoneAssumption DEF NotSubscribed
<1>4. procs'[r] = None /\ \A q \in Rooms : q # r => procs'[q] = procs[q]
  BY <1>2, <1>3 DEF IInv, Routes
<1>5. states' = states \/ states' = [states EXCEPT ![r].session = None]
  BY DEF NotSubscribed
<1>6. /\ \A q \in Rooms : q # r => states'[q] = states[q]
      /\ states'[r] # None /\ states'[r].name = states[r].name
      /\ states'[r].id = states[r].id
      /\ states'[r].session \in {None, states[r].session}
  <2>1. CASE states' = states
    BY <1>2, <2>1
  <2>2. CASE states' = [states EXCEPT ![r].session = None]
    <3>1. states[r] \in Records
      BY <1>2 DEF IInv, Indexed
    <3>2. /\ states'[r] = [states[r] EXCEPT !.session = None]
          /\ \A q \in Rooms : q # r => states'[q] = states[q]
      BY <1>2, <2>2 DEF IInv, Indexed
    <3>3. states'[r] \in Records
      BY <3>1, <3>2 DEF Records
    <3> QED BY <3>1, <3>2, <3>3, RecordsAre DEF Records
  <2> QED BY <1>5, <2>1, <2>2
<1>7. /\ \A s \in Sessions : bound'[s] # r
      /\ \A s \in Sessions : bound'[s] # bound[s] => {bound[s], bound'[s]} \subseteq {None, r}
  BY <1>1, SessionTaken
<1>8. Elsewhere(r)
  BY <1>1, <1>4, <1>6, <1>7 DEF Elsewhere
<1>9. RoomFits(r)'
  BY <1>1, <1>2, <1>4, <1>7 DEF RoomFits
<1>10. RunningHeld'
  BY <1>1, <1>2, <1>4, NotRunningIsHeld DEF Leave
<1>11. /\ IdOf(states'[r]) = IdOf(states[r])
       /\ SessionOf(states'[r]) \in {None, SessionOf(states[r])}
  BY <1>2, <1>6 DEF IdOf, SessionOf
<1> QED BY <1>1, <1>2, <1>6, <1>8, <1>9, <1>10, <1>11, LeaveStep, UnsavedIsSaved

-----------------------------------------------------------------------------
(* The stops.                                                               *)

\* The lock is taken, and what the room has is taken down.
LEMMA TakenDown ==
    ASSUME IInv, IInv', KInv, NEW t \in Tasks, NEW r, r = task[t].room, task[t].at = "lock",
           Alone(t, r), task[t].op \notin {"wake", "join", "boot"}, states[r] # None,
           NEW a \in {"stopping", "dropping", "reclaiming"}, NEW k, Go(t, k),
           k.at = a, k.op = task[t].op, k.room = r, k.name = task[t].name,
           k.key = task[t].key, k.prior = task[t].prior, k.ws = procs[r],
           k.pin = states[r].id, k.ses = states[r].session,
           procs[r] = None => IF a = "reclaiming" THEN TRUE ELSE ~states[r].paused,
           a = "reclaiming" => procs[r] = None,
           procs'[r] = None, routed'[r] = None,
           \A q \in Rooms : q # r => procs'[q] = procs[q] /\ routed'[q] = routed[q],
           subscribed \subseteq subscribed' \cup {r},
           UNCHANGED <<label, indexVars, running, bound, disk>>
    PROVE  KInv'
<1>1. /\ r \in Rooms /\ task[t].key = task[t].name /\ task[t].name = label[r]
  BY AtHome
<1>2. /\ label' = label /\ states' = states /\ running' = running /\ bound' = bound
      /\ disk' = disk
  BY DEF indexVars
<1>3. procs[r] # None => Whole(r)
  BY <1>1, ServedOrDown
<1>4. task[t].prior = None
  BY DEF KInv, Homes, Home
<1>5. task'[t] = k
  BY DEF Go, IInv, Places
<1>6. Inside(t, r, k)
  BY <1>2, UnsavedIsSaved DEF Inside, Elsewhere
<1>7. OldOrNew(t, r)
  BY <1>2, <1>4, <1>5, NoneAssumption DEF OldOrNew, HasId, HasSession, IdOf, SessionOf
<1>8. Home(t)' /\ Blank(t)' /\ (Makes(t)' => Makes(t))
  BY <1>1, <1>2, <1>4, <1>5 DEF Home, Blank, Makes, Holding, Busy, Waiting
<1>9. Staged(t)'
  <2>1. procs[r] \in {None, states[r].id} /\ (a # "reclaiming" => ~states[r].paused)
    BY <1>3 DEF Whole
  <2> QED BY <1>2, <1>5, <2>1 DEF Staged, Stage
<1>10. RoomFits(r)'
  BY <1>1, <1>2 DEF KInv, RoomFits
<1>11. RunningHeld'
  <2>1. \A u \in Tasks : u # t => task'[u] = task[u]
    BY DEF Go, IInv, Places
  <2>2. task[t].ws = None /\ None \notin running
    BY NoneAssumption DEF KInv, Homes, Home, Holding, Waiting, IInv, Routes
  <2>3. ASSUME NEW i \in running
        PROVE  \/ \E q \in Rooms : procs'[q] = i
               \/ \E u \in Tasks : task'[u].ws = i
    <3>1. CASE \E u \in Tasks : task[u].ws = i
      BY <2>1, <2>2, <2>3, <3>1
    <3>2. CASE \E q \in Rooms : procs[q] = i
      <4>1. PICK q \in Rooms : procs[q] = i
        BY <3>2
      <4>2. CASE q = r
        BY <1>5, <4>1, <4>2
      <4>3. CASE q # r
        BY <4>1, <4>3
      <4> QED BY <4>2, <4>3
    <3> QED BY <2>3, <3>1, <3>2 DEF KInv, RunningHeld
  <2> QED BY <1>2, <2>3 DEF RunningHeld
<1>12. states'[r] # None => states'[r].name = label[r]
  BY <1>1, <1>2 DEF KInv, Homes
<1> QED BY <1>1, <1>2, <1>6, <1>7, <1>8, <1>9, <1>10, <1>11, <1>12, StepKeeps

\* _stop_processor() of the record that has the name.
LEMMA StopStep ==
    ASSUME IInv, IInv', KInv, NEW t \in Tasks, NEW r, r = task[t].room, task[t].at = "lock",
           Alone(t, r), task[t].op \notin {"wake", "join", "boot"}, states[r] # None,
           procs[r] = None => ~states[r].paused,
           Stop(t, task[t].name), UNCHANGED <<label, indexVars, running, bound, disk>>
    PROVE  KInv'
<1> DEFINE k == [task[t] EXCEPT !.at = "stopping", !.room = r, !.ws = procs[r],
                                !.pin = states[r].id, !.ses = states[r].session]
<1>1. r \in Rooms /\ roomOf[task[t].name] = r
  BY AtHome
<1>2. /\ Go(t, k) /\ procs' = [procs EXCEPT ![r] = None] /\ Release(r)
      /\ subscribed' = subscribed \ {r}
  BY <1>1 DEF Stop
<1>3. /\ k.at = "stopping" /\ k.op = task[t].op /\ k.room = r /\ k.name = task[t].name
      /\ k.key = task[t].key /\ k.prior = task[t].prior /\ k.ws = procs[r]
      /\ k.pin = states[r].id /\ k.ses = states[r].session
  <2>1. task[t] \in Coroutines
    BY FieldsOf DEF IInv
  <2> QED BY <2>1 DEF Coroutines
<1> HIDE DEF k
<1>4. /\ procs'[r] = None
      /\ \A q \in Rooms : q # r => procs'[q] = procs[q] /\ routed'[q] = routed[q]
  BY <1>1, <1>2 DEF Release, IInv, Routes
<1>5. routed'[r] = None
  <2>1. routed[r] # None => routed[r] = procs[r]
    BY <1>1 DEF KInv, RoomFits
  <2> QED BY <1>1, <1>2, <2>1 DEF Release, IInv, Routes
<1> QED BY <1>2, <1>3, <1>4, <1>5, TakenDown

LEMMA EnterStopStep ==
    ASSUME IInv, IInv', KInv, NEW t \in Tasks, NEW r, r = task[t].room,
           EnterStop(t)
    PROVE  KInv'
<1> DEFINE op == task[t].op
           w == Named(task[t].name)
           over == \/ w = None
                   \/ op \in {"release", "restart", "halt", "reset"} /\ IdOf(w) # task[t].pin
                   \/ op \in {"pause", "reset"} /\ w.paused
                   \/ op \in {"restart", "halt"} /\ procs[r] = None
<1>1. /\ op \in {"pause", "reset", "restart", "halt"}
      /\ task[t].at = "lock" /\ LockFree(task[t].key)
      /\ UNCHANGED <<label, indexVars, running, bound, disk>>
  BY DEF EnterStop
<1>2. w = states[r]
  BY <1>1, AtHome
<1>3. Alone(t, r)
  BY <1>1, LockAlone
<1>4. CASE over
  <2>1. Leave(t) /\ UNCHANGED <<procs, routed, subscribed>>
    BY <1>4 DEF EnterStop
  <2>2. UNCHANGED routeVars
    BY <1>1, <2>1 DEF routeVars
  <2> QED BY <1>1, <2>1, <2>2, LeavingAtLock DEF Holding, Waiting
<1>5. CASE ~over
  <2>1. Stop(t, task[t].name)
    BY <1>5 DEF EnterStop
  <2>2. states[r] # None /\ (procs[r] = None => ~states[r].paused)
    BY <1>1, <1>2, <1>5
  <2> HIDE DEF over, w
  <2> QED BY <1>1, <1>3, <2>1, <2>2, StopStep
<1> QED BY <1>4, <1>5

\* What the record of a transition that has stopped becomes.
LEMMA ChangeStep ==
    ASSUME IInv, KInv, NEW t \in Tasks, NEW r, r = task[t].room,
           task[t].at \in {"stopping", "dropping", "reclaiming"},
           NEW w, \/ w = [states[r] EXCEPT !.paused = TRUE]
                  \/ w = [states[r] EXCEPT !.dropped = TRUE]
                  \/ w = [states[r] EXCEPT !.session = None],
           Change(r, task[t].pin, w)
    PROVE  /\ r \in Rooms /\ states[r] # None
           /\ task[t].at = "stopping" => ~states[r].paused
           /\ \A q \in Rooms : q # r => states'[q] = states[q]
           /\ states'[r] = w /\ w # None /\ w.name = states[r].name /\ w.id = states[r].id
           /\ \/ w.session = states[r].session
              \/ w = [states[r] EXCEPT !.session = None] /\ w.session = None
<1>1. r \in Rooms
  BY AtHome
<1>2. Stage(task[t], states[r], procs[r], routed[r], bound, running)
  BY DEF KInv, Staged, Holding, Busy, Waiting
<1>3. /\ states[r] # None /\ IdOf(states[r]) = task[t].pin
      /\ task[t].at = "stopping" => ~states[r].paused
  BY <1>2 DEF Stage, IdOf
<1>4. states[r] \in Records
  BY <1>1, <1>3 DEF IInv, Indexed
<1>5. states' = [states EXCEPT ![r] = w]
  BY <1>3 DEF Change
<1>6. states'[r] = w /\ \A q \in Rooms : q # r => states'[q] = states[q]
  BY <1>1, <1>5 DEF IInv, Indexed
<1>7. w \in Records
  BY <1>4 DEF Records
<1>8. w # None /\ w.name = states[r].name /\ w.id = states[r].id
      /\ \/ w.session = states[r].session
         \/ w = [states[r] EXCEPT !.session = None] /\ w.session = None
  BY <1>4, <1>7, RecordsAre DEF Records
<1> QED BY <1>1, <1>3, <1>6, <1>8

LEMMA PauseEndStep ==
    ASSUME IInv, IInv', KInv, NEW t \in Tasks, NEW r, r = task[t].room,
           PauseEnd(t)
    PROVE  KInv'
<1>1. /\ task[t].at = "stopping" /\ running' = running \ {task[t].ws} /\ bound' = Unbound(t)
      /\ Change(r, task[t].pin, [states[r] EXCEPT !.paused = TRUE])
      /\ Save({}) /\ Leave(t) /\ UNCHANGED <<label, procs, routed, subscribed>>
  BY DEF PauseEnd, Drained
<1>2. Saved
  BY <1>1, SaveSaves
<1> QED BY <1>1, <1>2, ChangeStep, DownStep

LEMMA DropEndStep ==
    ASSUME IInv, IInv', KInv, NEW t \in Tasks, NEW r, r = task[t].room,
           DropEnd(t)
    PROVE  KInv'
<1>1. /\ task[t].at = "dropping" /\ running' = running \ {task[t].ws} /\ bound' = Unbound(t)
      /\ Change(r, task[t].pin, [states[r] EXCEPT !.dropped = TRUE])
      /\ Save({}) /\ Leave(t) /\ UNCHANGED <<label, procs, routed, subscribed>>
  BY DEF DropEnd, Drained
<1>2. Saved
  BY <1>1, SaveSaves
<1> QED BY <1>1, <1>2, ChangeStep, DownStep

LEMMA HaltEndStep ==
    ASSUME IInv, IInv', KInv, NEW t \in Tasks, NEW r, r = task[t].room,
           HaltEnd(t)
    PROVE  KInv'
<1>1. /\ task[t].at = "stopping" /\ running' = running \ {task[t].ws} /\ bound' = Unbound(t)
      /\ states' = states /\ Save({}) /\ Leave(t)
      /\ UNCHANGED <<label, procs, routed, subscribed>>
  BY DEF HaltEnd, Drained, indexVars
<1>2. Saved
  BY <1>1, SaveSaves
<1>3. states[r] # None
  BY <1>1, UnboundHands
<1> QED BY <1>1, <1>2, <1>3, DownStep

LEMMA ResetEndStep ==
    ASSUME IInv, IInv', KInv, NEW t \in Tasks, NEW r, r = task[t].room,
           ResetEnd(t)
    PROVE  KInv'
<1> DEFINE w == [states[r] EXCEPT !.session = None]
           k == [task[t] EXCEPT !.at = "provisioning", !.ws = None, !.ses = None,
                                !.fresh = TRUE]
<1>1. /\ task[t].op = "reset" /\ task[t].at = "stopping"
      /\ running' = running \ {task[t].ws} /\ bound' = Unbound(t)
      /\ Change(r, task[t].pin, w)
      /\ Leave(t) \/ Go(t, k)
      /\ UNCHANGED <<label, procs, routed, subscribed, disk>>
  BY DEF ResetEnd, Drained
<1>2. /\ r \in Rooms /\ states[r] # None /\ ~states[r].paused
      /\ \A q \in Rooms : q # r => states'[q] = states[q]
      /\ states'[r] = w /\ w # None /\ w.name = states[r].name /\ w.id = states[r].id
      /\ w.session \in {None, states[r].session}
  BY <1>1, ChangeStep
<1>3. w.session = None /\ ~w.paused
  <2>1. states[r] \in Records
    BY <1>2 DEF IInv, Indexed
  <2> QED BY <1>2, <2>1 DEF Records
<1> HIDE DEF w, k
<1>4. CASE Leave(t)
  BY <1>1, <1>2, <1>4, DownStep, UnsavedIsSaved
<1>5. CASE Go(t, k)
  <2>1. /\ Handed(t, r, bound') /\ procs[r] = None /\ routed[r] = None
        /\ \A s \in Sessions : bound'[s] # r
    BY <1>1, UnboundHands
  <2>2. Alone(t, r)
    BY <1>1, HolderAlone DEF Holding, Busy, Waiting
  <2>3. states'[r].name = label[r]
    BY <1>2 DEF KInv, Homes
  <2>4. IdOf(states'[r]) = IdOf(states[r]) /\ SessionOf(states'[r]) = None
    BY <1>2, <1>3 DEF IdOf, SessionOf
  <2>5. k = [task[t] EXCEPT !.at = "provisioning", !.ws = None, !.ses = None, !.fresh = TRUE]
    BY DEF k
  <2> QED BY <1>1, <1>2, <1>3, <1>5, <2>1, <2>2, <2>3, <2>4, <2>5, ProvisioningStep
<1> QED BY <1>1, <1>4, <1>5

LEMMA RestartEndStep ==
    ASSUME IInv, IInv', KInv, NEW t \in Tasks, NEW r, r = task[t].room,
           RestartEnd(t)
    PROVE  KInv'
<1> DEFINE n == IF IdOf(states[r]) = task[t].pin THEN states[r].name ELSE task[t].name
<1>1. /\ task[t].op = "restart" /\ task[t].at = "stopping"
      /\ running' = running \ {task[t].ws}
      /\ \/ Leave(t) /\ bound' = Unbound(t) /\ UNCHANGED indexVars
         \/ Start(t, r, n, states[r], Unbound(t))
      /\ UNCHANGED <<label, procs, routed, subscribed, disk>>
  BY DEF RestartEnd, Drained
<1>2. /\ Handed(t, r, Unbound(t)) /\ states[r] # None /\ procs[r] = None /\ routed[r] = None
      /\ IdOf(states[r]) = task[t].pin /\ ~states[r].paused
  <2>1. Stage(task[t], states[r], procs[r], routed[r], bound, running)
    BY <1>1 DEF KInv, Staged, Holding, Busy, Waiting
  <2> QED BY <1>1, <2>1, UnboundHands DEF Stage
<1>3. n = task[t].name
  BY <1>1, <1>2, AtHome DEF KInv, Homes
<1> HIDE DEF n
<1>4. CASE Leave(t) /\ bound' = Unbound(t) /\ UNCHANGED indexVars
  BY <1>1, <1>2, <1>4, DownStep, UnsavedIsSaved DEF indexVars
<1>5. CASE Start(t, r, n, states[r], Unbound(t))
  <2>1. Unbound(t) \in [Sessions -> Rooms \cup {None}]
    BY UnboundIs DEF IInv
  <2>2. Alone(t, r)
    BY <1>1, HolderAlone DEF Holding, Busy, Waiting
  <2> QED BY <1>1, <1>2, <1>3, <1>5, <2>1, <2>2, StartStep
<1> QED BY <1>1, <1>4, <1>5

-----------------------------------------------------------------------------
(* Idle and gone.                                                           *)

LEMMA EnterDropStep ==
    ASSUME IInv, IInv', KInv, NEW t \in Tasks, NEW r, r = task[t].room,
           EnterDrop(t)
    PROVE  KInv'
<1> DEFINE k == [task[t] EXCEPT !.at = "dropping", !.room = r, !.ws = procs[r],
                                !.pin = states[r].id, !.ses = states[r].session]
<1>1. /\ task[t].op = "drop" /\ task[t].at = "lock" /\ LockFree(task[t].key)
      /\ UNCHANGED <<label, indexVars, running, subscribed, bound, disk>>
  BY DEF EnterDrop
<1>2. /\ r \in Rooms /\ Named(task[t].name) = states[r]
      /\ roomOf[task[t].name] = IF states[r] = None THEN None ELSE r
  BY <1>1, AtHome
<1>3. CASE Leave(t) /\ UNCHANGED <<procs, routed>>
  BY <1>1, <1>3, LeavingAtLock DEF Holding, Waiting, routeVars
<1>4. CASE /\ states[r] # None /\ ~Paused(states[r])
           /\ procs' = [procs EXCEPT ![r] = None] /\ Release(r) /\ Go(t, k)
  <2>1. /\ k.at = "dropping" /\ k.op = task[t].op /\ k.room = r /\ k.name = task[t].name
        /\ k.key = task[t].key /\ k.prior = task[t].prior /\ k.ws = procs[r]
        /\ k.pin = states[r].id /\ k.ses = states[r].session
    <3>1. task[t] \in Coroutines
      BY FieldsOf DEF IInv
    <3> QED BY <3>1 DEF Coroutines
  <2> HIDE DEF k
  <2>2. /\ procs'[r] = None
        /\ \A q \in Rooms : q # r => procs'[q] = procs[q] /\ routed'[q] = routed[q]
    BY <1>2, <1>4 DEF Release, IInv, Routes
  <2>3. routed'[r] = None
    <3>1. routed[r] # None => routed[r] = procs[r]
      BY <1>2 DEF KInv, RoomFits
    <3> QED BY <1>2, <1>4, <3>1 DEF Release, IInv, Routes
  <2>4. ~states[r].paused
    BY <1>4 DEF Paused
  <2>5. Alone(t, r)
    BY <1>1, LockAlone
  <2> QED BY <1>1, <1>4, <2>1, <2>2, <2>3, <2>4, <2>5, TakenDown
<1>5. states[r] # None => roomOf[task[t].name] = r
  BY <1>2
<1> QED BY <1>2, <1>3, <1>4, <1>5 DEF EnterDrop

\* _reclaim_record_locked() of a record without a processor.
LEMMA ReclaimingStep ==
    ASSUME IInv, IInv', KInv, NEW t \in Tasks, NEW r, r = task[t].room, task[t].at = "lock",
           Alone(t, r), task[t].op \notin {"wake", "join", "boot"}, states[r] # None,
           procs[r] = None, NEW k, Go(t, k),
           \/ k = [task[t] EXCEPT !.at = "reclaiming", !.room = r, !.pin = states[r].id,
                                  !.ses = states[r].session]
           \/ /\ k = [task[t] EXCEPT !.at = "reclaiming", !.ses = states[r].session]
              /\ task[t].pin = states[r].id,
           subscribed' = subscribed \ {r},
           UNCHANGED <<label, indexVars, procs, routed, running, bound, disk>>
    PROVE  KInv'
<1>1. /\ k.at = "reclaiming" /\ k.op = task[t].op /\ k.room = r /\ k.name = task[t].name
      /\ k.key = task[t].key /\ k.prior = task[t].prior /\ k.ws = task[t].ws
      /\ k.pin = states[r].id /\ k.ses = states[r].session
  <2>1. task[t] \in Coroutines
    BY FieldsOf DEF IInv
  <2> QED BY ZenonT(60), <2>1 DEF Coroutines
<1>2. task[t].ws = None /\ r \in Rooms
  BY AtHome DEF KInv, Homes, Home, Holding, Waiting
<1>3. routed[r] = None
  BY <1>2 DEF KInv, RoomFits
<1> QED BY <1>1, <1>2, <1>3, TakenDown

LEMMA EnterExpireStep ==
    ASSUME IInv, IInv', KInv, NEW t \in Tasks, NEW r, r = task[t].room,
           EnterExpire(t)
    PROVE  KInv'
<1> DEFINE k == [task[t] EXCEPT !.at = "reclaiming", !.room = r, !.pin = states[r].id,
                                !.ses = states[r].session]
<1>1. /\ task[t].op = "expire" /\ task[t].at = "lock" /\ LockFree(task[t].key)
      /\ UNCHANGED <<label, indexVars, procs, routed, running, bound, disk>>
  BY DEF EnterExpire
<1>2. /\ r \in Rooms /\ Named(task[t].name) = states[r]
      /\ roomOf[task[t].name] = IF states[r] = None THEN None ELSE r
  BY <1>1, AtHome
<1>3. CASE Leave(t) /\ UNCHANGED subscribed
  BY <1>1, <1>3, LeavingAtLock DEF Holding, Waiting, routeVars
<1>4. CASE /\ Expirable(states[r], task[t].name) /\ roomOf[task[t].name] = r
           /\ subscribed' = subscribed \ {r} /\ Go(t, k)
  <2>1. states[r] # None /\ procs[r] = None
    BY <1>2, <1>4, NoneAssumption DEF Expirable, ProcessorNamed
  <2>2. Alone(t, r)
    BY <1>1, LockAlone
  <2>3. k = [task[t] EXCEPT !.at = "reclaiming", !.room = r, !.pin = states[r].id,
                            !.ses = states[r].session]
    OBVIOUS
  <2> HIDE DEF k
  <2> QED BY <1>1, <1>4, <2>1, <2>2, <2>3, ReclaimingStep
<1>5. Expirable(states[r], task[t].name) => roomOf[task[t].name] = r
  BY <1>2 DEF Expirable
<1> QED BY <1>2, <1>3, <1>4, <1>5 DEF EnterExpire

LEMMA RereadStep ==
    ASSUME IInv, IInv', KInv, NEW t \in Tasks, NEW r, r = task[t].room, task[t].at = "lock",
           task[t].op = "leave", states[r] # None,
           Go(t, [task[t] EXCEPT !.name = states[r].name, !.key = states[r].name,
                                 !.pin = states[r].id]),
           UNCHANGED <<label, indexVars, routeVars, bound, disk>>
    PROVE  KInv'
<1> DEFINE k == [task[t] EXCEPT !.name = states[r].name, !.key = states[r].name,
                                !.pin = states[r].id]
<1>1. r \in Rooms /\ states[r].name = label[r]
  BY AtHome DEF KInv, Homes
<1>2. /\ k.at = "lock" /\ k.op = "leave" /\ k.room = r /\ k.name = states[r].name
      /\ k.key = states[r].name /\ k.prior = task[t].prior /\ k.ws = task[t].ws
      /\ Go(t, k) /\ task'[t] = k
  <2>1. task[t] \in Coroutines
    BY FieldsOf DEF IInv
  <2> QED BY <2>1 DEF Coroutines, Go, IInv, Places
<1> HIDE DEF k
<1>3. task[t].prior = None /\ task[t].ws = None /\ ~Holding(t)
  BY DEF KInv, Homes, Home, Holding, Waiting
<1>4. ~Holding(t)' /\ Home(t)' /\ Blank(t)' /\ ~Makes(t)'
  BY <1>1, <1>2, <1>3 DEF Holding, Waiting, Home, Blank, Makes
<1> QED BY <1>2, <1>3, <1>4, RequestKeeps

LEMMA EnterReclaimStep ==
    ASSUME IInv, IInv', KInv, NEW t \in Tasks, NEW r, r = task[t].room,
           EnterReclaim(t)
    PROVE  KInv'
<1> DEFINE w == states[r]
           mine == IdOf(w) = task[t].pin
<1>1. /\ task[t].op \in {"leave", "release"} /\ task[t].at = "lock" /\ LockFree(task[t].key)
      /\ UNCHANGED <<label, indexVars, running, bound, disk>>
  BY DEF EnterReclaim
<1>2. Alone(t, r)
  BY <1>1, LockAlone
<1>3. r \in Rooms /\ task[t].pin \in Recs /\ task[t].name = label[r]
  BY <1>1, FieldsOf, AtHome DEF IInv, Fits
<1>4. mine => /\ states[r] # None /\ task[t].pin = states[r].id
              /\ states[r].name = task[t].name
  BY <1>3, NoneAssumption DEF IdOf, KInv, Homes
<1>5. CASE Leave(t) /\ UNCHANGED <<procs, routed, subscribed>>
  BY <1>1, <1>5, LeavingAtLock DEF Holding, Waiting, routeVars
<1>6. CASE /\ w # None /\ task[t].op = "leave"
           /\ Go(t, [task[t] EXCEPT !.name = w.name, !.key = w.name, !.pin = w.id])
           /\ UNCHANGED <<procs, routed, subscribed>>
  BY <1>1, <1>6, RereadStep DEF routeVars
<1>7. CASE mine /\ procs[r] # None /\ Stop(t, w.name)
  <2>1. Stop(t, task[t].name) /\ states[r] # None
    BY <1>4, <1>7
  <2> QED BY <1>1, <1>2, <1>7, <2>1, StopStep
<1>8. CASE /\ mine /\ procs[r] = None /\ subscribed' = subscribed \ {r}
           /\ Go(t, [task[t] EXCEPT !.at = "reclaiming", !.ses = w.session])
           /\ UNCHANGED <<procs, routed>>
  BY <1>1, <1>2, <1>4, <1>8, ReclaimingStep
<1> QED BY <1>5, <1>6, <1>7, <1>8 DEF EnterReclaim

LEMMA ReclaimStoppedStep ==
    ASSUME IInv, IInv', KInv, NEW t \in Tasks, NEW r, r = task[t].room,
           ReclaimStopped(t)
    PROVE  KInv'
<1> DEFINE k == [task[t] EXCEPT !.at = "reclaiming", !.ws = None]
<1>1. /\ task[t].op \in {"leave", "release"} /\ task[t].at = "stopping"
      /\ running' = running \ {task[t].ws} /\ bound' = Unbound(t) /\ Go(t, k)
      /\ label' = label /\ states' = states /\ roomOf' = roomOf /\ procs' = procs
      /\ routed' = routed /\ subscribed' = subscribed /\ disk' = disk
  BY DEF ReclaimStopped, Drained, indexVars
<1>2. /\ Handed(t, r, bound') /\ (\A s \in Sessions : bound'[s] # r)
      /\ states[r] # None /\ procs[r] = None /\ routed[r] = None
      /\ task[t].prior = None
  BY <1>1, UnboundHands
<1>3. /\ task'[t] = k /\ k.at = "reclaiming" /\ k.ws = None /\ k.prior = task[t].prior
      /\ k.room = r /\ k.name = task[t].name /\ k.key = task[t].key /\ k.ses = task[t].ses
      /\ k.op = task[t].op /\ k.pin = task[t].pin
  <2>1. task'[t] = k /\ task[t] \in Coroutines
    BY <1>1, FieldsOf DEF Go, IInv, Places
  <2> QED BY <2>1 DEF Coroutines
<1> HIDE DEF k
<1>4. r \in Rooms /\ Alone(t, r) /\ states[r].name = label[r]
  BY <1>1, <1>2, AtHome, HolderAlone DEF Holding, Busy, Waiting, KInv, Homes
<1>5. Inside(t, r, k)
  BY <1>1, <1>2, <1>3, <1>4, UnsavedIsSaved DEF Inside, Elsewhere, Handed
<1>6. OldOrNew(t, r)
  BY <1>1, <1>2, <1>3, NoneAssumption DEF OldOrNew, HasId, HasSession, IdOf, SessionOf
<1>7. Home(t)' /\ Blank(t)' /\ (Makes(t)' => Makes(t))
  <2>1. Home(t)
    BY DEF KInv, Homes
  <2> QED BY <1>1, <1>2, <1>3, <2>1 DEF Home, Blank, Makes, Holding, Busy, Waiting
<1>8. Staged(t)'
  <2>1. Stage(task[t], states[r], procs[r], routed[r], bound, running)
    BY <1>1 DEF KInv, Staged, Holding, Busy, Waiting
  <2> QED BY <1>1, <1>2, <1>3, <2>1 DEF Staged, Stage
<1>9. RoomFits(r)'
  BY <1>1, <1>2 DEF RoomFits
<1>10. RunningHeld'
  BY <1>1, <1>2, HandedIsHeld
<1> QED BY <1>1, <1>2, <1>4, <1>5, <1>6, <1>7, <1>8, <1>9, <1>10, StepKeeps

LEMMA ReclaimedStep ==
    ASSUME IInv, IInv', KInv, NEW t \in Tasks, NEW r, r = task[t].room,
           Reclaimed(t)
    PROVE  KInv'
<1> DEFINE n == CurrentName(t)
<1>1. /\ task[t].at = "reclaiming" /\ bound' = Unbound(t) /\ Leave(t)
      /\ running' = running /\ UNCHANGED <<label, procs, routed, subscribed>>
      /\ \/ Uninstall(n) /\ Save({task[t].name, n})
         \/ states' = [states EXCEPT ![r].dropped = TRUE] /\ disk' = disk
  BY DEF Reclaimed, routeVars
<1>2. task[t].ws = None
  BY <1>1 DEF KInv, Staged, Stage, Holding, Busy, Waiting
<1>3. running' = running \ {task[t].ws}
  BY <1>1, <1>2, NoneAssumption DEF IInv, Routes
<1>4. states[r] # None /\ IdOf(states[r]) = task[t].pin
  BY <1>1, <1>3, UnboundHands
<1>5. r \in Rooms /\ n = label[r] /\ roomOf[n] = r
  BY <1>1, <1>4, AtHome DEF CurrentName, KInv, Homes
<1> HIDE DEF n
<1>6. CASE Uninstall(n) /\ Save({task[t].name, n})
  <2>1. states'[r] = None /\ \A q \in Rooms : q # r => states'[q] = states[q]
    BY <1>5, <1>6, NoneAssumption DEF Uninstall, IInv, Indexed
  <2>2. Saved
    BY <1>6, SaveSaves
  <2> QED BY <1>1, <1>3, <2>1, <2>2, DownStep
<1>7. CASE states' = [states EXCEPT ![r].dropped = TRUE] /\ disk' = disk
  <2>1. Change(r, task[t].pin, [states[r] EXCEPT !.dropped = TRUE])
    BY <1>4, <1>7 DEF Change
  <2>2. task[t].at = "reclaiming" /\ Leave(t) /\ bound' = Unbound(t) /\ Saved
        /\ UNCHANGED <<label, procs, routed, subscribed>>
    BY <1>1, <1>7, UnsavedIsSaved
  <2> QED BY <1>3, <2>1, <2>2, ChangeStep, DownStep
<1> QED BY <1>1, <1>6, <1>7

LEMMA CoroutineStep ==
    ASSUME IInv, IInv', KInv, NEW t \in Tasks, Step(t)
    PROVE  KInv'
<1>1. PICK r : r = task[t].room
  OBVIOUS
<1> QED
  BY <1>1, EnterRoomStep, EnterStopStep, PauseEndStep, ResetEndStep, RestartEndStep, HaltEndStep,
     EnterWakeStep, EnterJoinStep, EnterResumeStep, EnterReviveStep, ProvisionedStep,
     NotProvisionedStep, InjectedStep, NotInjectedStep, SubscribedStep, NotSubscribedStep,
     EnterDropStep, DropEndStep, EnterExpireStep, EnterReclaimStep, ReclaimStoppedStep,
     ReclaimedStep DEF Step

-----------------------------------------------------------------------------
(* Boot, quiescence, shutdown, crash.                                       *)

\* No step of the boot evaluation, of a reload or of a shutdown concerns the watchers, but
\* for the flag of a record and for what the file is told.
LEMMA QuietStep ==
    ASSUME IInv, IInv', KInv, UNCHANGED <<label, roomOf, routeVars, bound, task>>, Saved,
           \A r \in Rooms : \/ states'[r] = states[r]
                            \/ states[r] # None /\ states'[r] = [states[r] EXCEPT !.dropped = TRUE]
    PROVE  KInv'
<1>1. /\ label' = label /\ procs' = procs /\ routed' = routed /\ running' = running
      /\ subscribed' = subscribed /\ bound' = bound /\ task' = task
  BY DEF routeVars
<1>2. ASSUME NEW r \in Rooms
      PROVE  /\ (states'[r] = None) = (states[r] = None)
             /\ states[r] # None => /\ states'[r].id = states[r].id
                                    /\ states'[r].name = states[r].name
                                    /\ states'[r].session = states[r].session
                                    /\ states'[r].paused = states[r].paused
             /\ IdOf(states'[r]) = IdOf(states[r])
             /\ SessionOf(states'[r]) = SessionOf(states[r])
  <2>1. CASE states'[r] = states[r]
    BY <2>1
  <2>2. CASE states'[r] = [states[r] EXCEPT !.dropped = TRUE] /\ states[r] # None
    <3>1. states[r] \in Records
      BY <2>2 DEF IInv, Indexed
    <3>2. states'[r] \in Records
      BY <2>2, <3>1 DEF Records
    <3>3. states'[r] # None /\ states[r] # None
      BY <2>2, <3>2, RecordsAre
    <3>4. /\ states'[r].id = states[r].id /\ states'[r].name = states[r].name
          /\ states'[r].session = states[r].session /\ states'[r].paused = states[r].paused
      BY <2>2, <3>1 DEF Records
    <3> QED BY <3>3, <3>4 DEF IdOf, SessionOf
  <2> QED BY <2>1, <2>2
<1>3. ASSUME NEW n \in Names, disk'[n] # None, disk'[n] # disk[n]
      PROVE  /\ disk'[n].room \in Rooms /\ roomOf[n] = disk'[n].room
             /\ states[disk'[n].room] # None /\ label[disk'[n].room] = n
             /\ disk'[n].session = SessionOf(states[disk'[n].room])
  <2>1. /\ roomOf'[n] \in Rooms /\ disk'[n].room = roomOf'[n]
        /\ disk'[n].session = SessionOf(states'[roomOf'[n]])
    BY <1>3 DEF Saved
  <2>2. roomOf'[n] = roomOf[n]
    OBVIOUS
  <2>3. states[roomOf[n]] # None /\ states[roomOf[n]].name = n
    BY <2>1, <2>2 DEF IInv, Indexed, IndexAgrees
  <2> QED BY <1>2, <2>1, <2>2, <2>3 DEF KInv, Homes
<1>4. Homes'
  <2>1. \A t \in Tasks : Home(t)'
    BY <1>1 DEF KInv, Homes, Home, Holding, Busy, Waiting
  <2>2. \A r \in Rooms : states'[r] # None => states'[r].name = label[r]
    BY <1>2 DEF KInv, Homes
  <2>3. \A n \in Names : disk'[n] # None => label[disk'[n].room] = n
    BY <1>3 DEF KInv, Homes
  <2>4. \A p, q \in Rooms : label[p] = label[q] => p = q
    BY DEF KInv, Homes
  <2> QED BY <1>1, <2>1, <2>2, <2>3, <2>4 DEF Homes
<1>5. OneTransition' /\ OneMaker'
  BY <1>1 DEF KInv, OneTransition, OneMaker, Makes, Holding, Busy, Waiting
<1>6. Apart'
  <2>1. \A q \in Rooms, i \in Recs : HasId(q, i)' => HasId(q, i)
    BY <1>1, <1>2 DEF HasId
  <2>2. ASSUME NEW q \in Rooms, NEW s \in Sessions, HasSession(q, s)'
        PROVE  HasSession(q, s)
    <3>1. CASE SessionOf(states'[q]) = s
      BY <1>2, <3>1 DEF HasSession
    <3>2. CASE \E n \in Names : IF disk'[n] = None THEN FALSE
                                ELSE disk'[n].room = q /\ disk'[n].session = s
      <4>1. PICK n \in Names : disk'[n] # None /\ disk'[n].room = q /\ disk'[n].session = s
        BY <3>2
      <4> QED BY <1>3, <4>1 DEF HasSession
    <3>3. CASE \E t \in Tasks : task'[t].room = q /\ SessionOf(task'[t].prior) = s
      BY <1>1, <3>3 DEF HasSession
    <3> QED BY <2>2, <3>1, <3>2, <3>3 DEF HasSession
  <2> QED BY <2>1, <2>2 DEF KInv, Apart
<1>7. RunningHeld'
  BY <1>1 DEF KInv, RunningHeld
<1>8. ASSUME NEW t \in Tasks PROVE Blank(t)' /\ Staged(t)'
  <2>1. Blank(t) /\ Staged(t)
    BY DEF KInv
  <2>2. task[t].at # "free" => task[t].room \in Rooms
    BY FieldsOf DEF IInv, Fits
  <2>3. Blank(t)'
    BY <1>1, <1>2, <2>1, <2>2 DEF Blank, Makes
  <2>4. ASSUME Holding(t)
        PROVE  Stage(task[t], states'[task[t].room], procs[task[t].room], routed[task[t].room],
                     bound, running)
    <3> DEFINE r == task[t].room
    <3>1. r \in Rooms
      BY <2>2, <2>4 DEF Holding, Busy
    <3>2. Stage(task[t], states[r], procs[r], routed[r], bound, running)
      BY <2>1, <2>4 DEF Staged
    <3>3. /\ (states'[r] = None) = (states[r] = None)
          /\ states[r] # None => /\ states'[r].id = states[r].id
                                 /\ states'[r].session = states[r].session
                                 /\ states'[r].paused = states[r].paused
      BY <1>2, <3>1
    <3> HIDE DEF r
    <3>4. Stage(task[t], states'[r], procs[r], routed[r], bound, running)
      BY <3>2, <3>3 DEF Stage
    <3> QED BY <3>4 DEF r
  <2>5. Staged(t)'
    BY <1>1, <2>4 DEF Staged, Holding, Busy, Waiting
  <2> QED BY <2>3, <2>5
<1>9. ASSUME NEW r \in Rooms PROVE RoomFits(r)'
  <2>1. RoomFits(r)
    BY DEF KInv
  <2>2. Whole(r) => Whole(r)'
    BY <1>1, <1>2 DEF Whole
  <2> QED BY <1>1, <1>2, <2>1, <2>2 DEF RoomFits
<1> QED BY <1>4, <1>5, <1>6, <1>7, <1>8, <1>9 DEF KInv

-----------------------------------------------------------------------------
(* Which operations are at work.                                            *)

\* The sweep's ones know two awaits only; in quiescence nothing is left but a reload's
\* stops, and after a shutdown nothing at all.
OpFits(t) ==
    /\ task[t].op \in Ops \cup {"none", "boot"}
    /\ task[t].op \in SweepOps => task[t].at \in {"lock", "dropping", "reclaiming"}
    /\ Busy(t) /\ phase \in {"quiet", "stopped"} => phase = "quiet" /\ task[t].op = "halt"
QInv == \A t \in Tasks : OpFits(t)

\* A transition stays the one it is until it is over.
SameOp(t) ==
    /\ phase' = phase /\ Busy(t)
    /\ \A u \in Tasks : u # t => task'[u] = task[u]
    /\ task'[t] = Idle \/ task'[t].op = task[t].op
    /\ task'[t].op \in SweepOps => task'[t].at \in {"lock", "dropping", "reclaiming"}

LEMMA EndsHere ==
    ASSUME IInv, NEW t \in Tasks, Busy(t), phase' = phase, Leave(t)
    PROVE  SameOp(t)
BY DEF SameOp, Leave, Go, IInv, Places, Idle, SweepOps

LEMMA GoesOn ==
    ASSUME IInv, NEW t \in Tasks, Busy(t), phase' = phase, NEW k, Go(t, k),
           k.op = task[t].op,
           k.op \in SweepOps => k.at \in {"lock", "dropping", "reclaiming"}
    PROVE  SameOp(t)
BY DEF SameOp, Go, IInv, Places

LEMMA BuildGoesOn ==
    ASSUME IInv, NEW t \in Tasks, NEW r, NEW n, NEW s, NEW b, NEW maps, NEW fields \in Coroutines,
           Build(t, r, n, s, b, maps, fields), fields.op = task[t].op,
           task[t].op \notin SweepOps, Busy(t), phase' = phase
    PROVE  SameOp(t)
<1>1. CASE Installable(r, n)
  <2> DEFINE k == [fields EXCEPT !.at = "injecting", !.name = n, !.ws = NewId,
                                 !.prior = Named(n), !.ses = s]
  <2>1. Go(t, k)
    BY <1>1 DEF Build
  <2>2. k.op = task[t].op
    BY DEF Coroutines
  <2> QED BY <2>1, <2>2, GoesOn
<1>2. CASE ~Installable(r, n)
  BY <1>2, EndsHere DEF Build
<1> QED BY <1>1, <1>2

LEMMA StartGoesOn ==
    ASSUME IInv, NEW t \in Tasks, NEW r, NEW n, NEW w, NEW maps, Start(t, r, n, w, maps),
           task[t].op \notin SweepOps, Busy(t), phase' = phase
    PROVE  SameOp(t)
<1> DEFINE carried == task[t].op \in {"restart", "revive"} /\ w # None /\ w.dropped
           fields == [task[t] EXCEPT !.fresh = FALSE]
           k == [task[t] EXCEPT !.at = "provisioning", !.name = n, !.ws = None,
                                !.ses = None, !.fresh = TRUE]
<1>1. task[t] \in Coroutines
  BY FieldsOf DEF IInv
<1>2. CASE Refused(r, n)
  BY <1>2, EndsHere DEF Start
<1>3. CASE ~Refused(r, n) /\ IdOf(w) # None /\ w.session # None
  <2>1. Build(t, r, n, w.session, carried, maps, fields)
    BY <1>3 DEF Start
  <2>2. fields \in Coroutines /\ fields.op = task[t].op
    BY ZenonT(60), <1>1 DEF Coroutines
  <2> HIDE DEF carried, fields
  <2> QED BY <2>1, <2>2, BuildGoesOn
<1>4. CASE ~Refused(r, n) /\ ~(IdOf(w) # None /\ w.session # None)
  <2>1. Go(t, k)
    BY <1>4 DEF Start
  <2>2. k.op = task[t].op
    BY <1>1 DEF Coroutines
  <2> QED BY <2>1, <2>2, GoesOn
<1> QED BY <1>2, <1>3, <1>4

LEMMA StopGoesOn ==
    ASSUME IInv, NEW t \in Tasks, NEW n, Stop(t, n), Busy(t), phase' = phase,
           task[t].op \notin SweepOps
    PROVE  SameOp(t)
<1> DEFINE r == roomOf[n]
           k == [task[t] EXCEPT !.at = "stopping", !.room = r, !.ws = procs[r],
                                !.pin = states[r].id, !.ses = states[r].session]
<1>1. Go(t, k)
  BY DEF Stop
<1>2. k.op = task[t].op
  BY FieldsOf DEF IInv, Coroutines
<1> HIDE DEF k
<1> QED BY <1>1, <1>2, GoesOn

LEMMA StepsGoOn ==
    ASSUME IInv, NEW t \in Tasks, OpFits(t), Step(t)
    PROVE  SameOp(t)
<1>1. task[t] \in Coroutines
  BY FieldsOf DEF IInv
<1>2. CASE EnterRoom(t)
  <2> DEFINE w == states[task[t].room]
             n == IF w = None THEN label[task[t].room] ELSE w.name
             k == [task[t] EXCEPT !.at = "lock", !.name = n, !.key = n, !.pin = IdOf(w)]
  <2>1. /\ task[t].at = "room" /\ phase' = phase /\ Busy(t) /\ task[t].op \notin SweepOps
        /\ Leave(t) \/ Go(t, k)
    BY <1>2 DEF EnterRoom, Busy, OpFits
  <2>2. k.op = task[t].op
    BY <1>1 DEF Coroutines
  <2> HIDE DEF k
  <2> QED BY <2>1, <2>2, EndsHere, GoesOn
<1>3. CASE EnterStop(t)
  <2>1. /\ task[t].op \notin SweepOps /\ Busy(t) /\ phase' = phase
        /\ Leave(t) \/ Stop(t, task[t].name)
    BY <1>3 DEF EnterStop, Busy, SweepOps
  <2> QED BY <2>1, EndsHere, StopGoesOn
<1>4. CASE EnterReclaim(t)
  <2> DEFINE w == states[task[t].room]
             j == [task[t] EXCEPT !.name = w.name, !.key = w.name, !.pin = w.id]
             k == [task[t] EXCEPT !.at = "reclaiming", !.ses = w.session]
  <2>1. /\ task[t].op \notin SweepOps /\ Busy(t) /\ phase' = phase
        /\ Leave(t) \/ Stop(t, w.name) \/ Go(t, j) \/ Go(t, k)
    BY <1>4 DEF EnterReclaim, Busy, SweepOps
  <2>2. j.op = task[t].op /\ k.op = task[t].op
    BY <1>1 DEF Coroutines
  <2> HIDE DEF w, j, k
  <2> QED BY <2>1, <2>2, EndsHere, StopGoesOn, GoesOn
<1>5. CASE PauseEnd(t) \/ HaltEnd(t) \/ NotProvisioned(t) \/ NotInjected(t) \/ Subscribed(t)
           \/ NotSubscribed(t) \/ DropEnd(t) \/ Reclaimed(t) \/ EnterJoin(t)
  <2>1. phase' = phase /\ Busy(t) /\ Leave(t)
    BY <1>5 DEF PauseEnd, HaltEnd, NotProvisioned, NotInjected, Subscribed, NotSubscribed,
                DropEnd, Reclaimed, EnterJoin, Busy
  <2> QED BY <2>1, EndsHere
<1>6. CASE ResetEnd(t)
  <2> DEFINE k == [task[t] EXCEPT !.at = "provisioning", !.ws = None, !.ses = None,
                                  !.fresh = TRUE]
  <2>1. /\ task[t].op \notin SweepOps /\ Busy(t) /\ phase' = phase
        /\ Leave(t) \/ Go(t, k)
    BY <1>6 DEF ResetEnd, Busy, SweepOps
  <2>2. k.op = task[t].op
    BY <1>1 DEF Coroutines
  <2> HIDE DEF k
  <2> QED BY <2>1, <2>2, EndsHere, GoesOn
<1>7. CASE RestartEnd(t) \/ EnterWake(t) \/ EnterResume(t) \/ EnterRevive(t)
  <2>1. task[t].op \notin SweepOps /\ Busy(t) /\ phase' = phase
    BY <1>7 DEF RestartEnd, EnterWake, EnterResume, EnterRevive, Busy, SweepOps
  <2>2. CASE RestartEnd(t)
    BY <2>1, <2>2, EndsHere, StartGoesOn DEF RestartEnd
  <2>3. CASE EnterWake(t)
    BY <2>1, <2>3, EndsHere, StartGoesOn DEF EnterWake
  <2>4. CASE EnterResume(t)
    BY <2>1, <2>4, EndsHere, StartGoesOn DEF EnterResume
  <2>5. CASE EnterRevive(t)
    BY <2>1, <2>5, EndsHere, StartGoesOn DEF EnterRevive
  <2> QED BY <1>7, <2>2, <2>3, <2>4, <2>5
<1>8. CASE Provisioned(t)
  <2>1. task[t].op \notin SweepOps /\ Busy(t) /\ phase' = phase
    BY <1>8 DEF Provisioned, Busy, OpFits
  <2> QED BY <1>1, <1>8, <2>1, BuildGoesOn DEF Provisioned
<1>9. CASE Injected(t)
  <2>1. task[t].op \notin SweepOps /\ Busy(t) /\ phase' = phase
    BY <1>9 DEF Injected, Busy, OpFits
  <2> QED BY <1>1, <1>9, <2>1, EndsHere DEF Injected, SameOp, Go, IInv, Places, Coroutines
<1>10. CASE EnterDrop(t)
  <2> DEFINE w == Named(task[t].name)
             r == roomOf[task[t].name]
             k == [task[t] EXCEPT !.at = "dropping", !.room = r, !.ws = procs[r],
                                  !.pin = w.id, !.ses = w.session]
  <2>1. Busy(t) /\ phase' = phase /\ (Leave(t) \/ Go(t, k))
    BY <1>10 DEF EnterDrop, Busy
  <2>2. k.op = task[t].op /\ k.at = "dropping"
    BY <1>1 DEF Coroutines
  <2> HIDE DEF k
  <2> QED BY <2>1, <2>2, EndsHere, GoesOn
<1>11. CASE EnterExpire(t)
  <2> DEFINE w == Named(task[t].name)
             r == roomOf[task[t].name]
             k == [task[t] EXCEPT !.at = "reclaiming", !.room = r, !.pin = w.id,
                                  !.ses = w.session]
  <2>1. Busy(t) /\ phase' = phase /\ (Leave(t) \/ Go(t, k))
    BY <1>11 DEF EnterExpire, Busy
  <2>2. k.op = task[t].op /\ k.at = "reclaiming"
    BY <1>1 DEF Coroutines
  <2> HIDE DEF k
  <2> QED BY <2>1, <2>2, EndsHere, GoesOn
<1>12. CASE ReclaimStopped(t)
  <2>1. task[t].op \notin SweepOps /\ Busy(t) /\ phase' = phase
    BY <1>12 DEF ReclaimStopped, Busy, SweepOps
  <2> QED BY <1>1, <1>12, <2>1 DEF ReclaimStopped, SameOp, Go, IInv, Places, Coroutines
<1> QED BY <1>2, <1>3, <1>4, <1>5, <1>6, <1>7, <1>8, <1>9, <1>10, <1>11, <1>12 DEF Step

LEMMA QInvStep ==
    ASSUME IInv, QInv, Next
    PROVE  QInv'
<1>1. ASSUME NEW t \in Tasks, SameOp(t) PROVE QInv'
  <2>1. ASSUME NEW u \in Tasks PROVE OpFits(u)'
    <3>1. OpFits(u)
      BY DEF QInv
    <3>2. CASE u # t
      BY <1>1, <3>1, <3>2 DEF SameOp, OpFits, Busy
    <3>3. CASE u = t
      BY <1>1, <3>1, <3>3 DEF SameOp, OpFits, Busy, Idle, SweepOps
    <3> QED BY <3>2, <3>3
  <2> QED BY <2>1 DEF QInv
<1>2. ASSUME NEW t \in Tasks, NEW r \in Rooms, NEW op \in Ops, NEW f \in {"room", "lock"},
             NEW k, k.op = op, k.at = f, Go(t, k), phase' = phase,
             phase \notin {"quiet", "stopped"} \/ (phase = "quiet" /\ op = "halt"),
             op \in SweepOps => f = "lock"
      PROVE  QInv'
  <2>1. task'[t] = k /\ \A u \in Tasks : u # t => task'[u] = task[u]
    BY <1>2 DEF Go, IInv, Places
  <2>2. ASSUME NEW u \in Tasks PROVE OpFits(u)'
    BY <1>2, <2>1 DEF QInv, OpFits, Busy
  <2> QED BY <2>2 DEF QInv
<1>3. ASSUME NEW t \in Tasks, NEW r \in Rooms, NEW op \in Ops, Offer(t, op, r)
      PROVE  QInv'
  <2> DEFINE k == [[Idle EXCEPT !.at = "room"] EXCEPT !.op = op, !.room = r]
  <2>1. /\ Go(t, k) /\ phase' = phase /\ op \in {"wake", "join"}
        /\ phase \notin {"quiet", "stopped"}
    BY <1>3 DEF Offer, Request, Disarmed
  <2>2. k.op = op /\ k.at = "room"
    BY DEF Idle
  <2> HIDE DEF k
  <2> QED BY <1>2, <2>1, <2>2 DEF SweepOps
<1>4. ASSUME NEW t \in Tasks, NEW r \in Rooms, NEW op \in Ops,
             Verb(t, op, r) \/ Sweep(t, op, r) \/ Reload(t, op, r)
      PROVE  QInv'
  <2> DEFINE k == [[Idle EXCEPT !.at = "lock", !.name = states[r].name, !.key = states[r].name,
                                !.pin = states[r].id] EXCEPT !.op = op, !.room = r]
  <2>1. /\ Go(t, k) /\ phase' = phase
        /\ phase \notin {"quiet", "stopped"} \/ (phase = "quiet" /\ op = "halt")
    BY <1>4 DEF Verb, Sweep, Reload, OnRecord, Request, Disarmed
  <2>2. k.op = op /\ k.at = "lock"
    BY DEF Idle
  <2> HIDE DEF k
  <2> QED BY <1>2, <2>1, <2>2
<1>5. ASSUME NEW r \in Rooms, NEW t \in Tasks, WalkWakes(r, t) PROVE QInv'
  <2> DEFINE k == [Idle EXCEPT !.op = "boot", !.at = "room", !.room = r, !.pin = states[r].id]
  <2>1. Go(t, k) /\ phase' = phase /\ phase \notin {"quiet", "stopped"}
    BY <1>5 DEF WalkWakes, Walking
  <2>2. k.op = "boot" /\ k.at = "room"
    BY DEF Idle
  <2> HIDE DEF k
  <2>3. task'[t] = k /\ \A u \in Tasks : u # t => task'[u] = task[u]
    BY <2>1 DEF Go, IInv, Places
  <2>4. ASSUME NEW u \in Tasks PROVE OpFits(u)'
    BY <2>1, <2>2, <2>3 DEF QInv, OpFits, Busy, SweepOps
  <2> QED BY <2>4 DEF QInv
<1>6. ASSUME NEW r \in Rooms, Observe(r) PROVE QInv'
  <2>1. phase' = phase
    BY <1>6 DEF Observe
  <2>2. ASSUME NEW u \in Tasks PROVE task'[u].op = task[u].op /\ task'[u].at = task[u].at
    <3>1. task[u] \in Coroutines
      BY FieldsOf DEF IInv
    <3>2. \/ task'[u] = task[u] \/ task'[u] = [task[u] EXCEPT !.key = label[r]]
          \/ task'[u] = [task[u] EXCEPT !.key = Detached]
      BY <1>6 DEF Observe
    <3> QED BY <3>1, <3>2 DEF Coroutines
  <2> QED BY <2>1, <2>2 DEF QInv, OpFits, Busy
<1>7. ASSUME NEW r \in Rooms, PlatformRename(r) \/ WalkStamps(r) PROVE QInv'
  BY <1>7 DEF PlatformRename, WalkStamps, Walking, QInv, OpFits, Busy
<1>8. ASSUME NEW i \in walk, WalkSkips(i) PROVE QInv'
  BY <1>8 DEF WalkSkips, QInv, OpFits, Busy
<1>9. CASE BeginWalk \/ EndWalk \/ Disarm \/ Rearm
  BY <1>9 DEF BeginWalk, EndWalk, Disarm, Rearm, QInv, OpFits, Busy
<1>10. CASE Quiet
  <2>1. /\ \A t \in Tasks : ~Awaited(t) /\ phase' = "quiet"
        /\ task' = [t \in Tasks |-> IF task[t].op \in SweepOps THEN Idle ELSE task[t]]
    BY <1>10 DEF Quiet
  <2>2. ASSUME NEW u \in Tasks PROVE OpFits(u)'
    BY <2>1 DEF QInv, OpFits, Busy, Awaited, Idle, SweepOps
  <2> QED BY <2>2 DEF QInv
<1>11. CASE StopAll
  <2>1. phase = "quiet" /\ ~Reloading /\ task' = task /\ phase' = "stopped"
    BY <1>11 DEF StopAll
  <2>2. \A t \in Tasks : ~Busy(t)
    BY <2>1 DEF QInv, OpFits, Reloading
  <2> QED BY <2>1, <2>2 DEF QInv, OpFits, Busy
<1>12. CASE Boot
  BY <1>12 DEF Boot, QInv, OpFits, Busy, Idle, SweepOps
<1>13. ASSUME NEW t \in Tasks, Step(t) PROVE QInv'
  BY <1>1, <1>13, StepsGoOn DEF QInv
<1> QED BY <1>3, <1>4, <1>5, <1>6, <1>7, <1>8, <1>9, <1>10, <1>11, <1>12, <1>13 DEF Next

-----------------------------------------------------------------------------
(* The connector's own steps.                                               *)

LEMMA WalkWakesStep ==
    ASSUME IInv, IInv', KInv, NEW t \in Tasks, NEW r \in Rooms, WalkWakes(r, t)
    PROVE  KInv'
<1> DEFINE k == [Idle EXCEPT !.op = "boot", !.at = "room", !.room = r, !.pin = states[r].id]
<1>1. /\ ~Busy(t) /\ IdOf(states[r]) \in walk /\ Go(t, k)
      /\ UNCHANGED <<label, indexVars, routeVars, bound, disk>>
  BY DEF WalkWakes
<1>2. states[r].id # None
  <2>1. IdOf(states[r]) # None
    BY <1>1, NoneAssumption DEF IInv, Rest
  <2> QED BY <2>1 DEF IdOf
<1>3. /\ k.op = "boot" /\ k.at = "room" /\ k.prior = None /\ k.ws = None /\ k.pin # None
      /\ task'[t] = k
  BY <1>1, <1>2 DEF Idle, Go, IInv, Places
<1> HIDE DEF k
<1>4. ~Holding(t) /\ ~Holding(t)' /\ Home(t)' /\ Blank(t)' /\ ~Makes(t)'
  BY <1>1, <1>3 DEF Holding, Busy, Waiting, Home, Blank, Makes
<1> QED BY <1>1, <1>3, <1>4, RequestKeeps

\* A file that is written again and flags that move, and nothing else.
LEMMA WritesStep ==
    ASSUME IInv, IInv', KInv, UNCHANGED <<label, indexVars, routeVars, bound, task>>,
           disk' = disk \/ Save({})
    PROVE  KInv'
<1>1. Saved
  BY SaveSaves, UnsavedIsSaved
<1>2. states' = states /\ roomOf' = roomOf
  BY DEF indexVars
<1> QED BY <1>1, <1>2, QuietStep

LEMMA WalkStampsStep ==
    ASSUME IInv, IInv', KInv, NEW r \in Rooms, WalkStamps(r)
    PROVE  KInv'
<1>1. /\ IdOf(states[r]) \in walk /\ states' = [states EXCEPT ![r].dropped = TRUE]
      /\ UNCHANGED <<label, roomOf, routeVars, bound, task>> /\ disk' = disk
  BY DEF WalkStamps
<1>2. states[r] # None
  BY <1>1, NoneAssumption DEF IInv, Rest, IdOf
<1>3. ASSUME NEW q \in Rooms
      PROVE  \/ states'[q] = states[q]
             \/ states[q] # None /\ states'[q] = [states[q] EXCEPT !.dropped = TRUE]
  BY <1>1, <1>2 DEF IInv, Indexed
<1> QED BY <1>1, <1>3, QuietStep, UnsavedIsSaved

\* Nothing is inside a watcher, and each is there as a whole or not at all.
LEMMA StillKeeps ==
    ASSUME IInv, IInv', KInv, label' = label, states' = states, Saved, roomOf' = roomOf,
           \A t \in Tasks : ~Busy(t)' /\ Home(t)' /\ task'[t].prior = None,
           \A r \in Rooms : RoomFits(r)', running' \subseteq {procs'[r] : r \in Rooms}
    PROVE  KInv'
<1>1. Homes'
  <2>1. \A t \in Tasks : Home(t)'
    OBVIOUS
  <2>2. ASSUME NEW n \in Names, disk'[n] # None PROVE label[disk'[n].room] = n
    <3>1. CASE disk'[n] = disk[n]
      BY <2>2, <3>1 DEF KInv, Homes
    <3>2. CASE disk'[n] # disk[n]
      <4>1. roomOf[n] \in Rooms /\ disk'[n].room = roomOf[n]
        BY <2>2, <3>2 DEF Saved
      <4>2. states[roomOf[n]] # None /\ states[roomOf[n]].name = n
        BY <4>1 DEF IInv, Indexed, IndexAgrees
      <4> QED BY <4>1, <4>2 DEF KInv, Homes
    <3> QED BY <3>1, <3>2
  <2>3. \A p, q \in Rooms : label[p] = label[q] => p = q
    BY DEF KInv, Homes
  <2> QED BY <2>1, <2>2, <2>3 DEF KInv, Homes
<1>2. OneTransition' /\ OneMaker'
  BY DEF OneTransition, OneMaker, Makes, Holding, Busy
<1>3. Apart'
  <2>1. \A q \in Rooms, i \in Recs : HasId(q, i)' => HasId(q, i)
    BY NoneAssumption DEF HasId, IdOf
  <2>2. ASSUME NEW q \in Rooms, NEW s \in Sessions, HasSession(q, s)'
        PROVE  HasSession(q, s)
    <3>1. CASE SessionOf(states'[q]) = s
      BY <3>1 DEF HasSession
    <3>2. CASE \E n \in Names : IF disk'[n] = None THEN FALSE
                                ELSE disk'[n].room = q /\ disk'[n].session = s
      <4>1. PICK n \in Names : disk'[n] # None /\ disk'[n].room = q /\ disk'[n].session = s
        BY <3>2
      <4>2. CASE disk'[n] = disk[n]
        BY <4>1, <4>2 DEF HasSession
      <4>3. CASE disk'[n] # disk[n]
        BY <4>1, <4>3 DEF Saved, HasSession
      <4> QED BY <4>2, <4>3
    <3>3. CASE \E t \in Tasks : SessionOf(task'[t].prior) = s
      BY <3>3, NoneAssumption DEF SessionOf
    <3> QED BY <2>2, <3>1, <3>2, <3>3 DEF HasSession
  <2> QED BY <2>1, <2>2 DEF KInv, Apart
<1>4. RunningHeld'
  BY DEF RunningHeld
<1>5. \A t \in Tasks : Blank(t)' /\ Staged(t)'
  BY DEF Blank, Makes, Staged, Holding, Busy
<1> QED BY <1>1, <1>2, <1>3, <1>4, <1>5 DEF KInv

\* Of a coroutine that is at rest nothing is left.
LEMMA AtRest ==
    ASSUME IInv, KInv, NEW t \in Tasks, ~Holding(t)
    PROVE  task[t].ws = None /\ task[t].prior = None
BY DEF KInv, Homes, Home, Holding, Busy, Waiting

LEMMA QuietsStep ==
    ASSUME IInv, IInv', QInv, KInv, Quiet
    PROVE  KInv'
<1> DEFINE cut == {t \in Tasks : Busy(t) /\ task[t].op \in SweepOps /\ task[t].at = "dropping"}
<1>1. /\ \A t \in Tasks : ~Awaited(t)
      /\ running' = running \ {task[t].ws : t \in cut}
      /\ task' = [t \in Tasks |-> IF task[t].op \in SweepOps THEN Idle ELSE task[t]]
      /\ label' = label /\ states' = states /\ roomOf' = roomOf /\ procs' = procs
      /\ routed' = routed /\ subscribed' = subscribed /\ bound' = bound /\ disk' = disk
  BY DEF Quiet, indexVars
<1>2. ASSUME NEW t \in Tasks
      PROVE  /\ Holding(t) => task[t].at \in {"dropping", "reclaiming"}
             /\ Busy(t) => task[t].op \in SweepOps
  BY <1>1 DEF QInv, OpFits, Awaited, Holding, Waiting, Busy
<1>3. ASSUME NEW t \in Tasks
      PROVE  ~Busy(t)' /\ Home(t)' /\ task'[t].prior = None
  <2>1. CASE task[t].op \in SweepOps
    BY <1>1, <2>1 DEF Busy, Idle, Home, Holding, Waiting
  <2>2. CASE task[t].op \notin SweepOps
    <3>1. task'[t] = task[t] /\ ~Busy(t)
      BY <1>1, <1>2, <2>2
    <3>2. task[t].ws = None /\ task[t].prior = None
      BY <3>1, AtRest DEF Holding
    <3>3. Home(t)'
      BY <1>1, <3>1 DEF KInv, Homes, Home, Holding, Busy, Waiting
    <3> QED BY <3>1, <3>2, <3>3 DEF Busy
  <2> QED BY <2>1, <2>2
<1>4. ASSUME NEW r \in Rooms PROVE RoomFits(r)'
  <2>1. procs[r] # None => Whole(r)
    BY <1>2 DEF KInv, RoomFits, Holding, Busy, Waiting
  <2>2. procs[r] # None => procs[r] \in running'
    <3> SUFFICES ASSUME procs[r] # None, NEW t \in cut, task[t].ws = procs[r] PROVE FALSE
      BY <1>1, <2>1 DEF Whole
    <3> DEFINE q == task[t].room
    <3>1. Stage(task[t], states[q], procs[q], routed[q], bound, running)
      BY DEF KInv, Staged, Holding, Busy, Waiting
    <3>2. q \in Rooms /\ procs[q] = None /\ IdOf(states[q]) = procs[r]
      BY <3>1, AtHome DEF Stage, IdOf
    <3>3. IdOf(states[r]) = procs[r] /\ procs[r] \in Recs
      BY <2>1 DEF Whole, IdOf, IInv, Routes
    <3>4. q = r
      BY <3>2, <3>3 DEF KInv, Apart, HasId
    <3> QED BY <3>2, <3>4
  <2>3. procs[r] # None => Whole(r)'
    BY <1>1, <2>1, <2>2 DEF Whole
  <2> QED BY <1>1, <2>3 DEF KInv, RoomFits
<1>5. ASSUME NEW i \in running' PROVE \E r \in Rooms : procs'[r] = i
  <2> SUFFICES ASSUME NEW t \in Tasks, i = task[t].ws PROVE FALSE
    BY <1>1 DEF KInv, RunningHeld
  <2>1. i # None
    BY <1>1, NoneAssumption DEF IInv, Routes
  <2>2. Holding(t)
    BY <2>1, AtRest
  <2>3. task[t].at = "dropping"
    <3>1. task[t].at = "reclaiming" => task[t].ws = None
      BY <2>2 DEF KInv, Staged, Stage
    <3> QED BY <1>2, <2>1, <2>2, <3>1
  <2>4. t \in cut
    BY <1>2, <2>2, <2>3 DEF Holding
  <2> QED BY <1>1, <2>4
<1> QED BY <1>1, <1>3, <1>4, <1>5, StillKeeps, UnsavedIsSaved

\* What a shutdown leaves: nothing that runs or is routed to.
LEMMA StopAllStops ==
    ASSUME IInv, QInv, KInv, StopAll
    PROVE  /\ \A t \in Tasks : ~Busy(t) /\ task'[t] = task[t]
           /\ \A r \in Rooms : procs'[r] = None /\ routed'[r] = None
           /\ running' = {}
           /\ \A s \in Sessions, r \in Rooms : bound'[s] = r => SessionOf(states[r]) = s
<1> DEFINE up == {r \in Rooms : procs[r] # None}
<1>1. /\ phase = "quiet" /\ ~Reloading /\ task' = task
      /\ procs' = [r \in Rooms |-> None]
      /\ routed' = [r \in Rooms |-> IF r \in up /\ routed[r] = procs[r] THEN None ELSE routed[r]]
      /\ running' = running \ {procs[r] : r \in up}
      /\ bound' = [s \in Sessions |->
                     IF \E r \in up : SessionOf(states[r]) = s
                     THEN None ELSE bound[s]]
  BY DEF StopAll
<1>2. \A t \in Tasks : ~Busy(t)
  BY <1>1 DEF QInv, OpFits, Reloading
<1>3. ASSUME NEW r \in Rooms PROVE procs'[r] = None /\ routed'[r] = None
  <2>1. routed[r] # None => routed[r] = procs[r]
    BY DEF KInv, RoomFits
  <2> QED BY <1>1, <2>1
<1>4. running' = {}
  <2> SUFFICES ASSUME NEW i \in running' PROVE FALSE
    OBVIOUS
  <2>1. i \in running /\ i # None
    BY <1>1, NoneAssumption DEF IInv, Routes
  <2>2. \A t \in Tasks : task[t].ws = None
    BY <1>2, AtRest DEF Holding
  <2>3. PICK r \in Rooms : procs[r] = i
    BY <2>1, <2>2 DEF KInv, RunningHeld
  <2> QED BY <1>1, <2>1, <2>3
<1>5. ASSUME NEW s \in Sessions, NEW r \in Rooms, bound'[s] = r PROVE SessionOf(states[r]) = s
  <2>1. bound[s] = r
    BY <1>1, <1>5, NoneAssumption
  <2> QED BY <2>1 DEF KInv, RoomFits
<1> QED BY <1>1, <1>2, <1>3, <1>4, <1>5

LEMMA StopAllStep ==
    ASSUME IInv, IInv', QInv, KInv, StopAll
    PROVE  KInv'
<1>1. label' = label /\ states' = states /\ roomOf' = roomOf /\ Save({})
  BY DEF StopAll, indexVars
<1>2. /\ \A t \in Tasks : ~Busy(t) /\ task'[t] = task[t]
      /\ \A r \in Rooms : procs'[r] = None /\ routed'[r] = None
      /\ running' = {}
      /\ \A s \in Sessions, r \in Rooms : bound'[s] = r => SessionOf(states[r]) = s
  BY StopAllStops
<1>3. Saved
  BY <1>1, SaveSaves
<1>4. ASSUME NEW t \in Tasks PROVE ~Busy(t)' /\ Home(t)' /\ task'[t].prior = None
  <2>1. Home(t) /\ task[t].prior = None
    BY <1>2, AtRest DEF KInv, Homes, Holding
  <2> QED BY <1>1, <1>2, <2>1 DEF Home, Holding, Busy, Waiting
<1>5. ASSUME NEW r \in Rooms PROVE RoomFits(r)'
  BY <1>1, <1>2 DEF RoomFits
<1> QED BY <1>1, <1>2, <1>3, <1>4, <1>5, StillKeeps

\* What is read from the file is at home there, and apart.
LEMMA BootStep ==
    ASSUME EnoughRecs, IInv, IInv', KInv, Boot
    PROVE  KInv'
<1> DEFINE ids == CHOOSE f \in [Rooms -> Recs] : \A r, q \in Rooms : r # q => f[r] # f[q]
           rows(r) == {n \in Names : IF disk[n] = None THEN FALSE ELSE disk[n].room = r}
<1>1. ids \in [Rooms -> Recs] /\ \A r, q \in Rooms : r # q => ids[r] # ids[q]
  BY DEF EnoughRecs
<1>2. PICK pick \in [Rooms -> Names \cup {None}] :
            /\ \A r \in Rooms : IF rows(r) = {} THEN pick[r] = None ELSE pick[r] \in rows(r)
            /\ states' = [r \in Rooms |->
                 IF pick[r] = None THEN None
                 ELSE [id |-> ids[r], name |-> pick[r], session |-> disk[pick[r]].session,
                       paused |-> disk[pick[r]].paused, dropped |-> disk[pick[r]].dropped]]
  BY DEF Boot
<1>3. /\ procs' = [r \in Rooms |-> None] /\ routed' = [r \in Rooms |-> None]
      /\ running' = {} /\ bound' = [s \in Sessions |-> None]
      /\ task' = [t \in Tasks |-> Idle] /\ label' = label /\ disk' = disk
  BY DEF Boot
<1> HIDE DEF ids
<1>4. ASSUME NEW r \in Rooms, pick[r] # None
      PROVE  pick[r] \in Names /\ disk[pick[r]] # None /\ disk[pick[r]].room = r
  BY <1>2, <1>4
<1>5. ASSUME NEW r \in Rooms, states'[r] # None
      PROVE  /\ pick[r] # None /\ states'[r].id = ids[r] /\ states'[r].name = pick[r]
             /\ states'[r].session = disk[pick[r]].session
  BY <1>2, <1>5
<1>6. \A t \in Tasks : task'[t] = Idle
  BY <1>3
<1>7. Homes'
  <2>1. ASSUME NEW r \in Rooms, states'[r] # None PROVE states'[r].name = label[r]
    BY <1>4, <1>5, <2>1 DEF KInv, Homes
  <2>2. \A t \in Tasks : Home(t)'
    BY <1>6 DEF Home, Idle, Holding, Busy
  <2>3. /\ \A n \in Names : disk[n] # None => label[disk[n].room] = n
        /\ \A p, q \in Rooms : label[p] = label[q] => p = q
    BY DEF KInv, Homes
  <2> QED BY <1>3, <2>1, <2>2, <2>3 DEF Homes
<1>8. Apart'
  <2>1. ASSUME NEW r \in Rooms, NEW i \in Recs, HasId(r, i)' PROVE i = ids[r]
    <3>1. IdOf(states'[r]) = i
      BY <1>6, <2>1, NoneAssumption DEF HasId, Idle
    <3> QED BY <1>5, <3>1, NoneAssumption DEF IdOf
  <2>2. ASSUME NEW r \in Rooms, NEW s \in Sessions, HasSession(r, s)' PROVE HasSession(r, s)
    <3>1. CASE SessionOf(states'[r]) = s
      <4>1. states'[r] # None /\ states'[r].session = s
        BY <3>1, NoneAssumption DEF SessionOf
      <4>2. /\ pick[r] \in Names /\ disk[pick[r]] # None /\ disk[pick[r]].room = r
            /\ disk[pick[r]].session = s
        BY <1>4, <1>5, <4>1
      <4> QED BY <4>2 DEF HasSession
    <3>2. CASE SessionOf(states'[r]) # s
      <4>1. \A t \in Tasks : task'[t].room # r
        BY <1>6, NoneAssumption DEF Idle
      <4> QED BY <1>3, <2>2, <3>2, <4>1 DEF HasSession
    <3> QED BY <3>1, <3>2
  <2>3. ASSUME NEW r \in Rooms, NEW q \in Rooms, NEW i \in Recs, HasId(r, i)', HasId(q, i)'
        PROVE  r = q
    BY <1>1, <2>1, <2>3
  <2>4. ASSUME NEW r \in Rooms, NEW q \in Rooms, NEW s \in Sessions,
               HasSession(r, s)', HasSession(q, s)'
        PROVE  r = q
    BY <2>2, <2>4 DEF KInv, Apart
  <2> QED BY <2>3, <2>4 DEF Apart
<1>9. /\ OneTransition' /\ OneMaker' /\ RunningHeld'
      /\ \A t \in Tasks : Blank(t)' /\ Staged(t)'
  BY <1>3, <1>6 DEF OneTransition, OneMaker, RunningHeld, Makes, Blank, Staged, Holding, Busy, Idle
<1>10. ASSUME NEW r \in Rooms PROVE RoomFits(r)'
  BY <1>3, NoneAssumption DEF RoomFits
<1> QED BY <1>7, <1>8, <1>9, <1>10 DEF KInv

LEMMA KInvStep ==
    ASSUME EnoughRecs, IInv, IInv', QInv, KInv, [Next]_vars, label' = label
    PROVE  KInv'
<1>1. CASE UNCHANGED vars
  BY <1>1, WritesStep DEF vars
<1>2. ASSUME NEW t \in Tasks, NEW r \in Rooms, NEW op \in Ops,
             Offer(t, op, r) \/ Verb(t, op, r) \/ Sweep(t, op, r) \/ Reload(t, op, r)
      PROVE  KInv'
  BY <1>2, OfferStep, OnRecordStep DEF Verb, Sweep, Reload, SweepOps
<1>3. ASSUME NEW r \in Rooms, PlatformRename(r) PROVE FALSE
  <2>1. PICK n \in Names \ {label[q] : q \in Rooms} : label' = [label EXCEPT ![r] = n]
    BY <1>3 DEF PlatformRename
  <2>2. label'[r] = n
    BY <2>1 DEF IInv, Rest
  <2> QED BY <2>1, <2>2
<1>4. ASSUME NEW r \in Rooms, Observe(r) PROVE FALSE
  BY <1>4 DEF Observe, KInv, Homes
<1>5. CASE BeginWalk \/ EndWalk \/ Disarm \/ Rearm
  BY <1>5, WritesStep DEF BeginWalk, EndWalk, Disarm, Rearm
<1>6. ASSUME NEW i \in walk, WalkSkips(i) PROVE KInv'
  BY <1>6, WritesStep DEF WalkSkips
<1> QED BY <1>1, <1>2, <1>3, <1>4, <1>5, <1>6, CoroutineStep, WalkStampsStep, WalkWakesStep,
           QuietsStep, StopAllStep, BootStep DEF Next

LEMMA InitKInv == Init => KInv
<1> SUFFICES ASSUME Init PROVE KInv
  OBVIOUS
<1>1. \A t \in Tasks : task[t] = Idle
  BY DEF Init
<1>2. /\ \A r \in Rooms : states[r] = None /\ procs[r] = None /\ routed[r] = None
      /\ \A s \in Sessions : bound[s] = None
      /\ \A n \in Names : disk[n] = None
      /\ running = {} /\ \A r, q \in Rooms : label[r] = label[q] => r = q
  BY DEF Init
<1>3. Homes
  BY <1>1, <1>2 DEF Homes, Home, Idle, Holding, Busy
<1>4. Apart
  BY <1>1, <1>2, NoneAssumption DEF Apart, HasId, HasSession, IdOf, SessionOf, Idle
<1>5. OneTransition /\ OneMaker /\ RunningHeld /\ \A t \in Tasks : Blank(t) /\ Staged(t)
  BY <1>1, <1>2 DEF OneTransition, OneMaker, RunningHeld, Makes, Blank, Staged, Holding, Busy, Idle
<1>6. \A r \in Rooms : RoomFits(r)
  BY <1>2, NoneAssumption DEF RoomFits
<1> QED BY <1>3, <1>4, <1>5, <1>6 DEF KInv

LEMMA InitQInv == Init => QInv
BY DEF Init, QInv, OpFits, Idle, Busy, SweepOps

-----------------------------------------------------------------------------
(* What becomes of a record.                                                *)

\* A transition takes away only the record it reclaims, or one it has just made of
\* nothing and could not start; and what has no pause after it had one is resumed.
RecordKept(t, r) ==
    /\ states[r] # None /\ states'[r] = None =>
         /\ task[t].room = r
         /\ \/ task[t].at = "reclaiming"
            \/ task[t].at = "injecting" /\ task[t].pin = None
    /\ Paused(states[r]) /\ states'[r] # None /\ ~Paused(states'[r]) =>
         task[t].room = r /\ task[t].op \in {"resume", "revive"}

LEMMA UntouchedKeeps ==
    ASSUME NEW t \in Tasks, NEW r \in Rooms, states' = states
    PROVE  RecordKept(t, r)
BY DEF RecordKept

LEMMA InstallForgets ==
    ASSUME IInv, NEW t \in Tasks, NEW q \in Rooms, NEW r \in Rooms, NEW w, w # None,
           Install(q, w), q = task[t].room,
           Paused(states[q]) => w.paused \/ task[t].op \in {"resume", "revive"}
    PROVE  RecordKept(t, r)
<1>1. states'[r] = IF r = q THEN w ELSE states[r]
  BY DEF Install, IInv, Indexed
<1> QED BY <1>1 DEF RecordKept, Paused

LEMMA BuildForgets ==
    ASSUME IInv, NEW t \in Tasks, NEW q \in Rooms, q = task[t].room, NEW r \in Rooms, NEW n \in Names,
           NEW s \in Sessions, NEW b \in BOOLEAN, NEW maps, NEW fields, IdsLeft,
           Build(t, q, n, s, b, maps, fields),
           Paused(states[q]) => task[t].op \in {"resume", "revive"}
    PROVE  RecordKept(t, r)
<1> DEFINE w == [id |-> NewId, name |-> n, session |-> s, paused |-> FALSE, dropped |-> b]
<1>1. CASE Installable(q, n)
  <2>1. Install(q, w)
    BY <1>1 DEF Build
  <2>2. w # None
    BY NewIdIs, RecordsAre DEF Records
  <2> HIDE DEF w
  <2> QED BY <2>1, <2>2, InstallForgets
<1>2. CASE ~Installable(q, n)
  BY <1>2, UntouchedKeeps DEF Build, indexVars
<1> QED BY <1>1, <1>2

LEMMA StartForgets ==
    ASSUME IInv, NEW t \in Tasks, NEW q \in Rooms, q = task[t].room, NEW r \in Rooms, NEW n \in Names,
           NEW w \in {None, states[q]}, NEW maps, Start(t, q, n, w, maps),
           Paused(states[q]) => task[t].op \in {"resume", "revive"}
    PROVE  RecordKept(t, r)
<1> DEFINE carried == task[t].op \in {"restart", "revive"} /\ w # None /\ w.dropped
           fields == [task[t] EXCEPT !.fresh = FALSE]
<1>1. CASE ~Refused(q, n) /\ IdOf(w) # None /\ w.session # None
  <2>1. IdsLeft /\ Build(t, q, n, w.session, carried, maps, fields)
    BY <1>1 DEF Start
  <2>2. w \in Records
    BY <1>1 DEF IInv, Indexed, IdOf
  <2>3. w.session \in Sessions /\ carried \in BOOLEAN
    BY <1>1, <2>2, RecordsAre
  <2> HIDE DEF carried, fields
  <2> QED BY <2>1, <2>3, BuildForgets
<1>2. CASE ~(~Refused(q, n) /\ IdOf(w) # None /\ w.session # None)
  BY <1>2, UntouchedKeeps DEF Start, indexVars
<1> QED BY <1>1, <1>2

LEMMA AlteredForgets ==
    ASSUME IInv, KInv, NEW t \in Tasks, NEW q, q = task[t].room, NEW r \in Rooms,
           task[t].at \in {"stopping", "dropping"},
           NEW w, \/ w = [states[q] EXCEPT !.paused = TRUE]
                  \/ w = [states[q] EXCEPT !.dropped = TRUE]
                  \/ w = [states[q] EXCEPT !.session = None],
           Change(q, task[t].pin, w)
    PROVE  RecordKept(t, r)
<1>1. /\ q \in Rooms /\ \A p \in Rooms : p # q => states'[p] = states[p]
      /\ states'[q] = w /\ w # None
  BY ChangeStep
<1>2. Stage(task[t], states[q], procs[q], routed[q], bound, running)
  BY DEF KInv, Staged, Holding, Busy, Waiting
<1>3. ~Paused(states[q])
  BY <1>2 DEF Stage, Paused
<1> QED BY <1>1, <1>3 DEF RecordKept

LEMMA CoroutineForgets ==
    ASSUME IInv, KInv, NEW t \in Tasks, Step(t), NEW r \in Rooms
    PROVE  RecordKept(t, r)
<1>1. PICK q : q = task[t].room
  OBVIOUS
<1>2. task[t].at \notin {"free", "room"} =>
        q \in Rooms /\ task[t].name \in Names /\ task[t].name = label[q]
  BY <1>1, AtHome
<1>3. CASE \/ EnterRoom(t) \/ EnterStop(t) \/ HaltEnd(t)
           \/ NotProvisioned(t) \/ Injected(t) \/ Subscribed(t) \/ EnterDrop(t)
           \/ EnterExpire(t) \/ EnterReclaim(t) \/ ReclaimStopped(t)
  <2>1. states' = states
    BY <1>3 DEF EnterRoom, EnterStop, HaltEnd, NotProvisioned, Injected, Subscribed, EnterDrop,
                EnterExpire, EnterReclaim, ReclaimStopped, indexVars
  <2> QED BY <2>1, UntouchedKeeps
<1>4. CASE PauseEnd(t)
  <2>1. task[t].at = "stopping" /\ Change(q, task[t].pin, [states[q] EXCEPT !.paused = TRUE])
    BY <1>1, <1>4 DEF PauseEnd
  <2> QED BY <1>1, <2>1, AlteredForgets
<1>5. CASE DropEnd(t)
  <2>1. task[t].at = "dropping" /\ Change(q, task[t].pin, [states[q] EXCEPT !.dropped = TRUE])
    BY <1>1, <1>5 DEF DropEnd
  <2> QED BY <1>1, <2>1, AlteredForgets
<1>6. CASE ResetEnd(t)
  <2>1. task[t].at = "stopping" /\ Change(q, task[t].pin, [states[q] EXCEPT !.session = None])
    BY <1>1, <1>6 DEF ResetEnd
  <2> QED BY <1>1, <2>1, AlteredForgets
<1>7. CASE RestartEnd(t)
  <2>1. task[t].at = "stopping"
    BY <1>7 DEF RestartEnd
  <2>2. Stage(task[t], states[q], procs[q], routed[q], bound, running)
    BY <1>1, <2>1 DEF KInv, Staged, Holding, Busy, Waiting
  <2>3. ~Paused(states[q]) /\ IdOf(states[q]) = task[t].pin /\ states[q] # None
    BY <2>1, <2>2 DEF Stage, Paused, IdOf
  <2>4. states[q].name \in Names
    BY <1>2, <2>1, <2>3, RecordsAre DEF IInv, Indexed
  <2>5. states' = states \/ Start(t, q, states[q].name, states[q], Unbound(t))
    BY <1>1, <1>7, <2>3 DEF RestartEnd, indexVars
  <2> QED BY <1>1, <1>2, <2>1, <2>3, <2>4, <2>5, StartForgets, UntouchedKeeps
<1>8. CASE EnterWake(t)
  <2>1. task[t].at = "lock" /\ task[t].op \in {"wake", "boot"}
    BY <1>8 DEF EnterWake
  <2>2. CASE WakeIsOver(t)
    BY <1>8, <2>2, UntouchedKeeps DEF EnterWake, indexVars
  <2>3. CASE ~WakeIsOver(t)
    <3>1. Start(t, q, task[t].name, IF task[t].pin = None THEN None ELSE states[q], bound)
      BY <1>1, <1>8, <2>3 DEF EnterWake
    <3>2. task[t].pin = None => states[q] = None
      BY <1>1, <2>1 DEF KInv, Homes, Home, Blank, Makes
    <3>3. ~Paused(states[q])
      BY <1>1, <2>3, <3>2 DEF WakeIsOver, Paused
    <3>4. Start(t, q, task[t].name, states[q], bound)
      BY <3>1, <3>2
    <3> QED BY <1>1, <1>2, <2>1, <3>3, <3>4, StartForgets
  <2> QED BY <2>2, <2>3
<1>9. CASE EnterJoin(t)
  <2> DEFINE w == [id |-> NewId, name |-> task[t].name, session |-> None, paused |-> FALSE,
                   dropped |-> TRUE]
  <2>1. /\ task[t].at = "lock" /\ task[t].op = "join" /\ IdsLeft
        /\ Install(q, w) \/ states' = states
    BY <1>1, <1>9 DEF EnterJoin, indexVars
  <2>2. w # None
    BY <1>2, <2>1, NewIdIs, RecordsAre DEF Records
  <2>3. states[q] = None
    BY <1>1, <2>1 DEF KInv, Homes, Home, Blank, Makes
  <2> HIDE DEF w
  <2> QED BY <1>1, <1>2, <2>1, <2>2, <2>3, InstallForgets, UntouchedKeeps DEF Paused
<1>10. CASE EnterResume(t)
  <2>1. /\ task[t].at = "lock" /\ task[t].op = "resume"
        /\ \/ states' = states
           \/ /\ Named(task[t].name) # None
              /\ states' = [states EXCEPT ![roomOf[task[t].name]].paused = FALSE]
           \/ Start(t, q, task[t].name, Named(task[t].name), bound)
    BY <1>1, <1>10 DEF EnterResume, indexVars
  <2>2. /\ q \in Rooms /\ Named(task[t].name) = states[q]
        /\ states[q] # None => roomOf[task[t].name] = q
    BY <1>1, <2>1, AtHome
  <2>3. CASE states[q] # None /\ states' = [states EXCEPT ![q].paused = FALSE]
    <3>1. /\ \A p \in Rooms : p # q => states'[p] = states[p]
          /\ states'[q] = [states[q] EXCEPT !.paused = FALSE] /\ states[q] \in Records
      BY <2>2, <2>3 DEF IInv, Indexed
    <3>2. states'[q] \in Records
      BY <3>1 DEF Records
    <3>3. states'[q] # None
      BY <3>2, RecordsAre
    <3> QED BY <1>1, <2>1, <3>1, <3>3 DEF RecordKept
  <2> QED BY <1>1, <1>2, <2>1, <2>2, <2>3, StartForgets, UntouchedKeeps
<1>11. CASE EnterRevive(t)
  <2>1. /\ task[t].at = "lock" /\ task[t].op = "revive"
        /\ states' = states \/ (states[q] # None /\ Start(t, q, states[q].name, states[q], bound))
    BY <1>1, <1>11 DEF EnterRevive, indexVars
  <2>2. states[q] # None => states[q].name \in Names
    BY <1>2, <2>1, RecordsAre DEF IInv, Indexed
  <2> QED BY <1>1, <1>2, <2>1, <2>2, StartForgets, UntouchedKeeps
<1>12. CASE Provisioned(t)
  <2> DEFINE carried == task[t].op = "revive" /\ states[q] # None /\ states[q].dropped
  <2>1. task[t].at = "provisioning" /\ IdsLeft
    BY <1>12 DEF Provisioned
  <2>2. PICK s \in Sessions : Build(t, q, task[t].name, s, carried, bound, task[t])
    BY <1>1, <1>12 DEF Provisioned
  <2>3. Stage(task[t], states[q], procs[q], routed[q], bound, running)
    BY <1>1, <2>1 DEF KInv, Staged, Holding, Busy, Waiting
  <2>4. Paused(states[q]) => task[t].op \in {"resume", "revive"}
    BY <2>1, <2>3 DEF Stage, Paused
  <2>5. carried \in BOOLEAN
    BY <1>2, <2>1, RecordsAre DEF IInv, Indexed
  <2> HIDE DEF carried
  <2> QED BY <1>1, <1>2, <2>1, <2>2, <2>4, <2>5, BuildForgets
<1>13. CASE NotInjected(t)
  <2> DEFINE p == task[t].prior
  <2>1. task[t].at = "injecting" /\ Rollback(t)
    BY <1>13 DEF NotInjected
  <2>2. /\ q \in Rooms /\ ~states[q].paused /\ states[q] # None
        /\ roomOf[task[t].name] = q
        /\ p = None => task[t].pin = None
        /\ p # None => p.name = task[t].name
    <3>1. Stage(task[t], states[q], procs[q], routed[q], bound, running)
      BY <1>1, <2>1 DEF KInv, Staged, Holding, Busy, Waiting
    <3>2. p = None => task[t].pin = None
      BY <2>1, <3>1 DEF Stage
    <3>3. p # None => p.name = task[t].name
      BY DEF KInv, Homes, Home
    <3> QED BY <1>1, <2>1, <3>2, <3>3, Installed
  <2>3. CASE p # None
    <3>1. Install(q, p)
      BY <1>1, <2>1, <2>2, <2>3 DEF Rollback, Installable
    <3> QED BY <1>1, <2>2, <2>3, <3>1, InstallForgets DEF Paused
  <2>4. CASE p = None
    <3>1. Uninstall(task[t].name)
      BY <2>1, <2>4 DEF Rollback
    <3>2. \A x \in Rooms : x # q => states'[x] = states[x]
      BY <2>2, <3>1 DEF Uninstall, IInv, Indexed
    <3> QED BY <1>1, <2>1, <2>2, <2>4, <3>2 DEF RecordKept, Paused
  <2> QED BY <2>3, <2>4
<1>14. CASE NotSubscribed(t)
  <2>1. /\ task[t].at = "subscribing"
        /\ states' = states \/ states' = [states EXCEPT ![q].session = None]
    BY <1>1, <1>14 DEF NotSubscribed
  <2>2. q \in Rooms /\ ~states[q].paused /\ states[q] # None
    BY <1>1, <2>1, Installed
  <2>3. CASE states' = [states EXCEPT ![q].session = None]
    <3>1. /\ \A p \in Rooms : p # q => states'[p] = states[p]
          /\ states'[q] = [states[q] EXCEPT !.session = None] /\ states[q] \in Records
      BY <2>2, <2>3 DEF IInv, Indexed
    <3>2. states'[q] \in Records
      BY <3>1 DEF Records
    <3>3. states'[q] # None
      BY <3>2, RecordsAre
    <3> QED BY <2>2, <3>1, <3>3 DEF RecordKept, Paused
  <2> QED BY <2>1, <2>3, UntouchedKeeps
<1>15. CASE Reclaimed(t)
  <2> DEFINE n == CurrentName(t)
  <2>1. /\ task[t].at = "reclaiming"
        /\ Uninstall(n) \/ states' = [states EXCEPT ![q].dropped = TRUE]
    BY <1>1, <1>15 DEF Reclaimed
  <2>2. /\ q \in Rooms /\ states[q] # None /\ IdOf(states[q]) = task[t].pin
    <3>1. Stage(task[t], states[q], procs[q], routed[q], bound, running)
      BY <1>1, <2>1 DEF KInv, Staged, Holding, Busy, Waiting
    <3> QED BY <1>2, <2>1, <3>1 DEF Stage, IdOf
  <2>3. roomOf[n] = q
    BY <1>1, <2>1, <2>2, AtHome DEF CurrentName, KInv, Homes
  <2> HIDE DEF n
  <2>4. CASE Uninstall(n)
    <3>1. states'[q] = None /\ \A x \in Rooms : x # q => states'[x] = states[x]
      BY <2>2, <2>3, <2>4, NoneAssumption DEF Uninstall, IInv, Indexed
    <3> QED BY <1>1, <2>1, <3>1 DEF RecordKept
  <2>5. CASE states' = [states EXCEPT ![q].dropped = TRUE]
    <3>1. /\ \A p \in Rooms : p # q => states'[p] = states[p]
          /\ states'[q] = [states[q] EXCEPT !.dropped = TRUE] /\ states[q] \in Records
      BY <2>2, <2>5 DEF IInv, Indexed
    <3>2. states'[q] \in Records /\ states'[q].paused = states[q].paused
      BY <3>1 DEF Records
    <3>3. states'[q] # None
      BY <3>2, RecordsAre
    <3> QED BY <3>1, <3>2, <3>3 DEF RecordKept, Paused
  <2> QED BY <2>1, <2>4, <2>5
<1> QED BY <1>3, <1>4, <1>5, <1>6, <1>7, <1>8, <1>9, <1>10, <1>11, <1>12, <1>13, <1>14, <1>15
        DEF Step

LEMMA NextForgets ==
    ASSUME IInv, KInv, Next, label' = label, phase' # "booting", NEW r \in Rooms
    PROVE  \/ states'[r] = states[r]
           \/ \E t \in Tasks : Step(t) /\ RecordKept(t, r)
           \/ states'[r] # None /\ Paused(states'[r]) = Paused(states[r])
<1>1. ASSUME NEW t \in Tasks, NEW q \in Rooms, NEW op \in Ops,
             Offer(t, op, q) \/ Verb(t, op, q) \/ Sweep(t, op, q) \/ Reload(t, op, q)
      PROVE  states'[r] = states[r]
  BY <1>1 DEF Offer, Verb, Sweep, Reload, OnRecord, Request, indexVars
<1>2. ASSUME NEW t \in Tasks, Step(t) PROVE RecordKept(t, r)
  BY <1>2, CoroutineForgets
<1>3. ASSUME NEW q \in Rooms, WalkStamps(q)
      PROVE  \/ states'[r] = states[r]
             \/ states'[r] # None /\ Paused(states'[r]) = Paused(states[r])
  <2>1. IdOf(states[q]) \in walk /\ states' = [states EXCEPT ![q].dropped = TRUE]
    BY <1>3 DEF WalkStamps
  <2>2. CASE r # q
    BY <2>1, <2>2 DEF IInv, Indexed
  <2>3. CASE r = q
    <3>1. states[q] \in Records
      BY <2>1, NoneAssumption DEF IInv, Rest, IdOf, Indexed
    <3>2. states'[q] = [states[q] EXCEPT !.dropped = TRUE]
      BY <2>1 DEF IInv, Indexed
    <3>3. states'[q] \in Records /\ states'[q].paused = states[q].paused
      BY <3>1, <3>2 DEF Records
    <3> QED BY <2>3, <3>1, <3>3, RecordsAre DEF Paused
  <2> QED BY <2>2, <2>3
<1>4. ASSUME NEW q \in Rooms, PlatformRename(q) \/ \E t \in Tasks : WalkWakes(q, t)
      PROVE  states'[r] = states[r]
  BY <1>4 DEF PlatformRename, WalkWakes, indexVars
<1>5. ASSUME NEW q \in Rooms, Observe(q) PROVE FALSE
  BY <1>5 DEF Observe, KInv, Homes
<1>6. ASSUME NEW i \in walk, WalkSkips(i) PROVE states'[r] = states[r]
  BY <1>6 DEF WalkSkips, indexVars
<1>7. CASE BeginWalk \/ EndWalk \/ Disarm \/ Quiet \/ Rearm \/ StopAll
  BY <1>7 DEF BeginWalk, EndWalk, Disarm, Quiet, Rearm, StopAll, indexVars
<1>8. ~Boot
  BY DEF Boot
<1> QED BY <1>1, <1>2, <1>3, <1>4, <1>5, <1>6, <1>7, <1>8 DEF Next

\* A shutdown is final.
LEMMA StopIsFinal ==
    ASSUME IInv, IInv', QInv, KInv, StoppedForGood, [Next]_vars, label' = label
    PROVE  StoppedForGood'
<1> SUFFICES ASSUME phase' = "stopped"
             PROVE  StoppedForGood'
  BY DEF StoppedForGood
<1>1. CASE StopAll
  <2>1. states' = states /\ roomOf' = roomOf /\ Save({})
    BY <1>1 DEF StopAll, indexVars
  <2>2. /\ \A t \in Tasks : ~Busy(t) /\ task'[t] = task[t]
        /\ \A r \in Rooms : procs'[r] = None /\ routed'[r] = None
        /\ running' = {}
    BY <1>1, StopAllStops
  <2>3. ASSUME NEW r \in Rooms, states[r] # None
        PROVE  disk'[states[r].name] = [room |-> r, session |-> states[r].session,
                                        paused |-> states[r].paused,
                                        dropped |-> states[r].dropped]
    <3>1. states[r].name \in Names /\ roomOf[states[r].name] = r /\ r # None
      BY <2>3, RecordsAre, NoneAssumption DEF IInv, Indexed, IndexAgrees
    <3> QED BY <2>1, <3>1 DEF Save
  <2> QED BY <2>1, <2>2, <2>3 DEF StoppedForGood, Busy
<1>2. CASE ~StopAll
  <2>1. phase = "stopped"
    <3>1. ASSUME NEW t \in Tasks, Step(t) PROVE phase' = phase
      BY <3>1, StepsGoOn DEF QInv, SameOp
    <3>2. ASSUME NEW t \in Tasks, NEW r \in Rooms, NEW op \in Ops,
                 Offer(t, op, r) \/ Verb(t, op, r) \/ Sweep(t, op, r) \/ Reload(t, op, r)
          PROVE  phase' = phase
      BY <3>2 DEF Offer, Verb, Sweep, Reload, OnRecord, Request
    <3>3. CASE UNCHANGED vars
      BY <3>3 DEF vars
    <3> QED BY <1>2, <3>1, <3>2, <3>3
            DEF Next, PlatformRename, Observe, WalkStamps, WalkWakes, WalkSkips, BeginWalk,
                EndWalk, Disarm, Quiet, Rearm, Boot
  <2>2. \A t \in Tasks : ~Busy(t)
    BY <2>1 DEF StoppedForGood
  <2>3. ASSUME NEW t \in Tasks, NEW r \in Rooms, NEW op \in Ops,
               Offer(t, op, r) \/ Verb(t, op, r) \/ Sweep(t, op, r) \/ Reload(t, op, r)
        PROVE  FALSE
    BY <2>1, <2>3 DEF Offer, Verb, Sweep, Reload, Disarmed
  <2>4. ASSUME NEW t \in Tasks, Step(t) PROVE FALSE
    BY <2>2, <2>4, StepsGoOn DEF QInv, SameOp
  <2>5. ASSUME NEW r \in Rooms, PlatformRename(r) PROVE FALSE
    <3>1. PICK n \in Names \ {label[q] : q \in Rooms} : label' = [label EXCEPT ![r] = n]
      BY <2>5 DEF PlatformRename
    <3>2. label'[r] = n
      BY <3>1 DEF IInv, Rest
    <3> QED BY <3>1, <3>2
  <2>6. UNCHANGED vars
    BY <1>2, <2>1, <2>3, <2>4, <2>5
       DEF Next, Observe, WalkStamps, WalkWakes, WalkSkips, Walking, BeginWalk, EndWalk, Disarm,
           Quiet, Rearm, Boot
  <2> QED BY <2>6 DEF StoppedForGood, vars, indexVars, routeVars, Busy
<1> QED BY <1>1, <1>2

-----------------------------------------------------------------------------
(* The file.                                                                *)

\* Every row is that of a record: its name leads to its room.
Honest == \A n \in Names : disk[n] # None => roomOf[n] = disk[n].room

\* A name that loses its room is pruned from the file by the step that takes it away.
LEMMA SaveHonest ==
    ASSUME IInv, IInv', Honest, NEW prune, Save(prune),
           \A n \in Names : roomOf[n] # None /\ roomOf'[n] = None => n \in prune
    PROVE  Honest'
<1> SUFFICES ASSUME NEW n \in Names, disk'[n] # None
             PROVE  roomOf'[n] = disk'[n].room
  BY DEF Honest
<1>1. n \notin prune
  BY DEF Save
<1>2. CASE roomOf'[n] # None
  <2>1. disk'[n] = [room |-> roomOf'[n], session |-> states'[roomOf'[n]].session,
                    paused |-> states'[roomOf'[n]].paused,
                    dropped |-> states'[roomOf'[n]].dropped]
    BY <1>1, <1>2 DEF Save
  <2> QED BY <2>1
<1>3. CASE roomOf'[n] = None
  <2>1. roomOf[n] = None
    BY <1>1, <1>3
  <2>2. disk'[n] = disk[n]
    BY <1>1, <1>3 DEF Save
  <2>3. roomOf[n] = disk[n].room /\ disk[n] \in Rows
    BY <2>2 DEF Honest, IInv, File
  <2> QED BY <2>1, <2>3, NoneAssumption DEF Rows
<1> QED BY <1>2, <1>3

\* Nor does a step that leaves the file alone, and every name its room.
LEMMA KeptHonest ==
    ASSUME Honest, disk' = disk, \A n \in Names : disk[n] # None => roomOf'[n] = roomOf[n]
    PROVE  Honest'
BY DEF Honest

\* What is read from an honest file is what was in memory.
LEMMA BootHonest ==
    ASSUME IInv, Honest, Boot
    PROVE  Honest'
<1> DEFINE rows(r) == {n \in Names : IF disk[n] = None THEN FALSE ELSE disk[n].room = r}
<1>1. PICK pick \in [Rooms -> Names \cup {None}] :
            /\ \A r \in Rooms : IF rows(r) = {} THEN pick[r] = None ELSE pick[r] \in rows(r)
            /\ roomOf' = [n \in Names |->
                 IF \E r \in Rooms : pick[r] = n THEN CHOOSE r \in Rooms : pick[r] = n ELSE None]
  BY DEF Boot
<1>2. disk' = disk
  BY DEF Boot
<1>3. ASSUME NEW r \in Rooms, pick[r] # None
      PROVE  pick[r] \in Names /\ disk[pick[r]] # None /\ disk[pick[r]].room = r
  BY <1>1, <1>3
<1>4. ASSUME NEW n \in Names, disk[n] # None PROVE roomOf'[n] = disk[n].room
  <2> DEFINE r == disk[n].room
  <2>1. r \in Rooms
    BY <1>4 DEF IInv, File, Rows
  <2>2. n \in rows(r)
    BY <1>4
  <2>3. pick[r] \in rows(r)
    BY <1>1, <2>1, <2>2
  <2>4. /\ pick[r] \in Names /\ disk[pick[r]] # None /\ disk[pick[r]].room = r
    BY <2>3
  <2>5. roomOf[pick[r]] = r /\ roomOf[n] = r
    BY <1>4, <2>4 DEF Honest
  <2>6. pick[r] = n
    BY <2>1, <2>4, <2>5 DEF IInv, Indexed, IndexAgrees
  <2>7. \A q \in Rooms : pick[q] = n => q = r
    BY <1>3, NoneAssumption
  <2> HIDE DEF r, rows
  <2>8. roomOf'[n] = CHOOSE q \in Rooms : pick[q] = n
    BY <1>1, <2>1, <2>6
  <2>9. roomOf'[n] = r
    BY <2>1, <2>6, <2>7, <2>8
  <2> QED BY <2>9 DEF r
<1> QED BY <1>2, <1>4 DEF Honest

LEMMA HonestIs == Honest => FileIsHonest
BY DEF Honest, FileIsHonest

\* Where no name moves, a record that stays keeps its name's room.
LEMMA NamesStay ==
    ASSUME IInv, IInv', KInv, KInv', label' = label, NEW n \in Names, roomOf[n] # None,
           states'[roomOf[n]] # None
    PROVE  roomOf'[n] = roomOf[n]
<1>1. PICK r \in Rooms : r = roomOf[n]
  BY DEF IInv, Indexed
<1>2. states[r] # None /\ states[r].name = n
  BY <1>1 DEF IInv, Indexed, IndexAgrees
<1>3. states'[r].name = n
  BY <1>1, <1>2 DEF KInv, Homes
<1> QED BY <1>1, <1>3 DEF IInv, Indexed, IndexAgrees

\* A step of a transition writes the file as it is in memory, or not at all; only a wake
\* that fails takes away a record and leaves its row.
LEMMA CoroutineHonest ==
    ASSUME IInv, IInv', KInv, KInv', QInv, Honest, "wake" \notin Ops, label' = label,
           NEW t \in Tasks, Step(t)
    PROVE  Honest'
<1>1. CASE Reclaimed(t)
  <2> DEFINE c == CurrentName(t)
  <2>1. \/ Uninstall(c) /\ Save({task[t].name, c})
        \/ disk' = disk /\ roomOf' = roomOf
    BY <1>1 DEF Reclaimed
  <2>2. CASE disk' = disk /\ roomOf' = roomOf
    BY <2>2, KeptHonest
  <2>3. CASE Uninstall(c) /\ Save({task[t].name, c})
    <3>1. \A n \in Names : n # c => roomOf'[n] = roomOf[n]
      BY <2>3 DEF Uninstall, IInv, Indexed
    <3> HIDE DEF c
    <3>2. \A n \in Names : roomOf[n] # None /\ roomOf'[n] = None => n \in {task[t].name, c}
      BY <3>1
    <3> QED BY <2>3, <3>2, SaveHonest
  <2> QED BY <2>1, <2>2, <2>3
<1>2. CASE ~Reclaimed(t)
  <2>1. disk' = disk \/ Save({})
    <3>1. EnterRoom(t) \/ EnterStop(t) \/ ResetEnd(t) \/ RestartEnd(t) => disk' = disk
      BY DEF EnterRoom, EnterStop, ResetEnd, RestartEnd
    <3>4. EnterWake(t) \/ EnterRevive(t) \/ Provisioned(t) \/ NotProvisioned(t) => disk' = disk
      BY DEF EnterWake, EnterRevive, Provisioned, NotProvisioned
    <3>5. Injected(t) \/ NotInjected(t) \/ NotSubscribed(t) => disk' = disk
      BY DEF Injected, NotInjected, NotSubscribed
    <3>6. EnterDrop(t) \/ EnterExpire(t) \/ EnterReclaim(t) \/ ReclaimStopped(t) => disk' = disk
      BY DEF EnterDrop, EnterExpire, EnterReclaim, ReclaimStopped
    <3>2. CASE PauseEnd(t) \/ HaltEnd(t) \/ DropEnd(t) \/ Subscribed(t)
      BY <3>2 DEF PauseEnd, HaltEnd, DropEnd, Subscribed
    <3>3. CASE EnterJoin(t) \/ EnterResume(t)
      BY <3>3 DEF EnterJoin, EnterResume
    <3> QED BY <1>2, <3>1, <3>2, <3>3, <3>4, <3>5, <3>6 DEF Step
  <2>2. ASSUME NEW n \in Names, roomOf[n] # None PROVE states'[roomOf[n]] # None
    <3>1. PICK r \in Rooms : r = roomOf[n]
      BY <2>2 DEF IInv, Indexed
    <3>2. states[r] # None
      BY <3>1 DEF IInv, Indexed, IndexAgrees
    <3>3. SUFFICES ASSUME states'[r] = None PROVE FALSE
      BY <3>1
    <3>4. /\ task[t].room = r
          /\ \/ task[t].at = "reclaiming"
             \/ task[t].at = "injecting" /\ task[t].pin = None
      BY <3>2, <3>3, CoroutineForgets DEF RecordKept
    <3>5. states' # states
      BY <3>2, <3>3
    <3>6. NotInjected(t)
      <4>1. ~(\/ EnterRoom(t) \/ EnterStop(t) \/ HaltEnd(t)
              \/ NotProvisioned(t) \/ Injected(t) \/ Subscribed(t) \/ EnterDrop(t)
              \/ EnterExpire(t) \/ EnterReclaim(t) \/ ReclaimStopped(t))
        BY <3>5 DEF EnterRoom, EnterStop, HaltEnd, NotProvisioned, Injected, Subscribed,
                    EnterDrop, EnterExpire, EnterReclaim, ReclaimStopped, indexVars
      <4>2. ~(\/ PauseEnd(t) \/ ResetEnd(t) \/ RestartEnd(t) \/ EnterWake(t) \/ EnterJoin(t)
              \/ EnterResume(t) \/ EnterRevive(t) \/ Provisioned(t) \/ NotSubscribed(t)
              \/ DropEnd(t))
        BY <3>4 DEF PauseEnd, ResetEnd, RestartEnd, EnterWake, EnterJoin, EnterResume,
                    EnterRevive, Provisioned, NotSubscribed, DropEnd
      <4> QED BY <1>2, <4>1, <4>2 DEF Step
    <3>7. task[t].at = "injecting" /\ Rollback(t)
      BY <3>6 DEF NotInjected
    <3>8. task[t].prior # None
      <4>1. Stage(task[t], states[r], procs[r], routed[r], bound, running)
        BY <3>4, <3>7 DEF KInv, Staged, Holding, Busy, Waiting
      <4>2. task[t].op # "wake"
        BY DEF QInv, OpFits
      <4> QED BY <3>7, <4>1, <4>2 DEF Stage
    <3>9. Install(r, task[t].prior) \/ states' = states
      BY <3>4, <3>7, <3>8 DEF Rollback, indexVars
    <3> QED BY <3>3, <3>5, <3>8, <3>9 DEF Install, IInv, Indexed
  <2>3. ASSUME NEW n \in Names, roomOf[n] # None PROVE roomOf'[n] = roomOf[n]
    BY <2>2, <2>3, NamesStay
  <2>4. ASSUME NEW n \in Names, disk[n] # None PROVE roomOf[n] # None
    BY <2>4, NoneAssumption DEF Honest, IInv, File, Rows
  <2>5. CASE disk' = disk
    BY <2>3, <2>4, <2>5, KeptHonest
  <2>6. CASE Save({})
    BY <2>3, <2>6, SaveHonest
  <2> QED BY <2>1, <2>5, <2>6
<1> QED BY <1>1, <1>2

LEMMA NextHonest ==
    ASSUME IInv, IInv', KInv, KInv', QInv, Honest, "wake" \notin Ops, label' = label, [Next]_vars
    PROVE  Honest'
<1>1. CASE UNCHANGED <<indexVars, disk>>
  BY <1>1 DEF indexVars, Honest
<1>2. CASE UNCHANGED indexVars /\ Save({})
  BY <1>2, SaveHonest DEF indexVars
<1>3. ASSUME NEW t \in Tasks, NEW r \in Rooms, NEW op \in Ops,
             Offer(t, op, r) \/ Verb(t, op, r) \/ Sweep(t, op, r) \/ Reload(t, op, r)
      PROVE  Honest'
  BY <1>1, <1>3 DEF Offer, Verb, Sweep, Reload, OnRecord, Request
<1>4. ASSUME NEW r \in Rooms, PlatformRename(r) \/ (\E t \in Tasks : WalkWakes(r, t))
      PROVE  Honest'
  BY <1>1, <1>4 DEF PlatformRename, WalkWakes
<1>5. ASSUME NEW r \in Rooms, Observe(r) PROVE FALSE
  BY <1>5 DEF Observe, KInv, Homes
<1>6. ASSUME NEW r \in Rooms, WalkStamps(r) PROVE Honest'
  BY <1>6, KeptHonest DEF WalkStamps
<1>7. ASSUME NEW i \in walk, WalkSkips(i) PROVE Honest'
  BY <1>1, <1>7 DEF WalkSkips
<1>8. CASE BeginWalk \/ Disarm \/ Quiet \/ Rearm
  BY <1>1, <1>8 DEF BeginWalk, Disarm, Quiet, Rearm
<1>9. CASE EndWalk \/ StopAll
  BY <1>1, <1>2, <1>9 DEF EndWalk, StopAll
<1>10. CASE UNCHANGED vars
  BY <1>1, <1>10 DEF vars
<1> QED BY <1>3, <1>4, <1>5, <1>6, <1>7, <1>8, <1>9, <1>10, CoroutineHonest, BootHonest DEF Next

LEMMA InitHonest == Init => Honest
BY DEF Init, Honest

-----------------------------------------------------------------------------
(* The file, while rooms are renamed and nothing is started.                *)

Starters == {"wake", "resume", "reset", "restart", "revive"}
Starting == {"provisioning", "injecting", "subscribing"}

\* All records are idle ones, those in the file as well, so that no boot brings a watcher
\* up; a join that is past the lock of its room is alone there and finds no record.
Joins(t) == task[t].op = "join" /\ task[t].at = "lock"
AllIdle ==
    /\ \A t \in Tasks : task[t].op \notin Starters \cup {"boot"} /\ task[t].at \notin Starting
    /\ \A r \in Rooms : states[r] # None => states[r].dropped
    /\ \A n \in Names : disk[n] # None => disk[n].dropped
    /\ walk = {}
JoinsAlone ==
    /\ \A t \in Tasks : Joins(t) => states[task[t].room] = None
    /\ \A t, u \in Tasks : t # u /\ Joins(t) /\ Joins(u) => task[t].room # task[u].room
FInv == AllIdle /\ JoinsAlone /\ Honest
Trades == trading => FInv

\* A row that is written is an idle one when the records are.
LEMMA SaveIdle ==
    ASSUME IInv', AllIdle, NEW prune, Save(prune), \A r \in Rooms : states'[r] # None => states'[r].dropped
    PROVE  \A n \in Names : disk'[n] # None => disk'[n].dropped
<1> SUFFICES ASSUME NEW n \in Names, disk'[n] # None PROVE disk'[n].dropped
  OBVIOUS
<1>1. CASE roomOf'[n] # None /\ n \notin prune
  <2>1. roomOf'[n] \in Rooms /\ states'[roomOf'[n]] # None
    BY <1>1 DEF IInv, Indexed, IndexAgrees
  <2>2. disk'[n] = [room |-> roomOf'[n], session |-> states'[roomOf'[n]].session,
                    paused |-> states'[roomOf'[n]].paused,
                    dropped |-> states'[roomOf'[n]].dropped]
    BY <1>1 DEF Save
  <2> QED BY <2>1, <2>2
<1>2. CASE ~(roomOf'[n] # None /\ n \notin prune)
  BY <1>2 DEF Save, AllIdle
<1> QED BY <1>1, <1>2

\* What a step has to do for the file to stay honest: it takes no name away but those it
\* prunes, and no record becomes one that is not idle.
FileStep ==
    /\ \/ disk' = disk /\ \A n \in Names : disk[n] # None => roomOf'[n] = roomOf[n]
       \/ \E prune \in SUBSET Names :
             Save(prune) /\ \A n \in Names : roomOf[n] # None /\ roomOf'[n] = None => n \in prune
    /\ \A r \in Rooms : states'[r] # None => states'[r].dropped
    /\ walk' = {}

LEMMA FileStepKeeps ==
    ASSUME IInv, IInv', FInv, FileStep
    PROVE  /\ Honest' /\ walk' = {}
           /\ \A r \in Rooms : states'[r] # None => states'[r].dropped
           /\ \A n \in Names : disk'[n] # None => disk'[n].dropped
<1>1. CASE disk' = disk /\ \A n \in Names : disk[n] # None => roomOf'[n] = roomOf[n]
  BY <1>1, KeptHonest DEF FileStep, FInv, AllIdle
<1>2. CASE \E prune \in SUBSET Names :
             Save(prune) /\ \A n \in Names : roomOf[n] # None /\ roomOf'[n] = None => n \in prune
  BY <1>2, SaveHonest, SaveIdle DEF FileStep, FInv
<1> QED BY <1>1, <1>2 DEF FileStep

LEMMA SameFileStep ==
    ASSUME IInv, FInv, UNCHANGED <<indexVars, walk>>, disk' = disk \/ Save({})
    PROVE  FileStep
BY DEF FInv, AllIdle, FileStep, indexVars

\* What a step of t is to do besides, for the joins to stay alone: it makes a record only
\* where it is a join past its room's lock, and gets there only where there is none.
JoinStep(t) ==
    /\ task'[t].at \notin Starting
    /\ Joins(t)' => /\ task'[t].room = task[t].room /\ states[task[t].room] = None
                    /\ states' = states
                    /\ \A u \in Tasks : u # t /\ Joins(u) => task[u].room # task[t].room
    /\ \A r \in Rooms : states'[r] # None => states[r] # None \/ (Joins(t) /\ task[t].room = r)

LEMMA JoinStepKeeps ==
    ASSUME IInv, IInv', FInv, NEW t \in Tasks, SameOp(t), FileStep, JoinStep(t)
    PROVE  FInv'
<1>1. \A u \in Tasks : u # t => task'[u] = task[u] /\ (Joins(u)' <=> Joins(u))
  BY DEF SameOp, Joins
<1>2. task'[t].op \notin Starters \cup {"boot"} /\ task'[t].at \notin Starting
  BY DEF SameOp, JoinStep, FInv, AllIdle, Idle, Starters
<1>3. AllIdle'
  BY <1>1, <1>2, FileStepKeeps DEF AllIdle, FInv
<1>4. ASSUME NEW u \in Tasks, Joins(u)' PROVE states'[task'[u].room] = None
  <2>1. task'[u].room \in Rooms
    BY <1>4 DEF Joins, IInv, Places, Fits
  <2>2. CASE u = t
    BY <1>4, <2>2 DEF JoinStep
  <2>3. CASE u # t
    <3>1. Joins(u) /\ task'[u] = task[u] /\ states[task[u].room] = None
      BY <1>1, <1>4, <2>3 DEF FInv, JoinsAlone
    <3>2. Joins(t) => task[t].room # task[u].room
      BY <2>3, <3>1 DEF FInv, JoinsAlone
    <3> QED BY <2>1, <3>1, <3>2 DEF JoinStep
  <2> QED BY <2>2, <2>3
<1>5. ASSUME NEW u \in Tasks, NEW v \in Tasks, u # v, Joins(u)', Joins(v)'
      PROVE  task'[u].room # task'[v].room
  BY <1>1, <1>5 DEF FInv, JoinsAlone, JoinStep
<1> QED BY <1>3, <1>4, <1>5, FileStepKeeps DEF FInv, JoinsAlone

LEMMA CoroutineFile ==
    ASSUME IInv, IInv', QInv, FInv, NEW t \in Tasks, Step(t)
    PROVE  FInv'
<1>1. SameOp(t)
  BY StepsGoOn DEF QInv
<1>2. task[t] \in Coroutines /\ task[t].op \notin Starters \cup {"boot"} /\ task[t].at \notin Starting
  BY FieldsOf DEF IInv, FInv, AllIdle
<1>3. states' = states /\ task'[t].at \notin Starting \cup {"lock"} => JoinStep(t)
  BY DEF JoinStep, Joins
<1>4. ASSUME NEW k, Go(t, k) PROVE task'[t] = k
  BY <1>4 DEF Go, IInv, Places
<1>5. Leave(t) => task'[t].at = "free"
  BY <1>4 DEF Leave, Idle
<1>6. CASE EnterRoom(t)
  <2> DEFINE r == task[t].room
             n == IF states[r] = None THEN label[r] ELSE states[r].name
             k == [task[t] EXCEPT !.at = "lock", !.name = n, !.key = n, !.pin = IdOf(states[r])]
  <2>1. /\ UNCHANGED <<indexVars, walk>> /\ disk' = disk /\ RoomLockFree(r)
        /\ Leave(t) \/ (Go(t, k) /\ (task[t].op = "join" => states[r] = None))
    BY <1>6 DEF EnterRoom, bootVars
  <2>2. k.at = "lock" /\ k.room = r
    BY <1>2 DEF Coroutines
  <2>3. FileStep
    BY <2>1, SameFileStep
  <2>4. \A u \in Tasks : Joins(u) => task[u].room # r
    BY <2>1 DEF RoomLockFree, Joins
  <2> HIDE DEF k
  <2>5. JoinStep(t)
    <3>1. CASE Leave(t)
      BY <1>3, <1>5, <2>1, <3>1 DEF indexVars, Starting
    <3>2. CASE Go(t, k) /\ (task[t].op = "join" => states[r] = None)
      <4>1. task'[t].at = "lock" /\ task'[t].room = r /\ task'[t].op \in {task[t].op, "none"}
        BY <1>1, <1>4, <2>2, <3>2 DEF SameOp, Idle
      <4>2. Joins(t)' => states[r] = None
        BY <3>2, <4>1 DEF Joins
      <4> QED BY <2>1, <2>4, <4>1, <4>2 DEF JoinStep, indexVars, Starting
    <3> QED BY <2>1, <3>1, <3>2
  <2> QED BY <1>1, <2>3, <2>5, JoinStepKeeps
<1>7. CASE EnterStop(t)
  <2>1. UNCHANGED <<indexVars, walk>> /\ disk' = disk /\ (Leave(t) \/ Stop(t, task[t].name))
    BY <1>7 DEF EnterStop, bootVars
  <2>2. task'[t].at \in {"free", "stopping"}
    <3>1. CASE Stop(t, task[t].name)
      <4> DEFINE r == roomOf[task[t].name]
                 k == [task[t] EXCEPT !.at = "stopping", !.room = r, !.ws = procs[r],
                                      !.pin = states[r].id, !.ses = states[r].session]
      <4>1. Go(t, k)
        BY <3>1 DEF Stop
      <4>2. k.at = "stopping"
        BY <1>2 DEF Coroutines
      <4> HIDE DEF k
      <4> QED BY <1>4, <4>1, <4>2
    <3> QED BY <1>5, <2>1, <3>1
  <2> QED BY <1>1, <1>3, <2>1, <2>2, SameFileStep, JoinStepKeeps DEF indexVars, Starting
<1>8. CASE HaltEnd(t)
  <2>1. UNCHANGED <<indexVars, walk>> /\ Save({}) /\ Leave(t)
    BY <1>8 DEF HaltEnd, bootVars
  <2> QED BY <1>1, <1>3, <1>5, <2>1, SameFileStep, JoinStepKeeps DEF indexVars, Starting
<1>9. CASE PauseEnd(t) \/ DropEnd(t)
  <2> DEFINE r == task[t].room
  <2>1. /\ \/ Change(r, task[t].pin, [states[r] EXCEPT !.paused = TRUE])
           \/ Change(r, task[t].pin, [states[r] EXCEPT !.dropped = TRUE])
        /\ roomOf' = roomOf /\ Save({}) /\ Leave(t) /\ walk' = walk
        /\ task[t].at \in {"stopping", "dropping"}
    BY <1>9 DEF PauseEnd, DropEnd, bootVars
  <2>2. r \in Rooms /\ task[t].pin \in Recs
    BY <2>1 DEF IInv, Places, Fits
  <2>3. ASSUME NEW q \in Rooms
        PROVE  \/ states'[q] = states[q]
               \/ /\ states[q] \in Records
                  /\ \/ states'[q] = [states[q] EXCEPT !.paused = TRUE]
                     \/ states'[q] = [states[q] EXCEPT !.dropped = TRUE]
    <3>1. IdOf(states[r]) = task[t].pin => states[r] \in Records
      BY <2>2, NoneAssumption DEF IInv, Indexed, IdOf
    <3>2. ASSUME NEW w, Change(r, task[t].pin, w)
          PROVE  \/ states'[q] = states[q]
                 \/ q = r /\ states[q] \in Records /\ states'[q] = w
      BY <2>2, <3>1, <3>2 DEF Change, IInv, Indexed
    <3>3. CASE Change(r, task[t].pin, [states[r] EXCEPT !.paused = TRUE])
      BY <3>2, <3>3
    <3>4. CASE Change(r, task[t].pin, [states[r] EXCEPT !.dropped = TRUE])
      BY <3>2, <3>4
    <3> QED BY <2>1, <3>3, <3>4
  <2>4. ASSUME NEW q \in Rooms, states'[q] # None PROVE states[q] # None /\ states'[q].dropped
    <3>1. states[q] \in Records /\ states[q].dropped => states'[q].dropped
      BY ZenonT(60), <2>3, RecordsAre DEF Records
    <3> QED BY <2>3, <2>4, <3>1, RecordsAre DEF FInv, AllIdle, IInv, Indexed
  <2>5. FileStep
    BY <2>1, <2>4 DEF FileStep, FInv, AllIdle
  <2>6. JoinStep(t)
    BY <1>5, <2>1, <2>4 DEF JoinStep, Joins, Starting
  <2> QED BY <1>1, <2>5, <2>6, JoinStepKeeps
<1>10. CASE EnterJoin(t)
  <2> DEFINE r == task[t].room
             w == [id |-> NewId, name |-> task[t].name, session |-> None, paused |-> FALSE,
                   dropped |-> TRUE]
  <2>1. /\ Joins(t) /\ Leave(t) /\ walk' = walk
        /\ (Install(r, w) /\ Save({})) \/ (UNCHANGED indexVars /\ disk' = disk)
    BY <1>10 DEF EnterJoin, Joins, bootVars
  <2>2. CASE UNCHANGED indexVars /\ disk' = disk
    BY <1>1, <1>3, <1>5, <2>1, <2>2, SameFileStep, JoinStepKeeps DEF indexVars, Starting
  <2>3. CASE Install(r, w) /\ Save({})
    <3>1. states[r] = None /\ r \in Rooms /\ r # None
      BY <2>1, NoneAssumption DEF FInv, JoinsAlone, Joins, IInv, Places, Fits
    <3>2. \A n \in Names : roomOf[n] # None => roomOf'[n] # None
      BY <2>3, <3>1 DEF Install
    <3>3. w.dropped
      OBVIOUS
    <3> HIDE DEF w
    <3>4. \A q \in Rooms : states'[q] = IF q = r THEN w ELSE states[q]
      BY <2>3 DEF Install, IInv, Indexed
    <3>5. FileStep
      <4>1. \A q \in Rooms : states'[q] # None => states'[q].dropped
        BY <3>3, <3>4 DEF FInv, AllIdle
      <4>2. walk' = {}
        BY <2>1 DEF FInv, AllIdle
      <4> QED BY <2>3, <3>2, <4>1, <4>2 DEF FileStep
    <3>6. JoinStep(t)
      BY <1>5, <2>1, <3>4 DEF JoinStep, Joins, Starting
    <3> QED BY <1>1, <3>5, <3>6, JoinStepKeeps
  <2> QED BY <2>1, <2>2, <2>3
<1>11. CASE EnterDrop(t) \/ EnterExpire(t)
  <2> DEFINE n == task[t].name
             r == roomOf[n]
             j == [task[t] EXCEPT !.at = "dropping", !.room = r, !.ws = procs[r],
                                  !.pin = Named(n).id, !.ses = Named(n).session]
             k == [task[t] EXCEPT !.at = "reclaiming", !.room = r, !.pin = Named(n).id,
                                  !.ses = Named(n).session]
  <2>1. UNCHANGED <<indexVars, walk>> /\ disk' = disk /\ (Leave(t) \/ Go(t, j) \/ Go(t, k))
    <3>1. CASE EnterDrop(t)
      BY <3>1 DEF EnterDrop, bootVars
    <3>2. CASE EnterExpire(t)
      BY <3>2 DEF EnterExpire, bootVars
    <3> QED BY <1>11, <3>1, <3>2
  <2>2. j.at = "dropping" /\ k.at = "reclaiming"
    BY <1>2 DEF Coroutines
  <2> HIDE DEF j, k
  <2>3. task'[t].at \in {"free", "dropping", "reclaiming"}
    BY <1>4, <1>5, <2>1, <2>2
  <2> QED BY <1>1, <1>3, <2>1, <2>3, SameFileStep, JoinStepKeeps DEF indexVars, Starting
<1>12. CASE EnterReclaim(t) \/ ReclaimStopped(t)
  <2> DEFINE w == states[task[t].room]
             i == [task[t] EXCEPT !.name = w.name, !.key = w.name, !.pin = w.id]
             j == [task[t] EXCEPT !.at = "reclaiming", !.ses = w.session]
             k == [task[t] EXCEPT !.at = "reclaiming", !.ws = None]
             x == roomOf[w.name]
             l == [task[t] EXCEPT !.at = "stopping", !.room = x, !.ws = procs[x],
                                  !.pin = states[x].id, !.ses = states[x].session]
  <2>1. /\ UNCHANGED <<indexVars, walk>> /\ disk' = disk /\ task[t].op \in {"leave", "release"}
        /\ Leave(t) \/ (Go(t, i) /\ task[t].at = "lock") \/ Go(t, j) \/ Go(t, k) \/ Go(t, l)
    <3>1. CASE EnterReclaim(t)
      <4>1. Stop(t, w.name) => Go(t, l)
        BY DEF Stop
      <4> HIDE DEF l
      <4>2. UNCHANGED <<indexVars, walk>> /\ disk' = disk /\ task[t].op \in {"leave", "release"}
        BY <3>1 DEF EnterReclaim, bootVars
      <4>3. task[t].at = "lock" /\ (Leave(t) \/ Go(t, i) \/ Go(t, j) \/ Stop(t, w.name))
        BY <3>1 DEF EnterReclaim
      <4> QED BY <4>1, <4>2, <4>3
    <3>2. CASE ReclaimStopped(t)
      BY <3>2 DEF ReclaimStopped, bootVars
    <3> QED BY <1>12, <3>1, <3>2
  <2>2. /\ i.at = task[t].at /\ j.at = "reclaiming" /\ k.at = "reclaiming" /\ l.at = "stopping"
        /\ i.op = task[t].op
    BY <1>2 DEF Coroutines
  <2> HIDE DEF i, j, k, l
  <2>3. \/ task'[t].at \in {"free", "stopping", "reclaiming"}
        \/ task'[t].at = "lock" /\ task'[t].op \in {"leave", "release"}
    BY <1>4, <1>5, <2>1, <2>2
  <2>4. JoinStep(t)
    BY <2>1, <2>3 DEF JoinStep, Joins, indexVars, Starting
  <2> QED BY <1>1, <2>1, <2>4, SameFileStep, JoinStepKeeps
<1>13. CASE Reclaimed(t)
  <2> DEFINE r == task[t].room
             c == CurrentName(t)
  <2>1. /\ task[t].at = "reclaiming" /\ Leave(t) /\ walk' = walk
        /\ \/ Uninstall(c) /\ Save({task[t].name, c})
           \/ /\ IdOf(states[r]) = task[t].pin /\ states' = [states EXCEPT ![r].dropped = TRUE]
              /\ UNCHANGED <<roomOf, disk>>
    BY <1>13 DEF Reclaimed
  <2>2. r \in Rooms /\ task[t].pin \in Recs /\ task[t].name \in Names
    BY <2>1 DEF IInv, Places, Fits
  <2>3. c \in Names
    BY <2>2, RecordsAre, NoneAssumption DEF CurrentName, IInv, Indexed, IdOf
  <2>4. CASE Uninstall(c) /\ Save({task[t].name, c})
    <3> HIDE DEF c
    <3>1. /\ \A n \in Names : n # c => roomOf'[n] = roomOf[n]
          /\ \A q \in Rooms : states'[q] \in {states[q], None}
      BY <2>4 DEF Uninstall, IInv, Indexed
    <3>2. \A n \in Names : roomOf[n] # None /\ roomOf'[n] = None => n \in {task[t].name, c}
      BY <3>1
    <3>3. \A q \in Rooms : states'[q] # None => states[q] # None /\ states'[q].dropped
      BY <3>1 DEF FInv, AllIdle
    <3>4. FileStep
      <4>1. {task[t].name, c} \in SUBSET Names /\ walk' = {}
        BY <2>1, <2>2, <2>3 DEF FInv, AllIdle
      <4> QED BY <2>4, <3>2, <3>3, <4>1 DEF FileStep
    <3>5. JoinStep(t)
      BY <1>5, <2>1, <3>3 DEF JoinStep, Joins, Starting
    <3> QED BY <1>1, <3>4, <3>5, JoinStepKeeps
  <2>5. CASE /\ IdOf(states[r]) = task[t].pin /\ states' = [states EXCEPT ![r].dropped = TRUE]
             /\ UNCHANGED <<roomOf, disk>>
    <3>1. states[r] \in Records
      BY <2>2, <2>5, NoneAssumption DEF IInv, Indexed, IdOf
    <3>2. \A q \in Rooms : states'[q] = IF q = r THEN [states[r] EXCEPT !.dropped = TRUE]
                                        ELSE states[q]
      BY <2>5 DEF IInv, Indexed
    <3>3. [states[r] EXCEPT !.dropped = TRUE].dropped /\ states[r] # None
      BY <3>1, RecordsAre DEF Records
    <3>4. \A q \in Rooms : states'[q] # None => states[q] # None /\ states'[q].dropped
      BY <3>2, <3>3 DEF FInv, AllIdle
    <3>5. FileStep
      BY <2>1, <2>5, <3>4 DEF FileStep, FInv, AllIdle
    <3>6. JoinStep(t)
      BY <1>5, <2>1, <3>4 DEF JoinStep, Joins, Starting
    <3> QED BY <1>1, <3>5, <3>6, JoinStepKeeps
  <2> QED BY <2>1, <2>4, <2>5
<1>14. ~(\/ ResetEnd(t) \/ RestartEnd(t) \/ EnterWake(t) \/ EnterResume(t) \/ EnterRevive(t))
  BY <1>2 DEF ResetEnd, RestartEnd, EnterWake, EnterResume, EnterRevive, Starters
<1>15. ~(\/ Provisioned(t) \/ NotProvisioned(t) \/ Injected(t) \/ NotInjected(t)
         \/ Subscribed(t) \/ NotSubscribed(t))
  BY <1>2 DEF Provisioned, NotProvisioned, Injected, NotInjected, Subscribed, NotSubscribed,
              Starting
<1> QED
  BY <1>6, <1>7, <1>8, <1>9, <1>10, <1>11, <1>12, <1>13, <1>14, <1>15 DEF Step


\* A request is for a transition that waits.
LEMMA RequestFile ==
    ASSUME IInv, IInv', FInv, NEW t \in Tasks, NEW k, Go(t, k),
           k.op \notin Starters \cup {"boot"}, k.at \in {"room", "lock"},
           k.op = "join" => k.at = "room",
           UNCHANGED <<indexVars, disk, walk>>
    PROVE  FInv'
<1>1. task'[t] = k /\ \A u \in Tasks : u # t => task'[u] = task[u]
  BY DEF Go, IInv, Places
<1>2. ~Joins(t)' /\ \A u \in Tasks : u # t => (Joins(u)' <=> Joins(u))
  BY <1>1 DEF Joins
<1>3. AllIdle'
  BY <1>1 DEF FInv, AllIdle, indexVars, Starting
<1>4. JoinsAlone'
  BY <1>1, <1>2 DEF FInv, JoinsAlone, indexVars
<1>5. Honest'
  BY DEF FInv, Honest, indexVars
<1> QED BY <1>3, <1>4, <1>5 DEF FInv

\* What the boot evaluation, a reload or a shutdown does.
LEMMA StillFile ==
    ASSUME IInv, IInv', FInv, UNCHANGED <<indexVars>>, walk' = {}, disk' = disk \/ Save({}),
           \A t \in Tasks : task'[t] = task[t] \/ task'[t] = Idle
    PROVE  FInv'
<1>1. FileStep
  BY DEF FInv, AllIdle, FileStep, indexVars
<1>2. AllIdle'
  BY <1>1, FileStepKeeps DEF FInv, AllIdle, Idle, Starters, Starting
<1>3. JoinsAlone'
  BY DEF FInv, JoinsAlone, Joins, Idle, indexVars
<1> QED BY <1>1, <1>2, <1>3, FileStepKeeps DEF FInv

\* A rename takes the row of the old name away in the step that moves the record.
LEMMA ObserveFile ==
    ASSUME IInv, IInv', FInv, NEW r \in Rooms, Observe(r)
    PROVE  FInv'
<1> DEFINE old == states[r].name
           new == label[r]
<1>1. /\ states[r] # None /\ states' = [states EXCEPT ![r].name = new] /\ Save({old})
      /\ roomOf' = [roomOf EXCEPT ![old] = None, ![new] = r] /\ walk' = walk
  BY DEF Observe, bootVars
<1>2. states[r] \in Records /\ old \in Names /\ new \in Names
  BY <1>1, RecordsAre DEF IInv, Indexed, Rest
<1>3. \A q \in Rooms : states'[q] # None => states[q] # None /\ states'[q].dropped
  <2>1. [states[r] EXCEPT !.name = new].dropped = states[r].dropped
    BY <1>2 DEF Records
  <2> QED BY <1>1, <2>1 DEF FInv, AllIdle, IInv, Indexed
<1>4. \A n \in Names : roomOf[n] # None /\ roomOf'[n] = None => n \in {old}
  <2> SUFFICES ASSUME NEW n \in Names, n # old, roomOf[n] # None PROVE roomOf'[n] # None
    OBVIOUS
  <2> HIDE DEF old, new
  <2>1. DOMAIN roomOf = Names
    BY DEF IInv, Indexed
  <2>2. roomOf'[n] = IF n = new THEN r ELSE roomOf[n]
    BY <1>1, <1>2, <2>1
  <2> QED BY <2>2, NoneAssumption
<1>5. FileStep
  <2>1. {old} \in SUBSET Names /\ walk' = {}
    BY <1>1, <1>2 DEF FInv, AllIdle
  <2> QED BY <1>1, <1>3, <1>4, <2>1 DEF FileStep
<1>6. ASSUME NEW u \in Tasks
      PROVE  /\ task'[u].op = task[u].op /\ task'[u].at = task[u].at
             /\ task'[u].room = task[u].room
  <2>1. task[u] \in Coroutines
    BY FieldsOf DEF IInv
  <2>2. \/ task'[u] = task[u] \/ task'[u] = [task[u] EXCEPT !.key = new]
        \/ task'[u] = [task[u] EXCEPT !.key = Detached]
    BY DEF Observe
  <2> QED BY <2>1, <2>2 DEF Coroutines
<1>7. AllIdle'
  BY <1>5, <1>6, FileStepKeeps DEF FInv, AllIdle
<1>8. JoinsAlone'
  <2>1. \A u \in Tasks : Joins(u)' => Joins(u) /\ task[u].room \in Rooms
    BY <1>6 DEF Joins, IInv, Places, Fits
  <2> QED BY <1>3, <1>6, <2>1 DEF FInv, JoinsAlone
<1> QED BY <1>5, <1>7, <1>8, FileStepKeeps DEF FInv

LEMMA NextFile ==
    ASSUME IInv, IInv', QInv, FInv, [Next]_vars, \A t \in Tasks : task'[t].op \notin Starters
    PROVE  FInv'
<1>1. ASSUME NEW t \in Tasks, NEW r \in Rooms, NEW op \in Ops,
             Offer(t, op, r) \/ Verb(t, op, r) \/ Sweep(t, op, r) \/ Reload(t, op, r)
      PROVE  FInv'
  <2> DEFINE j == [[Idle EXCEPT !.at = "room"] EXCEPT !.op = op, !.room = r]
             k == [[Idle EXCEPT !.at = "lock", !.name = states[r].name, !.key = states[r].name,
                                !.pin = states[r].id] EXCEPT !.op = op, !.room = r]
  <2>1. UNCHANGED <<indexVars, disk, walk>> /\ (Go(t, j) \/ (Go(t, k) /\ op # "join"))
    BY <1>1 DEF Offer, Verb, Sweep, Reload, OnRecord, Request, bootVars, SweepOps
  <2>2. j.op = op /\ j.at = "room" /\ k.op = op /\ k.at = "lock"
    BY DEF Idle
  <2> HIDE DEF j, k
  <2>3. op # "boot"
    BY FlagsAssumption DEF AllOps
  <2>4. task'[t].op = op
    BY <2>1, <2>2 DEF Go, IInv, Places
  <2> QED BY <2>1, <2>2, <2>3, <2>4, RequestFile
<1>2. ASSUME NEW r \in Rooms, PlatformRename(r) PROVE FInv'
  BY <1>2, StillFile DEF PlatformRename, bootVars, FInv, AllIdle
<1>3. ASSUME NEW r \in Rooms, WalkStamps(r) \/ (\E t \in Tasks : WalkWakes(r, t)) PROVE FALSE
  BY <1>3 DEF WalkStamps, WalkWakes, FInv, AllIdle
<1>4. CASE BeginWalk
  <2>1. walk' = {}
    BY <1>4 DEF BeginWalk, FInv, AllIdle
  <2> QED BY <1>4, <2>1, StillFile DEF BeginWalk
<1>5. CASE EndWalk \/ Disarm \/ Rearm
  BY <1>5, StillFile DEF EndWalk, Disarm, Rearm, bootVars, FInv, AllIdle
<1>6. CASE Quiet
  BY <1>6, StillFile DEF Quiet, bootVars, FInv, AllIdle
<1>7. CASE StopAll
  BY <1>7, StillFile DEF StopAll, bootVars, FInv, AllIdle
<1>8. CASE UNCHANGED vars
  BY <1>8, StillFile DEF vars, bootVars, FInv, AllIdle
<1>9. CASE Boot
  <2>1. PICK pick \in [Rooms -> Names \cup {None}] :
            /\ \A r \in Rooms :
                 IF {n \in Names : IF disk[n] = None THEN FALSE ELSE disk[n].room = r} = {}
                 THEN pick[r] = None
                 ELSE pick[r] \in {n \in Names : IF disk[n] = None THEN FALSE
                                                 ELSE disk[n].room = r}
            /\ \A r \in Rooms : states'[r] # None => states'[r].dropped = disk[pick[r]].dropped
                                                     /\ pick[r] # None
    BY <1>9 DEF Boot
  <2>2. \A r \in Rooms : states'[r] # None => states'[r].dropped
    BY <2>1 DEF FInv, AllIdle
  <2>3. walk' = {} /\ disk' = disk /\ \A t \in Tasks : task'[t] = Idle
    BY <1>9 DEF Boot
  <2>4. AllIdle' /\ JoinsAlone'
    BY <2>2, <2>3 DEF FInv, AllIdle, JoinsAlone, Joins, Idle, Starters, Starting
  <2> QED BY <1>9, <2>4, BootHonest DEF FInv
<1>10. ASSUME NEW i \in walk PROVE FALSE
  BY DEF FInv, AllIdle
<1> QED
  BY <1>1, <1>2, <1>3, <1>4, <1>5, <1>6, <1>7, <1>8, <1>9, <1>10, CoroutineFile, ObserveFile
     DEF Next

LEMMA InitFInv == Init => FInv
BY DEF Init, FInv, AllIdle, JoinsAlone, Joins, Honest, Idle, Starters, Starting

-----------------------------------------------------------------------------
(* What holds.                                                              *)

\* No two transitions are inside one watcher: pause, resume, reset, the wakes and joins,
\* the sweep, the reclaims, a reload's stops and starts and the boot's recreations, of
\* _watcher_lock() and get_or_create(), exclude each other in every room.
THEOREM TransitionsExclude ==
    ASSUME EnoughRecs
    PROVE  Spec /\ [][UNCHANGED label]_vars => []OneTransition
<1>1. IInv /\ [Next]_vars => IInv'
  BY NextIInv
<1>2. IInv /\ QInv /\ [Next]_vars => QInv'
  BY QInvStep DEF vars, QInv, OpFits, Busy
<1>3. IInv /\ IInv' /\ QInv /\ KInv /\ [Next]_vars /\ [UNCHANGED label]_vars => KInv'
  BY KInvStep DEF vars
<1>4. KInv => OneTransition
  BY DEF KInv
<1> QED BY <1>1, <1>2, <1>3, <1>4, InitIInv, InitQInv, InitKInv, PTL DEF Spec

\* Between its transitions a watcher is up with all it needs, or down: the processor is of
\* the room's record, is routed to, runs, and is subscribed and bound; and nothing that no
\* index leads to runs, is routed to or is bound.
THEOREM WatchersAreWhole ==
    ASSUME EnoughRecs
    PROVE  Spec /\ [][UNCHANGED label]_vars => []AllOrNothing
<1>1. IInv /\ [Next]_vars => IInv'
  BY NextIInv
<1>2. IInv /\ QInv /\ [Next]_vars => QInv'
  BY QInvStep DEF vars, QInv, OpFits, Busy
<1>3. IInv /\ IInv' /\ QInv /\ KInv /\ [Next]_vars /\ [UNCHANGED label]_vars => KInv'
  BY KInvStep DEF vars
<1>4. IInv /\ KInv => AllOrNothing
  <2> SUFFICES ASSUME IInv, KInv PROVE AllOrNothing
    OBVIOUS
  <2>1. ASSUME NEW r \in Rooms, Settled(r), procs[r] # None PROVE Whole(r)
    BY <2>1 DEF KInv, RoomFits, Settled, Holding, Busy, Waiting
  <2>2. ServedWhole
    BY <2>1 DEF ServedWhole, Whole, IdOf
  <2>3. NoStrays
    BY DEF KInv, RunningHeld, RoomFits, NoStrays, IInv, Maps
  <2> QED BY <2>2, <2>3 DEF AllOrNothing
<1> QED BY <1>1, <1>2, <1>3, <1>4, InitIInv, InitQInv, InitKInv, PTL DEF Spec

\* No start that fails takes away a record it did not make: _rollback_record() removes
\* what a wake has made of nothing, and a reclaim removes what it has reclaimed.
THEOREM FailuresForgetNothing ==
    ASSUME EnoughRecs
    PROVE  Spec /\ [][UNCHANGED label]_vars => OnlyReclaimForgets
<1> DEFINE Forgets ==
               \A r \in Rooms : states[r] # None /\ states'[r] = None =>
                  \/ phase' = "booting"
                  \/ \E t \in Tasks : task[t].at = "reclaiming" /\ task[t].room = r
                  \/ \E t \in Tasks : task[t].at = "injecting" /\ task[t].room = r
                                      /\ task[t].pin = None
<1>1. IInv /\ [Next]_vars => IInv'
  BY NextIInv
<1>2. IInv /\ QInv /\ [Next]_vars => QInv'
  BY QInvStep DEF vars, QInv, OpFits, Busy
<1>3. IInv /\ IInv' /\ QInv /\ KInv /\ [Next]_vars /\ [UNCHANGED label]_vars => KInv'
  BY KInvStep DEF vars
<1>4. IInv /\ KInv /\ [Next]_vars /\ [UNCHANGED label]_vars => [Forgets]_vars
  <2> SUFFICES ASSUME IInv, KInv, Next, label' = label, NEW r \in Rooms,
                      states[r] # None, states'[r] = None, phase' # "booting"
               PROVE  \E t \in Tasks : /\ task[t].room = r
                                       /\ \/ task[t].at = "reclaiming"
                                          \/ task[t].at = "injecting" /\ task[t].pin = None
    BY DEF vars
  <2> QED BY NextForgets DEF RecordKept
<1> QED BY <1>1, <1>2, <1>3, <1>4, InitIInv, InitQInv, InitKInv, PTL
        DEF Spec, OnlyReclaimForgets

\* A pause holds until it is resumed, as long as no reload revives watchers: no wake that
\* has read the record before it waited for the lock, no reset, restart, sweep or failed
\* start lifts it.
THEOREM PausesHold ==
    ASSUME EnoughRecs, "revive" \notin Ops
    PROVE  Spec /\ [][UNCHANGED label]_vars => PauseHolds
<1> DEFINE Holds ==
               \A r \in Rooms :
                 Paused(states[r]) /\ states'[r] # None /\ ~Paused(states'[r]) =>
                    \/ phase' = "booting"
                    \/ \E t \in Tasks : task[t].op = "resume" /\ task[t].room = r
<1>1. IInv /\ [Next]_vars => IInv'
  BY NextIInv
<1>2. IInv /\ QInv /\ [Next]_vars => QInv'
  BY QInvStep DEF vars, QInv, OpFits, Busy
<1>3. IInv /\ IInv' /\ QInv /\ KInv /\ [Next]_vars /\ [UNCHANGED label]_vars => KInv'
  BY KInvStep DEF vars
<1>4. IInv /\ QInv /\ KInv /\ [Next]_vars /\ [UNCHANGED label]_vars => [Holds]_vars
  <2> SUFFICES ASSUME IInv, QInv, KInv, Next, label' = label, NEW r \in Rooms,
                      Paused(states[r]), states'[r] # None, ~Paused(states'[r]),
                      phase' # "booting"
               PROVE  \E t \in Tasks : task[t].op = "resume" /\ task[t].room = r
    BY DEF vars
  <2>1. PICK t \in Tasks : RecordKept(t, r)
    BY NextForgets
  <2>2. task[t].room = r /\ task[t].op \in {"resume", "revive"}
    BY <2>1 DEF RecordKept
  <2>3. task[t].op # "revive"
    BY DEF QInv, OpFits
  <2> QED BY <2>2, <2>3
<1> QED BY <1>1, <1>2, <1>3, <1>4, InitIInv, InitQInv, InitKInv, PTL DEF Spec, PauseHolds

\* After stop_all() nothing runs, is routed to or is under way, and the file has a row for
\* every record there is, with what it says: a restart finds what the shutdown left.
THEOREM ShutdownsAreFinal ==
    ASSUME EnoughRecs
    PROVE  Spec /\ [][UNCHANGED label]_vars => []StoppedForGood
<1>1. IInv /\ [Next]_vars => IInv'
  BY NextIInv
<1>2. IInv /\ QInv /\ [Next]_vars => QInv'
  BY QInvStep DEF vars, QInv, OpFits, Busy
<1>3. IInv /\ IInv' /\ QInv /\ KInv /\ [Next]_vars /\ [UNCHANGED label]_vars => KInv'
  BY KInvStep DEF vars
<1>4. Init => StoppedForGood
  BY DEF Init, StoppedForGood
<1>5. IInv /\ IInv' /\ QInv /\ KInv /\ StoppedForGood /\ [Next]_vars /\ label' = label
          => StoppedForGood'
  BY StopIsFinal
<1>6. [UNCHANGED label]_vars => label' = label
  BY DEF vars
<1> QED BY <1>1, <1>2, <1>3, <1>4, <1>5, <1>6, InitIInv, InitQInv, InitKInv, PTL DEF Spec

\* The file has a row for no room but those with a record, and one for each at most: what a
\* restart brings back was there.  Only a wake that makes a record of nothing and fails
\* leaves a row behind, which another watcher's save has written meanwhile.
THEOREM RowsAreOfRecords ==
    ASSUME EnoughRecs, "wake" \notin Ops
    PROVE  Spec /\ [][UNCHANGED label]_vars => []FileIsHonest
<1>1. IInv /\ [Next]_vars => IInv'
  BY NextIInv
<1>2. IInv /\ QInv /\ [Next]_vars => QInv'
  BY QInvStep DEF vars, QInv, OpFits, Busy
<1>3. IInv /\ IInv' /\ QInv /\ KInv /\ [Next]_vars /\ [UNCHANGED label]_vars => KInv'
  BY KInvStep DEF vars
<1>4. IInv /\ IInv' /\ QInv /\ KInv /\ KInv' /\ Honest /\ [Next]_vars /\ [UNCHANGED label]_vars
          => Honest'
  BY NextHonest DEF vars
<1> QED BY <1>1, <1>2, <1>3, <1>4, InitIInv, InitQInv, InitKInv, InitHonest, HonestIs, PTL
        DEF Spec

\* Nor does a rename break that, at whatever moment it is observed, as long as nothing is
\* started: observe_room_name() moves the row with the record, a join or a reclaim writes
\* the file in the step that moves the index.
THEOREM RowsFollowRenames ==
    ASSUME EnoughRecs, Ops \cap Starters = {}
    PROVE  Spec => []FileIsHonest
<1>1. IInv /\ [Next]_vars => IInv'
  BY NextIInv
<1>2. IInv /\ QInv /\ [Next]_vars => QInv'
  BY QInvStep DEF vars, QInv, OpFits, Busy
<1>3. IInv /\ IInv' /\ QInv /\ QInv' /\ FInv /\ [Next]_vars => FInv'
  BY NextFile DEF QInv, OpFits, Starters
<1>4. FInv => FileIsHonest
  BY HonestIs DEF FInv
<1> QED BY <1>1, <1>2, <1>3, <1>4, InitIInv, InitQInv, InitFInv, PTL DEF Spec

\* The index leads from a name to the record that has it, and back; and while rooms trade
\* their names and nothing is started, the rows of the file are those of the records.
THEOREM NamesStayInStep ==
    ASSUME EnoughRecs
    PROVE  ScopedSpec => []NamesAgree
<1> DEFINE svars == <<vars, trading>>
<1>1. IInv /\ [ScopedNext]_svars => IInv'
  BY NextIInv DEF ScopedNext
<1>2. IInv /\ QInv /\ [ScopedNext]_svars => QInv'
  <2>1. CASE UNCHANGED svars
    BY <2>1 DEF vars, QInv, OpFits, Busy
  <2> QED BY <2>1, QInvStep DEF ScopedNext
<1>3. IInv /\ IInv' /\ QInv /\ QInv' /\ Trades /\ [ScopedNext]_svars => Trades'
  <2> SUFFICES ASSUME IInv, IInv', QInv, QInv', Trades, [ScopedNext]_svars
               PROVE  Trades'
    OBVIOUS
  <2>1. trading' = trading
    BY DEF ScopedNext
  <2>2. CASE ~trading
    BY Zenon, <2>1, <2>2 DEF Trades
  <2>3. CASE trading
    <3>1. FInv
      BY Zenon, <2>3 DEF Trades
    <3>2. \A t \in Tasks : task'[t].op \notin Starters
      <4>1. CASE UNCHANGED svars
        BY <3>1, <4>1 DEF vars, FInv, AllIdle
      <4>2. CASE ScopedNext
        <5>1. InScope' /\ trading'
          BY <2>1, <2>3, <4>2 DEF ScopedNext
        <5>2. Under({"join", "leave", "release"})'
          BY Zenon, <5>1 DEF InScope
        <5> QED BY <5>2 DEF Under, Starters
      <4> QED BY <4>1, <4>2
    <3>3. [Next]_vars
      BY DEF ScopedNext
    <3> HIDE DEF svars
    <3>4. FInv'
      BY <3>1, <3>2, <3>3, NextFile
    <3> QED BY Zenon, <3>4 DEF Trades
  <2> QED BY <2>2, <2>3
<1>4. IInv /\ Trades => NamesAgree
  BY TypesOfParts, HonestIs DEF IInv, Indexed, FInv, NamesAgree, Trades
<1>5. ScopedInit => IInv /\ QInv /\ Trades
  BY InitIInv, InitQInv, InitFInv DEF ScopedInit, Trades
<1> QED BY <1>1, <1>2, <1>3, <1>4, <1>5, PTL DEF ScopedSpec
=============================================================================
