----------------------- MODULE WatcherLifecycleProofs -----------------------
(* What holds of the watchers of a connector for any number of rooms, names, *)
(* coroutines and sessions, with starts and saves that fail, renames at any   *)
(* moment, and crashes: the state is well formed, and the index of names      *)
(* agrees with the records.                                                   *)
EXTENDS WatcherLifecycle, TLAPS

\* A restart gives every record it reads an identity of its own.
EnoughRecs == \E f \in [Rooms -> Recs] : \A r, q \in Rooms : r # q => f[r] # f[q]

-----------------------------------------------------------------------------
(* The inductive invariant.                                                 *)

Coroutines ==
    [op : AllOps \cup {"none", "boot"},
     at : {"free", "room", "lock", "stopping", "provisioning", "injecting",
           "subscribing", "dropping", "reclaiming"},
     room : Rooms \cup {None}, name : Names \cup {None},
     key : Names \cup {None, Detached}, pin : Recs \cup {None},
     ws : Recs \cup {None}, prior : Records \cup {None},
     ses : Sessions \cup {None}, fresh : BOOLEAN]

\* What a coroutine's locals hold, by the await it is at.
Fits(k) ==
    /\ k \in Coroutines
    /\ k.at # "free" => k.room \in Rooms
    /\ k.at = "room" => k.op \in {"wake", "boot", "join"}
    /\ k.at \notin {"free", "room"} => k.name \in Names
    /\ k.at \in {"stopping", "dropping", "reclaiming"} => k.pin \in Recs
    /\ k.at = "lock" /\ k.op \notin {"wake", "boot", "join"} => k.pin \in Recs
    /\ k.at \in {"injecting", "subscribing"} => k.ws \in Recs /\ k.ses \in Sessions

Places == task \in [Tasks -> Coroutines] /\ \A t \in Tasks : Fits(task[t])

\* The records and the index of their names.
Indexed ==
    /\ states \in [Rooms -> Records \cup {None}]
    /\ roomOf \in [Names -> Rooms \cup {None}]
    /\ IndexAgrees

Routes ==
    /\ procs \in [Rooms -> Recs \cup {None}] /\ routed \in [Rooms -> Recs \cup {None}]
    /\ running \subseteq Recs /\ subscribed \subseteq Rooms

Maps == bound \in [Sessions -> Rooms \cup {None}]
Rest == /\ label \in [Rooms -> Names] /\ locks \subseteq Names
        /\ phase \in {"booting", "walking", "stamped", "serving", "draining", "quiet", "stopped"}
        /\ walk \subseteq Recs /\ aged \subseteq Rooms
File == disk \in [Names -> Rows \cup {None}]

IInv == Places /\ Indexed /\ Routes /\ Maps /\ Rest /\ File

LEMMA TypesOfParts == IInv => TypeOK
BY DEF IInv, TypeOK, Places, Coroutines, Indexed, Routes, Maps, Rest, File

\* A record is not None, and has its fields.
LEMMA RecordsAre ==
    ASSUME NEW w \in Records
    PROVE  /\ w # None /\ w.id \in Recs /\ w.id # None /\ w.name \in Names
           /\ w.session \in Sessions \cup {None} /\ w.paused \in BOOLEAN
           /\ w.dropped \in BOOLEAN
BY NoneAssumption DEF Records

-----------------------------------------------------------------------------
(* The records and the index.                                               *)

LEMMA InstallKeeps ==
    ASSUME Indexed, NEW r \in Rooms, NEW w \in Records, Installable(r, w.name), Install(r, w)
    PROVE  Indexed'
<1>1. w.name \in Names /\ w # None /\ r # None
  BY RecordsAre, NoneAssumption
<1>2. states' \in [Rooms -> Records \cup {None}] /\ roomOf' \in [Names -> Rooms \cup {None}]
  BY DEF Indexed, Install
<1>3. ASSUME NEW n \in Names, NEW q \in Rooms
      PROVE  roomOf'[n] = q <=> IF states'[q] = None THEN FALSE ELSE states'[q].name = n
  <2>1. roomOf[n] = q <=> IF states[q] = None THEN FALSE ELSE states[q].name = n
    BY DEF Indexed, IndexAgrees
  <2>2. roomOf[n] = r <=> IF states[r] = None THEN FALSE ELSE states[r].name = n
    BY DEF Indexed, IndexAgrees
  <2>3. n = w.name => roomOf[n] \in {None, r}
    BY DEF Installable
  <2>4. roomOf'[n] = IF n = w.name THEN r
                     ELSE IF states[r] # None /\ states[r].name = n THEN None ELSE roomOf[n]
    BY DEF Install
  <2>5. states'[q] = IF q = r THEN w ELSE states[q]
    BY DEF Install, Indexed
  <2>6. CASE q = r
    BY <1>1, <2>1, <2>4, <2>5, <2>6, NoneAssumption
  <2>7. CASE q # r
    BY <1>1, <2>1, <2>2, <2>3, <2>4, <2>5, <2>7, NoneAssumption
  <2> QED BY <2>6, <2>7
<1> QED BY <1>2, <1>3 DEF Indexed, IndexAgrees

LEMMA UninstallKeeps ==
    ASSUME Indexed, NEW n \in Names, Uninstall(n)
    PROVE  Indexed'
<1>1. states' \in [Rooms -> Records \cup {None}] /\ roomOf' \in [Names -> Rooms \cup {None}]
  BY DEF Indexed, Uninstall
<1>2. ASSUME NEW m \in Names, NEW q \in Rooms
      PROVE  roomOf'[m] = q <=> IF states'[q] = None THEN FALSE ELSE states'[q].name = m
  <2>1. \A x \in Names : roomOf[x] = q <=> IF states[q] = None THEN FALSE ELSE states[q].name = x
    BY DEF Indexed, IndexAgrees
  <2>2. roomOf'[m] = IF m = n THEN None ELSE roomOf[m]
    BY DEF Uninstall, Indexed
  <2>3. states'[q] = IF roomOf[n] = q THEN None ELSE states[q]
    BY NoneAssumption DEF Uninstall, Indexed
  <2> QED BY <2>1, <2>2, <2>3, NoneAssumption
<1> QED BY <1>1, <1>2 DEF Indexed, IndexAgrees

\* A record object changes, but not its name.
LEMMA AlteredKeeps ==
    ASSUME Indexed, NEW r \in Rooms, states[r] # None, NEW w \in Records,
           w.name = states[r].name, states' = [states EXCEPT ![r] = w], roomOf' = roomOf
    PROVE  Indexed'
<1>1. states' \in [Rooms -> Records \cup {None}] /\ roomOf' \in [Names -> Rooms \cup {None}]
  BY DEF Indexed
<1>2. ASSUME NEW m \in Names, NEW q \in Rooms
      PROVE  roomOf'[m] = q <=> IF states'[q] = None THEN FALSE ELSE states'[q].name = m
  <2>1. roomOf[m] = q <=> IF states[q] = None THEN FALSE ELSE states[q].name = m
    BY DEF Indexed, IndexAgrees
  <2>2. states'[q] = IF q = r THEN w ELSE states[q]
    BY DEF Indexed
  <2> QED BY <2>1, <2>2, RecordsAre
<1> QED BY <1>1, <1>2 DEF Indexed, IndexAgrees

LEMMA ChangeKeeps ==
    ASSUME Indexed, NEW r \in Rooms, NEW i \in Recs, NEW w,
           states[r] # None => w \in Records /\ w.name = states[r].name,
           Change(r, i, w), roomOf' = roomOf
    PROVE  Indexed'
<1>1. CASE IdOf(states[r]) = i
  <2>1. states[r] # None
    BY <1>1, NoneAssumption DEF IdOf
  <2> QED BY <1>1, <2>1, AlteredKeeps DEF Change
<1>2. CASE IdOf(states[r]) # i
  BY <1>2 DEF Change, Indexed, IndexAgrees
<1> QED BY <1>1, <1>2

\* The fields a transition assigns to.
LEMMA Fields ==
    ASSUME NEW w \in Records, NEW b \in BOOLEAN, NEW s \in Sessions \cup {None}
    PROVE  /\ [w EXCEPT !.paused = b] \in Records /\ [w EXCEPT !.paused = b].name = w.name
           /\ [w EXCEPT !.dropped = b] \in Records /\ [w EXCEPT !.dropped = b].name = w.name
           /\ [w EXCEPT !.session = s] \in Records /\ [w EXCEPT !.session = s].name = w.name
BY DEF Records

LEMMA SaveKeeps ==
    ASSUME File, Indexed', NEW prune, Save(prune)
    PROVE  File'
<1>1. ASSUME NEW n \in Names PROVE disk'[n] \in Rows \cup {None}
  <2>1. CASE n \in prune \/ roomOf'[n] = None
    BY <2>1 DEF Save, File
  <2>2. CASE n \notin prune /\ roomOf'[n] # None
    <3>1. roomOf'[n] \in Rooms /\ states'[roomOf'[n]] # None
      BY <2>2 DEF Indexed, IndexAgrees
    <3>2. states'[roomOf'[n]] \in Records
      BY <3>1 DEF Indexed
    <3>3. /\ states'[roomOf'[n]].session \in Sessions \cup {None}
          /\ states'[roomOf'[n]].paused \in BOOLEAN
          /\ states'[roomOf'[n]].dropped \in BOOLEAN
      BY <3>2, RecordsAre
    <3> QED BY <2>2, <3>1, <3>3 DEF Save, Rows
  <2> QED BY <2>1, <2>2
<1> QED BY <1>1 DEF Save, File

LEMMA SameIndex == ASSUME Indexed, UNCHANGED indexVars PROVE Indexed'
BY DEF Indexed, IndexAgrees, indexVars

\* The room of a name with a record.
LEMMA NamedIs ==
    ASSUME Indexed, NEW n \in Names
    PROVE  Named(n) # None =>
              roomOf[n] \in Rooms /\ Named(n) = states[roomOf[n]] /\ Named(n) \in Records
                /\ Named(n).name = n
BY NoneAssumption DEF Indexed, IndexAgrees, Named

-----------------------------------------------------------------------------
(* The coroutines.                                                          *)

LEMMA GoKeeps ==
    ASSUME Places, NEW t \in Tasks, NEW k, Fits(k), Go(t, k)
    PROVE  Places'
<1>1. k \in Coroutines
  BY DEF Fits
<1>2. task' \in [Tasks -> Coroutines]
  BY <1>1 DEF Go, Places
<1>3. ASSUME NEW u \in Tasks PROVE Fits(task'[u])
  <2>1. task'[u] = k \/ task'[u] = task[u]
    BY DEF Go, Places
  <2> QED BY <2>1 DEF Places
<1> QED BY <1>2, <1>3 DEF Places, Fits

LEMMA SameTasks == ASSUME Places, UNCHANGED task PROVE Places'
BY DEF Places, Fits

LEMMA IdleFits == Fits(Idle)
BY DEF Fits, Idle, Coroutines

LEMMA LeaveKeeps ==
    ASSUME Places, NEW t \in Tasks, Leave(t)
    PROVE  Places'
BY IdleFits, GoKeeps DEF Leave

\* A coroutine as it is.
LEMMA FieldsOf ==
    ASSUME Places, NEW t \in Tasks
    PROVE  /\ task[t] \in Coroutines /\ Fits(task[t])
           /\ task[t].op \in AllOps \cup {"none", "boot"}
           /\ task[t].room \in Rooms \cup {None} /\ task[t].name \in Names \cup {None}
           /\ task[t].key \in Names \cup {None, Detached} /\ task[t].pin \in Recs \cup {None}
           /\ task[t].ws \in Recs \cup {None} /\ task[t].prior \in Records \cup {None}
           /\ task[t].ses \in Sessions \cup {None} /\ task[t].fresh \in BOOLEAN
BY DEF Places, Coroutines

\* A request for a room, parked on its lock.
LEMMA RoomRequestFits ==
    ASSUME NEW op \in {"wake", "boot", "join"}, NEW r \in Rooms, NEW p \in Recs \cup {None}
    PROVE  /\ Fits([[Idle EXCEPT !.at = "room"] EXCEPT !.op = op, !.room = r])
           /\ Fits([Idle EXCEPT !.op = op, !.at = "room", !.room = r, !.pin = p])
BY DEF Fits, Idle, Coroutines, AllOps

\* A request for a record, parked on the lock of its name.
LEMMA RecordRequestFits ==
    ASSUME NEW op \in AllOps, NEW r \in Rooms, NEW n \in Names, NEW p \in Recs
    PROVE  Fits([[Idle EXCEPT !.at = "lock", !.name = n, !.key = n, !.pin = p]
                          EXCEPT !.op = op, !.room = r])
BY DEF Fits, Idle, Coroutines

\* A coroutine that goes on to another await.
LEMMA WaitsFits ==
    ASSUME NEW k, Fits(k), k.at = "room", k.op \in {"wake", "boot", "join"},
           NEW n \in Names, NEW p \in Recs \cup {None}
    PROVE  Fits([k EXCEPT !.at = "lock", !.name = n, !.key = n, !.pin = p])
<1> DEFINE j == [k EXCEPT !.at = "lock", !.name = n, !.key = n, !.pin = p]
<1>1. k \in Coroutines /\ k.room \in Rooms
  BY DEF Fits
<1>2. j \in Coroutines
  BY <1>1 DEF Coroutines
<1>3. j.at = "lock" /\ j.op = k.op /\ j.room = k.room /\ j.name = n
  BY <1>1 DEF Coroutines
<1> QED BY <1>1, <1>2, <1>3 DEF Fits

LEMMA RereadFits ==
    ASSUME NEW k, Fits(k), k.at = "lock", NEW n \in Names, NEW p \in Recs
    PROVE  Fits([k EXCEPT !.name = n, !.key = n, !.pin = p])
<1> DEFINE j == [k EXCEPT !.name = n, !.key = n, !.pin = p]
<1>1. k \in Coroutines /\ k.room \in Rooms
  BY DEF Fits
<1>2. j \in Coroutines
  BY <1>1 DEF Coroutines
<1>3. j.at = "lock" /\ j.room = k.room /\ j.name = n /\ j.pin = p
  BY <1>1 DEF Coroutines
<1> QED BY <1>1, <1>2, <1>3 DEF Fits

LEMMA StopsFits ==
    ASSUME NEW k, Fits(k), k.at = "lock", NEW r \in Rooms, NEW w \in Recs \cup {None},
           NEW p \in Recs, NEW s \in Sessions \cup {None}
    PROVE  /\ Fits([k EXCEPT !.at = "stopping", !.room = r, !.ws = w, !.pin = p, !.ses = s])
           /\ Fits([k EXCEPT !.at = "dropping", !.room = r, !.ws = w, !.pin = p, !.ses = s])
<1>1. k.name \in Names /\ k \in Coroutines
  BY DEF Fits
<1>2. Fits([k EXCEPT !.at = "stopping", !.room = r, !.ws = w, !.pin = p, !.ses = s])
  <2> DEFINE j == [k EXCEPT !.at = "stopping", !.room = r, !.ws = w, !.pin = p, !.ses = s]
  <2>1. j \in Coroutines
    BY <1>1 DEF Coroutines
  <2>2. j.at = "stopping" /\ j.room = r /\ j.name = k.name /\ j.pin = p
    BY <1>1 DEF Coroutines
  <2> QED BY <1>1, <2>1, <2>2 DEF Fits
<1>3. Fits([k EXCEPT !.at = "dropping", !.room = r, !.ws = w, !.pin = p, !.ses = s])
  <2> DEFINE j == [k EXCEPT !.at = "dropping", !.room = r, !.ws = w, !.pin = p, !.ses = s]
  <2>1. j \in Coroutines
    BY <1>1 DEF Coroutines
  <2>2. j.at = "dropping" /\ j.room = r /\ j.name = k.name /\ j.pin = p
    BY <1>1 DEF Coroutines
  <2> QED BY <1>1, <2>1, <2>2 DEF Fits
<1> QED BY <1>2, <1>3

LEMMA ReclaimsFits ==
    ASSUME NEW k, Fits(k), NEW r \in Rooms, NEW p \in Recs, NEW s \in Sessions \cup {None}
    PROVE  /\ k.at = "lock" => Fits([k EXCEPT !.at = "reclaiming", !.room = r, !.pin = p, !.ses = s])
           /\ k.at = "lock" /\ k.pin \in Recs => Fits([k EXCEPT !.at = "reclaiming", !.ses = s])
           /\ k.at = "stopping" => Fits([k EXCEPT !.at = "reclaiming", !.ws = None])
<1>1. k \in Coroutines
  BY DEF Fits
<1>2. ASSUME k.at = "lock"
      PROVE  Fits([k EXCEPT !.at = "reclaiming", !.room = r, !.pin = p, !.ses = s])
  <2> DEFINE j == [k EXCEPT !.at = "reclaiming", !.room = r, !.pin = p, !.ses = s]
  <2>1. k.name \in Names
    BY <1>2 DEF Fits
  <2>2. j \in Coroutines
    BY <1>1 DEF Coroutines
  <2>3. j.at = "reclaiming" /\ j.room = r /\ j.name = k.name /\ j.pin = p
    BY <1>1 DEF Coroutines
  <2> QED BY <2>1, <2>2, <2>3 DEF Fits
<1>3. ASSUME k.at = "lock", k.pin \in Recs
      PROVE  Fits([k EXCEPT !.at = "reclaiming", !.ses = s])
  <2> DEFINE j == [k EXCEPT !.at = "reclaiming", !.ses = s]
  <2>1. k.name \in Names /\ k.room \in Rooms
    BY <1>3 DEF Fits
  <2>2. j \in Coroutines
    BY <1>1 DEF Coroutines
  <2>3. j.at = "reclaiming" /\ j.room = k.room /\ j.name = k.name /\ j.pin = k.pin
    BY <1>1 DEF Coroutines
  <2> QED BY <1>3, <2>1, <2>2, <2>3 DEF Fits
<1>4. ASSUME k.at = "stopping"
      PROVE  Fits([k EXCEPT !.at = "reclaiming", !.ws = None])
  <2> DEFINE j == [k EXCEPT !.at = "reclaiming", !.ws = None]
  <2>1. k.name \in Names /\ k.room \in Rooms /\ k.pin \in Recs
    BY <1>4 DEF Fits
  <2>2. j \in Coroutines
    BY <1>1 DEF Coroutines
  <2>3. j.at = "reclaiming" /\ j.room = k.room /\ j.name = k.name /\ j.pin = k.pin
    BY <1>1 DEF Coroutines
  <2> QED BY <2>1, <2>2, <2>3 DEF Fits
<1> QED BY <1>2, <1>3, <1>4

LEMMA ProvisionsFits ==
    ASSUME NEW k, Fits(k), k.at \notin {"free", "room"}, NEW n \in Names
    PROVE  /\ Fits([k EXCEPT !.at = "provisioning", !.name = n, !.ws = None, !.ses = None,
                             !.fresh = TRUE])
           /\ Fits([k EXCEPT !.at = "provisioning", !.ws = None, !.ses = None, !.fresh = TRUE])
<1>1. k \in Coroutines /\ k.name \in Names /\ k.room \in Rooms
  BY DEF Fits
<1>2. Fits([k EXCEPT !.at = "provisioning", !.name = n, !.ws = None, !.ses = None,
                     !.fresh = TRUE])
  <2> DEFINE j == [k EXCEPT !.at = "provisioning", !.name = n, !.ws = None, !.ses = None,
                            !.fresh = TRUE]
  <2>1. j \in Coroutines
    BY <1>1 DEF Coroutines
  <2>2. j.at = "provisioning" /\ j.room = k.room /\ j.name = n
    BY <1>1 DEF Coroutines
  <2> QED BY <1>1, <2>1, <2>2 DEF Fits
<1>3. Fits([k EXCEPT !.at = "provisioning", !.ws = None, !.ses = None, !.fresh = TRUE])
  <2> DEFINE j == [k EXCEPT !.at = "provisioning", !.ws = None, !.ses = None, !.fresh = TRUE]
  <2>1. j \in Coroutines
    BY <1>1 DEF Coroutines
  <2>2. j.at = "provisioning" /\ j.room = k.room /\ j.name = k.name
    BY <1>1 DEF Coroutines
  <2> QED BY <1>1, <2>1, <2>2 DEF Fits
<1> QED BY <1>2, <1>3

LEMMA InjectsFits ==
    ASSUME NEW k, Fits(k), k.at # "free", NEW n \in Names, NEW w \in Recs,
           NEW p \in Records \cup {None}, NEW s \in Sessions
    PROVE  Fits([k EXCEPT !.at = "injecting", !.name = n, !.ws = w, !.prior = p, !.ses = s])
<1> DEFINE j == [k EXCEPT !.at = "injecting", !.name = n, !.ws = w, !.prior = p, !.ses = s]
<1>1. k \in Coroutines /\ k.room \in Rooms
  BY DEF Fits
<1>2. j \in Coroutines
  BY <1>1 DEF Coroutines
<1>3. j.at = "injecting" /\ j.room = k.room /\ j.name = n /\ j.ws = w /\ j.ses = s
  BY <1>1 DEF Coroutines
<1> QED BY <1>1, <1>2, <1>3 DEF Fits

LEMMA SubscribesFits ==
    ASSUME NEW k, Fits(k), k.at = "injecting"
    PROVE  Fits([k EXCEPT !.at = "subscribing"])
<1> DEFINE j == [k EXCEPT !.at = "subscribing"]
<1>1. k \in Coroutines /\ k.room \in Rooms /\ k.name \in Names /\ k.ws \in Recs /\ k.ses \in Sessions
  BY DEF Fits
<1>2. /\ j \in Coroutines /\ j.at = "subscribing" /\ j.room = k.room /\ j.name = k.name
      /\ j.ws = k.ws /\ j.ses = k.ses
  BY <1>1 DEF Coroutines
<1> QED BY <1>1, <1>2 DEF Fits

LEMMA UnfreshFits ==
    ASSUME NEW k, Fits(k)
    PROVE  /\ Fits([k EXCEPT !.fresh = FALSE])
           /\ [k EXCEPT !.fresh = FALSE].at = k.at
<1> DEFINE j == [k EXCEPT !.fresh = FALSE]
<1>1. k \in Coroutines
  BY DEF Fits
<1>2. /\ j \in Coroutines /\ j.op = k.op /\ j.at = k.at /\ j.room = k.room /\ j.name = k.name
      /\ j.pin = k.pin /\ j.ws = k.ws /\ j.ses = k.ses
  BY <1>1 DEF Coroutines
<1> QED BY <1>2 DEF Fits

-----------------------------------------------------------------------------
(* A start.                                                                 *)

LEMMA NewIdIs == ASSUME IdsLeft PROVE NewId \in Recs
BY DEF IdsLeft, NewId

LEMMA BuildKeeps ==
    ASSUME Places, Indexed, NEW t \in Tasks, NEW r \in Rooms, NEW n \in Names,
           NEW s \in Sessions, NEW b \in BOOLEAN, NEW maps \in [Sessions -> Rooms \cup {None}],
           NEW k, Fits(k), k.at # "free", IdsLeft, Build(t, r, n, s, b, maps, k)
    PROVE  Places' /\ Indexed' /\ Maps'
<1>1. CASE Installable(r, n)
  <2> DEFINE w == [id |-> NewId, name |-> n, session |-> s, paused |-> FALSE, dropped |-> b]
  <2>1. NewId \in Recs
    BY NewIdIs
  <2>2. w \in Records /\ w.name = n
    BY <2>1 DEF Records
  <2>3. Install(r, w)
    BY <1>1 DEF Build
  <2>4. Indexed'
    BY <1>1, <2>2, <2>3, InstallKeeps
  <2>5. bound' = [maps EXCEPT ![s] = r]
    BY <1>1 DEF Build
  <2>6. Maps'
    BY <2>5 DEF Maps
  <2>7. Named(n) \in Records \cup {None}
    BY NamedIs
  <2>8. Fits([k EXCEPT !.at = "injecting", !.name = n, !.ws = NewId, !.prior = Named(n), !.ses = s])
    BY <2>1, <2>7, InjectsFits
  <2>9. Places'
    BY <1>1, <2>8, GoKeeps DEF Build
  <2> QED BY <2>4, <2>6, <2>9
<1>2. CASE ~Installable(r, n)
  <2>1. Leave(t) /\ bound' = maps /\ UNCHANGED indexVars
    BY <1>2 DEF Build
  <2> QED BY <2>1, LeaveKeeps, SameIndex DEF Maps
<1> QED BY <1>1, <1>2

LEMMA StartKeeps ==
    ASSUME Places, Indexed, NEW t \in Tasks, NEW r \in Rooms, NEW n \in Names,
           NEW w \in Records \cup {None}, NEW maps \in [Sessions -> Rooms \cup {None}],
           task[t].at \notin {"free", "room"}, Start(t, r, n, w, maps)
    PROVE  Places' /\ Indexed' /\ Maps'
<1> DEFINE carried == task[t].op \in {"restart", "revive"} /\ w # None /\ w.dropped
<1>1. CASE Refused(r, n)
  <2>1. Leave(t) /\ bound' = maps /\ UNCHANGED indexVars
    BY <1>1 DEF Start
  <2> QED BY <2>1, LeaveKeeps, SameIndex DEF Maps
<1>2. CASE ~Refused(r, n) /\ IdOf(w) # None /\ w.session # None
  <2> DEFINE k == [task[t] EXCEPT !.fresh = FALSE]
  <2>1. w \in Records /\ w.session \in Sessions
    BY <1>2, RecordsAre DEF IdOf
  <2>2. IdsLeft /\ Build(t, r, n, w.session, carried, maps, k)
    BY <1>2 DEF Start
  <2>3. Fits(task[t])
    BY FieldsOf
  <2>4. Fits(k) /\ k.at # "free"
    BY <2>3, UnfreshFits
  <2>5. carried \in BOOLEAN
    BY <2>1, RecordsAre
  <2> HIDE DEF carried, k
  <2> QED BY <2>1, <2>2, <2>4, <2>5, BuildKeeps
<1>3. CASE ~Refused(r, n) /\ ~(IdOf(w) # None /\ w.session # None)
  <2>1. /\ Go(t, [task[t] EXCEPT !.at = "provisioning", !.name = n, !.ws = None,
                                 !.ses = None, !.fresh = TRUE])
        /\ bound' = maps /\ UNCHANGED indexVars
    BY <1>3 DEF Start
  <2>2. Fits([task[t] EXCEPT !.at = "provisioning", !.name = n, !.ws = None, !.ses = None,
                             !.fresh = TRUE])
    BY FieldsOf, ProvisionsFits
  <2> QED BY <2>1, <2>2, GoKeeps, SameIndex DEF Maps
<1> QED BY <1>1, <1>2, <1>3

\* A stop of the processor found under a name.
LEMMA StopKeeps ==
    ASSUME Places, Indexed, Routes, NEW t \in Tasks, NEW n \in Names, Named(n) # None,
           task[t].at = "lock", running' = running, Stop(t, n)
    PROVE  Places' /\ Routes'
<1> DEFINE r == roomOf[n]
<1>1. r \in Rooms /\ states[r] \in Records
  BY NamedIs
<1>2. procs[r] \in Recs \cup {None}
  BY <1>1 DEF Routes
<1>3. states[r].id \in Recs /\ states[r].session \in Sessions \cup {None}
  BY <1>1, RecordsAre
<1>4. Fits([task[t] EXCEPT !.at = "stopping", !.room = r, !.ws = procs[r],
                           !.pin = states[r].id, !.ses = states[r].session])
  BY <1>1, <1>2, <1>3, FieldsOf, StopsFits
<1>5. Places'
  BY <1>4, GoKeeps DEF Stop
<1>6. /\ procs' = [procs EXCEPT ![r] = None] /\ Release(r) /\ subscribed' = subscribed \ {r}
  BY DEF Stop
<1>7. Routes'
  BY <1>1, <1>6 DEF Routes, Release
<1> QED BY <1>5, <1>7

LEMMA UnboundIs ==
    ASSUME Places, Maps, NEW t \in Tasks
    PROVE  Unbound(t) \in [Sessions -> Rooms \cup {None}]
BY FieldsOf DEF Unbound, Maps

LEMMA DrainedKeeps ==
    ASSUME Routes, NEW t, Drained(t), UNCHANGED <<procs, routed, subscribed>>
    PROVE  Routes'
BY DEF Routes, Drained

LEMMA SameRoutes == ASSUME Routes, UNCHANGED routeVars PROVE Routes'
BY DEF Routes, routeVars

LEMMA SameRest ==
    ASSUME Rest, UNCHANGED <<label, locks, phase, bootVars>> PROVE Rest'
BY DEF Rest, bootVars

LEMMA SameFile == ASSUME File, UNCHANGED disk PROVE File'
BY DEF File

LEMMA SameMaps == ASSUME Maps, UNCHANGED bound PROVE Maps'
BY DEF Maps

-----------------------------------------------------------------------------
(* What sets a transition off.                                              *)

LEMMA OfferKeeps ==
    ASSUME IInv, NEW t \in Tasks, NEW op \in Ops, NEW r \in Rooms, Offer(t, op, r)
    PROVE  IInv'
<1>1. op \in {"wake", "boot", "join"}
  BY DEF Offer
<1>2. Fits([[Idle EXCEPT !.at = "room"] EXCEPT !.op = op, !.room = r])
  BY <1>1, RoomRequestFits
<1>3. Places'
  BY <1>2, GoKeeps DEF Offer, Request, IInv
<1>4. /\ UNCHANGED <<label, indexVars, routeVars, bound, phase, bootVars, disk>>
      /\ UNCHANGED locks
  BY DEF Offer, Request
<1> QED BY <1>3, <1>4, SameIndex, SameRoutes, SameMaps, SameRest, SameFile DEF IInv

LEMMA OnRecordKeeps ==
    ASSUME IInv, NEW t \in Tasks, NEW op \in Ops, NEW r \in Rooms, OnRecord(t, op, r)
    PROVE  IInv'
<1> DEFINE n == states[r].name
<1>1. op \in AllOps
  BY FlagsAssumption
<1>2. states[r] \in Records
  BY DEF OnRecord, IInv, Indexed
<1>3. n \in Names /\ states[r].id \in Recs
  BY <1>2, RecordsAre
<1>4. Fits([[Idle EXCEPT !.at = "lock", !.name = n, !.key = n, !.pin = states[r].id]
                    EXCEPT !.op = op, !.room = r])
  BY <1>1, <1>3, RecordRequestFits
<1>5. Places'
  BY <1>4, GoKeeps DEF OnRecord, Request, IInv
<1>6. /\ UNCHANGED <<label, indexVars, routeVars, bound, phase, bootVars, disk>>
      /\ locks' = locks \cup {n}
  BY DEF OnRecord, Request
<1>7. Rest'
  BY <1>3, <1>6 DEF IInv, Rest, bootVars
<1> QED BY <1>5, <1>6, <1>7, SameIndex, SameRoutes, SameMaps, SameFile DEF IInv

LEMMA EnterRoomKeeps ==
    ASSUME IInv, NEW t \in Tasks, EnterRoom(t)
    PROVE  IInv'
<1> DEFINE r == task[t].room
           w == states[r]
           n == IF w = None THEN label[r] ELSE w.name
<1>1. /\ task[t].at = "room"
      /\ \/ Leave(t) /\ UNCHANGED locks
         \/ /\ Go(t, [task[t] EXCEPT !.at = "lock", !.name = n, !.key = n, !.pin = IdOf(w)])
            /\ locks' = locks \cup {n}
      /\ UNCHANGED <<label, indexVars, routeVars, bound, phase, bootVars, disk>>
  BY DEF EnterRoom
<1>2. r \in Rooms /\ task[t].op \in {"wake", "boot", "join"}
  BY <1>1, FieldsOf DEF IInv, Fits
<1>3. w \in Records \cup {None}
  BY <1>2 DEF IInv, Indexed
<1>4. n \in Names /\ IdOf(w) \in Recs \cup {None}
  BY <1>2, <1>3, RecordsAre DEF IInv, Rest, IdOf
<1>5. Indexed' /\ Routes' /\ Maps' /\ File'
  BY <1>1, SameIndex, SameRoutes, SameMaps, SameFile DEF IInv
<1>6. CASE Leave(t) /\ UNCHANGED locks
  BY <1>1, <1>5, <1>6, LeaveKeeps, SameRest DEF IInv
<1>7. CASE /\ Go(t, [task[t] EXCEPT !.at = "lock", !.name = n, !.key = n, !.pin = IdOf(w)])
           /\ locks' = locks \cup {n}
  <2>1. Fits([task[t] EXCEPT !.at = "lock", !.name = n, !.key = n, !.pin = IdOf(w)])
    BY <1>1, <1>2, <1>4, FieldsOf, WaitsFits DEF IInv
  <2>2. Places'
    BY <1>7, <2>1, GoKeeps DEF IInv
  <2>3. Rest'
    BY <1>1, <1>4, <1>7 DEF IInv, Rest, bootVars
  <2> QED BY <1>5, <2>2, <2>3 DEF IInv
<1> QED BY <1>1, <1>6, <1>7

-----------------------------------------------------------------------------
(* The steps of a start.                                                    *)

LEMMA ProvisionedKeeps ==
    ASSUME IInv, NEW t \in Tasks, Provisioned(t)
    PROVE  IInv'
<1> DEFINE r == task[t].room
           w == states[r]
           carried == task[t].op = "revive" /\ w # None /\ w.dropped
<1>1. r \in Rooms /\ task[t].name \in Names /\ Fits(task[t]) /\ task[t].at # "free"
  BY FieldsOf DEF Provisioned, IInv, Fits
<1>2. w \in Records \cup {None}
  BY <1>1 DEF IInv, Indexed
<1>3. carried \in BOOLEAN
  BY <1>2, RecordsAre
<1>4. bound \in [Sessions -> Rooms \cup {None}]
  BY DEF IInv, Maps
<1>5. PICK s \in Sessions : Build(t, r, task[t].name, s, carried, bound, task[t])
  BY DEF Provisioned
<1>6. IdsLeft /\ UNCHANGED <<label, routeVars, locks, phase, bootVars, disk>>
  BY DEF Provisioned
<1> HIDE DEF carried
<1>7. Places' /\ Indexed' /\ Maps'
  BY <1>1, <1>3, <1>4, <1>5, <1>6, BuildKeeps DEF IInv
<1> QED BY <1>6, <1>7, SameRoutes, SameRest, SameFile DEF IInv

LEMMA NotProvisionedKeeps ==
    ASSUME IInv, NEW t \in Tasks, NotProvisioned(t)
    PROVE  IInv'
BY LeaveKeeps, SameIndex, SameRoutes, SameMaps, SameRest, SameFile DEF IInv, NotProvisioned

LEMMA InjectedKeeps ==
    ASSUME IInv, NEW t \in Tasks, Injected(t)
    PROVE  IInv'
<1> DEFINE r == roomOf[task[t].name]
<1>1. /\ task[t].at = "injecting"
      /\ \/ Leave(t) /\ UNCHANGED procs
         \/ /\ r # None /\ procs' = [procs EXCEPT ![r] = task[t].ws]
            /\ Go(t, [task[t] EXCEPT !.at = "subscribing"])
      /\ UNCHANGED <<label, indexVars, routed, running, subscribed, bound,
                     locks, phase, bootVars, disk>>
  BY DEF Injected
<1>2. task[t].ws \in Recs
  BY <1>1, FieldsOf DEF IInv, Fits
<1>3. Routes'
  BY <1>1, <1>2 DEF IInv, Routes
<1>4. Fits([task[t] EXCEPT !.at = "subscribing"])
  BY <1>1, FieldsOf, SubscribesFits DEF IInv
<1>5. Places'
  BY <1>1, <1>4, GoKeeps, LeaveKeeps DEF IInv
<1> QED BY <1>1, <1>3, <1>5, SameIndex, SameMaps, SameRest, SameFile DEF IInv

LEMMA NotInjectedKeeps ==
    ASSUME IInv, NEW t \in Tasks, NotInjected(t)
    PROVE  IInv'
<1>1. /\ task[t].at = "injecting" /\ Rollback(t) /\ Leave(t)
      /\ bound' = [bound EXCEPT ![task[t].ses] = None]
      /\ UNCHANGED <<label, routeVars, locks, phase, bootVars, disk>>
  BY DEF NotInjected
<1>2. /\ task[t].room \in Rooms /\ task[t].name \in Names
      /\ task[t].prior \in Records \cup {None}
  BY <1>1, FieldsOf DEF IInv, Fits
<1>3. Indexed'
  <2>1. CASE task[t].prior # None /\ Installable(task[t].room, task[t].prior.name)
    BY <1>1, <1>2, <2>1, InstallKeeps DEF IInv, Rollback
  <2>2. CASE task[t].prior # None /\ ~Installable(task[t].room, task[t].prior.name)
    BY <1>1, <2>2, SameIndex DEF IInv, Rollback
  <2>3. CASE task[t].prior = None
    BY <1>1, <1>2, <2>3, UninstallKeeps DEF IInv, Rollback
  <2> QED BY <2>1, <2>2, <2>3
<1>4. Maps'
  BY <1>1 DEF IInv, Maps
<1> QED BY <1>1, <1>3, <1>4, LeaveKeeps, SameRoutes, SameRest, SameFile DEF IInv

LEMMA SubscribedKeeps ==
    ASSUME IInv, NEW t \in Tasks, Subscribed(t)
    PROVE  IInv'
<1> DEFINE r == task[t].room
<1>1. /\ task[t].at = "subscribing" /\ subscribed' = subscribed \cup {r}
      /\ routed' = [routed EXCEPT ![r] = task[t].ws]
      /\ running' = running \cup {task[t].ws} /\ Leave(t)
      /\ UNCHANGED indexVars /\ Save({})
      /\ UNCHANGED <<label, procs, bound, locks, phase, bootVars>>
  BY DEF Subscribed, Claim
<1>2. r \in Rooms /\ task[t].ws \in Recs
  BY <1>1, FieldsOf DEF IInv, Fits
<1>3. Routes'
  BY <1>1, <1>2 DEF IInv, Routes
<1>4. Indexed'
  BY <1>1, SameIndex DEF IInv
<1> QED BY <1>1, <1>3, <1>4, LeaveKeeps, SameMaps, SameRest, SaveKeeps DEF IInv

LEMMA NotSubscribedKeeps ==
    ASSUME IInv, NEW t \in Tasks, NotSubscribed(t)
    PROVE  IInv'
<1> DEFINE r == task[t].room
           own == roomOf[task[t].name]
<1>1. /\ task[t].at = "subscribing"
      /\ procs' = IF own = None THEN procs ELSE [procs EXCEPT ![own] = None]
      /\ bound' = [bound EXCEPT ![task[t].ses] = None] /\ Leave(t)
      /\ \/ states' = IF IdOf(states[r]) = task[t].ws
                      THEN [states EXCEPT ![r].session = None] ELSE states
         \/ UNCHANGED states
      /\ UNCHANGED roomOf /\ UNCHANGED disk
      /\ UNCHANGED <<label, routed, running, subscribed, locks, phase, bootVars>>
  BY DEF NotSubscribed
<1>2. r \in Rooms /\ task[t].ws \in Recs
  BY <1>1, FieldsOf DEF IInv, Fits
<1>3. Routes'
  BY <1>1 DEF IInv, Routes
<1>4. Indexed'
  <2>1. CASE UNCHANGED states
    BY <1>1, <2>1, SameIndex DEF IInv, indexVars
  <2>2. CASE states' # states
    <3>1. states[r] # None /\ states' = [states EXCEPT ![r].session = None]
      BY <1>1, <1>2, <2>2, NoneAssumption DEF IdOf
    <3>2. states[r] \in Records
      BY <1>2, <3>1 DEF IInv, Indexed
    <3> DEFINE w == [states[r] EXCEPT !.session = None]
    <3>3. states' = [states EXCEPT ![r] = w]
      BY <3>1
    <3>4. w \in Records /\ w.name = states[r].name
      BY <3>2, Fields
    <3>5. Indexed /\ roomOf' = roomOf /\ states[r] # None
      BY <1>1, <3>1 DEF IInv
    <3> HIDE DEF w
    <3> QED BY <1>2, <3>3, <3>4, <3>5, AlteredKeeps
  <2> QED BY <2>1, <2>2
<1>5. Maps'
  BY <1>1 DEF IInv, Maps
<1> QED BY <1>1, <1>3, <1>4, <1>5, LeaveKeeps, SameRest, SameFile DEF IInv

-----------------------------------------------------------------------------
(* The transitions that begin with a stop.                                  *)

LEMMA EnterStopKeeps ==
    ASSUME IInv, NEW t \in Tasks, EnterStop(t)
    PROVE  IInv'
<1> DEFINE n == task[t].name
<1>1. /\ task[t].at = "lock"
      /\ \/ Leave(t) /\ UNCHANGED <<procs, routed, subscribed>>
         \/ Named(n) # None /\ Stop(t, n)
      /\ UNCHANGED <<label, indexVars, running, bound, locks, phase, bootVars, disk>>
  BY DEF EnterStop
<1>2. n \in Names
  BY <1>1, FieldsOf DEF IInv, Fits
<1>3. Places' /\ Routes'
  <2>1. CASE Leave(t) /\ UNCHANGED <<procs, routed, subscribed>>
    BY <1>1, <2>1, LeaveKeeps, SameRoutes DEF IInv, routeVars
  <2>2. CASE Named(n) # None /\ Stop(t, n)
    BY <1>1, <1>2, <2>2, StopKeeps DEF IInv
  <2> QED BY <1>1, <2>1, <2>2
<1> QED BY <1>1, <1>3, SameIndex, SameMaps, SameRest, SameFile DEF IInv

LEMMA PauseEndKeeps ==
    ASSUME IInv, NEW t \in Tasks, PauseEnd(t)
    PROVE  IInv'
<1> DEFINE r == task[t].room
           w == [states[r] EXCEPT !.paused = TRUE]
<1>1. /\ task[t].at = "stopping" /\ Drained(t) /\ bound' = Unbound(t)
      /\ Change(r, task[t].pin, w) /\ UNCHANGED roomOf /\ Save({}) /\ Leave(t)
      /\ UNCHANGED <<label, procs, routed, subscribed, locks, phase, bootVars>>
  BY DEF PauseEnd
<1>2. r \in Rooms /\ task[t].pin \in Recs
  BY <1>1, FieldsOf DEF IInv, Fits
<1>3. states[r] # None => w \in Records /\ w.name = states[r].name
  BY <1>2, Fields DEF IInv, Indexed
<1> HIDE DEF w
<1>4. Indexed'
  BY <1>1, <1>2, <1>3, ChangeKeeps DEF IInv
<1>5. Maps'
  BY <1>1, UnboundIs DEF IInv, Maps
<1> QED BY <1>1, <1>4, <1>5, LeaveKeeps, DrainedKeeps, SaveKeeps, SameRest DEF IInv

LEMMA DropEndKeeps ==
    ASSUME IInv, NEW t \in Tasks, DropEnd(t)
    PROVE  IInv'
<1> DEFINE r == task[t].room
           w == [states[r] EXCEPT !.dropped = TRUE]
<1>1. /\ task[t].at = "dropping" /\ Drained(t) /\ bound' = Unbound(t)
      /\ Change(r, task[t].pin, w) /\ UNCHANGED roomOf /\ Save({}) /\ Leave(t)
      /\ UNCHANGED <<label, procs, routed, subscribed, locks, phase, bootVars>>
  BY DEF DropEnd
<1>2. r \in Rooms /\ task[t].pin \in Recs
  BY <1>1, FieldsOf DEF IInv, Fits
<1>3. states[r] # None => w \in Records /\ w.name = states[r].name
  BY <1>2, Fields DEF IInv, Indexed
<1> HIDE DEF w
<1>4. Indexed'
  BY <1>1, <1>2, <1>3, ChangeKeeps DEF IInv
<1>5. Maps'
  BY <1>1, UnboundIs DEF IInv, Maps
<1> QED BY <1>1, <1>4, <1>5, LeaveKeeps, DrainedKeeps, SaveKeeps, SameRest DEF IInv

LEMMA ResetEndKeeps ==
    ASSUME IInv, NEW t \in Tasks, ResetEnd(t)
    PROVE  IInv'
<1> DEFINE r == task[t].room
           w == [states[r] EXCEPT !.session = None]
<1>1. /\ task[t].at = "stopping" /\ Drained(t) /\ bound' = Unbound(t)
      /\ Change(r, task[t].pin, w) /\ UNCHANGED roomOf
      /\ \/ Leave(t)
         \/ Go(t, [task[t] EXCEPT !.at = "provisioning", !.ws = None, !.ses = None,
                                  !.fresh = TRUE])
      /\ UNCHANGED <<label, procs, routed, subscribed, locks, phase, bootVars, disk>>
  BY DEF ResetEnd
<1>2. r \in Rooms /\ task[t].pin \in Recs /\ Fits(task[t]) /\ task[t].name \in Names
  BY <1>1, FieldsOf DEF IInv, Fits
<1>3. states[r] # None => w \in Records /\ w.name = states[r].name
  BY <1>2, Fields DEF IInv, Indexed
<1> HIDE DEF w
<1>4. Indexed'
  BY <1>1, <1>2, <1>3, ChangeKeeps DEF IInv
<1>5. Maps'
  BY <1>1, UnboundIs DEF IInv, Maps
<1>6. Fits([task[t] EXCEPT !.at = "provisioning", !.ws = None, !.ses = None, !.fresh = TRUE])
  BY <1>1, <1>2, ProvisionsFits
<1>7. Places'
  BY <1>1, <1>6, GoKeeps, LeaveKeeps DEF IInv
<1> QED BY <1>1, <1>4, <1>5, <1>7, DrainedKeeps, SameRest, SameFile DEF IInv

LEMMA RestartEndKeeps ==
    ASSUME IInv, NEW t \in Tasks, RestartEnd(t)
    PROVE  IInv'
<1> DEFINE r == task[t].room
           n == IF IdOf(states[r]) = task[t].pin THEN states[r].name ELSE task[t].name
<1>1. /\ task[t].at = "stopping" /\ Drained(t)
      /\ \/ Leave(t) /\ bound' = Unbound(t) /\ UNCHANGED indexVars
         \/ Start(t, r, n, states[r], Unbound(t))
      /\ UNCHANGED <<label, procs, routed, subscribed, locks, phase, bootVars, disk>>
  BY DEF RestartEnd
<1>2. r \in Rooms /\ task[t].pin \in Recs /\ task[t].name \in Names
  BY <1>1, FieldsOf DEF IInv, Fits
<1>3. states[r] \in Records \cup {None}
  BY <1>2 DEF IInv, Indexed
<1>4. n \in Names
  BY <1>2, <1>3, RecordsAre, NoneAssumption DEF IdOf
<1>5. Unbound(t) \in [Sessions -> Rooms \cup {None}]
  BY UnboundIs DEF IInv
<1> HIDE DEF n
<1>6. Places' /\ Indexed' /\ Maps'
  <2>1. CASE Leave(t) /\ bound' = Unbound(t) /\ UNCHANGED indexVars
    BY <1>5, <2>1, LeaveKeeps, SameIndex DEF IInv, Maps
  <2>2. CASE Start(t, r, n, states[r], Unbound(t))
    BY <1>1, <1>2, <1>3, <1>4, <1>5, <2>2, StartKeeps DEF IInv
  <2> QED BY <1>1, <2>1, <2>2
<1> QED BY <1>1, <1>6, DrainedKeeps, SameRest, SameFile DEF IInv

LEMMA HaltEndKeeps ==
    ASSUME IInv, NEW t \in Tasks, HaltEnd(t)
    PROVE  IInv'
<1>1. /\ Drained(t) /\ bound' = Unbound(t) /\ UNCHANGED indexVars /\ Save({}) /\ Leave(t)
      /\ UNCHANGED <<label, procs, routed, subscribed, locks, phase, bootVars>>
  BY DEF HaltEnd
<1>2. Indexed' /\ Maps'
  BY <1>1, SameIndex, UnboundIs DEF IInv, Maps
<1> QED BY <1>1, <1>2, LeaveKeeps, DrainedKeeps, SaveKeeps, SameRest DEF IInv

-----------------------------------------------------------------------------
(* The transitions that begin with a start.                                 *)

LEMMA EnterWakeKeeps ==
    ASSUME IInv, NEW t \in Tasks, EnterWake(t)
    PROVE  IInv'
<1> DEFINE r == task[t].room
           w == IF task[t].pin = None THEN None ELSE states[r]
<1>1. /\ task[t].at = "lock"
      /\ \/ Leave(t) /\ bound' = bound /\ UNCHANGED indexVars
         \/ Start(t, r, task[t].name, w, bound)
      /\ UNCHANGED <<label, routeVars, locks, phase, bootVars, disk>>
  BY DEF EnterWake
<1>2. r \in Rooms /\ task[t].name \in Names
  BY <1>1, FieldsOf DEF IInv, Fits
<1>3. w \in Records \cup {None}
  BY <1>2 DEF IInv, Indexed
<1>4. bound \in [Sessions -> Rooms \cup {None}]
  BY DEF IInv, Maps
<1> HIDE DEF w
<1>5. Places' /\ Indexed' /\ Maps'
  <2>1. CASE Leave(t) /\ bound' = bound /\ UNCHANGED indexVars
    BY <2>1, LeaveKeeps, SameIndex, SameMaps DEF IInv
  <2>2. CASE Start(t, r, task[t].name, w, bound)
    BY <1>1, <1>2, <1>3, <1>4, <2>2, StartKeeps DEF IInv
  <2> QED BY <1>1, <2>1, <2>2
<1> QED BY <1>1, <1>5, SameRoutes, SameRest, SameFile DEF IInv

LEMMA EnterJoinKeeps ==
    ASSUME IInv, NEW t \in Tasks, EnterJoin(t)
    PROVE  IInv'
<1> DEFINE r == task[t].room
           n == task[t].name
           w == [id |-> NewId, name |-> n, session |-> None, paused |-> FALSE, dropped |-> TRUE]
<1>1. /\ task[t].at = "lock" /\ IdsLeft /\ Leave(t)
      /\ \/ Installable(r, n) /\ Install(r, w) /\ Save({})
         \/ UNCHANGED <<indexVars, disk>>
      /\ UNCHANGED <<label, routeVars, bound, locks, phase, bootVars>>
  BY DEF EnterJoin
<1>2. r \in Rooms /\ n \in Names
  BY <1>1, FieldsOf DEF IInv, Fits
<1>3. w \in Records /\ w.name = n
  BY <1>1, <1>2, NewIdIs DEF Records
<1> HIDE DEF w
<1>4. Indexed' /\ File'
  <2>1. CASE Installable(r, n) /\ Install(r, w) /\ Save({})
    BY <1>2, <1>3, <2>1, InstallKeeps, SaveKeeps DEF IInv
  <2>2. CASE UNCHANGED <<indexVars, disk>>
    BY <2>2, SameIndex, SameFile DEF IInv
  <2> QED BY <1>1, <2>1, <2>2
<1> QED BY <1>1, <1>4, LeaveKeeps, SameRoutes, SameMaps, SameRest DEF IInv

LEMMA EnterResumeKeeps ==
    ASSUME IInv, NEW t \in Tasks, EnterResume(t)
    PROVE  IInv'
<1> DEFINE r == task[t].room
           n == task[t].name
           q == roomOf[n]
<1>1. /\ task[t].at = "lock"
      /\ \/ Leave(t) /\ UNCHANGED <<indexVars, bound, disk>>
         \/ /\ Named(n) # None /\ states' = [states EXCEPT ![q].paused = FALSE]
            /\ UNCHANGED <<roomOf, bound>> /\ Save({}) /\ Leave(t)
         \/ Start(t, r, n, Named(n), bound) /\ UNCHANGED disk
      /\ UNCHANGED <<label, routeVars, locks, phase, bootVars>>
  BY DEF EnterResume
<1>2. r \in Rooms /\ n \in Names
  BY <1>1, FieldsOf DEF IInv, Fits
<1>3. bound \in [Sessions -> Rooms \cup {None}] /\ Named(n) \in Records \cup {None}
  BY <1>2, NamedIs DEF IInv, Maps
<1>4. Places' /\ Indexed' /\ Maps' /\ File'
  <2>1. CASE Leave(t) /\ UNCHANGED <<indexVars, bound, disk>>
    BY <2>1, LeaveKeeps, SameIndex, SameMaps, SameFile DEF IInv
  <2>2. CASE /\ Named(n) # None /\ states' = [states EXCEPT ![q].paused = FALSE]
             /\ UNCHANGED <<roomOf, bound>> /\ Save({}) /\ Leave(t)
    <3>1. q \in Rooms /\ states[q] # None /\ states[q] \in Records
      BY <1>2, <2>2, NamedIs DEF IInv
    <3>2. states' = [states EXCEPT ![q] = [states[q] EXCEPT !.paused = FALSE]]
      BY <2>2
    <3>3. Indexed'
      BY <2>2, <3>1, <3>2, Fields, AlteredKeeps DEF IInv
    <3> QED BY <2>2, <3>3, LeaveKeeps, SameMaps, SaveKeeps DEF IInv
  <2>3. CASE Start(t, r, n, Named(n), bound) /\ UNCHANGED disk
    BY <1>1, <1>2, <1>3, <2>3, StartKeeps, SameFile DEF IInv
  <2> QED BY <1>1, <2>1, <2>2, <2>3
<1> QED BY <1>1, <1>4, SameRoutes, SameRest DEF IInv

LEMMA EnterReviveKeeps ==
    ASSUME IInv, NEW t \in Tasks, EnterRevive(t)
    PROVE  IInv'
<1> DEFINE r == task[t].room
           w == states[r]
<1>1. /\ task[t].at = "lock"
      /\ \/ Leave(t) /\ bound' = bound /\ UNCHANGED indexVars
         \/ w # None /\ Start(t, r, w.name, w, bound)
      /\ UNCHANGED <<label, routeVars, locks, phase, bootVars, disk>>
  BY DEF EnterRevive
<1>2. r \in Rooms
  BY <1>1, FieldsOf DEF IInv, Fits
<1>3. w \in Records \cup {None}
  BY <1>2 DEF IInv, Indexed
<1>4. bound \in [Sessions -> Rooms \cup {None}]
  BY DEF IInv, Maps
<1>5. Places' /\ Indexed' /\ Maps'
  <2>1. CASE Leave(t) /\ bound' = bound /\ UNCHANGED indexVars
    BY <2>1, LeaveKeeps, SameIndex, SameMaps DEF IInv
  <2>2. CASE w # None /\ Start(t, r, w.name, w, bound)
    <3>1. w.name \in Names
      BY <1>3, <2>2, RecordsAre
    <3> QED BY <1>1, <1>2, <1>3, <1>4, <2>2, <3>1, StartKeeps DEF IInv
  <2> QED BY <1>1, <2>1, <2>2
<1> QED BY <1>1, <1>5, SameRoutes, SameRest, SameFile DEF IInv

-----------------------------------------------------------------------------
(* Idle and gone.                                                           *)

LEMMA EnterDropKeeps ==
    ASSUME IInv, NEW t \in Tasks, EnterDrop(t)
    PROVE  IInv'
<1> DEFINE n == task[t].name
           w == Named(n)
           r == roomOf[n]
           k == [task[t] EXCEPT !.at = "dropping", !.room = r, !.ws = procs[r],
                                !.pin = w.id, !.ses = w.session]
<1>1. /\ task[t].at = "lock"
      /\ \/ Leave(t) /\ UNCHANGED <<procs, routed>>
         \/ /\ w # None /\ procs' = [procs EXCEPT ![r] = None] /\ Release(r) /\ Go(t, k)
      /\ UNCHANGED <<label, indexVars, running, subscribed, bound, locks, phase, bootVars, disk>>
  BY DEF EnterDrop
<1>2. n \in Names
  BY <1>1, FieldsOf DEF IInv, Fits
<1>3. Routes'
  BY <1>1 DEF IInv, Routes, Release
<1>4. Places'
  <2>1. CASE Leave(t)
    BY <2>1, LeaveKeeps DEF IInv
  <2>2. CASE w # None /\ Go(t, k)
    <3>1. r \in Rooms /\ w \in Records
      BY <1>2, <2>2, NamedIs DEF IInv
    <3>2. procs[r] \in Recs \cup {None} /\ w.id \in Recs /\ w.session \in Sessions \cup {None}
      BY <3>1, RecordsAre DEF IInv, Routes
    <3>3. Fits(k)
      BY <1>1, <3>1, <3>2, FieldsOf, StopsFits DEF IInv
    <3> HIDE DEF k
    <3> QED BY <2>2, <3>3, GoKeeps DEF IInv
  <2> QED BY <1>1, <2>1, <2>2
<1> QED BY <1>1, <1>3, <1>4, SameIndex, SameMaps, SameRest, SameFile DEF IInv

LEMMA EnterExpireKeeps ==
    ASSUME IInv, NEW t \in Tasks, EnterExpire(t)
    PROVE  IInv'
<1> DEFINE n == task[t].name
           w == Named(n)
           r == roomOf[n]
           k == [task[t] EXCEPT !.at = "reclaiming", !.room = r, !.pin = w.id, !.ses = w.session]
<1>1. /\ task[t].at = "lock"
      /\ \/ Leave(t) /\ UNCHANGED subscribed
         \/ /\ w # None /\ subscribed' = subscribed \ {r} /\ Go(t, k)
      /\ UNCHANGED <<label, indexVars, procs, routed, running, bound, locks, phase, bootVars,
                     disk>>
  BY DEF EnterExpire, Expirable
<1>2. n \in Names
  BY <1>1, FieldsOf DEF IInv, Fits
<1>3. Routes'
  BY <1>1 DEF IInv, Routes
<1>4. Places'
  <2>1. CASE Leave(t)
    BY <2>1, LeaveKeeps DEF IInv
  <2>2. CASE w # None /\ Go(t, k)
    <3>1. r \in Rooms /\ w \in Records
      BY <1>2, <2>2, NamedIs DEF IInv
    <3>2. w.id \in Recs /\ w.session \in Sessions \cup {None}
      BY <3>1, RecordsAre
    <3>3. Fits(k)
      BY <1>1, <3>1, <3>2, FieldsOf, ReclaimsFits DEF IInv
    <3> HIDE DEF k
    <3> QED BY <2>2, <3>3, GoKeeps DEF IInv
  <2> QED BY <1>1, <2>1, <2>2
<1> QED BY <1>1, <1>3, <1>4, SameIndex, SameMaps, SameRest, SameFile DEF IInv

LEMMA EnterReclaimKeeps ==
    ASSUME IInv, NEW t \in Tasks, EnterReclaim(t)
    PROVE  IInv'
<1> DEFINE r == task[t].room
           w == states[r]
           again == [task[t] EXCEPT !.name = w.name, !.key = w.name, !.pin = w.id]
           going == [task[t] EXCEPT !.at = "reclaiming", !.ses = w.session]
<1>1. /\ task[t].op \in {"leave", "release"} /\ task[t].at = "lock"
      /\ \/ Leave(t) /\ UNCHANGED <<procs, routed, subscribed, locks>>
         \/ /\ w # None /\ Go(t, again) /\ locks' = locks \cup {w.name}
            /\ UNCHANGED <<procs, routed, subscribed>>
         \/ IdOf(w) = task[t].pin /\ Stop(t, w.name) /\ UNCHANGED locks
         \/ /\ IdOf(w) = task[t].pin /\ subscribed' = subscribed \ {r} /\ Go(t, going)
            /\ UNCHANGED <<procs, routed, locks>>
      /\ UNCHANGED <<label, indexVars, running, bound, phase, bootVars, disk>>
  BY DEF EnterReclaim
<1>2. r \in Rooms /\ task[t].pin \in Recs /\ Fits(task[t])
  BY <1>1, FieldsOf DEF IInv, Fits
<1>3. w \in Records \cup {None} /\ (IdOf(w) = task[t].pin => w # None)
  BY <1>2, NoneAssumption DEF IInv, Indexed, IdOf
<1>4. w # None => /\ w.name \in Names /\ w.id \in Recs /\ w.session \in Sessions \cup {None}
                  /\ Named(w.name) # None
  <2> SUFFICES ASSUME w # None
               PROVE  /\ w.name \in Names /\ w.id \in Recs /\ w.session \in Sessions \cup {None}
                      /\ Named(w.name) # None
    OBVIOUS
  <2>1. w.name \in Names /\ w.id \in Recs /\ w.session \in Sessions \cup {None}
    BY <1>3, RecordsAre
  <2>2. roomOf[w.name] = r
    BY <1>2, <2>1 DEF IInv, Indexed, IndexAgrees
  <2> QED BY <1>2, <2>1, <2>2, NoneAssumption DEF Named
<1>5. Indexed' /\ Maps' /\ File'
  BY <1>1, SameIndex, SameMaps, SameFile DEF IInv
<1>6. CASE Leave(t) /\ UNCHANGED <<procs, routed, subscribed, locks>>
  BY <1>1, <1>5, <1>6, LeaveKeeps, SameRoutes, SameRest DEF IInv, routeVars
<1>7. CASE /\ w # None /\ Go(t, again) /\ locks' = locks \cup {w.name}
           /\ UNCHANGED <<procs, routed, subscribed>>
  <2>1. Fits(again)
    BY <1>1, <1>2, <1>4, <1>7, RereadFits
  <2> HIDE DEF again
  <2>2. Places'
    BY <1>7, <2>1, GoKeeps DEF IInv
  <2>3. Rest'
    BY <1>1, <1>4, <1>7 DEF IInv, Rest, bootVars
  <2> QED BY <1>1, <1>5, <1>7, <2>2, <2>3, SameRoutes DEF IInv, routeVars
<1>8. CASE IdOf(w) = task[t].pin /\ Stop(t, w.name) /\ UNCHANGED locks
  <2>1. Places' /\ Routes'
    BY <1>1, <1>3, <1>4, <1>8, StopKeeps DEF IInv
  <2> QED BY <1>1, <1>5, <1>8, <2>1, SameRest DEF IInv
<1>9. CASE /\ IdOf(w) = task[t].pin /\ subscribed' = subscribed \ {r} /\ Go(t, going)
           /\ UNCHANGED <<procs, routed, locks>>
  <2>1. Fits(going)
    BY <1>1, <1>2, <1>3, <1>4, <1>9, ReclaimsFits
  <2> HIDE DEF going
  <2>2. Places'
    BY <1>9, <2>1, GoKeeps DEF IInv
  <2>3. Routes'
    BY <1>1, <1>9 DEF IInv, Routes
  <2> QED BY <1>1, <1>5, <1>9, <2>2, <2>3, SameRest DEF IInv
<1> QED BY <1>1, <1>6, <1>7, <1>8, <1>9

LEMMA ReclaimStoppedKeeps ==
    ASSUME IInv, NEW t \in Tasks, ReclaimStopped(t)
    PROVE  IInv'
<1> DEFINE k == [task[t] EXCEPT !.at = "reclaiming", !.ws = None]
<1>1. /\ task[t].at = "stopping" /\ Drained(t) /\ bound' = Unbound(t) /\ Go(t, k)
      /\ UNCHANGED <<label, indexVars, procs, routed, subscribed, locks, phase, bootVars,
                     disk>>
  BY DEF ReclaimStopped
<1>2. task[t].room \in Rooms /\ task[t].pin \in Recs
  BY <1>1, FieldsOf DEF IInv, Fits
<1>3. Fits(k)
  BY <1>1, <1>2, FieldsOf, ReclaimsFits, NoneAssumption DEF IInv
<1> HIDE DEF k
<1>4. Places' /\ Maps'
  BY <1>1, <1>3, GoKeeps, UnboundIs DEF IInv, Maps
<1> QED BY <1>1, <1>4, SameIndex, DrainedKeeps, SameRest, SameFile DEF IInv

LEMMA ReclaimedKeeps ==
    ASSUME IInv, NEW t \in Tasks, Reclaimed(t)
    PROVE  IInv'
<1> DEFINE r == task[t].room
           w == states[r]
           n == CurrentName(t)
<1>1. /\ task[t].at = "reclaiming" /\ bound' = Unbound(t) /\ Leave(t)
      /\ \/ Uninstall(n) /\ Save({task[t].name, n})
         \/ /\ IdOf(w) = task[t].pin /\ states' = [states EXCEPT ![r].dropped = TRUE]
            /\ UNCHANGED <<roomOf, disk>>
      /\ UNCHANGED <<label, routeVars, locks, phase, walk>>
      /\ aged' = IF states'[r] = None THEN aged \ {r} ELSE aged
  BY DEF Reclaimed
<1>2. r \in Rooms /\ task[t].pin \in Recs /\ task[t].name \in Names
  BY <1>1, FieldsOf DEF IInv, Fits
<1>3. w \in Records \cup {None} /\ (IdOf(w) = task[t].pin => w # None)
  BY <1>2, NoneAssumption DEF IInv, Indexed, IdOf
<1>4. n \in Names
  BY <1>2, <1>3, RecordsAre DEF CurrentName
<1> HIDE DEF n
<1>5. Indexed' /\ File'
  <2>1. CASE Uninstall(n) /\ Save({task[t].name, n})
    BY <1>4, <2>1, UninstallKeeps, SaveKeeps DEF IInv
  <2>2. CASE /\ IdOf(w) = task[t].pin /\ states' = [states EXCEPT ![r].dropped = TRUE]
             /\ UNCHANGED <<roomOf, disk>>
    <3>1. states' = [states EXCEPT ![r] = [w EXCEPT !.dropped = TRUE]] /\ w \in Records
      BY <1>3, <2>2
    <3> QED BY <1>2, <1>3, <2>2, <3>1, Fields, AlteredKeeps, SameFile DEF IInv
  <2> QED BY <1>1, <2>1, <2>2
<1>6. Maps' /\ Rest'
  BY <1>1, UnboundIs DEF IInv, Maps, Rest
<1> QED BY <1>1, <1>5, <1>6, LeaveKeeps, SameRoutes DEF IInv

LEMMA CoroutineKeeps ==
    ASSUME IInv, NEW t \in Tasks, Step(t)
    PROVE  IInv'
BY EnterRoomKeeps, EnterStopKeeps, PauseEndKeeps, ResetEndKeeps, RestartEndKeeps, HaltEndKeeps,
   EnterWakeKeeps, EnterJoinKeeps, EnterResumeKeeps, EnterReviveKeeps, ProvisionedKeeps,
   NotProvisionedKeeps, InjectedKeeps, NotInjectedKeeps, SubscribedKeeps, NotSubscribedKeeps,
   EnterDropKeeps, DropEndKeeps, EnterExpireKeeps, EnterReclaimKeeps, ReclaimStoppedKeeps,
   ReclaimedKeeps DEF Step

-----------------------------------------------------------------------------
(* Names.                                                                   *)

\* A record moves to a name nobody else has.
LEMMA RenameKeeps ==
    ASSUME Indexed, NEW r \in Rooms, states[r] # None, NEW new \in Names,
           new # states[r].name, Installable(r, new),
           states' = [states EXCEPT ![r].name = new],
           roomOf' = [roomOf EXCEPT ![states[r].name] = None, ![new] = r]
    PROVE  Indexed'
<1> DEFINE old == states[r].name
           w == [states[r] EXCEPT !.name = new]
<1>1. states[r] \in Records
  BY DEF Indexed
<1>2. old \in Names /\ w \in Records /\ w.name = new /\ w # None
  BY <1>1, RecordsAre, NoneAssumption DEF Records
<1>3. states' = [states EXCEPT ![r] = w]
  OBVIOUS
<1> HIDE DEF w, old
<1>4. roomOf' = [[roomOf EXCEPT ![old] = None] EXCEPT ![new] = r]
  BY DEF old
<1>5. /\ states' \in [Rooms -> Records \cup {None}]
      /\ roomOf' \in [Names -> Rooms \cup {None}]
  BY <1>2, <1>3, <1>4 DEF Indexed
<1>6. ASSUME NEW n \in Names, NEW q \in Rooms
      PROVE  roomOf'[n] = q <=> IF states'[q] = None THEN FALSE ELSE states'[q].name = n
  <2>1. roomOf[n] = q <=> IF states[q] = None THEN FALSE ELSE states[q].name = n
    BY DEF Indexed, IndexAgrees
  <2>2. roomOf[old] = r
    BY <1>2 DEF Indexed, IndexAgrees, old
  <2>3. roomOf[new] \in {None, r}
    BY DEF Installable
  <2>4. roomOf'[n] = IF n = new THEN r ELSE IF n = old THEN None ELSE roomOf[n]
    BY <1>2, <1>4 DEF Indexed
  <2>5. states'[q] = IF q = r THEN w ELSE states[q]
    BY <1>3 DEF Indexed
  <2>6. old # new /\ r # None /\ q # None
    BY NoneAssumption DEF old
  <2>7. CASE q = r
    BY <1>2, <2>1, <2>4, <2>5, <2>6, <2>7 DEF old
  <2>8. CASE q # r
    BY <2>1, <2>2, <2>3, <2>4, <2>5, <2>6, <2>8
  <2> QED BY <2>7, <2>8
<1> QED BY <1>5, <1>6 DEF Indexed, IndexAgrees

\* The lock object a coroutine waits for or holds is found elsewhere.
LEMMA RekeyedFits ==
    ASSUME NEW k, Fits(k), NEW x \in Names \cup {None, Detached}
    PROVE  Fits([k EXCEPT !.key = x])
<1> DEFINE j == [k EXCEPT !.key = x]
<1>1. k \in Coroutines
  BY DEF Fits
<1>2. j \in Coroutines
  BY <1>1 DEF Coroutines
<1>3. /\ j.op = k.op /\ j.at = k.at /\ j.room = k.room /\ j.name = k.name
      /\ j.pin = k.pin /\ j.ws = k.ws /\ j.ses = k.ses
  BY <1>1 DEF Coroutines
<1> QED BY <1>2, <1>3 DEF Fits

LEMMA ObserveKeeps ==
    ASSUME IInv, NEW r \in Rooms, Observe(r)
    PROVE  IInv'
<1> DEFINE old == states[r].name
           new == label[r]
<1>1. /\ states[r] # None /\ old # new /\ Installable(r, new)
      /\ states' = [states EXCEPT ![r].name = new]
      /\ roomOf' = [roomOf EXCEPT ![old] = None, ![new] = r]
      /\ \/ /\ locks' = (locks \ {old}) \cup {new}
            /\ task' = [t \in Tasks |->
                          CASE task[t].key = old -> [task[t] EXCEPT !.key = new]
                            [] task[t].key = new -> [task[t] EXCEPT !.key = Detached]
                            [] OTHER -> task[t]]
         \/ UNCHANGED <<locks, task>>
      /\ Save({old})
      /\ UNCHANGED <<label, routeVars, bound, phase, bootVars>>
  BY DEF Observe
<1>2. new \in Names
  BY DEF IInv, Rest
<1>3. Indexed'
  BY <1>1, <1>2, RenameKeeps DEF IInv
<1>4. Places'
  <2>1. CASE UNCHANGED <<locks, task>>
    BY <2>1, SameTasks DEF IInv
  <2>2. CASE task' = [t \in Tasks |->
                        CASE task[t].key = old -> [task[t] EXCEPT !.key = new]
                          [] task[t].key = new -> [task[t] EXCEPT !.key = Detached]
                          [] OTHER -> task[t]]
    <3>1. ASSUME NEW t \in Tasks PROVE Fits(task'[t])
      <4>1. Fits(task[t]) /\ Fits([task[t] EXCEPT !.key = new])
            /\ Fits([task[t] EXCEPT !.key = Detached])
        BY <1>2, FieldsOf, RekeyedFits DEF IInv
      <4>2. \/ task'[t] = [task[t] EXCEPT !.key = new]
            \/ task'[t] = [task[t] EXCEPT !.key = Detached]
            \/ task'[t] = task[t]
        BY <2>2
      <4> QED BY <4>1, <4>2
    <3>2. \A t \in Tasks : task'[t] \in Coroutines
      BY <3>1 DEF Fits
    <3>3. task' = [t \in Tasks |-> task'[t]]
      BY <2>2
    <3>4. task' \in [Tasks -> Coroutines]
      BY <3>2, <3>3
    <3> QED BY <3>1, <3>4 DEF Places, Fits
  <2> QED BY <1>1, <2>1, <2>2
<1>5. Rest'
  BY <1>1, <1>2 DEF IInv, Rest, bootVars
<1> QED BY <1>1, <1>3, <1>4, <1>5, SameRoutes, SameMaps, SaveKeeps DEF IInv

LEMMA PlatformRenameKeeps ==
    ASSUME IInv, NEW r \in Rooms, PlatformRename(r)
    PROVE  IInv'
<1>1. Rest'
  BY DEF PlatformRename, IInv, Rest, bootVars
<1> QED BY <1>1, SameTasks, SameIndex, SameRoutes, SameMaps, SameFile DEF IInv, PlatformRename

-----------------------------------------------------------------------------
(* Boot, quiescence, shutdown, crash.                                       *)

LEMMA BeginWalkKeeps ==
    ASSUME IInv, BeginWalk
    PROVE  IInv'
<1>1. \A r \in Rooms : states[r] # None => states[r].id \in Recs
  BY RecordsAre DEF IInv, Indexed
<1>2. Rest'
  BY <1>1 DEF BeginWalk, IInv, Rest
<1> QED BY <1>2, SameTasks, SameIndex, SameRoutes, SameMaps, SameFile DEF IInv, BeginWalk

LEMMA WalkStampsKeeps ==
    ASSUME IInv, NEW r \in Rooms, WalkStamps(r)
    PROVE  IInv'
<1>1. states[r] # None /\ states[r] \in Records
  BY NoneAssumption DEF WalkStamps, IInv, Rest, Indexed, IdOf
<1>2. states' = [states EXCEPT ![r] = [states[r] EXCEPT !.dropped = TRUE]]
  BY DEF WalkStamps
<1>3. Indexed'
  BY <1>1, <1>2, Fields, AlteredKeeps DEF IInv, WalkStamps
<1>4. Rest'
  BY DEF WalkStamps, IInv, Rest
<1> QED BY <1>3, <1>4, SameTasks, SameRoutes, SameMaps, SameFile DEF IInv, WalkStamps

LEMMA WalkWakesKeeps ==
    ASSUME IInv, NEW r \in Rooms, NEW t \in Tasks, WalkWakes(r, t)
    PROVE  IInv'
<1>1. states[r] # None /\ states[r] \in Records
  BY NoneAssumption DEF WalkWakes, IInv, Rest, Indexed, IdOf
<1>2. states[r].id \in Recs
  BY <1>1, RecordsAre
<1>3. Fits([Idle EXCEPT !.op = "boot", !.at = "room", !.room = r, !.pin = states[r].id])
  BY <1>2, RoomRequestFits
<1>4. Places'
  BY <1>3, GoKeeps DEF IInv, WalkWakes
<1>5. Rest'
  BY DEF WalkWakes, IInv, Rest
<1> QED BY <1>4, <1>5, SameIndex, SameRoutes, SameMaps, SameFile DEF IInv, WalkWakes

LEMMA WalkSkipsKeeps ==
    ASSUME IInv, NEW i \in walk, WalkSkips(i)
    PROVE  IInv'
<1>1. Rest'
  BY DEF WalkSkips, IInv, Rest
<1> QED BY <1>1, SameTasks, SameIndex, SameRoutes, SameMaps, SameFile DEF IInv, WalkSkips

LEMMA EndWalkKeeps ==
    ASSUME IInv, EndWalk
    PROVE  IInv'
<1>1. Rest'
  BY DEF EndWalk, IInv, Rest
<1>2. Indexed'
  BY SameIndex DEF IInv, EndWalk
<1>3. File'
  BY <1>2, SaveKeeps, SameFile DEF IInv, EndWalk
<1> QED BY <1>1, <1>2, <1>3, SameTasks, SameRoutes, SameMaps DEF IInv, EndWalk

LEMMA DisarmKeeps ==
    ASSUME IInv, Disarm \/ Rearm
    PROVE  IInv'
<1>1. Rest'
  BY DEF Disarm, Rearm, IInv, Rest, bootVars
<1> QED BY <1>1, SameTasks, SameIndex, SameRoutes, SameMaps, SameFile DEF IInv, Disarm, Rearm

LEMMA QuietKeeps ==
    ASSUME IInv, Quiet
    PROVE  IInv'
<1>1. /\ phase' = "quiet" /\ running' \subseteq running
      /\ task' = [t \in Tasks |-> IF task[t].op \in SweepOps THEN Idle ELSE task[t]]
      /\ UNCHANGED <<label, indexVars, procs, routed, subscribed, bound, locks, bootVars, disk>>
  BY DEF Quiet
<1>2. Places'
  <2>1. \A t \in Tasks : Fits(task[t]) /\ Fits(Idle)
    BY FieldsOf, IdleFits DEF IInv
  <2>2. \A t \in Tasks : Fits(task'[t])
    BY <1>1, <2>1
  <2>3. \A t \in Tasks : task'[t] \in Coroutines
    BY <2>2 DEF Fits
  <2>4. task' = [t \in Tasks |-> task'[t]]
    BY <1>1
  <2>5. task' \in [Tasks -> Coroutines]
    BY <2>3, <2>4
  <2> QED BY <2>2, <2>5 DEF Places, Fits
<1>3. Routes' /\ Rest'
  BY <1>1 DEF IInv, Routes, Rest, bootVars
<1> QED BY <1>1, <1>2, <1>3, SameIndex, SameMaps, SameFile DEF IInv

LEMMA StopAllKeeps ==
    ASSUME IInv, StopAll
    PROVE  IInv'
<1>1. /\ phase' = "stopped" /\ procs' = [r \in Rooms |-> None]
      /\ \E up : routed' = [r \in Rooms |-> IF r \in up /\ routed[r] = procs[r] THEN None
                                            ELSE routed[r]]
      /\ running' \subseteq running /\ subscribed' \subseteq subscribed
      /\ \E S : bound' = [s \in Sessions |-> IF s \in S THEN None ELSE bound[s]]
      /\ UNCHANGED indexVars /\ Save({})
      /\ UNCHANGED <<label, locks, task, bootVars>>
  <2> DEFINE up == {r \in Rooms : procs[r] # None}
             S == {s \in Sessions : \E r \in up : SessionOf(states[r]) = s}
  <2>1. bound' = [s \in Sessions |-> IF s \in S THEN None ELSE bound[s]]
    BY DEF StopAll
  <2>2. routed' = [r \in Rooms |-> IF r \in up /\ routed[r] = procs[r] THEN None ELSE routed[r]]
    BY DEF StopAll
  <2> HIDE DEF up, S
  <2> QED BY <2>1, <2>2 DEF StopAll
<1>2. Routes' /\ Maps' /\ Rest'
  BY <1>1 DEF IInv, Routes, Maps, Rest, bootVars
<1>3. Indexed'
  BY <1>1, SameIndex DEF IInv
<1> QED BY <1>1, <1>2, <1>3, SameTasks, SaveKeeps DEF IInv

LEMMA BootKeeps ==
    ASSUME IInv, EnoughRecs, Boot
    PROVE  IInv'
<1> DEFINE ids == CHOOSE f \in [Rooms -> Recs] : \A r, q \in Rooms : r # q => f[r] # f[q]
           rows(r) == {n \in Names : IF disk[n] = None THEN FALSE ELSE disk[n].room = r}
<1>1. ids \in [Rooms -> Recs]
  BY DEF EnoughRecs
<1>2. PICK pick \in [Rooms -> Names \cup {None}] :
            /\ \A r \in Rooms : IF rows(r) = {} THEN pick[r] = None ELSE pick[r] \in rows(r)
            /\ states' = [r \in Rooms |->
                 IF pick[r] = None THEN None
                 ELSE [id |-> ids[r], name |-> pick[r], session |-> disk[pick[r]].session,
                       paused |-> disk[pick[r]].paused, dropped |-> disk[pick[r]].dropped]]
            /\ aged' = {r \in Rooms : pick[r] # None}
            /\ roomOf' = [n \in Names |->
                 IF \E r \in Rooms : pick[r] = n THEN CHOOSE r \in Rooms : pick[r] = n ELSE None]
  BY DEF Boot
<1>3. /\ procs' = [r \in Rooms |-> None] /\ routed' = [r \in Rooms |-> None]
      /\ running' = {} /\ subscribed' = {}
      /\ bound' = [s \in Sessions |-> None]
      /\ locks' = {} /\ walk' = {}
      /\ task' = [t \in Tasks |-> Idle]
      /\ phase' = "booting"
      /\ UNCHANGED <<label, disk>>
  BY DEF Boot
<1> HIDE DEF ids
<1>4. ASSUME NEW r \in Rooms, pick[r] # None
      PROVE  pick[r] \in Names /\ disk[pick[r]] \in Rows /\ disk[pick[r]].room = r
  BY <1>2, <1>4 DEF IInv, File
<1>5. ASSUME NEW r \in Rooms
      PROVE  /\ pick[r] = None => states'[r] = None
             /\ pick[r] # None => states'[r] \in Records /\ states'[r].name = pick[r]
  <2>1. pick[r] = None => states'[r] = None
    BY <1>2
  <2>2. CASE pick[r] # None
    <3>1. /\ disk[pick[r]].session \in Sessions \cup {None}
          /\ disk[pick[r]].paused \in BOOLEAN /\ disk[pick[r]].dropped \in BOOLEAN
          /\ pick[r] \in Names /\ ids[r] \in Recs
      BY <1>1, <1>4, <2>2 DEF Rows
    <3>2. states'[r] = [id |-> ids[r], name |-> pick[r], session |-> disk[pick[r]].session,
                        paused |-> disk[pick[r]].paused, dropped |-> disk[pick[r]].dropped]
      BY <1>2, <2>2
    <3> DEFINE w == [id |-> ids[r], name |-> pick[r], session |-> disk[pick[r]].session,
                     paused |-> disk[pick[r]].paused, dropped |-> disk[pick[r]].dropped]
    <3>3. w \in Records
      BY <3>1 DEF Records
    <3>4. w.name = pick[r]
      OBVIOUS
    <3> HIDE DEF w
    <3>5. states'[r] = w
      BY <3>2 DEF w
    <3> QED BY <2>2, <3>3, <3>4, <3>5
  <2> QED BY <2>1, <2>2
<1>6. states' \in [Rooms -> Records \cup {None}]
  <2>1. states' = [r \in Rooms |-> states'[r]]
    BY <1>2
  <2>2. \A r \in Rooms : states'[r] \in Records \cup {None}
    BY <1>5
  <2> QED BY <2>1, <2>2
<1>7. ASSUME NEW n \in Names
      PROVE  /\ \A r \in Rooms : pick[r] = n => roomOf'[n] = r
             /\ (\A r \in Rooms : pick[r] # n) => roomOf'[n] = None
  <2>1. \A r, q \in Rooms : pick[r] = n /\ pick[q] = n => r = q
    BY <1>4, NoneAssumption
  <2> QED BY <1>2, <2>1
<1>8. roomOf' \in [Names -> Rooms \cup {None}]
  <2>1. roomOf' = [n \in Names |-> roomOf'[n]]
    BY <1>2
  <2>2. \A n \in Names : roomOf'[n] \in Rooms \cup {None}
    BY <1>7
  <2> QED BY <2>1, <2>2
<1>9. Indexed'
  <2>1. ASSUME NEW n \in Names, NEW q \in Rooms
        PROVE  roomOf'[n] = q <=> IF states'[q] = None THEN FALSE ELSE states'[q].name = n
    BY <1>5, <1>7, NoneAssumption, RecordsAre
  <2> QED BY <1>6, <1>8, <2>1 DEF Indexed, IndexAgrees
<1>10. Places'
  BY <1>3, IdleFits DEF Places, Fits
<1>11. Routes' /\ Maps' /\ Rest'
  BY <1>2, <1>3 DEF IInv, Routes, Maps, Rest
<1> QED BY <1>3, <1>9, <1>10, <1>11, SameFile DEF IInv

-----------------------------------------------------------------------------
(* The invariant, and what follows from it.                                 *)

LEMMA InitIInv == Init => IInv
<1> SUFFICES ASSUME Init PROVE IInv
  OBVIOUS
<1>1. Places
  BY IdleFits DEF Init, Places, Fits
<1>2. Indexed
  BY NoneAssumption DEF Init, Indexed, IndexAgrees
<1> QED BY <1>1, <1>2 DEF Init, IInv, Routes, Maps, Rest, File

LEMMA NextIInv ==
    ASSUME EnoughRecs, IInv, [Next]_vars
    PROVE  IInv'
<1>1. CASE UNCHANGED vars
  BY <1>1, SameTasks, SameIndex, SameRoutes, SameMaps, SameRest, SameFile DEF IInv, vars
<1>2. ASSUME NEW t \in Tasks, NEW r \in Rooms, NEW op \in Ops,
             Offer(t, op, r) \/ Verb(t, op, r) \/ Sweep(t, op, r) \/ Reload(t, op, r)
      PROVE  IInv'
  BY <1>2, OfferKeeps, OnRecordKeeps DEF Verb, Sweep, Reload
<1>3. ASSUME NEW r \in Rooms, PlatformRename(r) \/ Observe(r) \/ WalkStamps(r)
      PROVE  IInv'
  BY <1>3, PlatformRenameKeeps, ObserveKeeps, WalkStampsKeeps
<1>4. CASE BeginWalk \/ EndWalk \/ Disarm \/ Quiet \/ Rearm \/ StopAll \/ Boot
  BY <1>4, BeginWalkKeeps, EndWalkKeeps, DisarmKeeps, QuietKeeps, StopAllKeeps, BootKeeps
<1> QED BY <1>1, <1>2, <1>3, <1>4, CoroutineKeeps, WalkWakesKeeps, WalkSkipsKeeps DEF Next

\* The lifecycle's state is well formed.
THEOREM TypeCorrect ==
    ASSUME EnoughRecs
    PROVE  Spec => []TypeOK
<1>1. IInv /\ [Next]_vars => IInv'
  BY NextIInv
<1> QED BY <1>1, InitIInv, TypesOfParts, PTL DEF Spec

\* A watcher's name leads to the room whose record has it, and to no other:
\* _install, _uninstall, the rollback of a failed start, a reclaim, a rename
\* in the middle of any of them, and a restart from the file keep _states and
\* _room_of in step.
THEOREM IndexesAgree ==
    ASSUME EnoughRecs
    PROVE  Spec => []IndexAgrees
<1>1. IInv /\ [Next]_vars => IInv'
  BY NextIInv
<1>2. IInv => IndexAgrees
  BY DEF IInv, Indexed
<1> QED BY <1>1, <1>2, InitIInv, PTL DEF Spec
=============================================================================
