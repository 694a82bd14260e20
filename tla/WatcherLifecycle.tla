-------------------------- MODULE WatcherLifecycle --------------------------
(***************************************************************************)
(* The watchers of one connector: their records, processors and routes     *)
(* (core/watcher_lifecycle.py), the wakes and joins that create them        *)
(* (core/watcher_manager.py), the dispatcher's claim of a room              *)
(* (core/dispatch.py), the sweep, the boot, quiescence and shutdown         *)
(* (core/lifecycle_sweep.py, core/session_manager.py), and the state file   *)
(* (core/state_store.py).                                                   *)
(*                                                                         *)
(* A record lives under its room's id; operators and locks use its name,    *)
(* the handle that is computed from the room's current platform name and    *)
(* may move while a transition is suspended.  A transition is a coroutine:  *)
(* one of Tasks, with the local variables that outlive its awaits.  A       *)
(* processor is named by the record it was built with.                      *)
(***************************************************************************)
EXTENDS Naturals, FiniteSets

CONSTANTS
    Rooms,
    Names,          \* watcher names (handles)
    Tasks,          \* bound of the model: transitions in flight at once
    Recs,           \* identities of record objects, reused when forgotten
    Sessions,       \* backend session ids, reused when forgotten
    None,
    Ops,            \* the operations that are started in this model
    RenamesAnytime, \* renames are also observed in the middle of a transition
    StartsMayFail,  \* a start may fail once its record is installed
    SaveMayFail     \* the state file may be unwritable when a record is pruned

AllOps == {"wake", "join", "pause", "resume", "reset", "drop", "expire", "leave",
           "release", "restart", "revive", "halt"}

Records == [id : Recs, name : Names, session : Sessions \cup {None},
            paused : BOOLEAN, dropped : BOOLEAN]
Rows == [room : Rooms, session : Sessions \cup {None}, paused : BOOLEAN,
         dropped : BOOLEAN]

ASSUME NoneAssumption == /\ None \notin Rooms \cup Names \cup Recs \cup Sessions
                         /\ None \notin Records /\ None \notin Rows
ASSUME FlagsAssumption == /\ {RenamesAnytime, StartsMayFail, SaveMayFail} \subseteq BOOLEAN
                          /\ Ops \subseteq AllOps

VARIABLES
    label,      \* label[r]: the handle of r's current name on the platform
    states,     \* _states: the installed record of each room
    roomOf,     \* _room_of: the index from names to rooms
    procs,      \* _processors
    routed,     \* MessageDispatcher._room_processor
    running,    \* the processors that have been started and not stopped
    subscribed, \* the rooms the connector delivers messages of
    bound,      \* SessionMaps._bound
    locks,      \* the names that have a lock object in _watcher_locks
    task,       \* the coroutines
    phase,      \* of the connector, from "booting" to "stopped"
    walk,       \* the records the boot evaluation has yet to look at
    aged,       \* the rooms whose record was read from the file by this boot
    disk        \* the state file, by name

indexVars == <<states, roomOf>>
routeVars == <<procs, routed, running, subscribed>>
bootVars == <<walk, aged>>
vars == <<label, indexVars, routeVars, bound, locks, task, phase, bootVars, disk>>

Idle == [op |-> "none", at |-> "free", room |-> None, name |-> None, key |-> None,
         pin |-> None, ws |-> None, prior |-> None, ses |-> None, fresh |-> FALSE]

Detached == "detached"  \* a lock object a rename has pushed out of the index

-----------------------------------------------------------------------------
(* Reading the lifecycle.                                                   *)

Named(n) == IF roomOf[n] = None THEN None ELSE states[roomOf[n]]
IdOf(w) == IF w = None THEN None ELSE w.id
SessionOf(w) == IF w = None THEN None ELSE w.session
Paused(w) == IF w = None THEN FALSE ELSE w.paused
Dropped(w) == IF w = None THEN FALSE ELSE w.dropped
ProcessorNamed(n) == IF roomOf[n] = None THEN None ELSE procs[roomOf[n]]

Busy(t) == task[t].at # "free"
Waiting(t) == task[t].at \in {"room", "lock"}
Holding(t) == Busy(t) /\ ~Waiting(t)

\* Mutant: the idle drop works without the lock.
LockFreeMutant(k) ==
    \A u \in Tasks : ~(Holding(u) /\ task[u].op # "drop" /\ task[u].key = k)

LockFree(k) == \A u \in Tasks : ~(Holding(u) /\ task[u].key = k)
RoomLockFree(r) ==
    \A u \in Tasks : ~(/\ task[u].op \in {"wake", "join"} /\ task[u].room = r
                       /\ task[u].at \notin {"free", "room"})

Disarmed == phase \in {"draining", "quiet", "stopped"}

SweepOps == {"drop", "expire"}

\* A reload is at work; the service's reload lock keeps it apart from a
\* shutdown, and its own steps come one after the other.
Reloading == \E t \in Tasks : Busy(t) /\ task[t].op \in {"halt", "restart", "revive"}

\* Mutant: only the wakes are waited for, not the operators' verbs.
AwaitedMutant(t) == Busy(t) /\ task[t].op \in {"wake", "join"}

\* What drain(), drain_verbs() and the reload lock wait for.
Awaited(t) == Busy(t) /\ task[t].op \notin SweepOps

\* The identifiers some part of the connector still holds.
UsedIds == {IdOf(states[r]) : r \in Rooms} \cup {procs[r] : r \in Rooms}
           \cup {routed[r] : r \in Rooms} \cup running \cup walk
           \cup UNION {{task[t].pin, task[t].ws, IdOf(task[t].prior)} : t \in Tasks}
UsedSessions ==
    {SessionOf(states[r]) : r \in Rooms} \cup {s \in Sessions : bound[s] # None}
    \cup {SessionOf(disk[n]) : n \in Names}
    \cup UNION {{task[t].ses, SessionOf(task[t].prior)} : t \in Tasks}

NewId == CHOOSE i \in Recs : i \notin UsedIds
IdsLeft == Recs \ UsedIds # {}

Go(t, fields) == task' = [task EXCEPT ![t] = fields]
Leave(t) == Go(t, Idle)

-----------------------------------------------------------------------------
(* The index of records, and the file.                                      *)

\* MessageDispatcher.add_processor() of a room nobody else holds, and
\* remove_processor(), which leaves the room to another processor.
Claim(r, i) == routed' = [routed EXCEPT ![r] = i]
Release(r) == routed' = [routed EXCEPT ![r] = IF @ = procs[r] THEN None ELSE @]

\* Mutant: a name is taken from the room that has it.
InstallableMutant(r, n) == TRUE

\* _install(): refused when the name is another room's.
Installable(r, n) == roomOf[n] \in {None, r}
Install(r, w) ==
    /\ states' = [states EXCEPT ![r] = w]
    /\ roomOf' = [n \in Names |->
                    IF n = w.name THEN r
                    ELSE IF states[r] # None /\ states[r].name = n THEN None
                    ELSE roomOf[n]]

\* _uninstall(): by name; a name nobody has any more removes nothing.
Uninstall(n) ==
    /\ states' = IF roomOf[n] = None THEN states ELSE [states EXCEPT ![roomOf[n]] = None]
    /\ roomOf' = [roomOf EXCEPT ![n] = None]

\* Assignments to the record object with identity i, which r may have lost.
Change(r, i, w) == states' = IF IdOf(states[r]) = i THEN [states EXCEPT ![r] = w] ELSE states

\* Mutant: the rows of the file that are to go are kept.
SaveMutant(prune) ==
    disk' = [n \in Names |->
               IF roomOf'[n] # None
               THEN [room |-> roomOf'[n], session |-> states'[roomOf'[n]].session,
                     paused |-> states'[roomOf'[n]].paused,
                     dropped |-> states'[roomOf'[n]].dropped]
               ELSE disk[n]]

\* StateStore.save(): the rows of the file, overlaid by the records in memory,
\* less what is pruned.
Save(prune) ==
    disk' = [n \in Names |->
               IF n \in prune THEN None
               ELSE IF roomOf'[n] # None
               THEN [room |-> roomOf'[n], session |-> states'[roomOf'[n]].session,
                     paused |-> states'[roomOf'[n]].paused,
                     dropped |-> states'[roomOf'[n]].dropped]
               ELSE disk[n]]

-----------------------------------------------------------------------------
Init ==
    /\ label \in {f \in [Rooms -> Names] : \A r, q \in Rooms : r # q => f[r] # f[q]}
    /\ states = [r \in Rooms |-> None]
    /\ roomOf = [n \in Names |-> None]
    /\ procs = [r \in Rooms |-> None]
    /\ routed = [r \in Rooms |-> None]
    /\ running = {} /\ subscribed = {}
    /\ bound = [s \in Sessions |-> None]
    /\ locks = {}
    /\ task = [t \in Tasks |-> Idle]
    /\ phase = "booting" /\ walk = {} /\ aged = {}
    /\ disk = [n \in Names |-> None]

-----------------------------------------------------------------------------
(* What sets a transition off.                                              *)

Request(t, op, r, fields) ==
    /\ op \in Ops /\ ~Busy(t)
    /\ Go(t, [fields EXCEPT !.op = op, !.room = r])
    /\ UNCHANGED <<label, indexVars, routeVars, bound, phase, bootVars, disk>>

\* A message, a due job or a join: get_or_create() or register_on_join(),
\* refused while disarmed, suspended on the room's lock.
Offer(t, op, r) ==
    /\ op \in {"wake", "join"} /\ ~Disarmed
    /\ Request(t, op, r, [Idle EXCEPT !.at = "room"])
    /\ UNCHANGED locks

\* The record is read, then its lock is waited for under the name it has now.
OnRecord(t, op, r) ==
    /\ states[r] # None
    /\ locks' = locks \cup {states[r].name}
    /\ Request(t, op, r, [Idle EXCEPT !.at = "lock", !.name = states[r].name,
                                      !.key = states[r].name, !.pin = states[r].id])

\* pause, resume, reset and expire of an operator, and the bot's removal.
Verb(t, op, r) ==
    /\ op \in {"pause", "resume", "reset", "release", "leave"} /\ ~Disarmed
    /\ op = "reset" => states[r] # None /\ ~states[r].paused
    /\ OnRecord(t, op, r)

\* The sweep: one record after the other, the clocks alone decide.
Sweep(t, op, r) ==
    /\ op \in SweepOps /\ phase = "serving"
    /\ \A u \in Tasks : Busy(u) => task[u].op \notin SweepOps
    /\ states[r] # None /\ ~states[r].paused /\ states[r].dropped = (op = "expire")
    /\ OnRecord(t, op, r)

\* A reload stops the watchers of a changed agent while all is quiet, starts
\* them again once rearmed, and restarts what it has re-materialized.
Reload(t, op, r) ==
    /\ \/ op = "halt" /\ phase = "quiet" /\ procs[r] # None
       \/ op = "restart" /\ phase = "serving" /\ procs[r] # None
       \/ /\ op = "revive" /\ phase = "serving" /\ states[r] # None
          /\ ~states[r].paused /\ ~states[r].dropped
    /\ ~Reloading
    /\ OnRecord(t, op, r)

\* The room's lock is taken: the record, if any, decides what a wake is, and a
\* processor that is there makes it nothing.
EnterRoom(t) ==
    LET r == task[t].room
        w == states[r]
        n == IF w = None THEN label[r] ELSE w.name
        stale == task[t].op = "boot" /\ IdOf(w) # task[t].pin
        over == IF w = None THEN FALSE
                ELSE task[t].op = "join" \/ w.paused \/ ProcessorNamed(w.name) # None
    IN /\ task[t].at = "room" /\ RoomLockFree(r)
       /\ \/ /\ Disarmed \/ stale \/ over \/ w = None    \* no rule claims the room
             /\ Leave(t) /\ UNCHANGED locks
          \/ /\ ~Disarmed /\ ~stale /\ ~over
             /\ Go(t, [task[t] EXCEPT !.at = "lock", !.name = n, !.key = n, !.pin = IdOf(w)])
             /\ locks' = locks \cup {n}
       /\ UNCHANGED <<label, indexVars, routeVars, bound, phase, bootVars, disk>>

-----------------------------------------------------------------------------
(* start_watcher_in_room(), from one await to the next.                     *)

\* The checks before anything is built.
Refused(r, n) == ~Installable(r, n) \/ routed[r] # None

\* A session is known: the record is built and installed, the session bound.
Build(t, r, n, s, isDropped, maps, fields) ==
    IF Installable(r, n)
    THEN /\ Install(r, [id |-> NewId, name |-> n, session |-> s, paused |-> FALSE,
                        dropped |-> isDropped])
         /\ bound' = [maps EXCEPT ![s] = r]
         /\ Go(t, [fields EXCEPT !.at = "injecting", !.name = n, !.ws = NewId,
                                 !.prior = Named(n), !.ses = s])
    ELSE Leave(t) /\ bound' = maps /\ UNCHANGED indexVars

\* A start for record w, or without one: a session it has is taken over at
\* once, else one is created.
Start(t, r, n, w, maps) ==
    LET carried == task[t].op \in {"restart", "revive"} /\ w # None /\ w.dropped
    IN CASE Refused(r, n) -> Leave(t) /\ bound' = maps /\ UNCHANGED indexVars
         [] ~Refused(r, n) /\ IdOf(w) # None /\ w.session # None ->
              /\ IdsLeft
              /\ Build(t, r, n, w.session, carried, maps, [task[t] EXCEPT !.fresh = FALSE])
         [] OTHER ->
              /\ Go(t, [task[t] EXCEPT !.at = "provisioning", !.name = n, !.ws = None,
                                       !.ses = None, !.fresh = TRUE])
              /\ bound' = maps /\ UNCHANGED indexVars

\* create_session() returned a new session.
Provisioned(t) ==
    LET r == task[t].room
        w == states[r]
        carried == task[t].op = "revive" /\ w # None /\ w.dropped
    IN /\ task[t].at = "provisioning" /\ IdsLeft
       /\ \E s \in Sessions \ UsedSessions :
            /\ s = (CHOOSE x \in Sessions : x \notin UsedSessions)
            /\ Build(t, r, task[t].name, s, carried, bound, task[t])
       /\ UNCHANGED <<label, routeVars, locks, phase, bootVars, disk>>

\* It raised: nothing was built.
NotProvisioned(t) ==
    /\ task[t].at = "provisioning"
    /\ Leave(t)
    /\ UNCHANGED <<label, indexVars, routeVars, bound, locks, phase, bootVars, disk>>

\* History, durable context and workspace are in place: the processor is
\* registered under the name.  A name without a room raises, outside of any
\* rollback.
Injected(t) ==
    LET r == roomOf[task[t].name]
    IN /\ task[t].at = "injecting"
       /\ IF r = None THEN Leave(t) /\ UNCHANGED procs
          ELSE /\ procs' = [procs EXCEPT ![r] = task[t].ws]
               /\ Go(t, [task[t] EXCEPT !.at = "subscribing"])
       /\ UNCHANGED <<label, indexVars, routed, running, subscribed, bound,
                      locks, phase, bootVars, disk>>

\* Mutant: a failed start removes the record, also one it has replaced.
RollbackMutant(t) == Uninstall(task[t].name)

\* _rollback_record()
Rollback(t) ==
    IF task[t].prior # None /\ Installable(task[t].room, task[t].prior.name)
    THEN Install(task[t].room, task[t].prior)
    ELSE IF task[t].prior # None THEN UNCHANGED indexVars
    ELSE Uninstall(task[t].name)

\* One of these steps raised: the record it replaced comes back, the new
\* session goes.
NotInjected(t) ==
    /\ StartsMayFail /\ task[t].at = "injecting"
    /\ Rollback(t)
    /\ bound' = [bound EXCEPT ![task[t].ses] = None]
    /\ Leave(t)
    /\ UNCHANGED <<label, routeVars, locks, phase, bootVars, disk>>

\* The room is subscribed: the processor claims it and starts; the caller saves.
Subscribed(t) ==
    LET r == task[t].room
    IN /\ task[t].at = "subscribing"
       /\ subscribed' = subscribed \cup {r}
       /\ Claim(r, task[t].ws)
       /\ running' = running \cup {task[t].ws}
       /\ Leave(t)
       /\ UNCHANGED indexVars /\ Save({})
       /\ UNCHANGED <<label, procs, bound, locks, phase, bootVars>>

\* Mutant: the processor of a start that failed stays registered.
NotSubscribedMutant(t) ==
    LET r == task[t].room
    IN /\ StartsMayFail /\ task[t].at = "subscribing"
       /\ bound' = [bound EXCEPT ![task[t].ses] = None]
       /\ Leave(t)
       /\ UNCHANGED <<label, indexVars, routed, running, subscribed, procs,
                      locks, phase, bootVars, disk>>

\* The subscription was refused: the processor goes, the record stays, without
\* its new session if that could be deleted.
NotSubscribed(t) ==
    LET r == task[t].room
        own == roomOf[task[t].name]
    IN /\ StartsMayFail /\ task[t].at = "subscribing"
       /\ procs' = IF own = None THEN procs ELSE [procs EXCEPT ![own] = None]
       /\ bound' = [bound EXCEPT ![task[t].ses] = None]
       /\ Leave(t)
       /\ \/ /\ task[t].fresh
             /\ states' = IF IdOf(states[r]) = task[t].ws
                          THEN [states EXCEPT ![r].session = None] ELSE states
             /\ UNCHANGED <<roomOf, disk>>
          \/ UNCHANGED <<states, roomOf, disk>>
       /\ UNCHANGED <<label, routed, running, subscribed, locks, phase, bootVars>>

-----------------------------------------------------------------------------
(* _stop_processor(): the processor leaves the indexes at once, then the room *)
(* is unsubscribed and the processor drained.                                *)

Stop(t, n) ==
    LET r == roomOf[n]
    IN /\ procs' = [procs EXCEPT ![r] = None]
       /\ Release(r)
       /\ subscribed' = subscribed \ {r}
       /\ Go(t, [task[t] EXCEPT !.at = "stopping", !.room = r, !.ws = procs[r],
                                !.pin = states[r].id,
                                !.ses = states[r].session])

Drained(t) == running' = running \ {task[t].ws}

\* Mutant: the binding of the session stays.
UnboundMutant(t) == bound

Unbound(t) == IF task[t].ses = None THEN bound ELSE [bound EXCEPT ![task[t].ses] = None]

\* The lock is taken by a transition that begins with a stop, or finds that
\* there is nothing left to do.
EnterStop(t) ==
    LET op == task[t].op
        n == task[t].name
        w == Named(n)
        r == task[t].room
        pinned == op \in {"release", "restart", "halt", "reset"}
        over == \/ w = None
                \/ pinned /\ IdOf(w) # task[t].pin
                \/ op \in {"pause", "reset"} /\ w.paused
                \/ op \in {"restart", "halt"} /\ procs[r] = None
    IN /\ op \in {"pause", "reset", "restart", "halt"}
       /\ task[t].at = "lock" /\ LockFree(task[t].key)
       /\ IF over
          THEN Leave(t) /\ UNCHANGED <<procs, routed, subscribed>>
          ELSE Stop(t, n)
       /\ UNCHANGED <<label, indexVars, running, bound, locks, phase, bootVars, disk>>

PauseEnd(t) ==
    LET r == task[t].room
    IN /\ task[t].op = "pause" /\ task[t].at = "stopping"
       /\ Drained(t) /\ bound' = Unbound(t)
       /\ Change(r, task[t].pin, [states[r] EXCEPT !.paused = TRUE])
       /\ UNCHANGED roomOf
       /\ Save({})
       /\ Leave(t)
       /\ UNCHANGED <<label, procs, routed, subscribed, locks, phase, bootVars>>

\* The old session is forgotten, not deleted, and a start follows.
ResetEnd(t) ==
    LET r == task[t].room
    IN /\ task[t].op = "reset" /\ task[t].at = "stopping"
       /\ Drained(t) /\ bound' = Unbound(t)
       /\ Change(r, task[t].pin, [states[r] EXCEPT !.session = None])
       /\ UNCHANGED roomOf
       /\ IF Refused(r, task[t].name) THEN Leave(t)
          ELSE Go(t, [task[t] EXCEPT !.at = "provisioning", !.ws = None, !.ses = None,
                                     !.fresh = TRUE])
       /\ UNCHANGED <<label, procs, routed, subscribed, locks, phase, bootVars, disk>>

\* A stop that raised leaves the watcher stopped.
RestartEnd(t) ==
    LET r == task[t].room
        mine == IdOf(states[r]) = task[t].pin
        n == IF mine THEN states[r].name ELSE task[t].name
    IN /\ task[t].op = "restart" /\ task[t].at = "stopping"
       /\ Drained(t)
       /\ \/ Leave(t) /\ bound' = Unbound(t) /\ UNCHANGED indexVars
          \/ Start(t, r, n, states[r], Unbound(t))
       /\ UNCHANGED <<label, procs, routed, subscribed, locks, phase, bootVars, disk>>

HaltEnd(t) ==
    /\ task[t].op = "halt" /\ task[t].at = "stopping"
    /\ Drained(t) /\ bound' = Unbound(t)
    /\ UNCHANGED indexVars /\ Save({})
    /\ Leave(t)
    /\ UNCHANGED <<label, procs, routed, subscribed, locks, phase, bootVars>>

-----------------------------------------------------------------------------
(* The transitions that begin with a start.                                 *)

\* Mutant: the pause is not looked for again.
WakeIsOverMutant(t) ==
    /\ task[t].pin # None
    /\ Disarmed \/ IdOf(states[task[t].room]) # task[t].pin

\* A wake reads again what it has read before it waited for the lock.
WakeIsOver(t) ==
    /\ task[t].pin # None
    /\ \/ Disarmed
       \/ IdOf(states[task[t].room]) # task[t].pin
       \/ Paused(states[task[t].room])

EnterWake(t) ==
    LET r == task[t].room
    IN /\ task[t].op \in {"wake", "boot"} /\ task[t].at = "lock" /\ LockFree(task[t].key)
       /\ IF WakeIsOver(t)
          THEN Leave(t) /\ bound' = bound /\ UNCHANGED indexVars
          ELSE Start(t, r, task[t].name,
                     IF task[t].pin = None THEN None ELSE states[r], bound)
       /\ UNCHANGED <<label, routeVars, locks, phase, bootVars, disk>>

\* A join makes a record that is idle from its first moment on.
EnterJoin(t) ==
    LET r == task[t].room
        n == task[t].name
        free == ~Disarmed /\ Installable(r, n)
    IN /\ task[t].op = "join" /\ task[t].at = "lock" /\ LockFree(task[t].key) /\ IdsLeft
       /\ IF free THEN /\ Install(r, [id |-> NewId, name |-> n, session |-> None,
                                      paused |-> FALSE, dropped |-> TRUE])
                       /\ Save({})
                  ELSE UNCHANGED <<indexVars, disk>>
       /\ Leave(t)
       /\ UNCHANGED <<label, routeVars, bound, locks, phase, bootVars>>

\* A resume of a resident watcher only clears the flag.
EnterResume(t) ==
    LET n == task[t].name
        w == Named(n)
        r == task[t].room
        over == w = None \/ IdOf(w) # task[t].pin
    IN /\ task[t].op = "resume" /\ task[t].at = "lock" /\ LockFree(task[t].key)
       /\ \/ /\ over
             /\ Leave(t) /\ UNCHANGED <<indexVars, bound, disk>>
          \/ /\ ~over /\ ProcessorNamed(n) # None
             /\ states' = [states EXCEPT ![roomOf[n]].paused = FALSE]
             /\ UNCHANGED <<roomOf, bound>>
             /\ Save({}) /\ Leave(t)
          \/ /\ ~over /\ ProcessorNamed(n) = None
             /\ Start(t, r, n, w, bound) /\ UNCHANGED disk
       /\ UNCHANGED <<label, routeVars, locks, phase, bootVars>>

EnterRevive(t) ==
    LET r == task[t].room
        w == states[r]
    IN /\ task[t].op = "revive" /\ task[t].at = "lock" /\ LockFree(task[t].key)
       /\ IF w = None \/ procs[r] # None
          THEN Leave(t) /\ bound' = bound /\ UNCHANGED indexVars
          ELSE Start(t, r, w.name, w, bound)
       /\ UNCHANGED <<label, routeVars, locks, phase, bootVars, disk>>

-----------------------------------------------------------------------------
(* Idle and gone.                                                           *)

\* drop_idle(): the session and the subscription stay, the processor goes.
EnterDrop(t) ==
    LET w == Named(task[t].name)
        r == roomOf[task[t].name]
        may == w # None /\ ~Paused(w) /\ ~Dropped(w) /\ ProcessorNamed(task[t].name) # None
    IN /\ task[t].op = "drop" /\ task[t].at = "lock" /\ LockFree(task[t].key)
       /\ \/ Leave(t) /\ UNCHANGED <<procs, routed>>   \* in use, or not idle for long enough
          \/ /\ may
             /\ procs' = [procs EXCEPT ![r] = None]
             /\ Release(r)
             /\ Go(t, [task[t] EXCEPT !.at = "dropping", !.room = r, !.ws = procs[r],
                                      !.pin = w.id, !.ses = w.session])
       /\ UNCHANGED <<label, indexVars, running, subscribed, bound, locks, phase,
                      bootVars, disk>>

DropEnd(t) ==
    LET r == task[t].room
    IN /\ task[t].at = "dropping"
       /\ Drained(t) /\ bound' = Unbound(t)
       /\ Change(r, task[t].pin, [states[r] EXCEPT !.dropped = TRUE])
       /\ UNCHANGED roomOf
       /\ Save({})
       /\ Leave(t)
       /\ UNCHANGED <<label, procs, routed, subscribed, locks, phase, bootVars>>

\* The conditions expire_idle() reads again under the lock.
Expirable(w, n) == w # None /\ ~Paused(w) /\ Dropped(w) /\ ProcessorNamed(n) = None

\* _reclaim_record_locked() begins: the room is unsubscribed.
EnterExpire(t) ==
    LET w == Named(task[t].name)
        r == roomOf[task[t].name]
    IN /\ task[t].op = "expire" /\ task[t].at = "lock" /\ LockFree(task[t].key)
       /\ \/ Leave(t) /\ UNCHANGED subscribed
          \/ /\ Expirable(w, task[t].name)
             /\ subscribed' = subscribed \ {r}
             /\ Go(t, [task[t] EXCEPT !.at = "reclaiming", !.room = r, !.pin = w.id,
                                      !.ses = w.session])
       /\ UNCHANGED <<label, indexVars, procs, routed, running, bound, locks, phase,
                      bootVars, disk>>

\* reclaim_room(): the room's record as it is now, unless the caller wants
\* one record and no other.
EnterReclaim(t) ==
    LET r == task[t].room
        w == states[r]
        mine == IdOf(w) = task[t].pin
    IN /\ task[t].op \in {"leave", "release"} /\ task[t].at = "lock"
       /\ LockFree(task[t].key)
       /\ \/ /\ ~mine /\ (w = None \/ task[t].op = "release")
             /\ Leave(t) /\ UNCHANGED <<procs, routed, subscribed, locks>>
          \/ /\ ~mine /\ w # None /\ task[t].op = "leave"       \* read it again
             /\ Go(t, [task[t] EXCEPT !.name = w.name, !.key = w.name, !.pin = w.id])
             /\ locks' = locks \cup {w.name}
             /\ UNCHANGED <<procs, routed, subscribed>>
          \/ /\ mine /\ procs[r] # None
             /\ Stop(t, w.name) /\ UNCHANGED locks
          \/ /\ mine /\ procs[r] = None
             /\ subscribed' = subscribed \ {r}
             /\ Go(t, [task[t] EXCEPT !.at = "reclaiming", !.ses = w.session])
             /\ UNCHANGED <<procs, routed, locks>>
       /\ UNCHANGED <<label, indexVars, running, bound, phase, bootVars, disk>>

ReclaimStopped(t) ==
    /\ task[t].op \in {"leave", "release"} /\ task[t].at = "stopping"
    /\ Drained(t) /\ bound' = Unbound(t)
    /\ Go(t, [task[t] EXCEPT !.at = "reclaiming", !.ws = None])
    /\ UNCHANGED <<label, indexVars, procs, routed, subscribed, locks, phase, bootVars,
                   disk>>

\* The name of the record being reclaimed, which may have moved meanwhile.
CurrentName(t) ==
    IF IdOf(states[task[t].room]) = task[t].pin THEN states[task[t].room].name
    ELSE task[t].name

\* Its session is deleted, its record and its rows removed.  If the file
\* cannot be written, the record returns, as an idle one.
Reclaimed(t) ==
    LET r == task[t].room
        w == states[r]
        n == CurrentName(t)
    IN /\ task[t].at = "reclaiming"
       /\ bound' = Unbound(t)
       /\ \/ Uninstall(n) /\ Save({task[t].name, n})
          \/ /\ SaveMayFail /\ roomOf[n] = r /\ IdOf(w) = task[t].pin
             /\ states' = [states EXCEPT ![r].dropped = TRUE]
             /\ UNCHANGED <<roomOf, disk>>
       /\ Leave(t)
       /\ UNCHANGED <<label, routeVars, locks, phase, walk>>
       /\ aged' = IF states'[r] = None THEN aged \ {r} ELSE aged

-----------------------------------------------------------------------------
(* Names.                                                                   *)

\* A room is renamed on the platform, to a name no other room has there.
PlatformRename(r) ==
    /\ \E n \in Names \ {label[q] : q \in Rooms} : label' = [label EXCEPT ![r] = n]
    /\ UNCHANGED <<indexVars, routeVars, bound, locks, task, phase, bootVars, disk>>

\* observe_room_name(): a message shows it; the record, the index and the lock
\* object move, unless another room's record holds the name.
Observe(r) ==
    LET old == states[r].name
        new == label[r]
    IN /\ states[r] # None /\ phase # "stopped"
       /\ old # new /\ Installable(r, new)
       /\ RenamesAnytime \/ \A t \in Tasks : Busy(t) => task[t].room # r
       /\ states' = [states EXCEPT ![r].name = new]
       /\ roomOf' = [roomOf EXCEPT ![old] = None, ![new] = r]
       /\ IF old \in locks
          THEN /\ locks' = (locks \ {old}) \cup {new}
               /\ task' = [t \in Tasks |->
                             CASE task[t].key = old -> [task[t] EXCEPT !.key = new]
                               [] task[t].key = new -> [task[t] EXCEPT !.key = Detached]
                               [] OTHER -> task[t]]
          ELSE UNCHANGED <<locks, task>>
       /\ Save({old})
       /\ UNCHANGED <<label, routeVars, bound, phase, bootVars>>

-----------------------------------------------------------------------------
(* Boot, quiescence, shutdown, crash.                                       *)

\* The boot evaluation takes its snapshot of the records that were active.
BeginWalk ==
    /\ phase = "booting" /\ phase' = "walking"
    /\ walk' = {states[r].id : r \in {q \in Rooms :
                                       states[q] # None /\ ~states[q].paused
                                       /\ ~states[q].dropped}}
    /\ UNCHANGED <<label, indexVars, routeVars, bound, locks, task, aged,
                   disk>>

\* It is "stamped" once it has marked a record, which it then has to save.
Walking == phase \in {"walking", "stamped"}
BootWakeInFlight == \E t \in Tasks : task[t].op = "boot"

\* Past its idle time, by the clock it had in the file, and without a
\* processor: marked idle on the spot.
WalkStamps(r) ==
    /\ Walking /\ ~BootWakeInFlight /\ phase' = "stamped"
    /\ IdOf(states[r]) \in walk /\ procs[r] = None /\ r \in aged
    /\ walk' = walk \ {states[r].id}
    /\ states' = [states EXCEPT ![r].dropped = TRUE]
    /\ UNCHANGED <<label, roomOf, routeVars, bound, locks, task, aged,
                   disk>>

\* Else it is recreated, this very record or none.
WalkWakes(r, t) ==
    /\ Walking /\ ~BootWakeInFlight /\ ~Busy(t)
    /\ IdOf(states[r]) \in walk /\ procs[r] = None
    /\ walk' = walk \ {states[r].id}
    /\ Go(t, [Idle EXCEPT !.op = "boot", !.at = "room", !.room = r, !.pin = states[r].id])
    /\ UNCHANGED <<label, indexVars, routeVars, bound, locks, phase, aged,
                   disk>>

\* Resident or replaced: skipped.
WalkSkips(i) ==
    /\ Walking /\ ~BootWakeInFlight /\ i \in walk
    /\ \A r \in Rooms : IdOf(states[r]) = i => procs[r] # None
    /\ walk' = walk \ {i}
    /\ UNCHANGED <<label, indexVars, routeVars, bound, locks, task, phase, aged,
                   disk>>

\* What was stamped is saved; the sweep starts.
EndWalk ==
    /\ Walking /\ walk = {} /\ ~BootWakeInFlight
    /\ phase' = "serving"
    /\ UNCHANGED indexVars
    /\ IF phase = "stamped" THEN Save({}) ELSE UNCHANGED disk
    /\ aged' = {} /\ UNCHANGED walk
    /\ UNCHANGED <<label, routeVars, bound, locks, task>>

\* disarm(): a shutdown or a reload begins.
Disarm ==
    /\ phase = "serving" /\ phase' = "draining" /\ ~Reloading
    /\ UNCHANGED <<label, indexVars, routeVars, bound, locks, task, bootVars, disk>>

\* Every episode and verb is over; the sweep is cancelled wherever it is.
Quiet ==
    LET cut(at) == {t \in Tasks : Busy(t) /\ task[t].op \in SweepOps /\ task[t].at = at}
    IN /\ phase = "draining" /\ \A t \in Tasks : ~Awaited(t)
       /\ phase' = "quiet"
       /\ running' = running \ {task[t].ws : t \in cut("dropping")}
       /\ task' = [t \in Tasks |-> IF task[t].op \in SweepOps THEN Idle ELSE task[t]]
       /\ UNCHANGED <<label, indexVars, procs, routed, subscribed, bound, locks, bootVars, disk>>

Rearm ==
    /\ phase = "quiet" /\ ~Reloading
    /\ phase' = "serving"
    /\ UNCHANGED <<label, indexVars, routeVars, bound, locks, task, bootVars, disk>>

\* stop_all() and the final save.
StopAll ==
    LET up == {r \in Rooms : procs[r] # None}
    IN /\ phase = "quiet" /\ ~Reloading
       /\ phase' = "stopped"
       /\ procs' = [r \in Rooms |-> None]
       /\ routed' = [r \in Rooms |-> IF r \in up /\ routed[r] = procs[r] THEN None ELSE routed[r]]
       /\ running' = running \ {procs[r] : r \in up}
       /\ subscribed' = subscribed \ up
       /\ bound' = [s \in Sessions |->
                      IF \E r \in up : SessionOf(states[r]) = s
                      THEN None ELSE bound[s]]
       /\ UNCHANGED indexVars /\ Save({})
       /\ UNCHANGED <<label, locks, task, bootVars>>

\* The process dies, or is started again after a shutdown: the file is all
\* that is left.  Of two rows for one room the first that is read wins.
Boot ==
    LET rows(r) == {n \in Names : IF disk[n] = None THEN FALSE ELSE disk[n].room = r}
        ids == CHOOSE f \in [Rooms -> Recs] : \A r, q \in Rooms : r # q => f[r] # f[q]
    IN /\ \E pick \in [Rooms -> Names \cup {None}] :
            /\ \A r \in Rooms : IF rows(r) = {} THEN pick[r] = None ELSE pick[r] \in rows(r)
            /\ states' = [r \in Rooms |->
                 IF pick[r] = None THEN None
                 ELSE [id |-> ids[r], name |-> pick[r], session |-> disk[pick[r]].session,
                       paused |-> disk[pick[r]].paused, dropped |-> disk[pick[r]].dropped]]
            /\ aged' = {r \in Rooms : pick[r] # None}
            /\ roomOf' = [n \in Names |->
                 IF \E r \in Rooms : pick[r] = n THEN CHOOSE r \in Rooms : pick[r] = n ELSE None]
       /\ procs' = [r \in Rooms |-> None] /\ routed' = [r \in Rooms |-> None]
       /\ running' = {} /\ subscribed' = {}
       /\ bound' = [s \in Sessions |-> None]
       /\ locks' = {} /\ walk' = {}
       /\ task' = [t \in Tasks |-> Idle]
       /\ phase' = "booting"
       /\ UNCHANGED <<label, disk>>

-----------------------------------------------------------------------------
Step(t) ==
    \/ EnterRoom(t)
    \/ EnterStop(t) \/ PauseEnd(t) \/ ResetEnd(t) \/ RestartEnd(t) \/ HaltEnd(t)
    \/ EnterWake(t) \/ EnterJoin(t) \/ EnterResume(t) \/ EnterRevive(t)
    \/ Provisioned(t) \/ NotProvisioned(t) \/ Injected(t) \/ NotInjected(t)
    \/ Subscribed(t) \/ NotSubscribed(t)
    \/ EnterDrop(t) \/ DropEnd(t) \/ EnterExpire(t) \/ EnterReclaim(t)
    \/ ReclaimStopped(t) \/ Reclaimed(t)

Next ==
    \/ \E t \in Tasks, r \in Rooms, op \in Ops :
          Offer(t, op, r) \/ Verb(t, op, r) \/ Sweep(t, op, r) \/ Reload(t, op, r)
    \/ \E t \in Tasks : Step(t)
    \/ \E r \in Rooms : PlatformRename(r) \/ Observe(r) \/ WalkStamps(r)
    \/ \E r \in Rooms, t \in Tasks : WalkWakes(r, t)
    \/ \E i \in walk : WalkSkips(i)
    \/ BeginWalk \/ EndWalk \/ Disarm \/ Quiet \/ Rearm \/ StopAll \/ Boot

\* What a coroutine waits for comes: calls to the platform and the agent end
\* by themselves or by their timeouts, and a processor's drain is bounded.
Fairness == (\A t \in Tasks : WF_vars(Step(t))) /\ WF_vars(Quiet)

Spec == Init /\ [][Next]_vars
FairSpec == Spec /\ Fairness

-----------------------------------------------------------------------------
(* Properties.                                                              *)

TypeOK ==
    /\ label \in [Rooms -> Names]
    /\ states \in [Rooms -> Records \cup {None}]
    /\ roomOf \in [Names -> Rooms \cup {None}]
    /\ procs \in [Rooms -> Recs \cup {None}] /\ routed \in [Rooms -> Recs \cup {None}]
    /\ running \subseteq Recs /\ subscribed \subseteq Rooms
    /\ bound \in [Sessions -> Rooms \cup {None}]
    /\ locks \subseteq Names
    /\ task \in [Tasks ->
         [op : AllOps \cup {"none", "boot"},
          at : {"free", "room", "lock", "stopping", "provisioning", "injecting",
                "subscribing", "dropping", "reclaiming"},
          room : Rooms \cup {None}, name : Names \cup {None},
          key : Names \cup {None, Detached}, pin : Recs \cup {None},
          ws : Recs \cup {None}, prior : Records \cup {None},
          ses : Sessions \cup {None}, fresh : BOOLEAN]]
    /\ phase \in {"booting", "walking", "stamped", "serving", "draining", "quiet", "stopped"}
    /\ walk \subseteq Recs /\ aged \subseteq Rooms
    /\ disk \in [Names -> Rows \cup {None}]

\* The two indexes agree: a name leads to a room exactly when that room's
\* record has it, whatever was installed, renamed, rolled back or reclaimed.
IndexAgrees ==
    \A n \in Names, r \in Rooms :
        roomOf[n] = r <=> IF states[r] = None THEN FALSE ELSE states[r].name = n

Settled(r) == \A t \in Tasks : Holding(t) => task[t].room # r

\* Two transitions are never both inside the same watcher: what pause, reset,
\* a wake, the sweep or a reclaim does between its awaits, it does alone.
OneTransition ==
    \A t, u \in Tasks : t # u /\ Holding(t) /\ Holding(u) => task[t].room # task[u].room

\* Between transitions a room is served entirely or not at all: a registered
\* processor is that of the installed record, which is not paused; the
\* dispatcher leads to it, it runs, its room is subscribed and its session
\* bound to the room.
ServedWhole ==
    \A r \in Rooms : Settled(r) /\ procs[r] # None =>
        /\ IdOf(states[r]) = procs[r] /\ ~states[r].paused
        /\ routed[r] = procs[r] /\ procs[r] \in running /\ r \in subscribed
        /\ states[r].session # None /\ bound[states[r].session] = r

\* Nothing runs, is routed to or is bound that no index leads to any more.
NoStrays ==
    /\ running \subseteq {procs[r] : r \in Rooms} \cup {task[t].ws : t \in Tasks}
    /\ \A r \in Rooms : routed[r] # None => routed[r] = procs[r]
    /\ \A s \in Sessions : bound[s] # None /\ Settled(bound[s]) =>
            SessionOf(states[bound[s]]) = s

\* Every part of a watcher that is up is there, and no part of any other.
AllOrNothing == ServedWhole /\ NoStrays

\* A room never has two rows in the file, nor a row that outlives its record:
\* a restart brings back exactly the watchers there were.
FileIsHonest ==
    \A n \in Names : disk[n] # None /\ Settled(disk[n].room) =>
        roomOf[n] = disk[n].room

\* After the final save nothing is up, and the file holds what memory holds.
StoppedForGood ==
    phase = "stopped" =>
        /\ \A r \in Rooms : procs[r] = None /\ routed[r] = None
        /\ running = {} /\ \A t \in Tasks : ~Busy(t)
        /\ \A r \in Rooms : states[r] # None =>
               disk[states[r].name] = [room |-> r, session |-> states[r].session,
                                       paused |-> states[r].paused,
                                       dropped |-> states[r].dropped]

\* A record leaves memory by a reclaim only: no start that fails takes it away.
\* (A restart of the process reads the file instead.)
OnlyReclaimForgets ==
    [][\A r \in Rooms : states[r] # None /\ states'[r] = None =>
          \/ phase' = "booting"
          \/ \E t \in Tasks : task[t].at = "reclaiming" /\ task[t].room = r
          \/ \E t \in Tasks : task[t].at = "injecting" /\ task[t].room = r
                              /\ task[t].pin = None]_vars

\* A pause holds until an operator resumes: no wake, sweep, reload or boot
\* makes the record of a paused room an unpaused one.
PauseHolds ==
    [][\A r \in Rooms :
         Paused(states[r]) /\ states'[r] # None /\ ~Paused(states'[r]) =>
            \/ phase' = "booting"
            \/ \E t \in Tasks : task[t].op = "resume" /\ task[t].room = r]_vars

\* Once disarmed, the transitions in flight come to an end.
DrainEnds == phase = "draining" ~> phase # "draining"

-----------------------------------------------------------------------------
(* What the comments say and the code does not do.                          *)

\* A running watcher is not marked idle.
RunningIsNotIdle ==
    \A r \in Rooms : procs[r] # None /\ Settled(r) =>
        ~Dropped(states[r])
=============================================================================
