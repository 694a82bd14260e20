-------------------------- MODULE RCWebSocketClient -------------------------
(***************************************************************************)
(* Who asked the Rocket.Chat server for which delivery                     *)
(* (connectors/rocketchat/websocket.py).  A tracked room is carried by the  *)
(* one stream of all the account's rooms or by a subscription of its own,   *)
(* never by both.  Attempts to subscribe, the boot's switch to the stream,  *)
(* a recovery after a lost socket or a lost stream, and the removal of a    *)
(* room all suspend at every frame they send and overlap as they like.      *)
(*                                                                         *)
(* Ids are handed out in order.  The server takes a frame when it is sent;  *)
(* its answers wait on the wire until the listen loop reads them.           *)
(***************************************************************************)
EXTENDS Naturals, Sequences, FiniteSets, Functions

CONSTANTS
    Rooms,
    MaxId,      \* bound of the model: subscription attempts
    MaxFaults,  \* bound of the model: drops, refusals, revocations, slow answers
    Windows     \* the races a step wide that are explored: "boot", the stream is asked
                \* for while a recovery runs; "child", a room goes between the creation
                \* of its subscription's task and the task's first step

Ids == 1..MaxId
None == 0
Owners == {"boot", "rec"}                  \* of an attempt at the stream
RoomPaths == {"user", "child"}                 \* of an attempt at a room
Attempts == RoomPaths \X Rooms

VARIABLES
    link,       \* the socket: "up", "lost" but not noticed yet, "none", "closed" by stop
    server,     \* the subscriptions alive on it: pairs of an id and a room, or "*"
    wire,       \* the server's answers not read yet
    fut,        \* _pending_subs: the confirmations being waited for
    subs,       \* _subscriptions
    cbs,        \* the keys of _callbacks
    state,      \* _subscription_states: an object, named by who created it
    stream,     \* _stream_sub_id, _wants_stream, _pending_ and _revoked_stream_sub_id
    gen,        \* _recovery_generation
    att,        \* _subscribe_with_confirmation
    all,        \* subscribe_all
    release,    \* unsubscribe_rooms_keeping_callbacks
    rec,        \* the recovery, and the one that waits for it to unwind
    boot,       \* RocketChatConnector.start_inbound
    room,       \* RocketChatConnector's own view of each room
    nid, faults,
    owed,       \* the rooms with an outage whose messages are not replayed yet
    forsaken,   \* the subscriptions given up without cancelling them
    ended       \* the subscriptions the server ended by itself

serverVars == <<link, server, wire>>
roomVars == <<subs, cbs, state>>
vars == <<serverVars, fut, roomVars, stream, gen, att, all, release, rec, boot,
          room, nid, faults, owed, forsaken, ended>>

NoState == [obj |-> None, sub |-> None, status |-> "none"]
NoAttempt == [pc |-> "idle", sid |-> None, old |-> None, obj |-> None]
NoRelease == [todo |-> {}, cur |-> <<>>]
NoRecovery == [pc |-> "idle", try |-> FALSE, cancel |-> FALSE, next |-> {}]

Init ==
    /\ link = "up" /\ server = {} /\ wire = <<>>
    /\ fut = [i \in Ids |-> "none"]
    /\ subs = [r \in Rooms |-> None] /\ cbs = {}
    /\ state = [r \in Rooms |-> NoState]
    /\ stream = [sub |-> None, wants |-> FALSE, pending |-> None, revoked |-> None]
    /\ gen = 0
    /\ att = [a \in Attempts |-> NoAttempt]
    /\ all = [o \in Owners |-> [pc |-> "idle", sid |-> None, gen |-> 0]]
    /\ release = [o \in Owners |-> NoRelease]
    /\ rec = NoRecovery
    /\ boot = "no"
    /\ room = [r \in Rooms |-> "out"]
    /\ nid = 0 /\ faults = 0
    /\ owed = {} /\ forsaken = {} /\ ended = {}

-----------------------------------------------------------------------------
(* Frames.                                                                  *)

Fault == faults < MaxFaults /\ faults' = faults + 1

\* A subscription is asked for; on a dead socket nobody has noticed yet the
\* send raises, and with no socket at all the frame is dropped.
Ask(id, what) ==
    \/ /\ link = "up"
       /\ server' = server \cup {<<id, what>>}
       /\ wire' = Append(wire, <<"ready", id>>)
       /\ UNCHANGED faults
    \/ /\ link = "up" /\ Fault
       /\ wire' = Append(wire, <<"nosub", id>>)
       /\ UNCHANGED server
    \/ /\ link \in {"none", "closed"}
       /\ UNCHANGED <<server, wire, faults>>

Alive(id) == \E s \in server : s[1] = id
Without(id) == {s \in server : s[1] # id}
Answered(id) == \E i \in DOMAIN wire : wire[i][2] = id

\* A confirmation is given up after its timeout: because it will never come,
\* or because the server was slow.
GiveUp(id) ==
    /\ fut[id] = "wait"
    /\ \/ ~Answered(id) /\ UNCHANGED faults
       \/ Answered(id) /\ Fault

-----------------------------------------------------------------------------
(* One subscription of one room.                                            *)

StillOwns(a) ==
    /\ room[a[2]] # "leaving"
    /\ state[a[2]].obj = att[a].obj
    /\ subs[a[2]] = att[a].sid

\* The attempt ends without its room: what it still owns is rolled back.
Failed(a) ==
    LET r == a[2] IN
    LET sid == att[a].sid IN
    LET owns == subs[r] = sid
        drop == owns /\ a[1] = "user"
    IN /\ subs' = IF owns THEN [subs EXCEPT ![r] = None] ELSE subs
       /\ cbs' = IF drop THEN cbs \ {r} ELSE cbs
       /\ state' = CASE drop -> [state EXCEPT ![r] = NoState]
                     [] ~drop /\ state[r].obj # None /\ (state[r].sub = sid \/ a[1] = "child")
                          -> [state EXCEPT ![r].status = "failed",
                                           ![r].sub = IF @ = sid THEN None ELSE @]
                     [] OTHER -> state
       /\ fut' = [fut EXCEPT ![sid] = "none"]
       /\ att' = [att EXCEPT ![a] = NoAttempt]
       /\ room' = IF a[1] = "user" THEN [room EXCEPT ![r] = "dropping"] ELSE room

\* Installs the attempt, in one piece, and sends its frame.
Install(a, sid, obj) ==
    LET r == a[2] IN
    /\ att' = [att EXCEPT ![a] = [pc |-> "confirm", sid |-> sid, old |-> None, obj |-> obj]]
    /\ subs' = [subs EXCEPT ![r] = sid] /\ cbs' = cbs \cup {r}
    /\ state' = [state EXCEPT ![r] = [obj |-> obj, sub |-> sid, status |-> "pending"]]
    /\ IF link = "lost"
       THEN fut' = [fut EXCEPT ![sid] = "err"] /\ UNCHANGED <<server, wire, faults>>
       ELSE fut' = [fut EXCEPT ![sid] = IF @ = "none" THEN "wait" ELSE @] /\ Ask(sid, r)

\* Mutant: the attempt takes its predecessor's place without releasing it.
HasPredecessorMutant(r) == FALSE

HasPredecessor(r) == subs[r] # None

\* The predecessor is released before the attempt is installed, so that the map
\* always names whatever may be alive.
Begin(a) ==
    LET r == a[2] IN
    LET sid == nid + 1 IN
    LET obj == IF state[r].obj = None THEN sid ELSE state[r].obj IN
    /\ nid < MaxId /\ nid' = sid
    /\ IF ~HasPredecessor(r)
       THEN Install(a, sid, obj)
       ELSE /\ att' = [att EXCEPT ![a] = [pc |-> "supersede", sid |-> sid, old |-> subs[r],
                                          obj |-> obj]]
            /\ fut' = [fut EXCEPT ![sid] = "wait"]
            /\ state' = [state EXCEPT ![r].obj = obj]
            /\ server' = Without(subs[r])
            /\ UNCHANGED <<subs, cbs, wire, faults>>
    /\ UNCHANGED <<link, stream, gen, all, release, boot, owed, forsaken, ended>>

StillFirst(a) == state[a[2]].obj = att[a].obj /\ subs[a[2]] = att[a].old

Superseded(a) ==
    /\ att[a].pc = "supersede"
    /\ IF StillFirst(a)
       THEN Install(a, att[a].sid, att[a].obj) /\ UNCHANGED room
       ELSE Failed(a) /\ UNCHANGED <<server, wire, faults>>
    /\ UNCHANGED <<link, stream, gen, all, release, rec, boot, nid, owed, forsaken, ended>>

Confirmed(a) ==
    LET sid == att[a].sid IN
    /\ att[a].pc = "confirm"
    /\ \/ /\ fut[sid] = "ok"
          /\ IF StillOwns(a)
             THEN /\ state' = [state EXCEPT ![a[2]].status = "active"]
                  /\ att' = [att EXCEPT ![a] = NoAttempt]
                  /\ fut' = [fut EXCEPT ![sid] = "none"]
                  /\ room' = IF a[1] = "user" THEN [room EXCEPT ![a[2]] = "in"] ELSE room
                  /\ UNCHANGED <<subs, cbs>>
             ELSE Failed(a)
          /\ UNCHANGED faults
       \/ fut[sid] = "err" /\ Failed(a) /\ UNCHANGED faults
       \/ GiveUp(sid) /\ Failed(a)
    /\ forsaken' = IF Alive(sid) /\ subs'[a[2]] # sid THEN forsaken \cup {sid} ELSE forsaken
    /\ UNCHANGED <<serverVars, stream, gen, all, release, rec, boot, nid, owed, ended>>

\* Mutant: a room gets a subscription of its own whether the stream is there or not.
CarriedMutant(r) == FALSE

Carried(r) == stream.sub # None

\* RocketChatConnector.subscribe_room: a room the stream carries needs no
\* subscription of its own.
SubscribeRoom(r) ==
    /\ link # "closed" /\ room[r] = "out"
    /\ IF Carried(r)
       THEN /\ cbs' = cbs \cup {r} /\ room' = [room EXCEPT ![r] = "in"]
            /\ UNCHANGED <<serverVars, fut, subs, state, stream, gen, att, all, release, boot,
                           nid, faults, owed, forsaken, ended>>
       ELSE Begin(<<"user", r>>) /\ room' = [room EXCEPT ![r] = "joining"]
    /\ UNCHANGED rec

\* unsubscribe_room, called for the last watcher or after a failed subscription:
\* everything local goes at once, the frame goes out when the worker is gone.
Leave(r) ==
    /\ room[r] \in {"in", "dropping"}
    /\ att[<<"child", r>>].pc # "ready" \/ "child" \in Windows
    /\ room' = [room EXCEPT ![r] = "leaving"]
    /\ att' = [att EXCEPT ![<<"user", r>>] = [NoAttempt EXCEPT !.old = subs[r]]]
    /\ subs' = [subs EXCEPT ![r] = None]
    /\ cbs' = cbs \ {r} /\ state' = [state EXCEPT ![r] = NoState]
    /\ owed' = owed \ {r}
    /\ UNCHANGED <<serverVars, fut, stream, gen, all, release, rec, boot, nid, faults, forsaken, ended>>

Left(r) ==
    /\ room[r] = "leaving"
    /\ server' = Without(att[<<"user", r>>].old)
    /\ att' = [att EXCEPT ![<<"user", r>>] = NoAttempt]
    /\ room' = [room EXCEPT ![r] = "out"]
    /\ UNCHANGED <<link, wire, fut, roomVars, stream, gen, all, release, rec, boot, nid, faults,
                   owed, forsaken, ended>>

-----------------------------------------------------------------------------
(* The stream of all rooms.                                                 *)

\* subscribe_all, up to its first await; base is the stream's fields.
AskAll(o, base) ==
    LET sid == nid + 1 IN
    /\ nid < MaxId /\ nid' = sid
    /\ stream' = [base EXCEPT !.wants = TRUE, !.pending = sid]
    /\ all' = [all EXCEPT ![o] = [pc |-> "confirm", sid |-> sid, gen |-> gen]]
    /\ IF link = "lost"
       THEN fut' = [fut EXCEPT ![sid] = "err"] /\ UNCHANGED <<server, wire, faults>>
       ELSE fut' = [fut EXCEPT ![sid] = "wait"] /\ Ask(sid, "*")

\* Mutant: the attempt that ends leaves the id it had published.
ClearedMutant(sid) == [stream EXCEPT !.revoked = IF @ = sid THEN None ELSE @]

\* An attempt takes back what it published, and nothing of a later attempt.
Cleared(sid) ==
    [stream EXCEPT !.pending = IF @ = sid THEN None ELSE @,
                   !.revoked = IF @ = sid THEN None ELSE @]

Overtaken(o) == all[o].gen # gen

\* Mutant: a termination that came in before the confirmation was looked at is
\* not remembered.
TerminatedMutant(o) == FALSE

Terminated(o) == stream.revoked = all[o].sid

AllTaken(o) ==
    /\ all[o].pc = "confirm" /\ fut[all[o].sid] = "ok"
    /\ ~Terminated(o) /\ ~Overtaken(o)
    /\ stream' = [Cleared(all[o].sid) EXCEPT !.sub = all[o].sid] /\ UNCHANGED <<server, faults, forsaken>>

\* Refused, not answered in time, terminated, or overtaken: whatever the server
\* may have opened is cancelled.
AllFailed(o) ==
    LET sid == all[o].sid IN
    /\ all[o].pc = "confirm"
    /\ \/ fut[sid] = "err" /\ server' = Without(sid) /\ UNCHANGED faults
       \/ GiveUp(sid) /\ server' = Without(sid)
       \/ /\ fut[sid] = "ok" /\ UNCHANGED faults
          /\ \/ Terminated(o) /\ UNCHANGED server
             \/ ~Terminated(o) /\ Overtaken(o) /\ server' = Without(sid)
    /\ stream' = Cleared(sid) /\ UNCHANGED forsaken

AllOver(o) ==
    /\ all' = [all EXCEPT ![o] = [pc |-> "idle", sid |-> None, gen |-> 0]]
    /\ fut' = [fut EXCEPT ![all[o].sid] = "none"]

\* unsubscribe_rooms_keeping_callbacks: released on the server first, and only
\* then dropped from the map, unless somebody replaced it in the meantime.
Dropped(o) ==
    LET c == release[o].cur IN
    IF c # <<>> /\ subs[c[1]] = c[2] THEN [subs EXCEPT ![c[1]] = None] ELSE subs

DroppedState(o) ==
    LET c == release[o].cur IN
    IF c # <<>> /\ subs[c[1]] = c[2] /\ state[c[1]].sub = c[2]
    THEN [state EXCEPT ![c[1]].sub = None] ELSE state

Items == {<<r, subs[r]>> : r \in {x \in Rooms : subs[x] # None}}

ReleaseOne(o) ==
    \E t \in release[o].todo :
        /\ release' = [release EXCEPT ![o] = [todo |-> @.todo \ {t}, cur |-> t]]
        /\ server' = Without(t[2])
        /\ subs' = Dropped(o) /\ state' = DroppedState(o)

\* start_inbound asks for the stream once the watchers are restored.
BootAsk ==
    /\ boot = "no" /\ link # "closed" /\ boot' = "ask"
    /\ rec.pc = "idle" \/ "boot" \in Windows
    /\ AskAll("boot", stream)
    /\ UNCHANGED <<link, roomVars, gen, att, release, rec, room, owed, forsaken, ended>>

BootAnswer ==
    /\ boot = "ask"
    /\ \/ AllTaken("boot") /\ boot' = "release"
          /\ release' = [release EXCEPT !["boot"] = [todo |-> Items, cur |-> <<>>]]
       \/ AllFailed("boot") /\ boot' = "done" /\ UNCHANGED release
    /\ AllOver("boot")
    /\ UNCHANGED <<link, wire, roomVars, gen, att, rec, room, nid, owed, ended>>

BootRelease ==
    /\ boot = "release"
    /\ \/ ReleaseOne("boot") /\ UNCHANGED boot
       \/ /\ release["boot"].todo = {} /\ boot' = "done"
          /\ subs' = Dropped("boot") /\ state' = DroppedState("boot")
          /\ release' = [release EXCEPT !["boot"] = NoRelease]
          /\ UNCHANGED server
    /\ UNCHANGED <<link, wire, fut, cbs, stream, gen, att, all, rec, room, nid, faults, owed, forsaken, ended>>

-----------------------------------------------------------------------------
(* Recovery.                                                                *)

\* _start_recovery: the one that is running is told to stop, and the new one
\* waits until it has.
StartRecovery(try) ==
    /\ gen' = gen + 1
    /\ rec' = IF rec.pc = "idle" THEN [NoRecovery EXCEPT !.pc = "start", !.try = try]
              ELSE [rec EXCEPT !.cancel = TRUE, !.next = {try}]

\* _retire_recovery
RetireRecovery ==
    /\ gen' = gen + 1
    /\ rec' = [rec EXCEPT !.cancel = rec.pc # "idle", !.next = {}]

Running(pc) == rec.pc = pc /\ ~rec.cancel
Children == {"child"} \X Rooms

RecStart ==
    /\ Running("start")
    /\ rec' = [rec EXCEPT !.pc = "release"]
    /\ release' = [release EXCEPT !["rec"] = [todo |-> Items, cur |-> <<>>]]
    /\ UNCHANGED <<serverVars, fut, roomVars, stream, gen, att, all, boot, room, nid, faults,
                   owed, forsaken, ended>>

RecRelease ==
    /\ rec.pc \in {"release", "migrate"} /\ ~rec.cancel
    /\ ReleaseOne("rec")
    /\ UNCHANGED <<link, wire, fut, cbs, stream, gen, att, all, rec, boot, room, nid, faults,
                   owed, forsaken, ended>>

\* Every tracked room is between delivery paths; the stream is asked for again,
\* or else each room is subscribed, all at the same time.
Subscribing == [a \in Attempts |-> IF a[1] = "child" /\ a[2] \in cbs
                                   THEN [NoAttempt EXCEPT !.pc = "ready"] ELSE att[a]]

RecReleased ==
    /\ Running("release") /\ release["rec"].todo = {}
    /\ subs' = Dropped("rec")
    /\ state' = [r \in Rooms |->
                   IF r \notin cbs THEN DroppedState("rec")[r]
                   ELSE [obj |-> IF state[r].obj = None THEN MaxId + gen ELSE state[r].obj,
                         sub |-> IF subs'[r] = None THEN None ELSE state[r].sub,
                         status |-> "reconnecting"]]
    /\ release' = [release EXCEPT !["rec"] = NoRelease]
    /\ IF rec.try /\ stream.wants
       THEN AskAll("rec", [stream EXCEPT !.sub = None]) /\ UNCHANGED <<att, forsaken>>
            /\ rec' = [rec EXCEPT !.pc = "ask"]
       ELSE rec' = [rec EXCEPT !.pc = "rooms"] /\ att' = Subscribing
            /\ UNCHANGED <<server, wire, fut, stream, all, nid, faults, forsaken>>
    /\ UNCHANGED <<link, cbs, gen, boot, room, owed, ended>>

RecAnswer ==
    /\ Running("ask")
    /\ \/ AllTaken("rec") /\ rec' = [rec EXCEPT !.pc = "migrate"]
          /\ release' = [release EXCEPT !["rec"] = [todo |-> Items, cur |-> <<>>]]
          /\ UNCHANGED att
       \/ AllFailed("rec") /\ rec' = [rec EXCEPT !.pc = "rooms"] /\ att' = Subscribing
          /\ UNCHANGED release
    /\ AllOver("rec")
    /\ UNCHANGED <<link, wire, roomVars, gen, boot, room, nid, owed, ended>>

RecMigrated ==
    /\ Running("migrate") /\ release["rec"].todo = {}
    /\ subs' = Dropped("rec")
    /\ state' = [r \in Rooms |-> IF state[r].obj = None THEN NoState
                                 ELSE [DroppedState("rec")[r] EXCEPT !.status = "active"]]
    /\ release' = [release EXCEPT !["rec"] = NoRelease]
    /\ rec' = [rec EXCEPT !.pc = "replay"]
    /\ UNCHANGED <<serverVars, fut, cbs, stream, gen, att, all, boot, room, nid, faults, owed, forsaken, ended>>

RecChild(r) ==
    /\ Running("rooms") /\ att[<<"child", r>>].pc = "ready"
    /\ Begin(<<"child", r>>)
    /\ UNCHANGED <<rec, room>>

RecSubscribed ==
    /\ Running("rooms") /\ \A a \in Children : att[a].pc = "idle"
    /\ rec' = [rec EXCEPT !.pc = "replay"]
    /\ UNCHANGED <<serverVars, fut, roomVars, stream, gen, att, all, release, boot, room, nid,
                   faults, owed, forsaken, ended>>

\* The gap is replayed, and the recovery is over.
RecReplayed ==
    /\ Running("replay")
    /\ rec' = NoRecovery /\ owed' = {}
    /\ UNCHANGED <<serverVars, fut, roomVars, stream, gen, att, all, release, boot, room, nid,
                   faults, forsaken, ended>>

\* Mutant: the recovery that displaced another one is not started.
SuccessorMutant == NoRecovery

\* The recovery that waits for this one to unwind.
Successor == IF rec.next = {} THEN NoRecovery
             ELSE [NoRecovery EXCEPT !.pc = "start", !.try = TRUE \in rec.next]

\* A cancelled recovery unwinds, with the subscriptions it was waiting for.
RecUnwind ==
    LET gone == {att[a].sid : a \in Children} \cup {all["rec"].sid} IN
    /\ rec.cancel
    /\ att' = [a \in Attempts |-> IF a \in Children THEN NoAttempt ELSE att[a]]
    /\ all' = [all EXCEPT !["rec"] = [pc |-> "idle", sid |-> None, gen |-> 0]]
    /\ fut' = [i \in Ids |-> IF i \in gone THEN "none" ELSE fut[i]]
    /\ stream' = IF all["rec"].sid = None THEN stream ELSE Cleared(all["rec"].sid)
    /\ release' = [release EXCEPT !["rec"] = NoRelease]
    /\ rec' = Successor
    /\ UNCHANGED <<serverVars, roomVars, gen, boot, room, nid, faults, owed, forsaken, ended>>

-----------------------------------------------------------------------------
(* The listen loop.                                                         *)

Drop ==
    /\ link = "up" /\ Fault
    /\ link' = "lost" /\ server' = {} /\ wire' = <<>>
    /\ owed' = owed \cup cbs
    /\ UNCHANGED <<fut, roomVars, stream, gen, att, all, release, rec, boot, room, nid, forsaken, ended>>

\* The loss retires what is in flight where it is noticed.
Notice ==
    /\ link = "lost" /\ link' = "none" /\ gen' = gen + 1
    /\ UNCHANGED <<server, wire, fut, roomVars, stream, att, all, release, rec, boot, room, nid,
                   faults, owed, forsaken, ended>>

FailPending == fut' = [i \in Ids |-> IF fut[i] = "wait" THEN "err" ELSE fut[i]]

Reconnect ==
    /\ link = "none"
    /\ \/ /\ link' = "up"
          /\ IF cbs # {} \/ stream.wants THEN StartRecovery(TRUE) ELSE RetireRecovery
          /\ UNCHANGED faults
       \/ Fault /\ UNCHANGED <<link, gen, rec>>
    /\ FailPending
    /\ UNCHANGED <<server, wire, roomVars, stream, att, all, release, boot, room, nid, owed, forsaken, ended>>

\* The server ends a subscription it had confirmed.
Revoke ==
    /\ link = "up"
    /\ Fault
    /\ \E s \in server : /\ server' = server \ {s}
                         /\ wire' = Append(wire, <<"nosub", s[1]>>)
                         /\ ended' = ended \cup {s[1]}
    /\ UNCHANGED <<link, fut, roomVars, stream, gen, att, all, release, rec, boot, room, nid,
                   owed, forsaken>>

ReadReady ==
    LET id == Head(wire)[2] IN
    /\ fut' = [fut EXCEPT ![id] = IF @ = "wait" THEN "ok" ELSE @]
    /\ UNCHANGED <<state, stream, gen, rec, owed>>

ReadNosub ==
    LET id == Head(wire)[2] IN
    CASE fut[id] = "wait" ->
           fut' = [fut EXCEPT ![id] = "err"] /\ UNCHANGED <<state, stream, gen, rec, owed>>
      [] fut[id] # "wait" /\ id = stream.sub ->
           /\ stream' = [stream EXCEPT !.sub = None] /\ StartRecovery(FALSE)
           /\ owed' = owed \cup cbs
           /\ UNCHANGED <<fut, state>>
      [] fut[id] # "wait" /\ id # stream.sub /\ id = stream.pending ->
           stream' = [stream EXCEPT !.revoked = id] /\ UNCHANGED <<fut, state, gen, rec, owed>>
      [] OTHER ->
           /\ state' = [r \in Rooms |-> IF state[r].sub = id
                                        THEN [state[r] EXCEPT !.status = "failed"] ELSE state[r]]
           /\ UNCHANGED <<fut, stream, gen, rec, owed>>

Listen ==
    /\ link = "up" /\ wire # <<>> /\ wire' = Tail(wire)
    /\ IF Head(wire)[1] = "ready" THEN ReadReady ELSE ReadNosub
    /\ UNCHANGED <<link, server, subs, cbs, att, all, release, boot, room, nid, faults, forsaken, ended>>

Stop ==
    /\ link # "closed" /\ Fault
    /\ link' = "closed" /\ server' = {} /\ wire' = <<>>
    /\ RetireRecovery
    /\ stream' = [sub |-> None, wants |-> FALSE, pending |-> None, revoked |-> None]
    /\ owed' = {}
    /\ UNCHANGED <<fut, roomVars, att, all, release, boot, room, nid, forsaken, ended>>

RoomNext(r) ==
    \/ SubscribeRoom(r) \/ Leave(r) \/ Left(r) \/ RecChild(r)
    \/ \E k \in RoomPaths : Superseded(<<k, r>>) \/ Confirmed(<<k, r>>)

RecNext ==
    \/ RecStart \/ RecRelease \/ RecReleased \/ RecAnswer \/ RecMigrated \/ RecSubscribed
    \/ RecReplayed \/ RecUnwind

Next ==
    \/ \E r \in Rooms : RoomNext(r)
    \/ BootAsk \/ BootAnswer \/ BootRelease
    \/ RecNext
    \/ Drop \/ Notice \/ Reconnect \/ Revoke \/ Listen \/ Stop

Spec == Init /\ [][Next]_vars

-----------------------------------------------------------------------------
(* Properties.                                                              *)

\* The variables have their types, and the only stream attempt published for the
\* listen loop is one that is being made.
TypeOK ==
    /\ link \in {"up", "lost", "none", "closed"}
    /\ server \subseteq Ids \X (Rooms \cup {"*"})
    /\ fut \in [Ids -> {"none", "wait", "ok", "err"}]
    /\ subs \in [Rooms -> Ids \cup {None}] /\ cbs \subseteq Rooms
    /\ room \in [Rooms -> {"out", "joining", "in", "dropping", "leaving"}]
    /\ boot \in {"no", "ask", "release", "done"}
    /\ stream.pending # None => \E o \in Owners : all[o].sid = stream.pending

\* Nothing is in flight: the socket is up and every coroutine has returned.
AtRest ==
    /\ link = "up" /\ wire = <<>> /\ rec.pc = "idle" /\ boot \in {"no", "done"}
    /\ \A a \in Attempts : att[a] = NoAttempt
    /\ \A r \in Rooms : room[r] \in {"out", "in"}

Streaming == \E s \in server : s[2] = "*"
OwnSubs(r) == {s \in server : s[2] = r}

\* Only an attempt that was given up with its answer outstanding leaves anything
\* untracked: no subscription is lost by replacing it, by migrating to the stream
\* and back, by a recovery that displaces another one or by removing a room.
NoOrphans ==
    AtRest => \A s \in server : s[1] \in {stream.sub} \cup Range(subs) \cup forsaken

\* At rest, no message of a room is sent twice by the server: a room is carried by
\* the stream or by one subscription of its own.
OnePath ==
    AtRest => \A r \in Rooms :
        Cardinality({s \in server : s[2] \in {r, "*"} /\ s[1] \notin forsaken}) <= 1

\* At rest, every tracked room is delivered, unless its subscription has failed and
\* says so or the server has ended it.
Delivered ==
    AtRest => \A r \in cbs : \/ Streaming \/ OwnSubs(r) # {}
                            \/ state[r].status = "failed" \/ subs[r] \in ended

\* The messages of an outage have been asked for when all is at rest, however many
\* recoveries replaced one another on the way, unless the attempts have run out.
GapIsReplayed == AtRest => owed = {} \/ nid = MaxId
=============================================================================
