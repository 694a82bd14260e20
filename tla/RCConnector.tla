----------------------------- MODULE RCConnector ----------------------------
(***************************************************************************)
(* One room of a Rocket.Chat connector (connectors/rocketchat/connector.py, *)
(* core/replay_window.py, core/pending_route.py): what becomes of every     *)
(* message that is posted while frames are dropped, queues are full, the    *)
(* room is put to sleep, woken or paused, and the account is removed.       *)
(*                                                                         *)
(* A message is its timestamp.  The room's subscription holds a watermark,  *)
(* a window that is still owed a replay, and the ids seen; a message is     *)
(* dispatched by one of three carriers, the room's live worker, the replay  *)
(* after a reconnect and the replay of a wake, and each of them suspends    *)
(* while it normalises the message and while the handler has it.            *)
(***************************************************************************)
EXTENDS ReplayWindow, FiniteSets

CONSTANTS
    N,          \* bound of the model: messages posted
    QueueDepth, \* websocket.py _ROOM_QUEUE_DEPTH
    Pending,    \* _PENDING_BUFFER_DEPTH
    Page,       \* _REPLAY_HISTORY_COUNT
    MaxFaults,  \* bound of the model: everything that goes wrong or is asked for
    MaxSubs,    \* bound of the model: subscriptions of the room, one after the other
    Windows     \* what is explored besides: "full", a replayed message finds all the
                \* queues full and no window is open that reaches it; "cut", the room
                \* is paused or the process dies while a message older than the mark is
                \* under way; "hook", the room is woken or worked between the notice of
                \* a removal and its hook; "detached", a replay outlives the
                \* subscription it began with and finds another

Msgs == 2..N + 1
Replays == {"rec", "wake"}
Carriers == {"live"} \cup Replays

VARIABLES
    posted,     \* the latest message of the room
    member,     \* whether the account is in the room
    link,       \* whether the stream delivers: "up", "lost", or "new" after a start
    event,      \* a removal the server announces and nobody has read
    queue,      \* the room worker's queue: messages, and whether they came to a participant
    sub,        \* _rooms[room_id], the object named by when it was created
    used,       \* the subscriptions there have been
    epochs,     \* membership_epoch of each subscription there has been
    mgen,       \* _room_membership_gen
    hook,       \* a task that tells the membership hook of a removal
    disp,       \* _on_raw_ddp_message, for each carrier
    rep,        \* replay_room_since
    wakes,      \* offers to _route_room that have not run: messages, and whether the
                \* websocket's routing queue holds them
    route,      \* _pending_routes: the episode of the room
    served,     \* the room has a processor
    record,     \* last_processed_ts of the watcher's record
    booting,    \* the missed window of the last run has not been evaluated
    faults,
    handled,    \* pairs of a message the handler took and the subscription it came by
    twice,      \* some subscription had the handler take a message twice
    excused,    \* messages given up, with a notice to the room or in the log
    absent,     \* messages posted while the account was not in the room
    left,       \* the latest message when a removal was last noted
    barred      \* the same, as far as this run of the process knows

serverVars == <<posted, member, link, event>>
subVars == <<sub, used, epochs, mgen, hook>>
routeVars == <<wakes, route>>
serveVars == <<served, record, booting>>
ghosts == <<handled, twice, excused, absent, left, barred>>
vars == <<serverVars, queue, subVars, disp, rep, routeVars, serveVars, faults, ghosts>>

NoSub == [id |-> None, last |-> None, bnd |-> None, claims |-> 0, seen |-> {}, promised |-> {}]
NoDisp == [pc |-> "idle", m |-> None, sid |-> None, epoch |-> 0, mgen |-> 0, ok |-> TRUE]
NoRep == [pc |-> "idle", wm |-> None, claims |-> 0, sid |-> None, epoch |-> 0, todo |-> {}, ok |-> TRUE]
NoRoute == [on |-> FALSE, frames |-> <<>>, ok |-> FALSE]

Init ==
    /\ posted = 1 /\ member = TRUE /\ link = "up" /\ event = FALSE
    /\ queue = <<>>
    /\ sub = [NoSub EXCEPT !.id = 1, !.last = 1]
    /\ used = [i \in 1..MaxSubs |-> i = 1]
    /\ epochs = [i \in 1..MaxSubs |-> 0] /\ mgen = 0 /\ hook = FALSE
    /\ disp = [c \in Carriers |-> NoDisp] /\ rep = [c \in Replays |-> NoRep]
    /\ wakes = <<>> /\ route = NoRoute
    /\ served = TRUE /\ record = 1 /\ booting = FALSE
    /\ faults = 0
    /\ handled = {} /\ twice = FALSE /\ excused = {} /\ absent = {} /\ left = None /\ barred = None

Fault == faults < MaxFaults /\ faults' = faults + 1

-----------------------------------------------------------------------------
(* The subscription.                                                        *)

\* Mutant: a message is handed on and its id is not kept.
RememberMutant(s, m) == s

Remember(s, m) == [s EXCEPT !.seen = @ \cup {m}]
Forget(s, m) == [s EXCEPT !.seen = @ \ {m}]

\* Where the next replay of the room begins.
Reach == IF sub.id = None THEN record ELSE IF sub.bnd # None THEN sub.bnd ELSE sub.last

\* left_the_room: the window is closed, the watermark gone, and whatever is in
\* flight can tell; the membership hook is told by a task.
Depart(s) ==
    /\ sub' = IF s.id = None THEN s
              ELSE [Discard(s) EXCEPT !.last = None]
    /\ epochs' = IF s.id = None THEN epochs ELSE [epochs EXCEPT ![s.id] = @ + 1]
    /\ mgen' = mgen + 1
    /\ hook' = TRUE
    /\ left' = posted /\ barred' = posted
    /\ UNCHANGED used

\* What a coroutine that suspended with subscription i at epoch e finds.
SameStay(i, e) == epochs[i] = e

-----------------------------------------------------------------------------
(* Dispatching one message.                                                 *)

Done(c, ok) == disp' = [disp EXCEPT ![c] = [NoDisp EXCEPT !.ok = ok \/ c = "live"]]
Keep == UNCHANGED <<used, epochs, mgen, hook, left, barred>>

\* Nobody to give it to, or seen before.
Ignore(c, m) ==
    /\ sub.id = None \/ m \in sub.seen
    /\ sub' = [sub EXCEPT !.promised = @ \ {m}]
    /\ Done(c, TRUE) /\ Keep /\ UNCHANGED <<wakes, excused, faults>>

\* A frame the server marks as not for a participant.
NotParticipant(c, m) ==
    /\ Depart(Remember(sub, m))
    /\ Done(c, TRUE) /\ UNCHANGED <<wakes, excused, faults>>

\* Below the mark the carrier filters by: processed already, unless an episode
\* has promised the message, whose window is then claimed.
Stale(c, m) ==
    /\ sub' = IF m \notin sub.promised THEN sub
              ELSE Claim(Forget([sub EXCEPT !.promised = @ \ {m}], m), {sub.last, JustBefore(m)})
    /\ Done(c, TRUE) /\ Keep /\ UNCHANGED <<wakes, excused, faults>>

\* No processor: the room is offered to the router, and the message is owed.
Wake(c, m) ==
    /\ ~served
    /\ sub' = Claim([sub EXCEPT !.promised = @ \ {m}], {sub.last, JustBefore(m)})
    /\ wakes' = Append(wakes, <<m, FALSE>>)
    /\ Done(c, TRUE) /\ Keep /\ UNCHANGED <<excused, faults>>

\* All queues full: a live sender is told, a replayed message is handed back.
Busy(c, m) ==
    /\ served /\ Fault /\ (c # "live" /\ ~(sub.bnd \in 1..m - 1) => "full" \in Windows)
    /\ sub' = LET s == [sub EXCEPT !.promised = @ \ {m}]
              IN IF c = "live" THEN Remember(s, m) ELSE s
    /\ excused' = IF c = "live" THEN excused \cup {m} ELSE excused
    /\ Done(c, c = "live") /\ Keep /\ UNCHANGED wakes

Take(c, m) ==
    /\ served
    /\ sub' = Remember([sub EXCEPT !.promised = @ \ {m}], m)
    /\ disp' = [disp EXCEPT ![c] = [pc |-> "normalize", m |-> m, sid |-> sub.id,
                                    epoch |-> epochs[sub.id], mgen |-> mgen, ok |-> TRUE]]
    /\ Keep /\ UNCHANGED <<wakes, excused, faults>>

Mark(c) == IF c = "live" THEN sub.last ELSE rep[c].wm

\* _on_raw_ddp_message, up to its first await.
Dispatch(c, m, participant) ==
    IF sub.id = None \/ (participant /\ m \in sub.seen) THEN Ignore(c, m)
    ELSE IF ~participant THEN NotParticipant(c, m)
    ELSE IF m <= Mark(c) THEN Stale(c, m)
    ELSE Wake(c, m) \/ Busy(c, m) \/ Take(c, m)

\* The download of its attachments fails: the message is given up.
Normalized(c) ==
    /\ disp[c].pc = "normalize"
    /\ \/ disp' = [disp EXCEPT ![c].pc = "handle"] /\ UNCHANGED <<excused, faults>>
       \/ Fault /\ Done(c, TRUE) /\ excused' = excused \cup {disp[c].m}
    /\ UNCHANGED <<serverVars, queue, subVars, rep, routeVars, serveVars, handled, twice, absent, left, barred>>

\* The subscription a dispatch may still write to.
SameSub(c) == sub.id # None /\ sub.id = disp[c].sid /\ SameStay(sub.id, disp[c].epoch)
Successor(c) == sub.id # None /\ sub.id # disp[c].sid /\ mgen = disp[c].mgen

\* Mutant: the watermark is committed without asking whether the account left.
MayWriteMutant(c) == sub.id # None

MayWrite(c) == SameSub(c) \/ Successor(c)

\* Every queue of the room's processors was full after all: forgotten and owed.
Rejected(c) ==
    LET m == disp[c].m
        s == IF sub.id = disp[c].sid THEN Forget(sub, m) ELSE sub
    IN /\ Fault
       /\ sub' = IF MayWrite(c) THEN Claim(s, {s.last, JustBefore(m)}) ELSE s
       /\ Done(c, FALSE)
       /\ UNCHANGED <<handled, twice, excused>>

Accepted(c) ==
    LET m == disp[c].m
        s == IF Successor(c) THEN Remember(sub, m) ELSE sub
    IN /\ sub' = IF MayWrite(c) THEN Commit(s, m) ELSE sub
       /\ twice' = (twice \/ <<m, disp[c].sid>> \in handled)
       /\ handled' = handled \cup {<<m, disp[c].sid>>}
       /\ Done(c, TRUE)
       /\ UNCHANGED <<excused, faults>>

Raised(c) ==
    /\ Fault /\ Done(c, TRUE)
    /\ excused' = excused \cup {disp[c].m}
    /\ UNCHANGED <<sub, handled, twice>>

Handled(c) ==
    /\ disp[c].pc = "handle"
    /\ Rejected(c) \/ (served /\ Accepted(c)) \/ Raised(c)
    /\ UNCHANGED <<serverVars, queue, used, epochs, mgen, hook, rep, routeVars, serveVars, absent, left, barred>>

\* A carrier that is cancelled forgets the message it has in its hands.
Cancelled(c, s) == IF disp[c].pc # "idle" /\ s.id = disp[c].sid THEN Forget(s, disp[c].m) ELSE s

-----------------------------------------------------------------------------
(* Frames.                                                                  *)

\* Mutant: the queue has no bound.
DeliverMutant(ms) == queue' = queue \o ms /\ UNCHANGED excused

\* deliver_to_room: an overflow is counted and the room marked as degraded.
Deliver(ms) ==
    LET room == QueueDepth - Len(queue)
        fit == SubSeq(ms, 1, IF room < Len(ms) THEN room ELSE Len(ms))
    IN /\ queue' = queue \o fit
       /\ excused' = excused \cup {ms[i][1] : i \in Len(fit) + 1..Len(ms)}

\* A room without a mark has nothing to be replayed from: what it misses is gone.
Post ==
    LET m == posted + 1 IN
    /\ posted < N + 1 /\ posted' = m
    /\ absent' = IF member THEN absent ELSE absent \cup {m}
    /\ IF link = "up" /\ sub.id # None
       THEN Deliver(<<<<m, member>>>>) /\ UNCHANGED wakes
       ELSE /\ wakes' = IF link = "up" /\ member THEN Append(wakes, <<m, TRUE>>) ELSE wakes
            /\ excused' = IF link # "up" /\ Reach = None THEN excused \cup {m} ELSE excused
            /\ UNCHANGED queue
    /\ UNCHANGED <<member, link, event, subVars, disp, rep, route, serveVars, faults, handled,
                   twice, left, barred>>

Work ==
    /\ queue # <<>> /\ disp["live"].pc = "idle" /\ (hook => "hook" \in Windows)
    /\ Dispatch("live", Head(queue)[1], Head(queue)[2])
    /\ queue' = Tail(queue)
    /\ UNCHANGED <<serverVars, rep, route, serveVars, handled, twice, absent>>

\* A frame of the routing queue read before the outage says nothing of the
\* account's standing after it, and is dropped.
LinkDown ==
    LET Old(w) == w[2]
        Kept(w) == ~w[2]
    IN
    /\ link = "up" /\ Fault /\ link' = "lost"
    /\ event' = FALSE
    /\ wakes' = SelectSeq(wakes, Kept)
    /\ excused' = IF sub.id = None /\ record # None THEN excused
                  ELSE excused \cup {w[1] : w \in Range(SelectSeq(wakes, Old))}
    /\ UNCHANGED <<posted, member, queue, subVars, disp, rep, route, serveVars, handled, twice,
                   absent, left, barred>>

\* The outage is claimed before anything is delivered again, and a replay that
\* is still running gives way to the one that is due.
LinkUp ==
    /\ link = "lost" /\ link' = "up"
    /\ sub' = IF sub.id = None THEN sub
              ELSE Claim(Cancelled("rec", sub), {sub.last})
    /\ disp' = [disp EXCEPT !["rec"] = NoDisp]
    /\ rep' = [rep EXCEPT !["rec"] = [NoRep EXCEPT !.pc = "due"]]
    /\ UNCHANGED <<posted, member, event, queue, used, epochs, mgen, hook, routeVars, serveVars,
                   faults, ghosts>>

\* The first connection of a run replays nothing.
Connect ==
    /\ link = "new" /\ link' = "up"
    /\ UNCHANGED <<posted, member, event, queue, subVars, disp, rep, routeVars, serveVars, faults, ghosts>>

-----------------------------------------------------------------------------
(* Replaying the room; wake names the window itself, and does not spend     *)
(* the one the subscription is owed.                                        *)

External(c) == c = "wake"
Ends(c) == rep' = [rep EXCEPT ![c] = NoRep]

\* A window that was named and not read is owed from now on.
Unread(c) ==
    sub' = IF External(c) /\ sub.id = rep[c].sid THEN Claim(sub, {rep[c].wm}) ELSE sub

Started(c, after) ==
    LET wm == IF after # None THEN after ELSE IF sub.bnd # None THEN sub.bnd ELSE sub.last
    IN IF sub.id = None \/ wm = None THEN NoRep
       ELSE [pc |-> "member", wm |-> wm, claims |-> sub.claims, sid |-> sub.id,
             epoch |-> epochs[sub.id], todo |-> {}, ok |-> TRUE]

ReplayStart ==
    /\ rep["rec"].pc = "due"
    /\ rep' = [rep EXCEPT !["rec"] = Started("rec", None)]
    /\ UNCHANGED <<serverVars, queue, subVars, disp, routeVars, serveVars, faults, ghosts>>

Member(c) ==
    /\ rep[c].pc = "member"
    /\ \/ /\ ~SameStay(rep[c].sid, rep[c].epoch)
          /\ Ends(c) /\ UNCHANGED <<sub, faults>> /\ Keep
       \/ /\ SameStay(rep[c].sid, rep[c].epoch) /\ member
          /\ rep' = [rep EXCEPT ![c].pc = "history"] /\ UNCHANGED <<sub, faults>> /\ Keep
       \/ /\ SameStay(rep[c].sid, rep[c].epoch) /\ ~member
          /\ Ends(c) /\ UNCHANGED faults
          /\ IF sub.id = rep[c].sid THEN Depart(sub) ELSE Depart(NoSub) /\ UNCHANGED sub
       \/ /\ SameStay(rep[c].sid, rep[c].epoch) /\ Fault
          /\ Unread(c) /\ Ends(c) /\ Keep
    /\ UNCHANGED <<serverVars, queue, disp, routeVars, serveVars, handled, twice, excused, absent>>

\* The newest messages of the window; older ones cannot be reached, and that is
\* said in the log.
Newest(ms) == {m \in ms : Cardinality({n \in ms : n > m}) < Page}

History(c) ==
    LET window == {m \in Msgs : m > rep[c].wm /\ m <= posted}
        mine == sub.id = rep[c].sid
    IN
    /\ rep[c].pc = "history"
    /\ \/ Fault /\ Unread(c) /\ Ends(c) /\ UNCHANGED excused
       \/ /\ UNCHANGED faults
          /\ IF ~SameStay(rep[c].sid, rep[c].epoch) THEN Ends(c) /\ UNCHANGED <<sub, excused>>
             ELSE /\ rep' = [rep EXCEPT ![c].pc = "loop", ![c].todo = Newest(window)]
                  /\ excused' = excused \cup (window \ Newest(window))
                  /\ UNCHANGED sub
    /\ Keep /\ UNCHANGED <<serverVars, queue, disp, routeVars, serveVars, handled, twice, absent>>

\* One message after the other; a removal that is noted in between ends it.
ReplayOne(c) ==
    LET m == Oldest(rep[c].todo)
        stays == SameStay(rep[c].sid, rep[c].epoch) /\ sub.id # None
    IN
    /\ rep[c].pc = "loop" /\ disp[c].pc = "idle" /\ rep[c].todo # {} /\ stays
    /\ Dispatch(c, m, TRUE)
    /\ rep' = [rep EXCEPT ![c].todo = @ \ {m}, ![c].ok = @ /\ disp[c].ok]
    /\ UNCHANGED <<serverVars, queue, route, serveVars, handled, twice, absent>>

ReplayEnd(c) ==
    LET mine == sub.id = rep[c].sid
        stays == SameStay(rep[c].sid, rep[c].epoch) /\ sub.id # None
    IN
    /\ rep[c].pc = "loop" /\ disp[c].pc = "idle" /\ (rep[c].todo = {} \/ ~stays)
    /\ sub' = IF mine /\ stays /\ rep[c].ok /\ disp[c].ok /\ ~External(c)
              THEN Discharge(sub, rep[c].claims) ELSE sub
    /\ Ends(c) /\ Done(c, TRUE)
    /\ Keep /\ UNCHANGED <<serverVars, queue, routeVars, serveVars, faults, handled, twice, excused, absent>>

-----------------------------------------------------------------------------
(* Routing a room that has no watcher.  WatcherManager holds the room's lock  *)
(* until the wake's replay is over.                                          *)

\* _route_room, up to its first await.  A frame that comes after the room's
\* episode lands behind newer ones, which the filter may not forgive it.
Route ==
    LET m == Head(wakes)[1] IN
    /\ wakes # <<>> /\ wakes' = Tail(wakes)
    /\ IF route.on
       THEN /\ UNCHANGED queue
            /\ route' = [route EXCEPT !.frames = Added(@, m, Pending)]
            /\ excused' = IF Full(route.frames, m, Pending) THEN excused \cup {m} ELSE excused
       ELSE IF served /\ sub.id # None
            THEN /\ UNCHANGED route
                 /\ queue' = IF Len(queue) < QueueDepth THEN Append(queue, <<m, TRUE>>) ELSE queue
                 /\ excused' = excused \cup {m}
       ELSE route' = [on |-> TRUE, frames |-> <<m>>, ok |-> FALSE] /\ UNCHANGED <<queue, excused>>
    /\ UNCHANGED <<serverVars, subVars, disp, rep, serveVars, faults, handled, twice, absent, left, barred>>

Fresh == CHOOSE i \in 1..MaxSubs : sub.id = None /\ ~used[i] /\ \A j \in 1..i - 1 : used[j]

\* The router takes the room: a watcher is started, or woken, and what its record
\* is owed is replayed; the offer is over when the replay is.
Woken ==
    LET s == IF sub.id # None THEN sub
             ELSE [NoSub EXCEPT !.id = Fresh, !.last = record]
    IN /\ ~served /\ member /\ rep["wake"].pc = "idle" /\ (hook => "hook" \in Windows)
       /\ sub.id = None => /\ \E i \in 1..MaxSubs : ~used[i]
                           /\ rep["rec"].pc \in {"idle", "due"} \/ "detached" \in Windows
       /\ served' = TRUE
       /\ sub' = s /\ used' = [used EXCEPT ![s.id] = TRUE]
       /\ rep' = [rep EXCEPT !["wake"] =
                    IF record = None THEN NoRep
                    ELSE [pc |-> "member", wm |-> record, claims |-> s.claims, sid |-> s.id,
                          epoch |-> epochs[s.id], todo |-> {}, ok |-> TRUE]]

Offered ==
    /\ route.on /\ ~route.ok /\ Woken
    /\ route' = [route EXCEPT !.ok = TRUE]
    /\ UNCHANGED <<serverVars, queue, epochs, mgen, hook, disp, wakes, record, booting, faults, ghosts>>

\* The offer is over and the room is served: its frames are handed to the room's
\* worker, and promised, since live ones may have moved the watermark past them.
Established ==
    LET ms == [i \in DOMAIN route.frames |-> <<route.frames[i], TRUE>>] IN
    /\ route.on /\ rep["wake"].pc = "idle" /\ served /\ sub.id # None
    /\ route' = NoRoute
    /\ sub' = [sub EXCEPT !.promised = @ \cup Range(route.frames)]
    /\ Deliver(ms)
    /\ UNCHANGED <<serverVars, used, epochs, mgen, hook, disp, rep, wakes, serveVars, faults,
                   handled, twice, absent, left, barred>>

Unserved == ~(served /\ sub.id # None) /\ rep["wake"].pc = "idle"

\* Nobody takes the room.  What a room without a record had buffered is gone.
Declined ==
    /\ route.on /\ Unserved /\ IF route.ok THEN UNCHANGED faults ELSE Fault
    /\ route' = NoRoute
    /\ sub' = IF sub.id = None THEN sub ELSE [sub EXCEPT !.seen = @ \cup Range(route.frames)]
    /\ excused' = IF sub.id = None /\ record # None THEN excused
                  ELSE excused \cup Range(route.frames)
    /\ UNCHANGED <<serverVars, queue, used, epochs, mgen, hook, disp, rep, wakes, serveVars,
                   handled, twice, absent, left, barred>>

\* Every attempt failed: the ids stay unknown, and the next wake's replay is to
\* bring the messages back.
Parked ==
    /\ route.on /\ ~route.ok /\ Unserved /\ Fault
    /\ route' = NoRoute
    /\ excused' = IF sub.id = None /\ record = None THEN excused \cup Range(route.frames) ELSE excused
    /\ UNCHANGED <<serverVars, queue, subVars, disp, rep, wakes, serveVars, handled, twice, absent, left, barred>>

-----------------------------------------------------------------------------
(* The watcher's life, as far as the connector sees it.                     *)

\* What the lifecycle writes into the record: the live watermark, if the room is
\* tracked and has one, or had one and lost it on purpose.
Saved == IF sub.id = None THEN record ELSE Watermark(sub)

\* The messages that are under way.
Carried ==
    {queue[i][1] : i \in DOMAIN queue} \cup {w[1] : w \in Range(wakes)} \cup Range(route.frames)
    \cup {disp[c].m : c \in Carriers} \cup UNION {rep[c].todo : c \in Replays}

\* A message is still under way that the mark has passed already.
Behind(mark) ==
    \/ \E m \in Carried : m # None /\ m <= mark
    \/ \E c \in Replays : rep[c].pc \in {"member", "history"} /\ rep[c].wm < mark

Save ==
    /\ served /\ record # Saved /\ record' = Saved
    /\ UNCHANGED <<serverVars, queue, subVars, disp, rep, routeVars, served, booting, faults, ghosts>>

\* Dropped after hours without a message; the subscription is kept.
IdleDrop ==
    /\ served /\ Fault
    /\ Carried \subseteq {None} /\ \A c \in Replays : rep[c].pc = "idle"
    /\ served' = FALSE /\ record' = Saved
    /\ UNCHANGED <<serverVars, queue, subVars, disp, rep, routeVars, booting, ghosts>>

\* unsubscribe_room: the room's worker is cancelled and its queue goes with it.
Untrack ==
    /\ sub' = NoSub /\ queue' = <<>>
    /\ disp' = [disp EXCEPT !["live"] = NoDisp]

Pause ==
    /\ served /\ Fault /\ (Behind(Saved) => "cut" \in Windows)
    /\ served' = FALSE /\ record' = Saved /\ Untrack
    /\ UNCHANGED <<serverVars, used, epochs, mgen, hook, rep, routeVars, booting, ghosts>>

Kick ==
    /\ member /\ Fault
    /\ member' = FALSE /\ event' = (link = "up")
    /\ UNCHANGED <<posted, link, queue, subVars, disp, rep, routeVars, serveVars, ghosts>>

Rejoin ==
    /\ ~member /\ member' = TRUE
    /\ UNCHANGED <<posted, link, event, queue, subVars, disp, rep, routeVars, serveVars, faults, ghosts>>

\* _on_membership_event
Removed ==
    /\ event /\ event' = FALSE
    /\ Depart(sub)
    /\ UNCHANGED <<posted, member, link, queue, used, disp, rep, routeVars, serveVars, faults,
                   handled, twice, excused, absent>>

\* The session manager leaves the room: its record, its processor and its
\* subscription go.
Hook ==
    /\ hook /\ hook' = FALSE
    /\ served' = FALSE /\ record' = None /\ Untrack
    /\ left' = posted /\ barred' = posted
    /\ UNCHANGED <<serverVars, used, epochs, mgen, rep, routeVars, booting, faults, handled, twice,
                   excused, absent>>

\* The process dies, and starts again from the records; a room without a mark
\* has nothing to start from.
Crash ==
    /\ Fault /\ (Behind(record) \/ record > Reach => "cut" \in Windows)
    /\ link' = "new" /\ event' = FALSE
    /\ Untrack /\ mgen' = 0 /\ hook' = FALSE
    /\ rep' = [c \in Replays |-> NoRep] /\ wakes' = <<>> /\ route' = NoRoute
    /\ served' = FALSE /\ booting' = TRUE /\ barred' = None
    /\ excused' = IF record = None THEN excused \cup 2..posted ELSE excused
    /\ UNCHANGED <<posted, member, used, epochs, record, handled, twice, absent, left>>

\* _evaluate_missed: a room whose record has a gap behind it is woken.
Evaluate ==
    /\ booting /\ link # "new" /\ ~route.on /\ booting' = FALSE
    /\ \/ /\ served \/ record = None \/ posted <= record \/ ~member
          /\ UNCHANGED <<sub, used, rep, served, faults>>
       \/ /\ ~served /\ Fault /\ UNCHANGED <<sub, used, rep, served>>
       \/ /\ record # None /\ posted > record /\ Woken /\ UNCHANGED faults
    /\ UNCHANGED <<serverVars, queue, epochs, mgen, hook, disp, routeVars, record, ghosts>>

ReplayNext(c) == Member(c) \/ History(c) \/ ReplayOne(c) \/ ReplayEnd(c)

Next ==
    \/ Post \/ Work \/ LinkDown \/ LinkUp \/ Connect \/ ReplayStart
    \/ \E c \in Carriers : Normalized(c) \/ Handled(c)
    \/ \E c \in Replays : ReplayNext(c)
    \/ Route \/ Offered \/ Established \/ Declined \/ Parked
    \/ Save \/ IdleDrop \/ Pause \/ Kick \/ Rejoin \/ Removed \/ Hook \/ Crash \/ Evaluate

Spec == Init /\ [][Next]_vars

-----------------------------------------------------------------------------
(* Properties.                                                              *)

\* The variables have their types, and no buffer outgrows its bound.
TypeOK ==
    /\ posted \in 1..N + 1 /\ {member, event, hook, served, booting, twice} \subseteq BOOLEAN
    /\ sub.id \in 0..MaxSubs /\ {sub.last, sub.bnd} \subseteq 0..N + 1
    /\ sub.seen \cup sub.promised \cup excused \cup absent \subseteq Msgs
    /\ Len(queue) <= QueueDepth /\ Len(route.frames) <= Pending

\* A replay that has not read its window yet.
Reads(c, m) == rep[c].pc \in {"member", "history"} /\ rep[c].wm < m

\* No message is skipped: whatever was posted since the account was last known to
\* be in the room was handled or given up with a notice, is under way, or is where
\* the next replay of the room will find it, above its mark and not seen.
NothingSkipped ==
    Reach # None =>
        \A m \in Msgs :
            m <= posted /\ m > left =>
                \/ m \in {h[1] : h \in handled} \cup excused \cup absent \cup Carried
                \/ m > Reach /\ m \notin sub.seen
                \/ \E c \in Replays : Reads(c, m)

\* A subscription has the handler take a message once, whichever of its copies come
\* by the worker, by a replay or by the episode that woke the room.
HandledOnce == ~twice

\* No replay dispatches a message of the time the account was not in the room, once
\* the connector has learned of the removal.
NoReplayAcrossRemoval ==
    [][\A c \in Replays :
          disp[c].pc = "idle" /\ disp'[c].pc # "idle"
              => ~(disp'[c].m \in absent /\ disp'[c].m <= barred)]_vars
=============================================================================
