----------------------------- MODULE MMConnector ----------------------------
(***************************************************************************)
(* One channel of a Mattermost connector (connectors/mattermost/           *)
(* connector.py and websocket.py, core/replay_window.py,                   *)
(* core/pending_route.py): what becomes of every post while the socket is   *)
(* lost, queues are full, the channel is idle, woken or paused, and the     *)
(* account is removed.                                                      *)
(*                                                                         *)
(* A post is its timestamp.  Tracked or not, the channel has one worker;    *)
(* the replay after a reconnect and the replay of a wake dispatch beside    *)
(* it, and each of them suspends while it resolves the sender's name, while *)
(* it normalises the post and while the handler has it.                     *)
(***************************************************************************)
EXTENDS ReplayWindow, FiniteSets

CONSTANTS
    N,          \* bound of the model: posts
    QueueDepth, \* websocket.py _CHANNEL_QUEUE_DEPTH
    Pending,    \* _PENDING_BUFFER_DEPTH
    Page,       \* _REPLAY_HISTORY_COUNT
    MaxFaults,  \* bound of the model: everything that goes wrong or is asked for
    MaxStates,  \* bound of the model: states of the channel, one after the other
    Windows     \* what is explored besides: "mark", a post is handled between a
                \* reconnect and the replay's look at the watermark; "cancel", a
                \* reconnect finds the replay of the last one running; "overtaken", a
                \* replay moves the mark past a post the worker has yet to hold
                \* against it; "cut", the channel is paused or the process dies while
                \* a post older than the mark is under way; "hook", the channel is
                \* woken, or its replay begun, between the notice of a removal and its
                \* hook

Msgs == 2..N + 1
Replays == {"rec", "wake"}
Carriers == {"live"} \cup Replays

VARIABLES
    posted,     \* the latest post of the channel
    member,     \* whether the account is in the channel
    link,       \* the socket: "up", "lost", or "new" after a start
    event,      \* a user_removed that nobody has read
    queue,      \* the queue of the channel's worker
    chan,       \* _channels[channel_id], the object named by when it was created
    used,       \* the states there have been
    gen,        \* _membership_gen
    hook,       \* a task that tells the membership hook of a removal
    disp,       \* _on_posted_event, for each carrier
    rep,        \* replay_room_since
    route,      \* _pending_routes: the episode of the channel
    served,     \* the channel has a processor
    record,     \* last_processed_ts of the watcher's record
    booting,    \* the missed window of the last run has not been evaluated
    faults,
    handled,    \* pairs of a post the handler took and the state it came by
    twice,      \* by some state the handler took a post twice
    excused,    \* posts given up, with a notice to the channel or in the log
    absent,     \* posts of the time the account was not in the channel
    left,       \* the latest post when a removal was last noted
    barred      \* the same, as far as this run of the process knows

serverVars == <<posted, member, link, event>>
chanVars == <<chan, used, gen, hook>>
serveVars == <<served, record, booting>>
ghosts == <<handled, twice, excused, absent, left, barred>>
vars == <<serverVars, queue, chanVars, disp, rep, route, serveVars, faults, ghosts>>

NoChan == [id |-> None, last |-> None, bnd |-> None, claims |-> 0, seen |-> {}, promised |-> {},
           lost |-> FALSE]
NoDisp == [pc |-> "idle", m |-> None, sid |-> None, gen |-> 0]
NoRep == [pc |-> "idle", wm |-> None, claims |-> 0, sid |-> None, gen |-> 0, todo |-> {}]
NoRoute == [on |-> FALSE, frames |-> <<>>, ok |-> FALSE]

Init ==
    /\ posted = 1 /\ member = TRUE /\ link = "up" /\ event = FALSE
    /\ queue = <<>>
    /\ chan = [NoChan EXCEPT !.id = 1, !.last = 1]
    /\ used = [i \in 1..MaxStates |-> i = 1] /\ gen = 0 /\ hook = FALSE
    /\ disp = [c \in Carriers |-> NoDisp] /\ rep = [c \in Replays |-> NoRep]
    /\ route = NoRoute
    /\ served = TRUE /\ record = 1 /\ booting = FALSE
    /\ faults = 0
    /\ handled = {} /\ twice = FALSE /\ excused = {} /\ absent = {} /\ left = None /\ barred = None

Fault == faults < MaxFaults /\ faults' = faults + 1

-----------------------------------------------------------------------------
(* The state of the channel.                                                *)

Remember(s, m) == [s EXCEPT !.seen = @ \cup {m}]
Settled(s, m) == [s EXCEPT !.promised = @ \ {m}]

\* _keep_replayable
KeepReplayable(s, m) == Claim([s EXCEPT !.seen = @ \ {m}], {s.last, JustBefore(m)})

\* Where the next replay of the channel begins.
Reach == IF chan.id = None THEN record ELSE IF chan.bnd # None THEN chan.bnd ELSE chan.last

\* _note_removed: the state stops serving at once, whatever is in flight can
\* tell by the generation, and the membership hook is told by a task.
NoteRemoved ==
    /\ chan' = IF chan.id = None THEN chan ELSE [chan EXCEPT !.lost = TRUE]
    /\ gen' = gen + 1 /\ hook' = TRUE
    /\ left' = posted /\ barred' = posted
    /\ UNCHANGED used

NoRemoval == UNCHANGED <<used, gen, hook, left, barred>>

-----------------------------------------------------------------------------
(* Dispatching one post.                                                    *)

Mine(c) == chan.id = disp[c].sid
Over(c) == disp' = [disp EXCEPT ![c] = NoDisp]
On(c, s) == chan' = IF Mine(c) THEN s ELSE chan

\* _on_posted_event, up to its first await: a channel without a state is offered
\* to the router, a post that is seen again is dropped, any other is remembered.
Dispatch(c, m) ==
    LET next == IF chan.id = None THEN "offer"
                ELSE IF chan.lost \/ m \in chan.seen THEN "idle" ELSE "name"
    IN /\ disp' = IF next = "idle" THEN [disp EXCEPT ![c] = NoDisp]
                  ELSE [disp EXCEPT ![c] = [pc |-> next, m |-> m, sid |-> chan.id, gen |-> gen]]
       /\ chan' = IF next = "name" THEN Remember(chan, m)
                  ELSE IF next = "idle" /\ ~chan.lost THEN Settled(chan, m) ELSE chan

\* _route_or_buffer
Buffered(m) ==
    IF route.on
    THEN /\ UNCHANGED queue
         /\ route' = [route EXCEPT !.frames = Added(@, m, Pending)]
         /\ excused' = IF Full(route.frames, m, Pending) THEN excused \cup {m} ELSE excused
    ELSE IF served /\ chan.id # None
    THEN /\ UNCHANGED route
         /\ queue' = IF Len(queue) < QueueDepth THEN Append(queue, m) ELSE queue
         /\ excused' = excused \cup {m}
    ELSE route' = [on |-> TRUE, frames |-> <<m>>, ok |-> FALSE] /\ UNCHANGED <<queue, excused>>

\* _offer_to_router, once the sender's name is known; without a name the post of
\* a channel nobody serves is given up.
OfferToRouter(c) ==
    /\ disp[c].pc = "offer" /\ Over(c)
    /\ \/ Buffered(disp[c].m) /\ UNCHANGED faults
       \/ Fault /\ excused' = excused \cup {disp[c].m} /\ UNCHANGED <<queue, route>>
    /\ UNCHANGED <<serverVars, chanVars, rep, serveVars, handled, twice, absent, left, barred>>

Mark(c) == IF c = "live" THEN chan.last ELSE rep[c].wm

\* The name is not to be had: the post stays replayable.
Nameless(c) ==
    /\ Fault /\ On(c, KeepReplayable(chan, disp[c].m)) /\ Over(c)
    /\ UNCHANGED <<queue, route, excused>>

\* Below the mark the carrier filters by: processed already, unless an episode
\* has promised the post.
Stale(c) ==
    LET m == disp[c].m IN
    /\ Mine(c) /\ m <= Mark(c)
    /\ chan' = IF m \in chan.promised THEN KeepReplayable(Settled(chan, m), m) ELSE chan
    /\ Over(c) /\ UNCHANGED <<queue, route, faults, excused>>

\* No processor: the post is owed, and the channel offered to the router.
Wake(c) ==
    LET m == disp[c].m IN
    /\ ~served
    /\ On(c, KeepReplayable(Settled(chan, m), m))
    /\ Buffered(m) /\ Over(c) /\ UNCHANGED faults

\* All queues full: a live sender is told, a replayed post is owed.
Busy(c) ==
    LET m == disp[c].m IN
    /\ served /\ Fault
    /\ On(c, IF c = "live" THEN Settled(chan, m) ELSE KeepReplayable(Settled(chan, m), m))
    /\ excused' = IF c = "live" THEN excused \cup {m} ELSE excused
    /\ Over(c) /\ UNCHANGED <<queue, route>>

Take(c) ==
    /\ served /\ On(c, Settled(chan, disp[c].m))
    /\ disp' = [disp EXCEPT ![c].pc = "normalize"]
    /\ UNCHANGED <<queue, route, faults, excused>>

Named(c) ==
    /\ disp[c].pc = "name"
    /\ \/ Nameless(c) \/ Stale(c)
       \/ (Mine(c) => disp[c].m > Mark(c)) /\ (Wake(c) \/ Busy(c) \/ Take(c))
    /\ NoRemoval /\ UNCHANGED <<serverVars, rep, serveVars, handled, twice, absent>>

\* The download of its attachments fails: the post is given up.
Normalized(c) ==
    /\ disp[c].pc = "normalize"
    /\ \/ disp' = [disp EXCEPT ![c].pc = "handle"] /\ UNCHANGED <<excused, faults>>
       \/ Fault /\ Over(c) /\ excused' = excused \cup {disp[c].m}
    /\ UNCHANGED <<serverVars, queue, chanVars, rep, route, serveVars, handled, twice, absent, left, barred>>

\* The state the outcome is written to: this one, or its successor of the same
\* membership.
MayWrite(c) == chan.id # None /\ (Mine(c) \/ disp[c].gen = gen)

Rejected(c) ==
    /\ Fault
    /\ chan' = IF MayWrite(c) THEN KeepReplayable(chan, disp[c].m) ELSE chan
    /\ UNCHANGED <<handled, twice, excused>>

\* The posts the worker has not held against the mark yet.
Unfiltered == (Range(queue) \ chan.seen) \cup {m \in {disp["live"].m} : disp["live"].pc = "name"}
Overtakes(c) == c # "live" /\ \E m \in Unfiltered : m < disp[c].m

Accepted(c) ==
    LET m == disp[c].m IN
    /\ served /\ (Overtakes(c) => "overtaken" \in Windows)
    /\ chan' = IF MayWrite(c) THEN Commit(Remember(chan, m), m) ELSE chan
    /\ twice' = (twice \/ <<m, disp[c].sid>> \in handled)
    /\ handled' = handled \cup {<<m, disp[c].sid>>}
    /\ UNCHANGED <<excused, faults>>

Raised(c) ==
    /\ Fault /\ excused' = excused \cup {disp[c].m}
    /\ UNCHANGED <<chan, handled, twice>>

Handled(c) ==
    /\ disp[c].pc = "handle" /\ Over(c)
    /\ Rejected(c) \/ Accepted(c) \/ Raised(c)
    /\ NoRemoval /\ UNCHANGED <<serverVars, queue, rep, route, serveVars, absent>>

-----------------------------------------------------------------------------
(* The socket.                                                              *)

\* deliver_to_channel
Deliver(ms) ==
    LET space == QueueDepth - Len(queue)
        fit == SubSeq(ms, 1, IF space < Len(ms) THEN space ELSE Len(ms))
    IN /\ queue' = queue \o fit
       /\ excused' = excused \cup {ms[i] : i \in Len(fit) + 1..Len(ms)}

\* A channel without a mark has nothing to be replayed from.
Post ==
    LET m == posted + 1 IN
    /\ posted < N + 1 /\ posted' = m
    /\ absent' = IF member THEN absent ELSE absent \cup {m}
    /\ IF link = "up" /\ member THEN Deliver(<<m>>)
       ELSE /\ excused' = IF Reach = None THEN excused \cup {m} ELSE excused
            /\ UNCHANGED queue
    /\ UNCHANGED <<member, link, event, chanVars, disp, rep, route, serveVars, faults, handled,
                   twice, left, barred>>

\* Until a replay has looked at the watermark, every post handled moves the mark.
Unmarked == rep["rec"].pc \in {"due", "member"} /\ chan.bnd = None

Work ==
    /\ queue # <<>> /\ disp["live"].pc = "idle"
    /\ Unmarked => "mark" \in Windows
    /\ Dispatch("live", Head(queue)) /\ queue' = Tail(queue)
    /\ NoRemoval /\ UNCHANGED <<serverVars, rep, route, serveVars, faults, handled, twice, excused, absent>>

LinkDown ==
    /\ link = "up" /\ Fault /\ link' = "lost" /\ event' = FALSE
    /\ UNCHANGED <<posted, member, queue, chanVars, disp, rep, route, serveVars, ghosts>>

\* _reconnect: a replay that is still running is cancelled, with the post it has
\* in its hands.
LinkUp ==
    /\ link = "lost" /\ link' = "up"
    /\ "mark" \in Windows \/ disp["live"].pc = "idle" \/ chan.bnd # None
    /\ disp["rec"].pc = "idle" \/ "cancel" \in Windows
    /\ disp' = [disp EXCEPT !["rec"] = NoDisp]
    /\ rep' = [rep EXCEPT !["rec"] = [NoRep EXCEPT !.pc = "due"]]
    /\ UNCHANGED <<posted, member, event, queue, chanVars, route, serveVars, faults, ghosts>>

\* The first connection of a run replays nothing.
Connect ==
    /\ link = "new" /\ link' = "up"
    /\ UNCHANGED <<posted, member, event, queue, chanVars, disp, rep, route, serveVars, faults, ghosts>>

-----------------------------------------------------------------------------
(* Replaying the channel; a wake names the window itself, and does not      *)
(* spend the one the state is owed.                                         *)

External(c) == c = "wake"
Ends(c) == rep' = [rep EXCEPT ![c] = NoRep]

ReplayStart ==
    /\ rep["rec"].pc = "due" /\ (hook => "hook" \in Windows)
    /\ rep' = [rep EXCEPT !["rec"] =
                 IF chan.id = None THEN NoRep
                 ELSE [NoRep EXCEPT !.pc = "member", !.sid = chan.id, !.gen = gen]]
    /\ UNCHANGED <<serverVars, queue, chanVars, disp, route, serveVars, faults, ghosts>>

\* Only a membership that is known to be lost ends the replay here.
Member(c) ==
    LET mine == chan.id = rep[c].sid
        mark == IF mine /\ ~External(c) THEN Reach ELSE rep[c].wm
    IN
    /\ rep[c].pc = "member"
    /\ \/ ~member /\ Ends(c) /\ NoteRemoved /\ UNCHANGED faults
       \/ /\ IF member THEN UNCHANGED faults ELSE Fault
          /\ NoRemoval
          /\ IF mark = None THEN Ends(c) /\ UNCHANGED chan
             ELSE /\ chan' = IF External(c) \/ ~mine THEN chan ELSE Claim(chan, {mark})
                  /\ rep' = [rep EXCEPT ![c].pc = "history", ![c].wm = mark,
                                        ![c].claims = IF mine THEN chan'.claims ELSE 0]
    /\ UNCHANGED <<serverVars, queue, disp, route, serveVars, handled, twice, excused, absent>>

Newest(ms) == {m \in ms : Cardinality({n \in ms : n > m}) < Page}

\* A window that was named and could not be read is owed from now on.
History(c) ==
    LET window == {m \in Msgs : m > rep[c].wm /\ m <= posted} IN
    /\ rep[c].pc = "history"
    /\ \/ /\ Fault /\ Ends(c) /\ UNCHANGED excused
          /\ chan' = IF External(c) /\ chan.id = rep[c].sid THEN Claim(chan, {rep[c].wm}) ELSE chan
       \/ /\ rep' = [rep EXCEPT ![c].pc = "loop", ![c].todo = Newest(window)]
          /\ excused' = excused \cup (window \ Newest(window))
          /\ UNCHANGED <<chan, faults>>
    /\ NoRemoval /\ UNCHANGED <<serverVars, queue, disp, route, serveVars, handled, twice, absent>>

Stays(c) == chan.id # None /\ gen = rep[c].gen

ReplayOne(c) ==
    LET m == Oldest(rep[c].todo) IN
    /\ rep[c].pc = "loop" /\ disp[c].pc = "idle" /\ rep[c].todo # {} /\ Stays(c)
    /\ Dispatch(c, m)
    /\ rep' = [rep EXCEPT ![c].todo = @ \ {m}]
    /\ NoRemoval /\ UNCHANGED <<serverVars, queue, route, serveVars, faults, handled, twice, excused, absent>>

ReplayEnd(c) ==
    /\ rep[c].pc = "loop" /\ disp[c].pc = "idle" /\ (rep[c].todo = {} \/ ~Stays(c))
    /\ chan' = IF rep[c].todo = {} /\ ~External(c) /\ chan.id = rep[c].sid
               THEN Discharge(chan, rep[c].claims) ELSE chan
    /\ Ends(c) /\ NoRemoval
    /\ UNCHANGED <<serverVars, queue, disp, route, serveVars, faults, handled, twice, excused, absent>>

-----------------------------------------------------------------------------
(* Routing a channel that has no watcher.                                   *)

Fresh == CHOOSE i \in 1..MaxStates : ~used[i] /\ \A j \in 1..i - 1 : used[j]

\* A watcher is started, or woken, and what its record is owed is replayed; the
\* offer is over when the replay is.
Woken ==
    LET s == IF chan.id # None THEN chan
             ELSE [NoChan EXCEPT !.id = Fresh, !.last = record]
    IN /\ ~served /\ member /\ rep["wake"].pc = "idle" /\ (hook => "hook" \in Windows)
       /\ chan.id = None => \E i \in 1..MaxStates : ~used[i]
       /\ served' = TRUE
       /\ chan' = s /\ used' = [used EXCEPT ![s.id] = TRUE]
       /\ rep' = [rep EXCEPT !["wake"] =
                    IF record = None THEN NoRep
                    ELSE [NoRep EXCEPT !.pc = "member", !.wm = record, !.sid = s.id, !.gen = gen]]

Offered ==
    /\ route.on /\ ~route.ok /\ Woken
    /\ route' = [route EXCEPT !.ok = TRUE]
    /\ UNCHANGED <<serverVars, queue, gen, hook, disp, record, booting, faults, ghosts>>

Established ==
    /\ route.on /\ rep["wake"].pc = "idle" /\ served /\ chan.id # None
    /\ route' = NoRoute
    /\ chan' = [chan EXCEPT !.promised = @ \cup Range(route.frames)]
    /\ Deliver(route.frames)
    /\ UNCHANGED <<serverVars, used, gen, hook, disp, rep, serveVars, faults, handled, twice,
                   absent, left, barred>>

Unserved == ~(served /\ chan.id # None) /\ rep["wake"].pc = "idle"

Declined ==
    /\ route.on /\ Unserved /\ IF route.ok THEN UNCHANGED faults ELSE Fault
    /\ route' = NoRoute
    /\ chan' = IF chan.id = None THEN chan ELSE [chan EXCEPT !.seen = @ \cup Range(route.frames)]
    /\ excused' = IF chan.id = None /\ record # None THEN excused
                  ELSE excused \cup Range(route.frames)
    /\ UNCHANGED <<serverVars, queue, used, gen, hook, disp, rep, serveVars, handled, twice, absent,
                   left, barred>>

Parked ==
    /\ route.on /\ ~route.ok /\ Unserved /\ Fault
    /\ route' = NoRoute
    /\ excused' = IF chan.id = None /\ record = None THEN excused \cup Range(route.frames) ELSE excused
    /\ UNCHANGED <<serverVars, queue, chanVars, disp, rep, serveVars, handled, twice, absent, left, barred>>

-----------------------------------------------------------------------------
(* The watcher's life, as far as the connector sees it.                     *)

Saved == IF chan.id = None \/ Watermark(chan) = None THEN record ELSE Watermark(chan)

\* The posts that are under way.
Carried ==
    Range(queue) \cup Range(route.frames)
    \cup {disp[c].m : c \in Carriers} \cup UNION {rep[c].todo : c \in Replays}

\* A post is still under way that the mark has passed already.
Behind(mark) ==
    \/ \E m \in Carried : m # None /\ m <= mark
    \/ \E c \in Replays : rep[c].pc \in {"member", "history"} /\ rep[c].wm < mark

Save ==
    /\ served /\ record # Saved /\ record' = Saved
    /\ UNCHANGED <<serverVars, queue, chanVars, disp, rep, route, served, booting, faults, ghosts>>

\* Dropped after hours without a post; the state is kept.
IdleDrop ==
    /\ served /\ Fault
    /\ Carried \subseteq {None} /\ \A c \in Replays : rep[c].pc = "idle"
    /\ served' = FALSE /\ record' = Saved
    /\ UNCHANGED <<serverVars, queue, chanVars, disp, rep, route, booting, ghosts>>

\* unsubscribe_room and reap_room: the channel's worker is cancelled.  A replay
\* that has not looked at the mark yet keeps the state, and will.
Untrack ==
    /\ chan' = NoChan /\ queue' = <<>>
    /\ disp' = [disp EXCEPT !["live"] = NoDisp]
    /\ rep' = IF rep["rec"].pc = "member" /\ rep["rec"].sid = chan.id
              THEN [rep EXCEPT !["rec"].wm = Reach] ELSE rep

Pause ==
    /\ served /\ Fault /\ (Behind(Saved) => "cut" \in Windows)
    /\ served' = FALSE /\ record' = Saved /\ Untrack
    /\ UNCHANGED <<serverVars, used, gen, hook, route, booting, ghosts>>

Kick ==
    /\ member /\ Fault
    /\ member' = FALSE /\ event' = (link = "up")
    /\ UNCHANGED <<posted, link, queue, chanVars, disp, rep, route, serveVars, ghosts>>

Rejoin ==
    /\ ~member /\ member' = TRUE
    /\ UNCHANGED <<posted, link, event, queue, chanVars, disp, rep, route, serveVars, faults, ghosts>>

\* _on_membership_event
Removed ==
    /\ event /\ event' = FALSE /\ NoteRemoved
    /\ UNCHANGED <<posted, member, link, queue, disp, rep, route, serveVars, faults, handled, twice,
                   excused, absent>>

\* The session manager leaves the channel.
Hook ==
    /\ hook /\ hook' = FALSE
    /\ served' = FALSE /\ record' = None /\ Untrack
    /\ left' = posted /\ barred' = posted
    /\ UNCHANGED <<serverVars, used, gen, route, booting, faults, handled, twice, excused, absent>>

\* The process dies, and starts again from the records.
Crash ==
    /\ Fault /\ (Behind(record) \/ record > Reach => "cut" \in Windows)
    /\ link' = "new" /\ event' = FALSE
    /\ chan' = NoChan /\ queue' = <<>> /\ gen' = 0 /\ hook' = FALSE
    /\ disp' = [c \in Carriers |-> NoDisp] /\ rep' = [c \in Replays |-> NoRep] /\ route' = NoRoute
    /\ served' = FALSE /\ booting' = TRUE /\ barred' = None
    /\ excused' = IF record = None THEN excused \cup 2..posted ELSE excused
    /\ UNCHANGED <<posted, member, used, record, handled, twice, absent, left>>

\* A channel whose record has a gap behind it is woken.
Evaluate ==
    /\ booting /\ link # "new" /\ ~route.on /\ booting' = FALSE
    /\ \/ /\ served \/ record = None \/ posted <= record \/ ~member
          /\ UNCHANGED <<chan, used, rep, served, faults>>
       \/ /\ ~served /\ Fault /\ UNCHANGED <<chan, used, rep, served>>
       \/ /\ record # None /\ posted > record /\ Woken /\ UNCHANGED faults
    /\ UNCHANGED <<serverVars, queue, gen, hook, disp, route, record, ghosts>>

ReplayNext(c) == Member(c) \/ History(c) \/ ReplayOne(c) \/ ReplayEnd(c)

Next ==
    \/ Post \/ Work \/ LinkDown \/ LinkUp \/ Connect \/ ReplayStart
    \/ \E c \in Carriers : OfferToRouter(c) \/ Named(c) \/ Normalized(c) \/ Handled(c)
    \/ \E c \in Replays : ReplayNext(c)
    \/ Offered \/ Established \/ Declined \/ Parked
    \/ Save \/ IdleDrop \/ Pause \/ Kick \/ Rejoin \/ Removed \/ Hook \/ Crash \/ Evaluate

Spec == Init /\ [][Next]_vars

-----------------------------------------------------------------------------
(* Properties.                                                              *)

\* The variables have their types, and no buffer outgrows its bound.
TypeOK ==
    /\ posted \in 1..N + 1 /\ {member, event, hook, served, booting, twice} \subseteq BOOLEAN
    /\ chan.id \in 0..MaxStates /\ {chan.last, chan.bnd} \subseteq 0..N + 1
    /\ chan.seen \cup chan.promised \cup excused \cup absent \subseteq Msgs
    /\ Len(queue) <= QueueDepth /\ Len(route.frames) <= Pending

\* A replay that has not read its window yet.
Reads(c, m) == rep[c].pc \in {"member", "history"} /\ rep[c].wm # None /\ rep[c].wm < m

\* No post is skipped: whatever was posted since the account was last known to be
\* in the channel was handled or given up with a notice, is under way, or is where
\* the next replay of the channel will find it, above its mark and not seen.
NothingSkipped ==
    Reach # None =>
        \A m \in Msgs :
            m <= posted /\ m > left =>
                \/ m \in {h[1] : h \in handled} \cup excused \cup absent \cup Carried
                \/ m > Reach /\ m \notin chan.seen
                \/ \E c \in Replays : Reads(c, m)

\* A channel's state has the handler take a post once, whichever of its copies
\* come by the worker, by a replay or by the episode that woke the channel.
HandledOnce == ~twice

\* No replay dispatches a post of the time the account was not in the channel, once
\* the connector has learned of the removal.
NoReplayAcrossRemoval ==
    [][\A c \in Replays :
          disp[c].pc = "idle" /\ disp'[c].pc # "idle"
              => ~(disp'[c].m \in absent /\ disp'[c].m <= barred)]_vars
=============================================================================
