------------------------------ MODULE Membership ------------------------------
(* The bot's membership of one room, from the platform's events to the record and *)
(* the jobs of the room (session_manager.py, both connector.py): events that are   *)
(* handled one by one, deferred by a reload or lost with the socket, and the three *)
(* that ask the platform instead: a reconnect's replay, the boot, and the daily    *)
(* reconciliation.  Whatever they find has aged when they act on it.              *)
EXTENDS Sequences, SequencesExt, FiniteSets, Naturals

CONSTANTS MaxStays,  \* bound of the model: times the bot is added to the room
          MaxFaults, \* bound of the model: losses, failures, expiries, reloads and crashes
          Windows,   \* what is explored besides: "parked", a message of the next stay
                     \* makes a record before the removal that ended the last one is
                     \* handled; "asked", the bot is back before an answer that it is
                     \* gone; "beside", the room's turn goes on beside a replay
          NoRecord   \* the room has none

VARIABLES
    member, stay,  \* the platform: is the bot in the room, and for the how-manieth time
    link, wire,    \* the socket, and the events on it in their order
    gen,           \* _membership_gen, _room_membership_gen
    early,         \* Mattermost's add captures gen on arrival, Rocket.Chat's under its lock
    tasks,         \* who wait for the room's _membership_serial; the first one holds it
    record, nid,   \* the room's record: who made it, and is it paused or idle
    jobs,          \* jobs of the room are pending
    reclaim,       \* the reclamation that holds the watcher's lock
    creating,      \* a message that makes a record
    quiesced, deferred, replaying,
    probe, ask,    \* questions on their way: of boot or reconciliation, of a replay
    moves,
    wrong,         \* history: a record was taken for the end of a stay it was not made in
    slipped,       \* history: the last stay whose end was lost, or could not be followed
    checked        \* history: since its snapshot nothing has happened but a reconciliation

memberVars == <<member, stay, link, wire, gen, early, tasks, record, nid, jobs, reclaim,
                creating, quiesced, deferred, replaying, probe, ask, moves, wrong, slipped,
                checked>>

platform == <<member, stay>>
socketVars == <<link, wire>>
serial == <<gen, early, tasks>>
rest == <<quiesced, deferred, replaying>>
questions == <<probe, ask>>

Event(k) == [kind |-> k, stay |-> stay]
Idle == [by |-> "nobody", id |-> 0, gone |-> 0]   \* gone: the stay whose end is known

TypeOK ==
    /\ {member, link, early, jobs, quiesced, wrong, checked} \subseteq BOOLEAN
    /\ {stay, slipped} \subseteq 0 .. MaxStays /\ moves \in 0 .. MaxFaults
    /\ Range(wire) \subseteq [kind : {"added", "removed", "message"}, stay : 0 .. MaxStays]
    /\ record = NoRecord \/ record \in [id : 1 .. nid, stay : 0 .. MaxStays, dormant : BOOLEAN]
    /\ \A i \in DOMAIN tasks : i > 1 => tasks[i].at = "parked"
    /\ {reclaim.by, probe.by, ask.by} \subseteq
           {"nobody", "task", "replayed", "boot", "pass", "replay"}

Init ==
    /\ member = FALSE /\ stay = 0 /\ link = TRUE /\ wire = <<>>
    /\ gen = 0 /\ early \in BOOLEAN /\ tasks = <<>>
    /\ record = NoRecord /\ nid = 0 /\ jobs = FALSE /\ reclaim = Idle /\ creating = 0
    /\ quiesced = FALSE /\ deferred = <<>> /\ replaying = <<>>
    /\ probe = Idle /\ ask = Idle /\ moves = 0
    /\ wrong = FALSE /\ slipped = 0 /\ checked = FALSE

Fault == moves < MaxFaults /\ moves' = moves + 1

\* The stays that have ended by these events, and whose end is still to be handled.
Ends(es) == {e.stay : e \in {d \in Range(es) : d.kind = "removed"}}
Overdue == Ends(wire) \cup Ends(tasks) \cup Ends(deferred) \cup Ends(replaying)
Latest(stays) == CHOOSE s \in stays : \A t \in stays : t <= s

-----------------------------------------------------------------------------
(* The platform and the socket.                                             *)

Tell(k) == wire' = IF link THEN Append(wire, [kind |-> k, stay |-> stay']) ELSE wire

Join ==
    /\ ~member /\ stay < MaxStays
    /\ ask.gone > 0 => "asked" \in Windows
    /\ member' = TRUE /\ stay' = stay + 1 /\ Tell("added") /\ checked' = FALSE
    /\ UNCHANGED <<link, serial, record, nid, jobs, reclaim, creating, rest, questions, moves,
                   wrong, slipped>>

Kick ==
    /\ member /\ member' = FALSE /\ UNCHANGED stay /\ Tell("removed") /\ checked' = FALSE
    /\ slipped' = IF link THEN slipped ELSE stay
    /\ UNCHANGED <<link, serial, record, nid, jobs, reclaim, creating, rest, questions, moves,
                   wrong>>

Say ==
    /\ member /\ link /\ \A e \in Range(wire) : e.kind # "message"
    /\ UNCHANGED platform /\ Tell("message")
    /\ UNCHANGED <<link, serial, record, nid, jobs, reclaim, creating, rest, questions, moves,
                   wrong, slipped, checked>>

LinkDown ==
    /\ link /\ Fault /\ link' = FALSE /\ wire' = <<>>
    /\ slipped' = Latest({slipped} \cup Ends(wire))
    /\ UNCHANGED <<platform, serial, record, nid, jobs, reclaim, creating, rest, questions,
                   wrong, checked>>

\* The reconnect's replay asks, for the rooms it tracks, whether the bot is still in them.
LinkUp ==
    /\ ~link /\ link' = TRUE /\ UNCHANGED wire
    /\ ask' = IF record # NoRecord /\ ~record.dormant
              THEN [by |-> "replay", id |-> record.id, gone |-> IF member THEN 0 ELSE stay]
              ELSE ask
    /\ UNCHANGED <<platform, serial, record, nid, jobs, reclaim, creating, rest, probe, moves,
                   wrong, slipped, checked>>

-----------------------------------------------------------------------------
(* The connector.                                                           *)

Waiting(e, g) == [kind |-> e.kind, stay |-> e.stay, gen |-> g,
                  at |-> IF tasks = <<>> THEN "held" ELSE "parked"]

\* _note_removed: stamped on arrival; the hook waits for the room's turn.
NoteRemoved(e) == gen' = gen + 1 /\ tasks' = Append(tasks, Waiting(e, gen)) /\ UNCHANGED early

Arrive ==
    /\ wire # <<>> /\ wire' = Tail(wire) /\ UNCHANGED link
    /\ LET e == Head(wire) IN
       \/ e.kind = "removed" /\ NoteRemoved(e) /\ UNCHANGED creating
       \/ /\ e.kind = "added" /\ tasks' = Append(tasks, Waiting(e, gen))
          /\ UNCHANGED <<gen, early, creating>>
       \/ /\ e.kind = "message" /\ UNCHANGED serial
          /\ creating' = IF creating = 0 /\ ~quiesced /\ (record = NoRecord \/ record.dormant)
                         THEN e.stay ELSE creating
    /\ UNCHANGED <<platform, record, nid, jobs, reclaim, rest, questions, moves, wrong,
                   slipped, checked>>

\* The replay's answer: still a member, unknown, or gone, which is a removal that came late.
Answered ==
    /\ ask.by = "replay" /\ ask' = Idle
    /\ \/ UNCHANGED serial /\ (IF ask.gone = 0 THEN UNCHANGED moves ELSE Fault)
       \/ /\ ask.gone > 0 /\ NoteRemoved([kind |-> "removed", stay |-> ask.gone])
          /\ UNCHANGED moves
    /\ UNCHANGED <<platform, socketVars, record, nid, jobs, reclaim, creating, rest, probe,
                   wrong, slipped, checked>>

\* The next one gets the lock.
Next1(ts) == IF ts = <<>> THEN ts ELSE [ts EXCEPT ![1].at = "held"]
TaskOver == tasks' = Next1(Tail(tasks)) /\ UNCHANGED <<gen, early>>

\* An add asks what kind of room it is.
Classify ==
    /\ tasks # <<>> /\ tasks[1].kind = "added" /\ tasks[1].at = "held"
    /\ \/ tasks' = [tasks EXCEPT ![1].at = "classified",
                                 ![1].gen = IF early THEN @ ELSE gen]
          /\ UNCHANGED <<gen, early, moves>>
       \/ Fault /\ TaskOver
    /\ UNCHANGED <<platform, socketVars, record, nid, jobs, reclaim, creating, rest, questions,
                   wrong, slipped, checked>>

Outrun == /\ tasks # <<>> /\ tasks[1].at = "classified" /\ tasks[1].gen # gen /\ TaskOver
          /\ UNCHANGED <<platform, socketVars, record, nid, jobs, reclaim, creating, rest,
                         questions, moves, wrong, slipped, checked>>

-----------------------------------------------------------------------------
(* The session manager's hooks.                                             *)

NewRecord(s, d) == nid' = nid + 1 /\ record' = [id |-> nid + 1, stay |-> s, dormant |-> d]

\* Whoever waits for a hook goes on: the room's task, or the rearm with what was deferred.
GoOn(by) ==
    \/ by = "task" /\ TaskOver /\ UNCHANGED <<replaying, probe>>
    \/ by = "replayed" /\ replaying' = Tail(replaying) /\ UNCHANGED <<serial, probe>>
    \/ by \in {"boot", "pass"} /\ probe' = Idle /\ UNCHANGED <<serial, replaying>>

Hooked(by, e) ==
    \/ /\ by = "task" /\ (replaying # <<>> => "beside" \in Windows)
       /\ tasks # <<>> /\ e = [kind |-> tasks[1].kind, stay |-> tasks[1].stay]
       /\ \/ e.kind = "removed" /\ tasks[1].at = "held"
          \/ tasks[1].at = "classified" /\ tasks[1].gen = gen
    \/ by = "replayed" /\ replaying # <<>> /\ e = Head(replaying)

\* A reload's window: both kinds of events wait for the rearm.
Defer(by, e) ==
    /\ Hooked(by, e) /\ quiesced /\ reclaim.by # by
    /\ deferred' = Append(deferred, e) /\ GoOn(by)
    /\ UNCHANGED <<platform, socketVars, record, nid, jobs, reclaim, creating, quiesced, ask,
                   moves, wrong, slipped, checked>>

\* register_on_join: an idle record, if the room has none.
Added(by, e) ==
    /\ Hooked(by, e) /\ e.kind = "added" /\ ~quiesced /\ creating = 0
    /\ IF record = NoRecord THEN NewRecord(e.stay, TRUE) ELSE UNCHANGED <<record, nid>>
    /\ GoOn(by) /\ checked' = FALSE
    /\ UNCHANGED <<platform, socketVars, jobs, reclaim, creating, quiesced, deferred, ask,
                   moves, wrong, slipped>>

\* Mutant: the jobs of a room are cancelled by its record's handle only.
NothingServedMutant(name) == name

\* Its jobs go, unless a record remains that was not taken.
NothingServed(name) == name \/ record = NoRecord

\* reclaim_room, without a record to take: by its room, the jobs go all the same.
CancelJobs == jobs' = (jobs /\ ~NothingServed(FALSE))

Takes(by, s) ==
    /\ record # NoRecord /\ reclaim = Idle
    /\ reclaim' = [by |-> by, id |-> record.id, gone |-> s]
    /\ wrong' = (wrong \/ record.stay > s)

\* The platform's word is about the room: whatever record it has goes.
Removed(by, e) ==
    /\ Hooked(by, e) /\ e.kind = "removed" /\ ~quiesced /\ reclaim = Idle
    /\ \/ Takes(by, e.stay) /\ UNCHANGED <<jobs, serial, probe, replaying>>
       \/ record = NoRecord /\ CancelJobs /\ GoOn(by) /\ UNCHANGED <<reclaim, wrong>>
    /\ UNCHANGED <<platform, socketVars, record, nid, creating, quiesced, deferred, ask, moves,
                   slipped>>
    /\ checked' = FALSE

\* The processor is stopped, the record is uninstalled and its row is pruned; or the file
\* cannot be written, and the record is back, idle.
Reclaimed ==
    /\ reclaim # Idle /\ reclaim' = Idle /\ GoOn(reclaim.by)
    /\ \/ record' = NoRecord /\ jobs' = (jobs /\ ~NothingServed(TRUE))
          /\ UNCHANGED <<slipped, moves>>
       \/ Fault /\ record' = [record EXCEPT !.dormant = TRUE] /\ UNCHANGED jobs
          /\ slipped' = Latest({slipped, reclaim.gone})
    /\ checked' = (checked /\ reclaim.by = "pass" /\ record' = NoRecord)
    /\ UNCHANGED <<platform, socketVars, nid, creating, quiesced, deferred, ask, wrong>>

-----------------------------------------------------------------------------
(* The record.                                                              *)

\* A message makes a record, or wakes the one there is.
Created ==
    /\ creating > 0 /\ reclaim = Idle /\ creating' = 0 /\ checked' = FALSE
    /\ (\E s \in Overdue : s < creating) => "parked" \in Windows
    /\ \/ NewRecord(creating, FALSE)   \* every start installs its own
       \/ UNCHANGED <<record, nid>>
    /\ slipped' = IF record = NoRecord /\ ~member /\ stay \notin Overdue THEN stay ELSE slipped
    /\ UNCHANGED <<platform, socketVars, serial, jobs, reclaim, rest, questions, moves, wrong>>

\* It is paused, or dropped; resumed, on a processor that is still there, it stays itself.
Turn ==
    /\ record # NoRecord /\ reclaim = Idle /\ ~quiesced /\ Fault
    /\ record' = [record EXCEPT !.dormant = ~@] /\ checked' = FALSE
    /\ UNCHANGED <<platform, socketVars, serial, nid, jobs, reclaim, creating, rest, questions,
                   wrong, slipped>>

\* The operator's expire, or the TTL: the record goes, its jobs stay.
Expire ==
    /\ record # NoRecord /\ reclaim = Idle /\ ~quiesced /\ Fault
    /\ record' = NoRecord /\ checked' = FALSE
    /\ UNCHANGED <<platform, socketVars, serial, nid, jobs, reclaim, creating, rest, questions,
                   wrong, slipped>>

Schedule ==
    /\ record # NoRecord /\ ~jobs /\ jobs' = TRUE /\ checked' = FALSE
    /\ UNCHANGED <<platform, socketVars, serial, record, nid, reclaim, creating, rest,
                   questions, moves, wrong, slipped>>

-----------------------------------------------------------------------------
(* A reload, the reconciliation, a crash and the boot.                      *)

\* quiesce: new transitions are refused; a reconciliation is cancelled where it is, also
\* in the middle of its reclamation, whose record is removed last.  There is none in a boot.
Quiesce ==
    /\ ~quiesced /\ replaying = <<>> /\ probe.by # "boot" /\ Fault /\ quiesced' = TRUE
    /\ probe' = Idle /\ checked' = (checked /\ probe = Idle)
    /\ reclaim' = IF reclaim.by = "pass" THEN Idle ELSE reclaim
    /\ UNCHANGED <<platform, socketVars, serial, record, nid, jobs, creating, deferred,
                   replaying, ask, wrong, slipped>>

\* rearm: what was deferred is handled in its order, beside the events that arrive by now.
Rearm ==
    /\ quiesced /\ reclaim = Idle /\ creating = 0
    /\ quiesced' = FALSE /\ replaying' = deferred /\ deferred' = <<>>
    /\ UNCHANGED <<platform, socketVars, serial, record, nid, jobs, reclaim, creating, questions,
                   moves, wrong, slipped, checked>>

\* _reconcile_membership takes its snapshot for the records that sleep.
Snapshot ==
    /\ record # NoRecord /\ record.dormant /\ ~quiesced /\ probe = Idle /\ ~checked
    /\ probe' = [by |-> "pass", id |-> record.id, gone |-> IF member THEN 0 ELSE stay]
    /\ checked' = TRUE
    /\ UNCHANGED <<platform, socketVars, serial, record, nid, jobs, reclaim, creating, rest, ask,
                   moves, wrong, slipped>>

\* Mutant: the record is not held against the one the answer is about.
SameMutant == record # NoRecord

\* The record is still the one the answer is about.
Same == record # NoRecord /\ record.id = probe.id

\* A record that sleeps in a room the snapshot does not have goes, if it still does.
Reconcile ==
    /\ probe.by = "pass" /\ reclaim = Idle
    /\ \/ probe.gone > 0 /\ Same /\ record.dormant /\ Takes("pass", probe.gone)
          /\ UNCHANGED <<probe, moves, checked>>
       \/ /\ probe.gone = 0 \/ ~(Same /\ record.dormant)
          /\ probe' = Idle /\ UNCHANGED <<reclaim, wrong, moves, checked>>
       \/ Fault /\ probe' = Idle /\ checked' = FALSE /\ UNCHANGED <<reclaim, wrong>>
    /\ UNCHANGED <<platform, socketVars, serial, record, nid, jobs, creating, rest, ask, slipped>>

\* The process dies; the record and the jobs are in their files.  What was active is asked
\* about before it is made again, once the events flow.
Crash ==
    /\ Fault /\ link' = TRUE /\ wire' = <<>>
    /\ gen' = 0 /\ tasks' = <<>> /\ UNCHANGED early
    /\ reclaim' = Idle /\ creating' = 0 /\ ask' = Idle
    /\ quiesced' = FALSE /\ deferred' = <<>> /\ replaying' = <<>>
    /\ probe' = IF record # NoRecord /\ ~record.dormant
                THEN [by |-> "boot", id |-> record.id, gone |-> IF member THEN 0 ELSE stay]
                ELSE Idle
    /\ slipped' = Latest({slipped, reclaim.gone} \cup Overdue)
    /\ checked' = FALSE
    /\ UNCHANGED <<platform, record, nid, jobs, wrong>>

\* _room_still_served: gone is reclaimed, unless a live event replaced the record; an answer
\* that does not come leaves it as it is.
Served ==
    /\ probe.by = "boot" /\ reclaim = Idle
    /\ \/ probe.gone > 0 /\ Same /\ Takes("boot", probe.gone) /\ UNCHANGED <<jobs, probe, moves>>
       \/ probe.gone > 0 /\ ~Same /\ CancelJobs /\ probe' = Idle /\ UNCHANGED <<reclaim, wrong, moves>>
       \/ /\ IF probe.gone = 0 THEN UNCHANGED moves ELSE Fault
          /\ probe' = Idle /\ UNCHANGED <<reclaim, wrong, jobs>>
    /\ UNCHANGED <<platform, socketVars, serial, record, nid, creating, rest, ask, slipped, checked>>

Next ==
    \/ Join \/ Kick \/ Say \/ LinkDown \/ LinkUp
    \/ Arrive \/ Answered \/ Classify \/ Outrun
    \/ \E by \in {"task", "replayed"} :
          \E e \in Range(replaying) \cup {[kind |-> t.kind, stay |-> t.stay] : t \in Range(tasks)} :
             Defer(by, e) \/ Added(by, e) \/ Removed(by, e)
    \/ Reclaimed \/ Created \/ Turn \/ Expire \/ Schedule
    \/ Quiesce \/ Rearm \/ Snapshot \/ Reconcile \/ Crash \/ Served

Spec == Init /\ [][Next]_memberVars

-----------------------------------------------------------------------------
AtRest == /\ wire = <<>> /\ tasks = <<>> /\ deferred = <<>> /\ replaying = <<>>
          /\ reclaim = Idle /\ creating = 0 /\ probe = Idle /\ ask = Idle

\* A record is taken only for the end of a stay it was there in, however old the news is;
\* once all that arrived is handled, a room the bot has left has neither record nor jobs,
\* unless the news was lost; and a record that sleeps does not outlive a reconciliation.
RoomFollowed ==
    /\ ~wrong
    /\ AtRest /\ slipped < stay /\ ~member => record = NoRecord /\ ~jobs
    /\ AtRest /\ checked /\ ~member => record = NoRecord \/ ~record.dormant
=============================================================================
