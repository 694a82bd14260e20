-------------------------- MODULE MessageProcessor --------------------------
(***************************************************************************)
(* One watcher's MessageProcessor (gateway/core/message_processor.py): the *)
(* bounded queue between the dispatcher and the agent, the consumer task   *)
(* that turns what is pending into one agent turn, and stop(), which drains *)
(* the queue behind a sentinel under a timeout.                            *)
(*                                                                         *)
(* The program runs on one event loop: the code between two awaits is one  *)
(* step here.  What an agent says is left out; a message is an identity    *)
(* with a role.                                                            *)
(***************************************************************************)
EXTENDS Naturals, Sequences

CONSTANTS
    Msgs,           \* the messages a connector may offer
    RoleOf,         \* RoleOf[m]: the sender's role
    MaxQueueDepth,  \* CoreConfig.max_queue_depth; 0 means unbounded
    Sentinel,       \* _DRAIN_SENTINEL
    MaxNotices      \* bound of the model: queue-full notices in flight at once

ASSUME DepthAssumption == MaxQueueDepth \in Nat
ASSUME NoticesAssumption == MaxNotices \in Nat
ASSUME RoleAssumption == RoleOf \in [Msgs -> {"owner", "guest", "anonymous"}]
ASSUME SentinelAssumption == Sentinel \notin Msgs

VARIABLES
    state,          \* _state: "running" | "draining" | "stopped"
    queue,          \* _queue
    task,           \* where the consumer task is suspended
    batch,          \* the messages of the turn the consumer is in
    turnInFlight,   \* _turn_in_flight
    drained,        \* the _drained event
    stopping,       \* where the (first) caller of stop() is
    notices,        \* number of _background_tasks
    cooling,        \* inside the queue-full notice cooldown
    sessionRole,    \* SessionMaps.role of this session; "none" before any turn
    accepted,       \* history: what enqueue() answered True for, in order
    finished,       \* history: what the consumer is done with, in order
    abandoned       \* history: the consumer was cancelled, or there was none

consumerVars == <<task, batch, turnInFlight, drained>>
noticeVars == <<notices, cooling>>
vars == <<state, queue, consumerVars, stopping, noticeVars, sessionRole,
          accepted, finished, abandoned>>

Accepted == {accepted[i] : i \in 1..Len(accepted)}

Full == MaxQueueDepth > 0 /\ Len(queue) >= MaxQueueDepth

\* Mutant: the processor's state is not consulted.
IsAcceptingMutant == ~Full

\* is_accepting: what the dispatcher reports as AVAILABLE, not FULL
IsAccepting == state = "running" /\ ~Full

\* Mutant: only the queue counts as work.
HasWorkInFlightMutant == queue # <<>>

\* has_work_in_flight: the busy gate the idle sweep reads
HasWorkInFlight == turnInFlight \/ queue # <<>>

Allowed(b) == {i \in 1..Len(b) : RoleOf[b[i]] # "anonymous"}

\* Mutant: the last message, whoever sent it.
IsAnchorMutant(b, i) == i = Len(b)

\* The last message that is not anonymous: the one the agent answers.
IsAnchor(b, i) == i \in Allowed(b) /\ \A j \in Allowed(b) : j <= i

-----------------------------------------------------------------------------
Init ==
    /\ state = "running"
    /\ queue = <<>>
    /\ task = "none"
    /\ batch = <<>>
    /\ turnInFlight = FALSE
    /\ drained = FALSE
    /\ stopping = "no"
    /\ notices = 0
    /\ cooling \in BOOLEAN      \* the cooldown is counted from loop time 0
    /\ sessionRole = "none"
    /\ accepted = <<>>
    /\ finished = <<>>
    /\ abandoned = FALSE

\* start(): create the consumer task.
Start ==
    /\ task = "none" /\ state = "running"
    /\ task' = "idle"
    /\ UNCHANGED <<state, queue, batch, turnInFlight, drained, stopping,
                   noticeVars, sessionRole, accepted, finished, abandoned>>

-----------------------------------------------------------------------------
(* enqueue(): the connector offers a message, and may offer a refused one   *)
(* again.                                                                   *)

EnqueueAccept(m) ==
    /\ IsAccepting
    /\ m \notin Accepted
    /\ queue' = Append(queue, m)
    /\ accepted' = Append(accepted, m)
    /\ UNCHANGED <<state, consumerVars, stopping, noticeVars, sessionRole,
                   finished, abandoned>>

\* The queue is full: a notice is posted by a background task, unless one
\* was posted within the cooldown.
EnqueueFull(m) ==
    /\ state = "running" /\ Full
    /\ m \notin Accepted
    /\ ~cooling /\ notices < MaxNotices
    /\ cooling' = TRUE
    /\ notices' = notices + 1
    /\ UNCHANGED <<state, queue, consumerVars, stopping, sessionRole,
                   accepted, finished, abandoned>>

NoticeSent ==
    /\ notices > 0
    /\ notices' = notices - 1
    /\ UNCHANGED <<state, queue, consumerVars, stopping, cooling, sessionRole,
                   accepted, finished, abandoned>>

CooldownOver ==
    /\ cooling
    /\ cooling' = FALSE
    /\ UNCHANGED <<state, queue, consumerVars, stopping, notices, sessionRole,
                   accepted, finished, abandoned>>

-----------------------------------------------------------------------------
(* The consumer.                                                            *)

\* Mutants: the sentinel is collected like a message; the last message is
\* taken for the sentinel.
BatchLenPastSentinelMutant(q) == Len(q)
BatchLenOffByOneMutant(q) == Len(q) - 1

\* How many messages one pass of get_nowait() collects: up to the sentinel.
BatchLen(q) ==
    LET stops == {i \in 1..Len(q) : q[i] = Sentinel}
    IN IF stops = {} THEN Len(q)
       ELSE (CHOOSE i \in stops : \A j \in stops : i <= j) - 1

\* The consumer at the top of its loop with queue q: it suspends in get(),
\* leaves on the sentinel, or starts a turn.  A sentinel at the head keeps it
\* in the inner loop that takes the rest one by one, modelled by leaving the
\* sentinel at the head until nothing is behind it.
Take(q) ==
    CASE q = <<>> ->
            [task |-> "idle", batch |-> <<>>, queue |-> q, flight |-> FALSE]
      [] q # <<>> /\ Head(q) = Sentinel /\ Len(q) = 1 ->
            [task |-> "done", batch |-> <<>>, queue |-> <<>>, flight |-> FALSE]
      [] q # <<>> /\ Head(q) = Sentinel /\ Len(q) > 1 ->
            [task |-> "context", batch |-> <<q[2]>>, flight |-> FALSE,
             queue |-> <<Sentinel>> \o SubSeq(q, 3, Len(q))]
      [] OTHER ->
            [task |-> "context", batch |-> SubSeq(q, 1, BatchLen(q)),
             queue |-> SubSeq(q, BatchLen(q) + 2, Len(q)), flight |-> TRUE]

Goto(next) ==
    /\ task' = next.task
    /\ batch' = next.batch
    /\ queue' = next.queue
    /\ turnInFlight' = next.flight
    /\ drained' = (next.task = "done")

\* A task that has been cancelled gets the cancellation before anything else.
Runs == stopping # "cancelling"

\* A put woke the consumer out of get().
Wake ==
    /\ Runs /\ task = "idle" /\ queue # <<>>
    /\ Goto(Take(queue))
    /\ UNCHANGED <<state, stopping, noticeVars, sessionRole, accepted, finished,
                   abandoned>>

\* The durable context is in place: the session maps take the anchor's role
\* and the agent's turn begins.
BeginTurn ==
    /\ Runs /\ task = "context"
    /\ \E i \in 1..Len(batch) : /\ IsAnchor(batch, i)
                               /\ sessionRole' = RoleOf[batch[i]]
    /\ task' = "agent"
    /\ UNCHANGED <<state, queue, batch, turnInFlight, drained, stopping,
                   noticeVars, accepted, finished, abandoned>>

\* The durable context could not be delivered: an error goes to the room.
ContextFails ==
    /\ Runs /\ task = "context" /\ Allowed(batch) # {}
    /\ task' = "reply"
    /\ UNCHANGED <<state, queue, batch, turnInFlight, drained, stopping,
                   noticeVars, sessionRole, accepted, finished, abandoned>>

\* Mutant: a draining consumer leaves after its turn, whatever is queued.
EndTurnMutant ==
    /\ Runs /\ task \in {"agent", "reply"}
    /\ finished' = finished \o batch
    /\ IF state = "draining"
       THEN /\ task' = "done" /\ batch' = <<>> /\ turnInFlight' = FALSE
            /\ drained' = TRUE /\ UNCHANGED queue
       ELSE Goto(Take(queue))
    /\ UNCHANGED <<state, stopping, noticeVars, sessionRole, accepted, abandoned>>

\* The turn is over, however it ended: leave if draining and nothing is left,
\* else take what is pending without suspending in between.  A batch with
\* anonymous senders only is dropped without a turn.
EndTurn ==
    /\ Runs
    /\ \/ task \in {"agent", "reply"}
       \/ task = "context" /\ Allowed(batch) = {}
    /\ finished' = finished \o batch
    /\ Goto(IF state = "draining" /\ queue = <<>> THEN Take(<<Sentinel>>)
                                                   ELSE Take(queue))
    /\ UNCHANGED <<state, stopping, noticeVars, sessionRole, accepted, abandoned>>

-----------------------------------------------------------------------------
(* stop().  A second caller returns at once: state is no longer "running".  *)

\* Refuse new messages, put the sentinel if it fits, and wait for the drain.
Stop ==
    /\ state = "running"
    /\ state' = "draining"
    /\ stopping' = IF task = "none" THEN "joined" ELSE "waiting"
    /\ queue' = IF task # "none" /\ ~Full THEN Append(queue, Sentinel) ELSE queue
    /\ abandoned' = (task = "none")
    /\ UNCHANGED <<consumerVars, noticeVars, sessionRole, accepted, finished>>

\* Mutant: stop() does not wait for a consumer that its cancellation has not ended.
StopDrainedMutant ==
    /\ \/ stopping = "waiting" /\ drained
       \/ stopping = "outlasted"
    /\ stopping' = "joined"
    /\ UNCHANGED <<state, queue, consumerVars, noticeVars, sessionRole,
                   accepted, finished, abandoned>>

\* The consumer has left: before the timeout, or at last, its cancellation swallowed.
StopDrained ==
    /\ stopping \in {"waiting", "outlasted"} /\ drained
    /\ stopping' = "joined"
    /\ UNCHANGED <<state, queue, consumerVars, noticeVars, sessionRole,
                   accepted, finished, abandoned>>

\* Mutant: the drain is awaited without a timeout.
StopTimeoutMutant == FALSE

\* drain_timeout expired: cancel the consumer, and await it.
StopTimeout ==
    /\ stopping = "waiting" /\ ~drained
    /\ stopping' = "cancelling"
    /\ UNCHANGED <<state, queue, consumerVars, noticeVars, sessionRole, accepted,
                   finished, abandoned>>

\* The cancellation reaches _run: its finally blocks run, and the rest is given up.
Cancelled ==
    /\ stopping = "cancelling"
    /\ task' = "done"
    /\ turnInFlight' = FALSE
    /\ drained' = TRUE
    /\ abandoned' = TRUE
    /\ stopping' = "joined"
    /\ UNCHANGED <<state, queue, batch, noticeVars, sessionRole, accepted, finished>>

\* It is swallowed by the agent's backend, where that awaits the end of a process or a
\* task of its own.  There is no other: the turn goes on, then the turns after it.
Swallowed ==
    /\ stopping = "cancelling" /\ task \in {"context", "agent"}
    /\ stopping' = "outlasted"
    /\ UNCHANGED <<state, queue, consumerVars, noticeVars, sessionRole, accepted,
                   finished, abandoned>>

\* Cancel and await the background tasks.
StopFinish ==
    /\ stopping = "joined"
    /\ stopping' = "returned"
    /\ notices' = 0
    /\ state' = "stopped"
    /\ UNCHANGED <<queue, consumerVars, cooling, sessionRole, accepted, finished,
                   abandoned>>

-----------------------------------------------------------------------------
Consumer == Wake \/ BeginTurn \/ ContextFails
Stopper == StopDrained \/ StopTimeout \/ Cancelled \/ Swallowed \/ StopFinish

Next ==
    \/ Start
    \/ \E m \in Msgs : EnqueueAccept(m) \/ EnqueueFull(m)
    \/ NoticeSent \/ CooldownOver
    \/ Consumer \/ EndTurn
    \/ Stop \/ Stopper

\* The event loop runs a ready task and fires a timer that is due.  Nothing
\* obliges anyone to offer a message, to stop the processor, or to start it.
LoopFairness == WF_vars(Consumer) /\ WF_vars(Stopper)

\* Every turn ends: the agent call and the replies run under timeouts.
TurnFairness == WF_vars(EndTurn)

Spec == Init /\ [][Next]_vars
FairSpec == Spec /\ LoopFairness

-----------------------------------------------------------------------------
(* Properties.                                                              *)

TypeOK ==
    /\ state \in {"running", "draining", "stopped"}
    /\ queue \in Seq(Msgs \cup {Sentinel})
    /\ task \in {"none", "idle", "context", "agent", "reply", "done"}
    /\ batch \in Seq(Msgs)
    /\ turnInFlight \in BOOLEAN /\ drained \in BOOLEAN
    /\ stopping \in {"no", "waiting", "cancelling", "outlasted", "joined", "returned"}
    /\ notices \in Nat /\ cooling \in BOOLEAN
    /\ sessionRole \in {"none", "owner", "guest"}
    /\ accepted \in Seq(Msgs) /\ finished \in Seq(Msgs)
    /\ abandoned \in BOOLEAN

\* No message is ever queued behind the drain sentinel, so leaving on the
\* sentinel leaves nothing behind: _run's two exits and stop() rely on it.
SentinelLast ==
    \A i \in 1..Len(queue) :
        queue[i] = Sentinel => i = Len(queue) /\ state # "running"

\* The messages of a queue with the sentinel, if any, at its end.
Pending(q) == IF q # <<>> /\ q[Len(q)] = Sentinel THEN SubSeq(q, 1, Len(q) - 1) ELSE q

\* Nothing accepted is lost, duplicated or reordered on its way through the
\* queue: what is finished, what the turn holds and what is pending are, in
\* this order, exactly what enqueue() accepted.
Conservation == accepted = finished \o batch \o Pending(queue)

\* The consumer's exit means a complete drain unless it was cancelled: whichever of
\* the three ways out of _run was taken, and though stop() had given up, nothing is left.
DrainComplete == task = "done" /\ ~abandoned => finished = accepted

\* has_work_in_flight never reads False while an accepted message has not been
\* dealt with by a live consumer: the idle sweep may trust it.
BusyGateSound ==
    task \notin {"none", "done"} /\ ~HasWorkInFlight => finished = accepted

\* While the agent works, the role its tool calls are judged by is that of the
\* last message in the batch that may speak at all, never one left behind by an
\* earlier turn or set by an anonymous sender.
ActsForAnchor ==
    task = "agent" =>
        \E i \in 1..Len(batch) :
            /\ sessionRole = RoleOf[batch[i]] /\ sessionRole # "anonymous"
            /\ \A j \in i+1..Len(batch) : RoleOf[batch[j]] = "anonymous"

\* After stop() has returned, no task of the processor is left: neither the
\* consumer nor a queue-full notice floats free.
NothingFloats == state = "stopped" => notices = 0 /\ task \in {"none", "done"}

\* The room's messages leave the queue in the order in which they came in, all of
\* them before the sentinel, and the drain leaves no task behind.
OrderedHandOver == SentinelLast /\ Conservation /\ NothingFloats

\* A stopped processor keeps still: nothing is accepted, taken or sent any more.
StoppedIsFinal == state = "stopped" => UNCHANGED <<state, queue, task, batch,
                        notices, sessionRole, accepted, finished>>

\* stop() returns even if the turn it waits for never ends; where the backend swallows
\* the cancellation, it waits for all the turns that are left, and returns if they end.
StopReturns ==
    /\ state = "draining" ~> (state = "stopped" \/ stopping = "outlasted")
    /\ TurnFairness => (stopping = "outlasted" ~> state = "stopped")

\* If turns end, every accepted message is finished, unless stop() abandoned the queue,
\* its cancellation effective, or the consumer was never started.
AcceptedIsHandled ==
    TurnFairness => \A m \in Msgs :
        (m \in Accepted /\ task # "none")
            ~> (abandoned \/ \E i \in 1..Len(finished) : finished[i] = m)
\* The queue, its sentinel, the batches and the consumer task implement the
\* promise of RoomInbox.
Phase == CASE state = "running" -> "open"
           [] state = "draining" -> "closing"
           [] state = "stopped" -> "closed"

Inbox == INSTANCE RoomInbox WITH handled <- finished, phase <- Phase,
                                 gaveUp <- abandoned

\* The processor keeps the promise RoomInbox makes to its callers: a stopped
\* processor that did not give up has handled everything it accepted, in order,
\* and it accepted nothing after stop() was called.
ImplementsInbox == Inbox!Spec

=============================================================================
