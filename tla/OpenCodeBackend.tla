-------------------------- MODULE OpenCodeBackend ---------------------------
(***************************************************************************)
(* An OpenCode agent: the sidecar process it talks to                       *)
(* (agents/opencode/adapter.py), the turns that start it again when it has  *)
(* died, the broker that answers its permission requests                    *)
(* (agents/opencode/listener.py), and the service that starts and stops both   *)
(* (service.py, AgentRuntimeManager).                                       *)
(*                                                                         *)
(* One step runs from one await to the next.  Every sidecar there has been  *)
(* has a number; it listens on the port it was given, and so does a later   *)
(* one that happens to be given the same port.                              *)
(***************************************************************************)
EXTENDS Naturals, FiniteSets

CONSTANTS
    Turns,        \* prompts, one for each of as many sessions
    Ports,
    MaxSpawns,    \* bound of the model: sidecars, one after the other
    MaxFailures,  \* _MAX_RESTART_FAILURES
    Slots,        \* of the broker's semaphore (10)
    MaxFaults,    \* bound of the model: refused starts, lost replies, cancellations
    Windows       \* what is explored besides: "spawn", stop() comes when a turn is
                  \* starting the sidecar again or has tried to

Sidecars == 1..MaxSpawns
None == 0
NoPort == "none"
Svc == "service"

VARIABLES
    live, port,   \* the sidecars that run, and the ports of all
    spawned,
    process, base, client, ever, failures,  \* the fields of OpenCodeBackend
    lock,         \* _restart_lock: who holds it
    at,           \* where each turn and the service are
    url, hears,   \* of each turn: base_url when it began, the sidecar whose events it reads
    prompt,       \* of each turn: the sidecar that has the prompt and how far it is
    listener,     \* the broker: its state, its _base_url and the sidecar its event stream comes from
    task,         \* of each turn: what became of its permission request
    faults

backendVars == <<process, base, client, ever, failures>>
sidecarVars == <<live, port, spawned>>
turnVars == <<url, hears, prompt>>
brokerVars == <<listener, task>>
vars == <<sidecarVars, backendVars, lock, at, turnVars, brokerVars, faults>>

Open == {"running", "asking"}
NoPrompt == [on |-> None, state |-> "none"]
NoBroker == [state |-> "none", url |-> NoPort, from |-> None]

Init ==
    /\ live = {} /\ port = [s \in Sidecars |-> NoPort] /\ spawned = 0
    /\ process = None /\ base = NoPort /\ client = FALSE /\ ever = FALSE /\ failures = 0
    /\ lock = "nobody"
    /\ at = [c \in Turns \cup {Svc} |-> "idle"]
    /\ url = [t \in Turns |-> NoPort] /\ hears = [t \in Turns |-> None]
    /\ prompt = [t \in Turns |-> NoPrompt]
    /\ listener = NoBroker
    /\ task = [t \in Turns |-> "none"]
    /\ faults = 0

At(c, where) == at' = [at EXCEPT ![c] = where]
Go(c, from, to) == at[c] = from /\ At(c, to)
Fault == faults < MaxFaults /\ faults' = faults + 1

\* The sidecar that listens on port p.
Listening(p) == {s \in live : port[s] = p}

-----------------------------------------------------------------------------
(* The runtime (_ensure_live_runtime, _start_inner, stop).                  *)

NeedsRestart == (process # None /\ process \notin live) \/ (ever /\ base = NoPort)
Tripped == failures >= MaxFailures

\* What follows the restart block: a turn goes on if there is a base_url.
Ensured(t) ==
    /\ At(t, IF base = NoPort THEN "ended" ELSE "connecting")
    /\ url' = [url EXCEPT ![t] = base]

\* stream(): the sidecar is looked at without the lock.
Begin(t) ==
    /\ at[t] = "idle"
    /\ \/ NeedsRestart /\ Tripped /\ At(t, "ended") /\ UNCHANGED url
       \/ NeedsRestart /\ ~Tripped /\ At(t, "waiting") /\ UNCHANGED url
       \/ ~NeedsRestart /\ Ensured(t)
    /\ UNCHANGED <<sidecarVars, backendVars, lock, hears, prompt, brokerVars, faults>>

\* Mutant: the runtime is not looked at again under the lock.
StillNeededMutant == TRUE

StillNeeded == NeedsRestart

\* The lock is free: whoever waited looks again, and restarts or goes on.
Locked(t) ==
    /\ at[t] = "waiting" /\ lock = "nobody"
    /\ \/ StillNeeded /\ Tripped /\ At(t, "ended") /\ UNCHANGED <<url, lock>>
       \/ StillNeeded /\ ~Tripped /\ At(t, "invalidating") /\ lock' = t /\ UNCHANGED url
       \/ ~StillNeeded /\ Ensured(t) /\ UNCHANGED lock
    /\ UNCHANGED <<sidecarVars, backendVars, hears, prompt, brokerVars, faults>>

\* _invalidate_dead_runtime() returns.
Invalidated(t) ==
    /\ Go(t, "invalidating", "spawning")
    /\ process' = None /\ base' = NoPort /\ client' = FALSE
    /\ UNCHANGED <<sidecarVars, ever, failures, lock, turnVars, brokerVars, faults>>

\* The process is there, on a port that was free.
Spawned(c) ==
    /\ Go(c, "spawning", "probing")
    /\ spawned < MaxSpawns
    /\ spawned' = spawned + 1 /\ process' = spawned'
    /\ live' = live \cup {spawned'}
    /\ \E p \in Ports \ {port[s] : s \in live} : port' = [port EXCEPT ![spawned'] = p]
    /\ UNCHANGED <<base, client, ever, failures, lock, turnVars, brokerVars, faults>>

\* Mutant: the lock is kept when a start fails.
FailedMutant(c) ==
    /\ At(c, IF c = Svc THEN "idle" ELSE "ended")
    /\ UNCHANGED lock

\* Where a start leads that failed, or that was cancelled.
Failed(c) ==
    /\ At(c, IF c = Svc THEN "idle" ELSE "ended")
    /\ lock' = "nobody"
Counted(c, byCancel) ==
    failures' = IF c = Svc \/ byCancel THEN failures ELSE failures + 1

\* The command is missing, or the turn is cancelled meanwhile.
NotSpawned(c) ==
    /\ at[c] = "spawning"
    /\ IF spawned = MaxSpawns THEN UNCHANGED faults ELSE Fault
    /\ Failed(c) /\ \E byCancel \in BOOLEAN : Counted(c, byCancel)
    /\ UNCHANGED <<sidecarVars, process, base, client, ever, turnVars, brokerVars>>

\* It is healthy and its configuration lists the plugin.
Healthy(c) ==
    /\ at[c] = "probing" /\ process \in live
    /\ base' = port[process] /\ client' = TRUE /\ ever' = TRUE
    /\ lock' = "nobody"
    /\ IF c = Svc THEN At(c, "brokering") /\ UNCHANGED <<failures, url>>
       ELSE /\ failures' = 0
            /\ At(c, "connecting") /\ url' = [url EXCEPT ![c] = base']
    /\ UNCHANGED <<sidecarVars, process, hears, prompt, brokerVars, faults>>

\* It is not, or the turn is cancelled: it is killed, and waited for.
Unhealthy(c) ==
    /\ at[c] = "probing" /\ (process \in live => Fault) /\ (process \notin live => UNCHANGED faults)
    /\ \E why \in {"cleaning", "giving up"} : At(c, why)
    /\ live' = live \ {process}
    /\ UNCHANGED <<port, spawned, backendVars, lock, turnVars, brokerVars>>

\* _cleanup_partial_start() returns.
CleanedUp(c) ==
    /\ at[c] \in {"cleaning", "giving up"}
    /\ process' = None /\ base' = NoPort
    /\ Failed(c) /\ Counted(c, at[c] = "giving up")
    /\ UNCHANGED <<sidecarVars, client, ever, turnVars, brokerVars, faults>>

\* What becomes of the prompts of sidecars that end.
Lost(gone) ==
    prompt' = [t \in Turns |-> IF prompt[t].on \in gone /\ prompt[t].state \in Open
                               THEN [prompt[t] EXCEPT !.state = "lost"] ELSE prompt[t]]

\* The process dies by itself.
Dies(s) ==
    /\ s \in live /\ Fault
    /\ live' = live \ {s} /\ Lost({s})
    /\ UNCHANGED <<port, spawned, backendVars, lock, at, url, hears, brokerVars>>

-----------------------------------------------------------------------------
(* A turn (stream, _post_message_async, _parse_sse_events).                 *)

\* The event stream is open before the prompt is posted, or the turn fails.
Connect(t) ==
    /\ at[t] = "connecting"
    /\ \/ \E s \in Listening(url[t]) : hears' = [hears EXCEPT ![t] = s] /\ At(t, "posting")
       \/ Listening(url[t]) = {} /\ At(t, "ended") /\ UNCHANGED hears
    /\ UNCHANGED <<sidecarVars, backendVars, lock, url, prompt, brokerVars, faults>>

\* The prompt goes to the base_url of now; the answer to the POST may be lost.
Post(t) ==
    /\ at[t] = "posting"
    /\ LET there == IF client THEN Listening(base) ELSE {}
       IN  \/ /\ there = {} /\ At(t, "ended")
              /\ UNCHANGED <<prompt, faults>>
           \/ \E s \in there :
                /\ prompt' = [prompt EXCEPT ![t] = [on |-> s, state |-> "running"]]
                /\ \/ At(t, "reading") /\ UNCHANGED faults
                   \/ At(t, "ended") /\ Fault
    /\ UNCHANGED <<sidecarVars, backendVars, lock, url, hears, brokerVars>>

\* The sidecar is done with a prompt: its last event ends the turn that reads it.
Finish(t) ==
    /\ prompt[t].state = "running"
    /\ prompt' = [prompt EXCEPT ![t].state = "finished"]
    /\ at' = IF at[t] = "reading" /\ hears[t] = prompt[t].on
             THEN [at EXCEPT ![t] = "ended"] ELSE at
    /\ UNCHANGED <<sidecarVars, backendVars, lock, url, hears, brokerVars, faults>>

\* The stream ends with its sidecar.
EndOfStream(t) ==
    /\ Go(t, "reading", "ended") /\ hears[t] \notin live
    /\ UNCHANGED <<sidecarVars, backendVars, lock, turnVars, brokerVars, faults>>

\* The deadline of the turn.
Deadline(t) ==
    /\ Go(t, "reading", "ended")
    /\ UNCHANGED <<sidecarVars, backendVars, lock, turnVars, brokerVars, faults>>

\* The turn is cancelled while it waits for something that is not a start.
Cancel(t) ==
    /\ at[t] \in {"waiting", "invalidating", "connecting", "posting", "reading"} /\ Fault
    /\ At(t, "ended") /\ lock' = IF lock = t THEN "nobody" ELSE lock
    /\ UNCHANGED <<sidecarVars, backendVars, turnVars, brokerVars>>

-----------------------------------------------------------------------------
(* The service (AgentRuntimeManager.start_some, stop_some).                 *)

\* start(): at once if there is a base_url, else under the lock.
Start ==
    /\ at[Svc] = "idle" /\ spawned < MaxSpawns
    /\ At(Svc, IF base # NoPort THEN "brokering" ELSE "locking")
    /\ UNCHANGED <<sidecarVars, backendVars, lock, turnVars, brokerVars, faults>>

StartLocked ==
    /\ at[Svc] = "locking" /\ lock = "nobody"
    /\ IF base # NoPort THEN At(Svc, "brokering") /\ UNCHANGED lock
       ELSE At(Svc, "spawning") /\ lock' = Svc
    /\ UNCHANGED <<sidecarVars, backendVars, turnVars, brokerVars, faults>>

\* create_gateway_broker(), and the broker's start(); where the base_url is gone again,
\* the backend is stopped and the agent unavailable.
Broker ==
    /\ at[Svc] = "brokering"
    /\ IF base = NoPort THEN At(Svc, "denying") /\ UNCHANGED listener
       ELSE At(Svc, "serving") /\ listener' = [state |-> "up", url |-> base, from |-> None]
    /\ UNCHANGED <<sidecarVars, backendVars, lock, turnVars, task, faults>>

\* Mutant: a request that a human is asked about is not rejected at the end.
EndsAsMutant(state) ==
    CASE state \in {"queued", "human"} -> "abandoned"
      [] state \in {"auto", "parsing", "sent"} -> "missed"
      [] OTHER -> state

\* What stop() makes of a task: only those that wait for a human are rejected; a reply
\* of the broker's own is cancelled, like the reading of a request.
EndsAs(state) ==
    CASE state \in {"queued", "human"} -> "denying"
      [] state \in {"auto", "parsing", "sent"} -> "missed"
      [] OTHER -> state

\* The broker's stop(): its stream and its tasks are cancelled.
StopBroker ==
    /\ Go(Svc, "serving", "denying")
    /\ listener' = [listener EXCEPT !.state = "stopping", !.from = None]
    /\ task' = [t \in Turns |-> EndsAs(task[t])]
    /\ UNCHANGED <<sidecarVars, backendVars, lock, turnVars, faults>>

\* stop() has nothing to do when there is no process.
NothingToStop == process = None /\ ("spawn" \in Windows \/ ~ever)

\* The rejections are out: the backend's stop(), which looks at the process first.
StopBackend ==
    /\ at[Svc] = "denying" /\ \A t \in Turns : task[t] # "denying"
    /\ listener' = NoBroker
    /\ \/ NothingToStop /\ At(Svc, "stopped")
       \/ process # None /\ At(Svc, "stopping")
    /\ UNCHANGED <<sidecarVars, backendVars, lock, turnVars, task, faults>>

\* The lock is free.
StopLocked ==
    /\ at[Svc] = "stopping" /\ lock = "nobody"
    /\ \/ NothingToStop /\ At(Svc, "stopped") /\ UNCHANGED lock
       \/ process # None /\ At(Svc, "terminating") /\ lock' = Svc
    /\ UNCHANGED <<sidecarVars, backendVars, turnVars, brokerVars, faults>>

\* Mutant: the backend still counts as one that has been started.
ForgottenMutant == UNCHANGED <<ever, failures>>

Forgotten == ever' = FALSE /\ failures' = 0

\* The process has ended, and everything is forgotten.
Terminated ==
    /\ Go(Svc, "terminating", "stopped")
    /\ live' = live \ {process} /\ Lost({process})
    /\ process' = None /\ base' = NoPort /\ client' = FALSE /\ Forgotten
    /\ lock' = "nobody"
    /\ UNCHANGED <<port, spawned, url, hears, brokerVars, faults>>

-----------------------------------------------------------------------------
(* Permission requests (OpenCodePermissionBroker).                          *)

Up == listener.state = "up"

\* _listen_sse() is connected; its url is the one the broker was made with.
Listen ==
    /\ Up /\ listener.from \notin live
    /\ \E s \in Listening(listener.url) : listener' = [listener EXCEPT !.from = s]
    /\ UNCHANGED <<sidecarVars, backendVars, lock, at, turnVars, task, faults>>

\* The stream breaks: what was on its way in it is gone.
Broken ==
    /\ Up /\ listener.from \in live /\ Fault
    /\ listener' = [listener EXCEPT !.from = None]
    /\ task' = [t \in Turns |-> IF task[t] \in {"sent", "parsing"} THEN "missed" ELSE task[t]]
    /\ UNCHANGED <<sidecarVars, backendVars, lock, at, turnVars>>

\* A prompt asks for a permission, and waits.
Ask(t) ==
    /\ prompt[t].state = "running" /\ task[t] = "none"
    /\ prompt' = [prompt EXCEPT ![t].state = "asking"]
    /\ task' = [task EXCEPT ![t] = IF Up /\ listener.from = prompt[t].on THEN "sent" ELSE "missed"]
    /\ UNCHANGED <<sidecarVars, backendVars, lock, at, url, hears, listener, faults>>

Task(t, from, to) == task[t] = from /\ task' = [task EXCEPT ![t] = to]

\* _handle_sse_line(), one line at a time, up to its await of a thread.
Parse(t) ==
    /\ Up /\ \A u \in Turns : task[u] # "parsing"
    /\ Task(t, "sent", "parsing")
    /\ UNCHANGED <<sidecarVars, backendVars, lock, at, turnVars, listener, faults>>

\* It answers by itself, or hands over to a task that asks a human.
Decide(t) ==
    /\ \E to \in {"auto", "queued"} : Task(t, "parsing", to)
    /\ UNCHANGED <<sidecarVars, backendVars, lock, at, turnVars, listener, faults>>

\* Mutant: the slot of a request is kept when its human has answered.
HeldMutant == {t \in Turns : task[t] \notin {"none", "sent", "parsing", "auto", "queued"}}

\* The requests that hold the semaphore.
Held == {t \in Turns : task[t] = "human"}

AskHuman(t) ==
    /\ Cardinality(Held) < Slots /\ Task(t, "queued", "human")
    /\ UNCHANGED <<sidecarVars, backendVars, lock, at, turnVars, listener, faults>>

\* _reply_to_opencode(), which a human's answer, or that none came in time, leads to as
\* well: a failure is only logged.
Reply(t) ==
    /\ task[t] \in {"auto", "human", "denying"}
    /\ \/ /\ prompt[t].on \in Listening(listener.url) /\ prompt[t].state = "asking"
          /\ prompt' = [prompt EXCEPT ![t].state = "running"]
          /\ task' = [task EXCEPT ![t] = "answered"] /\ UNCHANGED faults
       \/ /\ prompt[t].on \in live => Fault
          /\ prompt[t].on \notin live => UNCHANGED faults
          /\ task' = [task EXCEPT ![t] = "unanswered"] /\ UNCHANGED prompt
    /\ UNCHANGED <<sidecarVars, backendVars, lock, at, url, hears, listener>>
-----------------------------------------------------------------------------

TurnNext(t) ==
    \/ Begin(t) \/ Locked(t) \/ Invalidated(t) \/ Connect(t) \/ Post(t)
    \/ EndOfStream(t) \/ Deadline(t) \/ Cancel(t)
StarterNext(c) == Spawned(c) \/ NotSpawned(c) \/ Healthy(c) \/ Unhealthy(c) \/ CleanedUp(c)
SidecarNext == (\E s \in Sidecars : Dies(s)) \/ (\E t \in Turns : Finish(t) \/ Ask(t))
SvcNext == Start \/ StartLocked \/ Broker \/ StopBroker \/ StopBackend \/ StopLocked \/ Terminated
AskNext(t) == Parse(t) \/ Decide(t) \/ AskHuman(t) \/ Reply(t)

Next ==
    \/ SidecarNext \/ SvcNext \/ Listen \/ Broken
    \/ \E t \in Turns : TurnNext(t) \/ AskNext(t)
    \/ \E c \in Turns \cup {Svc} : StarterNext(c)

\* What goes on by itself once it is under way: a coroutine that can go on does, a
\* start ends by its timeout, a turn by its deadline, a question by its own
\* (_wait_for_health, _parse_sse_events, request_permission).
GoesOn ==
    \/ \E t \in Turns : Locked(t) \/ Invalidated(t) \/ Connect(t) \/ Post(t) \/ Deadline(t)
    \/ \E t \in Turns : AskNext(t)
    \/ \E c \in Turns \cup {Svc} : StarterNext(c)
    \/ StopBackend \/ StopLocked \/ Terminated

Spec == Init /\ [][Next]_vars
-----------------------------------------------------------------------------
(* Properties.                                                              *)

Places == {"idle", "waiting", "invalidating", "spawning", "probing", "cleaning", "giving up",
           "connecting", "posting", "reading", "ended", "locking", "brokering", "serving",
           "denying", "stopping", "terminating", "stopped"}
TaskStates == {"none", "sent", "parsing", "auto", "queued", "human", "denying",
               "answered", "unanswered", "missed", "abandoned"}
Working == {"sent", "parsing", "auto", "queued", "human", "denying"}

\* The fields hold what they may hold, and the lock is held by one that is at work
\* under it.
TypeOK ==
    /\ live \subseteq 1..spawned /\ spawned \in 0..MaxSpawns
    /\ port \in [Sidecars -> Ports \cup {NoPort}]
    /\ process \in 0..spawned /\ base \in Ports \cup {NoPort}
    /\ client \in BOOLEAN /\ ever \in BOOLEAN /\ failures \in 0..MaxFailures
    /\ lock \in Turns \cup {Svc, "nobody"}
    /\ lock # "nobody" => at[lock] \in {"invalidating", "spawning", "probing", "cleaning",
                                        "giving up", "terminating"}
    /\ at \in [Turns \cup {Svc} -> Places]
    /\ task \in [Turns -> TaskStates] /\ listener.url \in Ports \cup {NoPort}

\* There is never more than one sidecar, however many turns found the last one dead
\* and wherever a start of theirs failed or was cancelled; and what is alive is what
\* the backend knows of, so that stop() can end it.
OneSidecar == live \subseteq {process}

\* A backend that was stopped stays stopped: a turn that had waited for the lock, or
\* was about to post, does not start a sidecar that nobody would end (stop, under the
\* lock, clears what _ensure_live_runtime looks at).
StaysStopped == at[Svc] = "stopped" => live = {} /\ base = NoPort

\* A request that waits is one the broker works on, or one that was lost on its way: the
\* event was not read, or its answer did not arrive; a request that waits for a human is
\* rejected when the broker is stopped, so that the sidecar does not wait for it.
NoAskForgotten ==
    \A t \in Turns : prompt[t].state = "asking" =>
        task[t] \in Working \cup {"missed", "unanswered"}

\* Nobody waits for what cannot come: as long as a turn is under way, or the broker
\* works on a request, some coroutine can go on, so that with none of them able to the
\* lock is free, no slot of the semaphore is held and every turn has ended.  (No step
\* of GoesOn can be taken for ever: this is that they all end.)
NobodyIsStuck ==
    (\E t \in Turns : at[t] \notin {"idle", "ended"} \/ task[t] \in Working) => ENABLED GoesOn

\* "Everything opencode asks about reaches this broker ... so nothing waits on an
\* answer that never comes" (the class's docstring): what the backend's sidecar asks
\* is asked where the broker listens.
AsksReachTheBroker ==
    \A t \in Turns :
        Up /\ prompt[t].state = "asking" /\ prompt[t].on = process /\ process \in live
            => listener.url = port[process]
=============================================================================
