# A TLA+ development for AgentCoop

AgentCoop is a gateway between chat rooms (Mattermost, Rocket.Chat, voice, a
script connector) and coding agents (Claude Code, OpenCode).  For every room the
bot serves there is a *watcher*: a persisted record, an agent session, and, while
the room is in use, a message processor.  Everything runs on one asyncio event
loop, so what can go wrong goes wrong at an `await`: two coroutines inside one
watcher, a record read before a lock and used after it, a start that fails half
way, a save in the middle of somebody else's transition, a crash.

This directory models the parts where that matters, checks the models with TLC
on small instances, and proves the most important results with TLAPS.  Paths are
relative to the repository.

## 1. Inventory

Paths are under `src/gateway/`.

| Component | State it keeps | Operations | Interacts with | What is hard | What makes it correct |
|---|---|---|---|---|---|
| **MessageProcessor** `core/message_processor.py` | queue, batch, in-flight turn, stop state, queue-full notices, the session's role | `start`, `enqueue`, `_run`, `_process`, `stop`, `rename` | called by the dispatcher and the lifecycle; calls the agent and the connector | a stop at any await; a full queue when the sentinel is due; a sentinel inside a batch | accepted messages are handled once and in order; stop returns and leaves nothing running; the busy gate is never wrong |
| **Agent turns** `core/agent_turn_runner.py`, `agents/claude/adapter.py` | the turn, its command line process and pipe | `run_turn`, `stream`, `send`, `create_session` | processor, session | deadline, cancellation, a process that hangs, lingers or closes its stdout | one process at a time is at work on a session; what is posted is what it said, or an error |
| **Injected context** `core/injected_context_builder.py` | which sessions were told which header | `ensure`, `rename`, re-arming | lifecycle, processor, both backends | a rename while an injection is in flight, a failed one, a restart | a watcher that serves its room has the room's current header |
| **Permission requests** `core/permission*.py`, `core/expiry_task.py` | registry of requests and futures | register, resolve, expire, cancel of a session | brokers, dispatcher (owner's commands), idle sweep (busy gate) | an answer racing the timer, the sweep and the session's end | a call runs only on a matching approve; each request is decided once and found until then |
| **Claude broker** `agents/claude/broker.py` | open hook connections | decide by policy or by a human; stop | registry, session maps | shutdown with hooks waiting | every hook is answered |
| **OpenCode backend and broker** `agents/opencode/` | sidecar process, port, client, breaker; event stream, reply tasks | start, self-heal restart, turn, stop; ask, decide, reply | service, registry | several turns find the sidecar dead; starts fail or are cancelled half way; a stop meets a restart | one sidecar, none after stop; no request that was read is forgotten |
| **Session maps** `core/session_maps.py` | session to room, connector, role, thread | bind, update, remove | lifecycle, brokers, processor | stale entries of an ended session | a role is that of the session's current turn |
| **Watcher lifecycle** `core/watcher_lifecycle.py` | records by room, index of names, processors, per-watcher locks | start, pause, resume, reset, idle drop, expire, reclaim, restart, rename, stop all | manager, sweep, session manager, dispatcher, session maps, state store, connector, agent | all of the above at once | section 4 |
| **Watcher manager** `core/watcher_manager.py` | per-room locks, episodes in flight, the disarm flag | `get_or_create`, `register_on_join`, drain | lifecycle | a wake parked on a lock across a pause, an expiry, a shutdown | a wake never acts on a record that is no longer the room's |
| **Session manager** `core/session_manager.py` | phase of the connector | boot evaluation, quiesce and rearm, reload hooks, membership, shutdown | lifecycle, manager, sweep, connectors | live messages during the boot evaluation; events deferred by a reload | a shutdown's save is the last one |
| **Membership** `core/session_manager.py`, both `connector.py` | events waiting for a room's lock, deferred events, generations | joined, left, the questions of a replay, a boot and the daily pass | manager, lifecycle, job store | the bot leaves and is back before anyone has acted | a room's record and jobs follow the bot's membership of it |
| **Lifecycle sweep** `core/lifecycle_sweep.py` | its task | drop or expire each record | lifecycle | cancelled in the middle of a drop | never drops a room in use |
| **State store** `core/state_store.py`, `core/state.py` | `state.<connector>.json` | load, merging save with prune | lifecycle | rows nobody prunes come back | the file stands for the records |
| **Dispatcher** `core/dispatch.py` | room to processor | claim, release, deliver, permission commands | processors, registry | two watchers claiming one room | one room, one processor |
| **Replay** `core/replay_window.py`, `core/pending_route.py` | watermark, replay window, ids seen, parked messages | claim, discharge, remember, park, route | both connectors, manager | overlap of live and replayed frames | nothing above the watermark is lost |
| **Rocket.Chat and Mattermost connectors** `connectors/*/connector.py`, `websocket.py` | rooms' subscriptions, queues, workers, replays | dispatch, replay after a reconnect and after a wake, pause, removal | replay window, manager, websocket | reconnects, full queues, failures, removals, crashes at any await | no message is skipped, or handed over twice by one subscription |
| **Rocket.Chat websocket** `connectors/rocketchat/websocket.py` | socket, subscriptions, the stream of all rooms, recovery | subscribe, unsubscribe, recover, the boot's switch | the server | attempts, the switch, a recovery and a revocation overlap | a live subscription is known, and a room has one path |
| **Rocket.Chat REST** `connectors/rocketchat/rest.py` | token, login lock | calls, downloads, uploads, re-login | the server | the token expires under several calls | one login replaces it; nothing is done twice |
| **Voice connector** `connectors/voice/connector.py` | per room a lock, a queue, a flag | a request, `send_text` | processor | timeouts, late answers, texts of others | a caller hears the answer to its own request |
| **Agent chain** `core/agent_chain.py` | turns taken per thread and sender | spend, give back, reset | both connectors' filters and deliveries | overlapping deliveries that end after a reset or an expiry | a count is the number of turns held |
| **Bot accounts** `core/bot_identity.py`, `core/reconcile.py` | what each connector of an account answers | barrier, claims, reconciliation of records | service, manager | rules and records change one after another | no direct message is answered by two bots |
| **Scheduler and job store** `core/scheduler.py`, `core/job_store.py`, `core/job_migrate.py` | `jobs.json`, fire lock | run, catch up, fire, retarget, cancel, migrate | manager (wake), control socket | a crash between firing and writing; edits during a fire | within its number of runs a due job fires once per slot; ended jobs stay ended; the schema version is true |
| **Service, reload, agent runtimes** `service.py`, `reload_plan.py`, `config_diff.py` | running connectors and agents, the active configuration | boot, reload, recover, shutdown | everything | a reload that fails half way, wakes and verbs beside it | what is running is what the configuration says |
| **Host** `daemon.py`, `runtime_lock.py`, `control.py`, `cli.py`, `upgrade.py` | pid file, control socket | start, stop, restart, upgrade, a request | the operating system | a kill or a second command between any two system calls | one gateway runs, and the commands find it |
| **Editing of the configuration** `config_edit.py`, `configtool/model.py` | `config.yaml`, its temporary file, backups | plan, check, save; the tool's document | operators, an editor | two savers, a writer that dies | no edit is lost, none gets in that was refused |
| **Room patterns and rules** `core/room_pattern.py`, `core/watcher_rule.py`, `config.py` | none | match, first rule, dead exceptions, shadowed rules | manager, validation | a search with a limit and refused alphabets, whose two uses have opposite safe sides | what the validation says is what the rules do |
| **Prompts, tool matching, policies, normalisation, screens, schema, history, paths** | none shared with the loop | | | | not modelled: section 7 |

## 2. Plan

The order in which the modules were written, the most important behaviour first:

1. `RoomInbox`, `MessageProcessor`: the queue every message goes through.  Checked
   and proved, with the refinement.
2. `PermissionBroker`: what lets a tool call run.  Checked, safety proved.
3. `WatcherLifecycle`: the records, processors and names of one connector.  Checked;
   types, index and file proved, and for rooms that keep their names that transitions
   exclude each other, watchers are whole, records and pauses stay, shutdowns are final.
4. `Scheduler`: the task, the store and its file.  Checked; type, schema version,
   finality, budget and slots proved.
5. `ReplayWindow`, `RCConnector`, `MMConnector`, `RCWebSocketClient`: from the platform
   to the inbox.  Checked.
6. `OpenCodeBackend`, `AgentTurn`, `InjectedContext`: the agents.  Checked and proved.
7. `ServiceReload`, `Host`, `ConfigEdit`: the process and its configuration.  Checked
   and proved.
8. `BotAccounts`, `Membership`, `AgentChain`: what several connectors, or several
   events, mean together.  Checked and proved.
9. `VoiceRoom`, `RestSession`, `RoomPatterns`.  Checked; the first two proved.

Still open: theorems about the connectors (`HandledOnce`, `OneLiveSubscription`);
a composition of `ServiceReload` with the abstract connector
that `WatcherLifecycle` implements.

## 3. The modules

Each module says in its header and at its constants what stands for what; PROJECT.json
maps every definition to lines of the source.

| Module | What it is |
|---|---|
| `RoomInbox` | Abstract: messages are accepted in order, handled in order, and the inbox closes drained or abandoned. |
| `MessageProcessor` | `queue` holds the messages and the sentinel; `task` is where the consumer is (`idle`, `context`, `agent`, `reply`, ...); `state` where `stop()` is.  One action for each step between two awaits. |
| `PermissionBroker` | One action per step of a hook's handler (`Hook`, `Decide`, `Ask`, posts, `Resolved`, `Timeout`, `Regretted`), of an owner's command, of the sweep, of a stopping session and of a stopping broker. |
| `WatcherLifecycle` | Section 4. |
| `Scheduler` | `scheduler.py`, `job_store.py`, `job_migrate.py`, the schedule commands of `control.py`, the reload's pause of the scheduler. |
| `ReplayWindow` | Operators on a room's mark, window, ids seen and routing buffer; both connectors are built on it. |
| `RCConnector`, `MMConnector` | One room of either connector.  A message is its timestamp; the live worker, the replay after a reconnect and the replay of a wake (`disp`) dispatch beside each other and suspend while a message is normalised and handled. |
| `RCWebSocketClient` | `subs`, `stream`, the attempts (`att`), the recovery (`rec`) and the boot, step by step from frame to frame; `server` and `wire` are the other side. |
| `AgentChain` | The counters of one thread and sender, and the deliveries that hold turns. |
| `BotAccounts` | What each bot's rules claim (`active`, `target`) and its records hold; the phases of a reload and a boot between which messages come. |
| `VoiceRoom` | One voice room: who waits for the lock, `queue`, `active` (`dispatch_active`), and the turns behind it. |
| `RestSession` | The token, the callers and where each is: headers made, sent, refused, logging in. |
| `OpenCodeBackend` | Sidecars by number, the backend's fields, the turns, the broker's stream and tasks, the service's start and stop. |
| `AgentTurn` | `pc` is the await a turn is at; `proc`, `pipe` and `written` are the process it started. |
| `InjectedContext` | The header as the number of the rename it tells of: the record's flag, the agent, the injection and the rename under way. |
| `ServiceReload` | Configurations are versions; a backend or a connection is a name and the round that started it. |
| `Host` | Daemons and commands as processes whose steps are system calls. |
| `ConfigEdit` | A document is the set of edits in it; commands, tools and an editor write the file. |
| `Membership` | `stay` numbers the bot's stays in the room; events, deferred events, answers and records carry the stay they come from. |
| `RoomPatterns` | The automata and both searches, one node a step, against a reference definition of what a pattern means that knows no automata. |
| `...Proofs` | Theorems about a module. |
| `MC...` | Instances for TLC.  Where one runs several modules, one `kind` of them is at work in a behaviour and the others keep still. |

**MessageProcessor.**  `Take`, `Goto` are one action with the dequeue of
`_run`, since no await lies between them; an `enqueue` is one action, because it
does not suspend before the message is queued.  `StopTimeout` may be taken while
a turn is in progress; `stop()` then cancels the consumer and awaits it.  Either the
cancellation ends it (`Cancelled`, and what is left is `abandoned`), or the backend
swallows it (`Swallowed`): `_terminate_gracefully` of the Claude backend does in the
grace period after SIGTERM (`claude/adapter.py:181-185`), and the OpenCode backend while it
reaps a dead sidecar's task (`opencode/adapter.py:658-664`).  The consumer, `outlasted`,
then ends its turn and takes what is queued, and `stop()`, which does not cancel
twice, joins it when the queue is empty.  A context failure (`ContextFails`) gives the batch up like the code
does.  The sender's role is one of owner, guest and anonymous; a batch of
anonymous messages only is dropped after a suspension that the model allows at
any point of the context step.

**PermissionBroker.**  A post to a room may raise after it has reached the room
(`Seen`, then `PostRaised`): the connector's request may time out after the
server accepted it.  `wait_closed()` is nondeterministic because its behaviour
depends on the Python version.  A request's `old` is set by time at any moment.
Both `wait_for`'s timer and the registry write the same future; a timer cancels
the future first, which is why the later `resolve` returns early.

**Scheduler.**  Time is a few numbered slots and a cron expression is the set of
slots it names; `next = 0` stands for no next run, `Never` for one beyond the
clock.  `rec` is the job objects, `listed` the store's dictionary (a deleted
object lives on in a fire's copy), `file` is `jobs.json`.  A fire is
`Launch` → `Injected` → `WriteFields` → `SaveFire`, with an await before each; a
write through `to_thread` is two steps, memory and then the file.  The fire lock
is `pc = "idle"`: a reload stops the task only there.  The control socket's
commands save in the same step.  `Crash` loses all but the file; because nothing
reads memory until `Load`, memory is given the file's content at once.
`SaveMayFail` lets any write of the file raise.  Left out: records without an
attempt time, counts or cron expressions edited by hand, files of a newer schema.
A reload may leave a connector degraded or gone (`link`); a degraded one is skipped.

**Windows and excuses.**  Where the code has a race that breaks a property, the
property is stated so that everything else is still checked.  Either the step that opens
the race is guarded by membership of the constant `Windows` (empty in the passing runs;
giving it a member shows the counterexample), or a history variable records that it was
taken (`excused`, `left`, `missed`, `torn`, `doubled`, `overlapped`, `raced`, ...) and the
property speaks of the behaviours without it.  Section 6 lists all of them.

## 4. WatcherLifecycle

A transition (a wake, a pause, ...) is a coroutine: a record in `task` with the
locals that outlive its awaits (`name`, the record object it read, `pin`, the
record it builds, `ws`, and the one it replaces, `prior`).  `at` names the await:

    room ─ lock ─┬ provisioning ─ injecting ─ subscribing      (a start)
                 ├ stopping ─ ...                               (pause, reset, restart, halt, leave)
                 ├ dropping                                     (idle drop)
                 └ reclaiming                                   (expiry, removal)

Locks follow the code: a room lock for wakes and joins, and a lock object per
watcher *name*.  `key` is the name a lock object is found under now: a rename
moves it, and pushes an object that was under the new name out of the index
(`Detached`).  `roomOf` is the index from names to rooms; all operators' verbs
and rollbacks go through it, as in the code.  `disk` is the file by name,
written by `Save`, which merges.  `Boot` stands for a crash at any moment and for
an ordinary start: it forgets everything but the file.

Phases: `booting` (inbound is open, the boot evaluation has not begun),
`walking` and `stamped` (it is under way, has marked a record), `serving`, `draining` (disarmed),
`quiet` (drained: a reload does its work, or the shutdown stops all), `stopped`.

Deliberate abstractions: clocks (whether a record is past its TTL is a choice,
except that a record made in this run is not past it during the boot
evaluation); rule matching (a room without a record is claimed or not);
the creation cap; history and attachments (they are the awaits of `injecting`);
`stop_all` is one step, since its processors are independent; an idle drop's
busy gate is a choice, its soundness being `BusyGateSound` of the processor.
`RenamesAnytime = FALSE` restricts renames to moments without a transition in
the room: with TRUE two of the divergences below appear.  `StartsMayFail` and
`SaveMayFail` switch failures on.

## 5. What is checked and proved

| Run | Question | Instance |
|---|---|---|
| `processor` | Are accepted messages handled once and in order, whatever moment `stop()` comes, and does the processor implement `RoomInbox`?  Does quiescence of the lifecycle end, with the file equal to memory?  Is one process at a time at work on a session?  Does the agent know the room's name? | 4 messages of 3 roles, queue of 2 (so that it fills, and the sentinel finds it full), 2 notices; 1 room with 2 coroutines that wake, reset, halt, restart and revive; 2 CLI processes of 2 lines each; 2 renames, 3 failures |
| `permission` | Is a request found and decided once, does a call run only on a matching approve, is every hook answered?  Is there one sidecar, and no question forgotten?  Is the check of the rules right? | 2 sessions, 2 rooms, 2 calls, **one** id (so that ids collide), 2 attempts, or 1 call with 2 threads; 2 OpenCode turns, 2 ports, 2 spawns, 2 faults, 1 slot of the broker; all patterns of 2 tokens, names of 3 characters, a limit of 5, folding or not |
| `permission_stale` | Divergence: the registry keeps a request that timed out | violated |
| `lifecycle` | Are transitions exclusive, rooms served wholly or not at all, records kept, pauses respected?  Do the indexes and the file agree while names move? | 1 room, 2 coroutines, all failures; 2 rooms and 3 names (rooms can swap), 2 coroutines |
| `lifecycle_stamp` | Divergence: the boot evaluation marks a running watcher idle | violated |
| `lifecycle_rollback` | Divergence: a failed wake pops the record | violated |
| `scheduler` | Is a slot fired once, a number of runs kept, the schema version true, an ended job ended, a due job settled? | 1 job of 2 runs (old schema or new), 3 slots, catch-up cap 2, 1 crash, 1 reload, all commands |
| `scheduler_paused` | Divergence: a job paused in the middle of a pass still fires | violated |
| `connectors` | Is every message of a room handled, by a subscription at most once, and none from before a removal?  Has a room one live subscription?  Is a turn budget honest, a direct message answered by one bot, a caller served? | 3 messages, queue of 2, 1 parked, page of 2, together 5 messages and faults, 2 subscriptions; websocket: 1 room, 5 attempts, 2 drops; 2 deliveries, 2 turns; 2 bots, 2 scopes, 2 reloads; 3 voice requests; 2 REST callers, 2 lapses of the token |
| `mattermost_cancel` | Divergence: a reconnect loses the post its predecessor held | violated |
| `opencode_deaf` | Divergence: a restarted sidecar asks where nobody listens | violated |
| `service` | Is what runs what the configuration says, one backend per agent?  One gateway per host?  Is an edit of the configuration lost?  Do a room's record and jobs follow the bot's membership? | 2 interchangeable connectors on 1 agent, 2 applies after the boot, 1 fault, 1 broken apply; 2 daemons, 2 of 3 commands at a time, 1 kill; 2 writers, 3 edits, 1 bad, 1 death; 2 stays, together 3 moves |

Several modules share a run where their instances are small: the variable `kind`
says which of them is at work, and the others keep still.

Why the bounds are enough: the hazards are races of two actors about one thing,
and each bound is the smallest at which the race, its repetition and what follows
from it happen.  In the lifecycle that is two coroutines and one room, or two
rooms and three names for a swap.  Jobs meet only in the order of a pass, so one
job with three slots contains a slot that is late, one that is missed behind it,
and a next one.  A queue of two fills with three messages.  One outage of a
connector may meet a second one while its replay is under way.  For the turn
budget, the accounts, the scheduler's slots and budgets, the turns, the header, the callers, the sidecar, the gateway's
processes and the edits of the configuration, the theorems below show the same for
every bound.  Record and session identities are reused once forgotten, so
their number bounds only how many are alive at once; fresh identities are taken
with CHOOSE, and which one is taken makes no difference, since they are only compared.

Fairness: the event loop runs a ready task and fires a due timer (`LoopFairness`,
`WatcherFairness`, the scheduler's `Fairness`): every await in a transition ends
because the calls beneath it have timeouts.  The same holds of an agent's turn
(`AgentTurn`): its process may hang for ever, its deadline does not.  That turns
end well (`TurnFairness`) is assumed only where a property says so:
`AcceptedIsHandled`, and the half of `StopReturns` in which the consumer outlasts its
cancellation and `stop()` has nothing but the end of its turns to wait for.  No fairness is assumed of users, owners, the platform or
the operators.

### Proofs

`MessageProcessorProofs` proves, for every set of messages, every queue
bound and every number of notices: `TypeCorrect`, `SentinelIsLast`,
`NothingLost`, `DrainIsComplete`, `BusyGateIsSound`, `NothingIsLeftRunning`,
`HandOverIsOrdered`, `TheAgentActsForTheAnchor`, `StoppedStaysStopped` and
`ProcessorImplementsInbox`.  The inductive invariant is

    IInv == TypeOK /\ Control /\ SentinelLast /\ Conservation

`Conservation` alone is not inductive: that the batch is empty unless a turn
holds it, that a consumer which is done has nothing queued unless a cancellation
ended it, and that `stop()` and the consumer are in compatible places is
`Control`.  In the refinement `Cancelled` is what gives the inbox up; `StopTimeout` and
`Swallowed` are stutters, for a consumer that outlasts them still drains.  The assumptions are those named in the modules: the bound is a
positive number and the sentinel is not a message.

`ActsForAnchor` is preserved by every step under `IInv`: the role is set in the
step that hands the batch to the agent and by no other.  `StoppedIsFinal` is an
action property; it follows from what `Control` says of a stopped processor.

`PermissionBrokerProofs` proves, for every set of calls, sessions, rooms,
threads and ids and every policy: `TypeCorrect`, `OnlyApprovedCallsRun`
(`AllowedMeansApproved`), `OpenRequestsAreFound` (`OpenIsRegistered`),
`DecisionsStand` (`DecidedOnce`) and `OwnersAsk` (`OnlyOwnersAsk`).  The
inductive invariant is

    IInv == TypeOK /\ UndecidedIsFresh /\ OpenIsRegistered /\ ApprovedMatches
            /\ AllowedMeansApproved

`AllowedMeansApproved` is about the answer, which the handler gives some steps
after the owner's command: `ApprovedMatches` carries the fact over the gap, in
which the timer, the sweep, a stop or the broker's end may come first.
`UndecidedIsFresh` says that a call which has not been decided has no request
yet, so that registering one neither reopens a future nor rewrites a thread
under an approve.  `AskKeepsRegistered` is where the choice of an id that the
registry does not know is used.

`SchedulerProofs` proves, for every set of jobs, every schedule, every number of
runs, crashes and reloads, and with writes of the file that fail: `TypeCorrect`
(no job counts more runs than it was given), `VersionIsHonest`
(`HonestVersion`) and `EndsAreFinal` (`EndedStaysEnded`).  The inductive invariant is

    IInv == TypeOK /\ CountsOK /\ Accounts /\ Migrated

`Accounts` says that a job which is not completed has runs left, in memory, in
the file and in a fire's copy, and that nothing but its own fire completes a job
that is due or being fired.  `Migrated` adds to `HonestVersion` the same claim
about memory, and what a migration under way has already done: jobs it has
passed have their room unless it noticed one that was not resolved.
`WriteFieldsKeeps` is where a fire's write-back meets the migration: it needs
that `room` is not among the fields a fire owns.

`SlotsFireOnce` (`NoSlotTwice`) and `NoRunIsTooMany` (`NoRunTooMany`, which adds
`BudgetKept`) rest on two more invariants, each checked by TLC on the run's instance
before it was proved.  Both speak of one job at a time.

* `SlotInv`.  A slot is full when it was delivered as often as the crashes so far allow
  and once more would be too many.  Full slots lie behind: `FullTo` the anchor of a job
  that may still be fired, below the slot of a fire that has not injected yet, up to it
  afterwards.  The next run lies ahead of the anchor (`Ahead`) in memory, in a fire's copy
  and in every row of the file, the slots left to a catch-up ahead of the one being
  fired.  So `CatchUp` and `FireDue` only come to slots that are not full, and a crash,
  which may bring an older row back, raises the limit for all of them.
* `BudgetInv`.  What was delivered is counted by the job (unless its fire has the count
  and has not written it), by the copy of a fire under way, and by the file but for one
  run: the one whose count is on its way there, which is what the next crash costs.
  `Mirrored` says that the file is what memory holds except while a fire is saved; it is
  what makes the file's count exact when the next injection starts.

`Mirrored` is where `NoRunIsTooMany` needs its hypothesis `~SaveMayFail`: when writes of
`jobs.json` raise, memory goes on while the file stays behind, and a later crash takes
back more than one run; TLC finds `BudgetKept` violated with `SaveMayFail = TRUE`.
`SlotsFireOnce` and the other three theorems hold with writes that fail.

`MessageProcessorProofs` also proves what runs beside the processor.  `TurnIsSound` (`TurnSound`: the
process part and the answer part of a turn) needs no assumption; two invariants are
inductive, the second under the first:

    TInv == TurnPlaces /\ CurFits /\ AT!OneProcess
    AInv == Heard /\ AnswerOwn /\ AT!AnswerFits

`CurFits` relates the await a turn is at to the state of its process.  `StrippedFits`
is the lemma about the termination token: cutting the first one leaves a token
only if there were two; the first position is chosen by the library's theorem
about least elements.  `TheHeaderIsCurrent` (`HeaderIsCurrent`) holds for any number of
renames, failures, retries and restarts, with

    HInv == KnownNames /\ Places /\ RenameIsLatest /\ FlagIsTrue

`FlagIsTrue` says that the flag in the record is true of the agent wherever a
start would leave the agent alone, and `RenameIsLatest` that a rename under way
carries the current name; `HeaderIsCurrent` itself speaks only of moments at which
nothing is on its way.  `HeaderType` adds the types, for which `TriesLeft` is needed:
an injection that may still fail has not used up its attempts.

`WatcherLifecycleProofs` proves, for any number of rooms, names, coroutines, records and
sessions, with renames at any moment, failures and crashes: `TypeCorrect`, and
`IndexesAgree` (`IndexAgrees`, the part of `NamesAgree` that is about memory).  The only
hypothesis, `EnoughRecs`, is that there is a record identity for each room: a boot gives
each record it reads one of its own.  The inductive invariant is types (`Places`, with
what a coroutine's locals hold at each await) and the agreement of both indexes;
`InstallKeeps` is where a record may only take a name that is its own or nobody's.

`WatcherTransitionsProofs` builds on it and proves, as long as no room is renamed
(`[][UNCHANGED label]_vars`): `TransitionsExclude` (`OneTransition`), `WatchersAreWhole`
(`AllOrNothing`), `FailuresForgetNothing` (`OnlyReclaimForgets`), `PausesHold`
(`PauseHolds`) and `ShutdownsAreFinal` (`StoppedForGood`, the invariant part of
`StaysStopped`).  The inductive invariant is

    KInv == Homes /\ OneTransition /\ OneMaker /\ Apart /\ RunningHeld
            /\ (\A t \in Tasks : Blank(t) /\ Staged(t)) /\ (\A r \in Rooms : RoomFits(r))

`Homes` says that whatever is under a name is its room's; `Stage` what a transition finds
of its room at each await, so that the exclusion carries what it did before the await
over to the step behind it; `OneMaker` and `Blank` that a wake which has found no record
is the only one that may make it; `RoomFits` what remains of a room when nobody is inside
it; `Apart` that the identities and sessions of two rooms are never mixed up, in memory,
in a replaced record or in the file.  `QInv` says which operations are at work in which
phase, and is inductive by itself.  The hypothesis about renames cannot be dropped: a
verb and a rollback find a record by name, and a rename moves the lock object, which
`lifecycle_rollback` shows with `RenamesAnytime = TRUE`.  The run `lifecycle` checks these
properties under the same restriction.

The rest of `NamesAgree` is about the file.  `RowsAreOfRecords` proves `FileIsHonest` for
all operations but the wake, as long as no room is renamed: TLC shows that a wake which
makes a record of nothing and then fails leaves the row behind that another watcher's save
has written meanwhile.  `RowsFollowRenames` and `NamesStayInStep` (`NamesAgree`) prove it
while rooms trade their names at any moment, as long as nothing is started, as in the half
of the run `lifecycle` that sets `trading`, with

    FInv == AllIdle /\ JoinsAlone /\ Honest

Renaming and starting together is what `lifecycle_rollback` shows to go wrong.  `PausesHold` leaves `revive` out, for the reason
in section 6.

`ConnectorPartsProofs` proves, for every limit, lifetime, factor and number of
remembered tokens, `TheBudgetIsHonest` (`BudgetHonest`), with

    ChainInv == ChainKinds /\ TurnsHeld /\ FlightsOfLive /\ FlightsOfNone /\ FlightsOfAll
                /\ ~refused

The three `Flights` conjuncts say what a delivery's token may still name: the
counter that is alive, no counter, or one whose tombstone is kept.  They need that
a tombstone outlives every delivery that could name it, which is why the model's
bound on the age of a delivery is `(1 + Factor) * TTL`, and `Parameters` that the
limit and the number of remembered tokens are positive.  It also proves, for every set
of bots, chats and scopes and any number of reloads, `OneBotAnswers` (`OneAnswer`), with

    BotInv == BotKinds /\ DueIsPending /\ DegradedIsKnown /\ ChangeWasChecked
              /\ Separate(Trusted, active, records, due \cup owed)

`Separate` is what the barrier establishes and each record kept or made must not
spoil; `Trusted` says of which connectors it holds in each phase of a reload.

The same module proves `CallersServed` (`CallersAreServed`) for any number of requests,
notices, timeouts, calls and expiries of the token, with `VoiceInv /\ RestInv`.
Both modules queue for a lock, a sequence without repetitions whose first element holds
it (`RoomLocked`, `LockFits`); the lemmas about a waiter that leaves come first.
`OneAtATime` is the part of `VoiceInv` that holds only until some request is answered
early; what a caller is told was sent while it waited in any case (`TextsTold`).  In
`RestInv`, `CallFits` counts the expiries since a call began: one that is refused for good
has seen two.  The hypotheses are that `Nobody` is not a request and `~OldHeaders`, which
is how the run has them; section 6 says what the second leaves out.

`PermissionBrokerProofs` also has the OpenCode backend, for any number of turns, ports,
sidecars and failures: `OneSidecarRuns` (`OneSidecar`), with

    SidecarInv == SidecarKinds /\ LockHeld /\ RuntimeKnown /\ NothingIsLeft

where `LockHeld` says that exactly the holder of the lock is at one of the awaits under it
and `RuntimeKnown` that a sidecar which the backend does not offer is being probed; and
`AsksAreHeld`, the invariant part of `NoAskForgotten`.  `Agents` is the hypothesis: names
are apart, bounds are numbers, and the window "spawn" of section 6 is closed.

`ServiceReloadProofs` proves what one host shares, and the service itself.  `OneGatewayRuns`
(`OneGateway`) has

    HostInv == H!TypeOK /\ Targets /\ Readied /\ Awaits /\ (~raced => OneStarts /\ Named)

`OneStarts` says that a command between its last look and the daemon's `acquire()` is the
only one and that nobody holds the pid file; it needs `Awaits`, that a process which was
forked and has not acquired the file yet has a starter that still waits for it, so that
its command counts as in the window.  `Named` is the property itself; it is lost exactly
where `raced` is set.  The hypothesis `Numbered` says that process numbers are positive.
`NoEditIsLost` (`NoEditLost`) has

    EditInv == E!TypeOK /\ Begun /\ E!NoEditLost /\ (~overlapped => Unspoiled)
    Unspoiled == E!NoEditLost /\ EditsKept /\ EditsOwned /\ Planned /\ SavesAlone

`Saves` says what the one who saves knows of the file and of its temporary file at each
step, `EditsOwned` that an edit which is not in the file yet is in no other document, so
that a refusal takes it out of the world.  `Filed` says that no file is not a file.

`OneRuntimeRuns` (`OneRuntimeServes`) and `RunsAsConfigured` (`AsConfigured`) have one
invariant of the whole service, for any number of agents, connectors, versions, applies,
failures and defects, under `ServiceAssumption` alone:

    ServiceInv == Shaped /\ Starts /\ Work /\ PlannedConnectors /\ PlannedAgents /\ Rounds
                  /\ Backends /\ Versions /\ Served /\ Connections /\ Gated /\ Users

A reload is eight phases, and the invariant says for each what is already done: `Gated`
which connectors let starts in, `Connections` which are away or connected, `Backends`
that an agent which stops is down before the candidate is installed and one that starts
is still down after it, `Users` which processors are drained.  `PlannedConnectors` and
`PlannedAgents` are what the plan decided, among it that an agent it does not name is as
the candidate says.  `Rounds` tells what this apply builds from every leftover by its
number, so that a leftover never passes for the installed backend.  `Versions` and
`Served` say that an agent which is not suspect or torn runs the active configuration and
is up for whoever may be served; `Served` has to hold while a start is under way
(`Busy`), which is why `Gated` and `Starts` come with it: until the candidate is
installed, a start under way keeps the reload in `stilling`.  The two excuses enter in one place each: `Install` finds an agent
that it builds down unless it is `doubled`, and the settling of a failed apply makes all
that it touched suspect or `torn`.  TLC checked `ServiceInv` on an agent and a connector with
four applies, and on two of either with three, before it was proved.

`MembershipProofs` proves `TheRoomIsFollowed` (`RoomFollowed`): for any number of stays,
losses, failures, reloads and crashes, with

    RoomInv == Types /\ OneTurn /\ Lined /\ Rests /\ Asked /\ Taken /\ Probed
               /\ Current /\ Followed /\ Watched /\ ~wrong

`Lined` is the argument: what is replayed or deferred is older than what waits for the
room's turn, that is older than what is on the wire, and in each of them stays are in
their order and nothing of a stay comes after its end (`Earlier`).  So when the end of a
stay is handled, every end still to be handled is a later one, which keeps `Current` (no
record is of a later stay than an end it may meet) and gives `Followed` (when the end of
the last stay has been handled, no record, no job and no add that would make a record is
left).  `Taken` and `Probed` tie a reclamation and a question under way to the record that
they began with, `Asked` the late answer of a replay to the stay it ends.  The hypothesis
`Narrow` closes the three windows of section 6: each breaks the order in a way that the
code does not notice.  TLC checked `RoomInv` with two and three stays first.

What stays with TLC: liveness and what is said with ENABLED (`NobodyIsStuck` of the
OpenCode backend), which TLAPS cannot prove; `Verdicts`,
which compares recursive definitions for every pattern and so is an induction over data;
`HandledOnce` and
`OneLiveSubscription` of the connectors, which are not proved yet.

## 6. Divergences found

The six violation runs show a counterexample each; PROJECT.json quotes the
comment that is contradicted.

* `permission_stale`: `asyncio.wait_for` cancels the future before
  `resolve(req_id, False)` looks at it, so `permission.py:148` never pops the
  request.  It stays in the registry: the session is busy for the idle gate from
  then on, and the sweep posts a timeout notice for it on every pass.
* `lifecycle_stamp`: a wake that has installed its record, with the old clock,
  but has no processor yet is taken for an idle record.  The watcher then runs
  with `dropped_at` set, which neither a drop nor an expiry clears.
* `lifecycle_rollback`: a wake computes the name of its config before it waits
  for the lock; a rename in between makes it look its record up by a name that
  is nobody's, and a failed start then removes the record instead of restoring
  it.  The same race puts a second lock object under the old name, so that
  `OneTransition` fails with `RenamesAnytime = TRUE` as well.
* `scheduler_paused`: `docs/scheduling.md:232` says that paused jobs do not fire.
  The catch-up loop looks at its own copy's status, and a pass of ticks at the
  jobs as they were listed: a pause that lands while the pass awaits an injection
  or a write does not stop the next fire.
* `mattermost_cancel`: a second reconnect cancels the replay of the first.  The
  post that replay was handling has its id in the ids seen already
  (`mattermost/connector.py:1745`) and nothing takes it out, so the next replay
  drops it and discharges the window; `mattermost/websocket.py:361` says that the
  cancellation loses nothing.
* `opencode_deaf`: the permission broker keeps the URL it was made with
  (`opencode/broker.py:97`); a sidecar that is started again listens on another
  port, and its requests reach nobody (`broker.py:77-80`).

More were met and have no run of their own.  "Window" names the member of the
constant `Windows` that opens it in the model, "excused" the variable or operator
that a property exempts it by.

*Lifecycle and membership*

* A save by any other transition while a start is in flight writes the half
  built record (`watcher_lifecycle.py:1784`); the rollback does not remove the
  row, although 1775 says that memory matches disk again.  `FileIsHonest` is
  therefore checked only where rooms trade names, without wakes or resumes.
* `start_watchers_on_agents` filters paused records before it waits for the
  lock (`session_manager.py:829`), and `start_from_record` does not look
  again (`watcher_lifecycle.py:1153`): a pause that settles meanwhile is overwritten.
  `PauseHolds` is therefore checked without `revive`.
* A reclaim whose final save fails reinstalls the same record object with its
  deleted session (`watcher_lifecycle.py:810`); a wake that waits for the lock
  passes the identity check and starts on that session.
* Window "parked": a message of the bot's next stay makes or wakes a record while the
  removal that ended the last stay is still parked; the removal then reclaims the
  new record and cancels the jobs.  Window "asked": a "not a member" answer that
  arrives after a rejoin removes the new stay's record.  Window "beside": events
  deferred by a reload are replayed beside live ones (`session_manager.py:667-682`),
  so a removal overtakes a deferred join and the room stays registered until the
  daily reconciliation.

*Scheduler*

* A job resumed while it waits in a pass's list fires at once for its new,
  future slot; resumed once more before that slot, it fires for it again.
  `NoSlotTwice` is therefore stated for jobs that were not resumed.
* A job cancelled while its injection is in flight and then restored is delivered
  one run more than it was given, since the write-back was refused:
  `BudgetKept` exempts it.
* When writes of `jobs.json` fail, runs are counted in memory only, and a crash forgets
  all that were not written: a job may then be run more often than its number of runs
  plus the crashes.  `NoRunTooMany` is stated for files that can be written.
* The catch-up begins at the last attempt, so it replays slots that passed
  while the job was paused (`scheduler.py:243-258`, which speaks of the time the
  daemon was down).
* A deletion or cancellation in the middle of a catch-up does not end it:
  nobody reads what `write_fields` returns (`scheduler.py:526`).
* A pause is overwritten by the fire in flight; `schedule_types.py` says so itself.

*Connectors*

* Rocket.Chat, windows: "full", a replayed message finds all queues full and no replay
  window reaches it (`connector.py:773-778`, `2404-2406`); "cut", a pause or a crash
  while a message older than the mark is under way; "hook", a wake between the
  notice of a removal and its hook; "detached", a replay outlives its
  subscription and finds another.  Mattermost, windows: "mark", a post handled between a
  reconnect and the replay's look at the watermark (`connector.py:367-371`); "overtaken",
  a replay moves the mark past a post the worker has yet to hold against it;
  "cut" and "hook" as above.
* Rocket.Chat websocket: a room's attempt that times out sends no `unsub`, so a late
  `ready` leaves a subscription nobody tracks (`websocket.py:333`, `406`, `607-608`);
  `ready` and then `nosub` before the attempt resumes leaves a dark room "active";
  window "child", a room goes before the first step of its subscription's task;
  window "boot", the stream is asked for while a recovery runs (`1491-1492`).
* Rocket.Chat REST: `download_file` makes its headers (`rest.py:293`) before an await and
  reads the token it compares with (`321`) after it, so a login in between costs a
  second one.  `OldHeaders = TRUE` shows it; the run has FALSE.
* Voice: once a request was answered early, by a timeout or by another's text, its own
  late answer goes to the next caller, and so on until a silence (docstring at
  `connector.py:432-447`).  A permission command's reply is sent before
  `dispatch_active` is set and dropped, and its caller waits for the timeout.
* Nobody calls `reset_sender()` and `on_agent_chain_drop` of the turn budget.

*Agents*

* `left` of `AgentTurn`: cancelling a turn while the runner holds an event closes the
  generator with GeneratorExit, which `claude/adapter.py:895` does not catch, and the
  process goes on; so do a JSON line that is no object, a line over the limit, and a cancel
  in the waits of the reaping (`926-946`, `750-757`).  A cancel in the grace period of a
  turn that timed out is swallowed (`181-185`): the turn posts its error, the consumer
  goes on with the queue, and `stop()` takes longer than its `drain_timeout` (`Swallow`
  here, `Swallowed` in `MessageProcessor`).  A process that lingers after
  its complete answer is killed and the answer becomes an error (`938-966`).  Only the
  first termination token is stripped (`agent_turn_runner.py:145-151`: "always strip it").
* `missed` of `InjectedContext`: `rename()` does not take the session lock, so an
  injection with the old header may land after it (`message_processor.py:662`); a rename
  while the processor is starting, or is absent on a backend that is told once, never
  reaches the agent; the re-arm of a failed rename is lost in a restart
  before a save; the third refusal of an injection gives the header up, and does so
  too when a failed rename took the injection's status away meanwhile and re-armed the retry
  (`injected_context_builder.py:239-243` against `message_processor.py:651-657`).
* OpenCode, window "spawn": a stop meets a restart under way (`adapter.py:583-596`); the
  same fast path leaves the breaker untouched after failed restarts (comment at
  `367-369`).  A prompt can be posted to the new sidecar while the event stream is
  still the old one's, and the late idle of a turn that timed out may end the next
  one (`1427`).

*Service, host, configuration, accounts*

* `torn` and `doubled` of `ServiceReload`: a failed apply that stopped a removed agent
  leaves it neither suspect nor unavailable; an agent added by a failed apply keeps
  running unlisted once an apply without it has forgotten that it is suspect, and adding
  it again starts a second backend beside it (`service.py:1530`, `1541-1543`), the only
  case in which `OneRuntime` does not hold; a connector
  it started keeps the candidate's version; one it removed has no entry, and the
  next apply ends in a KeyError (`1469`, `1531-1537`).
* Host: two racing starts both see "not running"; the loser is refused at its control
  probe, after it connected to the chat, and its shutdown unlinks the winner's socket
  and lock, so that a third start comes up beside the winner (`runtime_lock.py:1`);
  `is_running`'s read-then-unlink may delete a fresh lock; the probe's timeout
  consults the prober's own pid (`control.py:127`); a second SIGTERM cancels the
  shutdown under way; a failed `git pull` in an upgrade leaves the daemon stopped; a
  connection lost in a request raises in `_send_command`.
* `overlapped` of `ConfigEdit`: two savers share the name `config.yaml.tmp`; one may put
  the other's half-written or unchecked document in place and report success
  (`configtool/model.py:205`).  The config tool saves what it holds in memory without
  looking at the file again; the edits it overwrites are in the backup.
* `BotAccounts`: `due`, kept connectors are rearmed (`service.py:1492`) before their old
  records expire (`1494-1510`); `unsound`, a connector whose reconciliation raised
  is degraded but runs on, and the barrier skips it (`1639-1653`); `owed`, a record
  whose expiry failed is not counted by the next reload's check (`1187-1203`).

## 7. Not modelled

* The platforms' wire protocols, the agents' processes and the OpenCode server: external
  systems, used through a handful of calls whose outcomes (done, raised, raised
  after the effect) are choices in the models.
* Prompts, tool matching and sender policies, message normalisation, connector
  configuration: pure functions of a payload; where a module awaits one, what it answers
  is a choice.
* The schema and most of the validation of the configuration, the config tool's screens,
  the admin console, the installer: sequential, without state shared at run time.  The
  file they write is in `ConfigEdit`, the check of shadowed rules in `RoomPatterns`.
* History hand-off, attachments, the content of durable context, paths, time zones: their
  awaits are in the start of a watcher, their content is not.
* Mattermost's REST client and its websocket's framing, the script connector: no state that
  outlives a call.
* Of `VoiceRoom` and `RestSession` only the concurrency; of `Host` the system calls that
  look at, write or remove the pid file and the socket, and what a command waits for.
* Of `InjectedContext`, a reset while a rename is on its way.
