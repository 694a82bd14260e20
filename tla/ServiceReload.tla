---------------------------- MODULE ServiceReload ----------------------------
(* GatewayService and AgentRuntimeManager (service.py): a fleet of connectors *)
(* over the agents' backends, its configuration reloaded while it runs.       *)
(* A reload plans from the active configuration and the candidate, stills     *)
(* every session manager, closes the connectors that go, stops the agents     *)
(* that change, installs the candidate and starts what is new; anything in it *)
(* may break half-way.  Meanwhile rooms wake their watchers and operators     *)
(* revive unavailable agents.  A shutdown waits for the reload and then stops *)
(* everything.                                                                *)
(*                                                                            *)
(* A configuration gives each agent and connector a version, 0 when it is     *)
(* absent.  A backend or a connection is <<name, round>>: the round that      *)
(* built it.  A connector has one watcher per agent, and the users of its     *)
(* entry are the backends its processors hold.  Rules and records are left    *)
(* out: WatcherLifecycle has their effect on one connector.                   *)
EXTENDS Integers, FiniteSets

CONSTANTS Agents, Connectors,
          MaxVersion,   \* versions of a section
          MaxRounds,    \* the boot and the applies after it
          MaxFaults,    \* starts and stops that fail
          MaxDefects,   \* exceptions out of an apply
          None

\* Where a start is: about to revive its agent, reviving it, building the processor.
Stages == {"waiting", "starting", "serving"}

ASSUME ServiceAssumption ==
    /\ Agents \cap Connectors = {}
    /\ None \notin Agents \cup Connectors \cup (Agents \X Stages)
    /\ {MaxVersion, MaxFaults, MaxDefects} \subseteq Nat /\ MaxRounds \in Nat \ {0}

Names == Agents \cup Connectors
Objects == Names \X (1..MaxRounds)

VARIABLES config,       \* _config: the active versions
          cand,         \* the candidate read from the file
          pc,           \* what the reload, or the shutdown, is doing
          todo,         \* the connectors its present phase still has to handle
          plan,         \* what it decided
          round,        \* the boot and the applies begun
          inst,         \* AgentRuntimeManager._agents: the round of each backend
          ver,          \* the version it was built from
          unavailable,  \* _unavailable: agents that did not start
          suspect,      \* _suspect_agents: rebuilt by an apply that failed
          entry,        \* _entries: each connector's entry, if it has one
          verb,         \* the start under way in each connector
          recovering,   \* the holder of _recover_lock
          live,         \* backends and connections that are up
          brokers,      \* permission brokers up for each agent
          left,         \* leftovers: what would not stop
          ticking,      \* the job scheduler runs
          faults, defects,
          stuck,        \* history: processors reported as not stopped
          torn,         \* history: changed for good by an apply that failed
          doubled       \* history: built again while a failed apply's was left running

runtimeVars == <<inst, ver, unavailable, brokers, live, left>>
fleetVars == <<entry, verb, recovering, stuck>>
reloadVars == <<config, cand, pc, todo, plan, round, suspect, ticking, torn,
                doubled>>
vars == <<reloadVars, runtimeVars, fleetVars, faults, defects>>

Configs == [Names -> 0..MaxVersion]

NoPlan == [going |-> {}, kept |-> {}, conns |-> {}, fresh |-> {}, stopping |-> {},
           changed |-> {}, started |-> {}]
NoEntry == [gate |-> "none", bad |-> FALSE, ver |-> 0, n |-> 0, blocked |-> {}, users |-> {}]
Entry(gate, v, n) == [NoEntry EXCEPT !.gate = gate, !.ver = v, !.n = n]

Backend(a) == <<a, inst[a]>>
Connection(c) == <<c, entry[c].n>>
Present == {c \in Connectors : entry[c].gate # "none"}
Idle(c) == verb[c] = None
Serves(c, a) == \E u \in entry[c].users : u[1] = a

\* n more starts or stops fail.
Fail(n) == faults + n <= MaxFaults /\ faults' = faults + n

-------------------------------------------------------------------------------
\* After the boot: an agent may have failed to start, no connector has (a
\* connector that fails ends the boot).
Init ==
    /\ config \in {c \in Configs : \A k \in Names : c[k] <= 1}
    /\ cand = config /\ pc = "idle" /\ todo = {} /\ plan = NoPlan /\ round = 1
    /\ inst = [a \in Agents |-> config[a]]
    /\ ver = inst
    /\ unavailable \in SUBSET {a \in Agents : config[a] # 0}
    /\ suspect = {}
    /\ LET up == {a \in Agents : config[a] # 0} \ unavailable
       IN /\ entry = [c \in Connectors |->
                         IF config[c] = 0 THEN NoEntry
                         ELSE [Entry("open", 1, 1) EXCEPT !.blocked = unavailable]]
          /\ live = {<<k, 1>> : k \in up \cup {c \in Connectors : config[c] # 0}}
          /\ brokers = [a \in Agents |-> IF a \in up THEN 1 ELSE 0]
    /\ verb = [c \in Connectors |-> None] /\ recovering = None
    /\ left = {} /\ ticking = TRUE
    /\ faults = Cardinality(unavailable) /\ faults <= MaxFaults /\ defects = 0
    /\ stuck = {} /\ torn = {} /\ doubled = {}

-------------------------------------------------------------------------------
\* AgentRuntimeManager.  start_some: the backends, then the brokers; a backend
\* whose broker does not start is stopped again, and may stay up.
StartSome(names) ==
    \E failed \in SUBSET names : \E up \in SUBSET failed :
        /\ Fail(Cardinality(failed) + Cardinality(up))
        /\ live' = live \cup {Backend(a) : a \in (names \ failed) \cup up}
        /\ brokers' = [a \in Agents |-> brokers[a] + IF a \in names \ failed THEN 1 ELSE 0]
        /\ unavailable' = (unavailable \ names) \cup failed

\* stop_some: each broker and backend; one that does not stop after the
\* retries is a leftover.
HasBrokerMutant(a) == TRUE  \* popped without a look
HasBroker(a) == brokers[a] > 0
StopSome(names) ==
    \E failed \in SUBSET {a \in names : Backend(a) \in live} :
        /\ Fail(Cardinality(failed))
        /\ live' = live \ {Backend(a) : a \in names \ failed}
        /\ left' = left \cup {Backend(a) : a \in failed}
        /\ brokers' = [a \in Agents |->
                          IF a \in names /\ HasBroker(a) THEN brokers[a] - 1 ELSE brokers[a]]

\* _push_unavailable_agents: every entry's gate takes a copy.
Pushed(e, names) == [c \in Connectors |-> IF c \in names THEN [e[c] EXCEPT !.blocked = unavailable']
                                          ELSE e[c]]

-------------------------------------------------------------------------------
\* A start in a connector: a room's wake, or a verb, which also revives an
\* agent that is unavailable.  A degraded entry refuses verbs.
Begin(c, a) ==
    /\ entry[c].gate = "open" /\ Idle(c) /\ inst[a] # 0 /\ ~Serves(c, a)
    /\ IF a \notin entry[c].blocked
       THEN verb' = [verb EXCEPT ![c] = <<a, "serving">>]
       ELSE ~entry[c].bad /\ verb' = [verb EXCEPT ![c] = <<a, "waiting">>]
    /\ UNCHANGED <<reloadVars, runtimeVars, entry, recovering, stuck, faults, defects>>

\* _recover_agent under _recover_lock.  Somebody else may have revived it.
StillDownMutant(a) == TRUE  \* no second look under the lock
StillDown(a) == a \in unavailable
TakeRecoverLock(c) ==
    /\ ~Idle(c) /\ verb[c][2] = "waiting" /\ recovering = None
    /\ IF StillDown(verb[c][1])
       THEN /\ recovering' = c /\ verb' = [verb EXCEPT ![c][2] = "starting"]
            /\ UNCHANGED <<entry, unavailable>>
       ELSE /\ UNCHANGED <<recovering, unavailable>>
            /\ verb' = [verb EXCEPT ![c][2] = "serving"]
            /\ entry' = Pushed(entry, Present)
    /\ UNCHANGED <<reloadVars, inst, ver, brokers, live, left, stuck, faults, defects>>

Recover(c) ==
    /\ ~Idle(c) /\ verb[c][2] = "starting"
    /\ StartSome({verb[c][1]})
    /\ entry' = Pushed(entry, Present)
    /\ verb' = [verb EXCEPT ![c] = IF @[1] \in unavailable' THEN None ELSE <<@[1], "serving">>]
    /\ recovering' = None
    /\ UNCHANGED <<reloadVars, inst, ver, left, stuck, defects>>

\* The processor is built on the backend installed now, or its start fails.
Serve(c) ==
    /\ ~Idle(c) /\ verb[c][2] = "serving"
    /\ LET a == verb[c][1]
       IN \/ inst[a] # 0 /\ entry' = [entry EXCEPT ![c].users = @ \cup {Backend(a)}]
          \/ UNCHANGED entry
    /\ verb' = [verb EXCEPT ![c] = None]
    /\ UNCHANGED <<reloadVars, runtimeVars, recovering, stuck, faults, defects>>

-------------------------------------------------------------------------------
\* The plan: what differs from the active configuration, what is degraded,
\* unavailable or suspect, and the entries a failed apply left behind.
Added(c) == {k \in Names : config[k] = 0 /\ c[k] # 0}
Removed(c) == {k \in Names : config[k] # 0 /\ c[k] = 0}
Changed(c) == {k \in Names : config[k] # 0 /\ c[k] \notin {0, config[k]}}
RetriedMutant(c) ==  \* agents a failed apply rebuilt are taken as they are
    {k \in {d \in Connectors : entry[d].bad} \cup unavailable : c[k] # 0}
Retried(c) == {k \in {d \in Connectors : entry[d].bad} \cup unavailable \cup suspect : c[k] # 0}

Replacing(c) == {k \in Present : c[k] = 0 \/ k \in Changed(c) \cup Retried(c) \cup Added(c)}
PlanFor(c) ==
    LET changing == Changed(c) \cup Retried(c)
    IN [NoPlan EXCEPT
           !.going = Replacing(c),
           !.kept = Present \ Replacing(c),
           !.conns = (changing \cup Added(c)) \cap Connectors,
           !.fresh = (changing \cup Added(c)) \cap Agents,
           !.stopping = (changing \cup Removed(c)) \cap Agents,
           !.changed = changing \cap Agents]
HasChanges(c) == Replacing(c) \cup Removed(c) \cup Changed(c) \cup Retried(c) \cup Added(c) # {}

\* reload_config, one at a time: a valid candidate.
ReadFile ==
    /\ pc = "idle" /\ round < MaxRounds
    /\ cand' \in Configs /\ pc' = "retrying"
    /\ UNCHANGED <<config, todo, plan, round, suspect, ticking, torn, doubled, runtimeVars,
                   fleetVars, faults, defects>>

\* The leftovers are stopped again; then the plan, unless it is refused or
\* changes nothing.
Decide ==
    /\ pc = "retrying"
    /\ \E gone \in SUBSET left : live' = live \ gone /\ left' = left \ gone
    /\ \/ pc' = "idle" /\ cand' = config /\ UNCHANGED <<todo, plan, round, ticking>>
       \/ /\ HasChanges(cand) /\ UNCHANGED cand
          /\ plan' = PlanFor(cand) /\ round' = round + 1
          /\ pc' = "stilling" /\ todo' = Present /\ ticking' = FALSE
    /\ UNCHANGED <<config, suspect, torn, doubled, inst, ver, unavailable, brokers, fleetVars,
                   faults, defects>>

\* On to the phase q, which handles the connectors in work.
Turn(p, q, work) == pc = p /\ todo = {} /\ pc' = q /\ todo' = work
Done(c) == /\ todo' = todo \ {c}
           /\ UNCHANGED <<pc, config, cand, plan, round, suspect, ticking, torn, doubled>>
During(p, c) == pc = p /\ c \in todo

\* quiesce: no new start, and the ones under way end.
Quiesce(c) ==
    /\ During("stilling", c) /\ entry[c].gate \in {"open", "new"}
    /\ entry' = [entry EXCEPT ![c].gate = "quiet"]
    /\ UNCHANGED <<reloadVars, runtimeVars, verb, recovering, stuck, faults, defects>>

DrainedMutant(c) == TRUE  \* the starts under way are not awaited
Drained(c) == Idle(c)
Quiesced(c) ==
    /\ During("stilling", c) /\ entry[c].gate \notin {"open", "new"} /\ Drained(c)
    /\ Done(c) /\ UNCHANGED <<runtimeVars, fleetVars, faults, defects>>

\* A connector that goes shuts down: its processors stop, it disconnects or
\* is a leftover.
Close(c) ==
    /\ During("closing", c) /\ Idle(c)
    /\ \/ Fail(0) /\ live' = live \ {Connection(c)} /\ UNCHANGED left
       \/ Connection(c) \in live /\ Fail(1) /\ left' = left \cup {Connection(c)} /\ UNCHANGED live
    /\ entry' = [entry EXCEPT ![c].gate = "closed", ![c].users = {}]
    /\ Done(c)
    /\ UNCHANGED <<inst, ver, unavailable, brokers, verb, recovering, stuck, defects>>

\* A kept connector stops its processors on the agents that stop, but those
\* that will not.
Drain(c) ==
    /\ During("draining", c)
    /\ LET held == {u \in entry[c].users : u[1] \in plan.stopping}
       IN \E failed \in SUBSET held :
              /\ Fail(Cardinality(failed))
              /\ entry' = [entry EXCEPT ![c].users = @ \ (held \ failed)]
              /\ stuck' = stuck \cup ({c} \X failed)
    /\ Done(c) /\ UNCHANGED <<runtimeVars, verb, recovering, defects>>

StopAgents ==
    /\ Turn("draining", "installing", {})
    /\ StopSome(plan.stopping)
    /\ UNCHANGED <<config, cand, plan, round, suspect, ticking, torn, doubled, inst, ver,
                   unavailable, fleetVars, defects>>

\* The candidate takes the place of what goes.  A connector the candidate and
\* the active configuration both name, but that a failed apply removed, has no
\* entry to keep: a KeyError breaks the apply.
Install ==
    /\ pc = "installing" /\ UNCHANGED todo
    /\ inst' = [a \in Agents |-> CASE a \in plan.fresh -> round
                                   [] a \in Removed(cand) -> 0
                                   [] OTHER -> inst[a]]
    /\ ver' = [a \in Agents |-> CASE a \in plan.fresh -> cand[a]
                                  [] a \in Removed(cand) -> 0
                                  [] OTHER -> ver[a]]
    /\ unavailable' = unavailable \ Removed(cand)
    /\ doubled' = doubled \cup ((torn \cap plan.fresh) \ plan.stopping)
    /\ IF {c \in Connectors : cand[c] # 0} \subseteq plan.conns \cup plan.kept
       THEN /\ pc' = "starting"
            /\ entry' = [c \in Connectors |-> CASE c \in plan.conns -> Entry("new", cand[c], round)
                                                [] c \in plan.kept -> entry[c]
                                                [] OTHER -> NoEntry]
       ELSE /\ pc' = "broken"
            /\ entry' = [c \in Connectors |-> IF c \in plan.kept THEN entry[c] ELSE NoEntry]
    /\ UNCHANGED <<config, cand, plan, round, suspect, ticking, torn, brokers, live, left, verb,
                   recovering, stuck, faults, defects>>

StartAgents ==
    /\ Turn("starting", "arming", plan.kept)
    /\ StartSome(plan.fresh)
    /\ entry' = Pushed(entry, plan.kept)
    /\ UNCHANGED <<config, cand, plan, round, suspect, ticking, torn, doubled, inst, ver, left,
                   verb, recovering, stuck, defects>>

\* rearm: starts are let in again.
Rearm(c) ==
    /\ During("arming", c)
    /\ entry' = [entry EXCEPT ![c].gate = "open"]
    /\ Done(c) /\ UNCHANGED <<runtimeVars, verb, recovering, stuck, faults, defects>>

\* A new connector settles its records; then it connects, passes the identity
\* check and starts its rooms, or is degraded and shut down.
SettleRecords(c) ==
    /\ During("connecting", c) /\ entry[c].gate = "new"
    /\ entry' = [entry EXCEPT ![c].gate = "open", ![c].blocked = unavailable]
    /\ UNCHANGED <<reloadVars, runtimeVars, verb, recovering, stuck, faults, defects>>

Connect(c) ==
    /\ During("connecting", c) /\ entry[c].gate = "open"
    /\ \/ /\ Fail(0) /\ live' = live \cup {Connection(c)}
          /\ entry' = [entry EXCEPT ![c].blocked = unavailable,
                                    ![c].users = @ \cup {Backend(a) : a \in {b \in Agents \ unavailable :
                                                                   inst[b] # 0 /\ ~Serves(c, b)}}]
       \/ /\ Idle(c)
          /\ \/ Fail(1) /\ UNCHANGED live
             \/ Fail(2) /\ live' = live \cup {Connection(c)}
          /\ entry' = [entry EXCEPT ![c].bad = TRUE, ![c].gate = "closed", ![c].users = {}]
    /\ Done(c)
    /\ UNCHANGED <<inst, ver, unavailable, brokers, left, verb, recovering, stuck, defects>>

\* A kept connector starts its rooms on the agents that changed.
Restart(c) ==
    /\ During("resuming", c)
    /\ entry' = [entry EXCEPT ![c].users = @ \cup {Backend(a) : a \in
                                 {b \in plan.changed \ entry[c].blocked : ~Serves(c, b)}}]
    /\ Done(c) /\ UNCHANGED <<runtimeVars, verb, recovering, stuck, faults, defects>>

NextPhase ==
    /\ \/ Turn("stilling", "closing", plan.going) /\ UNCHANGED plan
       \/ /\ Turn("closing", "draining", IF plan.stopping = {} THEN {} ELSE plan.kept)
          /\ UNCHANGED plan
       \/ Turn("arming", "connecting", plan.conns) /\ UNCHANGED plan
       \/ /\ Turn("connecting", "resuming", plan.kept)
          /\ plan' = [plan EXCEPT !.started = {c \in plan.conns : ~entry[c].bad}]
    /\ UNCHANGED <<config, cand, round, suspect, ticking, torn, doubled, runtimeVars, fleetVars,
                   faults, defects>>

Finish ==
    /\ Turn("resuming", "idle", {})
    /\ config' = cand /\ suspect' = {} /\ ticking' = TRUE /\ plan' = NoPlan
    /\ torn' = torn \ (plan.stopping \cup plan.going \cup plan.conns)
    /\ UNCHANGED <<cand, round, doubled, runtimeVars, fleetVars, faults, defects>>

-------------------------------------------------------------------------------
\* An exception out of the apply.
Applying == {"stilling", "closing", "draining", "installing", "starting", "arming",
             "connecting", "resuming"}
Break ==
    /\ pc \in Applying /\ defects < MaxDefects
    /\ defects' = defects + 1 /\ pc' = "broken"
    /\ UNCHANGED <<config, cand, todo, plan, round, suspect, ticking, torn, doubled,
                   runtimeVars, fleetVars, faults>>

\* _settle_after_failed_apply: what is installed stays tracked, what the
\* candidate names has an entry, all of them degraded but those started, the
\* kept ones re-armed.  The active configuration stays.
SettleAfterFailedApply ==
    /\ pc = "broken"
    /\ entry' = [c \in Connectors |->
                    IF c \notin Present
                    THEN IF cand[c] = 0 THEN NoEntry
                         ELSE [Entry("closed", cand[c], round) EXCEPT !.bad = TRUE]
                    ELSE [entry[c] EXCEPT !.bad = @ \/ c \notin plan.started,
                                          !.gate = IF c \in plan.kept THEN "open" ELSE @]]
    /\ suspect' = suspect \cup plan.fresh
    /\ torn' = torn \cup Removed(cand) \cup (Added(cand) \cap Agents) \cup plan.started
    /\ pc' = "idle" /\ todo' = {} /\ plan' = NoPlan /\ cand' = config /\ ticking' = TRUE
    /\ UNCHANGED <<config, round, doubled, runtimeVars, verb, recovering, stuck, faults,
                   defects>>

-------------------------------------------------------------------------------
\* shutdown takes _reload_lock for good.  No manager lets a start in; when the
\* ones under way have ended it disconnects; the backends are last.
Shutdown ==
    /\ pc = "idle" /\ pc' = "ending" /\ ticking' = FALSE
    /\ entry' = [c \in Connectors |-> IF c \in Present THEN [entry[c] EXCEPT !.gate = "closed"]
                                      ELSE entry[c]]
    /\ UNCHANGED <<config, cand, todo, plan, round, suspect, torn, doubled, runtimeVars, verb,
                   recovering, stuck, faults, defects>>

StopManagers ==
    /\ pc = "ending" /\ \A c \in Present : Drained(c)
    /\ \E failed \in SUBSET {Connection(c) : c \in Present} :
           /\ failed \subseteq live /\ Fail(Cardinality(failed))
           /\ live' = live \ ({Connection(c) : c \in Present} \ failed)
           /\ left' = left \cup failed
    /\ entry' = [c \in Connectors |-> [entry[c] EXCEPT !.users = {}]]
    /\ pc' = "stopping all"
    /\ UNCHANGED <<config, cand, todo, plan, round, suspect, ticking, torn, doubled, inst, ver,
                   unavailable, brokers, verb, recovering, stuck, defects>>

StopAll ==
    /\ pc = "stopping all" /\ pc' = "stopped"
    /\ StopSome({a \in Agents : inst[a] # 0})
    /\ UNCHANGED <<config, cand, todo, plan, round, suspect, ticking, torn, doubled, inst, ver,
                   unavailable, fleetVars, defects>>

Next ==
    \/ \E c \in Connectors :
          \/ \E a \in Agents : Begin(c, a)
          \/ TakeRecoverLock(c) \/ Recover(c) \/ Serve(c)
          \/ Quiesce(c) \/ Quiesced(c) \/ Close(c) \/ Drain(c) \/ Rearm(c)
          \/ SettleRecords(c) \/ Connect(c) \/ Restart(c)
    \/ ReadFile \/ Decide \/ NextPhase \/ StopAgents \/ Install \/ StartAgents \/ Finish
    \/ Break \/ SettleAfterFailedApply
    \/ Shutdown \/ StopManagers \/ StopAll

Spec == Init /\ [][Next]_vars

-------------------------------------------------------------------------------
TypeOK ==
    /\ {config, cand} \subseteq Configs
    /\ todo \subseteq Present /\ round \in 1..MaxRounds
    /\ inst \in [Agents -> 0..MaxRounds] /\ ver \in [Agents -> 0..MaxVersion]
    /\ unavailable \cup suspect \subseteq Agents /\ torn \cup doubled \subseteq Names
    /\ live \cup left \subseteq Objects
    /\ brokers \in [Agents -> Nat] /\ ticking \in BOOLEAN
    /\ recovering \in {None} \cup {c \in Connectors : verb[c] # None}
    /\ \A c \in Connectors : entry[c].users \subseteq Agents \X (1..MaxRounds)

\* Whatever a reload replaces, retries or recovers, an agent has at most one
\* backend and one broker up, and a connector one connection, besides the
\* leftovers the operator was told of and the agents built twice
\* (_apply_reload: "so its replacement is never started beside it";
\* _recover_agent re-checks under its lock).
OneRuntime ==
    /\ \A k \in Names \ doubled : Cardinality({o \in live \ left : o[1] = k}) <= 1
    /\ \A a \in Agents \ doubled : brokers[a] <= 1

\* No processor is left on a backend a reload stopped or replaced, but those
\* reported as not stopped and those of an apply that failed (quiesce and the
\* drain come before the agents stop, and nothing starts before they are up).
ServedByRuntime ==
    \A c \in Present : \A u \in entry[c].users :
        \/ <<c, u>> \in stuck \/ u[1] \in suspect \cup torn
        \/ u = Backend(u[1]) /\ u \in live

\* Between reloads what runs is what the active configuration says, or is
\* reported as degraded, unavailable or suspect, and every other connector
\* lets its watchers start; when the service has stopped only leftovers run.
AsConfigured ==
    /\ pc = "idle" =>
        /\ ticking
        /\ \A a \in Agents \ (torn \cup suspect \cup unavailable) :
              /\ ver[a] = config[a]
              /\ config[a] # 0 => Backend(a) \in live /\ brokers[a] > 0
        /\ \A c \in Connectors \ torn :
              \/ entry[c].bad
              \/ entry[c].ver = config[c] /\
                 (config[c] # 0 => entry[c].gate = "open" /\ Connection(c) \in live)
    /\ pc = "stopped" =>
        /\ \A o \in live : o \in left \/ o[1] \in doubled
        /\ \A a \in Agents \ doubled : brokers[a] = 0
        /\ \A c \in Present : entry[c].users = {}
==============================================================================
