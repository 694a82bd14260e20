------------------------- MODULE MCMessageProcessor -------------------------
(* Small instances of a watcher's parts, one of the four at a time: a         *)
(* processor with two owners' messages, a guest's and an anonymous one between *)
(* them; the turns it has the agent take (AgentTurn); the header it tells the  *)
(* agent (InjectedContext); and a room's watcher under a quiescence and a      *)
(* shutdown (WatcherLifecycle).                                               *)
EXTENDS MessageProcessor

CONSTANTS m1, m2, m3, m4

MCRoles == [m \in Msgs |-> CASE m = m2 -> "guest"
                             [] m = m3 -> "anonymous"
                             [] OTHER -> "owner"]

CONSTANTS Rooms, Names, Tasks, Recs, Sessions, None, Ops, RenamesAnytime, StartsMayFail,
          SaveMayFail
VARIABLES kind, label, states, roomOf, procs, routed, running, subscribed, bound, locks,
          coroutine, phase, walk, aged, disk

WL == INSTANCE WatcherLifecycle WITH task <- coroutine
lifecycleVars == <<label, states, roomOf, procs, routed, running, subscribed, bound, locks,
                   coroutine, phase, walk, aged, disk>>

CONSTANTS Procs, MaxLines, MaxRenames, MaxFailures, MaxAttempts
VARIABLES pc, mode, cur, proc, pipe, written, heard, late, answer, said, left
VARIABLES backend, name, config, informed, injected, saved, status, resident, inj, ren,
          failures, missed

AT == INSTANCE AgentTurn
IC == INSTANCE InjectedContext
agentVars == <<pc, mode, cur, proc, pipe, written, heard, late, answer, said, left>>
headerVars == <<backend, name, config, informed, injected, saved, status, resident, inj, ren,
                failures, missed>>

MCInit ==
    /\ kind \in {"Processor", "Watcher", "Turn", "Header"}
    /\ Init /\ WL!Init /\ AT!Init /\ IC!Init
    /\ kind # "Processor" => ~cooling
    /\ kind # "Header" => backend = "file"
MCNext ==
    /\ UNCHANGED kind
    /\ \/ kind = "Processor" /\ Next /\ UNCHANGED <<lifecycleVars, agentVars, headerVars>>
       \/ kind = "Watcher" /\ WL!Next /\ UNCHANGED <<vars, agentVars, headerVars>>
       \/ kind = "Turn" /\ AT!Next /\ UNCHANGED <<vars, lifecycleVars, headerVars>>
       \/ kind = "Header" /\ IC!Next /\ UNCHANGED <<vars, lifecycleVars, agentVars>>
WatcherFairness ==
    /\ \A t \in Tasks : WF_lifecycleVars(kind = "Watcher" /\ WL!Step(t))
    /\ WF_lifecycleVars(kind = "Watcher" /\ WL!Quiet)
AgentFairness == WF_agentVars(kind = "Turn" /\ AT!TurnSteps)
MCSpec == MCInit /\ [][MCNext]_<<kind, vars, lifecycleVars, agentVars, headerVars>>
          /\ LoopFairness /\ WatcherFairness /\ AgentFairness

\* In a turn only its own process is at work on the session, and what is posted is what
\* that process said, or an error.
TurnSound == AT!TypeOK /\ AT!TurnSound

\* A watcher that serves its room has told the agent the name the room has now.
HeaderIsCurrent == IC!TypeOK /\ IC!HeaderIsCurrent

\* What has stopped stays stopped: a processor takes and does nothing any more, no watcher
\* is up after a shutdown, and the file is what memory was (SessionManager.shutdown).
StaysStopped == [][StoppedIsFinal /\ WL!StoppedForGood']_<<vars, lifecycleVars>>

\* stop() returns even if the turn it waits for never ends, and quiescence is
\* reached from every state: drain() and drain_verbs() return.  A turn ends whatever its
\* process does.
DrainsEnd == StopReturns /\ WL!DrainEnds /\ AT!TurnEnds
=============================================================================
