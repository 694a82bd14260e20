--------------------------- MODULE MCServiceReload ---------------------------
(* Small instances, one of the four at a time: the service with two connectors *)
(* and an agent, the boot and two applies; the processes of the host; the       *)
(* writers of the configuration file; and the membership of one room.          *)
EXTENDS ServiceReload, TLC

CONSTANTS a1, c1, c2

CONSTANTS Pids, Commands, MaxCommands, MaxKills, Writers, NoFile, BadEdits, MaxEdits, MaxDeaths,
          MaxStays, MaxMoves, MaxTogether, Windows, NoRecord

\* The connectors are interchangeable.
Symmetry == Permutations(Connectors)

VARIABLES kind, pidfile, socket, daemon, ready, command, issued, kills, raced,
          file, temp, backups, writer, edits, deaths, accepted, refused, byHand, overwritten,
          overlapped,
          member, stay, link, wire, gen, early, tasks, record, nid, jobs, reclaim, creating,
          quiesced, deferred, replaying, probe, ask, moves, wrong, slipped, checked

H == INSTANCE Host
E == INSTANCE ConfigEdit
M == INSTANCE Membership WITH MaxFaults <- MaxMoves
hostVars == <<pidfile, socket, daemon, ready, command, issued, kills, raced>>
editVars == <<file, temp, backups, writer, edits, deaths, accepted, refused, byHand,
              overwritten, overlapped>>
roomVars == <<member, stay, link, wire, gen, early, tasks, record, nid, jobs, reclaim, creating,
              quiesced, deferred, replaying, probe, ask, moves, wrong, slipped, checked>>

\* What is not at work keeps still, and the service has one initial state then.
MCInit ==
    /\ kind \in {"Service", "Host", "Edit", "Room"}
    /\ Init /\ H!Init /\ E!Init /\ M!Init
    /\ kind # "Service" => \A k \in Names : config[k] = 0
    /\ kind # "Edit" => file = NoFile
    /\ kind # "Room" => early

\* A fault and a defect besides leave room for one apply less.
Bounded == round' < MaxRounds \/ faults' + defects' <= 1

\* Likewise, losses and failures besides leave room for one stay less.
RoomBounded == stay' + moves' <= MaxTogether

MCNext ==
    /\ UNCHANGED kind
    /\ \/ kind = "Service" /\ Next /\ Bounded /\ UNCHANGED <<hostVars, editVars, roomVars>>
       \/ kind = "Host" /\ H!Next /\ UNCHANGED <<vars, editVars, roomVars>>
       \/ kind = "Edit" /\ E!Next /\ UNCHANGED <<vars, hostVars, roomVars>>
       \/ kind = "Room" /\ M!Next /\ RoomBounded /\ UNCHANGED <<vars, hostVars, editVars>>

MCSpec == MCInit /\ [][MCNext]_<<kind, vars, hostVars, editVars, roomVars>>

-----------------------------------------------------------------------------
\* Whatever a reload replaces, retries or recovers, there is one backend of each agent and
\* one connection of each connector, and every processor is on a backend that is up.
OneRuntimeServes == TypeOK /\ OneRuntime /\ ServedByRuntime

\* One gateway runs on the host, and the commands find it.
OneGateway == H!TypeOK /\ H!OneGateway

\* No edit of the configuration is lost, and none gets in that was refused.
NoEditLost == E!TypeOK /\ E!NoEditLost

\* A room's record and jobs follow the bot's membership of it.
RoomFollowed == M!TypeOK /\ M!RoomFollowed
=============================================================================
