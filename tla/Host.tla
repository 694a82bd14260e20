---------------------------------- MODULE Host ----------------------------------
(* The gateway as processes of one host: the daemons (daemon.py), the file that    *)
(* names the running one (runtime_lock.py), the control socket (control.py), and   *)
(* the commands an operator, a script or a supervisor runs (cli.py, upgrade.py).    *)
(* A process may stop anywhere between two system calls.                            *)
EXTENDS Naturals, FiniteSets

CONSTANTS Pids, Commands,           \* the processes there may be; the commands at a time
          MaxCommands, MaxKills     \* bounds of the instance

VARIABLES pidfile,     \* LOCK_FILE: the pid it names, 0 when there is none
          socket,      \* CONTROL_SOCK: the process that bound it, 0 when there is none
          daemon,      \* where each daemon is
          ready,       \* the daemons that have told their starter "ok"
          command,     \* the commands at work
          issued, kills,
          raced        \* history: a command found no gateway while another was starting one

hostVars == <<pidfile, socket, daemon, ready, command, issued, kills, raced>>

\* forked: before acquire(); locked: before the service runs; up: it runs, and is
\* connected; binding: the probe of the socket found nobody; closing: shutdown() is to
\* come; draining: the socket is closed; leaving: _cleanup() is to come.
Running == {"up", "binding", "serving", "closing", "draining"}
Alive == {"forked", "locked", "leaving"} \cup Running
NoCommand == [verb |-> "none", at |-> "idle", pid |-> 0, checks |-> 0, was |-> FALSE]
Verbs == {"start", "stop", "restart", "upgrade", "talk"}

TypeOK ==
    /\ pidfile \in Pids \cup {0} /\ socket \in Pids \cup {0}
    /\ daemon \in [Pids -> Alive \cup {"none", "gone"}] /\ ready \subseteq Pids
    /\ command \in [Commands -> [verb : Verbs \cup {"none"}, pid : Pids \cup {0},
                                 checks : 0 .. 2, was : BOOLEAN,
                                 at : {"idle", "check", "sweep", "term", "await", "release",
                                       "pull", "fork", "waiting", "connect", "asked"}]]
    /\ issued \in 0 .. MaxCommands /\ kills \in 0 .. MaxKills /\ raced \in BOOLEAN

Init ==
    /\ pidfile = 0 /\ socket = 0 /\ daemon = [p \in Pids |-> "none"] /\ ready = {}
    /\ command = [c \in Commands |-> NoCommand]
    /\ issued = 0 /\ kills = 0 /\ raced = FALSE

-----------------------------------------------------------------------------
(* The daemon.                                                              *)

\* Mutant: a process counts only once its service runs.
LockedPidMutant == IF pidfile # 0 /\ daemon[pidfile] \in Running THEN pidfile ELSE 0

\* locked_pid: the process in the file, if it lives.
LockedPid == IF pidfile # 0 /\ daemon[pidfile] \in Alive THEN pidfile ELSE 0

Goto(p, from, to) == daemon[p] = from /\ daemon' = [daemon EXCEPT ![p] = to]

\* acquire() looks at nothing.
Acquire(p) ==
    /\ \/ Goto(p, "forked", "locked") /\ pidfile' = p
       \/ Goto(p, "forked", "gone") /\ UNCHANGED pidfile
    /\ UNCHANGED <<socket, ready, command, issued, kills, raced>>

\* The configuration is loaded, or is not valid.
Load(p) ==
    /\ Goto(p, "locked", "up") \/ Goto(p, "locked", "leaving")
    /\ UNCHANGED <<pidfile, socket, ready, command, issued, kills, raced>>

\* The boot ends with ControlServer.start, which asks the socket whether somebody is there.
\* One that does not answer in time is believed when the pid file names a process, the
\* asking one included.
Probe(p) ==
    LET listens == socket # 0 /\ daemon[socket] = "serving" IN
    /\ \/ ~listens /\ Goto(p, "up", "binding")
       \/ listens /\ LockedPid = 0 /\ Goto(p, "up", "binding")
       \/ listens /\ Goto(p, "up", "closing")
    /\ UNCHANGED <<pidfile, socket, ready, command, issued, kills, raced>>

\* The path is unlinked, whoever has it by now, and bound; the starter hears "ok".
Bind(p) ==
    /\ Goto(p, "binding", "serving") /\ socket' = p /\ ready' = ready \cup {p}
    /\ UNCHANGED <<pidfile, command, issued, kills, raced>>

\* The boot fails, or the service's loop does.
Break(p) ==
    /\ \E s \in {"up", "binding", "serving"} : Goto(p, s, "closing")
    /\ UNCHANGED <<pidfile, socket, ready, command, issued, kills, raced>>

\* ControlServer.stop unlinks the path, whoever bound it.
CloseSocket(p) ==
    /\ Goto(p, "closing", "draining") /\ socket' = 0
    /\ UNCHANGED <<pidfile, ready, command, issued, kills, raced>>

\* The managers and the backends are stopped.
Drain(p) ==
    /\ Goto(p, "draining", "leaving")
    /\ UNCHANGED <<pidfile, socket, ready, command, issued, kills, raced>>

\* _cleanup removes the file, whoever is in it.
Leave(p) ==
    /\ Goto(p, "leaving", "gone") /\ pidfile' = 0
    /\ UNCHANGED <<socket, ready, command, issued, kills, raced>>

\* It is killed, or crashes: what it left stays.
Kill(p) ==
    /\ daemon[p] \in Alive /\ kills < MaxKills /\ kills' = kills + 1
    /\ daemon' = [daemon EXCEPT ![p] = "gone"]
    /\ UNCHANGED <<pidfile, socket, ready, command, issued, raced>>

-----------------------------------------------------------------------------
(* The commands.                                                            *)

Then(c, at) == [command EXCEPT ![c].at = at]
Done(c) == [command EXCEPT ![c] = NoCommand]

\* The start of a start: start looks twice whether a gateway runs, restart once more.
Starting(c, checks) == [command EXCEPT ![c].at = "check", ![c].checks = checks]

\* Between the last look and acquire(), another start would not see this one.
InWindow(c) ==
    \/ command[c].at \in {"sweep", "fork"}
    \/ command[c].at = "waiting" /\ daemon[command[c].pid] = "forked"

Run(c, v) ==
    /\ command[c] = NoCommand /\ issued < MaxCommands /\ issued' = issued + 1
    /\ command' = [command EXCEPT ![c] = [NoCommand EXCEPT
           !.verb = v, !.at = "check", !.checks = IF v = "start" THEN 2 ELSE 0]]
    /\ UNCHANGED <<pidfile, socket, daemon, ready, kills, raced>>

\* is_running: somebody is.
FindsOne(c) ==
    /\ command[c].at = "check" /\ LockedPid # 0
    /\ command' = CASE command[c].checks > 0 -> Done(c)        \* "already running"
                    [] command[c].verb = "talk" -> Then(c, "connect")
                    [] OTHER -> [command EXCEPT ![c].at = "term", ![c].pid = LockedPid,
                                                ![c].was = TRUE]
    /\ UNCHANGED <<pidfile, socket, daemon, ready, issued, kills, raced>>

\* is_running: nobody is.
FindsNone(c) ==
    /\ command[c].at = "check" /\ LockedPid = 0
    /\ command' = Then(c, "sweep")
    /\ raced' = (raced \/ \E d \in Commands \ {c} : InWindow(d))
    /\ UNCHANGED <<pidfile, socket, daemon, ready, issued, kills>>

\* The file it takes for stale is removed; start goes on to validate the configuration.
Sweep(c) ==
    LET n == command[c].checks IN
    /\ command[c].at = "sweep" /\ pidfile' = 0
    /\ \/ n = 2 /\ command' \in {Starting(c, 1), Done(c)}
       \/ n = 1 /\ command' = Then(c, "fork")
       \/ n = 0 /\ command' = CASE command[c].verb = "restart" -> Starting(c, 1)
                                [] command[c].verb = "upgrade" -> Then(c, "pull")
                                [] OTHER -> Done(c)              \* "not running"
    /\ UNCHANGED <<socket, daemon, ready, issued, kills, raced>>

\* The daemon forks off; its starter waits for what it says.
Fork(c) ==
    /\ command[c].at = "fork"
    /\ \E p \in Pids :
        /\ daemon[p] = "none" /\ \A q \in Pids : q < p => daemon[q] # "none"
        /\ daemon' = [daemon EXCEPT ![p] = "forked"]
        /\ command' = [command EXCEPT ![c].at = "waiting", ![c].pid = p]
    /\ UNCHANGED <<pidfile, socket, ready, issued, kills, raced>>

\* It is ready, or has failed and closed its end of the pipe.
Told(c) ==
    LET p == command[c].pid IN
    /\ command[c].at = "waiting"
    /\ p \in ready \/ daemon[p] \in {"closing", "draining", "leaving", "gone"}
    /\ command' = Done(c)
    /\ UNCHANGED <<pidfile, socket, daemon, ready, issued, kills, raced>>

\* SIGTERM: it ends the process before the service runs, cancels the service, or cancels
\* the shutdown that is under way.
Terminate(c) ==
    LET p == command[c].pid
        after == CASE daemon[p] \in {"forked", "locked", "gone"} -> "gone"
                   [] daemon[p] \in {"up", "binding", "serving"} -> "closing"
                   [] OTHER -> "leaving"
    IN /\ command[c].at = "term" /\ command' = Then(c, "await")
       /\ daemon' = [daemon EXCEPT ![p] = after]
       /\ UNCHANGED <<pidfile, socket, ready, issued, kills, raced>>

\* It is gone, or is killed after ninety seconds.
Awaited(c) ==
    /\ command[c].at = "await" /\ command' = Then(c, "release")
    /\ daemon' = [daemon EXCEPT ![command[c].pid] = "gone"]
    /\ UNCHANGED <<pidfile, socket, ready, issued, kills, raced>>

\* stop_daemon removes the file only if it still names the process it stopped, which may
\* be seen dying.
Releases(p) == pidfile = p

Release(c) ==
    /\ command[c].at = "release"
    /\ \/ Releases(command[c].pid) /\ pidfile' = 0
       \/ UNCHANGED pidfile
    /\ command' = CASE command[c].verb = "restart" -> Starting(c, 1)
                    [] command[c].verb = "upgrade" -> Then(c, "pull")
                    [] OTHER -> Done(c)                          \* "stopped"
    /\ UNCHANGED <<socket, daemon, ready, issued, kills, raced>>

\* The upgrade pulls, synchronises, runs the new code's hook and notes the version; it
\* starts the daemon again if one was running.  A failed pull ends it where it is.
Pull(c) ==
    /\ command[c].at = "pull"
    /\ command' = IF command[c].was THEN Starting(c, 2) ELSE Done(c)
    /\ UNCHANGED <<pidfile, socket, daemon, ready, issued, kills, raced>>

PullFails(c) ==
    /\ command[c].at = "pull" /\ command' = Done(c)
    /\ UNCHANGED <<pidfile, socket, daemon, ready, issued, kills, raced>>

\* _send_command: the request goes to whoever bound the path.
Connect(c) ==
    /\ command[c].at = "connect"
    /\ command' = IF socket # 0 /\ daemon[socket] = "serving"
                  THEN [command EXCEPT ![c].at = "asked", ![c].pid = socket] ELSE Done(c)
    /\ UNCHANGED <<pidfile, socket, daemon, ready, issued, kills, raced>>

\* It answers, or does not in time, or is gone.
Answered(c) ==
    /\ command[c].at = "asked" /\ command' = Done(c)
    /\ UNCHANGED <<pidfile, socket, daemon, ready, issued, kills, raced>>

Next ==
    \/ \E p \in Pids : Acquire(p) \/ Load(p) \/ Probe(p) \/ Bind(p) \/ Break(p) \/ CloseSocket(p)
                      \/ Drain(p) \/ Leave(p) \/ Kill(p)
    \/ \E c \in Commands :
          \/ \E v \in Verbs : Run(c, v)
          \/ FindsOne(c) \/ FindsNone(c) \/ Sweep(c) \/ Fork(c) \/ Told(c) \/ Terminate(c)
          \/ Awaited(c) \/ Release(c) \/ Pull(c) \/ PullFails(c) \/ Connect(c) \/ Answered(c)

Spec == Init /\ [][Next]_hostVars

-----------------------------------------------------------------------------
\* One gateway is on the chat at a time, the pid file names it, so that the next start and
\* the next stop find it, and while it serves, the socket is its own: whatever is killed,
\* fails to boot or is stopped twice, as long as no command looks while another one, that
\* has found no gateway, is starting its own.
OneGateway ==
    ~raced => \A p \in Pids :
        /\ daemon[p] \in Running => pidfile = p
        /\ daemon[p] = "serving" => socket = p
=============================================================================
