------------------------- MODULE ServiceReloadProofs -------------------------
(***************************************************************************)
(* Proofs about what one host shares: the gateway's processes with their pid *)
(* file and their socket (Host), and the configuration file with those who    *)
(* write it (ConfigEdit), for any number of processes, commands, writers,      *)
(* edits, kills and deaths; and about the service in that process             *)
(* (ServiceReload), for any number of agents, connectors, versions, applies,   *)
(* failures and defects.                                                      *)
(***************************************************************************)
EXTENDS MCServiceReload, TLAPS, FiniteSetTheorems

mcVars == <<kind, vars, hostVars, editVars, roomVars>>

-----------------------------------------------------------------------------
(* Host: one gateway.                                                       *)

\* A process that has acquired the pid file and has not left.
Holds(p) == daemon[p] \in H!Alive \ {"forked"}

\* A command that stops, or waits for, a process knows one that was forked, and stop_daemon
\* comes to the pid file when that one is gone.
Targets ==
    \A c \in Commands :
        /\ command[c].at \in {"term", "await", "release", "waiting"} =>
               command[c].pid \in Pids /\ daemon[command[c].pid] # "none"
        /\ command[c].at = "release" => daemon[command[c].pid] = "gone"

\* What has told its starter that it is ready has acquired the file before.
Readied == \A p \in ready : daemon[p] \notin {"none", "forked"}

\* A process that was forked and has not yet acquired the file has a starter that waits.
Awaits == \A p \in Pids : daemon[p] = "forked" =>
              \E c \in Commands : command[c].at = "waiting" /\ command[c].pid = p

\* One command at most is between its last look and acquire(), and nobody holds the file
\* meanwhile.
OneStarts ==
    \A c \in Commands : H!InWindow(c) =>
        /\ \A d \in Commands : H!InWindow(d) => c = d
        /\ \A p \in Pids : ~Holds(p)

Named == \A p \in Pids : (Holds(p) => pidfile = p) /\ (daemon[p] = "serving" => socket = p)

HostInv == H!TypeOK /\ Targets /\ Readied /\ Awaits /\ (~raced => OneStarts /\ Named)

-----------------------------------------------------------------------------
(* ConfigEdit: the edits.                                                   *)

\* Who has an edit to save has its number.
Begun == \A w \in Writers : writer[w].at \in {"planned"} \cup E!SaveSteps => writer[w].edit # 0

\* What is refused is nowhere to be written from, and the numbers of the edits are given out
\* in turn.
EditsKept ==
    /\ E!Document \cup refused \cup UNION backups \subseteq 1 .. edits
    /\ \A w \in Writers :
           writer[w].doc \subseteq (1 .. edits) \ refused

\* Who has an edit to save has it alone until it is in the file, and knows it.
EditsOwned ==
    \A w \in Writers : writer[w].at \in {"planned"} \cup E!SaveSteps =>
        /\ writer[w].edit \in writer[w].doc
        /\ ~writer[w].done => /\ writer[w].edit \notin E!Document \cup UNION backups
                              /\ \A v \in Writers \ {w} : writer[v].edit # writer[w].edit
                                                          /\ writer[w].edit \notin writer[v].doc

\* What a command planned is free of errors, and is what it saw with its edit added.
Planned ==
    \A w \in Writers :
        /\ ~writer[w].tool => E!Errors(writer[w].doc) = {}
        /\ writer[w].at = "planned" =>
               /\ ~writer[w].tool /\ ~writer[w].done
               /\ writer[w].doc = writer[w].seen \cup {writer[w].edit}
        /\ writer[w].done => writer[w].at = "unlink"
        /\ writer[w].at = "open" => writer[w].tool
        /\ writer[w].tool => ~writer[w].fresh
        /\ writer[w].at \in {"idle", "open"} => writer[w].edit = 0

\* What the one who saves has found of the file still holds, and its temporary file is its own.
Saves(w) ==
    LET me == writer[w] IN
    /\ \A v \in Writers : writer[v].at \in E!SaveSteps => v = w
    /\ ~me.tool => E!Document \subseteq me.doc
    /\ me.done => E!Document = me.doc
    /\ me.fresh => me.at \notin {"validate", "backup"}
    /\ me.fresh /\ me.at \in {"clear", "create", "dump", "replace"} => file = NoFile
    /\ me.at = "create" => temp = NoFile
    /\ me.at = "dump" => temp = [doc |-> me.doc, by |-> w, whole |-> FALSE]
    /\ me.at \in {"validate", "backup", "replace"} =>
           temp = [doc |-> me.doc, by |-> w, whole |-> TRUE]
    /\ me.at \in {"backup", "replace"} => E!Errors(me.doc) \subseteq E!Errors(E!Document)
    /\ me.at = "replace" /\ ~me.fresh => E!Document \in backups

SavesAlone == \A w \in Writers : writer[w].at \in E!SaveSteps => Saves(w)

\* While nobody changes the file between another's check and its end.
Unspoiled == E!NoEditLost /\ EditsKept /\ EditsOwned /\ Planned /\ SavesAlone

EditInv == E!TypeOK /\ Begun /\ E!NoEditLost /\ (~overlapped => Unspoiled)

-----------------------------------------------------------------------------
\* A process has a number that is not 0, and what bounds an instance is a number.
Numbered == Pids \subseteq Nat \ {0} /\ {MaxCommands, MaxKills} \subseteq Nat

LEMMA HostTypes ==
    ASSUME Numbered, H!TypeOK, [H!Next]_hostVars
    PROVE  H!TypeOK'
<1>n. Pids \subseteq Nat \ {0} /\ MaxCommands \in Nat /\ MaxKills \in Nat
  BY DEF Numbered
<1> USE DEF H!TypeOK
<1>1. ASSUME NEW p \in Pids,
             H!Acquire(p) \/ H!Load(p) \/ H!Probe(p) \/ H!Bind(p) \/ H!Break(p)
             \/ H!CloseSocket(p) \/ H!Drain(p) \/ H!Leave(p) \/ H!Kill(p)
      PROVE  H!TypeOK'
  <2>1. \A s \in H!Alive \cup {"none", "gone"} :
            [daemon EXCEPT ![p] = s] \in [Pids -> H!Alive \cup {"none", "gone"}]
    OBVIOUS
  <2>2. daemon' \in [Pids -> H!Alive \cup {"none", "gone"}]
    BY <1>1, <2>1 DEF H!Acquire, H!Load, H!Probe, H!Bind, H!Break, H!CloseSocket, H!Drain,
                      H!Leave, H!Kill, H!Goto, H!Alive, H!Running
  <2>3. /\ pidfile' \in Pids \cup {0} /\ socket' \in Pids \cup {0}
        /\ ready' \subseteq Pids
    BY <1>1 DEF H!Acquire, H!Load, H!Probe, H!Bind, H!Break, H!CloseSocket, H!Drain, H!Leave,
                H!Kill
  <2>4. kills' = kills \/ (kills < MaxKills /\ kills' = kills + 1)
    BY <1>1 DEF H!Acquire, H!Load, H!Probe, H!Bind, H!Break, H!CloseSocket, H!Drain, H!Leave,
                H!Kill
  <2>5. kills' \in 0 .. MaxKills
    BY <1>n, <2>4
  <2>6. command' = command /\ issued' = issued /\ raced' = raced
    BY <1>1, Zenon DEF H!Acquire, H!Load, H!Probe, H!Bind, H!Break, H!CloseSocket, H!Drain,
                       H!Leave, H!Kill
  <2> QED
    BY <2>2, <2>3, <2>5, <2>6
<1> DEFINE Command == [verb : H!Verbs \cup {"none"}, pid : Pids \cup {0}, checks : 0 .. 2,
                       was : BOOLEAN,
                       at : {"idle", "check", "sweep", "term", "await", "release", "pull",
                             "fork", "waiting", "connect", "asked"}]
<1>2. ASSUME NEW c \in Commands,
             (\E v \in H!Verbs : H!Run(c, v))
             \/ H!FindsOne(c) \/ H!FindsNone(c) \/ H!Sweep(c) \/ H!Fork(c) \/ H!Told(c)
             \/ H!Terminate(c) \/ H!Awaited(c) \/ H!Release(c) \/ H!Pull(c) \/ H!PullFails(c)
             \/ H!Connect(c) \/ H!Answered(c)
      PROVE  H!TypeOK'
  <2>1. command' \in [Commands -> Command]
    <3>1. \A s \in Command : [command EXCEPT ![c] = s] \in [Commands -> Command]
      OBVIOUS
    <3>2. H!NoCommand \in Command /\ command[c] \in Command
      BY DEF H!NoCommand
    <3>3. H!Done(c) \in [Commands -> Command]
      BY <3>1, <3>2 DEF H!Done
    <3>4. \A s \in {"check", "sweep", "term", "await", "release", "pull", "fork", "waiting",
                    "connect", "asked"} : H!Then(c, s) \in [Commands -> Command]
      BY <3>2 DEF H!Then
    <3>5. \A n \in 0 .. 2 : H!Starting(c, n) \in [Commands -> Command]
      BY <3>2 DEF H!Starting
    <3>6. ASSUME NEW v \in H!Verbs, H!Run(c, v)  PROVE command' \in [Commands -> Command]
      <4>1. [H!NoCommand EXCEPT !.verb = v, !.at = "check", !.checks = IF v = "start" THEN 2 ELSE 0]
                \in Command
        <5>1. (IF v = "start" THEN 2 ELSE 0) \in 0 .. 2
          OBVIOUS
        <5>2. \A n \in 0 .. 2 :
                  [H!NoCommand EXCEPT !.verb = v, !.at = "check", !.checks = n] \in Command
          BY <3>2
        <5> QED
          BY <5>1, <5>2
      <4> QED
        BY <3>1, <3>6, <4>1 DEF H!Run
    <3>7. CASE H!FindsOne(c)
      <4>1. H!LockedPid \in Pids \cup {0}
        BY DEF H!LockedPid
      <4>2. [command EXCEPT ![c].at = "term", ![c].pid = H!LockedPid, ![c].was = TRUE]
                \in [Commands -> Command]
        BY <3>2, <4>1
      <4> QED
        BY <3>7, <3>3, <3>4, <4>2 DEF H!FindsOne
    <3>8. CASE H!Fork(c)
      <4>1. PICK p \in Pids :
                command' = [command EXCEPT ![c].at = "waiting", ![c].pid = p]
        BY <3>8 DEF H!Fork
      <4>2. [command EXCEPT ![c].at = "waiting", ![c].pid = p] \in [Commands -> Command]
        BY <3>2
      <4> QED
        BY <4>1, <4>2
    <3>9. CASE H!Connect(c)
      BY ZenonT(60), <3>2, <3>3, <3>9 DEF H!Connect
    <3> QED
      <4>1. CASE H!Sweep(c)
        BY SMTT(30), <4>1, <3>3, <3>4, <3>5 DEF H!Sweep
      <4>2. CASE H!Release(c)
        BY <4>2, <3>3, <3>4, <3>5 DEF H!Release
      <4>3. CASE H!FindsNone(c) \/ H!Told(c) \/ H!Terminate(c) \/ H!Awaited(c) \/ H!Pull(c)
                 \/ H!PullFails(c) \/ H!Answered(c)
        BY SMTT(30), <4>3, <3>3, <3>4, <3>5
        DEF H!FindsNone, H!Told, H!Terminate, H!Awaited, H!Pull, H!PullFails, H!Answered
      <4> QED
        BY <1>2, <3>6, <3>7, <3>8, <3>9, <4>1, <4>2, <4>3
  <2>2. daemon' \in [Pids -> H!Alive \cup {"none", "gone"}]
    BY ZenonT(60), <1>2 DEF H!Run, H!FindsOne, H!FindsNone, H!Sweep, H!Fork, H!Told, H!Terminate,
        H!Awaited, H!Release, H!Pull, H!PullFails, H!Connect, H!Answered, H!Alive, H!Running
  <2>3. pidfile' \in Pids \cup {0} /\ socket' = socket /\ ready' = ready /\ kills' = kills
    BY <1>2 DEF H!Run, H!FindsOne, H!FindsNone, H!Sweep, H!Fork, H!Told, H!Terminate,
        H!Awaited, H!Release, H!Pull, H!PullFails, H!Connect, H!Answered
  <2>5. issued' = issued \/ (issued < MaxCommands /\ issued' = issued + 1)
    BY <1>2 DEF H!Run, H!FindsOne, H!FindsNone, H!Sweep, H!Fork, H!Told, H!Terminate,
        H!Awaited, H!Release, H!Pull, H!PullFails, H!Connect, H!Answered
  <2>6. issued' \in 0 .. MaxCommands
    BY <1>n, <2>5
  <2>4. raced' \in BOOLEAN
    BY <1>2 DEF H!Run, H!FindsOne, H!FindsNone, H!Sweep, H!Fork, H!Told, H!Terminate,
        H!Awaited, H!Release, H!Pull, H!PullFails, H!Connect, H!Answered
  <2> QED
    BY <2>1, <2>2, <2>3, <2>4, <2>6
<1>3. CASE UNCHANGED hostVars
  BY <1>3 DEF hostVars
<1> QED
  BY <1>1, <1>2, <1>3 DEF H!Next

\* What a process does by itself: one that lives goes on, and the commands stay where they are.
LEMMA ProcessMoves ==
    ASSUME H!TypeOK, NEW p \in Pids,
           H!Acquire(p) \/ H!Load(p) \/ H!Probe(p) \/ H!Bind(p) \/ H!Break(p)
           \/ H!CloseSocket(p) \/ H!Drain(p) \/ H!Leave(p) \/ H!Kill(p)
    PROVE  /\ command' = command /\ raced' = raced
           /\ daemon[p] \in H!Alive
           /\ \E s \in (H!Alive \ {"forked"}) \cup {"gone"} : daemon' = [daemon EXCEPT ![p] = s]
<1>1. command' = command /\ raced' = raced
  BY Zenon DEF H!Acquire, H!Load, H!Probe, H!Bind, H!Break, H!CloseSocket, H!Drain, H!Leave,
               H!Kill
<1>2. /\ daemon[p] \in H!Alive
      /\ \E s \in (H!Alive \ {"forked"}) \cup {"gone"} : daemon' = [daemon EXCEPT ![p] = s]
  BY DEF H!Acquire, H!Load, H!Probe, H!Bind, H!Break, H!CloseSocket, H!Drain, H!Leave, H!Kill,
         H!Goto, H!Alive, H!Running
<1> QED
  BY <1>1, <1>2

\* A command moves alone.
LEMMA CommandMoves ==
    ASSUME H!TypeOK, NEW c \in Commands,
           (\E v \in H!Verbs : H!Run(c, v))
           \/ H!FindsOne(c) \/ H!FindsNone(c) \/ H!Sweep(c) \/ H!Fork(c) \/ H!Told(c)
           \/ H!Terminate(c) \/ H!Awaited(c) \/ H!Release(c) \/ H!Pull(c) \/ H!PullFails(c)
           \/ H!Connect(c) \/ H!Answered(c)
    PROVE  \A d \in Commands \ {c} : command'[d] = command[d]
BY DEF H!TypeOK, H!Run, H!FindsOne, H!FindsNone, H!Sweep, H!Fork, H!Told, H!Terminate,
       H!Awaited, H!Release, H!Pull, H!PullFails, H!Connect, H!Answered, H!Then, H!Done,
       H!Starting

\* Where a command is after its step.
LEMMA CommandGoesOn ==
    ASSUME H!TypeOK, NEW c \in Commands,
           (\E v \in H!Verbs : H!Run(c, v)) \/ H!FindsNone(c) \/ H!Sweep(c) \/ H!Told(c)
           \/ H!Pull(c) \/ H!PullFails(c) \/ H!Connect(c) \/ H!Answered(c) \/ H!Release(c)
    PROVE  command'[c].at \in {"idle", "check", "sweep", "pull", "fork", "asked"}
<1>1. H!Done(c)[c].at = "idle" /\ \A n \in 0 .. 2 : H!Starting(c, n)[c].at = "check"
  BY DEF H!TypeOK, H!Done, H!Starting, H!NoCommand
<1>2. \A s \in {"sweep", "pull", "fork"} : H!Then(c, s)[c].at = s
  BY DEF H!TypeOK, H!Then
<1>3. CASE (\E v \in H!Verbs : H!Run(c, v)) \/ H!Connect(c)
  BY ZenonT(60), <1>1, <1>3 DEF H!TypeOK, H!Run, H!Connect
<1>4. CASE H!Sweep(c) \/ H!Release(c)
  BY <1>1, <1>2, <1>4 DEF H!Sweep, H!Release
<1>5. CASE H!FindsNone(c) \/ H!Told(c) \/ H!Pull(c) \/ H!PullFails(c) \/ H!Answered(c)
  BY <1>1, <1>2, <1>5 DEF H!FindsNone, H!Told, H!Pull, H!PullFails, H!Answered
<1> QED
  BY <1>3, <1>4, <1>5

LEMMA HostTargets ==
    ASSUME Numbered, H!TypeOK, Targets, [H!Next]_hostVars
    PROVE  Targets'
<1>1. ASSUME NEW p \in Pids,
             H!Acquire(p) \/ H!Load(p) \/ H!Probe(p) \/ H!Bind(p) \/ H!Break(p)
             \/ H!CloseSocket(p) \/ H!Drain(p) \/ H!Leave(p) \/ H!Kill(p)
      PROVE  Targets'
  BY <1>1, ProcessMoves DEF Targets, H!TypeOK, H!Alive, H!Running
<1>2. ASSUME NEW c \in Commands,
             (\E v \in H!Verbs : H!Run(c, v)) \/ H!FindsNone(c) \/ H!Sweep(c) \/ H!Told(c)
             \/ H!Pull(c) \/ H!PullFails(c) \/ H!Connect(c) \/ H!Answered(c) \/ H!Release(c)
      PROVE  Targets'
  <2>1. daemon' = daemon
    BY <1>2, Zenon DEF H!Run, H!FindsNone, H!Sweep, H!Told, H!Pull, H!PullFails, H!Connect,
                       H!Answered, H!Release
  <2> QED
    BY <1>2, <2>1, CommandMoves, CommandGoesOn DEF Targets
<1>3. ASSUME NEW c \in Commands, H!FindsOne(c)  PROVE Targets'
  <2>1. H!LockedPid \in Pids /\ daemon[H!LockedPid] \in H!Alive /\ daemon' = daemon
    BY <1>3 DEF H!FindsOne, H!LockedPid, H!TypeOK
  <2>2. \/ command'[c].at \in {"idle", "connect"}
        \/ command'[c].at = "term" /\ command'[c].pid = H!LockedPid
    BY <1>3 DEF H!FindsOne, H!Done, H!Then, H!NoCommand, H!TypeOK
  <2> QED
    BY <1>3, <2>1, <2>2, CommandMoves DEF Targets, H!Alive, H!Running
<1>4. ASSUME NEW c \in Commands, H!Fork(c)  PROVE Targets'
  <2>1. PICK p \in Pids : /\ daemon[p] = "none" /\ daemon' = [daemon EXCEPT ![p] = "forked"]
                          /\ command' = [command EXCEPT ![c].at = "waiting", ![c].pid = p]
    BY <1>4 DEF H!Fork
  <2>2. command'[c].at = "waiting" /\ command'[c].pid = p /\ daemon'[p] = "forked"
        /\ \A q \in Pids \ {p} : daemon'[q] = daemon[q]
    BY <2>1 DEF H!TypeOK
  <2>3. \A d \in Commands \ {c} : command'[d] = command[d]
    BY <1>4, CommandMoves
  <2>4. \A d \in Commands : command[d].at \in {"term", "await", "release", "waiting"} =>
            command[d].pid \in Pids \ {p}
    BY <2>1 DEF Targets
  <2>5. ASSUME NEW d \in Commands \ {c},
               command'[d].at \in {"term", "await", "release", "waiting"}
        PROVE  /\ command'[d].pid \in Pids /\ daemon'[command'[d].pid] # "none"
               /\ command'[d].at = "release" => daemon'[command'[d].pid] = "gone"
    BY <2>2, <2>3, <2>4, <2>5 DEF Targets
  <2> QED
    BY <2>2, <2>5 DEF Targets
<1>5. ASSUME NEW c \in Commands, H!Terminate(c)  PROVE Targets'
  <2>1. PICK s \in {"gone", "closing", "leaving"} :
            /\ daemon' = [daemon EXCEPT ![command[c].pid] = s]
            /\ daemon[command[c].pid] = "gone" => s = "gone"
    BY <1>5 DEF H!Terminate
  <2>2. command[c].at = "term" /\ command'[c].at = "await" /\ command'[c].pid = command[c].pid
    BY <1>5 DEF H!Terminate, H!Then, H!TypeOK
  <2> QED
    BY <1>5, <2>1, <2>2, CommandMoves DEF Targets, H!TypeOK
<1>6. ASSUME NEW c \in Commands, H!Awaited(c)  PROVE Targets'
  <2>1. /\ command[c].at = "await" /\ command'[c].at = "release"
        /\ command'[c].pid = command[c].pid
        /\ daemon' = [daemon EXCEPT ![command[c].pid] = "gone"]
    BY <1>6 DEF H!Awaited, H!Then, H!TypeOK
  <2> QED
    BY <1>6, <2>1, CommandMoves DEF Targets, H!TypeOK
<1>7. CASE UNCHANGED hostVars
  BY <1>7 DEF hostVars, Targets
<1> QED
  BY <1>1, <1>2, <1>3, <1>4, <1>5, <1>6, <1>7 DEF H!Next

LEMMA HostAwaits ==
    ASSUME Numbered, H!TypeOK, Targets, Readied, Awaits, [H!Next]_hostVars
    PROVE  Awaits'
<1>1. ASSUME NEW p \in Pids,
             H!Acquire(p) \/ H!Load(p) \/ H!Probe(p) \/ H!Bind(p) \/ H!Break(p)
             \/ H!CloseSocket(p) \/ H!Drain(p) \/ H!Leave(p) \/ H!Kill(p)
      PROVE  Awaits'
  BY <1>1, ProcessMoves DEF Awaits, H!TypeOK
<1>2. ASSUME NEW c \in Commands,
             (\E v \in H!Verbs : H!Run(c, v)) \/ H!FindsNone(c) \/ H!Sweep(c) \/ H!Told(c)
             \/ H!Pull(c) \/ H!PullFails(c) \/ H!Connect(c) \/ H!Answered(c) \/ H!Release(c)
             \/ H!FindsOne(c)
      PROVE  Awaits'
  <2>1. daemon' = daemon
    BY <1>2, Zenon DEF H!Run, H!FindsOne, H!FindsNone, H!Sweep, H!Told, H!Pull, H!PullFails,
                       H!Connect, H!Answered, H!Release
  <2>2. command[c].at = "waiting" => daemon[command[c].pid] # "forked"
    <3>1. CASE H!Told(c)
      BY <3>1 DEF H!Told, Readied
    <3>2. CASE \E v \in H!Verbs : H!Run(c, v)
      BY <3>2 DEF H!Run, H!NoCommand
    <3>3. CASE H!FindsOne(c) \/ H!FindsNone(c) \/ H!Sweep(c) \/ H!Pull(c) \/ H!PullFails(c)
               \/ H!Connect(c) \/ H!Answered(c) \/ H!Release(c)
      BY <3>3 DEF H!FindsOne, H!FindsNone, H!Sweep, H!Pull, H!PullFails, H!Connect,
                  H!Answered, H!Release
    <3> QED
      BY <1>2, <3>1, <3>2, <3>3
  <2> QED
    BY <1>2, <2>1, <2>2, CommandMoves DEF Awaits
<1>3. ASSUME NEW c \in Commands, H!Fork(c)  PROVE Awaits'
  <2>1. PICK p \in Pids : /\ daemon' = [daemon EXCEPT ![p] = "forked"]
                          /\ command' = [command EXCEPT ![c].at = "waiting", ![c].pid = p]
                          /\ command[c].at = "fork"
    BY <1>3 DEF H!Fork
  <2>2. command'[c].at = "waiting" /\ command'[c].pid = p
    BY <2>1 DEF H!TypeOK
  <2> QED
    BY <1>3, <2>1, <2>2, CommandMoves DEF Awaits, H!TypeOK
<1>4. ASSUME NEW c \in Commands, H!Terminate(c) \/ H!Awaited(c)  PROVE Awaits'
  <2>1. PICK s \in {"gone", "closing", "leaving"} :
            daemon' = [daemon EXCEPT ![command[c].pid] = s]
    BY <1>4 DEF H!Terminate, H!Awaited
  <2>2. command[c].at \in {"term", "await"}
    BY <1>4 DEF H!Terminate, H!Awaited
  <2> QED
    BY <1>4, <2>1, <2>2, CommandMoves DEF Awaits, H!TypeOK
<1>5. CASE UNCHANGED hostVars
  BY <1>5 DEF hostVars, Awaits
<1> QED
  BY <1>1, <1>2, <1>3, <1>4, <1>5 DEF H!Next

LEMMA HostReadied ==
    ASSUME H!TypeOK, Targets, Readied, [H!Next]_hostVars
    PROVE  Readied'
<1>1. ASSUME NEW p \in Pids,
             H!Acquire(p) \/ H!Load(p) \/ H!Probe(p) \/ H!Bind(p) \/ H!Break(p)
             \/ H!CloseSocket(p) \/ H!Drain(p) \/ H!Leave(p) \/ H!Kill(p)
      PROVE  Readied'
  <2>1. ready' \subseteq ready \cup {p}
    BY <1>1 DEF H!Acquire, H!Load, H!Probe, H!Bind, H!Break, H!CloseSocket, H!Drain, H!Leave,
                H!Kill
  <2> QED
    BY <1>1, <2>1, ProcessMoves DEF Readied, H!TypeOK, H!Alive, H!Running
<1>2. ASSUME NEW c \in Commands, H!Fork(c)  PROVE Readied'
  BY <1>2 DEF H!Fork, Readied, H!TypeOK
<1>3. ASSUME NEW c \in Commands, H!Terminate(c) \/ H!Awaited(c)  PROVE Readied'
  <2>1. PICK s \in {"gone", "closing", "leaving"} :
            daemon' = [daemon EXCEPT ![command[c].pid] = s]
    BY <1>3 DEF H!Terminate, H!Awaited
  <2>2. ready' = ready
    BY <1>3 DEF H!Terminate, H!Awaited
  <2> QED
    BY <2>1, <2>2 DEF Readied, H!TypeOK
<1>4. ASSUME NEW c \in Commands,
             (\E v \in H!Verbs : H!Run(c, v)) \/ H!FindsNone(c) \/ H!Sweep(c) \/ H!Told(c)
             \/ H!Pull(c) \/ H!PullFails(c) \/ H!Connect(c) \/ H!Answered(c) \/ H!Release(c)
             \/ H!FindsOne(c)
      PROVE  Readied'
  <2>1. daemon' = daemon /\ ready' = ready
    BY <1>4, Zenon DEF H!Run, H!FindsOne, H!FindsNone, H!Sweep, H!Told, H!Pull, H!PullFails,
                       H!Connect, H!Answered, H!Release
  <2> QED
    BY <2>1 DEF Readied
<1>5. CASE UNCHANGED hostVars
  BY <1>5 DEF hostVars, Readied
<1> QED
  BY <1>1, <1>2, <1>3, <1>4, <1>5 DEF H!Next

\* Steps that only shrink the set of those that hold the file and the set of the commands that
\* start something.
LEMMA FewerHold ==
    ASSUME OneStarts, Named,
           \A p \in Pids : Holds(p)' => Holds(p) /\ pidfile' = p,
           \A p \in Pids : daemon'[p] = "serving" => socket' = p,
           \A c \in Commands : H!InWindow(c)' => H!InWindow(c)
    PROVE  (OneStarts /\ Named)'
<1>1. OneStarts'
  BY DEF OneStarts
<1>2. Named'
  BY DEF Named
<1> QED
  BY <1>1, <1>2

LEMMA HostOne ==
    ASSUME Numbered, H!TypeOK, Targets, Awaits, OneStarts, Named, [H!Next]_hostVars, ~raced'
    PROVE  (OneStarts /\ Named)'
<1>0. Pids \subseteq Nat \ {0} /\ daemon \in [Pids -> H!Alive \cup {"none", "gone"}]
      /\ command \in [Commands -> [verb : H!Verbs \cup {"none"}, pid : Pids \cup {0},
                                 checks : 0 .. 2, was : BOOLEAN,
                                 at : {"idle", "check", "sweep", "term", "await", "release",
                                       "pull", "fork", "waiting", "connect", "asked"}]]
  BY DEF Numbered, H!TypeOK
<1>1. ASSUME NEW p \in Pids, H!Acquire(p)  PROVE (OneStarts /\ Named)'
  <2>1. daemon[p] = "forked" /\ UNCHANGED <<socket, command>>
    BY <1>1 DEF H!Acquire, H!Goto
  <2>2. PICK c \in Commands : command[c].at = "waiting" /\ command[c].pid = p
    BY <2>1 DEF Awaits
  <2>3. H!InWindow(c)
    BY <2>1, <2>2 DEF H!InWindow
  <2>4. (\A q \in Pids : ~Holds(q)) /\ \A d \in Commands : H!InWindow(d) => c = d
    BY <2>3 DEF OneStarts
  <2>5. daemon'[p] \in {"locked", "gone"} /\ \A q \in Pids \ {p} : daemon'[q] = daemon[q]
    BY <1>0, <1>1 DEF H!Acquire, H!Goto
  <2>6. \A d \in Commands : ~H!InWindow(d)'
    BY <2>1, <2>2, <2>4, <2>5 DEF H!InWindow, Targets
  <2>7. \A q \in Pids : Holds(q)' => q = p /\ daemon'[p] = "locked"
    BY <2>4, <2>5 DEF Holds, H!Alive, H!Running
  <2>8. daemon'[p] = "locked" => pidfile' = p
    BY <1>0, <1>1 DEF H!Acquire, H!Goto
  <2>9. \A q \in Pids : daemon'[q] = "serving" => Holds(q)'
    BY DEF Holds, H!Alive, H!Running
  <2> QED
    BY <2>6, <2>7, <2>8, <2>9 DEF OneStarts, Named
<1>2. ASSUME NEW p \in Pids,
             H!Load(p) \/ H!Probe(p) \/ H!Bind(p) \/ H!Break(p)
             \/ H!CloseSocket(p) \/ H!Drain(p) \/ H!Leave(p) \/ H!Kill(p)
      PROVE  (OneStarts /\ Named)'
  <2>1. command' = command /\ \A q \in Pids : daemon'[q] = "forked" => daemon[q] = "forked"
    BY <1>2, ProcessMoves DEF H!TypeOK
  <2>2. \A c \in Commands : H!InWindow(c)' => H!InWindow(c)
    BY <2>1 DEF H!InWindow, Targets
  <2>3. \A q \in Pids : Holds(q)' => Holds(q)
    BY <1>0, <1>2 DEF Holds, H!Load, H!Probe, H!Bind, H!Break, H!CloseSocket, H!Drain, H!Leave,
               H!Kill, H!Goto, H!Alive, H!Running
  <2>4. Holds(p) \/ (H!Kill(p) /\ daemon[p] = "forked")
    BY <1>0, <1>2 DEF Holds, H!Load, H!Probe, H!Bind, H!Break, H!CloseSocket, H!Drain, H!Leave,
               H!Kill, H!Goto, H!Alive, H!Running
  <2>5. Holds(p) => \A q \in Pids : Holds(q) => q = p
    BY DEF Named
  <2>6. \A q \in Pids : Holds(q)' => pidfile' = q
    <3>1. CASE H!Leave(p)
      <4>1. ~Holds(p)' /\ Holds(p)
        BY <1>0, <3>1 DEF Holds, H!Leave, H!Goto, H!Alive, H!Running
      <4> QED
        BY <4>1, <2>3, <2>5
    <3>2. CASE ~H!Leave(p)
      <4>1. pidfile' = pidfile
        BY <1>2, <3>2 DEF H!Load, H!Probe, H!Bind, H!Break, H!CloseSocket, H!Drain, H!Kill
      <4> QED
        BY <4>1, <2>3 DEF Named
    <3> QED
      BY <3>1, <3>2
  <2>7. \A q \in Pids : daemon'[q] = "serving" => socket' = q
    <3>1. \A q \in Pids : daemon[q] = "serving" => Holds(q)
      BY DEF Holds, H!Alive, H!Running
    <3>2. CASE H!Bind(p)
      <4>1. socket' = p /\ Holds(p) /\ \A q \in Pids \ {p} : daemon'[q] = daemon[q]
        BY <1>0, <3>2 DEF H!Bind, H!Goto, Holds, H!Alive, H!Running
      <4> QED
        BY <4>1, <3>1, <2>5
    <3>3. CASE H!CloseSocket(p)
      <4>1. daemon'[p] = "draining" /\ Holds(p) /\ \A q \in Pids \ {p} : daemon'[q] = daemon[q]
        BY <1>0, <3>3 DEF H!CloseSocket, H!Goto, Holds, H!Alive, H!Running
      <4> QED
        BY <4>1, <3>1, <2>5
    <3>4. CASE ~H!Bind(p) /\ ~H!CloseSocket(p)
      <4>1. socket' = socket /\ \A q \in Pids : daemon'[q] = "serving" => daemon[q] = "serving"
        BY <1>0, <1>2, <3>4 DEF H!Load, H!Probe, H!Break, H!Drain, H!Leave, H!Kill, H!Goto
      <4> QED
        BY <4>1 DEF Named
    <3> QED
      BY <3>2, <3>3, <3>4
  <2> QED
    BY <2>2, <2>3, <2>6, <2>7, FewerHold
<1>3. ASSUME NEW c \in Commands, H!FindsNone(c)  PROVE (OneStarts /\ Named)'
  <2>1. /\ H!LockedPid = 0 /\ UNCHANGED <<pidfile, socket, daemon>>
        /\ \A d \in Commands \ {c} : ~H!InWindow(d)
    BY <1>3 DEF H!FindsNone
  <2>2. \A p \in Pids : ~Holds(p)
    BY <1>0, <2>1 DEF Named, H!LockedPid, Holds
  <2>3. \A d \in Commands \ {c} : ~H!InWindow(d)'
    BY <1>3, <2>1, CommandMoves DEF H!InWindow
  <2>4. \A p \in Pids : ~Holds(p)' /\ daemon'[p] = daemon[p]
    BY <2>1, <2>2 DEF Holds
  <2>5. OneStarts'
    BY <2>3, <2>4 DEF OneStarts
  <2> QED
    BY <2>1, <2>4, <2>5 DEF Named
<1>4. ASSUME NEW c \in Commands, H!Sweep(c) \/ H!Fork(c)  PROVE (OneStarts /\ Named)'
  <2>1. H!InWindow(c)
    BY <1>4 DEF H!Sweep, H!Fork, H!InWindow
  <2>2. (\A p \in Pids : ~Holds(p)) /\ \A d \in Commands : H!InWindow(d) => c = d
    BY <2>1 DEF OneStarts
  <2>3. \A p \in Pids : daemon'[p] \in {daemon[p], "forked"}
    BY <1>0, <1>4 DEF H!Sweep, H!Fork
  <2>4. \A p \in Pids : ~Holds(p)'
    BY <2>2, <2>3 DEF Holds
  <2>5. ASSUME NEW d \in Commands, H!InWindow(d)'  PROVE c = d
    <3>1. CASE d # c
      <4>1. command'[d] = command[d]
        BY <1>4, <3>1, CommandMoves
      <4>2. ~H!InWindow(d)
        BY <2>2, <3>1
      <4>3. command[d].at = "waiting" /\ command[d].pid \in Pids
            /\ daemon[command[d].pid] \notin {"none", "forked"}
            /\ daemon'[command[d].pid] = "forked"
        BY <2>5, <4>1, <4>2 DEF H!InWindow, Targets
      <4>4. \A p \in Pids : daemon[p] # "none" => daemon'[p] = daemon[p]
        BY <1>0, <1>4 DEF H!Sweep, H!Fork
      <4> QED
        BY <4>3, <4>4
    <3> QED
      BY <3>1
  <2>6. \A p \in Pids : daemon'[p] # "serving"
    BY <2>4 DEF Holds, H!Alive, H!Running
  <2> QED
    BY <2>4, <2>5, <2>6 DEF OneStarts, Named
<1>5. ASSUME NEW c \in Commands, H!Terminate(c) \/ H!Awaited(c)  PROVE (OneStarts /\ Named)'
  <2>1. command[c].at \in {"term", "await"} /\ command'[c].at \in {"await", "release"}
        /\ UNCHANGED <<pidfile, socket>>
    BY <1>0, <1>5 DEF H!Terminate, H!Awaited, H!Then
  <2>2. \A p \in Pids : \/ daemon'[p] \in {daemon[p], "gone"}
                        \/ /\ daemon[p] \in H!Alive \ {"forked"}
                           /\ daemon'[p] \in {"closing", "leaving"}
    BY <1>0, <1>5, <2>1 DEF H!Terminate, H!Awaited, Targets, H!Alive, H!Running
  <2>3. \A p \in Pids : Holds(p)' => Holds(p)
    BY <2>2 DEF Holds, H!Alive, H!Running
  <2>4. \A p \in Pids : daemon'[p] \in {"serving", "forked"} => daemon'[p] = daemon[p]
    BY <2>2
  <2>5. ASSUME NEW d \in Commands, H!InWindow(d)'  PROVE H!InWindow(d)
    <3>1. d # c /\ command'[d] = command[d]
      BY <1>5, <2>1, <2>5, CommandMoves DEF H!InWindow
    <3> QED
      BY <2>4, <2>5, <3>1 DEF H!InWindow, Targets
  <2> QED
    BY <2>1, <2>3, <2>4, <2>5, FewerHold DEF Named
<1>6. ASSUME NEW c \in Commands,
             (\E v \in H!Verbs : H!Run(c, v)) \/ H!FindsOne(c) \/ H!Told(c) \/ H!Pull(c)
             \/ H!PullFails(c) \/ H!Connect(c) \/ H!Answered(c) \/ H!Release(c)
      PROVE  (OneStarts /\ Named)'
  <2>1. UNCHANGED <<daemon, socket>>
    BY <1>6, Zenon DEF H!Run, H!FindsOne, H!Told, H!Pull, H!PullFails, H!Connect, H!Answered,
                       H!Release
  <2>2. command'[c].at \in {"idle", "check", "sweep", "pull", "fork", "asked", "connect", "term"}
        /\ ~H!InWindow(c)'
    <3>1. CASE H!FindsOne(c)
      BY <1>0, <3>1 DEF H!FindsOne, H!Done, H!Then, H!NoCommand, H!InWindow
    <3>2. CASE H!Release(c)
      BY <1>0, <3>2 DEF H!Release, H!Done, H!Then, H!Starting, H!NoCommand, H!InWindow
    <3>3. CASE H!Connect(c) \/ H!Pull(c)
      BY <1>0, <3>3 DEF H!Connect, H!Pull, H!Starting, H!Done, H!NoCommand, H!InWindow
    <3>4. CASE \E v \in H!Verbs : H!Run(c, v)
      <4>1. command'[c].at = "check"
        BY <1>0, <3>4 DEF H!Run, H!NoCommand
      <4> QED
        BY <4>1 DEF H!InWindow
    <3>5. CASE H!Told(c) \/ H!PullFails(c) \/ H!Answered(c)
      <4>1. command'[c].at = "idle"
        BY <1>0, <3>5 DEF H!Told, H!PullFails, H!Answered, H!Done, H!NoCommand
      <4> QED
        BY <4>1 DEF H!InWindow
    <3> QED
      BY <1>6, <3>1, <3>2, <3>3, <3>4, <3>5
  <2>3. ASSUME NEW d \in Commands, H!InWindow(d)'  PROVE H!InWindow(d)
    <3>1. d # c /\ command'[d] = command[d]
      BY <1>6, <2>2, <2>3, CommandMoves
    <3> QED
      BY <2>1, <2>3, <3>1 DEF H!InWindow
  <2>4. \A p \in Pids : Holds(p)' => Holds(p) /\ pidfile' = p
    <3>1. CASE pidfile' = pidfile
      BY <2>1, <3>1 DEF Holds, Named
    <3>2. CASE pidfile' # pidfile
      <4>1. pidfile = command[c].pid /\ command[c].at = "release"
        BY <1>6, <3>2 DEF H!Run, H!FindsOne, H!Told, H!Pull, H!PullFails, H!Connect,
                          H!Answered, H!Release, H!Releases
      <4>2. pidfile \in Pids /\ daemon[pidfile] = "gone"
        BY <4>1 DEF Targets
      <4>3. \A p \in Pids : ~Holds(p)
        BY <4>2 DEF Holds, Named, H!Alive, H!Running
      <4> QED
        BY <4>3, <2>1 DEF Holds
    <3> QED
      BY <3>1, <3>2
  <2> QED
    BY <2>1, <2>3, <2>4, FewerHold DEF Named
<1>7. CASE UNCHANGED hostVars
  BY <1>7 DEF hostVars, OneStarts, Named, H!InWindow, Holds
<1> QED
  BY <1>1, <1>2, <1>3, <1>4, <1>5, <1>6, <1>7 DEF H!Next

LEMMA HostInvariance == ASSUME Numbered PROVE MCSpec => []HostInv
<1>1. MCInit => HostInv
  <2> SUFFICES ASSUME H!Init PROVE HostInv
    BY DEF MCInit
  <2>1. H!TypeOK
    <3>1. /\ pidfile \in Pids \cup {0} /\ socket \in Pids \cup {0} /\ ready \subseteq Pids
          /\ daemon \in [Pids -> H!Alive \cup {"none", "gone"}]
      BY DEF H!Init
    <3>2. issued \in 0 .. MaxCommands /\ kills \in 0 .. MaxKills
      BY DEF Numbered, H!Init
    <3>3. H!NoCommand \in [verb : H!Verbs \cup {"none"}, pid : Pids \cup {0}, checks : 0 .. 2,
                          was : BOOLEAN,
                          at : {"idle", "check", "sweep", "term", "await", "release",
                                "pull", "fork", "waiting", "connect", "asked"}]
      BY DEF H!NoCommand
    <3>4. raced \in BOOLEAN
      BY DEF H!Init
    <3> QED
      BY <3>1, <3>2, <3>3, <3>4 DEF H!TypeOK, H!Init
  <2>2. \A c \in Commands : command[c].at = "idle"
    BY DEF H!Init, H!NoCommand
  <2>3. ready = {} /\ \A p \in Pids : daemon[p] = "none"
    BY DEF H!Init
  <2>4. Targets /\ Readied /\ Awaits
    BY <2>2, <2>3 DEF Targets, Readied, Awaits
  <2>5. OneStarts /\ Named
    BY <2>2, <2>3 DEF OneStarts, Named, Holds, H!InWindow, H!Alive, H!Running
  <2> QED
    BY <2>1, <2>4, <2>5 DEF HostInv
<1>2. [MCNext]_mcVars => [H!Next]_hostVars
  BY DEF MCNext, mcVars
<1>3. HostInv /\ [H!Next]_hostVars => HostInv'
  <2> SUFFICES ASSUME HostInv, [H!Next]_hostVars PROVE HostInv'
    OBVIOUS
  <2>1. raced => raced'
    BY DEF H!Next, hostVars, H!Run, H!FindsOne, H!FindsNone, H!Sweep, H!Fork, H!Told,
           H!Terminate, H!Awaited, H!Release, H!Pull, H!PullFails, H!Connect, H!Answered,
           H!Acquire, H!Load, H!Probe, H!Bind, H!Break, H!CloseSocket, H!Drain, H!Leave, H!Kill
  <2>2. H!TypeOK' /\ Targets' /\ Readied' /\ Awaits'
    BY HostTypes, HostTargets, HostReadied, HostAwaits DEF HostInv
  <2>3. ~raced' => (OneStarts /\ Named)'
    BY <2>1, HostOne DEF HostInv
  <2> QED
    BY <2>2, <2>3 DEF HostInv
<1> QED
  BY <1>1, <1>2, <1>3, PTL DEF MCSpec, mcVars

\* One gateway is on the chat at a time, and the pid file names it, however many processes are
\* forked, killed, fail to boot or are stopped twice, as long as no command looks while another
\* is starting a gateway (runtime_lock.py, daemon.py, cli.py).
THEOREM OneGatewayRuns ==
    ASSUME Numbered
    PROVE  MCSpec => []OneGateway
<1>1. HostInv => OneGateway
  BY DEF HostInv, Named, Holds, OneGateway, H!OneGateway, H!Alive, H!Running
<1> QED
  BY <1>1, HostInvariance, PTL

-----------------------------------------------------------------------------
(* ConfigEdit: no edit lost.                                                *)

\* The absence of a file is not one of the files; what bounds an instance is a number.
Filed == NoFile \notin E!Contents /\ {MaxEdits, MaxDeaths} \subseteq Nat

Steps == {"idle", "planned", "open"} \cup E!SaveSteps
WriterKinds == [tool : BOOLEAN, seen : SUBSET E!Edits, doc : SUBSET E!Edits, edit : 0 .. MaxEdits,
                fresh : BOOLEAN, done : BOOLEAN, at : Steps]

\* The ways in which what is known of a writer changes keep it of its kind.
LEMMA StepKinds ==
    ASSUME NEW r \in WriterKinds, NEW s \in Steps, NEW b \in BOOLEAN,
           NEW d \in SUBSET E!Edits, NEW n \in 0 .. MaxEdits
    PROVE  /\ [r EXCEPT !.at = s] \in WriterKinds
           /\ [r EXCEPT !.at = s, !.fresh = b] \in WriterKinds
           /\ [r EXCEPT !.at = s, !.done = b] \in WriterKinds
           /\ [r EXCEPT !.at = s, !.edit = n, !.doc = d] \in WriterKinds
           /\ [r EXCEPT !.at = s, !.edit = n, !.done = b, !.doc = d] \in WriterKinds
<1>1. [r EXCEPT !.at = s] \in WriterKinds
  BY DEF WriterKinds
<1>2. [r EXCEPT !.at = s, !.fresh = b] \in WriterKinds
  BY DEF WriterKinds
<1>3. [r EXCEPT !.at = s, !.done = b] \in WriterKinds
  BY DEF WriterKinds
<1>4. [r EXCEPT !.at = s, !.edit = n, !.doc = d] \in WriterKinds
  BY DEF WriterKinds
<1>5. [r EXCEPT !.at = s, !.edit = n, !.done = b, !.doc = d] \in WriterKinds
  BY DEF WriterKinds
<1> QED
  BY <1>1, <1>2, <1>3, <1>4, <1>5

LEMMA IdleKinds ==
    ASSUME Filed, NEW t \in BOOLEAN, NEW s \in Steps, NEW d \in SUBSET E!Edits,
           NEW e \in SUBSET E!Edits, NEW n \in 0 .. MaxEdits
    PROVE  /\ E!Idle \in WriterKinds
           /\ [E!Idle EXCEPT !.at = s, !.seen = e, !.doc = d, !.edit = n] \in WriterKinds
           /\ [E!Idle EXCEPT !.tool = t, !.at = s, !.doc = d] \in WriterKinds
<1>1. E!Idle \in WriterKinds
  BY DEF Filed, E!Idle, WriterKinds, Steps
<1>2. \A r \in WriterKinds : [r EXCEPT !.at = s, !.seen = e, !.doc = d, !.edit = n] \in WriterKinds
  BY DEF WriterKinds
<1>3. \A r \in WriterKinds : [r EXCEPT !.tool = t, !.at = s, !.doc = d] \in WriterKinds
  BY DEF WriterKinds
<1> QED
  BY <1>1, <1>2, <1>3

\* What an action says of one writer leaves the others as they are.
LEMMA OneWrites ==
    ASSUME E!TypeOK, NEW w \in Writers, NEW r \in WriterKinds, writer' = [writer EXCEPT ![w] = r]
    PROVE  /\ writer' \in [Writers -> WriterKinds]
           /\ writer'[w] = r /\ \A v \in Writers \ {w} : writer'[v] = writer[v]
<1>1. writer \in [Writers -> WriterKinds]
  BY DEF E!TypeOK, WriterKinds, Steps
<1> QED
  BY <1>1

\* A writer is put to rest without an edit.
LEMMA Rests ==
    ASSUME Filed, E!TypeOK, NEW w \in Writers
    PROVE  /\ E!AtRest(w) \in WriterKinds
           /\ E!AtRest(w).at \in {"idle", "open"} /\ E!AtRest(w).edit = 0
           /\ ~E!AtRest(w).done /\ E!AtRest(w).tool = writer[w].tool
           /\ E!AtRest(w).fresh = (writer[w].tool /\ writer[w].fresh)
           /\ (E!AtRest(w).at = "open" <=> writer[w].tool)
           /\ ~writer[w].tool => E!AtRest(w).doc = {}
           /\ writer[w].tool => E!AtRest(w).doc = IF writer[w].done THEN writer[w].doc
                                                  ELSE writer[w].doc \ {writer[w].edit}
<1>1. writer[w] \in WriterKinds
  BY DEF E!TypeOK, WriterKinds, Steps
<1> DEFINE d == IF writer[w].done THEN writer[w].doc ELSE writer[w].doc \ {writer[w].edit}
<1>2. d \in SUBSET E!Edits /\ "open" \in Steps /\ 0 \in 0 .. MaxEdits
  BY <1>1 DEF WriterKinds, Steps, Filed
<1>3. [writer[w] EXCEPT !.at = "open", !.edit = 0, !.done = FALSE, !.doc = d] \in WriterKinds
  BY <1>1, <1>2, StepKinds
<1>4. CASE ~writer[w].tool
  <2>1. E!AtRest(w) = E!Idle
    BY <1>4 DEF E!AtRest
  <2>2. E!Idle \in WriterKinds
    BY <1>2, IdleKinds
  <2>3. E!Idle.at = "idle" /\ E!Idle.edit = 0 /\ E!Idle.doc = {}
    BY DEF E!Idle
  <2>4. E!Idle.done = FALSE /\ E!Idle.tool = FALSE /\ E!Idle.fresh = FALSE
    BY DEF E!Idle
  <2>5. writer[w].tool = FALSE
    BY <1>1, <1>4 DEF WriterKinds
  <2> QED
    BY <2>1, <2>2, <2>3, <2>4, <2>5
<1>5. CASE writer[w].tool
  <2>1. E!AtRest(w) = [writer[w] EXCEPT !.at = "open", !.edit = 0, !.done = FALSE, !.doc = d]
    BY <1>5 DEF E!AtRest
  <2> QED
    BY <1>1, <1>3, <1>5, <2>1 DEF WriterKinds
<1> QED
  BY <1>4, <1>5

LEMMA EditTypes ==
    ASSUME Filed, E!TypeOK, Begun, [E!Next]_editVars
    PROVE  E!TypeOK' /\ Begun'
<1>0. /\ MaxEdits \in Nat /\ MaxDeaths \in Nat /\ E!Edits = 1 .. MaxEdits
      /\ edits \in 0 .. MaxEdits /\ deaths \in 0 .. MaxDeaths
      /\ writer \in [Writers -> WriterKinds]
  BY DEF Filed, E!Edits, E!TypeOK, WriterKinds, Steps
<1>s. Steps = {"idle", "planned", "open", "clear", "create", "dump", "validate", "backup",
               "replace", "unlink"}
  BY DEF Steps, E!SaveSteps
<1>d. E!Document \in SUBSET E!Edits
  BY DEF E!TypeOK, E!Document, E!Contents
<1>t. ASSUME writer' \in [Writers -> WriterKinds],
             {file', temp'} \subseteq E!Contents \cup {NoFile}, backups' \subseteq SUBSET E!Edits,
             edits' \in 0 .. MaxEdits, deaths' \in 0 .. MaxDeaths, overlapped' \in BOOLEAN,
             accepted' \subseteq E!Edits, refused' \subseteq E!Edits, byHand' \subseteq E!Edits,
             overwritten' \subseteq E!Edits
      PROVE  E!TypeOK'
  BY <1>t DEF E!TypeOK, WriterKinds, Steps
<1>b. ASSUME NEW w \in Writers, NEW r \in WriterKinds, writer' = [writer EXCEPT ![w] = r],
             r.at \in {"idle", "open"} \/ r.edit # 0
      PROVE  writer' \in [Writers -> WriterKinds] /\ Begun'
  BY <1>b, OneWrites DEF Begun, E!SaveSteps
<1>1. ASSUME NEW w \in Writers, E!Plan(w)  PROVE E!TypeOK' /\ Begun'
  <2>1. edits' \in 1 .. MaxEdits /\ edits' \in 0 .. MaxEdits
    BY <1>0, <1>1 DEF E!Plan
  <2>2. E!Document \cup {edits'} \in SUBSET E!Edits
    BY <1>0, <1>d, <2>1
  <2> DEFINE r == [E!Idle EXCEPT !.at = "planned", !.seen = E!Document,
                                 !.doc = E!Document \cup {edits'}, !.edit = edits']
  <2>3. r \in WriterKinds /\ r.edit = edits'
    BY <1>d, <1>s, <2>1, <2>2, IdleKinds DEF E!Idle
  <2>4. writer' = writer \/ writer' = [writer EXCEPT ![w] = r]
    BY <1>1 DEF E!Plan, E!Set
  <2>5. writer' \in [Writers -> WriterKinds] /\ Begun'
    <3>1. CASE writer' = writer
      BY <1>0, <3>1 DEF Begun
    <3>2. CASE writer' = [writer EXCEPT ![w] = r]
      <4> HIDE DEF r
      <4>1. r.edit # 0
        BY <2>1, <2>3
      <4> QED
        BY <1>b, <2>3, <3>2, <4>1
    <3> QED
      BY <2>4, <3>1, <3>2
  <2>6. refused' \subseteq E!Edits
    BY <1>0, <1>1, <2>1 DEF E!Plan, E!TypeOK
  <2>7. UNCHANGED <<file, temp, backups, deaths, accepted, byHand, overwritten, overlapped>>
    BY <1>1 DEF E!Plan
  <2> QED
    BY <1>t, <2>1, <2>5, <2>6, <2>7 DEF E!TypeOK
<1>2. ASSUME NEW w \in Writers, E!Recheck(w)  PROVE E!TypeOK' /\ Begun'
  <2>1. writer[w] \in WriterKinds /\ writer[w].edit # 0 /\ writer[w].edit \in E!Edits
    BY <1>0, <1>2 DEF E!Recheck, Begun, WriterKinds
  <2>2. ASSUME NEW b \in BOOLEAN,
               writer' = [writer EXCEPT ![w] = [writer[w] EXCEPT !.at = "clear", !.fresh = b]]
        PROVE  writer' \in [Writers -> WriterKinds] /\ Begun'
    <3>1. PICK r \in WriterKinds : /\ r = [writer[w] EXCEPT !.at = "clear", !.fresh = b]
                                   /\ r.edit = writer[w].edit
      <4>1. [writer[w] EXCEPT !.at = "clear", !.fresh = b] \in WriterKinds
        BY ZenonT(60), <1>0, <1>s, <2>1, <2>2, StepKinds
      <4> QED
        BY <4>1, <2>1 DEF WriterKinds
    <3> QED
      BY <1>b, <2>1, <2>2, <3>1
  <2>3. writer' \in [Writers -> WriterKinds] /\ Begun'
    <3>1. CASE E!Refuse(w)
      BY <1>b, <3>1, Rests DEF E!Refuse, E!Set
    <3>2. CASE ~E!Refuse(w)
      <4>1. (file = NoFile) \in BOOLEAN
        OBVIOUS
      <4>2. writer' = [writer EXCEPT ![w] =
                          [writer[w] EXCEPT !.at = "clear", !.fresh = (file = NoFile)]]
        BY <1>2, <3>2 DEF E!Recheck, E!Set
      <4> QED
        BY <2>2, <4>1, <4>2
    <3> QED
      BY <3>1, <3>2
  <2>4. overlapped' \in BOOLEAN /\ refused' \subseteq E!Edits
    BY <1>2, <2>1 DEF E!Recheck, E!Enters, E!Refuse, E!TypeOK
  <2>5. UNCHANGED <<file, temp, backups, edits, deaths, accepted, byHand, overwritten>>
    BY <1>2 DEF E!Recheck
  <2> QED
    BY <1>t, <2>3, <2>4, <2>5 DEF E!TypeOK
<1>3. ASSUME NEW w \in Writers, E!SaveForm(w)  PROVE E!TypeOK' /\ Begun'
  <2>1. edits' \in 1 .. MaxEdits /\ edits' \in 0 .. MaxEdits
    BY <1>0, <1>3 DEF E!SaveForm
  <2>2. writer[w].doc \cup {edits'} \in SUBSET E!Edits /\ writer[w] \in WriterKinds
    BY <1>0, <2>1 DEF WriterKinds
  <2> DEFINE r == [writer[w] EXCEPT !.at = "clear", !.edit = edits',
                                    !.doc = writer[w].doc \cup {edits'}]
  <2>3. r \in WriterKinds /\ r.edit = edits'
    <3>1. \A n \in 0 .. MaxEdits : \A d \in SUBSET E!Edits :
              [writer[w] EXCEPT !.at = "clear", !.edit = n, !.doc = d] \in WriterKinds
      BY <1>s, <2>2, StepKinds
    <3>2. r \in WriterKinds
      BY <2>1, <2>2, <3>1
    <3>3. r.edit = edits'
      BY <2>2 DEF WriterKinds
    <3> QED
      BY <3>2, <3>3
  <2>4. writer' = [writer EXCEPT ![w] = r]
    BY <1>3 DEF E!SaveForm, E!Set
  <2>5. writer' \in [Writers -> WriterKinds] /\ Begun'
    <3> HIDE DEF r
    <3>1. r.edit # 0
      BY <2>1, <2>3
    <3> QED
      BY <1>b, <2>3, <2>4, <3>1
  <2>6. overlapped' \in BOOLEAN
    BY <1>3 DEF E!SaveForm, E!Enters, E!TypeOK
  <2>7. UNCHANGED <<file, temp, backups, deaths, accepted, refused, byHand, overwritten>>
    BY <1>3 DEF E!SaveForm
  <2> QED
    BY <1>t, <2>1, <2>5, <2>6, <2>7 DEF E!TypeOK
<1>4. ASSUME NEW w \in Writers, E!Open(w) \/ E!Close(w) \/ E!Die(w)  PROVE E!TypeOK' /\ Begun'
  <2>1. deaths' = deaths \/ (deaths < MaxDeaths /\ deaths' = deaths + 1)
    BY <1>4 DEF E!Open, E!Close, E!Die
  <2>2. deaths' \in 0 .. MaxDeaths
    BY <1>0, <2>1
  <2>3. UNCHANGED <<file, temp, backups, edits, accepted, refused, byHand, overwritten,
                    overlapped>>
    BY <1>4, Zenon DEF E!Open, E!Close, E!Die
  <2>4. E!Idle \in WriterKinds /\ E!Idle.at = "idle"
    <3>1. 0 \in 0 .. MaxEdits /\ "idle" \in Steps
      BY <1>0, <1>s
    <3>2. E!Idle \in WriterKinds
      BY <1>d, <3>1, IdleKinds
    <3> QED
      BY <3>2 DEF E!Idle
  <2>5. CASE E!Close(w) \/ E!Die(w)
    <3>1. writer' \in [Writers -> WriterKinds] /\ Begun'
      BY <1>b, <2>4, <2>5 DEF E!Close, E!Die, E!Set
    <3> QED
      BY <1>0, <1>t, <2>2, <2>3, <3>1 DEF E!TypeOK
  <2>6. CASE E!Open(w)
    <3>1. file.doc \in SUBSET E!Edits
      BY <2>6 DEF E!Open, E!TypeOK, E!Contents
    <3> DEFINE r == [E!Idle EXCEPT !.tool = TRUE, !.at = "open", !.doc = file.doc]
    <3>2. r \in WriterKinds
      BY <1>0, <1>d, <1>s, <3>1, IdleKinds
    <3>3. r.at = "open"
      BY DEF E!Idle
    <3>4. writer' = [writer EXCEPT ![w] = r]
      BY <2>6 DEF E!Open, E!Set
    <3>5. writer' \in [Writers -> WriterKinds] /\ Begun'
      <4> HIDE DEF r
      <4> QED
        BY <1>b, <3>2, <3>3, <3>4
    <3> QED
      BY <1>0, <1>t, <2>2, <2>3, <3>5 DEF E!TypeOK
  <2> QED
    BY <1>4, <2>5, <2>6
<1>5. ASSUME NEW w \in Writers,
             E!Clear(w) \/ E!Create(w) \/ E!Dump(w) \/ E!Validate(w) \/ E!BackUp(w)
             \/ E!Replace(w)
      PROVE  E!TypeOK' /\ Begun'
  <2>1. writer[w] \in WriterKinds /\ writer[w].edit # 0 /\ writer[w].doc \in SUBSET E!Edits
    BY <1>0, <1>5 DEF E!Clear, E!Create, E!Dump, E!Validate, E!BackUp, E!Replace, Begun,
                      WriterKinds, E!SaveSteps
  <2>2. PICK s \in Steps, b \in BOOLEAN :
            \/ E!At(w, s)
            \/ E!Set(w, [writer[w] EXCEPT !.at = s, !.done = TRUE])
    BY <1>5, <1>s DEF E!Clear, E!Create, E!Dump, E!Validate, E!BackUp, E!Replace
  <2>3. writer' \in [Writers -> WriterKinds] /\ Begun'
    <3>1. PICK r \in WriterKinds : writer' = [writer EXCEPT ![w] = r] /\ r.edit = writer[w].edit
      <4>1. [writer[w] EXCEPT !.at = s] \in WriterKinds
        BY <2>1, <2>2, <1>0, StepKinds
      <4>2. [writer[w] EXCEPT !.at = s, !.done = TRUE] \in WriterKinds
        BY <2>1, <2>2, <1>0, StepKinds
      <4>3. /\ [writer[w] EXCEPT !.at = s].edit = writer[w].edit
            /\ [writer[w] EXCEPT !.at = s, !.done = TRUE].edit = writer[w].edit
        BY <2>1 DEF WriterKinds
      <4> QED
        BY <2>2, <4>1, <4>2, <4>3 DEF E!At, E!Set
    <3> QED
      BY <1>b, <2>1, <3>1
  <2>4. {file', temp'} \subseteq E!Contents \cup {NoFile}
    <3>1. CASE E!Dump(w)
      <4>1. \A f \in E!Contents : [f EXCEPT !.whole = TRUE] \in E!Contents
        BY DEF E!Contents
      <4> QED
        BY <3>1, <4>1 DEF E!Dump, E!TypeOK
    <3>2. CASE E!Create(w)
      <4>1. [doc |-> writer[w].doc, by |-> w, whole |-> FALSE] \in E!Contents
        BY <2>1 DEF E!Contents
      <4> QED
        BY <3>2, <4>1 DEF E!Create, E!TypeOK
    <3>3. CASE E!Clear(w) \/ E!Validate(w) \/ E!BackUp(w) \/ E!Replace(w)
      BY <3>3 DEF E!Clear, E!Validate, E!BackUp, E!Replace, E!TypeOK
    <3> QED
      BY <1>5, <3>1, <3>2, <3>3
  <2>5. backups' \subseteq SUBSET E!Edits
    BY <1>5 DEF E!Clear, E!Create, E!Dump, E!Validate, E!BackUp, E!Replace, E!TypeOK, E!Contents
  <2>6. overwritten' \subseteq E!Edits
    BY <1>5, <1>d DEF E!Clear, E!Create, E!Dump, E!Validate, E!BackUp, E!Replace, E!TypeOK
  <2>7. UNCHANGED <<edits, deaths, accepted, refused, byHand, overlapped>>
    BY <1>5, Zenon DEF E!Clear, E!Create, E!Dump, E!Validate, E!BackUp, E!Replace
  <2> QED
    BY <1>0, <1>t, <2>3, <2>4, <2>5, <2>6, <2>7 DEF E!TypeOK
<1>6. ASSUME NEW w \in Writers, E!Unlink(w)  PROVE E!TypeOK' /\ Begun'
  <2>1. writer[w].edit \in E!Edits
    BY <1>0, <1>6 DEF E!Unlink, Begun, WriterKinds, E!SaveSteps
  <2>2. writer' \in [Writers -> WriterKinds] /\ Begun'
    BY <1>b, <1>6, Rests DEF E!Unlink, E!Refuse, E!Set
  <2>3. accepted' \subseteq E!Edits /\ refused' \subseteq E!Edits /\ temp' = NoFile
    BY <1>6, <2>1 DEF E!Unlink, E!Refuse, E!TypeOK
  <2>4. UNCHANGED <<file, backups, edits, deaths, byHand, overwritten, overlapped>>
    BY <1>6 DEF E!Unlink
  <2> QED
    BY <1>0, <1>t, <2>2, <2>3, <2>4 DEF E!TypeOK
<1>7. CASE E!EditByHand
  <2>1. edits' \in 1 .. MaxEdits /\ edits' \in 0 .. MaxEdits
    BY <1>0, <1>7 DEF E!EditByHand
  <2>2. file' \in E!Contents
    <3>1. file \in E!Contents
      BY <1>7 DEF E!EditByHand, E!TypeOK
    <3>2. \A f \in E!Contents : \A d \in SUBSET E!Edits :
              [f EXCEPT !.doc = d, !.by = NoFile] \in E!Contents
      BY DEF E!Contents
    <3>3. file.doc \cup {edits'} \in SUBSET E!Edits
      BY <1>0, <2>1, <3>1 DEF E!Contents
    <3> QED
      BY <1>7, <3>1, <3>2, <3>3 DEF E!EditByHand
  <2>3. overlapped' \in BOOLEAN /\ byHand' \subseteq E!Edits
    BY <1>0, <1>7, <2>1 DEF E!EditByHand, E!TypeOK
  <2>4. UNCHANGED <<temp, backups, writer, deaths, accepted, refused, overwritten>>
    BY <1>7 DEF E!EditByHand
  <2> QED
    BY <1>0, <1>t, <2>1, <2>2, <2>3, <2>4 DEF E!TypeOK, Begun
<1>8. CASE UNCHANGED editVars
  BY <1>8 DEF editVars, E!TypeOK, Begun
<1> QED
  BY <1>1, <1>2, <1>3, <1>4, <1>5, <1>6, <1>7, <1>8 DEF E!Next

\* A step after which a writer has no edit to save, and that leaves the file and the backups.
LEMMA Puts ==
    ASSUME Filed, E!TypeOK, Begun, Unspoiled, ~overlapped, ~overlapped', NEW w \in Writers,
           \A v \in Writers \ {w} : writer'[v] = writer[v],
           writer'[w].at \in {"idle", "open"}, writer'[w].edit = 0, ~writer'[w].done,
           writer'[w].tool \/ (writer'[w].doc = {} /\ writer'[w].at = "idle"), ~writer'[w].fresh,
           UNCHANGED <<file, backups, accepted, byHand, overwritten>>,
           edits \in Nat, edits' \in {edits, edits + 1},
           writer'[w].doc \cap refused' = {}, writer'[w].doc \subseteq 1 .. edits,
           \A v \in Writers \ {w} : writer[v].doc \cap refused' = {},
           \A v \in Writers \ {w} :
               writer[v].at \in {"planned"} \cup E!SaveSteps /\ ~writer[v].done =>
                   writer[v].edit \notin writer'[w].doc,
           refused' \cap (E!Document \cup UNION backups) = {}, refused' \subseteq 1 .. edits',
           temp' = temp \/ \A v \in Writers \ {w} : writer[v].at \notin E!SaveSteps
    PROVE  Unspoiled'
<1>0. E!Document' = E!Document /\ \A d : E!Errors(d)' = E!Errors(d)
  BY DEF E!Document, E!Errors
<1>1. E!NoEditLost'
  BY <1>0 DEF Unspoiled, E!NoEditLost
<1>2. EditsKept'
  <2>1. 1 .. edits \subseteq 1 .. edits'
    OBVIOUS
  <2>2. E!Document \cup UNION backups \subseteq 1 .. edits
    BY DEF Unspoiled, EditsKept
  <2>3. \A v \in Writers : writer[v].doc \subseteq 1 .. edits
    BY DEF Unspoiled, EditsKept
  <2> QED
    <3>1. \A v \in Writers : writer'[v].doc \subseteq (1 .. edits') \ refused'
      <4>1. ASSUME NEW v \in Writers PROVE writer'[v].doc \subseteq 1 .. edits'
        <5>1. CASE v = w
          BY <2>1, <5>1
        <5>2. CASE v # w
          BY <2>1, <2>3, <5>2
        <5> QED
          BY <5>1, <5>2
      <4>2. ASSUME NEW v \in Writers PROVE writer'[v].doc \cap refused' = {}
        OBVIOUS
      <4> QED
        BY <4>1, <4>2
    <3>2. E!Document' \cup refused' \cup UNION backups' \subseteq 1 .. edits'
      BY <1>0, <2>1, <2>2
    <3> QED
      BY <3>1, <3>2 DEF EditsKept
<1>3. EditsOwned'
  <2>1. ASSUME NEW v \in Writers, writer'[v].at \in {"planned"} \cup E!SaveSteps
        PROVE  v # w /\ writer'[v] = writer[v] /\ writer[v].edit # 0
    BY <2>1 DEF Begun, E!SaveSteps
  <2> QED
    BY <1>0, <2>1 DEF Unspoiled, EditsOwned
<1>4. Planned'
  BY <1>0 DEF Unspoiled, Planned, E!Errors
<1>5. SavesAlone'
  <2>1. ASSUME NEW v \in Writers, writer'[v].at \in E!SaveSteps
        PROVE  v # w /\ writer'[v] = writer[v] /\ temp' = temp
    BY <2>1 DEF E!SaveSteps
  <2>2. ASSUME NEW v \in Writers, writer'[v].at \in E!SaveSteps
        PROVE  Saves(v)'
    <3>1. Saves(v) /\ v # w /\ writer'[v] = writer[v] /\ temp' = temp
      BY <2>1, <2>2 DEF Unspoiled, SavesAlone
    <3>2. \A u \in Writers : writer'[u].at \in E!SaveSteps => u = v
      BY <2>1, <3>1 DEF Saves
    <3> QED
      BY <1>0, <3>1, <3>2 DEF Saves
  <2> QED
    BY <2>2 DEF SavesAlone
<1> QED
  BY <1>1, <1>2, <1>3, <1>4, <1>5 DEF Unspoiled

\* A writer goes on with the edit it has, and the file, the backups and what was said of the edits
\* stay.
LEMMA GoesOn ==
    ASSUME Filed, E!TypeOK, Begun, Unspoiled, ~overlapped, ~overlapped', NEW w \in Writers,
           \A v \in Writers \ {w} : writer'[v] = writer[v],
           writer[w].at \in {"planned"} \cup E!SaveSteps, writer'[w].at \in E!SaveSteps,
           writer'[w].edit = writer[w].edit, writer'[w].doc = writer[w].doc,
           writer'[w].done = writer[w].done, writer'[w].tool = writer[w].tool,
           writer[w].tool => ~writer'[w].fresh,
           writer[w].done => writer'[w].at = "unlink",
           E!Document' = E!Document, (file = NoFile) = (file' = NoFile),
           file' # NoFile => file'.whole,
           UNION backups \subseteq UNION backups',
           UNION backups' \subseteq E!Document \cup UNION backups,
           UNCHANGED <<edits, accepted, refused, byHand, overwritten>>,
           Saves(w)'
    PROVE  Unspoiled'
<1>0. \A d : E!Errors(d)' = E!Errors(d)
  BY DEF E!Errors
<1>1. E!NoEditLost'
  <2>1. \A e \in overwritten \ E!Document : \E b \in backups' : e \in b
    BY DEF Unspoiled, E!NoEditLost
  <2> QED
    BY <1>0, <2>1 DEF Unspoiled, E!NoEditLost
<1>2. EditsKept'
  BY DEF Unspoiled, EditsKept
<1>3. EditsOwned'
  BY DEF Unspoiled, EditsOwned
<1>4. Planned'
  BY <1>0 DEF Unspoiled, Planned, E!SaveSteps, E!Errors
<1>5. SavesAlone'
  BY DEF SavesAlone, Saves
<1> QED
  BY <1>1, <1>2, <1>3, <1>4, <1>5 DEF Unspoiled

LEMMA CommandsKeep ==
    ASSUME Filed, E!TypeOK, E!TypeOK', Begun, Begun', Unspoiled, ~overlapped, ~overlapped',
           NEW w \in Writers, E!Plan(w) \/ E!Recheck(w)
    PROVE  Unspoiled'
<1>0. /\ writer \in [Writers -> WriterKinds] /\ edits \in Nat
      /\ NoFile \notin E!Contents /\ file \in E!Contents \cup {NoFile}
  BY DEF Filed, E!TypeOK, WriterKinds, Steps
<1>1. CASE E!Plan(w) /\ writer' = writer
  <2>1. /\ edits' = edits + 1 /\ refused' \subseteq refused \cup {edits'}
        /\ UNCHANGED <<file, temp, backups, accepted, byHand, overwritten>>
        /\ writer[w] = E!Idle
    BY <1>1 DEF E!Plan
  <2>2. edits' \notin 1 .. edits /\ refused \subseteq 1 .. edits
    BY <1>0, <2>1 DEF Unspoiled, EditsKept
  <2>3. \A v \in Writers : writer[v].doc \subseteq 1 .. edits /\ writer[v].doc \cap refused' = {}
    BY <2>1, <2>2 DEF Unspoiled, EditsKept
  <2>4. refused' \cap (E!Document \cup UNION backups) = {}
    BY <2>1, <2>2 DEF Unspoiled, EditsKept, E!NoEditLost
  <2>5. refused' \subseteq 1 .. edits'
    BY <1>0, <2>1, <2>2
  <2>6. /\ writer'[w].at = "idle" /\ writer'[w].edit = 0 /\ writer'[w].done = FALSE
        /\ writer'[w].doc = {} /\ writer'[w].fresh = FALSE
    BY <1>1, <2>1 DEF E!Idle
  <2> QED
    BY <1>0, <1>1, <2>1, <2>3, <2>4, <2>5, <2>6, Puts
<1>2. CASE E!Recheck(w) /\ E!Refuse(w)
  <2>1. /\ UNCHANGED <<file, temp, backups, edits, accepted, byHand, overwritten>>
        /\ refused' = refused \cup {writer[w].edit}
        /\ writer[w].at = "planned" /\ writer' = [writer EXCEPT ![w] = E!AtRest(w)]
    BY <1>2 DEF E!Recheck, E!Refuse, E!Set
  <2>2. ~writer[w].tool /\ ~writer[w].done /\ writer[w].edit \in writer[w].doc
    BY <2>1 DEF Unspoiled, Planned, EditsOwned
  <2>3. /\ writer'[w].at = "idle" /\ writer'[w].edit = 0 /\ ~writer'[w].done /\ ~writer'[w].fresh
        /\ writer'[w].doc = {} /\ \A v \in Writers \ {w} : writer'[v] = writer[v]
    BY <2>1, <2>2, Rests, OneWrites
  <2>4. \A v \in Writers \ {w} : writer[v].doc \cap refused' = {}
    BY <2>1, <2>2 DEF Unspoiled, EditsOwned, EditsKept
  <2>5. refused' \cap (E!Document \cup UNION backups) = {}
    BY <2>1, <2>2 DEF Unspoiled, EditsOwned, E!NoEditLost
  <2>6. refused' \subseteq 1 .. edits'
    BY <2>1, <2>2 DEF Unspoiled, EditsKept
  <2> QED
    BY <1>0, <2>1, <2>3, <2>4, <2>5, <2>6, Puts
<1>3. CASE E!Recheck(w) /\ ~E!Refuse(w)
  <2>1. /\ UNCHANGED <<file, temp, backups, edits, accepted, refused, byHand, overwritten>>
        /\ writer[w].at = "planned" /\ E!Document = writer[w].seen
        /\ \A v \in Writers \ {w} : writer[v].at \notin E!SaveSteps
        /\ writer' = [writer EXCEPT ![w] =
                         [writer[w] EXCEPT !.at = "clear", !.fresh = (file = NoFile)]]
    BY <1>3 DEF E!Recheck, E!SameVersion, E!Enters, E!Set
  <2>2. /\ ~writer[w].tool /\ ~writer[w].done
        /\ writer[w].doc = writer[w].seen \cup {writer[w].edit}
    BY <2>1 DEF Unspoiled, Planned
  <2>3. /\ \A v \in Writers \ {w} : writer'[v] = writer[v]
        /\ writer'[w].at = "clear" /\ writer'[w].edit = writer[w].edit
        /\ writer'[w].doc = writer[w].doc
    BY <1>0, <2>1 DEF WriterKinds
  <2>4. /\ writer'[w].done = writer[w].done /\ writer'[w].tool = writer[w].tool
        /\ writer'[w].fresh => file = NoFile
    BY <1>0, <2>1 DEF WriterKinds
  <2>5. E!Document' = E!Document /\ (file # NoFile => file.whole)
    BY <2>1 DEF E!Document, Unspoiled, E!NoEditLost
  <2>6. Saves(w)'
    BY <2>1, <2>2, <2>3, <2>4, <2>5 DEF Saves, E!SaveSteps
  <2> QED
    BY <2>1, <2>2, <2>3, <2>4, <2>5, <2>6, GoesOn DEF E!SaveSteps
<1>4. CASE E!Plan(w) /\ writer' # writer
  <2> DEFINE r == [E!Idle EXCEPT !.at = "planned", !.seen = E!Document,
                                 !.doc = E!Document \cup {edits'}, !.edit = edits']
  <2>1. /\ UNCHANGED <<file, temp, backups, accepted, refused, byHand, overwritten>>
        /\ edits' = edits + 1 /\ E!Errors(E!Document \cup {edits'}) = {}
        /\ writer[w] = E!Idle /\ writer' = [writer EXCEPT ![w] = r]
    BY <1>4 DEF E!Plan, E!Set
  <2>2. /\ writer'[w].at = "planned" /\ writer'[w].edit = edits + 1
        /\ writer'[w].seen = E!Document /\ writer'[w].doc = E!Document \cup {edits + 1}
        /\ \A v \in Writers \ {w} : writer'[v] = writer[v]
    BY <1>0, <2>1 DEF E!Idle
  <2>3. ~writer'[w].done /\ ~writer'[w].tool
    BY <1>0, <2>1 DEF E!Idle
  <2>4. E!Document' = E!Document /\ \A d : E!Errors(d)' = E!Errors(d)
    BY <2>1 DEF E!Document, E!Errors
  <2>5. edits + 1 \notin 1 .. edits /\ 1 .. edits \cup {edits + 1} \subseteq 1 .. edits'
    BY <1>0, <2>1
  <2>6. /\ E!Document \cup refused \cup UNION backups \subseteq 1 .. edits
        /\ \A v \in Writers : writer[v].doc \subseteq (1 .. edits) \ refused
    BY DEF Unspoiled, EditsKept
  <2>7. E!NoEditLost'
    BY <2>1, <2>4 DEF Unspoiled, E!NoEditLost
  <2>8. E!Document \cap refused = {}
    BY DEF Unspoiled, E!NoEditLost
  <2>9. EditsKept'
    <3>1. E!Document' \cup refused' \cup UNION backups' \subseteq 1 .. edits'
      BY <2>1, <2>4, <2>5, <2>6
    <3>2. writer'[w].doc \subseteq (1 .. edits') \ refused'
      <4>1. edits + 1 \notin refused
        BY <2>5, <2>6
      <4> QED
        BY <2>1, <2>2, <2>5, <2>6, <2>8, <4>1
    <3>3. \A v \in Writers \ {w} : writer'[v].doc \subseteq (1 .. edits') \ refused'
      BY <2>1, <2>2, <2>5, <2>6
    <3> QED
      BY <3>1, <3>2, <3>3 DEF EditsKept
  <2>10. EditsOwned'
    <3>1. /\ edits + 1 \in writer'[w].doc
          /\ edits + 1 \notin E!Document' \cup UNION backups'
      BY <2>1, <2>2, <2>4, <2>5, <2>6
    <3>2. ASSUME NEW v \in Writers \ {w}
          PROVE  edits + 1 \notin writer'[v].doc /\ writer'[v].edit # edits + 1
      <4>1. edits + 1 \notin writer[v].doc
        BY <2>5, <2>6
      <4>2. writer[v].at \in {"planned"} \cup E!SaveSteps => writer[v].edit # edits + 1
        BY <4>1 DEF Unspoiled, EditsOwned
      <4>3. writer[v].at \notin {"planned"} \cup E!SaveSteps => writer[v].edit = 0
        BY <1>0 DEF Unspoiled, Planned, WriterKinds, Steps
      <4> QED
        BY <1>0, <2>2, <4>1, <4>2, <4>3
    <3>3. ASSUME NEW v \in Writers \ {w}, writer[v].at \in {"planned"} \cup E!SaveSteps,
                 ~writer[v].done
          PROVE  writer[v].edit \notin writer'[w].doc
      <4>1. writer[v].edit # edits + 1 /\ writer[v].edit \notin E!Document
        BY <2>2, <3>2, <3>3 DEF Unspoiled, EditsOwned
      <4> QED
        BY <2>2, <4>1
    <3>4. ASSUME NEW v \in Writers \ {w}, writer[v].at \in {"planned"} \cup E!SaveSteps
          PROVE  /\ writer'[v].edit \in writer'[v].doc
                 /\ ~writer'[v].done =>
                        /\ writer'[v].edit \notin E!Document' \cup UNION backups'
                        /\ \A u \in Writers \ {v} : writer'[u].edit # writer'[v].edit
                                                    /\ writer'[v].edit \notin writer'[u].doc
      BY <2>1, <2>2, <2>4, <3>2, <3>3, <3>4 DEF Unspoiled, EditsOwned
    <3> QED
      BY <2>2, <3>1, <3>2, <3>4 DEF EditsOwned
  <2>11. Planned'
    BY ZenonT(60), <2>1, <2>2, <2>3, <2>4 DEF Unspoiled, Planned
  <2>12. SavesAlone'
    <3>1. ASSUME NEW v \in Writers, writer'[v].at \in E!SaveSteps PROVE Saves(v)'
      <4>1. v # w /\ writer'[v] = writer[v] /\ Saves(v)
        BY <2>2, <3>1 DEF Unspoiled, SavesAlone, E!SaveSteps
      <4> QED
        BY <2>1, <2>2, <2>4, <4>1 DEF Saves, E!SaveSteps
    <3> QED
      BY <3>1 DEF SavesAlone
  <2> QED
    BY <2>7, <2>9, <2>10, <2>11, <2>12 DEF Unspoiled
<1> QED
  BY <1>1, <1>2, <1>3, <1>4

LEMMA ToolsKeep ==
    ASSUME Filed, E!TypeOK, E!TypeOK', Begun, Begun', Unspoiled, ~overlapped, ~overlapped',
           NEW w \in Writers, E!Open(w) \/ E!SaveForm(w) \/ E!Close(w) \/ E!Die(w)
    PROVE  Unspoiled'
<1>0. /\ writer \in [Writers -> WriterKinds] /\ edits \in Nat
      /\ NoFile \notin E!Contents /\ file \in E!Contents \cup {NoFile}
  BY DEF Filed, E!TypeOK, WriterKinds, Steps
<1>f. /\ E!Document \cup refused \cup UNION backups \subseteq 1 .. edits
      /\ \A v \in Writers : writer[v].doc \subseteq (1 .. edits) \ refused
      /\ E!Document \cap refused = {} /\ refused \cap (E!Document \cup UNION backups) = {}
  BY DEF Unspoiled, EditsKept, E!NoEditLost
<1>o. \A v \in Writers : writer[v].at \in {"planned"} \cup E!SaveSteps /\ ~writer[v].done =>
          writer[v].edit \notin E!Document
  BY DEF Unspoiled, EditsOwned
<1>1. CASE E!Open(w) \/ E!Close(w) \/ E!Die(w)
  <2>1. UNCHANGED <<file, temp, backups, edits, accepted, refused, byHand, overwritten>>
    BY <1>1, Zenon DEF E!Open, E!Close, E!Die
  <2>2. /\ writer'[w].at \in {"idle", "open"} /\ writer'[w].edit = 0
        /\ writer'[w].doc \in {{}, E!Document} /\ \A v \in Writers \ {w} : writer'[v] = writer[v]
    <3>1. CASE E!Open(w)
      BY <1>0, <3>1 DEF E!Open, E!Set, E!Idle, E!Document
    <3>2. CASE E!Close(w) \/ E!Die(w)
      BY <1>0, <3>2 DEF E!Close, E!Die, E!Set, E!Idle
    <3> QED
      BY <1>1, <3>1, <3>2
  <2>3. ~writer'[w].done /\ ~writer'[w].fresh
        /\ (writer'[w].tool \/ (writer'[w].doc = {} /\ writer'[w].at = "idle"))
    <3>1. CASE E!Open(w)
      BY <1>0, <3>1 DEF E!Open, E!Set, E!Idle
    <3>2. CASE E!Close(w) \/ E!Die(w)
      BY <1>0, <3>2 DEF E!Close, E!Die, E!Set, E!Idle
    <3> QED
      BY <1>1, <3>1, <3>2
  <2> QED
    BY <1>0, <1>f, <1>o, <2>1, <2>2, <2>3, Puts
<1>2. CASE E!SaveForm(w)
  <2> DEFINE r == [writer[w] EXCEPT !.at = "clear", !.edit = edits',
                                    !.doc = writer[w].doc \cup {edits'}]
  <2>1. /\ UNCHANGED <<file, temp, backups, accepted, refused, byHand, overwritten>>
        /\ edits' = edits + 1 /\ writer[w].at = "open" /\ writer' = [writer EXCEPT ![w] = r]
        /\ \A v \in Writers \ {w} : writer[v].at \notin E!SaveSteps
    BY <1>2 DEF E!SaveForm, E!Set, E!Enters
  <2>2. /\ writer'[w].at = "clear" /\ writer'[w].edit = edits + 1
        /\ writer'[w].doc = writer[w].doc \cup {edits + 1}
        /\ \A v \in Writers \ {w} : writer'[v] = writer[v]
    BY <1>0, <2>1 DEF WriterKinds
  <2>3. /\ writer'[w].done = writer[w].done /\ writer'[w].tool = writer[w].tool
        /\ writer'[w].fresh = writer[w].fresh
    BY <1>0, <2>1 DEF WriterKinds
  <2>4. E!Document' = E!Document /\ \A d : E!Errors(d)' = E!Errors(d)
    BY <2>1 DEF E!Document, E!Errors
  <2>5. edits + 1 \notin 1 .. edits /\ 1 .. edits \cup {edits + 1} \subseteq 1 .. edits'
    BY <1>0, <2>1
  <2>6. writer[w].tool /\ ~writer[w].done /\ ~writer[w].fresh
    BY <2>1 DEF Unspoiled, Planned
  <2>7. E!NoEditLost'
    BY <2>1, <2>4 DEF Unspoiled, E!NoEditLost
  <2>n. edits + 1 \notin E!Document \cup refused \cup UNION backups
    BY <1>f, <2>5
  <2>9. EditsKept'
    <3>1. E!Document' \cup refused' \cup UNION backups' \subseteq 1 .. edits'
      BY <2>1, <2>4, <2>5, <1>f
    <3>2. writer'[w].doc \subseteq (1 .. edits') \ refused'
      BY <2>1, <2>2, <2>5, <2>n, <1>f
    <3>3. \A v \in Writers \ {w} : writer'[v].doc \subseteq (1 .. edits') \ refused'
      BY <2>1, <2>2, <2>5, <1>f
    <3> QED
      BY <3>1, <3>2, <3>3 DEF EditsKept
  <2>10. EditsOwned'
    <3>1. /\ edits + 1 \in writer'[w].doc
          /\ edits + 1 \notin E!Document' \cup UNION backups'
      BY <2>1, <2>2, <2>4, <2>n
    <3>2. ASSUME NEW v \in Writers \ {w}
          PROVE  edits + 1 \notin writer'[v].doc /\ writer'[v].edit # edits + 1
      <4>1. edits + 1 \notin writer[v].doc
        BY <2>5, <1>f
      <4>2. writer[v].at \in {"planned"} \cup E!SaveSteps => writer[v].edit # edits + 1
        BY <4>1 DEF Unspoiled, EditsOwned
      <4>3. writer[v].at \notin {"planned"} \cup E!SaveSteps => writer[v].edit = 0
        BY <1>0 DEF Unspoiled, Planned, WriterKinds, Steps
      <4> QED
        BY <1>0, <2>2, <4>1, <4>2, <4>3
    <3>3. ASSUME NEW v \in Writers \ {w}, writer[v].at \in {"planned"} \cup E!SaveSteps,
                 ~writer[v].done
          PROVE  writer[v].edit \notin writer'[w].doc
      <4>1. writer[v].edit # edits + 1 /\ writer[v].edit \notin writer[w].doc
        BY <2>2, <3>2, <3>3 DEF Unspoiled, EditsOwned
      <4> QED
        BY <2>2, <4>1
    <3>4. ASSUME NEW v \in Writers \ {w}, writer[v].at \in {"planned"} \cup E!SaveSteps
          PROVE  /\ writer'[v].edit \in writer'[v].doc
                 /\ ~writer'[v].done =>
                        /\ writer'[v].edit \notin E!Document' \cup UNION backups'
                        /\ \A u \in Writers \ {v} : writer'[u].edit # writer'[v].edit
                                                    /\ writer'[v].edit \notin writer'[u].doc
      BY <2>1, <2>2, <2>4, <3>2, <3>3, <3>4 DEF Unspoiled, EditsOwned
    <3> QED
      BY <2>2, <3>1, <3>2, <3>4 DEF EditsOwned
  <2>11. Planned'
    BY <2>1, <2>2, <2>3, <2>4, <2>6 DEF Unspoiled, Planned
  <2>12. SavesAlone'
    <3>1. \A v \in Writers : writer'[v].at \in E!SaveSteps => v = w
      BY <2>1, <2>2
    <3>2. Saves(w)'
      BY <2>2, <2>3, <2>6, <3>1 DEF Saves
    <3> QED
      BY <3>1, <3>2 DEF SavesAlone
  <2> QED
    BY <2>7, <2>9, <2>10, <2>11, <2>12 DEF Unspoiled
<1> QED
  BY <1>1, <1>2

\* What a writer that saves does to its own state when it only goes from one step to the next.
LEMMA NextStep ==
    ASSUME writer \in [Writers -> WriterKinds], NEW w \in Writers, NEW s \in Steps, E!At(w, s)
    PROVE  /\ \A v \in Writers \ {w} : writer'[v] = writer[v]
           /\ writer'[w].at = s
           /\ writer'[w].edit = writer[w].edit /\ writer'[w].doc = writer[w].doc
           /\ writer'[w].done = writer[w].done /\ writer'[w].tool = writer[w].tool
           /\ writer'[w].fresh = writer[w].fresh
BY DEF E!At, E!Set, WriterKinds

LEMMA SavesKeep ==
    ASSUME Filed, E!TypeOK, E!TypeOK', Begun, Begun', Unspoiled, ~overlapped, ~overlapped',
           NEW w \in Writers,
           E!Clear(w) \/ E!Create(w) \/ E!Dump(w) \/ E!Validate(w) \/ E!BackUp(w)
    PROVE  Unspoiled'
<1>0. /\ writer \in [Writers -> WriterKinds] /\ edits \in Nat
      /\ NoFile \notin E!Contents /\ {file, temp} \subseteq E!Contents \cup {NoFile}
  BY DEF Filed, E!TypeOK, WriterKinds, Steps
<1>s. Steps = {"idle", "planned", "open", "clear", "create", "dump", "validate", "backup",
               "replace", "unlink"}
      /\ E!SaveSteps = {"clear", "create", "dump", "validate", "backup", "replace", "unlink"}
  BY DEF Steps, E!SaveSteps
<1>e. \A d : E!Errors(d)' = E!Errors(d)
  BY DEF E!Errors
<1>w. /\ Saves(w) /\ ~writer[w].done
      /\ writer[w].at \in {"clear", "create", "dump", "validate", "backup"}
  BY <1>s DEF Unspoiled, Planned, SavesAlone, E!Clear, E!Create, E!Dump, E!Validate, E!BackUp
<1>n. UNCHANGED <<edits, accepted, refused, byHand, overwritten>>
  BY Zenon DEF E!Clear, E!Create, E!Dump, E!Validate, E!BackUp
<1>o. \A v \in Writers : writer[v].at \in E!SaveSteps => v = w
  BY <1>w DEF Saves
<1>a. ASSUME NEW s \in {"create", "dump", "validate", "backup", "replace", "unlink"}, E!At(w, s),
             E!Document' = E!Document, (file = NoFile) = (file' = NoFile),
             file' # NoFile => file'.whole,
             UNION backups \subseteq UNION backups',
             UNION backups' \subseteq E!Document \cup UNION backups,
             s = "create" => temp' = NoFile,
             s = "dump" => temp' = [doc |-> writer[w].doc, by |-> w, whole |-> FALSE],
             s \in {"validate", "backup", "replace"} =>
                 temp' = [doc |-> writer[w].doc, by |-> w, whole |-> TRUE],
             s \in {"backup", "replace"} => E!Errors(writer[w].doc) \subseteq E!Errors(E!Document),
             s = "replace" /\ ~writer[w].fresh => E!Document \in backups',
             writer[w].fresh => s \notin {"validate", "backup"},
             writer[w].fresh /\ s \in {"create", "dump", "replace"} => file = NoFile
      PROVE  Unspoiled'
  <2>1. /\ \A v \in Writers \ {w} : writer'[v] = writer[v]
        /\ writer'[w].at = s
        /\ writer'[w].edit = writer[w].edit /\ writer'[w].doc = writer[w].doc
        /\ writer'[w].done = writer[w].done /\ writer'[w].tool = writer[w].tool
        /\ writer'[w].fresh = writer[w].fresh
    BY <1>0, <1>a, <1>s, NextStep
  <2>2. \A v \in Writers : writer'[v].at \in E!SaveSteps => v = w
    BY <1>o, <2>1
  <2>3. Saves(w)'
    BY <1>a, <1>e, <1>w, <2>1, <2>2 DEF Saves
  <2> QED
    BY <1>a, <1>n, <1>s, <1>w, <2>1, <2>3, GoesOn DEF Unspoiled, Planned
<1>k. file # NoFile => file.whole
  BY DEF Unspoiled, E!NoEditLost
<1>1. CASE E!Clear(w)
  BY <1>1, <1>a, <1>k, <1>w DEF E!Clear, Saves, E!Document
<1>2. CASE E!Create(w)
  BY <1>2, <1>a, <1>k, <1>w DEF E!Create, Saves, E!Document
<1>3. CASE E!Dump(w)
  <2>1. temp = [doc |-> writer[w].doc, by |-> w, whole |-> FALSE]
    BY <1>3, <1>w DEF E!Dump, Saves
  <2>2. temp # NoFile
    <3>1. \A b \in BOOLEAN : [doc |-> writer[w].doc, by |-> w, whole |-> b] \in E!Contents
      BY <1>0 DEF E!Contents, WriterKinds
    <3>2. temp \in E!Contents
      BY <2>1, <3>1
    <3> QED
      BY <1>0, <3>2
  <2>3. temp' = [temp EXCEPT !.whole = TRUE] /\ UNCHANGED backups
    BY <1>3, <2>1, <2>2 DEF E!Dump
  <2>4. temp' = [doc |-> writer[w].doc, by |-> w, whole |-> TRUE]
    BY <2>1, <2>3
  <2>5. file' \in {file, [file EXCEPT !.whole = TRUE]} /\ (file = NoFile => file' = NoFile)
    BY <1>3 DEF E!Dump
  <2>6. /\ E!Document' = E!Document /\ ((file = NoFile) = (file' = NoFile))
        /\ (file' # NoFile => file'.whole)
    <3>1. CASE file = NoFile
      BY <2>5, <3>1 DEF E!Document
    <3>2. CASE file # NoFile
      <4>1. file \in E!Contents
        BY <1>0, <3>2
      <4>2. file' \in E!Contents /\ file'.doc = file.doc /\ file'.whole = TRUE
        BY <1>k, <2>5, <3>2, <4>1 DEF E!Contents
      <4>3. file' # NoFile
        BY <1>0, <4>2
      <4> QED
        BY <3>2, <4>2, <4>3 DEF E!Document
    <3> QED
      BY <3>1, <3>2
  <2>7. PICK s \in {"validate", "replace"} : E!At(w, s) /\ (s = "replace" <=> writer[w].fresh)
    BY <1>3 DEF E!Dump
  <2>8. writer[w].fresh => file = NoFile /\ E!Errors(writer[w].doc) = {}
    <3>1. writer[w].fresh => ~writer[w].tool /\ file = NoFile
      BY <1>3, <1>w DEF E!Dump, Saves, Unspoiled, Planned
    <3> QED
      BY <3>1 DEF Unspoiled, Planned
  <2> QED
    BY <1>a, <2>3, <2>4, <2>6, <2>7, <2>8
<1>4. CASE E!Validate(w)
  <2>1. temp = [doc |-> writer[w].doc, by |-> w, whole |-> TRUE]
    BY <1>4, <1>w DEF E!Validate, Saves
  <2>2. UNCHANGED <<file, temp, backups>>
        /\ ((E!NoNewError /\ E!At(w, "backup")) \/ E!At(w, "unlink"))
    BY <1>4 DEF E!Validate
  <2>3. E!NoNewError => E!Errors(writer[w].doc) \subseteq E!Errors(E!Document)
    BY <2>1 DEF E!NoNewError
  <2>4. ~writer[w].fresh
    BY <1>4, <1>w DEF E!Validate, Saves
  <2>5. CASE E!NoNewError /\ E!At(w, "backup")
    BY <1>a, <1>k, <2>1, <2>2, <2>3, <2>4, <2>5 DEF E!Document
  <2>6. CASE E!At(w, "unlink")
    BY <1>a, <1>k, <2>1, <2>2, <2>6 DEF E!Document
  <2> QED
    BY <2>2, <2>5, <2>6
<1>5. CASE E!BackUp(w)
  <2>1. temp = [doc |-> writer[w].doc, by |-> w, whole |-> TRUE]
        /\ E!Errors(writer[w].doc) \subseteq E!Errors(E!Document)
    BY <1>5, <1>w DEF E!BackUp, Saves
  <2>2. UNCHANGED <<file, temp>>
    BY <1>5 DEF E!BackUp
  <2>3. CASE file # NoFile /\ backups' = backups \cup {file.doc} /\ E!At(w, "replace")
    <3>1. E!Document = file.doc /\ E!Document' = E!Document
      BY <2>2, <2>3 DEF E!Document
    <3>2. UNION backups' = file.doc \cup UNION backups /\ file.doc \in backups'
      BY <2>3
    <3>3. ~writer[w].fresh
      BY <1>5, <1>w DEF E!BackUp, Saves
    <3> QED
      BY <1>a, <1>k, <2>1, <2>2, <2>3, <3>1, <3>2, <3>3
  <2>4. CASE UNCHANGED backups /\ E!At(w, "unlink")
    BY <1>a, <1>k, <2>2, <2>4 DEF E!Document
  <2> QED
    BY <1>5, <2>3, <2>4 DEF E!BackUp
<1> QED
  BY <1>1, <1>2, <1>3, <1>4, <1>5

LEMMA ReplaceKeeps ==
    ASSUME Filed, E!TypeOK, E!TypeOK', Begun, Begun', Unspoiled, ~overlapped, ~overlapped',
           NEW w \in Writers, E!Replace(w)
    PROVE  Unspoiled'
<1>0. /\ writer \in [Writers -> WriterKinds] /\ edits \in Nat
      /\ NoFile \notin E!Contents /\ {file, temp} \subseteq E!Contents \cup {NoFile}
  BY DEF Filed, E!TypeOK, WriterKinds, Steps
<1>e. \A d : E!Errors(d)' = E!Errors(d)
  BY DEF E!Errors
<1>w. Saves(w) /\ ~writer[w].done /\ writer[w].at = "replace"
  BY DEF Unspoiled, Planned, SavesAlone, E!Replace, E!SaveSteps
<1>o. \A v \in Writers : writer[v].at \in E!SaveSteps => v = w
  BY <1>w DEF Saves
<1>1. temp = [doc |-> writer[w].doc, by |-> w, whole |-> TRUE]
      /\ E!Errors(writer[w].doc) \subseteq E!Errors(E!Document)
      /\ (~writer[w].tool => E!Document \subseteq writer[w].doc)
      /\ (writer[w].fresh => file = NoFile) /\ (~writer[w].fresh => E!Document \in backups)
  BY <1>w DEF Saves
<1>2. temp # NoFile
  <2>1. \A b \in BOOLEAN : [doc |-> writer[w].doc, by |-> w, whole |-> b] \in E!Contents
    BY <1>0 DEF E!Contents, WriterKinds
  <2>2. temp \in E!Contents
    BY <1>1, <2>1
  <2> QED
    BY <1>0, <2>2
<1>3. /\ file' = temp
      /\ writer' = [writer EXCEPT ![w] = [writer[w] EXCEPT !.at = "unlink", !.done = TRUE]]
      /\ overwritten' = overwritten
             \cup (IF writer[w].tool THEN E!Document \ writer[w].doc ELSE {})
      /\ UNCHANGED <<backups, edits, accepted, refused, byHand>>
  BY <1>1, <1>2 DEF E!Replace, E!Set
<1>4. E!Document' = writer[w].doc
  BY <1>1, <1>2, <1>3 DEF E!Document
<1>5. /\ \A v \in Writers \ {w} : writer'[v] = writer[v]
      /\ writer'[w].at = "unlink" /\ writer'[w].edit = writer[w].edit
      /\ writer'[w].doc = writer[w].doc
  BY <1>0, <1>3 DEF WriterKinds
<1>6. writer'[w].done /\ writer'[w].tool = writer[w].tool /\ writer'[w].fresh = writer[w].fresh
  BY <1>0, <1>3 DEF WriterKinds
<1>d. writer[w].doc \subseteq (1 .. edits) \ refused
      /\ refused \cap UNION backups = {}
  BY DEF Unspoiled, EditsKept, E!NoEditLost
<1>7. E!NoEditLost'
  <2>1. accepted' \cup byHand' \subseteq E!Document' \cup overwritten'
    <3>1. E!Document \subseteq writer[w].doc \cup overwritten'
      BY <1>1, <1>3
    <3> QED
      BY <1>3, <1>4, <3>1 DEF Unspoiled, E!NoEditLost
  <2>2. ASSUME NEW e \in overwritten' \ E!Document'  PROVE \E b \in backups' : e \in b
    <3>1. CASE e \in E!Document
      <4>1. ~writer[w].fresh
        BY <1>1, <3>1 DEF E!Document
      <4> QED
        BY <1>1, <1>3, <3>1, <4>1
    <3>2. CASE e \notin E!Document
      BY <1>3, <3>2 DEF Unspoiled, E!NoEditLost
    <3> QED
      BY <3>1, <3>2
  <2>3. refused' \cap (E!Document' \cup UNION backups') = {}
    BY <1>3, <1>4, <1>d
  <2>4. E!Errors(E!Document)' \subseteq byHand'
    BY <1>1, <1>3, <1>4, <1>e DEF Unspoiled, E!NoEditLost
  <2>5. file'.whole
    BY <1>1, <1>3
  <2> QED
    BY <2>1, <2>2, <2>3, <2>4, <2>5 DEF E!NoEditLost
<1>8. EditsKept'
  BY <1>3, <1>4, <1>5, <1>d DEF Unspoiled, EditsKept
<1>9. EditsOwned'
  <2>1. ASSUME NEW v \in Writers \ {w}, writer[v].at \in {"planned"} \cup E!SaveSteps
        PROVE  /\ writer'[v].edit \in writer'[v].doc
               /\ ~writer'[v].done =>
                      /\ writer'[v].edit \notin E!Document' \cup UNION backups'
                      /\ \A u \in Writers \ {v} : writer'[u].edit # writer'[v].edit
                                                  /\ writer'[v].edit \notin writer'[u].doc
    BY <1>3, <1>4, <1>5, <2>1 DEF Unspoiled, EditsOwned
  <2>2. writer'[w].edit \in writer'[w].doc
    BY <1>5, <1>w DEF Unspoiled, EditsOwned, E!SaveSteps
  <2> QED
    BY <1>5, <1>6, <2>1, <2>2 DEF EditsOwned
<1>10. Planned'
  BY <1>5, <1>6, <1>e DEF Unspoiled, Planned
<1>11. SavesAlone'
  <2>1. \A v \in Writers : writer'[v].at \in E!SaveSteps => v = w
    BY <1>5, <1>o
  <2>2. Saves(w)'
    BY <1>4, <1>5, <2>1 DEF Saves
  <2> QED
    BY <2>1, <2>2 DEF SavesAlone
<1> QED
  BY <1>7, <1>8, <1>9, <1>10, <1>11 DEF Unspoiled

LEMMA UnlinkKeeps ==
    ASSUME Filed, E!TypeOK, E!TypeOK', Begun, Begun', Unspoiled, ~overlapped, ~overlapped',
           NEW w \in Writers, E!Unlink(w)
    PROVE  Unspoiled'
<1>0. /\ writer \in [Writers -> WriterKinds] /\ edits \in Nat
  BY DEF Filed, E!TypeOK, WriterKinds, Steps
<1>1. /\ writer[w].at = "unlink" /\ writer' = [writer EXCEPT ![w] = E!AtRest(w)]
      /\ UNCHANGED <<file, backups, edits, byHand, overwritten>>
  BY DEF E!Unlink, E!Refuse, E!Set
<1>2. Saves(w) /\ \A v \in Writers \ {w} : writer[v].at \notin E!SaveSteps
  BY <1>1 DEF Unspoiled, SavesAlone, Saves, E!SaveSteps
<1>r. /\ writer'[w] = E!AtRest(w) /\ \A v \in Writers \ {w} : writer'[v] = writer[v]
  BY <1>1, Rests, OneWrites
<1>3. /\ writer'[w].at \in {"idle", "open"} /\ writer'[w].edit = 0 /\ ~writer'[w].done
      /\ ~writer'[w].fresh /\ (writer'[w].tool \/ (writer'[w].doc = {} /\ writer'[w].at = "idle"))
      /\ writer'[w].doc \subseteq writer[w].doc
      /\ ~writer[w].done => writer[w].edit \notin writer'[w].doc
  <2>1. writer[w].tool => ~writer[w].fresh
    BY DEF Unspoiled, Planned
  <2>2. E!AtRest(w).at \in {"idle", "open"} /\ E!AtRest(w).edit = 0 /\ ~E!AtRest(w).done
    BY Rests
  <2>3. ~E!AtRest(w).fresh
    BY <2>1, Rests
  <2>4. E!AtRest(w).tool \/ (E!AtRest(w).doc = {} /\ E!AtRest(w).at = "idle")
    <3>1. CASE writer[w].tool
      BY <3>1, Rests
    <3>2. CASE ~writer[w].tool
      BY <3>2, Rests
    <3> QED
      BY <3>1, <3>2
  <2>5. /\ E!AtRest(w).doc \subseteq writer[w].doc
        /\ ~writer[w].done => writer[w].edit \notin E!AtRest(w).doc
    <3>1. CASE writer[w].tool
      BY <3>1, Rests
    <3>2. CASE ~writer[w].tool
      BY <3>2, Rests
    <3> QED
      BY <3>1, <3>2
  <2> QED
    BY <1>r, <2>2, <2>3, <2>4, <2>5
<1>f. /\ E!Document \cup refused \cup UNION backups \subseteq 1 .. edits
      /\ \A v \in Writers : writer[v].doc \subseteq (1 .. edits) \ refused
      /\ refused \cap (E!Document \cup UNION backups) = {}
      /\ writer[w].edit \in writer[w].doc
  BY <1>1 DEF Unspoiled, EditsKept, EditsOwned, E!NoEditLost, E!SaveSteps
<1>o. \A v \in Writers \ {w} : writer[v].at \in {"planned"} \cup E!SaveSteps /\ ~writer[v].done =>
          writer[v].edit \notin writer'[w].doc
  BY <1>3 DEF Unspoiled, EditsOwned
<1>4. CASE ~writer[w].done
  <2>1. refused' = refused \cup {writer[w].edit} /\ UNCHANGED accepted
    BY <1>4 DEF E!Unlink, E!Refuse
  <2>2. \A v \in Writers \ {w} : writer[w].edit \notin writer[v].doc
    BY <1>1, <1>4 DEF Unspoiled, EditsOwned, E!SaveSteps
  <2>3. writer[w].edit \notin E!Document \cup UNION backups
    BY <1>1, <1>4 DEF Unspoiled, EditsOwned, E!SaveSteps
  <2>4. /\ writer'[w].doc \cap refused' = {} /\ refused' \subseteq 1 .. edits'
        /\ \A v \in Writers \ {w} : writer[v].doc \cap refused' = {}
        /\ refused' \cap (E!Document \cup UNION backups) = {}
    BY <1>1, <1>3, <1>4, <1>f, <2>1, <2>2, <2>3
  <2> QED
    BY <1>0, <1>1, <1>2, <1>3, <1>r, <1>f, <1>o, <2>1, <2>4, Puts
<1>5. CASE writer[w].done
  <2>1. accepted' = accepted \cup {writer[w].edit} /\ refused' = refused
    BY <1>5 DEF E!Unlink
  <2>2. writer[w].edit \in E!Document
    BY <1>2, <1>5, <1>f DEF Saves
  <2>3. E!NoEditLost'
    BY <1>1, <2>1, <2>2 DEF Unspoiled, E!NoEditLost, E!Document, E!Errors
  <2>4. EditsKept'
    BY <1>1, <1>3, <1>r, <2>1 DEF Unspoiled, EditsKept, E!Document
  <2>5. EditsOwned'
    <3>1. ASSUME NEW v \in Writers, writer'[v].at \in {"planned"} \cup E!SaveSteps
          PROVE  v # w /\ writer'[v] = writer[v] /\ writer[v].edit # 0
      BY <1>3, <1>r, <3>1 DEF Begun, E!SaveSteps
    <3> QED
      BY <1>1, <1>3, <1>r, <1>o, <3>1 DEF Unspoiled, EditsOwned, E!Document
  <2>6. Planned'
    BY <1>3, <1>r DEF Unspoiled, Planned, E!Errors
  <2>7. SavesAlone'
    BY <1>2, <1>3, <1>r DEF SavesAlone, E!SaveSteps
  <2> QED
    BY <2>3, <2>4, <2>5, <2>6, <2>7 DEF Unspoiled
<1> QED
  BY <1>4, <1>5

LEMMA HandKeeps ==
    ASSUME Filed, E!TypeOK, E!TypeOK', Begun, Begun', Unspoiled, ~overlapped, ~overlapped',
           E!EditByHand
    PROVE  Unspoiled'
<1>0. /\ writer \in [Writers -> WriterKinds] /\ edits \in Nat /\ edits' = edits + 1
      /\ NoFile \notin E!Contents /\ file \in E!Contents /\ file' \in E!Contents \cup {NoFile}
      /\ UNCHANGED <<temp, backups, writer, accepted, refused, overwritten>>
      /\ file' = [file EXCEPT !.doc = @ \cup {edits + 1}, !.by = NoFile]
      /\ byHand' = byHand \cup {edits + 1}
      /\ \A v \in Writers : writer[v].at \notin E!SaveSteps
  <2>1. /\ edits' = edits + 1 /\ file # NoFile
        /\ UNCHANGED <<temp, backups, writer, accepted, refused, overwritten>>
        /\ file' = [file EXCEPT !.doc = @ \cup {edits'}, !.by = NoFile]
        /\ byHand' = byHand \cup {edits'}
        /\ overlapped' = (overlapped \/ \E v \in Writers : writer[v].at \in E!SaveSteps)
    BY DEF E!EditByHand
  <2>2. /\ writer \in [Writers -> WriterKinds] /\ edits \in Nat
        /\ NoFile \notin E!Contents /\ file \in E!Contents \cup {NoFile}
        /\ file' \in E!Contents \cup {NoFile}
    BY DEF Filed, E!TypeOK, WriterKinds, Steps
  <2> QED
    BY <2>1, <2>2
<1>1. E!Document = file.doc /\ E!Document' = E!Document \cup {edits + 1}
  <2>1. \A f \in E!Contents : \A d \in SUBSET E!Edits :
            /\ [f EXCEPT !.doc = d, !.by = NoFile] \in E!Contents
            /\ [f EXCEPT !.doc = d, !.by = NoFile].doc = d
    BY DEF E!Contents
  <2>2. edits' \in 0 .. MaxEdits /\ MaxEdits \in Nat
    BY DEF Filed, E!TypeOK
  <2>3. file.doc \cup {edits + 1} \in SUBSET E!Edits
    BY <1>0, <2>2 DEF E!Contents, E!Edits
  <2>4. file' \in E!Contents /\ file'.doc = file.doc \cup {edits + 1}
    BY <1>0, <2>1, <2>3
  <2> QED
    BY <1>0, <2>4 DEF E!Document
<1>2. file'.whole
  BY <1>0 DEF E!Contents, Unspoiled, E!NoEditLost
<1>3. edits + 1 \notin 1 .. edits /\ 1 .. edits \cup {edits + 1} \subseteq 1 .. edits'
  BY <1>0
<1>4. /\ E!Document \cup refused \cup UNION backups \subseteq 1 .. edits
      /\ \A v \in Writers : writer[v].doc \subseteq (1 .. edits) \ refused
  BY DEF Unspoiled, EditsKept
<1>5. edits + 1 \notin refused /\ \A v \in Writers : edits + 1 \notin writer[v].doc
  BY <1>3, <1>4
<1>6. E!NoEditLost'
  BY <1>0, <1>1, <1>2, <1>5 DEF Unspoiled, E!NoEditLost, E!Errors
<1>7. EditsKept'
  BY <1>0, <1>1, <1>3, <1>4 DEF EditsKept
<1>8. EditsOwned'
  BY <1>0, <1>1, <1>5 DEF Unspoiled, EditsOwned
<1>9. Planned'
  BY <1>0 DEF Unspoiled, Planned, E!Errors
<1>10. SavesAlone'
  BY <1>0 DEF SavesAlone
<1> QED
  BY <1>6, <1>7, <1>8, <1>9, <1>10 DEF Unspoiled

LEMMA EditInvariance == ASSUME Filed PROVE MCSpec => []EditInv
<1>1. MCInit => EditInv
  <2> SUFFICES ASSUME E!Init PROVE EditInv
    BY DEF MCInit
  <2>0. MaxEdits \in Nat /\ MaxDeaths \in Nat
    BY DEF Filed
  <2>1. E!Idle \in WriterKinds
    BY <2>0 DEF E!Idle, WriterKinds, Steps
  <2>2. /\ file \in E!Contents \cup {NoFile} /\ E!Document = {}
        /\ (file # NoFile => file.whole)
    <3>1. \A b \in BOOLEAN : [doc |-> {}, by |-> NoFile, whole |-> b] \in E!Contents
      BY DEF E!Contents
    <3>2. CASE file = NoFile
      BY <3>2 DEF E!Document
    <3>3. CASE file # NoFile
      <4>1. file = [doc |-> {}, by |-> NoFile, whole |-> TRUE]
        BY <3>3 DEF E!Init
      <4>2. file \in E!Contents
        BY <3>1, <4>1
      <4>3. file.doc = {} /\ file.whole
        BY <4>1
      <4> QED
        BY <3>3, <4>2, <4>3 DEF E!Document
    <3> QED
      BY <3>2, <3>3
  <2>3. E!TypeOK
    <3>1. writer \in [Writers -> WriterKinds]
      BY <2>1 DEF E!Init
    <3>2. edits \in 0 .. MaxEdits /\ deaths \in 0 .. MaxDeaths
      BY <2>0 DEF E!Init
    <3>3. {file, temp} \subseteq E!Contents \cup {NoFile}
      BY <2>2 DEF E!Init
    <3>4. backups \subseteq SUBSET E!Edits
          /\ accepted \cup refused \cup byHand \cup overwritten \subseteq E!Edits
      BY DEF E!Init
    <3>5. overlapped \in BOOLEAN
      BY DEF E!Init
    <3> QED
      BY <3>1, <3>2, <3>3, <3>4, <3>5 DEF E!TypeOK, WriterKinds, Steps
  <2>4. \A w \in Writers : writer[w] = E!Idle
    BY DEF E!Init
  <2>5. Begun /\ EditsOwned /\ Planned /\ SavesAlone
    BY <2>4 DEF E!Idle, Begun, EditsOwned, Planned, SavesAlone, E!SaveSteps, E!Errors
  <2>6. EditsKept
    BY <2>2, <2>4 DEF E!Init, EditsKept, E!Idle
  <2>7. E!NoEditLost
    BY <2>2 DEF E!Init, E!NoEditLost, E!Errors
  <2> QED
    BY <2>3, <2>5, <2>6, <2>7 DEF EditInv, Unspoiled
<1>2. [MCNext]_mcVars => [E!Next]_editVars
  BY DEF MCNext, mcVars
<1>3. EditInv /\ [E!Next]_editVars => EditInv'
  <2> SUFFICES ASSUME EditInv, [E!Next]_editVars, Filed PROVE EditInv'
    OBVIOUS
  <2>1. E!TypeOK' /\ Begun'
    BY EditTypes DEF EditInv
  <2>2. overlapped => overlapped'
    BY DEF E!Next, editVars, E!Plan, E!Recheck, E!Open, E!SaveForm, E!Close, E!Clear, E!Create,
           E!Dump, E!Validate, E!BackUp, E!Replace, E!Unlink, E!Die, E!EditByHand, E!Enters
  <2>3. ASSUME ~overlapped' PROVE Unspoiled'
    <3>1. E!TypeOK /\ Begun /\ Unspoiled /\ ~overlapped
      BY <2>2, <2>3 DEF EditInv
    <3>2. CASE UNCHANGED editVars
      BY <3>1, <3>2 DEF editVars, Unspoiled, E!NoEditLost, EditsKept, EditsOwned, Planned,
                        SavesAlone, Saves, E!Document, E!Errors
    <3>3. CASE E!EditByHand
      BY <2>1, <2>3, <3>1, <3>3, HandKeeps
    <3>4. ASSUME NEW w \in Writers,
                 \/ E!Plan(w) \/ E!Recheck(w) \/ E!Open(w) \/ E!SaveForm(w) \/ E!Close(w)
                 \/ E!Clear(w) \/ E!Create(w) \/ E!Dump(w) \/ E!Validate(w) \/ E!BackUp(w)
                 \/ E!Replace(w) \/ E!Unlink(w) \/ E!Die(w)
          PROVE  Unspoiled'
      BY <2>1, <2>3, <3>1, <3>4, CommandsKeep, ToolsKeep, SavesKeep, ReplaceKeeps, UnlinkKeeps
    <3> QED
      BY <3>2, <3>3, <3>4 DEF E!Next
  <2>4. E!NoEditLost'
    BY <2>3 DEF Unspoiled, E!NoEditLost
  <2> QED
    BY <2>1, <2>3, <2>4 DEF EditInv
<1> QED
  BY <1>1, <1>2, <1>3, PTL DEF MCSpec, mcVars

\* However many commands, forms and operators edit the configuration, and wherever one dies: an
\* edit that was reported as saved is in the file or in a backup, one that was refused is in
\* neither, no edit but a hand's brings in an error and the file is never half-written, as long as
\* no two are at the file at once (config_edit.py, configtool/model.py).
THEOREM NoEditIsLost ==
    ASSUME Filed
    PROVE  MCSpec => []NoEditLost
<1>1. EditInv => NoEditLost
  BY DEF EditInv, NoEditLost
<1> QED
  BY <1>1, EditInvariance, PTL

-----------------------------------------------------------------------------
(* ServiceReload: one runtime.                                              *)

Gates == {"none", "new", "open", "quiet", "closed"}
EntryType == [gate : Gates, bad : BOOLEAN, ver : 0 .. MaxVersion, n : 0 .. MaxRounds,
              blocked : SUBSET Agents, users : SUBSET (Agents \X (1 .. MaxRounds))]
PlanType == [going : SUBSET Connectors, kept : SUBSET Connectors, conns : SUBSET Connectors,
             fresh : SUBSET Agents, stopping : SUBSET Agents, changed : SUBSET Agents,
             started : SUBSET Connectors]

\* The phases of an apply before the candidate is installed and after, and of a shutdown.
Before == {"stilling", "closing", "draining", "installing"}
After == {"starting", "arming", "connecting", "resuming"}
Resting == {"idle", "retrying"}
Ending == {"ending", "stopping all", "stopped"}
Phases == Resting \cup Before \cup After \cup {"broken"} \cup Ending

Shaped ==
    /\ TypeOK /\ pc \in Phases /\ plan \in PlanType
    /\ entry \in [Connectors -> EntryType]
    /\ verb \in [Connectors -> {None} \cup (Agents \X Stages)]
    /\ \A c \in Connectors : /\ entry[c].gate = "none" => entry[c] = NoEntry
                             /\ entry[c].gate # "none" => entry[c].ver # 0
    /\ pc \in Resting \cup Ending => plan = NoPlan
    /\ pc \in Resting => ticking
    /\ pc = "idle" => cand = config
    /\ pc = "retrying" => round < MaxRounds

\* The holder of the lock is the one start that revives an agent, and only what is not known
\* to be down is served.
Starts ==
    /\ \A c \in Connectors : ~Idle(c) =>
           /\ verb[c][2] = "starting" => recovering = c /\ verb[c][1] \in unavailable
           /\ verb[c][2] = "serving" => verb[c][1] \notin unavailable
           /\ entry[c].gate \notin {"none", "new"}
    /\ \A c \in Connectors : recovering = c => ~Idle(c) /\ verb[c][2] = "starting"

\* What each phase has to work on.
Work ==
    /\ pc = "closing" => todo \subseteq plan.going
    /\ pc \in {"draining", "arming", "resuming"} => todo \subseteq plan.kept
    /\ pc = "connecting" => todo \subseteq plan.conns
    /\ pc \in {"installing", "starting"} => todo = {}

\* What a plan decided, for the connectors and for the agents.
PlannedConnectors ==
    /\ plan.going \cap plan.kept = {} /\ plan.conns \cap plan.kept = {}
    /\ plan.kept \subseteq Present /\ plan.started \subseteq plan.conns
    /\ \A c \in plan.kept : cand[c] # 0 /\ cand[c] = config[c] /\ ~entry[c].bad
    /\ \A c \in plan.conns : cand[c] # 0
    /\ pc \in Before => Present = plan.going \cup plan.kept
    /\ pc \in After => /\ Present = plan.conns \cup plan.kept
                       /\ Present = {c \in Connectors : cand[c] # 0}
    /\ pc \notin {"resuming", "broken"} => plan.started = {}

Planless(a) == a \notin plan.fresh \cup plan.stopping
PlannedAgents ==
    /\ plan.changed \subseteq plan.fresh \cap plan.stopping
    /\ \A a \in plan.fresh : cand[a] # 0
    /\ \A a \in plan.fresh \ plan.stopping : config[a] = 0 /\ a \notin suspect
    /\ \A a \in plan.stopping \ plan.fresh : cand[a] = 0 /\ config[a] # 0
    /\ pc \in Applying \cup {"broken"} => \A a \in Agents : Planless(a) =>
           cand[a] = config[a] /\ (a \in suspect \cup unavailable => cand[a] = 0)

\* What is built in a round is told by its number.
Rounds ==
    /\ \A o \in live \cup left : o[2] <= round /\ (pc \in Before => o[2] < round)
    /\ \A o \in left : pc \in After => o[2] < round
    /\ \A a \in Agents : inst[a] <= round /\ (pc \in Before => inst[a] < round)
    /\ \A c \in Connectors : entry[c].n <= round
    /\ pc \in After => /\ \A a \in plan.fresh : inst[a] = round
                       /\ \A c \in plan.conns : entry[c].n = round

Up(a) == Backend(a) \in live \ left /\ brokers[a] > 0
\* Nothing of an agent is up that is not a leftover.
Down(a) == brokers[a] = 0 /\ \A o \in live : o[1] = a => o \in left

\* One backend of an agent is up at most, the installed one.
OneBackend(a) ==
    /\ brokers[a] <= 1 /\ \A o \in live \ left : o[1] = a => o = Backend(a)
    /\ inst[a] = 0 => brokers[a] = 0
    /\ a \in unavailable => brokers[a] = 0
    /\ pc = "installing" /\ a \in plan.stopping => Down(a)
    /\ pc = "starting" /\ a \in plan.fresh => Down(a)
    /\ pc = "stopped" => Down(a)
Backends ==
    \A a \in Agents :
        /\ inst[a] = 0 <=> ver[a] = 0
        /\ a \in unavailable => inst[a] # 0
        /\ a \notin doubled => OneBackend(a)

\* It is as the active configuration says, or will be when the apply is finished, and is not a
\* leftover.
Unsettled(a) == a \in suspect \cup torn
Versions ==
    /\ \A a \in Agents :
           /\ a \in suspect /\ config[a] = 0 => a \in torn
           /\ ~Unsettled(a) => ver[a] = config[a] \/ (pc \in After \cup {"broken"} /\ ~Planless(a))
           /\ Backend(a) \in left => \/ Unsettled(a)
                                     \/ pc \in {"installing", "broken"} /\ a \in plan.stopping
                                     \/ pc = "stopped"
    /\ pc \in After => /\ \A a \in plan.fresh : ver[a] = cand[a]
                       /\ \A a \in plan.stopping \ plan.fresh : ver[a] = 0

\* Who may be served by an agent finds it up, unless it is known not to be.
Ready(a) == inst[a] = 0 \/ Up(a) \/ a \in unavailable \/ Unsettled(a)
Busy == \E c \in Connectors : entry[c].gate = "open" \/ ~Idle(c)
Stopped == {"installing", "starting", "stopping all", "stopped"}
Served ==
    /\ pc \in Stopped => ~Busy
    /\ pc \notin Stopped \cup {"broken"} \/ Busy => \A a \in Agents : Ready(a)
    /\ Busy => \A a \in Agents : Backend(a) \in left => Unsettled(a)
    /\ pc \notin Ending => \A a \in Agents : Planless(a) => Ready(a)
    /\ pc \in {"arming", "connecting", "resuming"} => \A a \in plan.fresh \ unavailable : Up(a)

\* One connection of a connector is up at most, its entry's.
Linked(c) == entry[c].ver = config[c] /\ Connection(c) \in live \ left
Away(c) == entry[c].users = {} /\ \A o \in live : o[1] = c => o \in left
Connections ==
    \A c \in Connectors :
        /\ \A o \in live \ left : o[1] = c => c \in Present /\ o = Connection(c)
        /\ pc \in {"stopping all", "stopped"} => Away(c)
        /\ pc = "closing" /\ c \in plan.going \ todo => Away(c)
        /\ pc \in {"draining", "installing"} /\ c \in plan.going => Away(c)
        /\ pc \in {"starting", "arming"} /\ c \in plan.conns => Away(c)
        /\ pc \in {"connecting", "resuming"} /\ c \in plan.conns \ todo =>
               entry[c].bad \/ Connection(c) \in live \ left
        /\ pc \in Resting /\ c \in Present /\ ~entry[c].bad => c \in torn \/ Linked(c)
        /\ pc \in Resting /\ c \notin Present /\ config[c] # 0 => c \in torn
        /\ c \in plan.kept \ torn => Linked(c)

\* The gates follow the phases.
Quiet(c) == entry[c].gate \notin {"open", "new"} /\ Idle(c)
Gated ==
    \A c \in Connectors :
        /\ pc \in Resting /\ c \in Present /\ ~entry[c].bad => entry[c].gate = "open"
        /\ pc = "stilling" /\ c \in Present \ todo => Quiet(c)
        /\ pc \in Before \ {"stilling"} /\ c \in Present => Quiet(c)
        /\ pc \in {"starting", "arming"} /\ c \in plan.conns =>
               entry[c].gate = "new" /\ ~entry[c].bad
        /\ pc \in After /\ c \in plan.conns => entry[c].ver = cand[c]
        /\ pc = "arming" /\ c \in plan.kept \ todo => entry[c].gate = "open"
        /\ pc \in {"connecting", "resuming"} /\ c \in plan.kept => entry[c].gate = "open"
        /\ pc \in {"connecting", "resuming"} /\ c \in plan.conns =>
               IF c \in todo THEN ~entry[c].bad ELSE entry[c].bad \/ entry[c].gate = "open"
        /\ pc \in Ending => entry[c].gate \in {"none", "closed"}
        /\ c \in plan.started => entry[c].bad \/ entry[c].gate = "open"
        /\ entry[c].gate = "open" \/ c \in plan.kept => unavailable \subseteq entry[c].blocked

\* The processors.
Sound(u) == u = Backend(u[1]) /\ u \in live \ left
Users ==
    \A c \in Connectors : \A u \in entry[c].users :
        \/ <<c, u>> \in stuck
        \/ /\ Sound(u) \/ Unsettled(u[1])
           /\ pc = "draining" => c \in todo \/ u[1] \notin plan.stopping
           /\ pc \in {"installing", "starting"} => u[1] \notin plan.stopping
           /\ pc \in {"arming", "connecting", "resuming"} /\ u[1] \in plan.stopping => Sound(u)

ServiceInv == /\ Shaped /\ Starts /\ Work /\ PlannedConnectors /\ PlannedAgents /\ Rounds
              /\ Backends /\ Versions /\ Served /\ Connections /\ Gated /\ Users

-----------------------------------------------------------------------------
Agreed == <<config, cand, pc, plan, round, suspect, ticking, torn, doubled>>
Frame == <<Agreed, runtimeVars>>

\* What a step on one connector leaves alone.
LEMMA FrameKeeps ==
    ASSUME ServiceInv, UNCHANGED Frame,
           \A d \in Connectors : entry'[d].n = entry[d].n
    PROVE  Rounds' /\ Backends' /\ Versions' /\ PlannedAgents'
<1> USE DEF ServiceInv, Frame, Agreed, runtimeVars
<1>1. Rounds'
  BY DEF Rounds, Shaped, PlanType
<1>2. Backends'
  BY DEF Backends, OneBackend, Down, Backend
<1>3. Versions'
  BY DEF Versions, Unsettled, Planless, Backend
<1>4. PlannedAgents'
  BY DEF PlannedAgents, Planless
<1> QED
  BY <1>1, <1>2, <1>3, <1>4

\* A connector's entry is given another gate, other users or another copy of the agents that
\* are down.
LEMMA EntryKeeps ==
    ASSUME ServiceInv, UNCHANGED Frame, NEW c \in Connectors, NEW e \in EntryType,
           entry[c].gate # "none", e.gate # "none",
           e.ver = entry[c].ver, e.n = entry[c].n, e.bad = entry[c].bad,
           entry' = [entry EXCEPT ![c] = e], todo' \subseteq todo,
           verb' \in [Connectors -> {None} \cup (Agents \X Stages)],
           recovering' \in {None} \cup {d \in Connectors : verb'[d] # None}
    PROVE  /\ Shaped' /\ Work' /\ PlannedConnectors' /\ PlannedAgents' /\ Rounds'
           /\ Backends' /\ Versions'
           /\ Present' = Present /\ entry'[c] = e
           /\ \A d \in Connectors \ {c} : entry'[d] = entry[d]
<1> USE DEF ServiceInv, Frame, Agreed, runtimeVars
<1>1. /\ entry' \in [Connectors -> EntryType] /\ entry'[c] = e
      /\ \A d \in Connectors \ {c} : entry'[d] = entry[d]
  BY DEF Shaped
<1>2. Present' = Present
  BY <1>1 DEF Present
<1>3. Shaped'
  <2>1. \A d \in Connectors : entry'[d].users \subseteq Agents \X (1 .. MaxRounds)
    BY <1>1 DEF EntryType
  <2>2. TypeOK'
    BY <1>2, <2>1 DEF Shaped, TypeOK
  <2>3. \A d \in Connectors : /\ entry'[d].gate = "none" => entry'[d] = NoEntry
                              /\ entry'[d].gate # "none" => entry'[d].ver # 0
    BY <1>1 DEF Shaped
  <2> QED
    BY <1>1, <2>2, <2>3 DEF Shaped
<1>4. Work'
  BY DEF Work
<1>5. PlannedConnectors'
  BY <1>1, <1>2 DEF PlannedConnectors
<1>6. \A d \in Connectors : entry'[d].n = entry[d].n
  BY <1>1
<1>7. Rounds' /\ Backends' /\ Versions' /\ PlannedAgents'
  BY <1>6, FrameKeeps
<1> QED
  BY <1>1, <1>2, <1>3, <1>4, <1>5, <1>7

LEMMA ServedKeeps ==
    ASSUME ServiceInv, UNCHANGED Frame, Busy' => Busy \/ pc \notin Stopped \cup {"broken"}
    PROVE  Served'
<1> USE DEF ServiceInv, Frame, Agreed, runtimeVars
<1>1. \A a \in Agents : (Ready(a)' <=> Ready(a)) /\ (Up(a)' <=> Up(a))
  BY DEF Ready, Up, Unsettled, Backend
<1>2. pc \in Stopped => ~Busy /\ ~Busy'
  BY DEF Served
<1>3. pc \notin Stopped \cup {"broken"} \/ Busy' => \A a \in Agents : Ready(a)
  BY DEF Served
<1>4. plan.fresh \subseteq Agents
  BY DEF Shaped, PlanType
<1>5. \A a \in Agents : Planless(a)' <=> Planless(a)
  BY DEF Planless
<1>6. Busy' => \A a \in Agents : Backend(a)' \in left' => Unsettled(a)'
  BY DEF Served, Versions, Unsettled, Backend, Stopped
<1> QED
  BY <1>1, <1>2, <1>3, <1>4, <1>5, <1>6 DEF Served

LEMMA ConnectionsKeep ==
    ASSUME ServiceInv, UNCHANGED Frame, NEW c \in Connectors, NEW e \in EntryType,
           entry[c].gate # "none", e.gate # "none",
           e.ver = entry[c].ver, e.n = entry[c].n, e.bad = entry[c].bad,
           entry' = [entry EXCEPT ![c] = e], todo' \subseteq todo,
           e.users \subseteq entry[c].users \/ ~Idle(c) \/ pc = "resuming",
           \A d \in todo \ todo' : pc \in {"stilling", "draining", "arming", "resuming"}
    PROVE  Connections'
<1> USE DEF ServiceInv, Frame, Agreed, runtimeVars
<1>1. /\ entry'[c] = e /\ \A d \in Connectors \ {c} : entry'[d] = entry[d]
  BY DEF Shaped
<1>2. Present' = Present /\ \A d \in Connectors : Connection(d)' = Connection(d)
  BY <1>1 DEF Present, Connection
<1>3. \A d \in Connectors : Linked(d)' <=> Linked(d)
  BY <1>1, <1>2 DEF Linked
<1>4. \A d \in Connectors \ {c} : Away(d)' <=> Away(d)
  BY <1>1 DEF Away
<1>5. ~Idle(c) => /\ pc \notin {"stopping all", "stopped", "installing", "starting"}
                  /\ pc \in Before \ {"stilling"} => FALSE
                  /\ pc = "arming" => c \notin plan.conns
  <2>1. ~Idle(c) => Busy /\ c \in Present
    BY DEF Busy, Present
  <2> QED
    BY <2>1 DEF Served, Stopped, Gated, Quiet, Starts
<1>6. Away(c) /\ ~Away(c)' => ~Idle(c) \/ pc = "resuming"
  BY <1>1 DEF Away
<1>7. pc \in {"connecting", "resuming"} => \A d \in plan.conns \ todo' : d \notin todo
  BY DEF Work, PlannedConnectors
<1>8. pc \in {"stopping all", "stopped", "installing", "starting", "arming", "draining", "closing"} =>
          (Away(c) => Away(c)') \/ (pc = "arming" /\ c \notin plan.conns)
  BY <1>5, <1>6 DEF Before
<1>9. plan.conns \subseteq Connectors /\ plan.kept \subseteq Connectors /\ plan.going \subseteq Connectors
  BY DEF Shaped, PlanType
<1> HIDE DEF ServiceInv
<1>c. /\ pc = "closing" => todo' = todo
      /\ Connections
  BY DEF ServiceInv
<1>10. ASSUME NEW d \in Connectors PROVE
        /\ \A o \in live' \ left' : o[1] = d => d \in Present' /\ o = Connection(d)'
        /\ pc' \in {"stopping all", "stopped"} => Away(d)'
        /\ pc' = "closing" /\ d \in plan'.going \ todo' => Away(d)'
        /\ pc' \in {"draining", "installing"} /\ d \in plan'.going => Away(d)'
        /\ pc' \in {"starting", "arming"} /\ d \in plan'.conns => Away(d)'
  BY <1>c, <1>2, <1>4, <1>8 DEF Connections
<1>11. ASSUME NEW d \in Connectors PROVE
        /\ pc' \in {"connecting", "resuming"} /\ d \in plan'.conns \ todo' =>
               entry'[d].bad \/ Connection(d)' \in live' \ left'
        /\ pc' \in Resting /\ d \in Present' /\ ~entry'[d].bad => d \in torn' \/ Linked(d)'
        /\ pc' \in Resting /\ d \notin Present' /\ config'[d] # 0 => d \in torn'
        /\ d \in plan'.kept \ torn' => Linked(d)'
  BY <1>c, <1>1, <1>2, <1>3, <1>7 DEF Connections
<1> QED
  BY <1>10, <1>11 DEF Connections

LEMMA UsersKeep ==
    ASSUME ServiceInv, UNCHANGED <<Agreed, runtimeVars>>, stuck \subseteq stuck',
           \A c \in Connectors : entry'[c].users \subseteq entry[c].users,
           pc = "draining" => todo' = todo
    PROVE  Users'
<1>1. \A u : (Sound(u)' <=> Sound(u)) /\ (Unsettled(u[1])' <=> Unsettled(u[1]))
  BY DEF Sound, Backend, Unsettled, Agreed, runtimeVars
<1> QED
  BY <1>1 DEF ServiceInv, Users, Agreed, runtimeVars

LEMMA GatedKeeps ==
    ASSUME ServiceInv, UNCHANGED Frame, todo' = todo,
           \A d \in Connectors :
               /\ entry'[d].gate = entry[d].gate /\ entry'[d].bad = entry[d].bad
               /\ entry'[d].ver = entry[d].ver
               /\ entry[d].gate = "open" \/ d \in plan.kept => unavailable \subseteq entry'[d].blocked
               /\ Quiet(d) => \/ Quiet(d)' \/ pc \notin Before
                              \/ pc = "stilling" /\ d \notin Present \ todo
    PROVE  Gated'
<1> USE DEF ServiceInv, Frame, Agreed, runtimeVars
<1>1. Present' = Present
  BY DEF Present
<1>2. ASSUME NEW d \in Connectors
      PROVE  /\ pc' = "stilling" /\ d \in Present' \ todo' => Quiet(d)'
             /\ pc' \in Before \ {"stilling"} /\ d \in Present' => Quiet(d)'
  BY <1>1 DEF Gated, Before
<1> QED
  BY <1>1, <1>2 DEF Gated

\* A start under way, or about to begin, finds the agents up.
LEMMA WhileStarting ==
    ASSUME ServiceInv, NEW c \in Connectors, entry[c].gate = "open" \/ ~Idle(c)
    PROVE  /\ pc \notin Stopped /\ Busy /\ c \in Present
           /\ \A a \in Agents : Ready(a) /\ (Backend(a) \in left => Unsettled(a))
           /\ pc \in Before => pc = "stilling" /\ c \in todo
<1> USE DEF ServiceInv
<1>1. c \in Present /\ Busy
  BY DEF Present, Busy, Starts
<1>2. pc \notin Stopped /\ \A a \in Agents : Ready(a) /\ (Backend(a) \in left => Unsettled(a))
  BY <1>1 DEF Served
<1>3. pc \in Before => pc = "stilling" /\ c \in todo
  BY <1>1 DEF Gated, Quiet, Before
<1> QED
  BY <1>1, <1>2, <1>3

LEMMA BeginKeeps ==
    ASSUME ServiceInv, NEW c \in Connectors, NEW a \in Agents, Begin(c, a)
    PROVE  ServiceInv'
<1> USE DEF Frame, Agreed, runtimeVars
<1>0. /\ UNCHANGED Frame /\ todo' = todo /\ stuck' = stuck /\ recovering' = recovering
      /\ entry' = entry /\ entry[c].gate = "open" /\ Idle(c)
      /\ \/ a \notin entry[c].blocked /\ verb' = [verb EXCEPT ![c] = <<a, "serving">>]
         \/ verb' = [verb EXCEPT ![c] = <<a, "waiting">>]
  BY DEF Begin, reloadVars
<1>1. /\ pc \notin Stopped /\ Busy /\ c \in Present
      /\ pc \in Before => pc = "stilling" /\ c \in todo
  BY <1>0, WhileStarting
<1>2. /\ verb' \in [Connectors -> {None} \cup (Agents \X Stages)]
      /\ verb'[c] = <<a, "waiting">> \/ (verb'[c] = <<a, "serving">> /\ a \notin entry[c].blocked)
      /\ \A d \in Connectors \ {c} : verb'[d] = verb[d]
  BY <1>0 DEF ServiceInv, Shaped, Stages
<1>3. /\ entry' = [entry EXCEPT ![c] = entry[c]] /\ entry[c] \in EntryType
      /\ entry[c].gate # "none"
  BY <1>0 DEF ServiceInv, Shaped
<1>4. verb'[c] # None /\ recovering # c
  BY <1>0, <1>2, ServiceAssumption DEF Stages, ServiceInv, Starts
<1>5. recovering' \in {None} \cup {d \in Connectors : verb'[d] # None}
  BY <1>0, <1>2, <1>4 DEF ServiceInv, Shaped, TypeOK
<1>6. /\ Shaped' /\ Work' /\ PlannedConnectors' /\ PlannedAgents' /\ Rounds'
      /\ Backends' /\ Versions'
  BY <1>0, <1>2, <1>3, <1>5, EntryKeeps
<1>7. Starts'
  <2>1. unavailable \subseteq entry[c].blocked
    BY <1>0 DEF ServiceInv, Gated
  <2>2. \A d \in Connectors \ {c} : Idle(d)' <=> Idle(d)
    BY <1>2 DEF Idle
  <2> QED
    BY <1>0, <1>2, <1>4, <2>1, <2>2 DEF ServiceInv, Starts
<1>8. Served'
  BY <1>0, <1>1, ServedKeeps
<1>9. Connections'
  BY <1>0, <1>3, ConnectionsKeep
<1>10. Gated'
  <2>1. ASSUME NEW d \in Connectors, Quiet(d)
        PROVE  Quiet(d)' \/ pc \notin Before \/ (pc = "stilling" /\ d \notin Present \ todo)
    BY <1>0, <1>2, <2>1 DEF Quiet, Idle
  <2>2. ASSUME NEW d \in Connectors, entry[d].gate = "open" \/ d \in plan.kept
        PROVE  unavailable \subseteq entry'[d].blocked
    BY <1>0, <2>2 DEF ServiceInv, Gated
  <2> QED
    BY <1>0, <2>1, <2>2, GatedKeeps
<1>11. Users'
  BY <1>0, UsersKeep
<1> QED
  BY <1>6, <1>7, <1>8, <1>9, <1>10, <1>11 DEF ServiceInv

\* Every entry named gets a copy of the agents that are down.
LEMMA PushedEntries ==
    ASSUME ServiceInv, NEW names \in SUBSET Connectors, unavailable' \subseteq Agents,
           entry' = Pushed(entry, names)
    PROVE  /\ entry' \in [Connectors -> EntryType]
           /\ \A d \in Connectors :
                  /\ entry'[d].gate = entry[d].gate /\ entry'[d].bad = entry[d].bad
                  /\ entry'[d].ver = entry[d].ver /\ entry'[d].n = entry[d].n
                  /\ entry'[d].users = entry[d].users
                  /\ \/ d \notin names /\ entry'[d] = entry[d]
                     \/ d \in names /\ entry'[d].blocked = unavailable'
<1>1. entry \in [Connectors -> EntryType]
  BY DEF ServiceInv, Shaped
<1>2. ASSUME NEW d \in Connectors
      PROVE  LET e == [entry[d] EXCEPT !.blocked = unavailable']
             IN  /\ e \in EntryType
                 /\ e.gate = entry[d].gate /\ e.bad = entry[d].bad /\ e.ver = entry[d].ver
                 /\ e.n = entry[d].n /\ e.users = entry[d].users /\ e.blocked = unavailable'
  <2>1. entry[d] \in EntryType
    BY <1>1
  <2> QED
    BY <2>1 DEF EntryType
<1> QED
  BY <1>1, <1>2 DEF Pushed

LEMMA TakeRecoverLockKeeps ==
    ASSUME ServiceInv, NEW c \in Connectors, TakeRecoverLock(c)
    PROVE  ServiceInv'
<1> USE DEF Frame, Agreed, runtimeVars
<1>0. /\ UNCHANGED Frame /\ todo' = todo /\ stuck' = stuck
      /\ ~Idle(c) /\ recovering = None
      /\ \/ /\ verb[c][1] \in unavailable /\ recovering' = c /\ entry' = entry
            /\ verb' = [verb EXCEPT ![c][2] = "starting"]
         \/ /\ verb[c][1] \notin unavailable /\ recovering' = None /\ entry' = Pushed(entry, Present)
            /\ verb' = [verb EXCEPT ![c][2] = "serving"]
  BY DEF TakeRecoverLock, reloadVars, StillDown
<1>1. /\ pc \notin Stopped /\ Busy /\ c \in Present
      /\ pc \in Before => pc = "stilling" /\ c \in todo
  BY <1>0, WhileStarting
<1>2. PICK a \in Agents, s \in Stages : verb[c] = <<a, s>>
  BY <1>0 DEF ServiceInv, Shaped, Idle
<1>3. /\ verb' \in [Connectors -> {None} \cup (Agents \X Stages)]
      /\ \A d \in Connectors \ {c} : verb'[d] = verb[d]
      /\ \/ a \in unavailable /\ recovering' = c /\ verb'[c] = <<a, "starting">>
         \/ a \notin unavailable /\ recovering' = None /\ verb'[c] = <<a, "serving">>
  BY <1>0, <1>2 DEF ServiceInv, Shaped, Stages
<1>4. verb'[c] # None /\ None \notin Connectors
  BY <1>3, ServiceAssumption DEF Stages
<1>5. recovering' \in {None} \cup {d \in Connectors : verb'[d] # None}
  BY <1>3, <1>4
<1>6. \A d \in Connectors :
          /\ entry'[d] \in EntryType
          /\ entry'[d].gate = entry[d].gate /\ entry'[d].bad = entry[d].bad
          /\ entry'[d].ver = entry[d].ver /\ entry'[d].n = entry[d].n
          /\ entry'[d].users = entry[d].users
          /\ entry'[d] = entry[d] \/ (d \in Present /\ entry'[d].blocked = unavailable)
  <2>1. unavailable' = unavailable /\ unavailable \subseteq Agents
    BY <1>0 DEF ServiceInv, Shaped, TypeOK
  <2> QED
    BY <1>0, <2>1 DEF ServiceInv, Shaped, Pushed, EntryType
<1>7. Present' = Present /\ entry' \in [Connectors -> EntryType]
  BY <1>0, <1>6 DEF Present, Pushed, ServiceInv, Shaped
<1>8. Shaped'
  BY <1>0, <1>3, <1>5, <1>6, <1>7 DEF ServiceInv, Shaped, TypeOK, Present
<1>9. Starts'
  <2>1. \A d \in Connectors \ {c} : Idle(d)' <=> Idle(d)
    BY <1>3 DEF Idle
  <2>2. \A d \in Connectors \ {c} : ~Idle(d) => verb[d][2] # "starting"
    BY <1>0, <1>4 DEF ServiceInv, Starts
  <2> QED
    BY <1>0, <1>3, <1>4, <1>6, <2>1, <2>2 DEF ServiceInv, Starts, Idle
<1>10. Work' /\ PlannedConnectors'
  BY <1>0, <1>6, <1>7 DEF ServiceInv, Work, PlannedConnectors, Shaped, PlanType
<1>11. Rounds' /\ Backends' /\ Versions' /\ PlannedAgents'
  BY <1>0, <1>6, FrameKeeps
<1>12. Served'
  BY <1>0, <1>1, ServedKeeps
<1>13. Connections'
  <2>1. \A d \in Connectors : /\ Connection(d)' = Connection(d)
                              /\ Linked(d)' <=> Linked(d)
                              /\ Away(d)' <=> Away(d)
    BY <1>0, <1>6 DEF Connection, Linked, Away
  <2> QED
    BY <1>0, <1>6, <1>7, <2>1 DEF ServiceInv, Connections
<1>14. Gated'
  <2>1. ASSUME NEW d \in Connectors, Quiet(d)
        PROVE  Quiet(d)' \/ pc \notin Before \/ (pc = "stilling" /\ d \notin Present \ todo)
    BY <1>0, <1>3, <1>6, <2>1 DEF Quiet, Idle
  <2>2. ASSUME NEW d \in Connectors, entry[d].gate = "open" \/ d \in plan.kept
        PROVE  unavailable \subseteq entry'[d].blocked
    BY <1>0, <1>6, <2>2 DEF ServiceInv, Gated
  <2> QED
    BY <1>0, <1>6, <2>1, <2>2, GatedKeeps
<1>15. Users'
  BY <1>0, <1>6, UsersKeep
<1> QED
  BY <1>8, <1>9, <1>10, <1>11, <1>12, <1>13, <1>14, <1>15 DEF ServiceInv

\* What is served by an agent that is found up is sound.
LEMMA NewUsers ==
    ASSUME ServiceInv, NEW a \in Agents, Ready(a), inst[a] # 0, a \notin unavailable
    PROVE  /\ Backend(a) \in Agents \X (1 .. MaxRounds) /\ Backend(a)[1] = a
           /\ Sound(Backend(a)) \/ Unsettled(a)
           /\ pc \in {"arming", "connecting", "resuming"} /\ a \in plan.stopping => Sound(Backend(a))
<1> USE DEF ServiceInv
<1>1. Backend(a) \in Agents \X (1 .. MaxRounds) /\ Backend(a)[1] = a
  BY ServiceAssumption DEF Backend, Shaped, TypeOK
<1>2. Sound(Backend(a)) <=> Backend(a) \in live \ left
  BY <1>1 DEF Sound
<1>3. Sound(Backend(a)) \/ Unsettled(a)
  BY <1>2 DEF Ready, Up
<1>4. ASSUME pc \in {"arming", "connecting", "resuming"}, a \in plan.stopping
      PROVE  Sound(Backend(a))
  <2>1. a \in plan.fresh
    BY <1>4 DEF Versions, Backends, After
  <2> QED
    BY <1>2, <1>4, <2>1 DEF Served, Up
<1> QED
  BY <1>1, <1>3, <1>4

LEMMA ServeKeeps ==
    ASSUME ServiceInv, NEW c \in Connectors, Serve(c)
    PROVE  ServiceInv'
<1> USE DEF Frame, Agreed, runtimeVars
<1> DEFINE a == verb[c][1]
           e == [entry[c] EXCEPT !.users = @ \cup {Backend(a)}]
<1>0. /\ UNCHANGED Frame /\ todo' = todo /\ stuck' = stuck /\ recovering' = recovering
      /\ ~Idle(c) /\ verb[c][2] = "serving"
      /\ entry' = entry \/ (inst[a] # 0 /\ entry' = [entry EXCEPT ![c].users = @ \cup {Backend(a)}])
      /\ verb' = [verb EXCEPT ![c] = None]
  BY DEF Serve, reloadVars
<1>1. /\ pc \notin Stopped /\ Busy /\ c \in Present
      /\ pc \in Before => pc = "stilling" /\ c \in todo
      /\ \A b \in Agents : Ready(b)
  BY <1>0, WhileStarting
<1>2. a \in Agents /\ a \notin unavailable
  BY <1>0 DEF ServiceInv, Shaped, Starts, Idle
<1>3. /\ verb' \in [Connectors -> {None} \cup (Agents \X Stages)]
      /\ verb'[c] = None /\ \A d \in Connectors \ {c} : verb'[d] = verb[d]
  BY <1>0 DEF ServiceInv, Shaped
<1>4. recovering # c
  BY <1>0 DEF ServiceInv, Starts
<1>5. recovering' \in {None} \cup {d \in Connectors : verb'[d] # None}
  BY <1>0, <1>3, <1>4 DEF ServiceInv, Shaped, TypeOK
<1>6. entry[c] \in EntryType /\ entry[c].gate # "none"
  BY <1>0 DEF ServiceInv, Shaped, Starts
<1>7. ASSUME inst[a] # 0
      PROVE  /\ Backend(a) \in Agents \X (1 .. MaxRounds) /\ Backend(a)[1] = a
             /\ Sound(Backend(a)) \/ Unsettled(a)
             /\ pc \in {"arming", "connecting", "resuming"} /\ a \in plan.stopping => Sound(Backend(a))
  BY <1>1, <1>2, <1>7, NewUsers
<1>8. PICK f \in EntryType :
          /\ entry' = [entry EXCEPT ![c] = f]
          /\ f.gate = entry[c].gate /\ f.ver = entry[c].ver /\ f.n = entry[c].n
          /\ f.bad = entry[c].bad /\ f.blocked = entry[c].blocked
          /\ f.users = entry[c].users
             \/ (inst[a] # 0 /\ f.users = entry[c].users \cup {Backend(a)})
  <2>1. CASE entry' = entry
    <3>1. entry' = [entry EXCEPT ![c] = entry[c]]
      BY <2>1 DEF ServiceInv, Shaped
    <3> QED
      BY <1>6, <3>1
  <2>2. CASE inst[a] # 0 /\ entry' = [entry EXCEPT ![c].users = @ \cup {Backend(a)}]
    <3>1. e \in EntryType /\ entry' = [entry EXCEPT ![c] = e]
      BY <1>6, <1>7, <2>2 DEF EntryType
    <3>2. /\ e.gate = entry[c].gate /\ e.ver = entry[c].ver /\ e.n = entry[c].n
          /\ e.bad = entry[c].bad /\ e.blocked = entry[c].blocked
          /\ e.users = entry[c].users \cup {Backend(a)}
      BY <1>6 DEF EntryType
    <3> QED
      BY <2>2, <3>1, <3>2
  <2> QED
    BY <1>0, <2>1, <2>2
<1> HIDE DEF e, a
<1>9. /\ Shaped' /\ Work' /\ PlannedConnectors' /\ PlannedAgents' /\ Rounds'
      /\ Backends' /\ Versions'
      /\ entry'[c] = f /\ \A d \in Connectors \ {c} : entry'[d] = entry[d]
  BY ZenonT(60), <1>0, <1>3, <1>5, <1>6, <1>8, EntryKeeps
<1>10. Starts'
  <2>1. \A d \in Connectors \ {c} : Idle(d)' <=> Idle(d)
    BY <1>3 DEF Idle
  <2> QED
    BY <1>0, <1>3, <1>4, <1>9, <2>1 DEF ServiceInv, Starts, Idle
<1>11. Served'
  BY <1>0, <1>1, ServedKeeps
<1>12. Connections'
  BY <1>0, <1>6, <1>8, ConnectionsKeep
<1>13. Gated'
  <2>1. ASSUME NEW d \in Connectors, Quiet(d)
        PROVE  Quiet(d)' \/ pc \notin Before \/ (pc = "stilling" /\ d \notin Present \ todo)
    BY <1>0, <1>3, <1>9, <2>1 DEF Quiet, Idle
  <2>2. ASSUME NEW d \in Connectors, entry[d].gate = "open" \/ d \in plan.kept
        PROVE  unavailable \subseteq entry'[d].blocked
    BY <1>0, <1>8, <1>9, <2>2 DEF ServiceInv, Gated
  <2>3. \A d \in Connectors : /\ entry'[d].gate = entry[d].gate /\ entry'[d].bad = entry[d].bad
                              /\ entry'[d].ver = entry[d].ver
    BY <1>8, <1>9
  <2> QED
    BY <1>0, <2>1, <2>2, <2>3, GatedKeeps
<1>14. Users'
  <2>1. \A u : (Sound(u)' <=> Sound(u)) /\ (Unsettled(u[1])' <=> Unsettled(u[1]))
    BY <1>0 DEF Sound, Backend, Unsettled
  <2>2. ASSUME NEW d \in Connectors, NEW u \in entry'[d].users, <<d, u>> \notin stuck'
        PROVE  /\ Sound(u)' \/ Unsettled(u[1])'
               /\ pc' = "draining" => d \in todo' \/ u[1] \notin plan'.stopping
               /\ pc' \in {"installing", "starting"} => u[1] \notin plan'.stopping
               /\ pc' \in {"arming", "connecting", "resuming"} /\ u[1] \in plan'.stopping => Sound(u)'
    <3>1. CASE u \in entry[d].users
      BY <1>0, <2>1, <2>2, <3>1 DEF ServiceInv, Users
    <3>2. CASE u \notin entry[d].users
      <4>1. d = c /\ inst[a] # 0 /\ u = Backend(a)
        BY <1>8, <1>9, <2>2, <3>2
      <4>2. pc \notin {"draining", "installing", "starting"}
        BY <1>1 DEF Stopped, Before
      <4> QED
        BY <1>0, <1>7, <2>1, <4>1, <4>2
    <3> QED
      BY <3>1, <3>2
  <2> QED
    BY <2>2 DEF Users
<1> QED
  BY <1>9, <1>10, <1>11, <1>12, <1>13, <1>14 DEF ServiceInv

\* What a step on one connector does when no start is touched.
LEMMA PhaseStepKeeps ==
    ASSUME ServiceInv, UNCHANGED <<Frame, verb, recovering>>, NEW c \in Connectors,
           NEW f \in EntryType, entry[c].gate # "none", f.gate # "none",
           f.gate = "new" => entry[c].gate = "new",
           f.ver = entry[c].ver, f.n = entry[c].n, f.bad = entry[c].bad,
           entry' = [entry EXCEPT ![c] = f], todo' \subseteq todo,
           f.gate = "open" => entry[c].gate = "open" \/ pc \notin Stopped \cup {"broken"},
           f.users \subseteq entry[c].users \/ ~Idle(c) \/ pc = "resuming",
           \A d \in todo \ todo' : pc \in {"stilling", "draining", "arming", "resuming"}
    PROVE  /\ Shaped' /\ Starts' /\ Work' /\ PlannedConnectors' /\ PlannedAgents' /\ Rounds'
           /\ Backends' /\ Versions' /\ Served' /\ Connections'
           /\ entry'[c] = f /\ \A d \in Connectors \ {c} : entry'[d] = entry[d]
           /\ Present' = Present
<1> USE DEF Frame, Agreed, runtimeVars
<1>1. recovering' \in {None} \cup {d \in Connectors : verb'[d] # None}
      /\ verb' \in [Connectors -> {None} \cup (Agents \X Stages)]
  BY DEF ServiceInv, Shaped, TypeOK
<1>2. /\ Shaped' /\ Work' /\ PlannedConnectors' /\ PlannedAgents' /\ Rounds'
      /\ Backends' /\ Versions'
      /\ entry'[c] = f /\ \A d \in Connectors \ {c} : entry'[d] = entry[d]
      /\ Present' = Present
  BY <1>1, EntryKeeps
<1>3. Starts'
  BY <1>2 DEF ServiceInv, Starts, Idle
<1>4. Served'
  BY <1>2, ServedKeeps DEF Busy, Idle
<1>5. Connections'
  BY ConnectionsKeep
<1> QED
  BY <1>2, <1>3, <1>4, <1>5

LEMMA QuiesceKeeps ==
    ASSUME ServiceInv, NEW c \in Connectors, Quiesce(c)
    PROVE  ServiceInv'
<1> USE DEF Frame, Agreed, runtimeVars
<1>0. /\ UNCHANGED <<Frame, verb, recovering>> /\ todo' = todo /\ stuck' = stuck
      /\ pc = "stilling" /\ c \in todo /\ entry[c].gate \in {"open", "new"}
      /\ entry' = [entry EXCEPT ![c].gate = "quiet"]
  BY DEF Quiesce, During, reloadVars
<1> DEFINE f == [entry[c] EXCEPT !.gate = "quiet"]
<1>1. /\ f \in EntryType /\ f.gate = "quiet" /\ entry' = [entry EXCEPT ![c] = f]
      /\ f.ver = entry[c].ver /\ f.n = entry[c].n /\ f.bad = entry[c].bad
      /\ f.blocked = entry[c].blocked /\ f.users = entry[c].users
  BY <1>0 DEF ServiceInv, Shaped, EntryType, Gates
<1> HIDE DEF f
<1>2. /\ Shaped' /\ Starts' /\ Work' /\ PlannedConnectors' /\ PlannedAgents' /\ Rounds'
      /\ Backends' /\ Versions' /\ Served' /\ Connections'
      /\ entry'[c] = f /\ \A d \in Connectors \ {c} : entry'[d] = entry[d]
      /\ Present' = Present
  BY <1>0, <1>1, PhaseStepKeeps
<1>3. Gated'
  <2>1. \A d \in Connectors \ {c} : Quiet(d)' <=> Quiet(d)
    BY <1>0, <1>2 DEF Quiet, Idle
  <2>2. plan.started = {} /\ plan.kept \subseteq Connectors
    BY <1>0 DEF ServiceInv, PlannedConnectors, Shaped, PlanType
  <2> QED
    BY <1>0, <1>1, <1>2, <2>1, <2>2 DEF ServiceInv, Gated, Before, After, Resting, Ending
<1>4. Users'
  <2>1. \A d \in Connectors : entry'[d].users \subseteq entry[d].users
    BY <1>1, <1>2
  <2> QED
    BY <1>0, <2>1, UsersKeep
<1> QED
  BY <1>2, <1>3, <1>4 DEF ServiceInv

LEMMA QuiescedKeeps ==
    ASSUME ServiceInv, NEW c \in Connectors, Quiesced(c)
    PROVE  ServiceInv'
<1> USE DEF Frame, Agreed, runtimeVars
<1>0. /\ UNCHANGED <<Frame, verb, recovering>> /\ todo' = todo \ {c} /\ stuck' = stuck
      /\ pc = "stilling" /\ c \in todo /\ Quiet(c)
      /\ entry' = entry
  BY DEF Quiesced, During, Done, Drained, Quiet, fleetVars
<1>1. entry' = [entry EXCEPT ![c] = entry[c]] /\ entry[c] \in EntryType /\ entry[c].gate # "none"
  BY <1>0 DEF ServiceInv, Shaped, TypeOK, Present
<1>2. /\ Shaped' /\ Starts' /\ Work' /\ PlannedConnectors' /\ PlannedAgents' /\ Rounds'
      /\ Backends' /\ Versions' /\ Served' /\ Connections' /\ Present' = Present
  BY <1>0, <1>1, PhaseStepKeeps
<1>3. Gated'
  <2>1. \A d \in Connectors : Quiet(d)' <=> Quiet(d)
    BY <1>0 DEF Quiet, Idle
  <2> QED
    BY <1>0, <1>2, <2>1 DEF ServiceInv, Gated, Before, After, Resting, Ending
<1>4. Users'
  BY <1>0, UsersKeep
<1> QED
  BY <1>2, <1>3, <1>4 DEF ServiceInv

LEMMA DrainKeeps ==
    ASSUME ServiceInv, NEW c \in Connectors, Drain(c)
    PROVE  ServiceInv'
<1> USE DEF Frame, Agreed, runtimeVars
<1> DEFINE held == {u \in entry[c].users : u[1] \in plan.stopping}
<1>0. /\ UNCHANGED <<Frame, verb, recovering>> /\ todo' = todo \ {c}
      /\ pc = "draining" /\ c \in todo
  BY DEF Drain, During, Done, fleetVars
<1>1. PICK failed \in SUBSET held :
          /\ entry' = [entry EXCEPT ![c].users = @ \ (held \ failed)]
          /\ stuck' = stuck \cup ({c} \X failed)
  BY DEF Drain
<1> DEFINE f == [entry[c] EXCEPT !.users = @ \ (held \ failed)]
<1>2. /\ f \in EntryType /\ entry' = [entry EXCEPT ![c] = f]
      /\ f.gate = entry[c].gate /\ f.ver = entry[c].ver /\ f.n = entry[c].n
      /\ f.bad = entry[c].bad /\ f.blocked = entry[c].blocked
      /\ f.users = entry[c].users \ (held \ failed)
  BY <1>1 DEF ServiceInv, Shaped, EntryType
<1>3. entry[c].gate # "none"
  BY <1>0 DEF ServiceInv, Shaped, TypeOK, Present
<1> HIDE DEF f
<1>4. /\ Shaped' /\ Starts' /\ Work' /\ PlannedConnectors' /\ PlannedAgents' /\ Rounds'
      /\ Backends' /\ Versions' /\ Served' /\ Connections'
      /\ entry'[c] = f /\ \A d \in Connectors \ {c} : entry'[d] = entry[d]
      /\ Present' = Present
  BY <1>0, <1>2, <1>3, PhaseStepKeeps
<1>5. Gated'
  <2>1. \A d \in Connectors : Quiet(d)' <=> Quiet(d)
    BY <1>0, <1>2, <1>4 DEF Quiet, Idle
  <2>2. plan.started = {}
    BY <1>0 DEF ServiceInv, PlannedConnectors
  <2> QED
    BY <1>0, <1>2, <1>4, <2>1, <2>2 DEF ServiceInv, Gated, Before, After, Resting, Ending
<1>6. Users'
  <2>1. \A u : (Sound(u)' <=> Sound(u)) /\ (Unsettled(u[1])' <=> Unsettled(u[1]))
    BY <1>0 DEF Sound, Backend, Unsettled
  <2>2. ASSUME NEW d \in Connectors, NEW u \in entry'[d].users, <<d, u>> \notin stuck'
        PROVE  /\ Sound(u) \/ Unsettled(u[1])
               /\ d \in todo' \/ u[1] \notin plan.stopping
    <3>1. u \in entry[d].users /\ <<d, u>> \notin stuck
      BY <1>1, <1>2, <1>4, <2>2
    <3>2. d = c => u[1] \notin plan.stopping
      BY <1>1, <1>2, <1>4, <2>2
    <3> QED
      BY <1>0, <3>1, <3>2 DEF ServiceInv, Users
  <2> QED
    BY <1>0, <2>1, <2>2 DEF Users
<1> QED
  BY <1>4, <1>5, <1>6 DEF ServiceInv

LEMMA RearmKeeps ==
    ASSUME ServiceInv, NEW c \in Connectors, Rearm(c)
    PROVE  ServiceInv'
<1> USE DEF Frame, Agreed, runtimeVars
<1>0. /\ UNCHANGED <<Frame, verb, recovering>> /\ todo' = todo \ {c} /\ stuck' = stuck
      /\ pc = "arming" /\ c \in todo
      /\ entry' = [entry EXCEPT ![c].gate = "open"]
  BY DEF Rearm, During, Done
<1> DEFINE f == [entry[c] EXCEPT !.gate = "open"]
<1>1. /\ f \in EntryType /\ f.gate = "open" /\ entry' = [entry EXCEPT ![c] = f]
      /\ f.ver = entry[c].ver /\ f.n = entry[c].n /\ f.bad = entry[c].bad
      /\ f.blocked = entry[c].blocked /\ f.users = entry[c].users
  BY <1>0 DEF ServiceInv, Shaped, EntryType, Gates
<1>2. entry[c].gate # "none" /\ c \in plan.kept /\ c \notin plan.conns
  BY <1>0 DEF ServiceInv, Shaped, TypeOK, Present, Work, PlannedConnectors
<1> HIDE DEF f
<1>3. /\ Shaped' /\ Starts' /\ Work' /\ PlannedConnectors' /\ PlannedAgents' /\ Rounds'
      /\ Backends' /\ Versions' /\ Served' /\ Connections'
      /\ entry'[c] = f /\ \A d \in Connectors \ {c} : entry'[d] = entry[d]
      /\ Present' = Present
  BY <1>0, <1>1, <1>2, PhaseStepKeeps DEF Stopped
<1>4. Gated'
  <2>1. plan.started = {}
    BY <1>0 DEF ServiceInv, PlannedConnectors
  <2> QED
    BY <1>0, <1>1, <1>2, <1>3, <2>1 DEF ServiceInv, Gated, Before, After, Resting, Ending
<1>5. Users'
  <2>1. \A d \in Connectors : entry'[d].users \subseteq entry[d].users
    BY <1>1, <1>3
  <2> QED
    BY <1>0, <2>1, UsersKeep
<1> QED
  BY <1>3, <1>4, <1>5 DEF ServiceInv

LEMMA SettleRecordsKeeps ==
    ASSUME ServiceInv, NEW c \in Connectors, SettleRecords(c)
    PROVE  ServiceInv'
<1> USE DEF Frame, Agreed, runtimeVars
<1>0. /\ UNCHANGED <<Frame, verb, recovering>> /\ todo' = todo /\ stuck' = stuck
      /\ pc = "connecting" /\ c \in todo /\ entry[c].gate = "new"
      /\ entry' = [entry EXCEPT ![c].gate = "open", ![c].blocked = unavailable]
  BY DEF SettleRecords, During, reloadVars
<1> DEFINE f == [entry[c] EXCEPT !.gate = "open", !.blocked = unavailable]
<1>1. /\ f \in EntryType /\ f.gate = "open" /\ entry' = [entry EXCEPT ![c] = f]
      /\ f.ver = entry[c].ver /\ f.n = entry[c].n /\ f.bad = entry[c].bad
      /\ f.blocked = unavailable /\ f.users = entry[c].users
  <2>1. unavailable \subseteq Agents
    BY DEF ServiceInv, Shaped, TypeOK
  <2> QED
    BY <1>0, <2>1 DEF ServiceInv, Shaped, EntryType, Gates
<1>2. c \in plan.conns /\ c \notin plan.kept
  BY <1>0 DEF ServiceInv, Work, PlannedConnectors
<1> HIDE DEF f
<1>3. /\ Shaped' /\ Starts' /\ Work' /\ PlannedConnectors' /\ PlannedAgents' /\ Rounds'
      /\ Backends' /\ Versions' /\ Served' /\ Connections'
      /\ entry'[c] = f /\ \A d \in Connectors \ {c} : entry'[d] = entry[d]
      /\ Present' = Present
  BY <1>0, <1>1, PhaseStepKeeps DEF Stopped
<1>4. Gated'
  <2>1. pc' = "connecting" /\ todo' = todo /\ plan' = plan /\ cand' = cand
        /\ unavailable' = unavailable
    BY <1>0
  <2>2. plan.started = {}
    BY <1>0 DEF ServiceInv, PlannedConnectors
  <2>3. Gated
    BY DEF ServiceInv
  <2>4. entry'[c].gate = "open" /\ unavailable \subseteq entry'[c].blocked
    BY <1>1, <1>3
  <2>5. entry'[c].ver = entry[c].ver /\ ~entry[c].bad /\ entry'[c].bad = entry[c].bad
    BY <1>0, <1>1, <1>2, <1>3, <2>3 DEF Gated
  <2>6. pc = "connecting" /\ c \in todo
    BY <1>0
  <2> HIDE DEF Frame, Agreed, runtimeVars
  <2> QED
    BY <1>2, <1>3, <2>1, <2>2, <2>3, <2>4, <2>5, <2>6 DEF Gated, Before, After, Resting, Ending
<1>5. Users'
  <2>1. \A d \in Connectors : entry'[d].users \subseteq entry[d].users
    BY <1>1, <1>3
  <2> QED
    BY <1>0, <2>1, UsersKeep
<1> QED
  BY <1>3, <1>4, <1>5 DEF ServiceInv

LEMMA RestartKeeps ==
    ASSUME ServiceInv, NEW c \in Connectors, Restart(c)
    PROVE  ServiceInv'
<1> USE DEF Frame, Agreed, runtimeVars
<1> DEFINE built == {Backend(a) : a \in {b \in plan.changed \ entry[c].blocked : ~Serves(c, b)}}
<1>0. /\ UNCHANGED <<Frame, verb, recovering>> /\ todo' = todo \ {c} /\ stuck' = stuck
      /\ pc = "resuming" /\ c \in todo
      /\ entry' = [entry EXCEPT ![c].users = @ \cup built]
  BY DEF Restart, During, Done
<1>1. /\ entry[c].gate # "none" /\ c \in plan.kept /\ c \notin plan.conns
      /\ unavailable \subseteq entry[c].blocked
  BY <1>0 DEF ServiceInv, Shaped, TypeOK, Present, Work, PlannedConnectors, Gated
<1>2. ASSUME NEW u \in built
      PROVE  u \in Agents \X (1 .. MaxRounds) /\ Sound(u)
  <2>1. PICK a \in plan.changed \ entry[c].blocked : u = Backend(a)
    BY <1>2
  <2>2. a \in plan.fresh /\ a \in Agents /\ a \notin unavailable
    BY <1>1, <2>1 DEF ServiceInv, PlannedAgents, Shaped, PlanType
  <2>3. u \in live \ left
    BY <1>0, <2>1, <2>2 DEF ServiceInv, Served, Up
  <2>4. inst[a] = round /\ round \in 1 .. MaxRounds
    BY <1>0, <2>2 DEF ServiceInv, Rounds, After, Shaped, TypeOK
  <2> QED
    BY <2>1, <2>2, <2>3, <2>4 DEF Sound, Backend
<1> HIDE DEF built
<1> DEFINE f == [entry[c] EXCEPT !.users = @ \cup built]
<1>3. /\ f \in EntryType /\ entry' = [entry EXCEPT ![c] = f]
      /\ f.gate = entry[c].gate /\ f.ver = entry[c].ver /\ f.n = entry[c].n
      /\ f.bad = entry[c].bad /\ f.blocked = entry[c].blocked
      /\ f.users = entry[c].users \cup built
  BY <1>0, <1>2 DEF ServiceInv, Shaped, EntryType
<1> HIDE DEF f
<1>s. /\ f.gate = "new" => entry[c].gate = "new"
      /\ f.gate = "open" => entry[c].gate = "open" \/ pc \notin Stopped \cup {"broken"}
      /\ f.users \subseteq entry[c].users \/ ~Idle(c) \/ pc = "resuming"
      /\ todo' \subseteq todo /\ f.gate # "none"
      /\ \A d \in todo \ todo' : pc \in {"stilling", "draining", "arming", "resuming"}
  BY <1>0, <1>1, <1>3
<1>4. /\ Shaped' /\ Starts' /\ Work' /\ PlannedConnectors' /\ PlannedAgents' /\ Rounds'
      /\ Backends' /\ Versions' /\ Served' /\ Connections'
      /\ entry'[c] = f /\ \A d \in Connectors \ {c} : entry'[d] = entry[d]
      /\ Present' = Present
  BY <1>0, <1>1, <1>3, <1>s, PhaseStepKeeps
<1>5. Gated'
  BY <1>0, <1>1, <1>3, <1>4 DEF ServiceInv, Gated, Before, After, Resting, Ending
<1>6. Users'
  <2>1. \A u : (Sound(u)' <=> Sound(u)) /\ (Unsettled(u[1])' <=> Unsettled(u[1]))
    BY <1>0 DEF Sound, Backend, Unsettled
  <2>2. ASSUME NEW d \in Connectors, NEW u \in entry'[d].users, <<d, u>> \notin stuck'
        PROVE  /\ Sound(u) \/ Unsettled(u[1])
               /\ u[1] \in plan.stopping => Sound(u)
    BY <1>0, <1>2, <1>3, <1>4, <2>2 DEF ServiceInv, Users
  <2> QED
    BY <1>0, <2>1, <2>2 DEF Users
<1> QED
  BY <1>4, <1>5, <1>6 DEF ServiceInv

\* What a start of agents leaves: each of them is up with one broker more, or unavailable.
LEMMA Started ==
    ASSUME ServiceInv, NEW names \in SUBSET Agents, \A a \in names : inst[a] # 0,
           StartSome(names)
    PROVE  /\ brokers' \in [Agents -> Nat] /\ unavailable' \subseteq Agents
           /\ live \subseteq live' /\ live' \subseteq Objects
           /\ \A o \in live' \ live : \E a \in names : o = Backend(a)
           /\ \A a \in Agents \ names : /\ brokers'[a] = brokers[a]
                                        /\ a \in unavailable' <=> a \in unavailable
           /\ \A a \in names : \/ a \in unavailable' /\ brokers'[a] = brokers[a]
                               \/ /\ a \notin unavailable' /\ Backend(a) \in live'
                                  /\ brokers'[a] = brokers[a] + 1
<1>1. PICK failed \in SUBSET names : \E up \in SUBSET failed :
          /\ live' = live \cup {Backend(a) : a \in (names \ failed) \cup up}
          /\ brokers' = [a \in Agents |-> brokers[a] + IF a \in names \ failed THEN 1 ELSE 0]
          /\ unavailable' = (unavailable \ names) \cup failed
  BY Zenon DEF StartSome
<1>u. PICK up \in SUBSET failed :
          live' = live \cup {Backend(a) : a \in (names \ failed) \cup up}
  BY <1>1
<1>2. /\ brokers \in [Agents -> Nat] /\ unavailable \subseteq Agents /\ live \subseteq Objects
      /\ inst \in [Agents -> 0 .. MaxRounds]
  BY DEF ServiceInv, Shaped, TypeOK
<1>3. \A a \in Agents : brokers[a] \in Nat /\ brokers'[a] = brokers[a] + (IF a \in names \ failed THEN 1 ELSE 0)
  BY <1>1, <1>2
<1>4. brokers' \in [Agents -> Nat]
  BY <1>1, <1>2
<1>5. \A a \in names : Backend(a) \in Objects
  BY <1>2, ServiceAssumption DEF Backend, Objects, Names
<1>6. live \subseteq live' /\ live' \subseteq Objects
  BY <1>u, <1>2, <1>5
<1>7. \A o \in live' \ live : \E a \in names : o = Backend(a)
  BY <1>u
<1>8. unavailable' \subseteq Agents
  BY <1>1, <1>2
<1>9. \A a \in Agents \ names : /\ brokers'[a] = brokers[a]
                                /\ a \in unavailable' <=> a \in unavailable
  BY <1>1, <1>3
<1>10. ASSUME NEW a \in names
       PROVE  \/ a \in unavailable' /\ brokers'[a] = brokers[a]
              \/ /\ a \notin unavailable' /\ Backend(a) \in live' /\ brokers'[a] = brokers[a] + 1
  BY <1>1, <1>u, <1>3
<1> QED
  BY <1>4, <1>6, <1>7, <1>8, <1>9, <1>10

\* Nothing of a connector is an agent's.
LEMMA Apart == \A a \in Agents, c \in Connectors : a # c /\ Backend(a)[1] = a /\ Connection(c)[1] = c
  BY ServiceAssumption DEF Backend, Connection

LEMMA RecoverKeeps ==
    ASSUME ServiceInv, NEW c \in Connectors, Recover(c)
    PROVE  ServiceInv'
<1>p. PICK a \in Agents : verb[c] = <<a, "starting">>
  BY DEF Recover, ServiceInv, Shaped, Idle
<1>0. /\ UNCHANGED <<config, cand, pc, plan, round, suspect, ticking, torn, doubled>>
      /\ UNCHANGED <<inst, ver, left, stuck, todo>>
  BY DEF Recover, reloadVars
<1>s. /\ ~Idle(c) /\ recovering' = None
      /\ StartSome({a}) /\ entry' = Pushed(entry, Present)
      /\ verb' = [verb EXCEPT ![c] = IF a \in unavailable' THEN None ELSE <<a, "serving">>]
  BY <1>p DEF Recover, ServiceInv, Shaped
<1>1. /\ pc \notin Stopped /\ Busy /\ c \in Present
      /\ pc \in Before => pc = "stilling" /\ c \in todo
      /\ \A b \in Agents : Ready(b) /\ (Backend(b) \in left => Unsettled(b))
  BY <1>s, WhileStarting
<1>2. a \in unavailable /\ inst[a] # 0 /\ recovering = c
  <2>1. a \in unavailable /\ recovering = c
    BY <1>s, <1>p DEF ServiceInv, Starts
  <2> QED
    BY <2>1 DEF ServiceInv, Backends
<1>3. /\ brokers' \in [Agents -> Nat] /\ unavailable' \subseteq Agents
      /\ live \subseteq live' /\ live' \subseteq Objects
      /\ \A o \in live' \ live : o = Backend(a)
      /\ \A b \in Agents \ {a} : /\ brokers'[b] = brokers[b]
                                 /\ b \in unavailable' <=> b \in unavailable
      /\ \/ a \in unavailable' /\ brokers'[a] = brokers[a]
         \/ /\ a \notin unavailable' /\ Backend(a) \in live' /\ brokers'[a] = brokers[a] + 1
  BY <1>s, <1>2, Started
<1>4. /\ verb' \in [Connectors -> {None} \cup (Agents \X Stages)]
      /\ \A d \in Connectors \ {c} : verb'[d] = verb[d]
      /\ verb'[c] = None \/ (verb'[c] = <<a, "serving">> /\ a \notin unavailable')
  BY <1>s, <1>2 DEF ServiceInv, Shaped, Stages
<1>5. unavailable' \subseteq unavailable
  BY <1>2, <1>3
<1>6. /\ entry' \in [Connectors -> EntryType]
      /\ \A d \in Connectors :
             /\ entry'[d].gate = entry[d].gate /\ entry'[d].bad = entry[d].bad
             /\ entry'[d].ver = entry[d].ver /\ entry'[d].n = entry[d].n
             /\ entry'[d].users = entry[d].users
             /\ \/ d \notin Present /\ entry'[d] = entry[d]
                \/ d \in Present /\ entry'[d].blocked = unavailable'
  <2>1. Present \in SUBSET Connectors
    BY DEF Present
  <2> QED
    BY <1>s, <1>3, <2>1, PushedEntries
<1>7. Present' = Present
  BY <1>6 DEF Present
<1>8. Shaped'
  <2>1. \A d \in Connectors : /\ entry'[d].gate = "none" => entry'[d] = NoEntry
                              /\ entry'[d].gate # "none" => entry'[d].ver # 0
    BY <1>6 DEF ServiceInv, Shaped, Present
  <2>2. \A d \in Connectors : entry'[d].users \subseteq Agents \X (1 .. MaxRounds)
    BY <1>6 DEF EntryType
  <2>3. TypeOK'
    BY <1>0, <1>s, <1>3, <1>7, <2>2 DEF ServiceInv, Shaped, TypeOK
  <2> QED
    BY <1>0, <1>4, <1>6, <2>1, <2>3 DEF ServiceInv, Shaped
<1>9. Starts'
  <2>1. \A d \in Connectors \ {c} : Idle(d)' <=> Idle(d)
    BY <1>4 DEF Idle
  <2>2. \A d \in Connectors \ {c} : ~Idle(d) => verb[d][2] # "starting"
    BY <1>2 DEF ServiceInv, Starts
  <2>3. None \notin Connectors
    BY ServiceAssumption
  <2>4. ~Idle(c)' => verb'[c] = <<a, "serving">> /\ a \notin unavailable'
    BY <1>4 DEF Idle
  <2> QED
    BY <1>0, <1>s, <1>4, <1>5, <1>6, <2>1, <2>2, <2>3, <2>4 DEF ServiceInv, Starts
<1>10. Work' /\ PlannedConnectors' /\ PlannedAgents'
  <2>1. Work' /\ PlannedConnectors'
    BY <1>0, <1>6, <1>7 DEF ServiceInv, Work, PlannedConnectors, Shaped, PlanType
  <2>2. PlannedAgents'
    BY <1>0, <1>5 DEF ServiceInv, PlannedAgents, Planless
  <2> QED
    BY <2>1, <2>2
<1>11. Rounds'
  <2>1. \A b \in Agents : inst[b] <= round /\ (pc \in Before => inst[b] < round)
    BY DEF ServiceInv, Rounds
  <2>2. \A o \in live' : o[2] <= round /\ (pc \in Before => o[2] < round)
    BY <1>2, <1>3, <2>1 DEF ServiceInv, Rounds, Backend
  <2>3. plan.conns \subseteq Connectors
    BY DEF ServiceInv, Shaped, PlanType
  <2> QED
    BY <1>0, <1>6, <2>2, <2>3 DEF ServiceInv, Rounds
<1>12. Backends'
  <2>1. ASSUME NEW b \in Agents, b \notin doubled, b # a PROVE OneBackend(b)'
    <3>1. OneBackend(b)
      BY <2>1 DEF ServiceInv, Backends
    <3>2. \A o \in live' : o[1] = b => o \in live
      BY <1>2, <1>3, <2>1, Apart
    <3>3. Backend(b)' = Backend(b)
      BY <1>0 DEF Backend
    <3> QED
      BY <1>0, <1>3, <1>5, <2>1, <3>1, <3>2, <3>3 DEF OneBackend, Down
  <2>2. ASSUME a \notin doubled PROVE OneBackend(a)'
    <3>1. brokers[a] = 0 /\ OneBackend(a)
      BY <1>2, <2>2 DEF ServiceInv, Backends, OneBackend
    <3>2. Backend(a)' = Backend(a)
      BY <1>0 DEF Backend
    <3>3. brokers'[a] <= 1 /\ (a \in unavailable' => brokers'[a] = 0)
      BY <1>3, <3>1
    <3> QED
      BY <1>0, <1>1, <1>2, <1>3, <3>1, <3>2, <3>3 DEF OneBackend, Down, Stopped
  <2> QED
    BY <1>0, <1>5, <2>1, <2>2 DEF ServiceInv, Backends
<1>13. Versions'
  BY <1>0 DEF ServiceInv, Versions, Unsettled, Planless, Backend
<1>14. \A b \in Agents : /\ Up(b) => Up(b)'
                         /\ Unsettled(b)' <=> Unsettled(b)
                         /\ Planless(b)' <=> Planless(b)
                         /\ Backend(b)' = Backend(b)
  <2>1. \A b \in Agents : Backend(b)' = Backend(b)
    BY <1>0 DEF Backend
  <2>2. \A b \in Agents : brokers'[b] >= brokers[b] /\ brokers[b] \in Nat /\ brokers'[b] \in Nat
    <3>1. brokers \in [Agents -> Nat]
      BY DEF ServiceInv, Shaped, TypeOK
    <3> QED
      BY <1>3, <3>1
  <2>3. \A b \in Agents : Up(b) => Up(b)'
    BY <1>0, <1>3, <2>1, <2>2 DEF Up
  <2> QED
    BY <1>0, <2>1, <2>3 DEF Unsettled, Planless
<1>15. a \notin unavailable' => Up(a)' \/ Backend(a) \in left
  <2>1. brokers[a] \in Nat
    BY <1>2 DEF ServiceInv, Shaped, TypeOK
  <2> QED
    BY <1>0, <1>2, <1>3, <2>1 DEF Up, Backend
<1>16. Served'
  <2>1. ASSUME NEW b \in Agents PROVE Ready(b)'
    <3>1. CASE b = a
      BY <1>1, <1>14, <1>15, <3>1 DEF Ready
    <3>2. CASE b # a
      <4>1. Ready(b)
        BY <1>1
      <4> QED
        BY <1>0, <1>3, <1>14, <3>2, <4>1 DEF Ready
    <3> QED
      BY <3>1, <3>2
  <2>2. \A b \in Agents : Backend(b)' \in left' => Unsettled(b)'
    BY <1>0, <1>1, <1>14
  <2>3. ASSUME pc \in {"arming", "connecting", "resuming"}, NEW b \in plan.fresh \ unavailable'
        PROVE  Up(b)'
    <3>1. b \in Agents
      BY DEF ServiceInv, Shaped, PlanType
    <3>2. CASE b = a
      <4>1. inst[a] = round /\ \A o \in left : o[2] < round
        BY <2>3, <3>2 DEF ServiceInv, Rounds, After
      <4>2. Backend(a)[2] = round /\ round \in Nat
        BY <4>1 DEF Backend, ServiceInv, Shaped, TypeOK
      <4>3. Backend(a) \notin left
        BY <4>1, <4>2
      <4> QED
        BY <1>15, <2>3, <3>2, <4>3
    <3>3. CASE b # a
      BY <1>3, <1>14, <2>3, <3>1, <3>3 DEF ServiceInv, Served
    <3> QED
      BY <3>2, <3>3
  <2> QED
    BY <1>0, <1>1, <1>14, <2>1, <2>2, <2>3 DEF Served
<1>17. Connections'
  <2>1. \A d \in Connectors : \A o : o[1] = d /\ o \in live' => o \in live
    BY <1>2, <1>3, Apart
  <2>2. \A d \in Connectors : /\ Connection(d)' = Connection(d)
                              /\ Linked(d) => Linked(d)'
                              /\ Away(d) => Away(d)'
    BY <1>0, <1>3, <1>6, <2>1 DEF Connection, Linked, Away
  <2>3. Connections /\ UNCHANGED <<config, pc, todo, plan, torn, left>>
    BY <1>0 DEF ServiceInv
  <2>4. \A d \in Connectors : \A o \in live' \ left' :
            o[1] = d => d \in Present' /\ o = Connection(d)'
    BY <1>7, <2>1, <2>2, <2>3 DEF Connections
  <2>5. ASSUME NEW d \in plan.conns \ todo, pc \in {"connecting", "resuming"}
        PROVE  entry'[d].bad \/ Connection(d)' \in live' \ left'
    <3>1. d \in Connectors
      BY DEF ServiceInv, Shaped, PlanType
    <3> QED
      BY <1>3, <1>6, <2>2, <2>3, <2>5, <3>1 DEF Connections
  <2>6. /\ plan.going \subseteq Connectors /\ plan.conns \subseteq Connectors
        /\ plan.kept \subseteq Connectors
    BY DEF ServiceInv, Shaped, PlanType
  <2> QED
    BY <1>6, <1>7, <2>2, <2>3, <2>4, <2>5, <2>6 DEF Connections
<1>18. Gated'
  <2>1. ASSUME NEW d \in Connectors, Quiet(d)
        PROVE  Quiet(d)' \/ pc \notin Before \/ (pc = "stilling" /\ d \notin Present \ todo)
    BY <1>1, <1>4, <1>6, <2>1 DEF Quiet, Idle
  <2>2. ASSUME NEW d \in Connectors, entry'[d].gate = "open" \/ d \in plan.kept
        PROVE  unavailable' \subseteq entry'[d].blocked
    BY <1>0, <1>6, <2>2 DEF ServiceInv, PlannedConnectors, Present
  <2> QED
    BY <1>0, <1>1, <1>6, <1>7, <2>1, <2>2 DEF ServiceInv, Gated, Before
<1>19. Users'
  <2>1. \A u : (Sound(u) => Sound(u)') /\ (Unsettled(u[1])' <=> Unsettled(u[1]))
    BY <1>0, <1>3 DEF Sound, Backend, Unsettled
  <2> QED
    BY <1>0, <1>6, <2>1 DEF ServiceInv, Users
<1> QED
  BY <1>8, <1>9, <1>10, <1>11, <1>12, <1>13, <1>16, <1>17, <1>18, <1>19 DEF ServiceInv

LEMMA StartAgentsKeeps ==
    ASSUME ServiceInv, StartAgents
    PROVE  ServiceInv'
<1>0. /\ UNCHANGED <<config, cand, plan, round, suspect, ticking, torn, doubled>>
      /\ UNCHANGED <<inst, ver, left, verb, recovering, stuck>>
      /\ pc = "starting" /\ todo = {} /\ pc' = "arming" /\ todo' = plan.kept
  BY DEF StartAgents, Turn
<1>s. StartSome(plan.fresh) /\ entry' = Pushed(entry, plan.kept)
  BY DEF StartAgents
<1>1. /\ plan.fresh \subseteq Agents /\ plan.kept \subseteq Connectors /\ plan.conns \subseteq Connectors
      /\ round \in 1 .. MaxRounds
      /\ \A a \in plan.fresh : inst[a] = round /\ inst[a] # 0
      /\ \A o \in left : o[2] < round
      /\ \A c \in Connectors : entry[c].gate # "open" /\ Idle(c)
  BY <1>0 DEF ServiceInv, Shaped, PlanType, TypeOK, Rounds, After, Served, Stopped, Busy
<1>2. /\ brokers' \in [Agents -> Nat] /\ unavailable' \subseteq Agents
      /\ live \subseteq live' /\ live' \subseteq Objects
      /\ \A o \in live' \ live : \E a \in plan.fresh : o = Backend(a)
      /\ \A a \in Agents \ plan.fresh : /\ brokers'[a] = brokers[a]
                                        /\ a \in unavailable' <=> a \in unavailable
      /\ \A a \in plan.fresh : \/ a \in unavailable' /\ brokers'[a] = brokers[a]
                               \/ /\ a \notin unavailable' /\ Backend(a) \in live'
                                  /\ brokers'[a] = brokers[a] + 1
  BY <1>s, <1>1, Started
<1>3. /\ entry' \in [Connectors -> EntryType]
      /\ \A d \in Connectors :
             /\ entry'[d].gate = entry[d].gate /\ entry'[d].bad = entry[d].bad
             /\ entry'[d].ver = entry[d].ver /\ entry'[d].n = entry[d].n
             /\ entry'[d].users = entry[d].users
             /\ \/ d \notin plan.kept /\ entry'[d] = entry[d]
                \/ d \in plan.kept /\ entry'[d].blocked = unavailable'
  BY <1>s, <1>1, <1>2, PushedEntries
<1>4. Present' = Present /\ plan.kept \subseteq Present
  BY <1>3 DEF Present, ServiceInv, PlannedConnectors
<1>5. Shaped'
  <2>1. \A d \in Connectors : /\ entry'[d].gate = "none" => entry'[d] = NoEntry
                              /\ entry'[d].gate # "none" => entry'[d].ver # 0
    BY <1>3, <1>4 DEF ServiceInv, Shaped, Present
  <2> QED
    BY <1>0, <1>2, <1>3, <1>4, <2>1
    DEF ServiceInv, Shaped, TypeOK, Phases, After, Resting, Ending
<1>6. Starts'
  BY <1>0, <1>1 DEF ServiceInv, Starts, Idle
<1>7. Work' /\ PlannedConnectors' /\ PlannedAgents'
  <2>1. Work' /\ PlannedConnectors'
    BY <1>0, <1>1, <1>3, <1>4 DEF ServiceInv, Work, PlannedConnectors, Before, After
  <2>2. PlannedAgents'
    BY <1>0, <1>2 DEF ServiceInv, PlannedAgents, Planless, Applying
  <2> QED
    BY <2>1, <2>2
<1>8. Rounds'
  <2>1. \A o \in live' : o[2] <= round
    BY <1>1, <1>2 DEF ServiceInv, Rounds, Backend
  <2> QED
    BY <1>0, <1>1, <1>3, <2>1 DEF ServiceInv, Rounds, Before, After
<1>9. \A a \in Agents : Backend(a)' = Backend(a)
  BY <1>0 DEF Backend
<1>10. Backends'
  <2>1. ASSUME NEW a \in Agents, a \notin doubled, a \notin plan.fresh PROVE OneBackend(a)'
    <3>1. OneBackend(a)
      BY <2>1 DEF ServiceInv, Backends
    <3>2. \A o \in live' : o[1] = a => o \in live
      BY <1>1, <1>2, <2>1, Apart DEF Backend
    <3> QED
      BY <1>0, <1>2, <1>9, <2>1, <3>1, <3>2 DEF OneBackend
  <2>2. ASSUME NEW a \in plan.fresh, a \notin doubled PROVE OneBackend(a)'
    <3>1. Down(a) /\ brokers[a] = 0
      BY <1>0, <1>1, <2>2 DEF ServiceInv, Backends, OneBackend, Down
    <3>2. \A o \in live' \ left' : o[1] = a => o = Backend(a)
      BY <1>0, <1>1, <1>2, <2>2, <3>1 DEF Down, Backend
    <3>3. brokers'[a] <= 1 /\ (a \in unavailable' => brokers'[a] = 0)
      BY <1>2, <3>1
    <3>4. a \in Agents /\ inst'[a] # 0
      BY <1>0, <1>1
    <3> QED
      BY <1>0, <1>9, <3>2, <3>3, <3>4 DEF OneBackend
  <2>3. \A a \in Agents : a \in unavailable' => inst[a] # 0
    BY <1>1, <1>2 DEF ServiceInv, Backends
  <2> QED
    BY <1>0, <2>1, <2>2, <2>3 DEF ServiceInv, Backends
<1>11. Versions'
  BY <1>0, <1>9 DEF ServiceInv, Versions, Unsettled, Planless, After
<1>12. Served'
  <2>1. ASSUME NEW a \in plan.fresh \ unavailable' PROVE Up(a)'
    <3>1. brokers[a] \in Nat /\ Backend(a)[2] = round
      BY <1>1, <2>1 DEF ServiceInv, Shaped, TypeOK, Backend
    <3> QED
      BY <1>0, <1>1, <1>2, <1>9, <2>1, <3>1 DEF Up
  <2>2. ASSUME NEW a \in Agents, Planless(a) PROVE Ready(a)'
    <3>1. Ready(a) /\ a \notin plan.fresh
      BY <1>0, <2>2 DEF ServiceInv, Served, Ending, Planless
    <3> QED
      BY <1>0, <1>2, <1>9, <3>1 DEF Ready, Up, Unsettled
  <2>3. ASSUME NEW a \in plan.stopping \ plan.fresh PROVE Ready(a)'
    BY <1>0, <2>3 DEF ServiceInv, Versions, Backends, After, Ready, Shaped, PlanType
  <2>4. \A a \in Agents : Ready(a)'
    BY <2>1, <2>2, <2>3 DEF Planless, Ready
  <2>5. ~Busy'
    BY <1>0, <1>1, <1>3 DEF Busy, Idle
  <2> QED
    BY <1>0, <1>1, <2>1, <2>4, <2>5 DEF Served, Stopped
<1>13. Connections'
  <2>1. \A d \in Connectors : \A o : o[1] = d /\ o \in live' => o \in live
    BY <1>1, <1>2, Apart
  <2>2. \A d \in Connectors : /\ Connection(d)' = Connection(d)
                              /\ Linked(d) => Linked(d)'
                              /\ Away(d) => Away(d)'
    BY <1>0, <1>2, <1>3, <2>1 DEF Connection, Linked, Away
  <2> QED
    BY <1>0, <1>1, <1>3, <1>4, <2>1, <2>2 DEF ServiceInv, Connections, Resting
<1>14. Gated'
  BY <1>0, <1>1, <1>3, <1>4 DEF ServiceInv, Gated, Before, After, Resting, Ending
<1>15. Users'
  <2>1. \A u : (Sound(u) => Sound(u)') /\ (Unsettled(u[1])' <=> Unsettled(u[1]))
    BY <1>0, <1>2 DEF Sound, Backend, Unsettled
  <2> QED
    BY <1>0, <1>3, <2>1 DEF ServiceInv, Users
<1> QED
  BY <1>5, <1>6, <1>7, <1>8, <1>10, <1>11, <1>12, <1>13, <1>14, <1>15 DEF ServiceInv

LEMMA CloseKeeps ==
    ASSUME ServiceInv, NEW c \in Connectors, Close(c)
    PROVE  ServiceInv'
<1>0. /\ UNCHANGED <<config, cand, pc, plan, round, suspect, ticking, torn, doubled>>
      /\ UNCHANGED <<inst, ver, unavailable, brokers, verb, recovering, stuck>>
      /\ pc = "closing" /\ c \in todo /\ todo' = todo \ {c} /\ Idle(c)
      /\ entry' = [entry EXCEPT ![c].gate = "closed", ![c].users = {}]
  BY DEF Close, During, Done
<1>1. \/ live' = live \ {Connection(c)} /\ left' = left
      \/ Connection(c) \in live /\ left' = left \cup {Connection(c)} /\ live' = live
  BY DEF Close
<1> DEFINE f == [entry[c] EXCEPT !.gate = "closed", !.users = {}]
<1>2. /\ f \in EntryType /\ f.gate = "closed" /\ entry' = [entry EXCEPT ![c] = f]
      /\ f.ver = entry[c].ver /\ f.n = entry[c].n /\ f.bad = entry[c].bad
      /\ f.blocked = entry[c].blocked /\ f.users = {}
  <2>1. entry[c] \in EntryType
    BY <1>0 DEF ServiceInv, Shaped
  <2>2. entry' = [entry EXCEPT ![c] = f]
    BY <1>0
  <2> QED
    BY <2>1, <2>2 DEF EntryType, Gates
<1> HIDE DEF f
<1>3. /\ entry' \in [Connectors -> EntryType] /\ entry'[c] = f
      /\ \A d \in Connectors \ {c} : entry'[d] = entry[d]
  BY <1>2 DEF ServiceInv, Shaped
<1>4. /\ c \in plan.going /\ c \notin plan.kept /\ entry[c].gate # "none" /\ plan.started = {}
      /\ Present' = Present
  <2>1. c \in plan.going /\ c \notin plan.kept /\ entry[c].gate # "none" /\ plan.started = {}
    BY <1>0 DEF ServiceInv, Work, PlannedConnectors, Shaped, TypeOK, Present
  <2> QED
    BY <1>2, <1>3, <2>1 DEF Present
<1>5. /\ live' \ left' = (live \ left) \ {Connection(c)}
      /\ live' \subseteq live /\ left' \subseteq live \cup left
      /\ \A o \in live : o \in live' \/ o = Connection(c)
      /\ \A o \in left' : o \in left \/ o = Connection(c)
      /\ left \subseteq left'
  BY <1>1
<1>6. Shaped'
  <2>1. \A d \in Connectors : /\ entry'[d].gate = "none" => entry'[d] = NoEntry
                              /\ entry'[d].gate # "none" => entry'[d].ver # 0
    BY <1>2, <1>3, <1>4 DEF ServiceInv, Shaped
  <2>2. \A d \in Connectors : entry'[d].users \subseteq Agents \X (1 .. MaxRounds)
    BY <1>2, <1>3 DEF ServiceInv, Shaped, TypeOK
  <2>3. TypeOK'
    BY <1>0, <1>4, <1>5, <2>2 DEF ServiceInv, Shaped, TypeOK
  <2> QED
    BY <1>0, <1>3, <2>1, <2>3 DEF ServiceInv, Shaped
<1>7. Starts'
  BY <1>0, <1>3 DEF ServiceInv, Starts, Idle
<1>8. Work' /\ PlannedConnectors' /\ PlannedAgents'
  <2>1. Work'
    BY <1>0 DEF ServiceInv, Work
  <2>2. PlannedConnectors'
    BY <1>0, <1>2, <1>3, <1>4 DEF ServiceInv, PlannedConnectors, Before, After, Shaped, PlanType
  <2>3. PlannedAgents'
    BY <1>0 DEF ServiceInv, PlannedAgents, Planless
  <2> QED
    BY <2>1, <2>2, <2>3
<1>9. Rounds'
  BY <1>0, <1>2, <1>3, <1>5 DEF ServiceInv, Rounds, Before, After
<1>10. \A a \in Agents : /\ Backend(a)' = Backend(a)
                         /\ Backend(a) \in live' \ left' <=> Backend(a) \in live \ left
                         /\ Backend(a) \in left' <=> Backend(a) \in left
                         /\ \A o \in live : o[1] = a => o \in live' /\ (o \in left' <=> o \in left)
  <2>1. \A a \in Agents : \A o : o[1] = a => o # Connection(c)
    BY Apart
  <2> QED
    BY <1>0, <1>1, <2>1, Apart DEF Backend
<1>11. Backends'
  <2>1. ASSUME NEW a \in Agents, a \notin doubled PROVE OneBackend(a)'
    BY <1>0, <1>5, <1>10, <2>1 DEF ServiceInv, Backends, OneBackend
  <2> QED
    BY <1>0, <2>1 DEF ServiceInv, Backends
<1>12. Versions'
  BY <1>0, <1>10 DEF ServiceInv, Versions, Unsettled, Planless
<1>13. Served'
  <2>1. \A a \in Agents : /\ Up(a)' <=> Up(a)
                          /\ Unsettled(a)' <=> Unsettled(a)
    BY <1>0, <1>10 DEF Up, Unsettled
  <2>2. \A a \in Agents : Ready(a)' <=> Ready(a)
    BY <1>0, <2>1 DEF Ready
  <2>3. Busy' => Busy
    BY <1>0, <1>2, <1>3 DEF Busy, Idle
  <2> QED
    BY <1>0, <1>10, <2>1, <2>2, <2>3 DEF ServiceInv, Served, Stopped, Ending, Planless
<1>14. Connections'
  <2>1. \A d \in Connectors : Connection(d)' = Connection(d)
    BY <1>2, <1>3 DEF Connection
  <2>2. ASSUME NEW d \in Connectors, d # c
        PROVE  /\ \A o \in live : o[1] = d => o \in live' /\ (o \in left' <=> o \in left)
               /\ Linked(d) => Linked(d)'
               /\ Away(d) => Away(d)'
    <3>1. \A o : o[1] = d => o # Connection(c)
      BY <2>2, ServiceAssumption DEF Connection
    <3>2. \A o \in live : o[1] = d => o \in live' /\ (o \in left' <=> o \in left)
      BY <1>1, <3>1
    <3>3. Connection(d)[1] = d
      BY DEF Connection
    <3> QED
      BY <1>0, <1>3, <1>5, <2>1, <2>2, <3>2, <3>3 DEF Linked, Away
  <2>3. Away(c)'
    <3>1. \A o \in live \ left : o[1] = c => o = Connection(c)
      BY DEF ServiceInv, Connections
    <3> QED
      BY <1>1, <1>2, <1>3, <3>1 DEF Away
  <2> QED
    BY <1>0, <1>3, <1>4, <1>5, <2>1, <2>2, <2>3 DEF ServiceInv, Connections, Resting
<1>15. Gated'
  <2>1. \A d \in Connectors : Quiet(d) => Quiet(d)'
    BY <1>0, <1>2, <1>3 DEF Quiet, Idle
  <2> QED
    BY <1>0, <1>2, <1>3, <1>4, <2>1 DEF ServiceInv, Gated, Before, After, Resting, Ending
<1>16. Users'
  <2>1. ASSUME NEW d \in Connectors, NEW u \in entry'[d].users
        PROVE  u \in entry[d].users /\ (Sound(u) => Sound(u)') /\ (Unsettled(u[1])' <=> Unsettled(u[1]))
    <3>1. u \in entry[d].users
      BY <1>2, <1>3, <2>1
    <3>2. u[1] \in Agents
      BY <3>1 DEF ServiceInv, Shaped, TypeOK
    <3> QED
      BY <1>0, <1>10, <3>1, <3>2 DEF Sound, Unsettled
  <2> QED
    BY <1>0, <2>1 DEF ServiceInv, Users
<1> QED
  BY <1>6, <1>7, <1>8, <1>9, <1>11, <1>12, <1>13, <1>14, <1>15, <1>16 DEF ServiceInv

LEMMA ConnectKeeps ==
    ASSUME ServiceInv, NEW c \in Connectors, Connect(c)
    PROVE  ServiceInv'
<1> DEFINE built == {Backend(a) : a \in {b \in Agents \ unavailable : inst[b] # 0 /\ ~Serves(c, b)}}
<1>0. /\ UNCHANGED <<config, cand, pc, plan, round, suspect, ticking, torn, doubled>>
      /\ UNCHANGED <<inst, ver, unavailable, brokers, left, verb, recovering, stuck>>
      /\ pc = "connecting" /\ c \in todo /\ todo' = todo \ {c} /\ entry[c].gate = "open"
  BY DEF Connect, During, Done
<1>1. \/ /\ live' = live \cup {Connection(c)}
         /\ entry' = [entry EXCEPT ![c].blocked = unavailable, ![c].users = @ \cup built]
      \/ /\ Idle(c) /\ live' \in {live, live \cup {Connection(c)}}
         /\ entry' = [entry EXCEPT ![c].bad = TRUE, ![c].gate = "closed", ![c].users = {}]
  BY DEF Connect
<1>2. ASSUME NEW u \in built
      PROVE  /\ u \in Agents \X (1 .. MaxRounds)
             /\ Sound(u) \/ Unsettled(u[1])
             /\ u[1] \in plan.stopping => Sound(u)
  <2>1. PICK a \in Agents \ unavailable : u = Backend(a) /\ inst[a] # 0
    BY <1>2
  <2>2. Ready(a)
    BY <1>0, WhileStarting
  <2> QED
    BY <1>0, <2>1, <2>2, NewUsers
<1> HIDE DEF built
<1>3. PICK f \in EntryType :
          /\ entry' = [entry EXCEPT ![c] = f]
          /\ f.ver = entry[c].ver /\ f.n = entry[c].n
          /\ \/ /\ f.gate = "open" /\ f.blocked = unavailable /\ f.bad = entry[c].bad
                /\ f.users = entry[c].users \cup built /\ live' = live \cup {Connection(c)}
             \/ f.gate = "closed" /\ f.bad /\ f.users = {} /\ Idle(c)
  <2>1. entry[c] \in EntryType /\ unavailable \subseteq Agents
    BY DEF ServiceInv, Shaped, TypeOK
  <2>2. CASE entry' = [entry EXCEPT ![c].blocked = unavailable, ![c].users = @ \cup built]
             /\ live' = live \cup {Connection(c)}
    <3> DEFINE f == [entry[c] EXCEPT !.blocked = unavailable, !.users = @ \cup built]
    <3>1. f \in EntryType /\ entry' = [entry EXCEPT ![c] = f]
      BY <1>2, <2>1, <2>2 DEF EntryType
    <3>2. /\ f.ver = entry[c].ver /\ f.n = entry[c].n /\ f.gate = "open" /\ f.blocked = unavailable
          /\ f.bad = entry[c].bad /\ f.users = entry[c].users \cup built
      BY <1>0, <2>1 DEF EntryType
    <3> HIDE DEF f
    <3> QED
      BY <2>2, <3>1, <3>2
  <2>3. CASE entry' = [entry EXCEPT ![c].bad = TRUE, ![c].gate = "closed", ![c].users = {}]
             /\ Idle(c)
    <3> DEFINE f == [entry[c] EXCEPT !.bad = TRUE, !.gate = "closed", !.users = {}]
    <3>1. f \in EntryType /\ entry' = [entry EXCEPT ![c] = f]
      BY <2>1, <2>3 DEF EntryType, Gates
    <3>2. /\ f.ver = entry[c].ver /\ f.n = entry[c].n /\ f.gate = "closed" /\ f.bad /\ f.users = {}
      BY <2>1 DEF EntryType
    <3> HIDE DEF f
    <3> QED
      BY <2>3, <3>1, <3>2
  <2> QED
    BY <1>1, <2>2, <2>3
<1>4. live' = live \/ live' = live \cup {Connection(c)}
  BY <1>1
<1>5. /\ entry' \in [Connectors -> EntryType] /\ entry'[c] = f
      /\ \A d \in Connectors \ {c} : entry'[d] = entry[d]
  BY <1>3 DEF ServiceInv, Shaped
<1>6. /\ c \in plan.conns /\ c \notin plan.kept /\ plan.started = {} /\ Present' = Present
      /\ c \in Present
  <2>1. c \in plan.conns /\ c \notin plan.kept /\ plan.started = {} /\ entry[c].gate # "none"
    BY <1>0 DEF ServiceInv, Work, PlannedConnectors
  <2> QED
    BY <1>3, <1>5, <2>1 DEF Present
<1>7. /\ Connection(c)[2] = round /\ Connection(c) \notin left /\ Connection(c) \in Objects
  <2>1. entry[c].n = round /\ round \in 1 .. MaxRounds /\ \A o \in left : o[2] < round
    BY <1>0, <1>6 DEF ServiceInv, Rounds, Shaped, TypeOK, After
  <2> QED
    BY <2>1 DEF Connection, Objects, Names
<1>8. Shaped'
  <2>1. \A d \in Connectors : /\ entry'[d].gate = "none" => entry'[d] = NoEntry
                              /\ entry'[d].gate # "none" => entry'[d].ver # 0
    BY <1>0, <1>3, <1>5 DEF ServiceInv, Shaped
  <2>2. \A d \in Connectors : entry'[d].users \subseteq Agents \X (1 .. MaxRounds)
    BY <1>5 DEF EntryType
  <2>3. TypeOK'
    BY <1>0, <1>4, <1>6, <1>7, <2>2 DEF ServiceInv, Shaped, TypeOK
  <2> QED
    BY <1>0, <1>5, <2>1, <2>3 DEF ServiceInv, Shaped
<1>9. Starts'
  BY <1>0, <1>3, <1>5 DEF ServiceInv, Starts, Idle
<1>10. Work' /\ PlannedConnectors' /\ PlannedAgents'
  <2>1. Work'
    BY <1>0 DEF ServiceInv, Work
  <2>2. PlannedConnectors'
    BY <1>0, <1>3, <1>5, <1>6 DEF ServiceInv, PlannedConnectors, Before, After
  <2>3. PlannedAgents'
    BY <1>0 DEF ServiceInv, PlannedAgents, Planless
  <2> QED
    BY <2>1, <2>2, <2>3
<1>11. Rounds'
  <2>1. round \in Nat /\ plan.conns \subseteq Connectors
    BY DEF ServiceInv, Shaped, TypeOK, PlanType
  <2> QED
    BY <1>0, <1>3, <1>4, <1>5, <1>7, <2>1 DEF ServiceInv, Rounds, Before, After
<1>12. \A a \in Agents : /\ Backend(a)' = Backend(a)
                         /\ Backend(a) \in live' <=> Backend(a) \in live
                         /\ \A o \in live' : o[1] = a => o \in live
  <2>1. \A a \in Agents : \A o : o[1] = a => o # Connection(c)
    BY Apart
  <2> QED
    BY <1>0, <1>4, <2>1, Apart DEF Backend
<1>13. Backends'
  <2>1. ASSUME NEW a \in Agents, a \notin doubled PROVE OneBackend(a)'
    BY <1>0, <1>12, <2>1 DEF ServiceInv, Backends, OneBackend
  <2> QED
    BY <1>0, <2>1 DEF ServiceInv, Backends
<1>14. Versions'
  BY <1>0, <1>12 DEF ServiceInv, Versions, Unsettled, Planless
<1>15. Served'
  <2>1. \A a \in Agents : /\ Up(a)' <=> Up(a)
                          /\ Unsettled(a)' <=> Unsettled(a)
    BY <1>0, <1>12 DEF Up, Unsettled
  <2>2. \A a \in Agents : Ready(a)' <=> Ready(a)
    BY <1>0, <2>1 DEF Ready
  <2>3. Busy' => Busy
    BY <1>0 DEF Busy
  <2>4. plan.fresh \subseteq Agents
    BY DEF ServiceInv, Shaped, PlanType
  <2> QED
    BY <1>0, <1>12, <2>1, <2>2, <2>3, <2>4 DEF ServiceInv, Served, Stopped, Ending, Planless
<1>16. Connections'
  <2>1. \A d \in Connectors : Connection(d)' = Connection(d)
    BY <1>3, <1>5 DEF Connection
  <2>2. ASSUME NEW d \in Connectors, d # c
        PROVE  /\ \A o \in live' : o[1] = d => o \in live
               /\ Linked(d) => Linked(d)'
    <3>1. \A o : o[1] = d => o # Connection(c)
      BY <2>2, ServiceAssumption DEF Connection
    <3> QED
      BY <1>0, <1>4, <1>5, <2>1, <2>2, <3>1 DEF Linked
  <2>3. \A o \in live' \ left' : o[1] = c => o = Connection(c)
    BY <1>0, <1>4 DEF ServiceInv, Connections
  <2>4. entry'[c].bad \/ Connection(c) \in live' \ left'
    BY <1>0, <1>3, <1>5, <1>7
  <2> QED
    BY <1>0, <1>3, <1>4, <1>5, <1>6, <2>1, <2>2, <2>3, <2>4 DEF ServiceInv, Connections, Resting
<1>17. Gated'
  BY <1>0, <1>3, <1>5, <1>6 DEF ServiceInv, Gated, Before, After, Resting, Ending
<1>18. Users'
  <2>1. ASSUME NEW u, u[1] \in Agents
        PROVE  (Sound(u) => Sound(u)') /\ (Unsettled(u[1])' <=> Unsettled(u[1]))
    BY <1>0, <1>4, <1>12, <2>1 DEF Sound, Unsettled
  <2>2. ASSUME NEW d \in Connectors, NEW u \in entry'[d].users, <<d, u>> \notin stuck
        PROVE  /\ Sound(u)' \/ Unsettled(u[1])'
               /\ u[1] \in plan.stopping => Sound(u)'
    <3>1. CASE u \in entry[d].users
      <4>1. u[1] \in Agents
        BY <3>1 DEF ServiceInv, Shaped, TypeOK
      <4> QED
        BY <1>0, <2>1, <2>2, <3>1, <4>1 DEF ServiceInv, Users
    <3>2. CASE u \in built
      <4>1. u[1] \in Agents
        BY <1>2, <3>2
      <4> QED
        BY <1>2, <2>1, <3>2, <4>1
    <3> QED
      BY <1>3, <1>5, <2>2, <3>1, <3>2
  <2> QED
    BY <1>0, <2>2 DEF Users
<1> QED
  BY <1>8, <1>9, <1>10, <1>11, <1>13, <1>14, <1>15, <1>16, <1>17, <1>18 DEF ServiceInv

\* What a stop of agents leaves: none of their backends is up but leftovers, and each has a
\* broker less.
LEMMA StoppedAgents ==
    ASSUME ServiceInv, NEW names \in SUBSET Agents, StopSome(names)
    PROVE  /\ brokers' \in [Agents -> Nat] /\ live' \subseteq live
           /\ left \subseteq left' /\ left' \subseteq live \cup left
           /\ \A o \in live : o \in live' \/ \E a \in names : o = Backend(a)
           /\ \A o \in left' : o \in left \/ \E a \in names : o = Backend(a)
           /\ \A a \in Agents \ names : brokers'[a] = brokers[a]
           /\ \A a \in names : /\ brokers[a] <= 1 => brokers'[a] = 0
                               /\ Backend(a) \in live' => Backend(a) \in left'
<1>1. PICK failed \in SUBSET {a \in names : Backend(a) \in live} :
          /\ live' = live \ {Backend(a) : a \in names \ failed}
          /\ left' = left \cup {Backend(a) : a \in failed}
          /\ brokers' = [a \in Agents |->
                            IF a \in names /\ HasBroker(a) THEN brokers[a] - 1 ELSE brokers[a]]
  BY Zenon DEF StopSome
<1>2. brokers \in [Agents -> Nat]
  BY DEF ServiceInv, Shaped, TypeOK
<1>3. \A a \in Agents :
          brokers'[a] = IF a \in names /\ brokers[a] > 0 THEN brokers[a] - 1 ELSE brokers[a]
  BY <1>1 DEF HasBroker
<1>4. brokers' \in [Agents -> Nat]
  <2>1. \A a \in Agents : brokers'[a] \in Nat
    BY <1>2, <1>3
  <2> QED
    BY <1>1, <2>1
<1>5. \A a \in names : brokers[a] <= 1 => brokers'[a] = 0
  BY <1>2, <1>3
<1>6. \A a \in Agents \ names : brokers'[a] = brokers[a]
  BY <1>3
<1>7. /\ live' \subseteq live /\ left \subseteq left' /\ left' \subseteq live \cup left
      /\ \A o \in live : o \in live' \/ \E a \in names : o = Backend(a)
      /\ \A o \in left' : o \in left \/ \E a \in names : o = Backend(a)
      /\ \A a \in names : Backend(a) \in live' => Backend(a) \in left'
  BY <1>1
<1> QED
  BY <1>4, <1>5, <1>6, <1>7

LEMMA StopAgentsKeeps ==
    ASSUME ServiceInv, StopAgents
    PROVE  ServiceInv'
<1>0. /\ UNCHANGED <<config, cand, plan, round, suspect, ticking, torn, doubled>>
      /\ UNCHANGED <<inst, ver, unavailable, entry, verb, recovering, stuck>>
      /\ pc = "draining" /\ todo = {} /\ pc' = "installing" /\ todo' = {}
  BY DEF StopAgents, Turn, fleetVars
<1>1. plan.stopping \in SUBSET Agents /\ plan.started = {}
  BY <1>0 DEF ServiceInv, Shaped, PlanType, PlannedConnectors
<1>2. /\ brokers' \in [Agents -> Nat] /\ live' \subseteq live
      /\ left \subseteq left' /\ left' \subseteq live \cup left
      /\ \A o \in live : o \in live' \/ \E a \in plan.stopping : o = Backend(a)
      /\ \A o \in left' : o \in left \/ \E a \in plan.stopping : o = Backend(a)
      /\ \A a \in Agents \ plan.stopping : brokers'[a] = brokers[a]
      /\ \A a \in plan.stopping : /\ brokers[a] <= 1 => brokers'[a] = 0
                                  /\ Backend(a) \in live' => Backend(a) \in left'
  BY <1>1, StoppedAgents DEF StopAgents
<1>3. \A a \in Agents : Backend(a)' = Backend(a) /\ Backend(a)[1] = a
  BY <1>0 DEF Backend
<1>4. Present' = Present /\ \A d \in Connectors : Connection(d)' = Connection(d)
  BY <1>0 DEF Present, Connection
<1>5. /\ \A d \in Connectors : \A o \in live : o[1] = d => o \in live' /\ (o \in left' <=> o \in left)
      /\ \A a \in Agents \ plan.stopping : \A o \in live :
             o[1] = a => o \in live' /\ (o \in left' <=> o \in left)
      /\ \A a \in Agents \ plan.stopping : Backend(a) \in left' <=> Backend(a) \in left
  <2>1. \A b \in plan.stopping : Backend(b)[1] = b /\ b \notin Connectors
    BY <1>1, ServiceAssumption DEF Backend
  <2>2. \A a \in Agents : Backend(a)[1] = a
    BY DEF Backend
  <2> QED
    BY <1>2, <2>1, <2>2
<1>6. Shaped'
  <2>1. TypeOK'
    BY <1>0, <1>2, <1>4 DEF ServiceInv, Shaped, TypeOK
  <2> QED
    BY <1>0, <2>1 DEF ServiceInv, Shaped, Phases, Before, Resting, Ending
<1>7. Starts'
  BY <1>0 DEF ServiceInv, Starts, Idle
<1>8. Work' /\ PlannedConnectors' /\ PlannedAgents'
  <2>1. Work' /\ PlannedConnectors'
    BY <1>0, <1>1, <1>4 DEF ServiceInv, Work, PlannedConnectors, Before, After
  <2>2. PlannedAgents'
    BY <1>0 DEF ServiceInv, PlannedAgents, Planless, Applying
  <2> QED
    BY <2>1, <2>2
<1>9. Rounds'
  BY <1>0, <1>2 DEF ServiceInv, Rounds, Before, After
<1>10. Backends'
  <2>1. ASSUME NEW a \in Agents, a \notin doubled PROVE OneBackend(a)'
    <3>1. OneBackend(a)
      BY <2>1 DEF ServiceInv, Backends
    <3>2. CASE a \in plan.stopping
      <4>1. brokers'[a] = 0
        BY <1>2, <3>1, <3>2 DEF OneBackend
      <4>2. \A o \in live' : o[1] = a => o \in left'
        BY <1>2, <3>1, <3>2 DEF OneBackend
      <4> QED
        BY <1>0, <1>3, <4>1, <4>2 DEF OneBackend, Down
    <3>3. CASE a \notin plan.stopping
      BY <1>0, <1>2, <1>3, <1>5, <2>1, <3>1, <3>3 DEF OneBackend
    <3> QED
      BY <3>2, <3>3
  <2> QED
    BY <1>0, <2>1 DEF ServiceInv, Backends
<1>11. Versions'
  BY <1>0, <1>3, <1>5 DEF ServiceInv, Versions, Unsettled, Planless, After
<1>12. Served'
  <2>1. \A d \in Connectors : entry[d].gate # "open" /\ Idle(d)
    BY <1>0 DEF ServiceInv, Gated, Quiet, Before, Starts, Present
  <2>2. ~Busy'
    BY <1>0, <2>1 DEF Busy, Idle
  <2>3. ASSUME NEW a \in Agents, Planless(a) PROVE Ready(a)'
    <3>1. Ready(a) /\ a \notin plan.stopping
      BY <1>0, <2>3 DEF ServiceInv, Served, Ending, Planless
    <3> QED
      BY <1>0, <1>2, <1>3, <1>5, <3>1 DEF Ready, Up, Unsettled
  <2> QED
    BY <1>0, <2>2, <2>3 DEF Served, Stopped, Planless
<1>13. Connections'
  <2>1. \A d \in Connectors : /\ Linked(d) => Linked(d)'
                              /\ Away(d) => Away(d)'
    BY <1>0, <1>2, <1>4, <1>5 DEF Linked, Away, Connection
  <2> QED
    BY <1>0, <1>2, <1>4, <1>5, <2>1 DEF ServiceInv, Connections, Resting
<1>14. Gated'
  <2>1. \A d \in Connectors : Quiet(d)' <=> Quiet(d)
    BY <1>0 DEF Quiet, Idle
  <2> QED
    BY <1>0, <1>1, <1>4, <2>1 DEF ServiceInv, Gated, Before, After, Resting, Ending
<1>15. Users'
  <2>1. ASSUME NEW c \in Connectors, NEW u \in entry[c].users, <<c, u>> \notin stuck
        PROVE  (Sound(u)' \/ Unsettled(u[1])') /\ u[1] \notin plan.stopping
    <3>1. u[1] \in Agents
      BY DEF ServiceInv, Shaped, TypeOK
    <3>2. (Sound(u) \/ Unsettled(u[1])) /\ u[1] \notin plan.stopping
      BY <1>0, <2>1 DEF ServiceInv, Users
    <3>3. Sound(u) => Sound(u)'
      BY <1>0, <1>3, <1>5, <3>1, <3>2 DEF Sound
    <3> QED
      BY <1>0, <3>2, <3>3 DEF Unsettled
  <2> QED
    BY <1>0, <2>1 DEF Users
<1> QED
  BY <1>6, <1>7, <1>8, <1>9, <1>10, <1>11, <1>12, <1>13, <1>14, <1>15 DEF ServiceInv

LEMMA StopAllKeeps ==
    ASSUME ServiceInv, StopAll
    PROVE  ServiceInv'
<1> DEFINE names == {a \in Agents : inst[a] # 0}
<1>0. /\ UNCHANGED <<config, cand, todo, plan, round, suspect, ticking, torn, doubled>>
      /\ UNCHANGED <<inst, ver, unavailable, entry, verb, recovering, stuck>>
      /\ pc = "stopping all" /\ pc' = "stopped" /\ plan = NoPlan
  BY DEF StopAll, fleetVars, ServiceInv, Shaped, Ending
<1>2. /\ brokers' \in [Agents -> Nat] /\ live' \subseteq live
      /\ left \subseteq left' /\ left' \subseteq live \cup left
      /\ \A o \in live : o \in live' \/ \E a \in names : o = Backend(a)
      /\ \A o \in left' : o \in left \/ \E a \in names : o = Backend(a)
      /\ \A a \in Agents \ names : brokers'[a] = brokers[a]
      /\ \A a \in names : /\ brokers[a] <= 1 => brokers'[a] = 0
                          /\ Backend(a) \in live' => Backend(a) \in left'
  <2>1. names \in SUBSET Agents /\ StopSome(names)
    BY DEF StopAll
  <2> HIDE DEF names
  <2> QED
    BY <2>1, StoppedAgents
<1>3. \A a \in Agents : Backend(a)' = Backend(a) /\ Backend(a)[1] = a
  BY <1>0 DEF Backend
<1>4. Present' = Present /\ \A d \in Connectors : Connection(d)' = Connection(d)
  BY <1>0 DEF Present, Connection
<1>5. \A d \in Connectors : \A o \in live : o[1] = d => o \in live' /\ (o \in left' <=> o \in left)
  <2>1. \A b \in names : Backend(b)[1] = b /\ b \notin Connectors
    BY ServiceAssumption DEF Backend
  <2> QED
    BY <1>2, <2>1
<1>6. Shaped'
  <2>1. TypeOK'
    BY <1>0, <1>2, <1>4 DEF ServiceInv, Shaped, TypeOK
  <2> QED
    BY <1>0, <2>1 DEF ServiceInv, Shaped, Phases, Before, Resting, Ending
<1>7. Starts'
  BY <1>0 DEF ServiceInv, Starts, Idle
<1>8. Work' /\ PlannedConnectors' /\ PlannedAgents'
  BY <1>0, <1>4 DEF ServiceInv, Work, PlannedConnectors, PlannedAgents, Planless, Before, After,
                    Applying, NoPlan
<1>9. Rounds'
  BY <1>0, <1>2 DEF ServiceInv, Rounds, Before, After
<1>10. Backends'
  <2>1. ASSUME NEW a \in Agents, a \notin doubled PROVE OneBackend(a)'
    <3>1. OneBackend(a)
      BY <2>1 DEF ServiceInv, Backends
    <3>2. brokers'[a] = 0
      BY <1>2, <3>1 DEF OneBackend
    <3>3. \A o \in live' : o[1] = a => o \in left'
      <4>1. CASE a \in names
        BY <1>2, <3>1, <4>1 DEF OneBackend
      <4>2. CASE a \notin names
        <5>1. Backend(a) \notin live
          <6>1. Objects = Names \X (1 .. MaxRounds) /\ live \subseteq Objects /\ inst[a] = 0
            BY <4>2 DEF Objects, ServiceInv, Shaped, TypeOK
          <6> QED
            BY <6>1 DEF Backend
        <5> QED
          BY <1>2, <3>1, <5>1 DEF OneBackend
      <4> QED
        BY <4>1, <4>2
    <3>4. Down(a)'
      BY <3>2, <3>3 DEF Down
    <3>5. \A o \in live' \ left' : o[1] = a => o = Backend(a)'
      BY <3>3
    <3>6. brokers'[a] <= 1
      BY <3>2
    <3> QED
      BY <3>2, <3>4, <3>5, <3>6 DEF OneBackend
  <2> QED
    BY <1>0, <2>1 DEF ServiceInv, Backends
<1>11. Versions'
  BY <1>0, <1>3 DEF ServiceInv, Versions, Unsettled, Planless, After
<1>12. Served'
  <2>1. ~Busy'
    BY <1>0 DEF Busy, Idle, ServiceInv, Served, Stopped
  <2> QED
    BY <1>0, <2>1 DEF Served, Stopped, Ending
<1>13. Connections'
  <2>1. \A d \in Connectors : Away(d) => Away(d)'
    BY <1>0, <1>2, <1>5 DEF Away
  <2>2. plan.kept = {}
    BY <1>0 DEF NoPlan
  <2>3. \A o \in live' \ left' : o \in live \ left
    BY <1>2
  <2> QED
    BY <1>0, <1>4, <2>1, <2>2, <2>3 DEF ServiceInv, Connections, Resting
<1>14. Gated'
  BY <1>0, <1>4 DEF ServiceInv, Gated, Before, After, Resting, Ending, NoPlan
<1>15. Users'
  <2>1. \A c \in Connectors : entry[c].users = {}
    BY <1>0 DEF ServiceInv, Connections, Away
  <2> QED
    BY <1>0, <2>1 DEF Users
<1> QED
  BY <1>6, <1>7, <1>8, <1>9, <1>10, <1>11, <1>12, <1>13, <1>14, <1>15 DEF ServiceInv

LEMMA StopManagersKeeps ==
    ASSUME ServiceInv, StopManagers
    PROVE  ServiceInv'
<1>0. /\ UNCHANGED <<config, cand, todo, plan, round, suspect, ticking, torn, doubled>>
      /\ UNCHANGED <<inst, ver, unavailable, brokers, verb, recovering, stuck>>
      /\ pc = "ending" /\ pc' = "stopping all" /\ plan = NoPlan
      /\ \A c \in Present : Idle(c)
      /\ entry' = [c \in Connectors |-> [entry[c] EXCEPT !.users = {}]]
  BY DEF StopManagers, ServiceInv, Shaped, Ending, Drained
<1>1. PICK failed \in SUBSET {Connection(c) : c \in Present} :
          /\ failed \subseteq live
          /\ live' = live \ ({Connection(c) : c \in Present} \ failed)
          /\ left' = left \cup failed
  BY DEF StopManagers
<1>2. /\ live' \subseteq live /\ left \subseteq left' /\ left' \subseteq live \cup left
      /\ \A o \in live : o \in live' \/ \E c \in Present : o = Connection(c)
      /\ \A o \in left' : o \in left \/ \E c \in Present : o = Connection(c)
      /\ \A c \in Present : Connection(c) \in live' => Connection(c) \in left'
  BY <1>1
<1>3. /\ entry' \in [Connectors -> EntryType]
      /\ \A d \in Connectors :
             /\ entry'[d].gate = entry[d].gate /\ entry'[d].bad = entry[d].bad
             /\ entry'[d].ver = entry[d].ver /\ entry'[d].n = entry[d].n
             /\ entry'[d].blocked = entry[d].blocked /\ entry'[d].users = {}
             /\ entry[d] = NoEntry => entry'[d] = NoEntry
  <2>1. ASSUME NEW d \in Connectors
        PROVE  LET e == [entry[d] EXCEPT !.users = {}]
               IN  /\ e \in EntryType /\ e.gate = entry[d].gate /\ e.bad = entry[d].bad
                   /\ e.ver = entry[d].ver /\ e.n = entry[d].n /\ e.blocked = entry[d].blocked
                   /\ e.users = {}
                   /\ entry[d] = NoEntry => e = NoEntry
    <3>1. entry[d] \in EntryType
      BY DEF ServiceInv, Shaped
    <3>2. entry[d] = NoEntry => [entry[d] EXCEPT !.users = {}] = NoEntry
      BY DEF NoEntry
    <3> QED
      BY <3>1, <3>2 DEF EntryType
  <2> QED
    BY <1>0, <2>1
<1>4. Present' = Present /\ \A d \in Connectors : Connection(d)' = Connection(d)
  BY <1>3 DEF Present, Connection
<1>5. \A a \in Agents : /\ Backend(a)' = Backend(a) /\ Backend(a)[1] = a
                        /\ \A o \in live : o[1] = a => o \in live' /\ (o \in left' <=> o \in left)
                        /\ Backend(a) \in left' <=> Backend(a) \in left
  <2>1. \A c \in Present : Connection(c)[1] = c /\ c \notin Agents
    BY ServiceAssumption DEF Connection, Present
  <2>2. \A a \in Agents : Backend(a)' = Backend(a) /\ Backend(a)[1] = a
    BY <1>0 DEF Backend
  <2> QED
    BY <1>2, <2>1, <2>2
<1>6. \A c \in Connectors : Away(c)'
  <2>1. ASSUME NEW c \in Connectors, NEW o \in live', o[1] = c, o \notin left'
        PROVE  FALSE
    <3>1. o \in live \ left
      BY <1>2, <2>1
    <3>2. c \in Present /\ o = Connection(c)
      BY <2>1, <3>1 DEF ServiceInv, Connections
    <3> QED
      BY <1>2, <2>1, <3>2
  <2> QED
    BY <1>3, <2>1 DEF Away
<1>7. Shaped'
  <2>1. \A d \in Connectors : /\ entry'[d].gate = "none" => entry'[d] = NoEntry
                              /\ entry'[d].gate # "none" => entry'[d].ver # 0
    BY <1>3 DEF ServiceInv, Shaped
  <2>2. TypeOK'
    BY <1>0, <1>2, <1>3, <1>4 DEF ServiceInv, Shaped, TypeOK
  <2> QED
    BY <1>0, <1>3, <2>1, <2>2 DEF ServiceInv, Shaped, Phases, Resting, Ending
<1>8. Starts'
  BY <1>0, <1>3 DEF ServiceInv, Starts, Idle
<1>9. Work' /\ PlannedConnectors' /\ PlannedAgents'
  BY <1>0, <1>4 DEF ServiceInv, Work, PlannedConnectors, PlannedAgents, Planless, Before, After,
                    Applying, NoPlan
<1>10. Rounds'
  BY <1>0, <1>2, <1>3 DEF ServiceInv, Rounds, Before, After
<1>11. Backends'
  <2>1. ASSUME NEW a \in Agents, a \notin doubled PROVE OneBackend(a)'
    BY <1>0, <1>2, <1>5, <2>1 DEF ServiceInv, Backends, OneBackend
  <2> QED
    BY <1>0, <2>1 DEF ServiceInv, Backends
<1>12. Versions'
  BY <1>0, <1>5 DEF ServiceInv, Versions, Unsettled, Planless, After
<1>13. Served'
  <2>1. \A d \in Connectors : entry[d].gate # "open" /\ Idle(d)
    BY <1>0 DEF ServiceInv, Gated, Ending, Starts, Present
  <2>2. ~Busy'
    BY <1>0, <1>3, <2>1 DEF Busy, Idle
  <2> QED
    BY <1>0, <2>2 DEF Served, Stopped, Ending
<1>14. Connections'
  <2>1. plan.kept = {}
    BY <1>0 DEF NoPlan
  <2>2. \A o \in live' \ left' : o \in live \ left
    BY <1>2
  <2> QED
    BY <1>0, <1>4, <1>6, <2>1, <2>2 DEF ServiceInv, Connections, Resting
<1>15. Gated'
  BY <1>0, <1>3, <1>4 DEF ServiceInv, Gated, Before, After, Resting, Ending, NoPlan
<1>16. Users'
  BY <1>3 DEF Users
<1> QED
  BY <1>7, <1>8, <1>9, <1>10, <1>11, <1>12, <1>13, <1>14, <1>15, <1>16 DEF ServiceInv

\* What a step that only turns to another phase leaves alone.
LEMMA TurnKeeps ==
    ASSUME ServiceInv,
           UNCHANGED <<config, suspect, torn, doubled, runtimeVars, fleetVars>>
    PROVE  /\ Starts' /\ Present' = Present
           /\ \A a \in Agents : /\ Backend(a)' = Backend(a)
                                /\ Up(a)' <=> Up(a)
                                /\ Ready(a)' <=> Ready(a)
                                /\ Unsettled(a)' <=> Unsettled(a)
                                /\ Down(a)' <=> Down(a)
           /\ \A u : Sound(u)' <=> Sound(u)
           /\ \A c \in Connectors : /\ Connection(c)' = Connection(c)
                                    /\ Linked(c)' <=> Linked(c)
                                    /\ Away(c)' <=> Away(c)
                                    /\ Quiet(c)' <=> Quiet(c)
           /\ Busy' <=> Busy
<1> USE DEF runtimeVars, fleetVars
<1>1. Starts' /\ Present' = Present
  BY DEF ServiceInv, Starts, Idle, Present
<1>2. \A a \in Agents : /\ Backend(a)' = Backend(a)
                        /\ Up(a)' <=> Up(a)
                        /\ Ready(a)' <=> Ready(a)
                        /\ Unsettled(a)' <=> Unsettled(a)
                        /\ Down(a)' <=> Down(a)
  BY DEF Backend, Up, Ready, Unsettled, Down
<1>3. \A u : Sound(u)' <=> Sound(u)
  BY DEF Sound, Backend
<1>4. \A c \in Connectors : /\ Connection(c)' = Connection(c)
                            /\ Linked(c)' <=> Linked(c)
                            /\ Away(c)' <=> Away(c)
                            /\ Quiet(c)' <=> Quiet(c)
  BY DEF Connection, Linked, Away, Quiet, Idle
<1>5. Busy' <=> Busy
  BY DEF Busy, Idle
<1> QED
  BY <1>1, <1>2, <1>3, <1>4, <1>5

LEMMA ReadFileKeeps ==
    ASSUME ServiceInv, ReadFile
    PROVE  ServiceInv'
<1>0. /\ UNCHANGED <<config, todo, plan, round, suspect, ticking, torn, doubled>>
      /\ UNCHANGED <<inst, ver, unavailable, brokers, live, left>>
      /\ UNCHANGED <<entry, verb, recovering, stuck>>
      /\ pc = "idle" /\ pc' = "retrying" /\ cand' \in Configs /\ plan = NoPlan
      /\ round < MaxRounds
  BY DEF ReadFile, runtimeVars, fleetVars, ServiceInv, Shaped, Resting
<1>1. /\ Starts' /\ Present' = Present
      /\ \A a \in Agents : /\ Backend(a)' = Backend(a)
                           /\ Up(a)' <=> Up(a)
                           /\ Ready(a)' <=> Ready(a)
                           /\ Unsettled(a)' <=> Unsettled(a)
                           /\ Down(a)' <=> Down(a)
      /\ \A u : Sound(u)' <=> Sound(u)
      /\ \A c \in Connectors : /\ Connection(c)' = Connection(c)
                               /\ Linked(c)' <=> Linked(c)
                               /\ Away(c)' <=> Away(c)
                               /\ Quiet(c)' <=> Quiet(c)
      /\ Busy' <=> Busy
  BY <1>0, TurnKeeps DEF runtimeVars, fleetVars
<1>2. /\ plan.going = {} /\ plan.kept = {} /\ plan.conns = {} /\ plan.fresh = {}
      /\ plan.stopping = {} /\ plan.changed = {} /\ plan.started = {}
  BY <1>0 DEF NoPlan
<1>3. Shaped'
  <2>1. TypeOK'
    BY <1>0, <1>1 DEF ServiceInv, Shaped, TypeOK
  <2> QED
    BY <1>0, <2>1 DEF ServiceInv, Shaped, Phases, Resting, Ending
<1>4. Work' /\ PlannedConnectors' /\ PlannedAgents' /\ Rounds'
  BY <1>0, <1>1, <1>2
  DEF ServiceInv, Work, PlannedConnectors, PlannedAgents, Planless, Rounds, Before, After, Applying
<1>5. Backends' /\ Versions'
  BY <1>0, <1>1, <1>2 DEF ServiceInv, Backends, OneBackend, Versions, Planless, After
<1>6. Served'
  BY <1>0, <1>1, <1>2 DEF ServiceInv, Served, Stopped, Ending, Planless
<1>7. Connections'
  BY <1>0, <1>1, <1>2 DEF ServiceInv, Connections, Resting
<1>8. Gated'
  BY <1>0, <1>1, <1>2 DEF ServiceInv, Gated, Before, After, Resting, Ending
<1>9. Users'
  BY <1>0, <1>1, <1>2 DEF ServiceInv, Users, Unsettled
<1> QED
  BY <1>1, <1>3, <1>4, <1>5, <1>6, <1>7, <1>8, <1>9 DEF ServiceInv

\* What the plan of a candidate says of an agent and of a connector.
LEMMA PlanDecides ==
    ASSUME ServiceInv, cand \in Configs
    PROVE  LET p == PlanFor(cand)
           IN  /\ p \in PlanType /\ p.started = {}
               /\ p.changed \subseteq p.fresh \cap p.stopping
               /\ \A a \in p.fresh : cand[a] # 0
               /\ \A a \in p.fresh \ p.stopping : config[a] = 0 /\ a \notin suspect
               /\ \A a \in p.stopping \ p.fresh : cand[a] = 0 /\ config[a] # 0
               /\ \A a \in Agents \ (p.fresh \cup p.stopping) :
                      cand[a] = config[a] /\ (a \in suspect \cup unavailable => cand[a] = 0)
               /\ p.going \cap p.kept = {} /\ p.conns \cap p.kept = {}
               /\ p.going \cup p.kept = Present
               /\ \A c \in p.kept : cand[c] # 0 /\ cand[c] = config[c] /\ ~entry[c].bad
               /\ \A c \in p.conns : cand[c] # 0
<1> DEFINE changing == Changed(cand) \cup Retried(cand)
           p == PlanFor(cand)
<1>1. /\ p.going = Replacing(cand) /\ p.kept = Present \ Replacing(cand)
      /\ p.conns = (changing \cup Added(cand)) \cap Connectors
      /\ p.fresh = (changing \cup Added(cand)) \cap Agents
      /\ p.stopping = (changing \cup Removed(cand)) \cap Agents
      /\ p.changed = changing \cap Agents /\ p.started = {}
      /\ p \in PlanType
  <2>1. Replacing(cand) \subseteq Connectors /\ Present \subseteq Connectors
    BY DEF Replacing, Present
  <2> QED
    BY <2>1 DEF PlanFor, NoPlan, PlanType
<1>2. config \in [Names -> 0 .. MaxVersion] /\ cand \in [Names -> 0 .. MaxVersion]
  BY DEF ServiceInv, Shaped, TypeOK, Configs
<1>3. Agents \subseteq Names /\ Connectors \subseteq Names
  BY DEF Names
<1>4. ASSUME NEW k \in Names
      PROVE  /\ k \in Changed(cand) <=> config[k] # 0 /\ cand[k] # 0 /\ cand[k] # config[k]
             /\ k \in Removed(cand) <=> config[k] # 0 /\ cand[k] = 0
             /\ k \in Added(cand) <=> config[k] = 0 /\ cand[k] # 0
  BY DEF Changed, Removed, Added
<1>5. ASSUME NEW k \in Agents
      PROVE  k \in Retried(cand) <=> k \in suspect \cup unavailable /\ cand[k] # 0
  BY ServiceAssumption DEF Retried
<1>6. ASSUME NEW k \in Connectors
      PROVE  k \in Retried(cand) <=> entry[k].bad /\ cand[k] # 0
  <2>1. k \notin suspect \cup unavailable
    BY ServiceAssumption DEF ServiceInv, Shaped, TypeOK
  <2> QED
    BY <2>1 DEF Retried
<1>7. ASSUME NEW a \in Agents
      PROVE  /\ a \in p.fresh => cand[a] # 0
             /\ a \in p.fresh \ p.stopping => config[a] = 0 /\ a \notin suspect
             /\ a \in p.stopping \ p.fresh => cand[a] = 0 /\ config[a] # 0
             /\ a \notin p.fresh \cup p.stopping =>
                    cand[a] = config[a] /\ (a \in suspect \cup unavailable => cand[a] = 0)
  <2>1. a \in p.fresh <=> a \in changing \cup Added(cand)
    BY <1>1
  <2>2. a \in p.stopping <=> a \in changing \cup Removed(cand)
    BY <1>1
  <2> QED
    BY <1>3, <1>4, <1>5, <2>1, <2>2
<1>8. ASSUME NEW c \in Connectors
      PROVE  /\ c \in p.kept => cand[c] # 0 /\ cand[c] = config[c] /\ ~entry[c].bad
                                /\ c \notin p.conns
             /\ c \in p.conns => cand[c] # 0
  <2>1. c \in p.kept <=> /\ c \in Present /\ cand[c] # 0
                         /\ c \notin Changed(cand) \cup Retried(cand) \cup Added(cand)
    BY <1>1 DEF Replacing
  <2>2. c \in p.conns <=> c \in Changed(cand) \cup Retried(cand) \cup Added(cand)
    BY <1>1
  <2> QED
    BY <1>3, <1>4, <1>6, <2>1, <2>2
<1>9. p.fresh \subseteq Agents /\ p.stopping \subseteq Agents /\ p.kept \subseteq Connectors
      /\ p.conns \subseteq Connectors /\ p.going \cup p.kept = Present /\ p.going \cap p.kept = {}
      /\ p.changed \subseteq p.fresh \cap p.stopping
  <2>1. Replacing(cand) \subseteq Present
    BY DEF Replacing
  <2> QED
    BY <1>1, <2>1 DEF PlanType
<1> HIDE DEF p
<1>10. /\ \A a \in p.fresh : cand[a] # 0
       /\ \A a \in p.fresh \ p.stopping : config[a] = 0 /\ a \notin suspect
       /\ \A a \in p.stopping \ p.fresh : cand[a] = 0 /\ config[a] # 0
  BY <1>7, <1>9
<1>11. /\ \A c \in p.kept : cand[c] # 0 /\ cand[c] = config[c] /\ ~entry[c].bad
       /\ \A c \in p.conns : cand[c] # 0
       /\ p.conns \cap p.kept = {}
  BY <1>8, <1>9
<1>12. /\ p \in PlanType /\ p.started = {} /\ p.changed \subseteq p.fresh \cap p.stopping
       /\ \A a \in p.fresh : cand[a] # 0
       /\ \A a \in p.fresh \ p.stopping : config[a] = 0 /\ a \notin suspect
       /\ \A a \in p.stopping \ p.fresh : cand[a] = 0 /\ config[a] # 0
       /\ \A a \in Agents \ (p.fresh \cup p.stopping) :
              cand[a] = config[a] /\ (a \in suspect \cup unavailable => cand[a] = 0)
       /\ p.going \cap p.kept = {} /\ p.conns \cap p.kept = {}
       /\ p.going \cup p.kept = Present
       /\ \A c \in p.kept : cand[c] # 0 /\ cand[c] = config[c] /\ ~entry[c].bad
       /\ \A c \in p.conns : cand[c] # 0
  BY <1>1, <1>7, <1>9, <1>10, <1>11
<1> QED
  BY <1>12 DEF p

LEMMA DecideKeeps ==
    ASSUME ServiceInv, Decide
    PROVE  ServiceInv'
<1>0. /\ UNCHANGED <<config, suspect, torn, doubled, inst, ver, unavailable, brokers>>
      /\ UNCHANGED <<entry, verb, recovering, stuck>>
      /\ pc = "retrying" /\ plan = NoPlan /\ ticking
  BY DEF Decide, fleetVars, ServiceInv, Shaped, Resting
<1>1. \E gone \in SUBSET left : live' = live \ gone /\ left' = left \ gone
  BY DEF Decide
<1>2. /\ live' \ left' = live \ left /\ live' \subseteq live /\ left' \subseteq left
      /\ \A o \in live' : o \in left => o \in left'
  BY <1>1
<1>3. \/ pc' = "idle" /\ cand' = config /\ UNCHANGED <<todo, plan, round, ticking>>
      \/ /\ UNCHANGED cand /\ plan' = PlanFor(cand) /\ round' = round + 1
         /\ pc' = "stilling" /\ todo' = Present
  BY DEF Decide
<1>4. /\ Present' = Present
      /\ \A a \in Agents : /\ Backend(a)' = Backend(a)
                           /\ Up(a)' <=> Up(a)
                           /\ Ready(a)' <=> Ready(a)
                           /\ Unsettled(a)' <=> Unsettled(a)
      /\ \A u : Sound(u)' <=> Sound(u)
      /\ \A c \in Connectors : /\ Connection(c)' = Connection(c)
                               /\ Linked(c)' <=> Linked(c)
      /\ Busy' <=> Busy
  <2>1. \A a \in Agents : /\ Backend(a)' = Backend(a)
                          /\ Up(a)' <=> Up(a)
                          /\ Unsettled(a)' <=> Unsettled(a)
    BY <1>0, <1>2 DEF Backend, Up, Unsettled
  <2>2. \A a \in Agents : Ready(a)' <=> Ready(a)
    BY <1>0, <2>1 DEF Ready
  <2>3. \A u : Sound(u)' <=> Sound(u)
    BY <1>0, <1>2 DEF Sound, Backend
  <2>4. \A c \in Connectors : /\ Connection(c)' = Connection(c)
                              /\ Linked(c)' <=> Linked(c)
    BY <1>0, <1>2 DEF Connection, Linked
  <2>5. Present' = Present /\ (Busy' <=> Busy)
    BY <1>0 DEF Present, Busy, Idle
  <2> QED
    BY <2>1, <2>2, <2>3, <2>4, <2>5
<1>5. Starts'
  BY <1>0 DEF ServiceInv, Starts, Idle
<1>6. /\ \A a \in Agents : a \notin doubled =>
             /\ brokers[a] <= 1 /\ (inst[a] = 0 => brokers[a] = 0)
             /\ a \in unavailable => brokers[a] = 0
             /\ \A o \in live' \ left' : o[1] = a => o = Backend(a)'
      /\ \A a \in Agents : (inst[a] = 0 <=> ver[a] = 0) /\ (a \in unavailable => inst[a] # 0)
      /\ \A a \in Agents : Ready(a) /\ (Backend(a) \in left => Unsettled(a))
      /\ \A a \in Agents : (a \in suspect /\ config[a] = 0 => a \in torn)
                           /\ (~Unsettled(a) => ver[a] = config[a])
      /\ \A a \in Agents : Backend(a) \in left' => Unsettled(a)
  <2>1. \A a \in Agents : a \notin doubled =>
             /\ brokers[a] <= 1 /\ (inst[a] = 0 => brokers[a] = 0)
             /\ a \in unavailable => brokers[a] = 0
             /\ \A o \in live' \ left' : o[1] = a => o = Backend(a)'
    BY <1>2, <1>4 DEF ServiceInv, Backends, OneBackend
  <2>2. \A a \in Agents : (inst[a] = 0 <=> ver[a] = 0) /\ (a \in unavailable => inst[a] # 0)
    BY DEF ServiceInv, Backends
  <2>3. \A a \in Agents : Ready(a) /\ (Backend(a) \in left => Unsettled(a))
    BY <1>0 DEF ServiceInv, Served, Stopped, Versions
  <2>4. \A a \in Agents : (a \in suspect /\ config[a] = 0 => a \in torn)
                           /\ (~Unsettled(a) => ver[a] = config[a])
    BY <1>0 DEF ServiceInv, Versions, After
  <2> QED
    BY <1>2, <2>1, <2>2, <2>3, <2>4
<1>7. CASE pc' = "idle" /\ cand' = config /\ UNCHANGED <<todo, plan, round, ticking>>
  <2>1. /\ plan.going = {} /\ plan.kept = {} /\ plan.conns = {} /\ plan.fresh = {}
        /\ plan.stopping = {} /\ plan.changed = {} /\ plan.started = {}
    BY <1>0 DEF NoPlan
  <2>2. Shaped'
    <3>1. TypeOK'
      BY <1>0, <1>2, <1>4, <1>7 DEF ServiceInv, Shaped, TypeOK
    <3> QED
      BY <1>0, <1>7, <3>1 DEF ServiceInv, Shaped, Phases, Resting, Ending
  <2>3. Work' /\ PlannedConnectors' /\ PlannedAgents' /\ Rounds'
    BY <1>0, <1>2, <1>4, <1>7, <2>1
    DEF ServiceInv, Work, PlannedConnectors, PlannedAgents, Planless, Rounds, Before, After, Applying
  <2>4. Backends' /\ Versions'
    BY <1>0, <1>4, <1>6, <1>7, <2>1 DEF Backends, OneBackend, Versions, After
  <2>5. Served'
    BY <1>0, <1>2, <1>4, <1>6, <1>7, <2>1 DEF Served, Stopped
  <2>6. Connections'
    BY <1>0, <1>2, <1>4, <1>7, <2>1 DEF ServiceInv, Connections, Resting
  <2>7. Gated'
    BY <1>0, <1>4, <1>7, <2>1 DEF ServiceInv, Gated, Before, After, Resting, Ending
  <2>8. Users'
    BY <1>0, <1>4, <1>7, <2>1 DEF ServiceInv, Users, Unsettled
  <2> QED
    BY <1>5, <2>2, <2>3, <2>4, <2>5, <2>6, <2>7, <2>8 DEF ServiceInv
<1>8. CASE /\ UNCHANGED cand /\ plan' = PlanFor(cand) /\ round' = round + 1
           /\ pc' = "stilling" /\ todo' = Present
  <2>1. /\ plan' \in PlanType /\ plan'.started = {}
        /\ plan'.changed \subseteq plan'.fresh \cap plan'.stopping
        /\ \A a \in plan'.fresh : cand[a] # 0
        /\ \A a \in plan'.fresh \ plan'.stopping : config[a] = 0 /\ a \notin suspect
        /\ \A a \in plan'.stopping \ plan'.fresh : cand[a] = 0 /\ config[a] # 0
        /\ \A a \in Agents \ (plan'.fresh \cup plan'.stopping) :
               cand[a] = config[a] /\ (a \in suspect \cup unavailable => cand[a] = 0)
        /\ plan'.going \cap plan'.kept = {} /\ plan'.conns \cap plan'.kept = {}
        /\ plan'.going \cup plan'.kept = Present
        /\ \A c \in plan'.kept : cand[c] # 0 /\ cand[c] = config[c] /\ ~entry[c].bad
        /\ \A c \in plan'.conns : cand[c] # 0
    <3>1. cand \in Configs
      BY DEF ServiceInv, Shaped, TypeOK
    <3> QED
      BY <1>8, <3>1, PlanDecides
  <2>2. round \in 1 .. MaxRounds /\ round' \in 1 .. MaxRounds /\ round < round'
    BY <1>0, <1>8, ServiceAssumption DEF ServiceInv, Shaped, TypeOK
  <2>3. Shaped'
    <3>0. ticking' \in BOOLEAN
      BY <1>0, <1>8 DEF Decide, ServiceInv, Shaped, TypeOK
    <3>1. TypeOK'
      BY <1>0, <1>2, <1>4, <1>8, <2>2, <3>0 DEF ServiceInv, Shaped, TypeOK
    <3> QED
      BY <1>0, <1>8, <2>1, <3>1 DEF ServiceInv, Shaped, Phases, Before, Resting, Ending
  <2>4. Work' /\ PlannedConnectors'
    BY <1>0, <1>4, <1>8, <2>1 DEF Work, PlannedConnectors, After
  <2>5. PlannedAgents'
    BY <1>0, <1>8, <2>1 DEF PlannedAgents, Planless
  <2>6. Rounds'
    <3>1. \A o \in live' \cup left' : o \in live \cup left
      BY <1>2
    <3>2. \A o \in live \cup left : o[2] \in Int
      BY DEF ServiceInv, Shaped, TypeOK, Objects
    <3>3. \A o \in live' \cup left' : o[2] <= round' /\ o[2] < round'
      BY <2>2, <3>1, <3>2 DEF ServiceInv, Rounds
    <3>4. \A a \in Agents : inst[a] <= round' /\ inst[a] < round'
      BY <2>2 DEF ServiceInv, Rounds, Shaped, TypeOK
    <3>5. \A c \in Connectors : entry[c].n <= round'
      BY <2>2 DEF ServiceInv, Rounds, Shaped, EntryType
    <3> QED
      BY <1>0, <1>8, <3>3, <3>4, <3>5 DEF Rounds, After
  <2>7. Backends' /\ Versions'
    BY <1>0, <1>4, <1>6, <1>8 DEF Backends, OneBackend, Versions, After
  <2>8. Served'
    BY <1>0, <1>2, <1>4, <1>6, <1>8 DEF Served, Stopped
  <2>9. Connections'
    <3>1. \A c \in plan'.kept : c \in torn \/ Linked(c)
      BY <1>0, <2>1 DEF ServiceInv, Connections, Resting, Present
    <3> QED
      BY <1>0, <1>2, <1>4, <1>8, <3>1 DEF ServiceInv, Connections, Resting
  <2>10. Gated'
    <3>1. \A c \in plan'.kept : entry[c].gate = "open"
      BY <1>0, <2>1 DEF ServiceInv, Gated, Resting, Present
    <3> QED
      BY <1>0, <1>4, <1>8, <2>1, <3>1 DEF ServiceInv, Gated, Before, After, Resting, Ending
  <2>11. Users'
    BY <1>0, <1>4, <1>8 DEF ServiceInv, Users, Unsettled
  <2> QED
    BY <1>5, <2>3, <2>4, <2>5, <2>6, <2>7, <2>8, <2>9, <2>10, <2>11 DEF ServiceInv
<1> QED
  BY <1>3, <1>7, <1>8

LEMMA NextPhaseKeeps ==
    ASSUME ServiceInv, NextPhase
    PROVE  ServiceInv'
<1>0. /\ UNCHANGED <<config, cand, round, suspect, ticking, torn, doubled>>
      /\ UNCHANGED <<inst, ver, unavailable, brokers, live, left>>
      /\ UNCHANGED <<entry, verb, recovering, stuck>> /\ todo = {}
  BY DEF NextPhase, Turn, runtimeVars, fleetVars
<1>1. /\ Starts' /\ Present' = Present
      /\ \A a \in Agents : /\ Backend(a)' = Backend(a)
                           /\ Up(a)' <=> Up(a)
                           /\ Ready(a)' <=> Ready(a)
                           /\ Unsettled(a)' <=> Unsettled(a)
                           /\ Down(a)' <=> Down(a)
      /\ \A u : Sound(u)' <=> Sound(u)
      /\ \A c \in Connectors : /\ Connection(c)' = Connection(c)
                               /\ Linked(c)' <=> Linked(c)
                               /\ Away(c)' <=> Away(c)
                               /\ Quiet(c)' <=> Quiet(c)
      /\ Busy' <=> Busy
  BY <1>0, TurnKeeps DEF runtimeVars, fleetVars
<1>2. \/ /\ pc = "stilling" /\ pc' = "closing" /\ todo' = plan.going /\ plan' = plan
      \/ /\ pc = "closing" /\ pc' = "draining" /\ plan' = plan
         /\ todo' = IF plan.stopping = {} THEN {} ELSE plan.kept
      \/ /\ pc = "arming" /\ pc' = "connecting" /\ todo' = plan.conns /\ plan' = plan
      \/ /\ pc = "connecting" /\ pc' = "resuming" /\ todo' = plan.kept
         /\ plan' = [plan EXCEPT !.started = {c \in plan.conns : ~entry[c].bad}]
  BY DEF NextPhase, Turn
<1>3. /\ plan' \in PlanType
      /\ plan'.going = plan.going /\ plan'.kept = plan.kept /\ plan'.conns = plan.conns
      /\ plan'.fresh = plan.fresh /\ plan'.stopping = plan.stopping
      /\ plan'.changed = plan.changed
      /\ plan'.started = plan.started
         \/ (pc' = "resuming" /\ plan'.started = {c \in plan.conns : ~entry[c].bad})
  <2>1. plan \in PlanType
    BY DEF ServiceInv, Shaped
  <2> QED
    BY <1>2, <2>1 DEF PlanType
<1>4. /\ plan.started = {} /\ pc \in {"stilling", "closing", "arming", "connecting"}
      /\ pc' \in {"closing", "draining", "connecting", "resuming"}
      /\ pc' \in Before <=> pc \in Before
      /\ pc' \in After <=> pc \in After
      /\ todo' \subseteq Present
  BY <1>2 DEF ServiceInv, PlannedConnectors, Before, After
<1>5. Shaped'
  <2>1. TypeOK'
    BY <1>0, <1>1, <1>4 DEF ServiceInv, Shaped, TypeOK
  <2> QED
    BY <1>0, <1>3, <1>4, <2>1 DEF ServiceInv, Shaped, Phases, Before, After, Resting, Ending
<1>6. Work' /\ PlannedConnectors' /\ PlannedAgents' /\ Rounds'
  <2>1. Work'
    BY <1>2, <1>3 DEF Work
  <2>2. PlannedConnectors'
    BY <1>0, <1>1, <1>3, <1>4 DEF ServiceInv, PlannedConnectors
  <2>3. PlannedAgents'
    BY <1>0, <1>3, <1>4 DEF ServiceInv, PlannedAgents, Planless, Applying
  <2>4. Rounds'
    BY <1>0, <1>3, <1>4 DEF ServiceInv, Rounds
  <2> QED
    BY <2>1, <2>2, <2>3, <2>4
<1>7. Backends' /\ Versions'
  BY <1>0, <1>1, <1>3, <1>4 DEF ServiceInv, Backends, OneBackend, Versions, Planless
<1>8. Served'
  <2>1. plan.fresh \subseteq Agents
    BY DEF ServiceInv, Shaped, PlanType
  <2>2. \A a \in Agents : Planless(a)' <=> Planless(a)
    BY <1>3 DEF Planless
  <2> QED
    BY <1>0, <1>1, <1>2, <1>3, <1>4, <2>1, <2>2 DEF ServiceInv, Served, Stopped, Ending
<1>9. Connections'
  <2>1. plan.conns \subseteq Connectors
    BY DEF ServiceInv, Shaped, PlanType
  <2> QED
    BY <1>0, <1>1, <1>2, <1>3, <2>1 DEF ServiceInv, Connections, Resting
<1>10. Gated'
  <2>1. ASSUME NEW c \in Connectors
        PROVE  /\ pc' \in Resting /\ c \in Present /\ ~entry[c].bad => entry[c].gate = "open"
               /\ pc' = "stilling" /\ c \in Present \ todo' => Quiet(c)
               /\ pc' \in Before \ {"stilling"} /\ c \in Present => Quiet(c)
               /\ pc' \in {"starting", "arming"} /\ c \in plan.conns =>
                      entry[c].gate = "new" /\ ~entry[c].bad
               /\ pc' \in After /\ c \in plan.conns => entry[c].ver = cand[c]
               /\ pc' = "arming" /\ c \in plan.kept \ todo' => entry[c].gate = "open"
    BY <1>0, <1>2, <1>4 DEF ServiceInv, Gated, Before, After, Resting
  <2>2. ASSUME NEW c \in Connectors
        PROVE  /\ pc' \in {"connecting", "resuming"} /\ c \in plan.kept => entry[c].gate = "open"
               /\ pc' \in {"connecting", "resuming"} /\ c \in plan.conns =>
                      IF c \in todo' THEN ~entry[c].bad ELSE entry[c].bad \/ entry[c].gate = "open"
               /\ c \in plan'.started => entry[c].bad \/ entry[c].gate = "open"
    <3>1. plan.conns \cap plan.kept = {}
      BY DEF ServiceInv, PlannedConnectors
    <3> QED
      BY <1>0, <1>2, <1>3, <1>4, <3>1 DEF ServiceInv, Gated
  <2> QED
    BY <1>0, <1>1, <1>3, <1>4, <2>1, <2>2 DEF ServiceInv, Gated, Ending
<1>11. Users'
  <2>1. ASSUME NEW c \in Connectors, NEW u \in entry[c].users, <<c, u>> \notin stuck
        PROVE  /\ Sound(u) \/ Unsettled(u[1])
               /\ pc' = "draining" => c \in todo' \/ u[1] \notin plan.stopping
               /\ pc' \in {"connecting", "resuming"} /\ u[1] \in plan.stopping => Sound(u)
    <3>1. /\ Sound(u) \/ Unsettled(u[1])
          /\ pc' \in {"connecting", "resuming"} /\ u[1] \in plan.stopping => Sound(u)
      BY <1>2, <2>1 DEF ServiceInv, Users
    <3>2. ASSUME pc' = "draining" PROVE c \in todo' \/ u[1] \notin plan.stopping
      <4>1. c \in Present /\ pc = "closing"
        BY <1>2, <2>1, <3>2 DEF ServiceInv, Shaped, Present, NoEntry
      <4>2. c \notin plan.going
        BY <1>0, <2>1, <4>1 DEF ServiceInv, Connections, Away
      <4>3. c \in plan.kept
        BY <4>1, <4>2 DEF ServiceInv, PlannedConnectors, Before
      <4> QED
        BY <1>2, <3>2, <4>3
    <3> QED
      BY <3>1, <3>2
  <2>2. \A u : Unsettled(u[1])' <=> Unsettled(u[1])
    BY <1>0 DEF Unsettled
  <2> QED
    BY <1>0, <1>1, <1>3, <1>4, <2>1, <2>2 DEF Users
<1> QED
  BY <1>1, <1>5, <1>6, <1>7, <1>8, <1>9, <1>10, <1>11 DEF ServiceInv

LEMMA BreakKeeps ==
    ASSUME ServiceInv, Break
    PROVE  ServiceInv'
<1>0. /\ UNCHANGED <<config, cand, todo, plan, round, suspect, ticking, torn, doubled>>
      /\ UNCHANGED <<inst, ver, unavailable, brokers, live, left>>
      /\ UNCHANGED <<entry, verb, recovering, stuck>>
      /\ pc \in Before \cup After /\ pc \in Applying /\ pc' = "broken"
  BY DEF Break, Applying, Before, After, runtimeVars, fleetVars
<1>1. /\ Starts' /\ Present' = Present
      /\ \A a \in Agents : /\ Backend(a)' = Backend(a)
                           /\ Up(a)' <=> Up(a)
                           /\ Ready(a)' <=> Ready(a)
                           /\ Unsettled(a)' <=> Unsettled(a)
                           /\ Down(a)' <=> Down(a)
      /\ \A u : Sound(u)' <=> Sound(u)
      /\ \A c \in Connectors : /\ Connection(c)' = Connection(c)
                               /\ Linked(c)' <=> Linked(c)
                               /\ Away(c)' <=> Away(c)
                               /\ Quiet(c)' <=> Quiet(c)
      /\ Busy' <=> Busy
  BY <1>0, TurnKeeps DEF runtimeVars, fleetVars
<1>2. pc \notin Ending \cup Resting \cup {"broken"} /\ pc' \notin Before \cup After \cup Resting \cup Ending
  BY <1>0 DEF Before, After, Resting, Ending
<1>3. Shaped'
  <2>1. TypeOK'
    BY <1>0, <1>1 DEF ServiceInv, Shaped, TypeOK
  <2> QED
    BY <1>0, <1>2, <2>1 DEF ServiceInv, Shaped, Phases, Resting
<1>4. Work' /\ PlannedConnectors' /\ PlannedAgents' /\ Rounds'
  <2>1. Work' /\ PlannedConnectors'
    BY <1>0, <1>1, <1>2 DEF ServiceInv, Work, PlannedConnectors
  <2>2. PlannedAgents' /\ Rounds'
    BY <1>0, <1>2 DEF ServiceInv, PlannedAgents, Planless, Rounds
  <2> QED
    BY <2>1, <2>2
<1>5. Backends' /\ Versions'
  <2>1. Backends'
    BY <1>0, <1>1 DEF ServiceInv, Backends, OneBackend
  <2>2. Versions'
    BY <1>0, <1>1, <1>2 DEF ServiceInv, Versions, Planless, Ending
  <2> QED
    BY <2>1, <2>2
<1>6. Served'
  BY <1>0, <1>1, <1>2 DEF ServiceInv, Served, Stopped, Ending, Planless
<1>7. Connections'
  BY <1>0, <1>1, <1>2 DEF ServiceInv, Connections
<1>8. Gated'
  BY <1>0, <1>1, <1>2 DEF ServiceInv, Gated
<1>9. Users'
  BY <1>0, <1>1 DEF ServiceInv, Users, Unsettled
<1> QED
  BY <1>1, <1>3, <1>4, <1>5, <1>6, <1>7, <1>8, <1>9 DEF ServiceInv

LEMMA ShutdownKeeps ==
    ASSUME ServiceInv, Shutdown
    PROVE  ServiceInv'
<1>0. /\ UNCHANGED <<config, cand, todo, plan, round, suspect, torn, doubled>>
      /\ UNCHANGED <<inst, ver, unavailable, brokers, live, left, verb, recovering, stuck>>
      /\ pc = "idle" /\ pc' = "ending" /\ ticking' = FALSE /\ plan = NoPlan
      /\ entry' = [c \in Connectors |-> IF c \in Present THEN [entry[c] EXCEPT !.gate = "closed"]
                                        ELSE entry[c]]
  BY DEF Shutdown, runtimeVars, ServiceInv, Shaped, Resting
<1>1. /\ entry' \in [Connectors -> EntryType]
      /\ \A d \in Connectors :
             /\ entry'[d].gate = (IF d \in Present THEN "closed" ELSE entry[d].gate)
             /\ entry'[d].bad = entry[d].bad /\ entry'[d].ver = entry[d].ver
             /\ entry'[d].n = entry[d].n /\ entry'[d].users = entry[d].users
             /\ d \notin Present => entry'[d] = entry[d]
  <2>1. ASSUME NEW d \in Connectors
        PROVE  LET e == [entry[d] EXCEPT !.gate = "closed"]
               IN  /\ e \in EntryType /\ e.gate = "closed" /\ e.bad = entry[d].bad
                   /\ e.ver = entry[d].ver /\ e.n = entry[d].n /\ e.users = entry[d].users
    <3>1. entry[d] \in EntryType
      BY DEF ServiceInv, Shaped
    <3> QED
      BY <3>1 DEF EntryType, Gates
  <2>2. entry \in [Connectors -> EntryType]
    BY DEF ServiceInv, Shaped
  <2> QED
    BY <1>0, <2>1, <2>2
<1>2. /\ Present' = Present
      /\ \A d \in Connectors : entry'[d].gate \in {"none", "closed"}
  BY <1>1 DEF Present
<1>3. /\ \A a \in Agents : /\ Backend(a)' = Backend(a)
                           /\ Up(a)' <=> Up(a)
                           /\ Unsettled(a)' <=> Unsettled(a)
      /\ \A u : Sound(u)' <=> Sound(u)
      /\ \A c \in Connectors : Connection(c)' = Connection(c)
  BY <1>0, <1>1 DEF Backend, Up, Unsettled, Sound, Connection
<1>4. /\ plan.going = {} /\ plan.kept = {} /\ plan.conns = {} /\ plan.fresh = {}
      /\ plan.stopping = {} /\ plan.changed = {} /\ plan.started = {}
  BY <1>0 DEF NoPlan
<1>5. Shaped'
  <2>1. \A d \in Connectors : /\ entry'[d].gate = "none" => entry'[d] = NoEntry
                              /\ entry'[d].gate # "none" => entry'[d].ver # 0
    BY <1>1 DEF ServiceInv, Shaped, Present
  <2>2. TypeOK'
    BY <1>0, <1>1, <1>2 DEF ServiceInv, Shaped, TypeOK
  <2> QED
    BY <1>0, <1>1, <2>1, <2>2 DEF ServiceInv, Shaped, Phases, Resting, Ending
<1>6. Starts'
  BY <1>0, <1>1, <1>2 DEF ServiceInv, Starts, Idle, Present
<1>7. Work' /\ PlannedConnectors' /\ PlannedAgents' /\ Rounds'
  <2>1. Work' /\ PlannedConnectors' /\ PlannedAgents'
    BY <1>0, <1>2, <1>4
    DEF Work, PlannedConnectors, PlannedAgents, Planless, Before, After, Applying
  <2>2. Rounds'
    BY <1>0, <1>1, <1>4 DEF ServiceInv, Rounds, Before, After
  <2> QED
    BY <2>1, <2>2
<1>8. Backends' /\ Versions'
  BY <1>0, <1>3, <1>4 DEF ServiceInv, Backends, OneBackend, Versions, Planless, After
<1>9. Served'
  <2>1. \A a \in Agents : Ready(a) /\ (Backend(a) \in left => Unsettled(a))
    BY <1>0 DEF ServiceInv, Served, Versions, Stopped
  <2>2. \A a \in Agents : Ready(a)'
    BY <1>0, <1>3, <2>1 DEF Ready
  <2> QED
    BY <1>0, <1>3, <1>4, <2>1, <2>2 DEF Served, Stopped, Ending
<1>10. Connections'
  BY <1>0, <1>2, <1>3, <1>4 DEF ServiceInv, Connections, Resting
<1>11. Gated'
  BY <1>0, <1>2, <1>4 DEF Gated, Before, After, Resting
<1>12. Users'
  BY <1>0, <1>1, <1>3 DEF ServiceInv, Users, Unsettled
<1> QED
  BY <1>5, <1>6, <1>7, <1>8, <1>9, <1>10, <1>11, <1>12 DEF ServiceInv

LEMMA SettleKeeps ==
    ASSUME ServiceInv, SettleAfterFailedApply
    PROVE  ServiceInv'
<1>0. /\ UNCHANGED <<config, round, doubled, inst, ver, unavailable, brokers, live, left>>
      /\ UNCHANGED <<verb, recovering, stuck>>
      /\ pc = "broken" /\ pc' = "idle" /\ todo' = {} /\ plan' = NoPlan /\ cand' = config
      /\ ticking' = TRUE /\ suspect' = suspect \cup plan.fresh
      /\ torn' = torn \cup Removed(cand) \cup (Added(cand) \cap Agents) \cup plan.started
  BY DEF SettleAfterFailedApply, runtimeVars
<1>1. /\ plan.fresh \subseteq Agents /\ plan.stopping \subseteq Agents
      /\ plan.started \subseteq Connectors
      /\ round \in 1 .. MaxRounds
      /\ cand \in [Names -> 0 .. MaxVersion] /\ config \in [Names -> 0 .. MaxVersion]
      /\ Agents \subseteq Names /\ Connectors \subseteq Names
  BY DEF ServiceInv, Shaped, PlanType, TypeOK, Configs, Names
<1>2. /\ plan'.going = {} /\ plan'.kept = {} /\ plan'.conns = {} /\ plan'.fresh = {}
      /\ plan'.stopping = {} /\ plan'.changed = {} /\ plan'.started = {} /\ plan' \in PlanType
  BY <1>0 DEF NoPlan, PlanType
\* What the apply touched is known to be unsettled.
<1>3. /\ \A a \in Agents : ~Planless(a) => Unsettled(a)'
      /\ \A a \in Agents : Unsettled(a) => Unsettled(a)'
      /\ \A a \in Agents : a \in suspect' /\ config[a] = 0 => a \in torn'
  <2>1. ASSUME NEW a \in Agents, a \in plan.fresh
        PROVE  a \in suspect' /\ (config[a] = 0 => a \in torn')
    <3>1. cand[a] # 0
      BY <2>1 DEF ServiceInv, PlannedAgents
    <3> QED
      BY <1>0, <1>1, <2>1, <3>1 DEF Added
  <2>2. ASSUME NEW a \in Agents, a \in plan.stopping \ plan.fresh
        PROVE  a \in torn'
    <3>1. cand[a] = 0 /\ config[a] # 0
      BY <2>2 DEF ServiceInv, PlannedAgents
    <3> QED
      BY <1>0, <1>1, <3>1 DEF Removed
  <2>3. \A a \in suspect : a \in Agents /\ config[a] = 0 => a \in torn'
    BY <1>0 DEF ServiceInv, Versions
  <2> QED
    BY <1>0, <2>1, <2>2, <2>3 DEF Planless, Unsettled
<1>4. /\ entry' \in [Connectors -> EntryType]
      /\ \A c \in Connectors :
             \/ c \notin Present /\ cand[c] = 0 /\ entry'[c] = NoEntry
             \/ /\ c \notin Present /\ cand[c] # 0 /\ entry'[c].gate = "closed"
                /\ entry'[c].bad /\ entry'[c].ver = cand[c] /\ entry'[c].n = round
                /\ entry'[c].users = {}
             \/ /\ c \in Present /\ entry'[c].ver = entry[c].ver /\ entry'[c].n = entry[c].n
                /\ entry'[c].users = entry[c].users /\ entry'[c].blocked = entry[c].blocked
                /\ ~entry'[c].bad => ~entry[c].bad /\ c \in plan.started
                /\ entry'[c].gate = IF c \in plan.kept THEN "open" ELSE entry[c].gate
  <2>1. ASSUME NEW c \in Connectors
        PROVE  LET e == [Entry("closed", cand[c], round) EXCEPT !.bad = TRUE]
               IN  /\ e \in EntryType /\ e.gate = "closed" /\ e.bad /\ e.ver = cand[c]
                   /\ e.n = round /\ e.users = {}
    <3>1. cand[c] \in 0 .. MaxVersion /\ round \in 0 .. MaxRounds
      BY <1>1
    <3> QED
      BY <3>1 DEF Entry, NoEntry, EntryType, Gates
  <2>2. ASSUME NEW c \in Connectors
        PROVE  LET e == [entry[c] EXCEPT !.bad = @ \/ c \notin plan.started,
                                         !.gate = IF c \in plan.kept THEN "open" ELSE @]
               IN  /\ e \in EntryType /\ e.ver = entry[c].ver /\ e.n = entry[c].n
                   /\ e.users = entry[c].users /\ e.blocked = entry[c].blocked
                   /\ ~e.bad => ~entry[c].bad /\ c \in plan.started
                   /\ e.gate = IF c \in plan.kept THEN "open" ELSE entry[c].gate
    <3>1. entry[c] \in EntryType
      BY DEF ServiceInv, Shaped
    <3> QED
      BY <3>1 DEF EntryType, Gates
  <2>3. NoEntry \in EntryType
    BY ServiceAssumption DEF NoEntry, EntryType, Gates
  <2>4. entry' = [c \in Connectors |->
                    IF c \notin Present
                    THEN IF cand[c] = 0 THEN NoEntry
                         ELSE [Entry("closed", cand[c], round) EXCEPT !.bad = TRUE]
                    ELSE [entry[c] EXCEPT !.bad = @ \/ c \notin plan.started,
                                          !.gate = IF c \in plan.kept THEN "open" ELSE @]]
    BY DEF SettleAfterFailedApply
  <2>5. ASSUME NEW c \in Connectors
        PROVE  /\ c \notin Present /\ cand[c] = 0 => entry'[c] = NoEntry
               /\ c \notin Present /\ cand[c] # 0 =>
                      entry'[c] = [Entry("closed", cand[c], round) EXCEPT !.bad = TRUE]
               /\ c \in Present =>
                      entry'[c] = [entry[c] EXCEPT !.bad = @ \/ c \notin plan.started,
                                                   !.gate = IF c \in plan.kept THEN "open" ELSE @]
    BY <2>4
  <2>6. ASSUME NEW c \in Connectors PROVE entry'[c] \in EntryType
    <3>1. CASE c \in Present
      BY <2>2, <2>5, <3>1
    <3>2. CASE c \notin Present /\ cand[c] = 0
      BY <2>3, <2>5, <3>2
    <3>3. CASE c \notin Present /\ cand[c] # 0
      BY <2>1, <2>5, <3>3
    <3> QED
      BY <3>1, <3>2, <3>3
  <2>7. entry' \in [Connectors -> EntryType]
    BY <2>4, <2>6
  <2>8. ASSUME NEW c \in Connectors, c \notin Present, cand[c] # 0
        PROVE  /\ entry'[c].gate = "closed" /\ entry'[c].bad /\ entry'[c].ver = cand[c]
               /\ entry'[c].n = round /\ entry'[c].users = {}
    BY <2>1, <2>5, <2>8
  <2>9. ASSUME NEW c \in Connectors, c \in Present
        PROVE  /\ entry'[c].ver = entry[c].ver /\ entry'[c].n = entry[c].n
               /\ entry'[c].users = entry[c].users /\ entry'[c].blocked = entry[c].blocked
               /\ ~entry'[c].bad => ~entry[c].bad /\ c \in plan.started
               /\ entry'[c].gate = IF c \in plan.kept THEN "open" ELSE entry[c].gate
    BY <2>2, <2>5, <2>9
  <2> QED
    BY <2>5, <2>7, <2>8, <2>9
<1>5. /\ Present' = Present \cup {c \in Connectors : cand[c] # 0}
      /\ \A c \in Connectors : entry'[c].gate = "none" => entry'[c] = NoEntry
      /\ \A c \in Connectors : entry'[c].gate # "none" => entry'[c].ver # 0
  <2>1. \A c \in Connectors : c \in Present' <=> c \in Present \/ cand[c] # 0
    BY <1>4 DEF Present, NoEntry
  <2>2. \A c \in Present : entry[c].ver # 0
    BY DEF ServiceInv, Shaped, Present
  <2>3. Present \subseteq Connectors /\ Present' \subseteq Connectors
    BY DEF Present
  <2>4. \A c \in Present : entry'[c].gate # "none"
    BY <1>4 DEF Present
  <2> QED
    BY <1>4, <2>1, <2>2, <2>3, <2>4 DEF NoEntry
<1>6. /\ \A a \in Agents : Backend(a)' = Backend(a) /\ (Up(a)' <=> Up(a))
      /\ \A u : Sound(u)' <=> Sound(u)
      /\ \A c \in Present : Connection(c)' = Connection(c)
  <2>1. \A a \in Agents : Backend(a)' = Backend(a) /\ (Up(a)' <=> Up(a))
    BY <1>0 DEF Backend, Up
  <2>2. \A u : Sound(u)' <=> Sound(u)
    BY <1>0 DEF Sound, Backend
  <2>3. \A c \in Present : Connection(c)' = Connection(c)
    BY <1>4 DEF Connection, Present
  <2> QED
    BY <2>1, <2>2, <2>3
<1>7. Shaped'
  <2>1. \A c \in Connectors : entry'[c].users \subseteq Agents \X (1 .. MaxRounds)
    BY <1>4 DEF EntryType
  <2>2. unavailable' \cup suspect' \subseteq Agents /\ torn' \cup doubled' \subseteq Names
    BY <1>0, <1>1 DEF ServiceInv, Shaped, TypeOK, Removed, Added
  <2>3. TypeOK'
    BY <1>0, <2>1, <2>2 DEF ServiceInv, Shaped, TypeOK
  <2> QED
    BY <1>0, <1>2, <1>4, <1>5, <2>3 DEF ServiceInv, Shaped, Phases, Resting, Ending
<1>8. Starts'
  <2>1. \A c \in Connectors : ~Idle(c) => entry'[c].gate \notin {"none", "new"}
    BY <1>4 DEF ServiceInv, Starts, Present
  <2> QED
    BY <1>0, <2>1 DEF ServiceInv, Starts, Idle
<1>9. Work' /\ PlannedConnectors' /\ PlannedAgents' /\ Rounds'
  <2>1. Work' /\ PlannedConnectors' /\ PlannedAgents'
    BY <1>0, <1>2 DEF Work, PlannedConnectors, PlannedAgents, Before, After, Applying
  <2>2. \A c \in Connectors : entry'[c].n <= round
    BY <1>1, <1>4 DEF ServiceInv, Rounds, NoEntry
  <2>3. Rounds'
    BY <1>0, <2>2 DEF ServiceInv, Rounds, Before, After
  <2> QED
    BY <2>1, <2>3
<1>10. Backends'
  BY <1>0, <1>6 DEF ServiceInv, Backends, OneBackend
<1>11. Versions'
  <2>1. ASSUME NEW a \in Agents, ~Unsettled(a)'
        PROVE  ver[a] = config[a]
    BY <1>0, <1>3, <2>1 DEF ServiceInv, Versions
  <2>2. ASSUME NEW a \in Agents, Backend(a) \in left
        PROVE  Unsettled(a)'
    BY <1>0, <1>3, <2>2 DEF ServiceInv, Versions, Planless
  <2> QED
    BY <1>0, <1>3, <1>6, <2>1, <2>2 DEF Versions, After
<1>12. Served'
  <2>1. \A a \in Agents : Ready(a)'
    <3>1. \A a \in Agents : Planless(a) => Ready(a)
      BY <1>0 DEF ServiceInv, Served, Ending
    <3> QED
      BY <1>0, <1>3, <1>6, <3>1 DEF Ready
  <2>2. \A a \in Agents : Backend(a)' \in left' => Unsettled(a)'
    BY <1>0, <1>11 DEF Versions
  <2> QED
    BY <1>0, <2>1, <2>2 DEF Served, Stopped
<1>13. Connections'
  <2>1. ASSUME NEW c \in Connectors, NEW o \in live' \ left', o[1] = c
        PROVE  c \in Present' /\ o = Connection(c)'
    <3>1. c \in Present /\ o = Connection(c)
      BY <1>0, <2>1 DEF ServiceInv, Connections
    <3> QED
      BY <1>5, <1>6, <3>1
  <2>2. ASSUME NEW c \in Connectors, ~entry'[c].bad, c \in Present'
        PROVE  c \in torn'
    BY <1>0, <1>4, <2>2 DEF Present, NoEntry
  <2>3. ASSUME NEW c \in Connectors, c \notin Present', config[c] # 0
        PROVE  c \in torn'
    BY <1>0, <1>1, <1>5, <2>3 DEF Removed
  <2> QED
    BY <1>0, <1>2, <2>1, <2>2, <2>3 DEF Connections
<1>14. Gated'
  <2>1. ASSUME NEW c \in Connectors, ~entry'[c].bad, c \in Present'
        PROVE  entry'[c].gate = "open"
    <3>1. c \in Present /\ c \in plan.started /\ ~entry[c].bad
      BY <1>4, <2>1 DEF Present, NoEntry
    <3>2. entry[c].gate = "open"
      BY <3>1 DEF ServiceInv, Gated
    <3> QED
      BY <1>4, <3>1, <3>2
  <2>2. ASSUME NEW c \in Connectors, entry'[c].gate = "open"
        PROVE  unavailable \subseteq entry'[c].blocked
    <3>1. c \in Present /\ (c \in plan.kept \/ entry[c].gate = "open")
      BY <1>4, <2>2 DEF NoEntry
    <3> QED
      BY <1>4, <3>1 DEF ServiceInv, Gated
  <2> QED
    BY <1>0, <1>2, <2>1, <2>2 DEF Gated, Before, After, Ending
<1>15. Users'
  <2>1. ASSUME NEW c \in Connectors, NEW u \in entry'[c].users
        PROVE  u \in entry[c].users /\ u[1] \in Agents
    <3>1. u \in entry[c].users
      BY <1>4, <2>1 DEF NoEntry
    <3> QED
      BY <3>1 DEF ServiceInv, Shaped, EntryType
  <2> QED
    BY <1>0, <1>3, <1>6, <2>1 DEF ServiceInv, Users
<1> QED
  BY <1>7, <1>8, <1>9, <1>10, <1>11, <1>12, <1>13, <1>14, <1>15 DEF ServiceInv

LEMMA FinishKeeps ==
    ASSUME ServiceInv, Finish
    PROVE  ServiceInv'
<1>0. /\ UNCHANGED <<cand, round, doubled, inst, ver, unavailable, brokers, live, left>>
      /\ UNCHANGED <<entry, verb, recovering, stuck>>
      /\ pc = "resuming" /\ todo = {} /\ pc' = "idle" /\ todo' = {} /\ plan' = NoPlan
      /\ config' = cand /\ ticking' = TRUE /\ suspect' = {}
      /\ torn' = torn \ (plan.stopping \cup plan.going \cup plan.conns)
  BY DEF Finish, Turn, runtimeVars, fleetVars
<1>1. /\ plan.fresh \subseteq Agents /\ plan.stopping \subseteq Agents
      /\ plan.going \subseteq Connectors /\ plan.conns \subseteq Connectors
      /\ plan.kept \subseteq Connectors /\ Agents \cap Connectors = {}
      /\ round \in 1 .. MaxRounds
  BY ServiceAssumption DEF ServiceInv, Shaped, PlanType, TypeOK
<1>2. /\ plan'.going = {} /\ plan'.kept = {} /\ plan'.conns = {} /\ plan'.fresh = {}
      /\ plan'.stopping = {} /\ plan'.changed = {} /\ plan'.started = {} /\ plan' \in PlanType
  BY <1>0 DEF NoPlan, PlanType
\* The apply settled what it touched, and what it left alone is as it was.
<1>3. ASSUME NEW a \in Agents
      PROVE  /\ a \in plan.fresh => ver[a] = cand[a] /\ inst[a] = round
             /\ a \in plan.stopping \ plan.fresh => ver[a] = 0 /\ inst[a] = 0 /\ cand[a] = 0
             /\ Planless(a) => cand[a] = config[a] /\ (Unsettled(a) => a \in torn')
             /\ a \in torn \ plan.stopping => a \in torn'
             /\ a \in plan.fresh \ plan.stopping => a \notin suspect
  <2>1. a \in torn \ plan.stopping => a \in torn'
    BY <1>0, <1>1
  <2>2. Planless(a) => cand[a] = config[a] /\ (a \in suspect => cand[a] = 0)
    BY <1>0 DEF ServiceInv, PlannedAgents, Applying
  <2>3. a \in suspect /\ config[a] = 0 => a \in torn
    BY DEF ServiceInv, Versions
  <2>4. Planless(a) /\ Unsettled(a) => a \in torn'
    BY <2>1, <2>2, <2>3 DEF Planless, Unsettled
  <2>5. /\ a \in plan.fresh => ver[a] = cand[a] /\ inst[a] = round
        /\ a \in plan.stopping \ plan.fresh => ver[a] = 0 /\ cand[a] = 0
        /\ inst[a] = 0 <=> ver[a] = 0
    BY <1>0 DEF ServiceInv, Versions, Rounds, Backends, PlannedAgents, After
  <2>6. a \in plan.fresh \ plan.stopping => a \notin suspect
    BY DEF ServiceInv, PlannedAgents
  <2> QED
    BY <2>1, <2>2, <2>4, <2>5, <2>6
<1>4. ASSUME NEW a \in Agents
      PROVE  \/ a \in plan.fresh \/ a \in plan.stopping \ plan.fresh \/ Planless(a)
  BY DEF Planless
<1>5. /\ Present' = Present
      /\ \A a \in Agents : Backend(a)' = Backend(a) /\ (Up(a)' <=> Up(a))
      /\ \A u : Sound(u)' <=> Sound(u)
      /\ \A c \in Connectors : Connection(c)' = Connection(c)
  BY <1>0 DEF Present, Backend, Up, Sound, Connection
<1>6. Shaped'
  <2>1. TypeOK'
    BY <1>0, <1>5 DEF ServiceInv, Shaped, TypeOK
  <2> QED
    BY <1>0, <1>2, <2>1 DEF ServiceInv, Shaped, Phases, Resting, Ending
<1>7. Starts'
  BY <1>0 DEF ServiceInv, Starts, Idle
<1>8. Work' /\ PlannedConnectors' /\ PlannedAgents' /\ Rounds'
  <2>1. Work' /\ PlannedConnectors' /\ PlannedAgents'
    BY <1>0, <1>2 DEF Work, PlannedConnectors, PlannedAgents, Before, After, Applying
  <2>2. Rounds'
    BY <1>0 DEF ServiceInv, Rounds, Before, After
  <2> QED
    BY <2>1, <2>2
<1>9. Backends'
  BY <1>0, <1>5 DEF ServiceInv, Backends, OneBackend
<1>10. Versions'
  <2>1. ASSUME NEW a \in Agents, ~Unsettled(a)'
        PROVE  ver[a] = cand[a]
    <3>1. CASE Planless(a)
      <4>1. ~Unsettled(a)
        BY <1>3, <2>1, <3>1 DEF Unsettled
      <4>2. ver[a] = config[a]
        BY <3>1, <4>1 DEF ServiceInv, Versions
      <4> QED
        BY <1>3, <3>1, <4>2
    <3> QED
      BY <1>3, <1>4, <3>1
  <2>2. ASSUME NEW a \in Agents, Backend(a) \in left
        PROVE  a \in torn'
    <3>1. Backend(a)[2] < round /\ Backend(a)[2] \in 1 .. MaxRounds /\ Backend(a)[2] = inst[a]
      BY <1>0, <2>2 DEF ServiceInv, Rounds, Shaped, TypeOK, Objects, Backend, After
    <3>2. Planless(a)
      BY <1>1, <1>3, <1>4, <3>1
    <3>3. Unsettled(a)
      BY <1>0, <2>2 DEF ServiceInv, Versions
    <3> QED
      BY <1>3, <3>2, <3>3
  <2> QED
    BY <1>0, <1>5, <2>1, <2>2 DEF Versions, After, Unsettled
<1>11. Served'
  <2>1. ASSUME NEW a \in Agents PROVE Ready(a)'
    <3>1. Ready(a) /\ (a \in plan.fresh \ unavailable => Up(a))
      BY <1>0 DEF ServiceInv, Served, Stopped
    <3>2. a \in plan.fresh => Up(a) \/ a \in unavailable
      BY <3>1
    <3> QED
      BY <1>0, <1>3, <1>4, <1>5, <3>1, <3>2 DEF Ready, Unsettled
  <2>2. \A a \in Agents : Backend(a)' \in left' => Unsettled(a)'
    BY <1>0, <1>10 DEF Versions
  <2> QED
    BY <1>0, <2>1, <2>2 DEF Served, Stopped
<1>12. /\ Present = plan.conns \cup plan.kept
       /\ Present = {c \in Connectors : cand[c] # 0}
       /\ plan.kept \cap (plan.going \cup plan.conns) = {}
  BY <1>0 DEF ServiceInv, PlannedConnectors, After
<1>13. Connections'
  <2>1. ASSUME NEW c \in Connectors, c \in Present, ~entry[c].bad
        PROVE  c \in torn' \/ Linked(c)'
    <3>1. CASE c \in plan.conns
      <4>1. Connection(c) \in live \ left /\ entry[c].ver = cand[c]
        BY <1>0, <2>1, <3>1 DEF ServiceInv, Connections, Gated, After
      <4> QED
        BY <1>0, <1>5, <4>1 DEF Linked
    <3>2. CASE c \in plan.kept
      <4>1. c \in torn \/ Linked(c)
        BY <3>2 DEF ServiceInv, Connections
      <4>2. cand[c] = config[c]
        BY <3>2 DEF ServiceInv, PlannedConnectors
      <4>3. c \in torn => c \in torn'
        BY <1>0, <1>1, <1>12, <3>2
      <4> QED
        BY <1>0, <1>5, <4>1, <4>2, <4>3 DEF Linked
    <3> QED
      BY <1>12, <2>1, <3>1, <3>2
  <2>2. ASSUME NEW c \in Connectors, c \notin Present PROVE cand[c] = 0
    BY <1>12, <2>2
  <2> QED
    BY <1>0, <1>2, <1>5, <2>1, <2>2 DEF ServiceInv, Connections
<1>14. Gated'
  <2>1. ASSUME NEW c \in Connectors, c \in Present, ~entry[c].bad
        PROVE  entry[c].gate = "open"
    BY <1>0, <1>12, <2>1 DEF ServiceInv, Gated
  <2> QED
    BY <1>0, <1>2, <1>5, <2>1 DEF ServiceInv, Gated, Before, After, Resting, Ending
<1>15. Users'
  <2>1. ASSUME NEW c \in Connectors, NEW u \in entry[c].users, <<c, u>> \notin stuck
        PROVE  Sound(u) \/ u[1] \in torn'
    <3>1. u[1] \in Agents
      BY DEF ServiceInv, Shaped, EntryType
    <3>2. Sound(u) \/ (Unsettled(u[1]) /\ u[1] \notin plan.stopping)
      BY <1>0, <2>1 DEF ServiceInv, Users
    <3> QED
      BY <1>3, <1>4, <3>1, <3>2 DEF Unsettled
  <2> QED
    BY <1>0, <1>5, <2>1 DEF Users, Unsettled
<1> QED
  BY <1>6, <1>7, <1>8, <1>9, <1>10, <1>11, <1>13, <1>14, <1>15 DEF ServiceInv

LEMMA InstallKeeps ==
    ASSUME ServiceInv, Install
    PROVE  ServiceInv'
<1>0. /\ UNCHANGED <<config, cand, plan, round, suspect, ticking, torn, brokers, live, left>>
      /\ UNCHANGED <<todo, verb, recovering, stuck>>
      /\ pc = "installing" /\ pc' \in {"starting", "broken"} /\ todo = {}
      /\ unavailable' = unavailable \ Removed(cand)
      /\ doubled' = doubled \cup ((torn \cap plan.fresh) \ plan.stopping)
      /\ pc' = "starting" => {c \in Connectors : cand[c] # 0} \subseteq plan.conns \cup plan.kept
  BY DEF Install, ServiceInv, Work
<1>1. /\ plan.fresh \subseteq Agents /\ plan.stopping \subseteq Agents
      /\ plan.going \subseteq Connectors /\ plan.conns \subseteq Connectors
      /\ plan.kept \subseteq Connectors /\ round \in 1 .. MaxRounds
      /\ cand \in [Names -> 0 .. MaxVersion] /\ config \in [Names -> 0 .. MaxVersion]
      /\ Agents \subseteq Names /\ Connectors \subseteq Names
  BY DEF ServiceInv, Shaped, PlanType, TypeOK, Configs, Names
\* The agents taken out are those the plan stops and does not start.
<1>2. ASSUME NEW a \in Agents
      PROVE  /\ a \in Removed(cand) <=> a \in plan.stopping \ plan.fresh
             /\ a \in plan.fresh => cand[a] # 0
             /\ Planless(a) => a \notin plan.fresh /\ a \notin Removed(cand)
             /\ a \in plan.fresh \/ a \in Removed(cand) \/ Planless(a)
             /\ a \in plan.fresh => a \notin Removed(cand)
  <2>1. /\ a \in plan.fresh => cand[a] # 0
        /\ a \in plan.stopping \ plan.fresh => cand[a] = 0 /\ config[a] # 0
        /\ Planless(a) => cand[a] = config[a]
    BY <1>0 DEF ServiceInv, PlannedAgents, Applying
  <2>2. a \in Removed(cand) <=> config[a] # 0 /\ cand[a] = 0
    BY <1>1 DEF Removed
  <2> QED
    BY <2>1, <2>2 DEF Planless
<1>3. ASSUME NEW a \in Agents
      PROVE  /\ a \in plan.fresh => inst'[a] = round /\ ver'[a] = cand[a]
             /\ a \in Removed(cand) => inst'[a] = 0 /\ ver'[a] = 0
             /\ Planless(a) => inst'[a] = inst[a] /\ ver'[a] = ver[a]
             /\ inst'[a] \in 0 .. MaxRounds /\ ver'[a] \in 0 .. MaxVersion
  <2>1. /\ inst[a] \in 0 .. MaxRounds /\ ver[a] \in 0 .. MaxVersion
        /\ cand[a] \in 0 .. MaxVersion /\ round \in 0 .. MaxRounds
        /\ 0 \in 0 .. MaxRounds /\ 0 \in 0 .. MaxVersion
    BY <1>1, ServiceAssumption DEF ServiceInv, Shaped, TypeOK
  <2>2. /\ inst' = [b \in Agents |-> CASE b \in plan.fresh -> round
                                     [] b \in Removed(cand) -> 0
                                     [] OTHER -> inst[b]]
        /\ ver' = [b \in Agents |-> CASE b \in plan.fresh -> cand[b]
                                    [] b \in Removed(cand) -> 0
                                    [] OTHER -> ver[b]]
    BY DEF Install
  <2> QED
    BY <1>2, <2>1, <2>2
<1>4. inst' \in [Agents -> 0 .. MaxRounds] /\ ver' \in [Agents -> 0 .. MaxVersion]
  <2>1. inst' = [b \in Agents |-> inst'[b]] /\ ver' = [b \in Agents |-> ver'[b]]
    BY DEF Install
  <2> QED
    BY <1>3, <2>1
<1>5. /\ plan.going \cap plan.kept = {} /\ plan.conns \cap plan.kept = {}
      /\ Present = plan.going \cup plan.kept
      /\ plan.started = {}
      /\ \A c \in plan.kept : cand[c] # 0 /\ cand[c] = config[c] /\ ~entry[c].bad
      /\ \A c \in plan.conns : cand[c] # 0
  BY <1>0 DEF ServiceInv, PlannedConnectors, Before
<1>6. /\ entry' \in [Connectors -> EntryType]
      /\ \A c \in Connectors :
             \/ c \in plan.kept /\ entry'[c] = entry[c]
             \/ c \notin plan.kept /\ entry'[c] = NoEntry /\ (pc' = "starting" => c \notin plan.conns)
             \/ /\ c \in plan.conns \ plan.kept /\ pc' = "starting"
                /\ entry'[c].gate = "new" /\ ~entry'[c].bad /\ entry'[c].ver = cand[c]
                /\ entry'[c].n = round /\ entry'[c].users = {}
  <2>1. ASSUME NEW c \in Connectors
        PROVE  LET e == Entry("new", cand[c], round)
               IN  /\ e \in EntryType /\ e.gate = "new" /\ ~e.bad /\ e.ver = cand[c]
                   /\ e.n = round /\ e.users = {}
    <3>1. cand[c] \in 0 .. MaxVersion /\ round \in 0 .. MaxRounds
      BY <1>1
    <3> QED
      BY <3>1 DEF Entry, NoEntry, EntryType, Gates
  <2>2. NoEntry \in EntryType
    BY ServiceAssumption DEF NoEntry, EntryType, Gates
  <2>3. entry \in [Connectors -> EntryType]
    BY DEF ServiceInv, Shaped
  <2>4. \/ pc' = "starting" /\ entry' = [c \in Connectors |-> CASE c \in plan.conns -> Entry("new", cand[c], round)
                                                               [] c \in plan.kept -> entry[c]
                                                               [] OTHER -> NoEntry]
        \/ pc' = "broken" /\ entry' = [c \in Connectors |-> IF c \in plan.kept THEN entry[c]
                                                            ELSE NoEntry]
    BY DEF Install
  <2>5. CASE pc' = "starting" /\ entry' = [c \in Connectors |->
                 CASE c \in plan.conns -> Entry("new", cand[c], round)
                   [] c \in plan.kept -> entry[c]
                   [] OTHER -> NoEntry]
    <3>1. ASSUME NEW c \in Connectors
          PROVE  /\ c \in plan.conns => entry'[c] = Entry("new", cand[c], round) /\ c \notin plan.kept
                 /\ c \in plan.kept => entry'[c] = entry[c]
                 /\ c \notin plan.conns \cup plan.kept => entry'[c] = NoEntry
      BY <1>5, <2>5
    <3>2. \A c \in Connectors : entry'[c] \in EntryType
      BY <2>1, <2>2, <2>3, <3>1
    <3>3. entry' \in [Connectors -> EntryType]
      BY <2>5, <3>2
    <3> QED
      BY <2>1, <2>5, <3>1, <3>3
  <2>6. CASE pc' = "broken" /\ entry' = [c \in Connectors |-> IF c \in plan.kept THEN entry[c]
                                                              ELSE NoEntry]
    BY <2>2, <2>3, <2>6
  <2> QED
    BY <2>4, <2>5, <2>6
<1>7. /\ Present' \subseteq plan.conns \cup plan.kept /\ plan.kept \subseteq Present'
      /\ pc' = "starting" => Present' = plan.conns \cup plan.kept
      /\ \A c \in Connectors : entry'[c].gate = "none" => entry'[c] = NoEntry
      /\ \A c \in Connectors : entry'[c].gate # "none" => entry'[c].ver # 0
  <2>1. \A c \in plan.kept : entry[c].gate # "none" /\ entry[c].ver # 0
    BY <1>5 DEF ServiceInv, Shaped, Present
  <2>2. \A c \in Connectors : /\ c \in Present' => c \in plan.conns \cup plan.kept
                              /\ c \in plan.kept => c \in Present'
                              /\ pc' = "starting" /\ c \in plan.conns => c \in Present'
    BY <1>6, <2>1 DEF Present, NoEntry
  <2>3. Present' \subseteq Connectors
    BY DEF Present
  <2>4. \A c \in Connectors : /\ entry'[c].gate = "none" => entry'[c] = NoEntry
                              /\ entry'[c].gate # "none" => entry'[c].ver # 0
    BY <1>5, <1>6, <2>1 DEF NoEntry
  <2> QED
    BY <1>1, <2>2, <2>3, <2>4
\* An agent that is built finds nothing up, unless a failed apply left it running.
<1>8. ASSUME NEW a \in Agents, a \notin doubled', ~Planless(a)
      PROVE  Down(a)
  <2>1. a \notin doubled
    BY <1>0, <1>8
  <2>2. OneBackend(a)
    BY <2>1 DEF ServiceInv, Backends
  <2>3. CASE a \in plan.stopping
    BY <1>0, <2>2, <2>3 DEF OneBackend
  <2>4. CASE a \in plan.fresh \ plan.stopping
    <3>1. config[a] = 0 /\ ~Unsettled(a)
      BY <1>0, <1>8, <2>4 DEF ServiceInv, PlannedAgents, Unsettled
    <3>2. inst[a] = 0
      BY <1>0, <3>1 DEF ServiceInv, Versions, Backends, After
    <3>3. Backend(a) \notin live
      BY <3>2 DEF Backend, ServiceInv, Shaped, TypeOK, Objects
    <3>4. /\ brokers[a] = 0
          /\ \A o \in live \ left : o[1] = a => o = Backend(a)
      BY <2>2, <3>2 DEF OneBackend
    <3> QED
      BY <3>3, <3>4 DEF Down
  <2> QED
    BY <1>8, <2>3, <2>4 DEF Planless
<1>9. ~Busy /\ ~Busy' /\ \A c \in Connectors : Idle(c)
  <2>1. ~Busy
    BY <1>0 DEF ServiceInv, Served, Stopped
  <2>2. \A c \in Connectors : entry'[c].gate # "open"
    BY <1>6, <2>1 DEF Busy, NoEntry
  <2> QED
    BY <1>0, <2>1, <2>2 DEF Busy, Idle
<1>10. /\ \A c \in plan.kept : Connection(c)' = Connection(c) /\ (Linked(c)' <=> Linked(c))
       /\ \A a \in Agents : Unsettled(a)' <=> Unsettled(a)
       /\ \A a \in Agents : Planless(a)' <=> Planless(a)
       /\ \A a \in Agents : Planless(a) => Backend(a)' = Backend(a) /\ (Up(a)' <=> Up(a))
  <2>1. \A c \in plan.kept : entry'[c] = entry[c]
    BY <1>1, <1>6
  <2>2. \A c \in plan.kept : Connection(c)' = Connection(c) /\ (Linked(c)' <=> Linked(c))
    BY <1>0, <2>1 DEF Connection, Linked
  <2>3. \A a \in Agents : (Unsettled(a)' <=> Unsettled(a)) /\ (Planless(a)' <=> Planless(a))
    BY <1>0 DEF Unsettled, Planless
  <2>4. \A a \in Agents : Planless(a) => Backend(a)' = Backend(a) /\ (Up(a)' <=> Up(a))
    BY <1>0, <1>3 DEF Backend, Up
  <2> QED
    BY <2>2, <2>3, <2>4
<1>11. Shaped'
  <2>1. \A c \in Connectors : entry'[c].users \subseteq Agents \X (1 .. MaxRounds)
    BY <1>6 DEF EntryType
  <2>2. unavailable' \cup suspect' \subseteq Agents /\ torn' \cup doubled' \subseteq Names
    BY <1>0, <1>1 DEF ServiceInv, Shaped, TypeOK
  <2>3. TypeOK'
    BY <1>0, <1>4, <2>1, <2>2 DEF ServiceInv, Shaped, TypeOK
  <2> QED
    BY <1>0, <1>6, <1>7, <2>3 DEF ServiceInv, Shaped, Phases, After, Resting, Ending
<1>12. Starts'
  BY <1>0, <1>9 DEF ServiceInv, Starts, Idle
<1>13. Work'
  BY <1>0 DEF Work
<1>14. PlannedConnectors'
  <2>1. \A c \in plan.kept : ~entry'[c].bad
    BY <1>1, <1>5, <1>6
  <2>2. pc' = "starting" => Present' = {c \in Connectors : cand[c] # 0}
    BY <1>0, <1>1, <1>5, <1>7
  <2> QED
    BY <1>0, <1>5, <1>7, <2>1, <2>2 DEF PlannedConnectors, Before, After
<1>15. PlannedAgents'
  BY <1>0, <1>10 DEF ServiceInv, PlannedAgents, Applying
<1>16. Rounds'
  <2>1. \A o \in live \cup left : o[2] <= round /\ o[2] < round
    BY <1>0 DEF ServiceInv, Rounds, Before
  <2>2. \A a \in Agents : inst'[a] <= round /\ (a \in plan.fresh => inst'[a] = round)
    BY <1>1, <1>2, <1>3 DEF ServiceInv, Rounds
  <2>3. \A c \in Connectors : /\ entry'[c].n <= round
                              /\ pc' = "starting" /\ c \in plan.conns => entry'[c].n = round
    BY <1>1, <1>5, <1>6 DEF ServiceInv, Rounds, NoEntry
  <2> QED
    BY <1>0, <1>1, <2>1, <2>2, <2>3 DEF Rounds, Before, After
<1>17. Backends'
  <2>1. ASSUME NEW a \in Agents
        PROVE  /\ inst'[a] = 0 <=> ver'[a] = 0
               /\ a \in unavailable' => inst'[a] # 0
    <3>1. inst[a] = 0 <=> ver[a] = 0
      BY DEF ServiceInv, Backends
    <3>2. a \in unavailable' => inst[a] # 0 /\ a \notin Removed(cand)
      BY <1>0 DEF ServiceInv, Backends
    <3> QED
      BY <1>1, <1>2, <1>3, <3>1, <3>2
  <2>2. ASSUME NEW a \in Agents, a \notin doubled'
        PROVE  OneBackend(a)'
    <3>1. CASE Planless(a)
      <4>1. OneBackend(a)
        BY <1>0, <2>2 DEF ServiceInv, Backends
      <4> QED
        BY <1>0, <1>2, <1>3, <1>10, <3>1, <4>1 DEF OneBackend
    <3>2. CASE ~Planless(a)
      <4>1. Down(a)
        BY <1>8, <2>2, <3>2
      <4>2. Down(a)' /\ brokers'[a] = 0
        BY <1>0, <4>1 DEF Down
      <4>3. \A o \in live' \ left' : o[1] # a
        BY <1>0, <4>1 DEF Down
      <4> QED
        BY <4>2, <4>3 DEF OneBackend
    <3> QED
      BY <3>1, <3>2
  <2> QED
    BY <2>1, <2>2 DEF Backends
<1>18. Versions'
  <2>1. ASSUME NEW a \in Agents, Planless(a)
        PROVE  /\ ~Unsettled(a) => ver'[a] = config[a]
               /\ Backend(a)' \in left => Unsettled(a)
    <3>1. a \notin plan.stopping
      BY <2>1 DEF Planless
    <3> QED
      BY <1>0, <1>3, <1>10, <2>1, <3>1 DEF ServiceInv, Versions, After
  <2>2. ASSUME NEW a \in Agents, ~Planless(a)
        PROVE  Backend(a)' \notin left
    <3>1. \A o \in left : o[2] < round /\ o[2] # 0
      BY <1>0 DEF ServiceInv, Rounds, Before, Shaped, TypeOK, Objects
    <3>2. Backend(a)'[2] \in {round, 0}
      BY <1>2, <1>3, <2>2 DEF Backend
    <3> QED
      BY <1>1, <3>1, <3>2
  <2>3. \A a \in Agents : a \in suspect /\ config[a] = 0 => a \in torn
    BY DEF ServiceInv, Versions
  <2> QED
    BY <1>0, <1>1, <1>2, <1>3, <1>10, <2>1, <2>2, <2>3 DEF Versions, After
<1>19. Served'
  <2>1. ASSUME NEW a \in Agents, Planless(a)
        PROVE  Ready(a)'
    <3>1. Ready(a)
      BY <1>0, <2>1 DEF ServiceInv, Served, Ending
    <3> QED
      BY <1>0, <1>2, <1>3, <1>10, <2>1, <3>1 DEF Ready
  <2> QED
    BY <1>0, <1>9, <1>10, <2>1 DEF Served, Stopped
<1>20. Connections'
  <2>1. ASSUME NEW c \in Connectors, NEW o \in live' \ left', o[1] = c
        PROVE  c \in plan.kept /\ c \in Present' /\ o = Connection(c)'
    <3>1. c \in Present /\ o = Connection(c)
      BY <1>0, <2>1 DEF ServiceInv, Connections
    <3>2. c \notin plan.going
      BY <1>0, <2>1 DEF ServiceInv, Connections, Away
    <3> QED
      BY <1>5, <1>7, <1>10, <3>1, <3>2
  <2>2. ASSUME NEW c \in plan.conns, pc' = "starting"
        PROVE  Away(c)'
    <3>1. c \in Connectors /\ c \notin plan.kept
      BY <1>1, <1>5
    <3>2. entry'[c].users = {}
      BY <1>6, <2>2, <3>1
    <3> QED
      BY <2>1, <3>1, <3>2 DEF Away
  <2>3. \A c \in plan.kept \ torn : Linked(c)'
    BY <1>1, <1>10 DEF ServiceInv, Connections
  <2> QED
    BY <1>0, <2>1, <2>2, <2>3 DEF Connections, Resting
<1>21. Gated'
  <2>1. ASSUME NEW c \in plan.conns, pc' = "starting"
        PROVE  entry'[c].gate = "new" /\ ~entry'[c].bad /\ entry'[c].ver = cand[c]
    BY <1>1, <1>5, <1>6, <2>1
  <2>2. ASSUME NEW c \in plan.kept
        PROVE  unavailable' \subseteq entry'[c].blocked
    <3>1. unavailable \subseteq entry[c].blocked /\ entry'[c] = entry[c]
      BY <1>1, <1>5, <1>6, <2>2 DEF ServiceInv, Gated
    <3> QED
      BY <1>0, <3>1
  <2>3. \A c \in Connectors : entry'[c].gate # "open"
    BY <1>9 DEF Busy
  <2> QED
    BY <1>0, <1>5, <2>1, <2>2, <2>3 DEF Gated, Before, After, Resting, Ending
<1>22. Users'
  <2>1. ASSUME NEW c \in Connectors, NEW u \in entry'[c].users, <<c, u>> \notin stuck
        PROVE  (Sound(u)' \/ Unsettled(u[1])) /\ u[1] \notin plan.stopping
    <3>1. u \in entry[c].users
      BY <1>6, <2>1 DEF NoEntry
    <3>2. u[1] \in Agents
      BY <3>1 DEF ServiceInv, Shaped, EntryType
    <3>3. (Sound(u) \/ Unsettled(u[1])) /\ u[1] \notin plan.stopping
      BY <1>0, <2>1, <3>1 DEF ServiceInv, Users
    <3>4. CASE Planless(u[1])
      BY <1>0, <1>10, <3>2, <3>3, <3>4 DEF Sound
    <3>5. CASE u[1] \in plan.fresh \ plan.stopping /\ ~Unsettled(u[1])
      <4>1. inst[u[1]] = 0
        <5>1. config[u[1]] = 0
          BY <3>5 DEF ServiceInv, PlannedAgents
        <5> QED
          BY <1>0, <3>2, <3>5, <5>1 DEF ServiceInv, Versions, Backends, After
      <4>2. Backend(u[1]) \notin live
        BY <4>1 DEF Backend, ServiceInv, Shaped, TypeOK, Objects
      <4> QED
        BY <3>3, <3>5, <4>2 DEF Sound
    <3> QED
      BY <3>3, <3>4, <3>5 DEF Planless
  <2>2. \A c \in Connectors : \A u \in entry'[c].users : u[1] \in Agents
    BY <1>6 DEF EntryType
  <2> QED
    BY <1>0, <1>10, <2>1, <2>2 DEF Users
<1> QED
  BY <1>11, <1>12, <1>13, <1>14, <1>15, <1>16, <1>17, <1>18, <1>19, <1>20, <1>21, <1>22
  DEF ServiceInv

LEMMA BootHolds ==
    ASSUME Init
    PROVE  ServiceInv
<1>0. /\ config \in [Names -> 0 .. MaxVersion] /\ \A k \in Names : config[k] \in {0, 1}
      /\ cand = config /\ pc = "idle" /\ todo = {} /\ plan = NoPlan /\ round = 1
      /\ inst = [a \in Agents |-> config[a]] /\ ver = inst
      /\ unavailable \subseteq Agents /\ \A a \in unavailable : config[a] # 0
      /\ suspect = {} /\ left = {} /\ ticking = TRUE /\ stuck = {} /\ torn = {} /\ doubled = {}
      /\ verb = [c \in Connectors |-> None] /\ recovering = None
      /\ Agents \subseteq Names /\ Connectors \subseteq Names
      /\ MaxRounds \in Nat /\ 1 <= MaxRounds /\ MaxVersion \in Nat
      /\ \A k \in Names : config[k] # 0 => 1 \in 0 .. MaxVersion
  <2>1. /\ config \in [Names -> 0 .. MaxVersion] /\ \A k \in Names : config[k] <= 1
        /\ Agents \subseteq Names /\ Connectors \subseteq Names
    BY DEF Init, Configs, Names
  <2>2. \A k \in Names : config[k] \in {0, 1} /\ (config[k] # 0 => 1 \in 0 .. MaxVersion)
    BY <2>1, ServiceAssumption
  <2> QED
    BY <2>1, <2>2, ServiceAssumption DEF Init
<1>1. /\ entry = [c \in Connectors |-> IF config[c] = 0 THEN NoEntry
                                       ELSE [Entry("open", 1, 1) EXCEPT !.blocked = unavailable]]
      /\ live = {<<k, 1>> : k \in ({a \in Agents : config[a] # 0} \ unavailable)
                                 \cup {c \in Connectors : config[c] # 0}}
      /\ brokers = [a \in Agents |-> IF a \in {b \in Agents : config[b] # 0} \ unavailable
                                     THEN 1 ELSE 0]
  BY DEF Init
<1>2. /\ entry \in [Connectors -> EntryType]
      /\ \A c \in Connectors :
             \/ config[c] = 0 /\ entry[c] = NoEntry
             \/ /\ config[c] = 1 /\ entry[c].gate = "open" /\ ~entry[c].bad /\ entry[c].ver = 1
                /\ entry[c].n = 1 /\ entry[c].blocked = unavailable /\ entry[c].users = {}
  <2>1. NoEntry \in EntryType
    BY ServiceAssumption DEF NoEntry, EntryType, Gates
  <2>2. ASSUME NEW c \in Connectors, config[c] # 0
        PROVE  LET e == [Entry("open", 1, 1) EXCEPT !.blocked = unavailable]
               IN  /\ e \in EntryType /\ e.gate = "open" /\ ~e.bad /\ e.ver = 1 /\ e.n = 1
                   /\ e.blocked = unavailable /\ e.users = {}
    <3>1. 1 \in 0 .. MaxVersion /\ 1 \in 0 .. MaxRounds
      BY <1>0, <2>2
    <3> QED
      BY <1>0, <3>1 DEF Entry, NoEntry, EntryType, Gates
  <2>3. \A c \in Connectors : config[c] \in {0, 1}
    BY <1>0
  <2> QED
    BY <1>1, <2>1, <2>2, <2>3
<1>3. /\ \A c \in Connectors : c \in Present <=> config[c] # 0
      /\ \A c \in Connectors : entry[c].users = {} /\ Idle(c)
  BY <1>0, <1>2 DEF Present, Idle, NoEntry
<1>4. /\ live \subseteq Objects /\ \A o \in live : o[2] = 1
      /\ \A k \in Names : \A o \in live : o[1] = k => o = <<k, 1>>
      /\ \A a \in Agents : <<a, 1>> \in live <=> config[a] # 0 /\ a \notin unavailable
      /\ \A c \in Connectors : <<c, 1>> \in live <=> config[c] # 0
      /\ \A a \in Agents : brokers[a] = IF config[a] # 0 /\ a \notin unavailable THEN 1 ELSE 0
      /\ brokers \in [Agents -> Nat]
      /\ \A a \in Agents : inst[a] = config[a] /\ config[a] \in {0, 1}
      /\ \A c \in Connectors : \A o \in live : o[1] = c => config[c] # 0
  <2>1. \A o \in live : /\ o[2] = 1 /\ o[1] \in Names /\ o = <<o[1], 1>>
                        /\ \/ o[1] \in Agents /\ config[o[1]] # 0 /\ o[1] \notin unavailable
                           \/ o[1] \in Connectors /\ config[o[1]] # 0
    BY <1>0, <1>1
  <2>2. \A o \in live : o \in Objects
    BY <1>0, <2>1 DEF Objects
  <2>3. /\ \A a \in Agents : <<a, 1>> \in live <=> config[a] # 0 /\ a \notin unavailable
        /\ \A c \in Connectors : <<c, 1>> \in live <=> config[c] # 0
    BY <1>1, ServiceAssumption
  <2>4. /\ \A a \in Agents : brokers[a] = IF config[a] # 0 /\ a \notin unavailable THEN 1 ELSE 0
        /\ brokers \in [Agents -> Nat]
    BY <1>1
  <2>5. \A a \in Agents : inst[a] = config[a] /\ config[a] \in {0, 1}
    BY <1>0
  <2>6. \A k \in Names : \A o \in live : o[1] = k => o = <<k, 1>>
    BY <2>1
  <2>7. \A c \in Connectors : \A o \in live : o[1] = c => config[c] # 0
    BY <2>1
  <2> QED
    BY <2>1, <2>2, <2>3, <2>4, <2>5, <2>6, <2>7
<1>5. Shaped
  <2>1. TypeOK
    <3>1. inst \in [Agents -> 0 .. MaxRounds] /\ ver \in [Agents -> 0 .. MaxVersion]
      BY <1>0
    <3> QED
      BY <1>0, <1>3, <1>4, <3>1 DEF TypeOK, Configs
  <2>2. plan \in PlanType /\ pc \in Phases
    BY <1>0 DEF NoPlan, PlanType, Phases, Resting
  <2>3. verb \in [Connectors -> {None} \cup (Agents \X Stages)]
    BY <1>0
  <2> QED
    BY <1>0, <1>2, <2>1, <2>2, <2>3 DEF Shaped, Resting, Ending, NoEntry
<1>6. /\ plan.going = {} /\ plan.kept = {} /\ plan.conns = {} /\ plan.fresh = {}
      /\ plan.stopping = {} /\ plan.changed = {} /\ plan.started = {}
  BY <1>0 DEF NoPlan
<1>7. Starts
  BY <1>0, <1>3, ServiceAssumption DEF Starts
<1>8. Work /\ PlannedConnectors /\ PlannedAgents
  BY <1>0, <1>6 DEF Work, PlannedConnectors, PlannedAgents, Before, After, Applying
<1>9. Rounds
  BY <1>0, <1>2, <1>4 DEF Rounds, Before, After, NoEntry
<1>10. Backends
  <2>1. ASSUME NEW a \in Agents PROVE OneBackend(a)
    <3>1. /\ brokers[a] <= 1 /\ (inst[a] = 0 => brokers[a] = 0)
          /\ a \in unavailable => brokers[a] = 0
      BY <1>4
    <3>2. \A o \in live \ left : o[1] = a => o = Backend(a)
      BY <1>0, <1>4 DEF Backend
    <3> QED
      BY <1>0, <3>1, <3>2 DEF OneBackend
  <2> QED
    BY <1>0, <1>4, <2>1 DEF Backends
<1>11. Versions
  BY <1>0, <1>4 DEF Versions, Unsettled, After
<1>12. Served
  <2>1. \A a \in Agents : Ready(a)
    BY <1>0, <1>4 DEF Ready, Up, Backend
  <2> QED
    BY <1>0, <2>1 DEF Served, Stopped
<1>13. Connections
  <2>1. ASSUME NEW c \in Connectors, config[c] # 0
        PROVE  Linked(c) /\ Connection(c) = <<c, 1>>
    BY <1>0, <1>2, <1>4, <2>1 DEF Linked, Connection
  <2>2. ASSUME NEW c \in Connectors, NEW o \in live \ left, o[1] = c
        PROVE  c \in Present /\ o = Connection(c)
    BY <1>0, <1>3, <1>4, <2>1, <2>2
  <2> QED
    BY <1>0, <1>3, <1>6, <2>1, <2>2 DEF Connections
<1>14. Gated
  <2>1. \A c \in Connectors : /\ c \in Present => entry[c].gate = "open"
                              /\ entry[c].gate = "open" => unavailable \subseteq entry[c].blocked
    BY <1>0, <1>2, <1>3 DEF NoEntry
  <2> QED
    BY <1>0, <1>6, <2>1 DEF Gated, Before, After, Ending
<1>15. Users
  BY <1>3 DEF Users
<1> QED
  BY <1>5, <1>7, <1>8, <1>9, <1>10, <1>11, <1>12, <1>13, <1>14, <1>15 DEF ServiceInv

LEMMA StayKeeps ==
    ASSUME ServiceInv, UNCHANGED vars
    PROVE  ServiceInv'
<1>0. /\ UNCHANGED <<config, cand, todo, plan, round, suspect, ticking, torn, doubled>>
      /\ UNCHANGED <<inst, ver, unavailable, brokers, live, left, pc>>
      /\ UNCHANGED <<entry, verb, recovering, stuck>>
  BY DEF vars, reloadVars, runtimeVars, fleetVars
<1>1. /\ Starts' /\ Present' = Present
      /\ \A a \in Agents : /\ Backend(a)' = Backend(a)
                           /\ Up(a)' <=> Up(a)
                           /\ Ready(a)' <=> Ready(a)
                           /\ Unsettled(a)' <=> Unsettled(a)
                           /\ Down(a)' <=> Down(a)
      /\ \A u : Sound(u)' <=> Sound(u)
      /\ \A c \in Connectors : /\ Connection(c)' = Connection(c)
                               /\ Linked(c)' <=> Linked(c)
                               /\ Away(c)' <=> Away(c)
                               /\ Quiet(c)' <=> Quiet(c)
      /\ Busy' <=> Busy
  BY <1>0, TurnKeeps DEF runtimeVars, fleetVars
<1>2. Shaped'
  BY <1>0, <1>1 DEF ServiceInv, Shaped, TypeOK
<1>3. Work' /\ PlannedConnectors' /\ PlannedAgents' /\ Rounds'
  BY <1>0, <1>1 DEF ServiceInv, Work, PlannedConnectors, PlannedAgents, Planless, Rounds
<1>4. Backends' /\ Versions'
  BY <1>0, <1>1 DEF ServiceInv, Backends, OneBackend, Versions, Planless
<1>5. Served'
  <2>1. plan.fresh \subseteq Agents
    BY DEF ServiceInv, Shaped, PlanType
  <2> QED
    BY <1>0, <1>1, <2>1 DEF ServiceInv, Served, Planless
<1>6. Connections' /\ Gated'
  <2>1. Connections'
    BY <1>0, <1>1 DEF ServiceInv, Connections
  <2>2. Gated'
    BY <1>0, <1>1 DEF ServiceInv, Gated
  <2> QED
    BY <2>1, <2>2
<1>7. Users'
  <2>1. \A x : Unsettled(x)' <=> Unsettled(x)
    BY <1>0 DEF Unsettled
  <2>2. Users
    BY DEF ServiceInv
  <2> QED
    BY <1>0, <1>1, <2>1, <2>2 DEF Users
<1> QED
  BY <1>1, <1>2, <1>3, <1>4, <1>5, <1>6, <1>7 DEF ServiceInv

LEMMA ServiceSteps ==
    ASSUME ServiceInv, [Next]_vars
    PROVE  ServiceInv'
<1>1. CASE UNCHANGED vars
  BY <1>1, StayKeeps
<1>2. ASSUME NEW c \in Connectors,
             \/ \E a \in Agents : Begin(c, a)
             \/ TakeRecoverLock(c) \/ Recover(c) \/ Serve(c)
      PROVE  ServiceInv'
  BY <1>2, BeginKeeps, TakeRecoverLockKeeps, RecoverKeeps, ServeKeeps
<1>3. ASSUME NEW c \in Connectors,
             \/ Quiesce(c) \/ Quiesced(c) \/ Close(c) \/ Drain(c) \/ Rearm(c)
             \/ SettleRecords(c) \/ Connect(c) \/ Restart(c)
      PROVE  ServiceInv'
  BY <1>3, QuiesceKeeps, QuiescedKeeps, CloseKeeps, DrainKeeps, RearmKeeps, SettleRecordsKeeps,
     ConnectKeeps, RestartKeeps
<1>4. CASE ReadFile \/ Decide \/ NextPhase \/ StopAgents \/ Install \/ StartAgents \/ Finish
  BY <1>4, ReadFileKeeps, DecideKeeps, NextPhaseKeeps, StopAgentsKeeps, InstallKeeps,
     StartAgentsKeeps, FinishKeeps
<1>5. CASE Break \/ SettleAfterFailedApply \/ Shutdown \/ StopManagers \/ StopAll
  BY <1>5, BreakKeeps, SettleKeeps, ShutdownKeeps, StopManagersKeeps, StopAllKeeps
<1> QED
  BY <1>1, <1>2, <1>3, <1>4, <1>5 DEF Next

\* The invariant that carries the theorems about the service.
LEMMA ServiceInvariance == MCSpec => []ServiceInv
<1>1. MCInit => ServiceInv
  BY BootHolds DEF MCInit
<1>2. ServiceInv /\ [MCNext]_mcVars => ServiceInv'
  <2>1. [MCNext]_mcVars => [Next]_vars
    BY DEF MCNext, mcVars
  <2> QED
    BY <2>1, ServiceSteps
<1> QED
  BY <1>1, <1>2, PTL DEF MCSpec, mcVars

LEMMA OneAtMost ==
    ASSUME NEW S, NEW x, \A y \in S : y = x
    PROVE  Cardinality(S) <= 1
<1>1. CASE S = {}
  BY <1>1, FS_EmptySet
<1>2. CASE S # {}
  <2>1. S = {x}
    BY <1>2
  <2> QED
    BY <2>1, FS_Singleton
<1> QED
  BY <1>1, <1>2

\* However many agents and connectors a service has, whatever its reloads replace, retry or leave
\* behind, wherever an apply breaks, and whichever starts and revivals run meanwhile: an agent has
\* at most one backend and one broker up and a connector one connection, besides the leftovers
\* and the agents built twice, and no processor is left on a backend that was stopped or replaced,
\* but those reported and those of an apply that failed (service.py: _apply_reload,
\* _recover_agent, AgentRuntimeManager).
THEOREM OneRuntimeRuns == MCSpec => []OneRuntimeServes
<1>1. ASSUME ServiceInv PROVE OneRuntimeServes
  <2>1. TypeOK
    BY <1>1 DEF ServiceInv, Shaped
  <2>2. OneRuntime
    <3>1. ASSUME NEW a \in Agents, a \notin doubled
          PROVE  /\ Cardinality({o \in live \ left : o[1] = a}) <= 1
                 /\ brokers[a] <= 1
      <4>1. OneBackend(a)
        BY <1>1, <3>1 DEF ServiceInv, Backends
      <4>2. \A o \in {x \in live \ left : x[1] = a} : o = Backend(a)
        BY <4>1 DEF OneBackend
      <4>3. brokers[a] <= 1
        BY <4>1 DEF OneBackend
      <4> QED
        BY <4>2, <4>3, OneAtMost
    <3>2. ASSUME NEW c \in Connectors
          PROVE  Cardinality({o \in live \ left : o[1] = c}) <= 1
      <4>1. \A o \in {x \in live \ left : x[1] = c} : o = Connection(c)
        BY <1>1 DEF ServiceInv, Connections
      <4> QED
        BY <4>1, OneAtMost
    <3> QED
      BY <3>1, <3>2 DEF OneRuntime, Names
  <2>3. ServedByRuntime
    <3>1. ASSUME NEW c \in Connectors, NEW u \in entry[c].users, <<c, u>> \notin stuck
          PROVE  u[1] \in suspect \cup torn \/ (u = Backend(u[1]) /\ u \in live)
      BY <1>1, <3>1 DEF ServiceInv, Users, Sound, Unsettled
    <3> QED
      BY <3>1 DEF ServedByRuntime, Present
  <2> QED
    BY <2>1, <2>2, <2>3 DEF OneRuntimeServes
<1> QED
  BY <1>1, ServiceInvariance, PTL

\* Between the reloads of such a service, what runs is what the active configuration says, or is
\* known to be degraded, unavailable, suspect or torn, and every other connector lets its watchers
\* start; once it has stopped, only leftovers and the agents built twice run
\* (service.py: _apply_reload, _settle_after_failed_apply, shutdown).
THEOREM RunsAsConfigured == MCSpec => []AsConfigured
<1>1. ASSUME ServiceInv PROVE AsConfigured
  <2>1. ASSUME pc = "idle"
        PROVE  /\ ticking
               /\ \A a \in Agents \ (torn \cup suspect \cup unavailable) :
                      /\ ver[a] = config[a]
                      /\ config[a] # 0 => Backend(a) \in live /\ brokers[a] > 0
               /\ \A c \in Connectors \ torn :
                      \/ entry[c].bad
                      \/ /\ entry[c].ver = config[c]
                         /\ config[c] # 0 => entry[c].gate = "open" /\ Connection(c) \in live
    <3>1. ticking
      BY <1>1, <2>1 DEF ServiceInv, Shaped, Resting
    <3>2. ASSUME NEW a \in Agents \ (torn \cup suspect \cup unavailable)
          PROVE  /\ ver[a] = config[a]
                 /\ config[a] # 0 => Backend(a) \in live /\ brokers[a] > 0
      <4>1. ver[a] = config[a] /\ (inst[a] = 0 <=> ver[a] = 0)
        BY <1>1, <2>1 DEF ServiceInv, Versions, Unsettled, Backends, After
      <4>2. Ready(a)
        BY <1>1, <2>1 DEF ServiceInv, Served, Stopped
      <4> QED
        BY <4>1, <4>2 DEF Ready, Up, Unsettled
    <3>3. ASSUME NEW c \in Connectors \ torn, ~entry[c].bad
          PROVE  /\ entry[c].ver = config[c]
                 /\ config[c] # 0 => entry[c].gate = "open" /\ Connection(c) \in live
      <4>1. CASE c \in Present
        <5>1. Linked(c) /\ entry[c].gate = "open"
          BY <1>1, <2>1, <3>3, <4>1 DEF ServiceInv, Connections, Gated, Resting
        <5> QED
          BY <5>1 DEF Linked
      <4>2. CASE c \notin Present
        <5>1. config[c] = 0 /\ entry[c] = NoEntry
          BY <1>1, <2>1, <4>2 DEF ServiceInv, Connections, Shaped, Present, Resting
        <5> QED
          BY <5>1 DEF NoEntry
      <4> QED
        BY <4>1, <4>2
    <3> QED
      BY <3>1, <3>2, <3>3
  <2>2. ASSUME pc = "stopped"
        PROVE  /\ \A o \in live : o \in left \/ o[1] \in doubled
               /\ \A a \in Agents \ doubled : brokers[a] = 0
               /\ \A c \in Present : entry[c].users = {}
    <3>1. \A a \in Agents \ doubled : Down(a)
      BY <1>1, <2>2 DEF ServiceInv, Backends, OneBackend
    <3>2. \A c \in Connectors : Away(c)
      BY <1>1, <2>2 DEF ServiceInv, Connections
    <3>3. \A o \in live : o[1] \in Agents \cup Connectors
      BY <1>1 DEF ServiceInv, Shaped, TypeOK, Objects, Names
    <3> QED
      BY <3>1, <3>2, <3>3 DEF Down, Away, Present
  <2> QED
    BY <2>1, <2>2 DEF AsConfigured
<1> QED
  BY <1>1, ServiceInvariance, PTL
====
