----------------------- MODULE PermissionBrokerProofs -----------------------
(***************************************************************************)
(* Proofs about the two permission brokers.  PermissionBroker, for every set *)
(* of calls, sessions, rooms and threads, every tool policy and every set of *)
(* request ids; then OpenCodeBackend, for any number of turns, ports,         *)
(* sidecars and failures: what its lock protects, and what becomes of the    *)
(* requests its broker has read.                                             *)
(***************************************************************************)
EXTENDS MCPermissionBroker, TLAPS

\* The approve recorded for a call came from its room and, where both name a
\* thread, from its thread.
Matches(c) ==
    /\ approval[c].room = RoomOf[SessionOf[c]]
    /\ NoThread \in {approval[c].thread, reqThread[c]}
          \/ approval[c].thread = reqThread[c]

\* A hook that has not been decided has left no trace: so a request is
\* registered once, and its thread is not rewritten under an approve.
UndecidedIsFresh ==
    \A c \in Calls : pc[c] \in {"new", "parsing"} =>
        future[c] = "none" /\ answer[c] = "none" /\ c \notin registered

\* A future holds an approve only if a matching one was typed, even before the
\* handler has read it.
ApprovedMatches == \A c \in Calls : future[c] = "approved" => Matches(c)

IInv == TypeOK /\ UndecidedIsFresh /\ OpenIsRegistered /\ ApprovedMatches
        /\ AllowedMeansApproved

-----------------------------------------------------------------------------
(* Lemmas about the operators.                                              *)

\* Only an owner's bound session is ever put to a human.
LEMMA AskNeedsOwner ==
    ASSUME NEW c \in Calls, Decide(c) = "ask"
    PROVE  role[SessionOf[c]] = "owner" /\ SessionOf[c] \in bound
<1>1. CASE c \in Meta
  BY <1>1 DEF Decide
<1>2. CASE c \notin Meta /\ role[SessionOf[c]] # "owner"
  BY <1>2 DEF Decide
<1>3. CASE c \notin Meta /\ role[SessionOf[c]] = "owner"
  BY <1>3 DEF Decide
<1> QED BY <1>1, <1>2, <1>3

\* What decides at once allows or blocks.
LEMMA DecideRange ==
    ASSUME NEW c \in Calls
    PROVE  Decide(c) \in {"allow", "block", "ask"}
<1>1. CASE c \in Meta
  BY <1>1 DEF Decide
<1>2. CASE c \notin Meta /\ role[SessionOf[c]] # "owner"
  BY <1>2 DEF Decide
<1>3. CASE c \notin Meta /\ role[SessionOf[c]] = "owner"
  BY <1>3 DEF Decide
<1> QED BY <1>1, <1>2, <1>3

\* A denial of several requests withdraws what it denies and approves nothing.
LEMMA DenyAllEffect ==
    ASSUME TypeOK, OpenIsRegistered, NEW C, DenyAll(C)
    PROVE  /\ registered' \subseteq registered
           /\ future' \in [Calls -> {"none", "pending", "approved", "denied", "cancelled"}]
           /\ \A c \in Calls : \/ future'[c] = future[c]
                               \/ future[c] = "pending" /\ future'[c] = "denied"
           /\ \A c \in Calls : future'[c] = "pending" => c \in registered'
BY DEF DenyAll, TypeOK, OpenIsRegistered

\* A registration overwrites nobody: the id it draws is one no registered
\* request has.
LEMMA AskKeepsRegistered ==
    ASSUME TypeOK, UndecidedIsFresh, NEW c \in Calls, Ask(c)
    PROVE  registered' = registered \cup {c} /\ c \notin registered
<1>1. PICK i \in FreeIds : id' = [id EXCEPT ![c] = i]
  BY DEF Ask
<1>2. \A d \in registered : id[d] # id'[c]
  BY <1>1 DEF FreeIds, TypeOK
<1>3. c \notin registered
  BY DEF Ask, UndecidedIsFresh
<1> QED BY <1>2, <1>3 DEF Ask

-----------------------------------------------------------------------------
(* The invariant.                                                           *)

LEMMA InitInv == Init => IInv
BY BoundsAssumption DEF Init, IInv, TypeOK, UndecidedIsFresh, OpenIsRegistered,
    ApprovedMatches, AllowedMeansApproved, NoApproval

\* One step per action of the session, the hook, the owner, the sweep and the
\* broker.
LEMMA NextInv == IInv /\ [Next]_vars => IInv'
<1> SUFFICES ASSUME IInv, [Next]_vars PROVE IInv'
  OBVIOUS
<1> USE DEF IInv, mapVars, registryVars, callVars, historyVars
<1>1. CASE \E s \in Sessions : Bind(s)
  BY <1>1 DEF Bind, TypeOK, UndecidedIsFresh, OpenIsRegistered, ApprovedMatches,
              AllowedMeansApproved, Matches
<1>2. CASE \E s \in Sessions, r \in {"guest", "owner"}, t \in Threads \cup {NoThread} :
                BeginTurn(s, r, t)
  BY <1>2 DEF BeginTurn, TypeOK, UndecidedIsFresh, OpenIsRegistered, ApprovedMatches,
              AllowedMeansApproved, Matches
<1>3. CASE \E s \in Sessions : StopSession(s)
  <2>1. PICK s \in Sessions : StopSession(s)
    BY <1>3
  <2>2. DenyAll(PendingForSession(s))
    BY <2>1 DEF StopSession
  <2>3. TypeOK'
    BY <2>1, <2>2, DenyAllEffect DEF StopSession, TypeOK
  <2>4. (UndecidedIsFresh /\ OpenIsRegistered)'
    BY <2>1, <2>2, DenyAllEffect DEF StopSession, UndecidedIsFresh, OpenIsRegistered
  <2>5. (ApprovedMatches /\ AllowedMeansApproved)'
    BY <2>1, <2>2, DenyAllEffect DEF StopSession, ApprovedMatches, AllowedMeansApproved, Matches
  <2> QED BY <2>3, <2>4, <2>5
<1>4. CASE \E c \in Calls : Hook(c)
  BY <1>4 DEF Hook, TypeOK, UndecidedIsFresh, OpenIsRegistered, ApprovedMatches,
              AllowedMeansApproved, Matches
<1>5. CASE \E c \in Calls : DecideAtOnce(c)
  <2>1. PICK c \in Calls : DecideAtOnce(c)
    BY <1>5
  <2>2. Decide(c) \in {"allow", "block"}
    BY <2>1, DecideRange DEF DecideAtOnce
  <2>3. TypeOK'
    BY <2>1, <2>2 DEF DecideAtOnce, Answer, TypeOK
  <2>4. (UndecidedIsFresh /\ OpenIsRegistered)'
    BY <2>1 DEF DecideAtOnce, Answer, TypeOK, UndecidedIsFresh, OpenIsRegistered
  <2>5. (ApprovedMatches /\ AllowedMeansApproved)'
    BY <2>1 DEF DecideAtOnce, Answer, TypeOK, ApprovedMatches, AllowedMeansApproved, Matches
  <2> QED BY <2>3, <2>4, <2>5
<1>6. CASE \E c \in Calls : Ask(c)
  <2>1. PICK c \in Calls : Ask(c)
    BY <1>6
  <2>2. registered' = registered \cup {c} /\ c \notin registered
    BY <2>1, AskKeepsRegistered
  <2>3. PICK i \in Ids : id' = [id EXCEPT ![c] = i]
    BY <2>1 DEF Ask, FreeIds
  <2>4. SessionOf[c] \in Sessions
    BY MapsAssumption
  <2>5. TypeOK'
    BY <2>1, <2>2, <2>3, <2>4 DEF Ask, TypeOK
  <2>6. (UndecidedIsFresh /\ OpenIsRegistered)'
    BY <2>1, <2>2 DEF Ask, TypeOK, UndecidedIsFresh, OpenIsRegistered
  <2>7. \A d \in Calls : d # c => reqThread'[d] = reqThread[d] /\ future'[d] = future[d]
    BY <2>1 DEF Ask, TypeOK
  <2>8. answer[c] = "none" /\ future'[c] = "pending"
    BY <2>1 DEF Ask, TypeOK, UndecidedIsFresh
  <2>9. (ApprovedMatches /\ AllowedMeansApproved)'
    BY <2>1, <2>7, <2>8 DEF Ask, ApprovedMatches, AllowedMeansApproved, Matches
  <2> QED BY <2>5, <2>6, <2>9
<1>7. CASE \E c \in Calls : NoFreeId(c)
  BY <1>7 DEF NoFreeId, Answer, TypeOK, UndecidedIsFresh, OpenIsRegistered,
              ApprovedMatches, AllowedMeansApproved, Matches
<1>8. CASE \E c \in Calls : Posted(c)
  BY <1>8 DEF Posted, TypeOK, UndecidedIsFresh, OpenIsRegistered,
              ApprovedMatches, AllowedMeansApproved, Matches
<1>9. CASE \E c \in Calls : PostRaised(c)
  BY <1>9, BoundsAssumption DEF PostRaised, TypeOK, UndecidedIsFresh, OpenIsRegistered,
              ApprovedMatches, AllowedMeansApproved, Matches
<1>10. CASE \E c \in Calls : PostFailed(c)
  <2>1. PICK c \in Calls : PostFailed(c)
    BY <1>10
  <2>2. DenyAll({c})
    BY <2>1 DEF PostFailed
  <2>3. TypeOK'
    BY <2>1, <2>2, DenyAllEffect DEF PostFailed, Answer, TypeOK
  <2>4. (UndecidedIsFresh /\ OpenIsRegistered)'
    BY <2>1, <2>2, DenyAllEffect DEF PostFailed, Answer, TypeOK, UndecidedIsFresh, OpenIsRegistered
  <2>5. (ApprovedMatches /\ AllowedMeansApproved)'
    BY <2>1, <2>2, DenyAllEffect DEF PostFailed, Answer, TypeOK, ApprovedMatches,
                                     AllowedMeansApproved, Matches
  <2> QED BY <2>3, <2>4, <2>5
<1>11. CASE \E c \in Calls : Resolved(c)
  BY <1>11 DEF Resolved, Answer, TypeOK, UndecidedIsFresh, OpenIsRegistered,
              ApprovedMatches, AllowedMeansApproved, Matches
<1>12. CASE \E c \in Calls : Timeout(c)
  BY <1>12 DEF Timeout, TypeOK, UndecidedIsFresh, OpenIsRegistered,
              ApprovedMatches, AllowedMeansApproved, Matches
<1>13. CASE \E c \in Calls : Regretted(c)
  BY <1>13 DEF Regretted, Answer, TypeOK, UndecidedIsFresh, OpenIsRegistered,
              ApprovedMatches, AllowedMeansApproved, Matches
<1>14. CASE \E c \in Calls : Seen(c) \/ Age(c)
  BY <1>14 DEF Seen, Age, TypeOK, UndecidedIsFresh, OpenIsRegistered,
              ApprovedMatches, AllowedMeansApproved, Matches
<1>15. CASE \E c \in Calls, approved \in BOOLEAN, fromRoom \in Rooms,
                fromThread \in Threads \cup {NoThread} :
                Command(c, approved, fromRoom, fromThread)
  <2>1. PICK c \in Calls, approved \in BOOLEAN, fromRoom \in Rooms,
             fromThread \in Threads \cup {NoThread} :
             Command(c, approved, fromRoom, fromThread)
    BY <1>15
  <2>2. /\ future[c] = "pending"
        /\ RoomOf[SessionOf[c]] = fromRoom
        /\ NoThread \in {fromThread, reqThread[c]} \/ fromThread = reqThread[c]
    BY <2>1 DEF Command, Resolvable
  <2>3. TypeOK'
    BY <2>1 DEF Command, TypeOK
  <2>4. (UndecidedIsFresh /\ OpenIsRegistered)'
    BY <2>1, <2>2 DEF Command, TypeOK, UndecidedIsFresh, OpenIsRegistered
  <2>5. /\ \A d \in Calls : d # c => approval'[d] = approval[d] /\ future'[d] = future[d]
        /\ reqThread' = reqThread /\ answer' = answer /\ cause' = cause
    BY <2>1 DEF Command, TypeOK
  <2>6. \/ Matches(c)'
        \/ approval' = approval /\ future'[c] = "denied"
    <3>1. CASE approved
      BY <2>1, <2>2, <3>1 DEF Command, Matches, TypeOK
    <3>2. CASE ~approved
      BY <2>1, <3>2 DEF Command, TypeOK
    <3> QED BY <3>1, <3>2
  <2>7. (ApprovedMatches /\ AllowedMeansApproved)'
    BY <2>5, <2>6 DEF ApprovedMatches, AllowedMeansApproved, Matches
  <2> QED BY <2>3, <2>4, <2>7
<1>16. CASE ExpireOld
  <2>1. DenyAll(registered \cap old)
    BY <1>16 DEF ExpireOld
  <2>2. TypeOK'
    BY <1>16, <2>1, DenyAllEffect DEF ExpireOld, TypeOK
  <2>3. (UndecidedIsFresh /\ OpenIsRegistered)'
    BY <1>16, <2>1, DenyAllEffect DEF ExpireOld, UndecidedIsFresh, OpenIsRegistered
  <2>4. (ApprovedMatches /\ AllowedMeansApproved)'
    BY <1>16, <2>1, DenyAllEffect DEF ExpireOld, ApprovedMatches, AllowedMeansApproved, Matches
  <2> QED BY <2>2, <2>3, <2>4
<1>17. CASE CloseServer
  BY <1>17 DEF CloseServer, TypeOK, UndecidedIsFresh, OpenIsRegistered,
              ApprovedMatches, AllowedMeansApproved, Matches
<1>18. CASE CancelConnections
  <2>1. TypeOK'
    BY <1>18 DEF CancelConnections, InFlight, TypeOK
  <2>2. (UndecidedIsFresh /\ OpenIsRegistered)'
    BY <1>18 DEF CancelConnections, InFlight, TypeOK, UndecidedIsFresh, OpenIsRegistered
  <2>3. (ApprovedMatches /\ AllowedMeansApproved)'
    BY <1>18 DEF CancelConnections, TypeOK, ApprovedMatches, AllowedMeansApproved, Matches
  <2> QED BY <2>1, <2>2, <2>3
<1>19. CASE UNCHANGED vars
  BY <1>19 DEF vars, TypeOK, UndecidedIsFresh, OpenIsRegistered, ApprovedMatches,
               AllowedMeansApproved, Matches
<1> QED BY <1>1, <1>2, <1>3, <1>4, <1>5, <1>6, <1>7, <1>8, <1>9, <1>10, <1>11, <1>12,
           <1>13, <1>14, <1>15, <1>16, <1>17, <1>18, <1>19 DEF Next, Handler

LEMMA Invariance == Spec => []IInv
BY InitInv, NextInv, PTL DEF Spec

-----------------------------------------------------------------------------
(* The theorems.                                                            *)

\* Every variable keeps its type.
THEOREM TypeCorrect == Spec => []TypeOK
BY Invariance, PTL DEF IInv

\* A call a human was asked about runs only on an approve from the request's
\* room and thread, whatever the timer, the sweep, a failed post, the end of
\* the session or of the broker does in between.
THEOREM OnlyApprovedCallsRun == Spec => []AllowedMeansApproved
BY Invariance, PTL DEF IInv

\* No request waits for an answer that cannot find it, however small the set
\* of ids and however many requests are out.
THEOREM OpenRequestsAreFound == Spec => []OpenIsRegistered
BY Invariance, PTL DEF IInv

\* Whoever decides a request first decides it.
THEOREM DecisionsStand == Spec => DecidedOnce
<1> DEFINE Kept == \A c \in Calls :
                      future[c] \notin {"none", "pending"} => future'[c] = future[c]
<1>1. IInv /\ [Next]_vars => [Kept]_vars
  <2> SUFFICES ASSUME IInv, Next, NEW c \in Calls, future[c] \notin {"none", "pending"}
               PROVE  future'[c] = future[c]
    BY DEF vars, registryVars
  <2> USE DEF IInv, registryVars
  <2>1. CASE UNCHANGED future
    BY <2>1
  <2>2. CASE \E C : DenyAll(C)
    BY <2>2, DenyAllEffect
  <2>3. CASE \E d \in Calls : Ask(d)
    BY <2>3 DEF Ask, TypeOK, UndecidedIsFresh
  <2>4. CASE \E d \in Calls : Timeout(d)
    BY <2>4 DEF Timeout, TypeOK
  <2>5. CASE \E d \in Calls, approved \in BOOLEAN, fromRoom \in Rooms,
                 fromThread \in Threads \cup {NoThread} :
                 Command(d, approved, fromRoom, fromThread)
    BY <2>5 DEF Command, Resolvable, TypeOK
  <2>6. CASE CancelConnections
    BY <2>6 DEF CancelConnections, TypeOK
  <2> QED BY <2>1, <2>2, <2>3, <2>4, <2>5, <2>6
          DEF Next, Handler, Bind, BeginTurn, StopSession, Hook, DecideAtOnce, NoFreeId,
              Posted, PostRaised, PostFailed, Resolved, Regretted, Seen, Age, ExpireOld,
              CloseServer
<1> QED BY <1>1, Invariance, PTL DEF Spec, DecidedOnce

\* Only the turn of an owner puts a request to a human.
THEOREM OwnersAsk == Spec => OnlyOwnersAsk
<1> DEFINE Owners == \A c \in Calls : future[c] = "none" /\ future'[c] = "pending" =>
                        role[SessionOf[c]] = "owner" /\ SessionOf[c] \in bound
<1>1. IInv /\ [Next]_vars => [Owners]_vars
  <2> SUFFICES ASSUME IInv, Next, NEW c \in Calls, future[c] = "none", future'[c] = "pending"
               PROVE  role[SessionOf[c]] = "owner" /\ SessionOf[c] \in bound
    BY DEF vars, registryVars
  <2> USE DEF IInv, registryVars
  <2>1. CASE UNCHANGED future
    BY <2>1
  <2>2. CASE \E C : DenyAll(C)
    BY <2>2, DenyAllEffect
  <2>3. CASE \E d \in Calls : Ask(d)
    <3>1. PICK d \in Calls : Ask(d)
      BY <2>3
    <3>2. d = c
      BY <3>1 DEF Ask, TypeOK
    <3> QED BY <3>1, <3>2, AskNeedsOwner DEF Ask
  <2>4. CASE \E d \in Calls : Timeout(d)
    BY <2>4 DEF Timeout, TypeOK
  <2>5. CASE \E d \in Calls, approved \in BOOLEAN, fromRoom \in Rooms,
                 fromThread \in Threads \cup {NoThread} :
                 Command(d, approved, fromRoom, fromThread)
    BY <2>5 DEF Command, Resolvable, TypeOK
  <2>6. CASE CancelConnections
    BY <2>6 DEF CancelConnections, TypeOK
  <2> QED BY <2>1, <2>2, <2>3, <2>4, <2>5, <2>6
          DEF Next, Handler, Bind, BeginTurn, StopSession, Hook, DecideAtOnce, NoFreeId,
              Posted, PostRaised, PostFailed, Resolved, Regretted, Seen, Age, ExpireOld,
              CloseServer
<1> QED BY <1>1, Invariance, PTL DEF Spec, OnlyOwnersAsk

-----------------------------------------------------------------------------
(* The OpenCode backend: the inductive invariant.                           *)

Coroutines == Turns \cup {OC!Svc}
UnderLock == {"invalidating", "spawning", "probing", "cleaning", "giving up", "terminating"}
TurnPlaces == {"idle", "waiting", "invalidating", "spawning", "probing", "cleaning",
               "giving up", "connecting", "posting", "reading", "ended"}
SvcPlaces == {"idle", "locking", "spawning", "probing", "cleaning", "giving up", "brokering",
              "serving", "denying", "stopping", "terminating", "stopped"}
Prompts == [on : OC!Sidecars \cup {OC!None},
            state : {"none", "running", "asking", "finished", "lost"}]
Listeners == [state : {"none", "up", "stopping"}, url : Ports \cup {OC!NoPort},
              from : OC!Sidecars \cup {OC!None}]

\* The names of what is not a turn or a port name none; stop() may not come to the start of
\* a turn, which it does not end (window "spawn").
Agents ==
    /\ OC!Svc \notin Turns /\ "nobody" \notin Turns /\ OC!NoPort \notin Ports
    /\ MaxSpawns \in Nat /\ MaxFailures \in Nat /\ "spawn" \notin Windows

\* What is known of the sidecars.
SidecarKinds ==
    /\ spawned \in 0 .. MaxSpawns /\ live \subseteq 1 .. spawned
    /\ port \in [OC!Sidecars -> Ports \cup {OC!NoPort}]
    /\ process \in 0 .. spawned /\ base \in Ports \cup {OC!NoPort}
    /\ client \in BOOLEAN /\ ever \in BOOLEAN /\ failures \in 0 .. MaxFailures

AskKinds ==
    /\ task \in [Turns -> OC!TaskStates] /\ prompt \in [Turns -> Prompts]
    /\ listener \in Listeners

\* The lock is held by the one that is at work under it; a turn that is has found a runtime
\* to replace, and less than the failures that end it.
LockHeld ==
    /\ lock \in Coroutines \cup {"nobody"}
    /\ at \in [Coroutines -> OC!Places]
    /\ \A t \in Turns : at[t] \in TurnPlaces
    /\ at[OC!Svc] \in SvcPlaces
    /\ \A c \in Coroutines : at[c] \in UnderLock <=> lock = c
    /\ lock \in Turns => ever /\ failures < MaxFailures

\* A sidecar runs that the backend does not offer only while it is probed.
RuntimeKnown ==
    /\ live \subseteq {process}
    /\ \A s \in live : port[s] \in Ports
    /\ \A c \in Coroutines :
          /\ at[c] \in {"invalidating", "spawning", "cleaning", "giving up"} => live = {}
          /\ at[c] \in {"spawning", "probing", "cleaning", "giving up"} => base = OC!NoPort
    /\ base = OC!NoPort /\ live # {} => \E c \in Coroutines : at[c] = "probing"

\* What was never started, or was stopped, has left nothing.
NothingIsLeft ==
    /\ ~ever /\ (lock # OC!Svc \/ at[OC!Svc] = "spawning") =>
          process = OC!None /\ base = OC!NoPort
    /\ at[OC!Svc] = "stopped" => ~ever

SidecarInv == SidecarKinds /\ LockHeld /\ RuntimeKnown /\ NothingIsLeft

LEMMA InitSidecarInv == Agents /\ OC!Init => SidecarInv /\ AskKinds
<1> SUFFICES ASSUME Agents, OC!Init PROVE SidecarInv /\ AskKinds
  OBVIOUS
<1> USE DEF Agents, OC!Init, OC!None
<1>1. SidecarKinds
  <2>1. client \in BOOLEAN /\ ever \in BOOLEAN
    BY Zenon
  <2>2. spawned = 0 /\ live = {} /\ process = 0 /\ base = OC!NoPort /\ failures = 0
    OBVIOUS
  <2>3. port \in [OC!Sidecars -> Ports \cup {OC!NoPort}]
    OBVIOUS
  <2> QED
    BY <2>1, <2>2, <2>3 DEF SidecarKinds
<1>2. LockHeld
  BY DEF LockHeld, Coroutines, OC!Places, TurnPlaces, SvcPlaces, UnderLock, OC!Svc
<1>3. RuntimeKnown /\ NothingIsLeft
  BY DEF RuntimeKnown, NothingIsLeft, Coroutines, OC!Svc
<1>4. AskKinds
  BY DEF AskKinds, OC!TaskStates, Prompts, Listeners, OC!NoPrompt, OC!NoBroker
<1> QED
  BY <1>1, <1>2, <1>3, <1>4 DEF SidecarInv

\* A step outside the lock that leaves the runtime alone.
LEMMA MovesOn ==
    ASSUME SidecarInv, NEW c \in Coroutines, at[c] \notin UnderLock,
           NEW to \in OC!Places \ UnderLock, at' = [at EXCEPT ![c] = to],
           c \in Turns => to \in TurnPlaces, c = OC!Svc => to \in SvcPlaces,
           to = "stopped" => ~ever,
           UNCHANGED <<live, port, spawned, process, base, client, ever, failures, lock>>
    PROVE  SidecarInv'
<1>1. SidecarKinds'
  BY DEF SidecarInv, SidecarKinds
<1>2. at'[c] = to /\ \A d \in Coroutines : d # c => at'[d] = at[d]
  BY DEF SidecarInv, LockHeld
<1>3. \A d \in Coroutines : \A p \in UnderLock : at'[d] = p <=> at[d] = p
  BY <1>2
<1>4. LockHeld'
  <2>1. \A d \in Coroutines : at'[d] \in UnderLock <=> at[d] \in UnderLock
    BY <1>3
  <2>2. \A t \in Turns : at'[t] \in TurnPlaces
    BY <1>2 DEF SidecarInv, LockHeld, Coroutines
  <2>3. at'[OC!Svc] \in SvcPlaces
    BY <1>2 DEF SidecarInv, LockHeld, Coroutines
  <2>4. at' \in [Coroutines -> OC!Places]
    BY DEF SidecarInv, LockHeld
  <2> QED
    BY <2>1, <2>2, <2>3, <2>4 DEF SidecarInv, LockHeld
<1>5. RuntimeKnown'
  BY <1>3 DEF SidecarInv, RuntimeKnown, UnderLock
<1>6. NothingIsLeft'
  <2>1. OC!Svc \in Coroutines
    BY DEF Coroutines
  <2>2. at'[OC!Svc] = "spawning" <=> at[OC!Svc] = "spawning"
    BY <1>3, <2>1 DEF UnderLock
  <2>3. at'[OC!Svc] = "stopped" => ~ever
    BY <1>2, <2>1 DEF SidecarInv, NothingIsLeft
  <2> QED
    BY <2>2, <2>3 DEF SidecarInv, NothingIsLeft
<1> QED
  BY <1>1, <1>4, <1>5, <1>6 DEF SidecarInv

\* What a step of the one that holds the lock, or takes it, does to the others' places.
LEMMA LockMoves ==
    ASSUME SidecarInv, Agents, NEW c \in Coroutines, lock \in {c, "nobody"}, NEW to \in OC!Places,
           at' = [at EXCEPT ![c] = to], to \in UnderLock <=> lock' = c,
           lock' \in {c, "nobody"}, c \in Turns => to \in TurnPlaces,
           c = OC!Svc => to \in SvcPlaces, lock' \in Turns => ever' /\ failures' < MaxFailures
    PROVE  /\ LockHeld' /\ at'[c] = to
           /\ \A d \in Coroutines : d # c => at'[d] = at[d] /\ at[d] \notin UnderLock
<1>1. at'[c] = to /\ \A d \in Coroutines : d # c => at'[d] = at[d]
  BY DEF SidecarInv, LockHeld
<1>2. "nobody" \notin Coroutines
  BY DEF Agents, Coroutines, OC!Svc
<1>3. \A d \in Coroutines : d # c => at[d] \notin UnderLock
  BY <1>2 DEF SidecarInv, LockHeld
<1>4. \A d \in Coroutines : at'[d] \in UnderLock <=> lock' = d
  BY <1>1, <1>2, <1>3
<1>5. \A t \in Turns : at'[t] \in TurnPlaces
  BY <1>1 DEF SidecarInv, LockHeld, Coroutines
<1>6. at'[OC!Svc] \in SvcPlaces
  BY <1>1 DEF SidecarInv, LockHeld, Coroutines
<1>7. at' \in [Coroutines -> OC!Places] /\ lock' \in Coroutines \cup {"nobody"}
  BY DEF SidecarInv, LockHeld
<1> QED
  BY <1>1, <1>3, <1>4, <1>5, <1>6, <1>7 DEF LockHeld

\* The turns' steps outside the lock.
LEMMA TurnsMoveOn ==
    ASSUME SidecarInv, Agents, NEW t \in Turns,
           \/ OC!Begin(t) \/ OC!Connect(t) \/ OC!Post(t) \/ OC!EndOfStream(t)
           \/ OC!Deadline(t) \/ OC!Finish(t)
           \/ OC!Cancel(t) /\ at[t] # "invalidating"
    PROVE  SidecarInv'
<1> USE DEF OC!At, OC!Go
<1>0. t \in Coroutines /\ t # OC!Svc
  BY DEF Coroutines, Agents
<1>1. lock = t => at[t] \in UnderLock
  BY <1>0 DEF SidecarInv, LockHeld
<1>2. UNCHANGED <<live, port, spawned, process, base, client, ever, failures, lock>>
  BY <1>1 DEF OC!Begin, OC!Connect, OC!Post, OC!EndOfStream, OC!Deadline, OC!Cancel, OC!Finish,
              OC!Ensured, OC!sidecarVars, OC!backendVars, UnderLock
<1>3. CASE at' = at
  <2>1. UNCHANGED <<live, port, spawned, process, base, client, ever, failures, lock, at>>
    BY <1>2, <1>3
  <2> QED
    BY <2>1 DEF SidecarInv, SidecarKinds, LockHeld, RuntimeKnown, NothingIsLeft
<1>4. CASE at' # at
  <2>1. /\ at[t] \in {"idle", "connecting", "posting", "reading", "waiting"}
        /\ \E to \in {"ended", "waiting", "connecting", "posting", "reading"} :
              at' = [at EXCEPT ![t] = to]
    BY <1>4 DEF OC!Begin, OC!Connect, OC!Post, OC!EndOfStream, OC!Deadline, OC!Cancel, OC!Finish,
                OC!Ensured
  <2> QED
    BY <1>0, <1>2, <2>1, MovesOn DEF UnderLock, OC!Places, TurnPlaces
<1> QED
  BY <1>3, <1>4

\* The service's steps outside the lock: what stop() finds without a process was stopped,
\* or never started.
LEMMA ServiceMovesOn ==
    ASSUME SidecarInv, Agents,
           \/ OC!Start \/ OC!Broker \/ OC!StopBroker \/ OC!StopBackend
           \/ OC!StartLocked /\ base # OC!NoPort
           \/ OC!StopLocked /\ OC!NothingToStop
    PROVE  SidecarInv'
<1> USE DEF OC!At, OC!Go
<1>1. OC!Svc \in Coroutines /\ OC!Svc \notin Turns
  BY DEF Coroutines, Agents
<1>2. UNCHANGED <<live, port, spawned, process, base, client, ever, failures, lock>>
  BY DEF OC!Start, OC!Broker, OC!StopBroker, OC!StopBackend, OC!StartLocked, OC!StopLocked,
         OC!NothingToStop, OC!sidecarVars, OC!backendVars
<1>3. /\ at[OC!Svc] \in {"idle", "locking", "brokering", "serving", "denying", "stopping"}
      /\ \/ \E to \in {"brokering", "locking", "denying", "serving", "stopping"} :
               at' = [at EXCEPT ![OC!Svc] = to]
         \/ at' = [at EXCEPT ![OC!Svc] = "stopped"] /\ ~ever
  BY DEF OC!Start, OC!Broker, OC!StopBroker, OC!StopBackend, OC!StartLocked, OC!StopLocked,
         OC!NothingToStop, Agents
<1> QED
  BY <1>1, <1>2, <1>3, MovesOn DEF UnderLock, OC!Places, SvcPlaces

\* What is true of the runtime whenever the lock is free.
LEMMA LockIsFree ==
    ASSUME SidecarInv, Agents, lock = "nobody"
    PROVE  /\ base = OC!NoPort => live = {}
           /\ OC!NeedsRestart => live = {} /\ ever
           /\ ~ever => process = OC!None /\ base = OC!NoPort
<1>1. \A c \in Coroutines : at[c] \notin UnderLock
  BY DEF SidecarInv, LockHeld, Agents, Coroutines, OC!Svc
<1>2. base = OC!NoPort => live = {}
  BY <1>1 DEF SidecarInv, RuntimeKnown, UnderLock
<1>3. ~ever => process = OC!None /\ base = OC!NoPort
  BY DEF SidecarInv, NothingIsLeft, OC!Svc
<1> QED
  BY <1>2, <1>3 DEF OC!NeedsRestart, SidecarInv, RuntimeKnown

\* Taking the lock.
LEMMA LocksWell ==
    ASSUME SidecarInv, Agents, NEW t \in Turns, OC!Locked(t)
    PROVE  SidecarInv'
<1> USE DEF OC!At
<1>0. t \in Coroutines /\ t # OC!Svc
  BY DEF Coroutines, Agents
<1>1. CASE UNCHANGED lock
  <2>1. /\ at[t] = "waiting"
        /\ UNCHANGED <<live, port, spawned, process, base, client, ever, failures, lock>>
        /\ \E to \in {"ended", "connecting"} : at' = [at EXCEPT ![t] = to]
    BY <1>1, <1>0 DEF OC!Locked, OC!Ensured, OC!sidecarVars, OC!backendVars, Agents
  <2> QED
    BY <1>0, <2>1, MovesOn DEF UnderLock, OC!Places, TurnPlaces
<1>2. CASE ~UNCHANGED lock
  <2>1. /\ at[t] = "waiting" /\ lock = "nobody" /\ lock' = t
        /\ OC!NeedsRestart /\ ~OC!Tripped /\ at' = [at EXCEPT ![t] = "invalidating"]
        /\ UNCHANGED <<live, port, spawned, process, base, client, ever, failures>>
    BY <1>2 DEF OC!Locked, OC!StillNeeded, OC!sidecarVars, OC!backendVars
  <2>2. live = {} /\ ever
    BY <2>1, LockIsFree
  <2>3. failures < MaxFailures
    BY <2>1 DEF OC!Tripped, SidecarInv, SidecarKinds, Agents
  <2>4. /\ LockHeld' /\ at'[t] = "invalidating"
        /\ \A d \in Coroutines : d # t => at'[d] = at[d] /\ at[d] \notin UnderLock
    BY <1>0, <2>1, <2>2, <2>3, LockMoves DEF UnderLock, OC!Places, TurnPlaces
  <2>5. SidecarKinds'
    BY <2>1 DEF SidecarInv, SidecarKinds
  <2>6. RuntimeKnown'
    BY <2>1, <2>2, <2>4 DEF SidecarInv, RuntimeKnown
  <2>7. NothingIsLeft'
    BY <1>0, <2>1, <2>2, <2>4 DEF SidecarInv, NothingIsLeft, Coroutines
  <2> QED
    BY <2>4, <2>5, <2>6, <2>7 DEF SidecarInv
<1> QED
  BY <1>1, <1>2

\* The start of the service takes the lock to start a sidecar, or its stop takes it to end one.
LEMMA ServiceLocksWell ==
    ASSUME SidecarInv, Agents,
           \/ OC!StartLocked /\ base = OC!NoPort
           \/ OC!StopLocked /\ ~OC!NothingToStop
    PROVE  SidecarInv'
<1> USE DEF OC!At
<1>1. /\ lock = "nobody" /\ lock' = OC!Svc
      /\ UNCHANGED <<live, port, spawned, process, base, client, ever, failures>>
      /\ \/ base = OC!NoPort /\ at' = [at EXCEPT ![OC!Svc] = "spawning"]
         \/ process # OC!None /\ at' = [at EXCEPT ![OC!Svc] = "terminating"]
  BY DEF OC!StartLocked, OC!StopLocked, OC!sidecarVars, OC!backendVars
<1>2. OC!Svc \in Coroutines /\ OC!Svc \notin Turns
  BY DEF Coroutines, Agents
<1>3. /\ base = OC!NoPort => live = {}
      /\ ~ever => process = OC!None /\ base = OC!NoPort
  BY <1>1, LockIsFree
<1>4. PICK to \in {"spawning", "terminating"} :
         /\ at' = [at EXCEPT ![OC!Svc] = to]
         /\ to = "spawning" => base = OC!NoPort
         /\ to = "terminating" => process # OC!None
  BY <1>1
<1>5. /\ LockHeld' /\ at'[OC!Svc] = to
      /\ \A d \in Coroutines : d # OC!Svc => at'[d] = at[d] /\ at[d] \notin UnderLock
  BY <1>1, <1>2, <1>4, LockMoves DEF UnderLock, OC!Places, SvcPlaces
<1>6. SidecarKinds'
  BY <1>1 DEF SidecarInv, SidecarKinds
<1>7. RuntimeKnown'
  BY <1>1, <1>3, <1>4, <1>5 DEF SidecarInv, RuntimeKnown, UnderLock
<1>8. NothingIsLeft'
  BY <1>1, <1>2, <1>3, <1>4, <1>5 DEF SidecarInv, NothingIsLeft
<1> QED
  BY <1>5, <1>6, <1>7, <1>8 DEF SidecarInv

\* A turn's restart forgets the dead runtime, or is cancelled before.
LEMMA InvalidatesWell ==
    ASSUME SidecarInv, Agents, NEW t \in Turns,
           OC!Invalidated(t) \/ (OC!Cancel(t) /\ at[t] = "invalidating")
    PROVE  SidecarInv'
<1> USE DEF OC!At, OC!Go
<1>0. t \in Coroutines /\ t # OC!Svc /\ t # "nobody"
  BY DEF Coroutines, Agents
<1>1. at[t] = "invalidating"
  BY DEF OC!Invalidated
<1>2. lock = t /\ ever /\ failures < MaxFailures /\ live = {}
  BY <1>0, <1>1 DEF SidecarInv, LockHeld, RuntimeKnown, UnderLock
<1>3. CASE OC!Invalidated(t)
  <2>1. /\ at' = [at EXCEPT ![t] = "spawning"] /\ process' = OC!None /\ base' = OC!NoPort
        /\ client' = FALSE /\ UNCHANGED <<live, port, spawned, ever, failures, lock>>
    BY <1>3 DEF OC!Invalidated, OC!sidecarVars
  <2>2. /\ LockHeld' /\ at'[t] = "spawning"
        /\ \A d \in Coroutines : d # t => at'[d] = at[d] /\ at[d] \notin UnderLock
    BY <1>0, <1>2, <2>1, LockMoves DEF UnderLock, OC!Places, TurnPlaces
  <2>3. SidecarKinds'
    <3>1. client' \in BOOLEAN
      BY <2>1
    <3> QED
      BY <2>1, <3>1 DEF SidecarInv, SidecarKinds, OC!None
  <2>4. RuntimeKnown'
    BY <1>2, <2>1, <2>2 DEF SidecarInv, RuntimeKnown
  <2>5. NothingIsLeft'
    BY <1>0, <1>2, <2>1, <2>2 DEF SidecarInv, NothingIsLeft, Coroutines
  <2> QED
    BY <2>2, <2>3, <2>4, <2>5 DEF SidecarInv
<1>4. CASE OC!Cancel(t)
  <2>1. /\ at' = [at EXCEPT ![t] = "ended"] /\ lock' = "nobody"
        /\ UNCHANGED <<live, port, spawned, process, base, client, ever, failures>>
    BY <1>2, <1>4 DEF OC!Cancel, OC!sidecarVars, OC!backendVars
  <2>2. /\ LockHeld' /\ at'[t] = "ended"
        /\ \A d \in Coroutines : d # t => at'[d] = at[d] /\ at[d] \notin UnderLock
    <3>1. "nobody" \notin Turns
      BY DEF Agents
    <3> QED
      BY <1>0, <1>2, <2>1, <3>1, LockMoves DEF UnderLock, OC!Places, TurnPlaces
  <2>3. SidecarKinds'
    BY <2>1 DEF SidecarInv, SidecarKinds
  <2>4. RuntimeKnown'
    BY <1>2, <2>1, <2>2 DEF SidecarInv, RuntimeKnown
  <2>5. NothingIsLeft'
    BY <1>0, <1>2, <2>1, <2>2 DEF SidecarInv, NothingIsLeft, Coroutines
  <2> QED
    BY <2>2, <2>3, <2>4, <2>5 DEF SidecarInv
<1> QED
  BY <1>3, <1>4

\* Whoever starts a sidecar holds the lock, and has found none.
LEMMA StartersHold ==
    ASSUME SidecarInv, Agents, NEW c \in Coroutines,
           at[c] \in {"spawning", "probing", "cleaning", "giving up"}
    PROVE  /\ lock = c /\ c # "nobody" /\ base = OC!NoPort
           /\ at[c] # "probing" => live = {}
           /\ c \in Turns => ever /\ failures < MaxFailures /\ c # OC!Svc
           /\ c = OC!Svc \/ c \in Turns
           /\ \A d \in Coroutines : d # c => at[d] \notin UnderLock
<1>1. c # "nobody" /\ (c = OC!Svc \/ c \in Turns) /\ (c \in Turns => c # OC!Svc)
  BY DEF Coroutines, Agents, OC!Svc
<1>2. lock = c
  BY DEF SidecarInv, LockHeld, UnderLock
<1> QED
  BY <1>1, <1>2 DEF SidecarInv, LockHeld, RuntimeKnown

LEMMA SpawnsWell ==
    ASSUME SidecarInv, Agents, NEW c \in Coroutines, OC!Spawned(c)
    PROVE  SidecarInv'
<1> USE DEF OC!At, OC!Go
<1>1. PICK p \in Ports \ {port[s] : s \in live} :
         /\ at[c] = "spawning" /\ at' = [at EXCEPT ![c] = "probing"] /\ spawned < MaxSpawns
         /\ spawned' = spawned + 1 /\ process' = spawned + 1
         /\ live' = live \cup {spawned + 1} /\ port' = [port EXCEPT ![spawned + 1] = p]
         /\ UNCHANGED <<base, client, ever, failures, lock>>
  BY DEF OC!Spawned
<1>2. /\ lock = c /\ c # "nobody" /\ base = OC!NoPort /\ live = {}
      /\ c \in Turns => ever /\ failures < MaxFailures /\ c # OC!Svc
      /\ c = OC!Svc \/ c \in Turns
  BY <1>1, StartersHold
<1>3. /\ LockHeld' /\ at'[c] = "probing"
      /\ \A d \in Coroutines : d # c => at'[d] = at[d] /\ at[d] \notin UnderLock
  BY <1>1, <1>2, LockMoves DEF UnderLock, OC!Places, TurnPlaces, SvcPlaces
<1>4. SidecarKinds'
  <2>1. spawned \in Nat /\ MaxSpawns \in Nat /\ spawned + 1 \in 0 .. MaxSpawns
    BY <1>1 DEF SidecarInv, SidecarKinds, Agents
  <2>2. live' = {spawned'} /\ live' \subseteq 1 .. spawned' /\ process' \in 0 .. spawned'
    BY <1>1, <1>2, <2>1
  <2>3. port' \in [OC!Sidecars -> Ports \cup {OC!NoPort}]
    BY <1>1 DEF SidecarInv, SidecarKinds
  <2> QED
    BY <1>1, <2>1, <2>2, <2>3 DEF SidecarInv, SidecarKinds
<1>5. live' = {process'} /\ port'[process'] \in Ports
  <2>1. spawned + 1 \in OC!Sidecars
    BY <1>1 DEF SidecarInv, SidecarKinds, Agents, OC!Sidecars
  <2> QED
    BY <1>1, <1>2, <2>1 DEF SidecarInv, SidecarKinds
<1>6. RuntimeKnown'
  BY <1>1, <1>2, <1>3, <1>5 DEF RuntimeKnown, UnderLock
<1>7. NothingIsLeft'
  BY <1>1, <1>2, <1>3 DEF SidecarInv, NothingIsLeft, UnderLock, Coroutines
<1> QED
  BY <1>3, <1>4, <1>6, <1>7 DEF SidecarInv

\* A start that failed leaves no sidecar and no lock.
LEMMA FailsWell ==
    ASSUME SidecarInv, Agents, NEW c \in Coroutines, OC!NotSpawned(c) \/ OC!CleanedUp(c)
    PROVE  SidecarInv'
<1> USE DEF OC!At
<1>1. /\ at[c] \in {"spawning", "cleaning", "giving up"}
      /\ at' = [at EXCEPT ![c] = IF c = OC!Svc THEN "idle" ELSE "ended"]
      /\ lock' = "nobody" /\ UNCHANGED <<live, port, spawned, client, ever>>
      /\ failures' = failures \/ (c # OC!Svc /\ failures' = failures + 1)
      /\ \/ process' = OC!None /\ base' = OC!NoPort
         \/ at[c] = "spawning" /\ process' = process /\ base' = base
  BY DEF OC!NotSpawned, OC!CleanedUp, OC!Failed, OC!Counted, OC!sidecarVars
<1>2. /\ lock = c /\ c # "nobody" /\ base = OC!NoPort /\ live = {}
      /\ c \in Turns => ever /\ failures < MaxFailures /\ c # OC!Svc
      /\ c = OC!Svc \/ c \in Turns
  BY <1>1, StartersHold
<1> DEFINE to == IF c = OC!Svc THEN "idle" ELSE "ended"
<1>3. /\ LockHeld' /\ at'[c] = to
      /\ \A d \in Coroutines : d # c => at'[d] = at[d] /\ at[d] \notin UnderLock
  <2>1. "nobody" \notin Turns
    BY DEF Agents
  <2> QED
    BY <1>1, <1>2, <2>1, LockMoves DEF UnderLock, OC!Places, TurnPlaces, SvcPlaces
<1>4. SidecarKinds'
  <2>0. /\ failures \in 0 .. MaxFailures /\ MaxFailures \in Nat
        /\ process \in 0 .. spawned /\ spawned \in Nat /\ base \in Ports \cup {OC!NoPort}
    BY DEF SidecarInv, SidecarKinds, Agents
  <2>1. failures' \in 0 .. MaxFailures
    <3>1. failures' = failures \/ (failures < MaxFailures /\ failures' = failures + 1)
      BY <1>1, <1>2, Zenon
    <3> QED
      BY <2>0, <3>1
  <2>2. process' \in 0 .. spawned /\ base' \in Ports \cup {OC!NoPort}
    <3>1. (process' = OC!None /\ base' = OC!NoPort) \/ (process' = process /\ base' = base)
      BY <1>1, Zenon
    <3> QED
      BY <2>0, <3>1 DEF OC!None
  <2> QED
    BY <1>1, <2>1, <2>2 DEF SidecarInv, SidecarKinds
<1>5. RuntimeKnown'
  BY <1>1, <1>2, <1>3 DEF RuntimeKnown, UnderLock
<1>6. NothingIsLeft'
  <2>1. ASSUME ~ever PROVE process' = OC!None /\ base' = OC!NoPort
    <3>1. c = OC!Svc
      BY <1>2, <2>1
    <3> QED
      BY <1>1, <1>2, <2>1, <3>1 DEF SidecarInv, NothingIsLeft
  <2>2. at'[OC!Svc] = "stopped" => ~ever
    <3>1. CASE c = OC!Svc
      BY <1>3, <3>1
    <3>2. CASE c # OC!Svc
      BY <1>3, <3>2 DEF SidecarInv, NothingIsLeft, Coroutines
    <3> QED
      BY <3>1, <3>2
  <2> QED
    BY <1>1, <2>1, <2>2 DEF NothingIsLeft
<1> QED
  BY <1>3, <1>4, <1>5, <1>6 DEF SidecarInv

LEMMA ProbesWell ==
    ASSUME SidecarInv, Agents, NEW c \in Coroutines, OC!Healthy(c) \/ OC!Unhealthy(c)
    PROVE  SidecarInv'
<1> USE DEF OC!At
<1>1. at[c] = "probing"
  BY DEF OC!Healthy, OC!Unhealthy
<1>2. /\ lock = c /\ c # "nobody" /\ base = OC!NoPort
      /\ c \in Turns => ever /\ failures < MaxFailures /\ c # OC!Svc
      /\ c = OC!Svc \/ c \in Turns
      /\ live \subseteq {process}
  BY <1>1, StartersHold DEF SidecarInv, RuntimeKnown
<1>3. CASE OC!Healthy(c)
  <2> DEFINE to == IF c = OC!Svc THEN "brokering" ELSE "connecting"
  <2>1. /\ process \in live /\ base' = port[process] /\ ever' = TRUE /\ client' = TRUE
        /\ lock' = "nobody" /\ at' = [at EXCEPT ![c] = to]
        /\ failures' = failures \/ failures' = 0
        /\ UNCHANGED <<live, port, spawned, process>>
    BY <1>3 DEF OC!Healthy, OC!sidecarVars
  <2>2. /\ LockHeld' /\ at'[c] = to
        /\ \A d \in Coroutines : d # c => at'[d] = at[d] /\ at[d] \notin UnderLock
    <3>1. "nobody" \notin Turns
      BY DEF Agents
    <3> QED
      BY <1>2, <2>1, <3>1, LockMoves DEF UnderLock, OC!Places, TurnPlaces, SvcPlaces
  <2>3. base' \in Ports
    BY <2>1 DEF SidecarInv, RuntimeKnown
  <2>4. SidecarKinds'
    <3>1. ever' \in BOOLEAN /\ client' \in BOOLEAN
      BY <2>1
    <3>2. failures' \in 0 .. MaxFailures
      <4>1. failures \in 0 .. MaxFailures /\ MaxFailures \in Nat
        BY DEF SidecarInv, SidecarKinds, Agents
      <4> QED
        BY <2>1, <4>1
    <3> QED
      BY <2>1, <2>3, <3>1, <3>2 DEF SidecarInv, SidecarKinds
  <2>5. RuntimeKnown'
    <3>1. live' = live /\ process' = process /\ port' = port /\ base' # OC!NoPort
      BY <2>1, <2>3 DEF Agents
    <3>2. \A d \in Coroutines : at'[d] \notin UnderLock
      BY <2>2 DEF UnderLock
    <3> QED
      BY <1>2, <3>1, <3>2 DEF SidecarInv, RuntimeKnown, UnderLock
  <2>6. NothingIsLeft'
    <3>1. at'[OC!Svc] # "stopped"
      <4>1. CASE c = OC!Svc
        BY <2>2, <4>1
      <4>2. CASE c # OC!Svc
        <5>1. ever
          BY <1>2, <4>2
        <5> QED
          BY <2>2, <4>2, <5>1 DEF SidecarInv, NothingIsLeft, Coroutines
      <4> QED
        BY <4>1, <4>2
    <3> QED
      BY <2>1, <3>1 DEF NothingIsLeft
  <2> QED
    BY <2>2, <2>4, <2>5, <2>6 DEF SidecarInv
<1>4. CASE OC!Unhealthy(c)
  <2>1. PICK to \in {"cleaning", "giving up"} :
           /\ at' = [at EXCEPT ![c] = to] /\ live' = live \ {process}
           /\ UNCHANGED <<port, spawned, process, base, client, ever, failures, lock>>
    BY <1>4 DEF OC!Unhealthy, OC!backendVars
  <2>2. /\ LockHeld' /\ at'[c] = to
        /\ \A d \in Coroutines : d # c => at'[d] = at[d] /\ at[d] \notin UnderLock
    BY <1>2, <2>1, LockMoves DEF UnderLock, OC!Places, TurnPlaces, SvcPlaces
  <2>3. live' = {}
    BY <1>2, <2>1
  <2>4. SidecarKinds'
    BY <2>1, <2>3 DEF SidecarInv, SidecarKinds
  <2>5. RuntimeKnown'
    BY <1>2, <2>1, <2>2, <2>3 DEF RuntimeKnown, UnderLock
  <2>6. NothingIsLeft'
    BY <1>2, <2>1, <2>2 DEF SidecarInv, NothingIsLeft, Coroutines
  <2> QED
    BY <2>2, <2>4, <2>5, <2>6 DEF SidecarInv
<1> QED
  BY <1>3, <1>4

\* A sidecar that dies takes nothing of the backend's with it.
LEMMA DiesWell ==
    ASSUME SidecarInv, NEW s, OC!Dies(s)
    PROVE  SidecarInv'
<1>1. /\ live' = live \ {s}
      /\ UNCHANGED <<port, spawned, process, base, client, ever, failures, lock, at>>
  BY DEF OC!Dies, OC!backendVars
<1>2. SidecarKinds' /\ LockHeld' /\ NothingIsLeft'
  BY <1>1 DEF SidecarInv, SidecarKinds, LockHeld, NothingIsLeft
<1>3. RuntimeKnown'
  BY <1>1 DEF SidecarInv, RuntimeKnown
<1> QED
  BY <1>2, <1>3 DEF SidecarInv

\* stop() ends the sidecar there is, and forgets that there ever was one.
LEMMA TerminatesWell ==
    ASSUME SidecarInv, Agents, OC!Terminated
    PROVE  SidecarInv'
<1>1. /\ at[OC!Svc] = "terminating" /\ at' = [at EXCEPT ![OC!Svc] = "stopped"]
      /\ live' = live \ {process} /\ process' = OC!None /\ base' = OC!NoPort /\ client' = FALSE
      /\ ever' = FALSE /\ failures' = 0 /\ lock' = "nobody" /\ UNCHANGED <<port, spawned>>
  BY DEF OC!Terminated, OC!Forgotten, OC!Go, OC!At
<1>2. OC!Svc \in Coroutines /\ OC!Svc \notin Turns /\ "nobody" \notin Turns /\ OC!Svc # "nobody"
  BY DEF Coroutines, Agents, OC!Svc
<1>3. lock = OC!Svc /\ live' = {}
  BY <1>1, <1>2 DEF SidecarInv, LockHeld, RuntimeKnown, UnderLock
<1>4. /\ LockHeld' /\ at'[OC!Svc] = "stopped"
      /\ \A d \in Coroutines : d # OC!Svc => at'[d] = at[d] /\ at[d] \notin UnderLock
  BY <1>1, <1>2, <1>3, LockMoves DEF UnderLock, OC!Places, SvcPlaces
<1>5. SidecarKinds'
  <2>1. ever' \in BOOLEAN /\ client' \in BOOLEAN
    BY <1>1, Zenon
  <2>2. failures' \in 0 .. MaxFailures /\ spawned' \in 0 .. MaxSpawns /\ process' \in 0 .. spawned'
    BY <1>1 DEF SidecarInv, SidecarKinds, Agents, OC!None
  <2> QED
    BY <1>1, <1>3, <2>1, <2>2 DEF SidecarInv, SidecarKinds
<1>6. RuntimeKnown'
  BY <1>3, <1>4 DEF RuntimeKnown, UnderLock
<1>7. NothingIsLeft'
  BY <1>1 DEF NothingIsLeft
<1> QED
  BY <1>4, <1>5, <1>6, <1>7 DEF SidecarInv

LEMMA NextSidecarInv ==
    ASSUME SidecarInv, Agents, [OC!Next]_ocVars
    PROVE  SidecarInv'
<1>1. ASSUME UNCHANGED <<live, port, spawned, process, base, client, ever, failures, lock, at>>
      PROVE  SidecarInv'
  BY <1>1 DEF SidecarInv, SidecarKinds, LockHeld, RuntimeKnown, NothingIsLeft
<1>2. CASE UNCHANGED ocVars
  BY <1>1, <1>2 DEF ocVars
<1>3. CASE OC!SidecarNext
  <2>1. ASSUME NEW t \in Turns, OC!Ask(t) PROVE SidecarInv'
    BY <1>1, <2>1 DEF OC!Ask, OC!sidecarVars, OC!backendVars
  <2> QED
    BY <1>3, <2>1, DiesWell, TurnsMoveOn DEF OC!SidecarNext
<1>4. CASE OC!SvcNext
  BY <1>4, ServiceMovesOn, ServiceLocksWell, TerminatesWell DEF OC!SvcNext
<1>5. CASE OC!Listen \/ OC!Broken
  BY <1>1, <1>5 DEF OC!Listen, OC!Broken, OC!sidecarVars, OC!backendVars
<1>6. ASSUME NEW t \in Turns, OC!TurnNext(t) PROVE SidecarInv'
  BY <1>6, TurnsMoveOn, LocksWell, InvalidatesWell DEF OC!TurnNext
<1>7. ASSUME NEW t \in Turns, OC!AskNext(t) PROVE SidecarInv'
  BY <1>1, <1>7 DEF OC!AskNext, OC!Parse, OC!Decide, OC!AskHuman, OC!Reply, OC!sidecarVars,
                    OC!backendVars
<1>8. ASSUME NEW c \in Turns \cup {OC!Svc}, OC!StarterNext(c) PROVE SidecarInv'
  BY <1>8, SpawnsWell, FailsWell, ProbesWell DEF OC!StarterNext, Coroutines
<1> QED
  BY <1>2, <1>3, <1>4, <1>5, <1>6, <1>7, <1>8 DEF OC!Next

-----------------------------------------------------------------------------
(* What the broker works on.                                                *)

\* A request that waits is worked on or lost; what was asked once is not asked again.
AsksHeld == AskKinds /\ OC!NoAskForgotten

LEMMA NextAsksHeld ==
    ASSUME AsksHeld, SidecarInv, Agents, [OC!Next]_ocVars
    PROVE  AsksHeld'
<1>1. ASSUME UNCHANGED <<prompt, listener, task>> PROVE AsksHeld'
  BY <1>1 DEF AsksHeld, AskKinds, OC!NoAskForgotten
<1> DEFINE gone == {"lost", "finished", "running"}
<1>2. ASSUME prompt' \in [Turns -> Prompts], UNCHANGED <<listener, task>>,
             \A t \in Turns : prompt'[t] = prompt[t] \/ prompt'[t].state \in gone
      PROVE  AsksHeld'
  BY <1>2 DEF AsksHeld, AskKinds, OC!NoAskForgotten
<1>3. ASSUME prompt' = prompt, listener' \in Listeners, task' \in [Turns -> OC!TaskStates],
             \A t \in Turns : \/ task'[t] = task[t]
                              \/ task'[t] \in OC!Working \cup {"missed", "unanswered"}
      PROVE  AsksHeld'
  BY <1>3 DEF AsksHeld, AskKinds, OC!NoAskForgotten
<1>4. ASSUME NEW S, OC!Lost(S), UNCHANGED <<listener, task>> PROVE AsksHeld'
  <2>1. ASSUME NEW t \in Turns
        PROVE  /\ [prompt[t] EXCEPT !.state = "lost"] \in Prompts
               /\ [prompt[t] EXCEPT !.state = "lost"].state = "lost"
    BY DEF AsksHeld, AskKinds, Prompts
  <2>2. prompt' \in [Turns -> Prompts]
    BY <1>4, <2>1 DEF OC!Lost, AsksHeld, AskKinds
  <2>3. \A t \in Turns : prompt'[t] = prompt[t] \/ prompt'[t].state \in gone
    BY <1>4, <2>1 DEF OC!Lost
  <2> QED
    BY <1>2, <1>4, <2>2, <2>3
<1>5. CASE UNCHANGED ocVars
  BY <1>1, <1>5 DEF ocVars
<1>6. CASE OC!SidecarNext
  <2>1. ASSUME NEW s \in OC!Sidecars, OC!Dies(s) PROVE AsksHeld'
    BY <1>4, <2>1 DEF OC!Dies, OC!brokerVars
  <2>2. ASSUME NEW t \in Turns, OC!Finish(t) PROVE AsksHeld'
    <3>1. /\ [prompt[t] EXCEPT !.state = "finished"] \in Prompts
          /\ [prompt[t] EXCEPT !.state = "finished"].state = "finished"
      BY DEF AsksHeld, AskKinds, Prompts
    <3>2. /\ prompt' = [prompt EXCEPT ![t] = [prompt[t] EXCEPT !.state = "finished"]]
          /\ UNCHANGED <<listener, task>>
      BY <2>2 DEF OC!Finish, OC!brokerVars
    <3> QED
      BY <1>2, <3>1, <3>2 DEF AsksHeld, AskKinds
  <2>3. ASSUME NEW t \in Turns, OC!Ask(t) PROVE AsksHeld'
    <3>1. [prompt[t] EXCEPT !.state = "asking"] \in Prompts
      BY DEF AsksHeld, AskKinds, Prompts
    <3>2. PICK s \in {"sent", "missed"} :
             /\ prompt' = [prompt EXCEPT ![t] = [prompt[t] EXCEPT !.state = "asking"]]
             /\ task' = [task EXCEPT ![t] = s] /\ UNCHANGED listener
      BY <2>3 DEF OC!Ask
    <3>3. AskKinds'
      BY <3>1, <3>2 DEF AsksHeld, AskKinds, OC!TaskStates
    <3> QED
      BY <3>1, <3>2, <3>3 DEF AsksHeld, AskKinds, OC!NoAskForgotten, OC!Working
  <2> QED
    BY <1>6, <2>1, <2>2, <2>3 DEF OC!SidecarNext
<1>7. CASE OC!SvcNext
  <2>1. CASE OC!StopBroker
    <3>1. /\ listener' = [listener EXCEPT !.state = "stopping", !.from = OC!None]
          /\ task' = [t \in Turns |-> OC!EndsAs(task[t])] /\ prompt' = prompt
      BY <2>1 DEF OC!StopBroker, OC!turnVars
    <3>2. ASSUME NEW t \in Turns
          PROVE  /\ OC!EndsAs(task[t]) \in OC!TaskStates
                 /\ OC!EndsAs(task[t]) = task[t] \/ OC!EndsAs(task[t]) \in {"denying", "missed"}
      BY DEF OC!EndsAs, AsksHeld, AskKinds, OC!TaskStates
    <3>3. listener' \in Listeners
      BY <3>1 DEF AsksHeld, AskKinds, Listeners
    <3> QED
      BY <1>3, <3>1, <3>2, <3>3 DEF OC!Working
  <2>2. CASE OC!Terminated
    BY <1>4, <2>2 DEF OC!Terminated, OC!brokerVars
  <2>3. CASE OC!Broker \/ OC!StopBackend
    <3>1. /\ prompt' = prompt /\ task' = task
          /\ listener' \in {listener, OC!NoBroker, [state |-> "up", url |-> base, from |-> OC!None]}
      BY <2>3 DEF OC!Broker, OC!StopBackend, OC!turnVars
    <3>2. base \in Ports \cup {OC!NoPort}
      BY DEF SidecarInv, SidecarKinds
    <3>3. listener' \in Listeners
      BY <3>1, <3>2 DEF AsksHeld, AskKinds, Listeners, OC!NoBroker
    <3> QED
      BY <1>3, <3>1, <3>3 DEF AsksHeld, AskKinds
  <2>4. CASE OC!Start \/ OC!StartLocked \/ OC!StopLocked
    BY <1>1, <2>4 DEF OC!Start, OC!StartLocked, OC!StopLocked, OC!turnVars, OC!brokerVars
  <2> QED
    BY <1>7, <2>1, <2>2, <2>3, <2>4 DEF OC!SvcNext
<1>8. CASE OC!Listen
  <2>1. PICK s \in live : listener' = [listener EXCEPT !.from = s] /\ UNCHANGED <<prompt, task>>
    BY <1>8 DEF OC!Listen, OC!Listening, OC!turnVars
  <2>2. s \in OC!Sidecars
    BY DEF SidecarInv, SidecarKinds, Agents, OC!Sidecars
  <2>3. listener' \in Listeners
    BY <2>1, <2>2 DEF AsksHeld, AskKinds, Listeners
  <2> QED
    BY <1>3, <2>1, <2>3 DEF AsksHeld, AskKinds
<1>9. CASE OC!Broken
  <2>1. /\ listener' = [listener EXCEPT !.from = OC!None] /\ prompt' = prompt
        /\ task' = [t \in Turns |-> IF task[t] \in {"sent", "parsing"} THEN "missed" ELSE task[t]]
    BY <1>9 DEF OC!Broken, OC!turnVars
  <2>2. listener' \in Listeners
    BY <2>1 DEF AsksHeld, AskKinds, Listeners
  <2> QED
    BY <1>3, <2>1, <2>2 DEF AsksHeld, AskKinds, OC!TaskStates
<1>10. ASSUME NEW t \in Turns, OC!TurnNext(t) PROVE AsksHeld'
  <2>1. CASE OC!Post(t)
    <3>1. CASE prompt' = prompt
      BY <1>1, <2>1, <3>1 DEF OC!Post, OC!brokerVars
    <3>2. CASE prompt' # prompt
      <4>1. PICK s \in live :
               /\ prompt' = [prompt EXCEPT ![t] = [on |-> s, state |-> "running"]]
               /\ UNCHANGED <<listener, task>>
        BY <2>1, <3>2 DEF OC!Post, OC!Listening, OC!brokerVars
      <4>2. s \in OC!Sidecars
        BY DEF SidecarInv, SidecarKinds, Agents, OC!Sidecars
      <4>3. [on |-> s, state |-> "running"] \in Prompts
        BY <4>2 DEF Prompts
      <4> QED
        BY <1>2, <4>1, <4>3 DEF AsksHeld, AskKinds
    <3> QED
      BY <3>1, <3>2
  <2>2. CASE ~OC!Post(t)
    BY <1>1, <1>10, <2>2 DEF OC!TurnNext, OC!Begin, OC!Locked, OC!Invalidated, OC!Connect,
          OC!EndOfStream, OC!Deadline, OC!Cancel, OC!turnVars, OC!brokerVars
  <2> QED
    BY <2>1, <2>2
<1>11. ASSUME NEW t \in Turns, OC!AskNext(t) PROVE AsksHeld'
  <2>1. CASE OC!Parse(t) \/ OC!Decide(t) \/ OC!AskHuman(t)
    <3>1. /\ prompt' = prompt /\ listener' = listener
          /\ \E s \in {"parsing", "auto", "queued", "human"} : task' = [task EXCEPT ![t] = s]
      BY <2>1 DEF OC!Parse, OC!Decide, OC!AskHuman, OC!Task, OC!turnVars
    <3> QED
      BY <1>3, <3>1 DEF AsksHeld, AskKinds, OC!TaskStates, OC!Working
  <2>2. CASE OC!Reply(t)
    <3>1. CASE task' = [task EXCEPT ![t] = "unanswered"] /\ prompt' = prompt
      BY <1>3, <2>2, <3>1 DEF OC!Reply, AsksHeld, AskKinds, OC!TaskStates
    <3>2. CASE /\ prompt' = [prompt EXCEPT ![t] = [prompt[t] EXCEPT !.state = "running"]]
               /\ task' = [task EXCEPT ![t] = "answered"]
      <4>1. /\ [prompt[t] EXCEPT !.state = "running"] \in Prompts
            /\ [prompt[t] EXCEPT !.state = "running"].state = "running"
        BY DEF AsksHeld, AskKinds, Prompts
      <4>2. listener' = listener
        BY <2>2 DEF OC!Reply
      <4>3. AskKinds'
        BY <3>2, <4>1, <4>2 DEF AsksHeld, AskKinds, OC!TaskStates
      <4> QED
        BY <3>2, <4>1, <4>3 DEF AsksHeld, AskKinds, OC!NoAskForgotten
    <3> QED
      BY <2>2, <3>1, <3>2 DEF OC!Reply
  <2> QED
    BY <1>11, <2>1, <2>2 DEF OC!AskNext
<1>12. ASSUME NEW c \in Turns \cup {OC!Svc}, OC!StarterNext(c) PROVE AsksHeld'
  BY <1>1, <1>12 DEF OC!StarterNext, OC!Spawned, OC!NotSpawned, OC!Healthy, OC!Unhealthy,
                     OC!CleanedUp, OC!turnVars, OC!brokerVars
<1> QED
  BY <1>5, <1>6, <1>7, <1>8, <1>9, <1>10, <1>11, <1>12 DEF OC!Next

-----------------------------------------------------------------------------
(* What holds of the OpenCode backend.                                      *)

LEMMA SidecarInvariance ==
    ASSUME Agents
    PROVE  MCSpec => [](SidecarInv /\ AsksHeld)
<1>1. MCInit => SidecarInv /\ AsksHeld
  <2>1. OC!Init => OC!NoAskForgotten
    BY DEF OC!Init, OC!NoAskForgotten, OC!NoPrompt
  <2> QED
    BY <2>1, InitSidecarInv DEF MCInit, AsksHeld
<1>2. [MCNext]_<<kind, vars, ocVars, patternVars>> => [OC!Next]_ocVars
  BY DEF MCNext
<1>3. SidecarInv /\ AsksHeld /\ [OC!Next]_ocVars => (SidecarInv /\ AsksHeld)'
  BY NextSidecarInv, NextAsksHeld
<1> QED
  BY <1>1, <1>2, <1>3, PTL DEF MCSpec

\* However many turns find the sidecar dead, and wherever a start fails, is cancelled or meets
\* stop(), there is one sidecar at most, the backend knows it, and none is left or started
\* once the backend was stopped (_ensure_live_runtime, _start_inner, stop).
THEOREM OneSidecarRuns ==
    ASSUME Agents
    PROVE  MCSpec => []OneSidecar
<1>1. SidecarInv /\ AsksHeld => OneSidecar
  <2> SUFFICES ASSUME SidecarInv, AsksHeld PROVE OneSidecar
    OBVIOUS
  <2>1. OC!TypeOK
    <3>1. lock # "nobody" => at[lock] \in UnderLock
      BY DEF SidecarInv, LockHeld
    <3>2. listener.url \in Ports \cup {OC!NoPort}
      BY DEF AsksHeld, AskKinds, Listeners
    <3> QED
      BY <3>1, <3>2 DEF OC!TypeOK, SidecarInv, SidecarKinds, LockHeld, AsksHeld, AskKinds,
                        Coroutines, UnderLock
  <2>2. OC!OneSidecar
    BY DEF OC!OneSidecar, SidecarInv, RuntimeKnown
  <2>3. OC!StaysStopped
    <3>1. ASSUME at[OC!Svc] = "stopped" PROVE live = {} /\ base = OC!NoPort
      <4>1. ~ever /\ lock # OC!Svc
        BY <3>1 DEF SidecarInv, NothingIsLeft, LockHeld, Coroutines, UnderLock
      <4>2. process = OC!None /\ base = OC!NoPort
        BY <4>1 DEF SidecarInv, NothingIsLeft
      <4>3. live \subseteq 1 .. spawned /\ spawned \in Nat
        BY DEF SidecarInv, SidecarKinds, Agents
      <4>4. live \subseteq {0}
        BY <4>2 DEF SidecarInv, RuntimeKnown, OC!None
      <4> QED
        BY <4>2, <4>3, <4>4
    <3> QED
      BY <3>1 DEF OC!StaysStopped
  <2> QED
    BY <2>1, <2>2, <2>3 DEF OneSidecar
<1> QED
  BY <1>1, SidecarInvariance, PTL

\* A permission that a sidecar waits for is one that the broker works on, or whose question
\* or answer was lost on its way: a stop of the broker forgets none
\* (OpenCodePermissionBroker.stop, _reply_to_opencode).
THEOREM AsksAreHeld ==
    ASSUME Agents
    PROVE  MCSpec => []OC!NoAskForgotten
<1>1. AsksHeld => OC!NoAskForgotten
  BY DEF AsksHeld
<1> QED
  BY <1>1, SidecarInvariance, PTL
====
