-------------------------- MODULE PermissionBroker --------------------------
(***************************************************************************)
(* A tool call's way through the permission machinery: the Claude broker's  *)
(* hook handler and its policy (agents/claude/broker.py), the request it    *)
(* posts and waits on (core/permission.py), the registry of pending        *)
(* requests (core/permission_state.py), the owner's approve and deny        *)
(* commands (core/dispatch.py), the expiry sweep (core/expiry_task.py) and  *)
(* the end of a session or of the broker while a request is out.            *)
(*                                                                         *)
(* One step runs from one await to the next.                                *)
(***************************************************************************)
EXTENDS Naturals

CONSTANTS
    Calls,          \* the tool calls agents make, one hook connection each
    Sessions, Rooms, Threads,
    SessionOf,      \* SessionOf[c]: the session that makes call c
    RoomOf,         \* RoomOf[s]: the room session s is bound to
    Meta,           \* calls of meta tools (_CLAUDE_META_TOOLS)
    GuestAllowed,   \* calls that match guest_allowed_tools
    OwnerAllowed,   \* calls that match owner_allowed_tools
    SkipOwner,      \* skip_owner_approval
    HumanApproval,  \* permissions.enabled
    Ids,            \* the request ids; four characters in the code
    MaxAttempts,    \* attempts of the notifier to post a message (3)
    NoThread, NoId

ASSUME MapsAssumption == /\ SessionOf \in [Calls -> Sessions]
                         /\ RoomOf \in [Sessions -> Rooms]
ASSUME PolicyAssumption == /\ SkipOwner \in BOOLEAN /\ HumanApproval \in BOOLEAN
                           /\ Meta \subseteq Calls /\ GuestAllowed \subseteq Calls
                           /\ OwnerAllowed \subseteq Calls
ASSUME BoundsAssumption == MaxAttempts \in Nat \ {0}
ASSUME NamesAssumption == NoThread \notin Threads /\ NoId \notin Ids

VARIABLES
    \* SessionMaps
    bound,      \* sessions with a room and a connector
    role,       \* role[s]: "absent", "guest" or "owner"
    thread,     \* thread[s]: the permission thread or NoThread
    \* PermissionRegistry
    registered, \* the calls whose request is in _requests
    id,         \* id[c]: the request id, NoId before one is chosen
    reqThread,  \* reqThread[c]: the request's thread_id
    future,     \* future[c]: "none" | "pending" | "approved" | "denied" | "cancelled"
    old,        \* the requests older than their timeout
    \* the hook handlers
    pc,         \* pc[c]: where the handler of call c is
    attempts,   \* attempts[c]: posts of the request tried so far
    answer,     \* answer[c]: what the hook answered
    broker,     \* "serving" | "closing" | "stopped"
    \* histories
    visible,    \* requests whose notice reached the room
    approval,   \* approval[c]: where the approve that resolved c came from
    cause       \* cause[c]: why the hook answered as it did

mapVars == <<bound, role, thread>>
registryVars == <<registered, id, reqThread, future, old>>
callVars == <<pc, attempts, answer>>
historyVars == <<visible, approval, cause>>
vars == <<mapVars, registryVars, callVars, broker, historyVars>>

NoApproval == [room |-> NoId, thread |-> NoThread]

\* pending_for_session: what the idle sweep's gate and cancel_session() see.
PendingForSession(s) == {c \in registered : SessionOf[c] = s}

-----------------------------------------------------------------------------
Init ==
    /\ bound = {}
    /\ role = [s \in Sessions |-> "absent"]
    /\ thread = [s \in Sessions |-> NoThread]
    /\ registered = {}
    /\ id = [c \in Calls |-> NoId]
    /\ reqThread = [c \in Calls |-> NoThread]
    /\ future = [c \in Calls |-> "none"]
    /\ old = {}
    /\ pc = [c \in Calls |-> "new"]
    /\ attempts = [c \in Calls |-> 0]
    /\ answer = [c \in Calls |-> "none"]
    /\ broker = "serving"
    /\ visible = {}
    /\ approval = [c \in Calls |-> NoApproval]
    /\ cause = [c \in Calls |-> "none"]

-----------------------------------------------------------------------------
(* The registry.                                                            *)

\* Mutants: the room is not compared; a future that is done is resolved again.
ResolvableAnywhereMutant(c, fromRoom, fromThread) == future[c] = "pending"
ResolvableDoneMutant(c, fromRoom, fromThread) ==
    future[c] \in {"pending", "denied", "cancelled"}

\* The conditions under which resolve() resolves a request for a command from
\* a room and a thread: same room, and same thread where both have one.
Resolvable(c, fromRoom, fromThread) ==
    /\ future[c] = "pending"
    /\ RoomOf[SessionOf[c]] = fromRoom
    /\ NoThread \in {fromThread, reqThread[c]} \/ fromThread = reqThread[c]

\* resolve(id, FALSE) of every call in C: those done already are left alone,
\* and left in the registry.
DenyAll(C) ==
    LET open == {c \in C \cap registered : future[c] = "pending"}
    IN /\ registered' = registered \ open
       /\ future' = [c \in Calls |-> IF c \in open THEN "denied" ELSE future[c]]

-----------------------------------------------------------------------------
(* The session's life, as far as the maps and the registry see it.          *)

Bind(s) ==
    /\ s \notin bound
    /\ bound' = bound \cup {s}
    /\ UNCHANGED <<role, thread, registryVars, callVars, broker, historyVars>>

\* A turn begins: the processor writes its anchor's role and thread.
BeginTurn(s, r, t) ==
    /\ s \in bound
    /\ role' = [role EXCEPT ![s] = r]
    /\ thread' = [thread EXCEPT ![s] = t]
    /\ UNCHANGED <<bound, registryVars, callVars, broker, historyVars>>

\* The watcher stops: its pending requests are denied, its maps cleared.
StopSession(s) ==
    /\ s \in bound
    /\ bound' = bound \ {s}
    /\ role' = [role EXCEPT ![s] = "absent"]
    /\ thread' = [thread EXCEPT ![s] = NoThread]
    /\ DenyAll(PendingForSession(s))
    /\ UNCHANGED <<id, reqThread, old, callVars, broker, historyVars>>

-----------------------------------------------------------------------------
(* The hook.                                                                *)

\* A hook body arrives; its parameters are parsed in a worker thread.
Hook(c) ==
    /\ pc[c] = "new" /\ broker = "serving"
    /\ pc' = [pc EXCEPT ![c] = "parsing"]
    /\ UNCHANGED <<mapVars, registryVars, attempts, answer, broker, historyVars>>

\* Mutant: a session without a role is taken for an owner's.
DecideOpenMutant(c) ==
    LET s == SessionOf[c]
    IN CASE c \in Meta -> "allow"
         [] role[s] = "guest" -> IF c \in GuestAllowed THEN "allow" ELSE "block"
         [] role[s] # "guest" ->
              IF SkipOwner \/ c \in OwnerAllowed THEN "allow"
              ELSE IF ~HumanApproval \/ s \notin bound THEN "block" ELSE "ask"

\* _decide(), with the maps as they are after the parse; no role means guest.
Decide(c) ==
    LET s == SessionOf[c]
    IN CASE c \in Meta -> "allow"
         [] c \notin Meta /\ role[s] # "owner" ->
              IF c \in GuestAllowed THEN "allow" ELSE "block"
         [] c \notin Meta /\ role[s] = "owner" ->
              IF SkipOwner \/ c \in OwnerAllowed THEN "allow"
              ELSE IF ~HumanApproval \/ s \notin bound THEN "block" ELSE "ask"

\* The handler of call c is through: it answers the hook.
Answer(c, what, why) ==
    /\ pc' = [pc EXCEPT ![c] = "answered"]
    /\ answer' = [answer EXCEPT ![c] = what]
    /\ cause' = [cause EXCEPT ![c] = why]

DecideAtOnce(c) ==
    /\ pc[c] = "parsing" /\ Decide(c) # "ask"
    /\ Answer(c, Decide(c), "policy")
    /\ UNCHANGED <<mapVars, registryVars, attempts, broker, visible, approval>>

\* Mutant: the id is drawn without a look at the registry.
FreeIdsMutant == Ids

\* generate_request_id() until the registry does not know it.
FreeIds == Ids \ {id[c] : c \in registered}

\* The request is registered before its notice is posted.
Ask(c) ==
    /\ pc[c] = "parsing" /\ Decide(c) = "ask"
    /\ \E i \in FreeIds : id' = [id EXCEPT ![c] = i]
    \* register() writes under the id: a request with the same id is overwritten
    /\ registered' = {d \in registered : id[d] # id'[c]} \cup {c}
    /\ reqThread' = [reqThread EXCEPT ![c] = thread[SessionOf[c]]]
    /\ future' = [future EXCEPT ![c] = "pending"]
    /\ pc' = [pc EXCEPT ![c] = "posting"]
    /\ UNCHANGED <<mapVars, old, attempts, answer, broker, historyVars>>

\* Mutant: the draw is repeated for ever.
NoFreeIdMutant(c) == FALSE

\* No id is free after 100 draws: RuntimeError, answered as a block.
NoFreeId(c) ==
    /\ pc[c] = "parsing" /\ Decide(c) = "ask" /\ FreeIds = {}
    /\ Answer(c, "block", "error")
    /\ UNCHANGED <<mapVars, registryVars, attempts, broker, visible, approval>>

\* The post of the request returned: the owner was asked.
Posted(c) ==
    /\ pc[c] = "posting"
    /\ visible' = visible \cup {c}
    /\ pc' = [pc EXCEPT ![c] = "waiting"]
    /\ UNCHANGED <<mapVars, registryVars, attempts, answer, broker, approval,
                   cause>>

\* The message is in the room, while the caller of the post does not know yet.
Seen(c) ==
    /\ pc[c] = "posting" /\ c \notin visible
    /\ visible' = visible \cup {c}
    /\ UNCHANGED <<mapVars, registryVars, callVars, broker, approval, cause>>

\* Mutant: one attempt more than the notifier is allowed.
PostRaisedMutant(c) ==
    /\ pc[c] = "posting" /\ attempts[c] < MaxAttempts
    /\ attempts' = [attempts EXCEPT ![c] = @ + 1]
    /\ UNCHANGED <<mapVars, registryVars, pc, answer, broker, historyVars>>

\* A post raised, whether or not the message is in the room: try again.
PostRaised(c) ==
    /\ pc[c] = "posting" /\ attempts[c] + 1 < MaxAttempts
    /\ attempts' = [attempts EXCEPT ![c] = @ + 1]
    /\ UNCHANGED <<mapVars, registryVars, pc, answer, broker, historyVars>>

\* The last attempt raised too: the request is withdrawn and the call blocked
\* with "the owner was never asked".
PostFailed(c) ==
    /\ pc[c] = "posting" /\ attempts[c] + 1 = MaxAttempts
    /\ DenyAll({c})
    /\ Answer(c, "block", "undelivered")
    /\ UNCHANGED <<mapVars, id, reqThread, old, attempts, broker, visible, approval>>

\* The future is done: wait_for returns its result.
Resolved(c) ==
    /\ pc[c] = "waiting" /\ future[c] \in {"approved", "denied"}
    /\ Answer(c, IF future[c] = "approved" THEN "allow" ELSE "block", "resolved")
    /\ UNCHANGED <<mapVars, registryVars, attempts, broker, visible, approval>>

\* wait_for's timer fires.  It cancels the future, so the resolve() that
\* follows finds it done and removes nothing.  The timer may also win against
\* a result that is set and not yet read.
Timeout(c) ==
    /\ pc[c] = "waiting" /\ c \in old
    /\ future' = [future EXCEPT ![c] = IF @ = "pending" THEN "cancelled" ELSE @]
    /\ pc' = [pc EXCEPT ![c] = "regretting"]
    /\ UNCHANGED <<mapVars, registered, id, reqThread, old, attempts, answer, broker,
                   historyVars>>

\* The timeout notice was posted, or its failure swallowed.
Regretted(c) ==
    /\ pc[c] = "regretting"
    /\ Answer(c, "block", "timeout")
    /\ UNCHANGED <<mapVars, registryVars, attempts, broker, visible, approval>>

-----------------------------------------------------------------------------
(* The owner, the sweep, the clock and the broker's end.                    *)

\* An owner reads a request in some room and answers there or elsewhere.
Command(c, approved, fromRoom, fromThread) ==
    /\ c \in registered /\ c \in visible
    /\ Resolvable(c, fromRoom, fromThread)
    /\ registered' = registered \ {c}
    /\ future' = [future EXCEPT ![c] = IF approved THEN "approved" ELSE "denied"]
    /\ approval' = IF approved
                   THEN [approval EXCEPT ![c] = [room |-> fromRoom, thread |-> fromThread]]
                   ELSE approval
    /\ UNCHANGED <<mapVars, id, reqThread, old, callVars, broker, visible, cause>>

\* The request's own timeout has passed since it was registered.
Age(c) ==
    /\ c \in registered \ old
    /\ old' = old \cup {c}
    /\ UNCHANGED <<mapVars, registered, id, reqThread, future, callVars, broker,
                   historyVars>>

\* Mutant: the sweep's task died of an error.
ExpireOldMutant == FALSE

\* The sweep denies what is old; the timeout notices it posts change nothing.
ExpireOld ==
    LET expired == registered \cap old
    IN /\ expired # {}
       /\ DenyAll(expired)
       /\ UNCHANGED <<mapVars, id, reqThread, old, callVars, broker, historyVars>>

\* stop(): the server closes, and wait_closed() may or may not wait for the
\* connections that are open.
CloseServer ==
    /\ broker = "serving"
    /\ broker' = "closing"
    /\ UNCHANGED <<mapVars, registryVars, callVars, historyVars>>

InFlight == {c \in Calls : pc[c] \in {"parsing", "posting", "waiting", "regretting"}}

\* stop() cancels the handlers.  One that waits takes its future with it; the
\* registry keeps the entry.
CancelConnections ==
    /\ broker = "closing"
    /\ broker' = "stopped"
    /\ pc' = [c \in Calls |-> IF c \in InFlight THEN "cancelled" ELSE pc[c]]
    /\ future' = [c \in Calls |-> IF pc[c] = "waiting" /\ future[c] = "pending"
                                  THEN "cancelled" ELSE future[c]]
    /\ UNCHANGED <<mapVars, registered, id, reqThread, old, attempts, answer,
                   historyVars>>

-----------------------------------------------------------------------------
Handler(c) ==
    \/ DecideAtOnce(c) \/ Ask(c) \/ NoFreeId(c)
    \/ Posted(c) \/ PostRaised(c) \/ PostFailed(c)
    \/ Resolved(c) \/ Timeout(c) \/ Regretted(c)

Next ==
    \/ \E s \in Sessions :
          \/ Bind(s) \/ StopSession(s)
          \/ \E r \in {"guest", "owner"}, t \in Threads \cup {NoThread} : BeginTurn(s, r, t)
    \/ \E c \in Calls :
          \/ Hook(c) \/ Handler(c) \/ Seen(c) \/ Age(c)
          \/ \E approved \in BOOLEAN, fromRoom \in Rooms,
                fromThread \in Threads \cup {NoThread} :
                Command(c, approved, fromRoom, fromThread)
    \/ ExpireOld \/ CloseServer \/ CancelConnections

\* The event loop runs what is ready, posts end one way or another, and time
\* passes.  Nobody is obliged to call a tool, to answer, or to stop anything.
Fairness == /\ \A c \in Calls : WF_vars(Handler(c)) /\ WF_vars(Age(c))
            /\ WF_vars(ExpireOld)

Spec == Init /\ [][Next]_vars
FairSpec == Spec /\ Fairness

-----------------------------------------------------------------------------
(* Properties.                                                              *)

TypeOK ==
    /\ bound \subseteq Sessions
    /\ role \in [Sessions -> {"absent", "guest", "owner"}]
    /\ thread \in [Sessions -> Threads \cup {NoThread}]
    /\ registered \subseteq Calls
    /\ id \in [Calls -> Ids \cup {NoId}]
    /\ reqThread \in [Calls -> Threads \cup {NoThread}]
    /\ future \in [Calls -> {"none", "pending", "approved", "denied", "cancelled"}]
    /\ old \subseteq Calls
    /\ pc \in [Calls -> {"new", "parsing", "posting", "waiting", "regretting",
                         "answered", "cancelled"}]
    /\ attempts \in [Calls -> 0..MaxAttempts - 1]
    /\ answer \in [Calls -> {"none", "allow", "block"}]
    /\ broker \in {"serving", "closing", "stopped"}
    /\ visible \subseteq Calls
    /\ approval \in [Calls -> [room : Rooms \cup {NoId}, thread : Threads \cup {NoThread}]]
    /\ cause \in [Calls -> {"none", "policy", "error", "undelivered", "resolved", "timeout"}]

\* A call that was put to a human runs only on an approve typed in the
\* request's own room, and in its own thread where both name one: no denial,
\* timeout, failed post, session end or approve from elsewhere lets it run.
AllowedMeansApproved ==
    \A c \in Calls :
        answer[c] = "allow" /\ cause[c] # "policy" =>
            /\ approval[c].room = RoomOf[SessionOf[c]]
            /\ NoThread \in {approval[c].thread, reqThread[c]}
                  \/ approval[c].thread = reqThread[c]

\* A request whose answer is still open is in the registry, where the owner's
\* command, the session's end and the sweep can find it: no later request took
\* its id and its place.
OpenIsRegistered ==
    \A c \in Calls : future[c] = "pending" => c \in registered

\* A future is resolved once: what the owner, the sweep, the timer or a stop
\* decided first stays decided.
DecidedOnce ==
    [][\A c \in Calls : future[c] \notin {"none", "pending"} => future'[c] = future[c]]_vars

\* Only a session an owner's turn made an owner's asks a human; one with no
\* role is treated as a guest's, whatever order the maps were filled in.
OnlyOwnersAsk ==
    [][\A c \in Calls : future[c] = "none" /\ future'[c] = "pending" =>
            role[SessionOf[c]] = "owner" /\ SessionOf[c] \in bound]_vars

\* Once a tool call is out, its hook gets an answer even if no owner ever
\* reads the room, unless the broker is stopped first.
CallsAreAnswered ==
    \A c \in Calls : pc[c] = "parsing" ~> pc[c] \in {"answered", "cancelled"}

\* A request nobody waits for any more is not left open: the sweep denies what
\* a stopped broker left behind.
NoRequestStaysOpen == \A c \in Calls : future[c] = "pending" ~> future[c] # "pending"

\* Every tool call and every request comes to an end, whoever is there to answer.
RequestsEnd == CallsAreAnswered /\ NoRequestStaysOpen

-----------------------------------------------------------------------------
(* What the comments say and the code does not do.                          *)

\* pending_for_session() is said to return the pending requests of a session;
\* the idle sweep keeps a room up for as long as it returns any.
RegistryHoldsPending ==
    \A s \in Sessions : \A c \in PendingForSession(s) : future[c] = "pending"
=============================================================================
