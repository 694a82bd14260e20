------------------------- MODULE MCPermissionBroker -------------------------
(* Small instances of the two brokers and of the check of the rules' patterns, *)
(* one at a time.  Of the Claude broker two: two calls, of two sessions in two *)
(* rooms, outside threads; or one call of a session whose turns, and whose     *)
(* owner's answers, come from any of two threads or from outside.  What is not *)
(* at work keeps still.                                                        *)
EXTENDS PermissionBroker

CONSTANTS c1, c2, s1, s2, r1, r2, t1, t2, o1, o2, Kinds,
          Turns, Ports, MaxSpawns, MaxFailures, Slots, MaxFaults, Windows,
          x1, x2, Other, MaxTokens, MaxLength, MaxProduct

VARIABLES kind, live, port, spawned, process, base, client, ever, failures, lock, at, url,
          hears, prompt, listener, task, faults,
          question, left, right, folds, seen, queue, verdict, decided

OC == INSTANCE OpenCodeBackend
ocVars == <<live, port, spawned, process, base, client, ever, failures, lock, at, url, hears,
            prompt, listener, task, faults>>

\* A star, a question mark, a literal and a negated class, whose characters may be folded.
MCTokens == {[kind |-> k, members |-> {}, negated |-> FALSE] : k \in {"any_one", "any_run"}}
            \cup {[kind |-> "class", members |-> {x1}, negated |-> FALSE],
                  [kind |-> "class", members |-> {x2}, negated |-> TRUE]}
MCFolding == {{}, {<<x1, x2>>}}

RP == INSTANCE RoomPatterns WITH Tokens <- MCTokens, Folding <- MCFolding
patternVars == <<question, left, right, folds, seen, queue, verdict, decided>>

MCSessionOf == [c \in Calls |-> IF c = c1 \/ s2 \notin Sessions THEN s1 ELSE s2]
MCRoomOf == [s \in Sessions |-> IF s = s1 THEN r1 ELSE r2]

Threaded ==
    \/ \E s \in Sessions : thread[s] # NoThread
    \/ \E c \in Calls : reqThread[c] # NoThread \/ approval[c].thread # NoThread

\* The calls are alike, and so are the turns: they are named in their order.
InScope ==
    c2 \in Calls =>
        /\ Threaded => s2 \notin bound /\ pc[c2] = "new"
        /\ pc[c2] # "new" => pc[c1] # "new"

InOrder == at[o2] # "idle" => at[o1] # "idle"

MCInit ==
    /\ kind \in Kinds /\ Init /\ OC!Init
    /\ IF kind = "Rules" THEN RP!Init
       ELSE /\ question = "intersects" /\ left = {} /\ right = {} /\ folds = {}
            /\ seen = {} /\ queue = <<>> /\ verdict = "open" /\ decided = TRUE

MCNext ==
    /\ UNCHANGED kind
    /\ \/ kind = "Claude" /\ Next /\ InScope' /\ UNCHANGED <<ocVars, patternVars>>
       \/ kind = "OpenCode" /\ OC!Next /\ InOrder' /\ UNCHANGED <<vars, patternVars>>
       \/ kind = "Rules" /\ RP!Next /\ UNCHANGED <<vars, ocVars>>

\* No step of Fairness leaves the scope, where threads come with turns and commands, and
\* none is enabled in its initial state.
MCSpec == MCInit /\ [][MCNext]_<<kind, vars, ocVars, patternVars>> /\ Fairness

-----------------------------------------------------------------------------
\* An OpenCode backend's fields fit together, and it has one sidecar at a time, and
\* none when it has been stopped.
OneSidecar == OC!TypeOK /\ OC!OneSidecar /\ OC!StaysStopped

\* No request the OpenCode broker has read is forgotten, and nobody is stuck.
NoAskForgotten == OC!NoAskForgotten /\ OC!NobodyIsStuck

\* What the rules' validation says about their patterns is what they then match.
Verdicts == RP!TypeOK /\ RP!Verdicts

\* What an OpenCode sidecar asks is asked where the broker listens.
AsksReachTheBroker == OC!AsksReachTheBroker
=============================================================================
