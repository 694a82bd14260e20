---------------------------- MODULE MCConnectors ----------------------------
(* Small instances of the two connectors, of Rocket.Chat's websocket client and *)
(* its REST calls, of a room of the voice connector, of the turn budget of      *)
(* agents that connectors filter with and of two connectors that share a bot    *)
(* account: one at a time.  What the connectors have in common shares its      *)
(* variables; what is not at work keeps still.                                 *)
EXTENDS Naturals

CONSTANTS N, QueueDepth, Pending, Page, MaxFaults, MaxTogether, MaxDrops, MaxSubs, Windows,
          Kinds, Rooms, MaxId, Senders, MaxTurns, TTL, Factor, Remembered, Deliveries,
          MaxIssued, MaxCounts,
          b1, Bots, Dms, GroupDms, x1, Scopes, Unscoped, MaxReloads, MaxUndone,
          Requests, MaxVoices, Nobody, Callers, MaxLapses, OldHeaders

VARIABLES kind, posted, member, link, event, queue, sub, used, epochs, mgen, hook, disp, rep,
          wakes, route, served, record, booting, faults, handled, twice, excused, absent, left,
          barred,
          socket, server, wire, fut, subs, cbs, state, stream, gen, att, all, release, rec,
          boot, room, nid, drops, owed, forsaken, ended,
          store, generations, flight, held, count, refused,
          active, target, phase, waiting, open, passed, degraded, records, due, unpaid, unsound,
          reloads, undone,
          at, waiters, texts, listening, accepted, turn, told, voices,
          auth, valid, issued, call, queued, done, lapses, wasted

RC == INSTANCE RCConnector
MM == INSTANCE MMConnector WITH MaxStates <- MaxSubs, chan <- sub, gen <- mgen
WS == INSTANCE RCWebSocketClient WITH link <- socket, faults <- drops, MaxFaults <- MaxDrops
AC == INSTANCE AgentChain
BA == INSTANCE BotAccounts WITH owed <- unpaid
VR == INSTANCE VoiceRoom WITH queue <- texts, active <- listening, notices <- voices,
                              MaxNotices <- MaxVoices
RS == INSTANCE RestSession

onlyRC == <<epochs, wakes>>
rcVars == <<posted, member, link, event, queue, sub, used, epochs, mgen, hook, disp, rep, wakes,
            route, served, record, booting, faults, handled, twice, excused, absent, left, barred>>
wsVars == <<socket, server, wire, fut, subs, cbs, state, stream, gen, att, all, release, rec,
            boot, room, nid, drops, owed, forsaken, ended>>
acVars == <<store, generations, flight, held, count, refused>>
baVars == <<active, target, phase, waiting, open, passed, degraded, records, due, unpaid, unsound,
            reloads, undone>>
voiceVars == <<at, waiters, texts, listening, accepted, turn, told, voices>>
restVars == <<auth, valid, issued, call, queued, done, lapses, wasted>>
callVars == <<voiceVars, restVars>>

\* The bots' rules are about the direct messages, or about the groups.
OneClass == \A b \in Bots : active[b].claims \cup target[b].claims \subseteq {kind}

Init ==
    /\ kind \in Kinds
    /\ kind # "MM" => RC!Init
    /\ kind = "MM" => MM!Init /\ epochs = <<>> /\ wakes = <<>>
    /\ WS!Init
    /\ AC!Init
    /\ BA!Init /\ VR!Init /\ RS!Init
    /\ IF kind \in BA!Classes
       THEN OneClass /\ active[b1].scope \in {x1, Unscoped}   \* one team is as good as another
       ELSE \A b \in Bots : active[b] = BA!Absent

\* Few messages among many faults, or many messages among few.
Bounded == posted' + faults' <= MaxTogether

Next ==
    /\ UNCHANGED kind
    /\ \/ kind = "RC" /\ RC!Next /\ Bounded /\ UNCHANGED <<wsVars, acVars, baVars, callVars>>
       \/ /\ kind = "MM" /\ MM!Next /\ Bounded
          /\ UNCHANGED <<onlyRC, wsVars, acVars, baVars, callVars>>
       \/ kind = "WS" /\ WS!Next /\ UNCHANGED <<rcVars, acVars, baVars, callVars>>
       \/ kind = "AC" /\ AC!Next /\ UNCHANGED <<rcVars, wsVars, baVars, callVars>>
       \/ /\ kind \in BA!Classes /\ BA!Next /\ OneClass'
          /\ UNCHANGED <<rcVars, wsVars, acVars, callVars>>
       \/ kind = "Voice" /\ VR!Next /\ UNCHANGED <<rcVars, wsVars, acVars, baVars, restVars>>
       \/ kind = "Rest" /\ RS!Next /\ UNCHANGED <<rcVars, wsVars, acVars, baVars, voiceVars>>

Spec == Init /\ [][Next]_<<kind, rcVars, wsVars, acVars, baVars, callVars>>

\* The variables of the one at work have their types.
TypeOK == CASE kind = "RC" -> RC!TypeOK [] kind = "MM" -> MM!TypeOK
            [] kind = "WS" -> WS!TypeOK [] kind = "AC" -> AC!TypeOK
            [] kind \in BA!Classes -> BA!TypeOK [] kind = "Voice" -> VR!TypeOK
            [] kind = "Rest" -> RS!TypeOK

\* No message and no post is skipped.
NothingSkipped == IF kind = "MM" THEN MM!NothingSkipped ELSE RC!NothingSkipped

\* Nor is one handed to the handler twice by one subscription.
HandledOnce == TypeOK /\ NothingSkipped /\ ~twice

\* No replay reaches over a removal.
NoReplayAcrossRemoval == RC!NoReplayAcrossRemoval /\ MM!NoReplayAcrossRemoval

\* A subscription alive on the server is known, or was given up, and a room has one
\* at most when the websocket is at rest; a tracked room is then delivered, and the messages
\* of an outage were asked for.
OneLiveSubscription == WS!NoOrphans /\ WS!OnePath /\ WS!Delivered /\ WS!GapIsReplayed

\* An agent's count is the number of its posts that hold a turn of it.
BudgetHonest == AC!BudgetHonest

\* No direct message is answered by two bots of one account.
OneAnswer == BA!OneAnswer

\* Who speaks to the voice connector hears the answer to the own words, and a call to
\* Rocket.Chat is carried out once, by one login, whenever the token expires.
CallersAreServed == VR!FreshAnswers /\ RS!OneLogin
=============================================================================
