------------------------------ MODULE VoiceRoom ------------------------------
(* One room of the voice connector (connectors/voice/connector.py): requests    *)
(* that wait, one at a time, for the text the room is sent next, whether it is   *)
(* the answer or not; two timeouts; and turns that answer late, for several     *)
(* requests at once, or not at all.                                             *)
EXTENDS Naturals, Sequences, SequencesExt, FiniteSets

CONSTANTS Requests,
          MaxNotices,  \* bound of the model: texts of others than the agent
          Nobody

VARIABLES at,       \* where each request is
          waiters,  \* who waits for the room's lock; the first one holds it
          queue,    \* _RoomState.queue
          active,   \* _RoomState.dispatch_active
          accepted, \* the processor's queue
          turn,     \* the requests the running turn is about
          told,     \* what each caller was answered
          notices

voiceVars == <<at, waiters, queue, active, accepted, turn, told, notices>>

Status == {"nothing", "refused", "busy", "timeout", "504", "text"}
NoText == [status |-> "nothing", by |-> {}, during |-> Nobody]

TypeOK ==
    /\ at \in [Requests -> {"idle", "lock", "handler", "waiting", "answered"}]
    /\ Range(waiters) \subseteq Requests /\ Cardinality(Range(waiters)) = Len(waiters)
    /\ \A r \in Requests : at[r] \in {"handler", "waiting"} => Head(waiters) = r
    /\ active \in BOOLEAN /\ Range(accepted) \subseteq Requests /\ turn \subseteq Requests
    /\ \A r \in Requests : told[r].status \in Status /\ told[r].by \subseteq Requests

Init ==
    /\ at = [r \in Requests |-> "idle"] /\ waiters = <<>> /\ queue = <<>> /\ active = FALSE
    /\ accepted = <<>> /\ turn = {} /\ told = [r \in Requests |-> NoText] /\ notices = 0

Holder == IF \E r \in Requests : at[r] \in {"handler", "waiting"} THEN Head(waiters) ELSE Nobody

\* The caller has its answer; whoever holds the lock releases it.
Answer(r, t) == /\ at' = [at EXCEPT ![r] = "answered"] /\ told' = [told EXCEPT ![r] = t]
                /\ waiters' = RemoveFirst(waiters, r)
Only(s) == [NoText EXCEPT !.status = s]

-----------------------------------------------------------------------------
(* The requests.                                                            *)

\* Wrong token, method, path, length or body: the room hears nothing of it.
Refuse(r) ==
    /\ at[r] = "idle" /\ Answer(r, Only("refused"))
    /\ UNCHANGED <<queue, active, accepted, turn, notices>>

Ask(r) ==
    /\ at[r] = "idle" /\ at' = [at EXCEPT ![r] = "lock"] /\ waiters' = Append(waiters, r)
    /\ UNCHANGED <<queue, active, accepted, turn, told, notices>>

\* Mutant: what an earlier request left is not discarded.
DrainedMutant(q) == q

\* What an earlier request left is discarded.
Drained(q) == <<>>

Enter(r) ==
    /\ at[r] = "lock" /\ Head(waiters) = r /\ at' = [at EXCEPT ![r] = "handler"]
    /\ queue' = Drained(queue)
    /\ UNCHANGED <<waiters, active, accepted, turn, told, notices>>

\* Once accepted, the room's next text is the answer: of its turn, if there is one, while a
\* command about a permission was answered by now, and that was dropped.
Handled(r) ==
    /\ at[r] = "handler"
    /\ \/ /\ at' = [at EXCEPT ![r] = "waiting"] /\ active' = TRUE
          /\ accepted' \in {Append(accepted, r), accepted} /\ UNCHANGED <<waiters, told>>
       \/ Answer(r, Only("busy")) /\ UNCHANGED <<active, accepted>>
    /\ UNCHANGED <<queue, turn, notices>>

Wake(r) ==
    /\ at[r] = "waiting" /\ queue # <<>> /\ queue' = Tail(queue) /\ active' = FALSE
    /\ Answer(r, Head(queue))
    /\ UNCHANGED <<accepted, turn, notices>>

\* The timer may fire when a text is there but not taken yet.
Timeout(r) ==
    /\ at[r] = "waiting" /\ active' = FALSE /\ Answer(r, Only("timeout"))
    /\ UNCHANGED <<queue, accepted, turn, notices>>

\* The timer of the connection ends the request wherever it is; in the handler, its message
\* may have been accepted.
Cut(r) ==
    /\ at[r] \in {"lock", "handler", "waiting"} /\ Answer(r, Only("504"))
    /\ active' = (active /\ at[r] # "waiting")
    /\ \/ UNCHANGED accepted
       \/ at[r] = "handler" /\ accepted' = Append(accepted, r)
    /\ UNCHANGED <<queue, turn, notices>>

-----------------------------------------------------------------------------
(* The room: the processor's turns, and what others have to say.            *)

Begin ==
    /\ turn = {} /\ \E n \in 1 .. Len(accepted) :
          turn' = Range(SubSeq(accepted, 1, n)) /\ accepted' = SubSeq(accepted, n + 1, Len(accepted))
    /\ UNCHANGED <<at, waiters, queue, active, told, notices>>

\* Mutant: it is queued whether or not a request waits.
HeardMutant == TRUE

Heard == active

SendText(by) == queue' = IF Heard
                         THEN Append(queue, [status |-> "text", by |-> by, during |-> Holder])
                         ELSE queue

\* The turn's answer or its error; an answer without text is not sent.
End ==
    /\ turn # {} /\ turn' = {}
    /\ SendText(turn) \/ UNCHANGED queue
    /\ UNCHANGED <<at, waiters, active, accepted, told, notices>>

\* A notice that the room is busy, a permission that is asked for, a scheduled job.
Notice ==
    /\ notices < MaxNotices /\ notices' = notices + 1 /\ SendText({})
    /\ UNCHANGED <<at, waiters, active, accepted, turn, told>>

Next ==
    \/ \E r \in Requests :
          Refuse(r) \/ Ask(r) \/ Enter(r) \/ Handled(r) \/ Wake(r) \/ Timeout(r) \/ Cut(r)
    \/ Begin \/ End \/ Notice

Spec == Init /\ [][Next]_voiceVars

-----------------------------------------------------------------------------
\* A request that gave up, or was told what somebody else had to say: its answer comes late.
AnsweredEarly(q) == \/ told[q].status \in {"timeout", "504"}
                    \/ told[q].status = "text" /\ told[q].by = {}

\* A caller is told what the room was sent while its own request was the one that waited,
\* which is the answer to it for as long as no request was answered early; and nothing is
\* kept for nobody.
FreshAnswers ==
    /\ \A r \in Requests : told[r].status = "text" =>
          /\ told[r].during = r
          /\ r \in told[r].by \/ \E q \in Requests : AnsweredEarly(q)
    /\ active <=> \E r \in Requests : at[r] = "waiting"
    /\ \A i \in DOMAIN queue : queue[i].during # Nobody
=============================================================================
