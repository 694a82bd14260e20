------------------------------- MODULE AgentTurn -------------------------------
(* The turns of a session on the Claude backend: AgentTurnRunner.run_turn and    *)
(* ClaudeBackend (stream, send, create_session), with the command line process   *)
(* each of them starts.  The process writes lines and ends as it likes, or hangs; *)
(* the turn reads it until its end, the deadline or a cancellation, and posts what *)
(* there is to say.                                                               *)
EXTENDS Naturals, Sequences, SequencesExt

CONSTANTS Procs,        \* the processes there may be; zero is none
          MaxLines      \* bound on the lines of a process

VARIABLES pc, mode,     \* where the turn is; what it is
          cur,          \* its process
          proc,         \* the processes
          pipe, written,\* what the turn's own wrote and nobody read; how much it wrote
          heard,        \* the pieces of the answer so far
          late,         \* the deadline has passed
          answer, said, \* what run_turn has to post; what it posted
          left          \* history: processes that a turn let go of unfinished

turnVars == <<pc, mode, cur, proc, pipe, written, heard, late, answer, said, left>>

Modes == {"human", "chain", "scheduled", "send", "create"}
Streams == {"human", "chain", "scheduled"}
Lines == {"note", "words", "token", "odd"}
Pieces == {"words", "token"}
Alive == {"running", "closed", "told"}         \* closed: its stdout is; told: SIGTERM
Error == <<"error">>
Silence == <<>>

TypeOK ==
    /\ pc \in {"free", "reading", "yielded", "stopping", "reaping", "posting"}
    /\ mode \in Modes /\ cur \in Procs \cup {0}
    /\ proc \in [Procs -> Alive \cup {"none", "gone", "failed"}]
    /\ pipe \in Seq(Lines) /\ written \in 0 .. MaxLines
    /\ heard \in Seq(Pieces) /\ late \in {"no", "deadline", "cancelled", "swallowed"}
    /\ answer \in Seq(Pieces \cup {"error"}) /\ said \in Seq(Pieces \cup {"error"})
    /\ left \subseteq Procs

Init ==
    /\ pc = "free" /\ mode = "human" /\ cur = 0
    /\ proc = [k \in Procs |-> "none"] /\ pipe = <<>>
    /\ written = 0 /\ heard = <<>> /\ late = "no"
    /\ answer = <<>> /\ said = <<>> /\ left = {}

-----------------------------------------------------------------------------
(* The process.                                                             *)

Writes ==
    /\ pc \in {"reading", "yielded"} /\ proc[cur] = "running"
    /\ written < MaxLines /\ pipe = <<>>
    /\ \E l \in Lines : pipe' = <<l>>
    /\ written' = written + 1
    /\ UNCHANGED <<pc, mode, cur, proc, heard, late, answer, said, left>>

\* It closes its stdout and lingers, or exits, well or not.
Ends(k) ==
    /\ \/ proc[k] = "running" /\ \E s \in {"closed", "gone", "failed"} :
              proc' = [proc EXCEPT ![k] = s]
       \/ proc[k] = "closed" /\ \E s \in {"gone", "failed"} : proc' = [proc EXCEPT ![k] = s]
    /\ UNCHANGED <<pc, mode, cur, pipe, written, heard, late, answer, said, left>>

-----------------------------------------------------------------------------
(* The turn.                                                                *)

\* What is left of an answer when the first termination token is cut out of it.
Stripped(a) ==
    IF Contains(a, "token")
    THEN RemoveAt(a, CHOOSE i \in 1 .. Len(a) :
                        a[i] = "token" /\ \A j \in 1 .. i - 1 : a[j] # "token")
    ELSE a

\* A process is started, or cannot be.
Begin(m) ==
    /\ pc = "free" /\ \E k \in Procs : proc[k] = "none"
    /\ mode' = m /\ heard' = <<>> /\ late' = "no" /\ said' = Silence
    /\ LET k == CHOOSE n \in Procs : proc[n] = "none"
       IN /\ cur' = k
          /\ \/ pc' = "reading" /\ answer' = Silence
                /\ proc' = [proc EXCEPT ![k] = "running"]
             \/ pc' = "posting" /\ answer' = Error
                /\ proc' = [proc EXCEPT ![k] = "gone"]
    /\ pipe' = <<>> /\ written' = 0 /\ UNCHANGED left

\* The next line: read before the deadline only.  A note is shown to the room, from the
\* middle of stream(); text is kept.
Read ==
    /\ pc = "reading" /\ late = "no" /\ pipe # <<>>
    /\ Head(pipe) # "odd" \/ mode = "create"
    /\ pipe' = Tail(pipe)
    /\ heard' = IF Head(pipe) \in Pieces THEN Append(heard, Head(pipe)) ELSE heard
    /\ pc' = IF Head(pipe) = "note" /\ mode \in Streams THEN "yielded" ELSE "reading"
    /\ UNCHANGED <<mode, cur, proc, written, late, answer, said, left>>

\* The connector has shown the note, or failed to.
Shown ==
    /\ pc = "yielded" /\ pc' = "reading"
    /\ UNCHANGED <<mode, cur, proc, pipe, written, heard, late, answer, said, left>>

\* A line that is JSON and no object ends the parser with an error of another kind than
\* those the process is stopped for.  (create_session reads to the end before it parses.)
Odd ==
    /\ pc = "reading" /\ late = "no" /\ mode # "create"
    /\ pipe # <<>> /\ Head(pipe) = "odd"
    /\ pc' = "posting" /\ answer' = Error
    /\ left' = IF proc[cur] \in Alive THEN left \cup {cur} ELSE left
    /\ UNCHANGED <<mode, cur, proc, pipe, written, heard, late, said>>

\* The deadline of the reading.
Deadline ==
    /\ pc \in {"reading", "yielded"} /\ late = "no" /\ late' = "deadline"
    /\ UNCHANGED <<pc, mode, cur, proc, pipe, written, heard, answer, said, left>>

\* Mutant: it is waited for, and never told.
TerminatedMutant(k) == proc

\* _terminate_gracefully: SIGTERM at once; then a wait.
Terminated(k) == IF proc[k] \in {"running", "closed"} THEN [proc EXCEPT ![k] = "told"] ELSE proc

\* Timed out: the process is told to go before anything else is awaited.
TimedOut ==
    /\ pc = "reading" /\ late = "deadline"
    /\ pc' = "stopping" /\ proc' = Terminated(cur)
    /\ UNCHANGED <<mode, cur, pipe, written, heard, late, answer, said, left>>

\* What a grace period leaves: a process that has gone, of itself or by SIGKILL.
Killed(k) == [proc EXCEPT ![k] = IF @ = "told" THEN "gone" ELSE @]

\* stop() of the processor cancels the turn, once.  While stream() waits for a line, it
\* stops its process; while the runner has the note that stream() yielded, and in the waits
\* for the end of a process, nobody does.  A turn that is stopping already, its deadline
\* passed, ends at once when what is left in the pipes is being drained.
Cancel ==
    /\ late \notin {"cancelled", "swallowed"} /\ late' = "cancelled"
    /\ \/ /\ pc = "reading"
          /\ pc' = "stopping" /\ proc' = Terminated(cur) /\ UNCHANGED left
       \/ /\ pc \in {"yielded", "reaping"}
          /\ pc' = "free" /\ left' = IF proc[cur] \in Alive THEN left \cup {cur} ELSE left
          /\ UNCHANGED proc
       \/ /\ pc = "stopping"
          /\ pc' = "free" /\ proc' = Killed(cur) /\ UNCHANGED left
       \/ /\ pc = "posting" /\ pc' = "free" /\ UNCHANGED <<proc, left>>
    /\ UNCHANGED <<mode, cur, pipe, written, heard, answer, said>>

\* In the grace period it is swallowed, and the turn ends as one that timed out.
Swallow ==
    /\ pc = "stopping" /\ late = "deadline" /\ late' = "swallowed"
    /\ UNCHANGED <<pc, mode, cur, proc, pipe, written, heard, answer, said, left>>

\* The grace period ends with the process gone, of itself or by SIGKILL; what it still
\* wrote is drained.  A timeout has something to say, a cancelled turn has not.
Stopped ==
    /\ pc = "stopping"
    /\ proc' = Killed(cur)
    /\ pipe' = <<>>
    /\ IF late = "cancelled" THEN pc' = "free" /\ UNCHANGED answer
       ELSE pc' = "posting" /\ answer' = Error
    /\ UNCHANGED <<mode, cur, written, heard, late, said, left>>

\* The end of stdout; create_session waits for that of the process with it.
Eof ==
    /\ pc = "reading" /\ late = "no" /\ pipe = <<>> /\ proc[cur] # "running"
    /\ mode = "create" => proc[cur] # "closed"
    /\ pc' = "reaping"
    /\ UNCHANGED <<mode, cur, proc, pipe, written, heard, late, answer, said, left>>

\* The process has exited, or is killed after ten seconds; an answer counts when it
\* exited well.  create_session wants a session id in it.
Reaped ==
    /\ pc = "reaping"
    /\ proc' = [proc EXCEPT ![cur] = IF @ = "closed" THEN "failed" ELSE @]
    /\ pc' = "posting"
    /\ answer' = IF proc'[cur] = "failed" \/ (mode = "create" /\ heard = <<>>) THEN Error
                 ELSE IF heard = <<>> THEN <<"words">>        \* "(empty response)"
                 ELSE heard
    /\ UNCHANGED <<mode, cur, pipe, written, heard, late, said, left>>

\* run_turn: the token is cut out, and what remains is posted, if anything does.  A
\* failed post is logged.  What send and create_session return, their callers have.
Post ==
    /\ pc = "posting" /\ pc' = "free"
    /\ said' = IF mode \notin Streams THEN answer ELSE Stripped(answer)
    /\ UNCHANGED <<mode, cur, proc, pipe, written, heard, late, answer, left>>

TurnSteps == Read \/ Shown \/ Odd \/ Deadline \/ TimedOut \/ Stopped \/ Eof \/ Reaped \/ Post

Next ==
    \/ Writes \/ \E k \in Procs : Ends(k)
    \/ \E m \in Modes : Begin(m)
    \/ TurnSteps \/ Cancel \/ Swallow

Spec == Init /\ [][Next]_turnVars

\* The event loop runs, clocks go on and REST calls have timeouts: a process may hang.
TurnFairness == WF_turnVars(TurnSteps)

-----------------------------------------------------------------------------
\* Between turns no process of the session is at work, and in a turn only its own: two
\* would write one transcript.  Excepted are the ones let go of in a window of the code.
OneProcess ==
    \A k \in Procs : proc[k] \in Alive =>
        k \in left \/ (k = cur /\ pc \in {"reading", "yielded", "stopping", "reaping"})

\* What is posted is the answer of this turn's own process, which exited well, or an
\* error; nothing, only if the answer was the token; and the token, only if it was there
\* twice.
AnswerFits ==
    pc = "free" /\ late = "no" /\ cur # 0 /\ mode \in Streams =>
        \/ said = Error
        \/ /\ proc[cur] = "gone"
           /\ said = Silence => heard = <<"token">>
           /\ Contains(said, "token") =>
                  \E i, j \in DOMAIN heard : i # j /\ heard[i] = "token" /\ heard[j] = "token"

TurnSound == OneProcess /\ AnswerFits

\* Whatever its process does, a turn ends.
TurnEnds == pc # "free" ~> pc = "free"
=============================================================================
