----------------------- MODULE MessageProcessorProofs -----------------------
(***************************************************************************)
(* Proofs about a watcher's parts.  The processor, for every set of          *)
(* messages, every role assignment and every queue depth: what it took is    *)
(* handled, in order, whatever stops it.  Then what MCMessageProcessor puts  *)
(* beside it: that two command line processes are never at work on one       *)
(* session and that a turn posts what its own process said or an error, and  *)
(* that a watcher which serves its room has told the agent the room's name,  *)
(* for any number of turns, lines and processes, of renames, failures and    *)
(* attempts.                                                                *)
(***************************************************************************)
EXTENDS MCMessageProcessor, SequenceTheorems, WellFoundedInduction, TLAPS

Items == Msgs \cup {Sentinel}

\* How the consumer, the caller of stop() and the state field agree.
Control ==
    /\ state = "running" <=> stopping = "no"
    /\ state = "stopped" <=> stopping = "returned"
    /\ drained <=> task = "done"
    /\ stopping \in {"waiting", "cancelling", "outlasted"} => task # "none" /\ ~abandoned
    /\ stopping = "cancelling" => task # "done"
    /\ stopping \in {"joined", "returned"} => task \in {"none", "done"}
    /\ state = "running" => ~abandoned /\ task # "done"
    /\ task = "none" /\ stopping # "no" => abandoned
    /\ task \in {"none", "idle"} => batch = <<>>
    /\ task = "done" /\ ~abandoned => batch = <<>> /\ queue = <<>>
    /\ task \in {"context", "agent", "reply"} => turnInFlight
    /\ task # "done" /\ ~turnInFlight => batch = <<>>
    /\ state = "stopped" => notices = 0

IInv == TypeOK /\ Control /\ SentinelLast /\ Conservation

-----------------------------------------------------------------------------
(* Lemmas about queues.                                                     *)

\* Dropping the sentinel at the end of a queue leaves messages only.
LEMMA PendingType ==
    ASSUME NEW q \in Seq(Items),
           \A i \in 1..Len(q) : q[i] = Sentinel => i = Len(q)
    PROVE  Pending(q) \in Seq(Msgs)
<1>1. CASE q # <<>> /\ q[Len(q)] = Sentinel
  <2>1. \A i \in 1..(Len(q) - 1) : q[i] \in Msgs
    BY <1>1 DEF Items
  <2> QED BY <1>1, <2>1, SubSeqProperties DEF Pending
<1>2. CASE ~(q # <<>> /\ q[Len(q)] = Sentinel)
  <2>1. \A i \in 1..Len(q) : q[i] \in Msgs
    BY <1>2 DEF Items
  <2>2. Pending(q) = q
    BY <1>2 DEF Pending
  <2>3. SubSeq(q, 1, Len(q)) = q
    BY SubSeqFull
  <2>4. SubSeq(q, 1, Len(q)) \in Seq(Msgs)
    BY <2>1, SubSeqProperties
  <2> QED BY <2>2, <2>3, <2>4
<1> QED BY <1>1, <1>2

\* A queue with nothing behind a sentinel is taken whole: the consumer's next
\* turn holds every pending message and leaves the queue empty.
LEMMA TakeAll ==
    ASSUME NEW q \in Seq(Items), SentinelAssumption,
           \A i \in 1..Len(q) : q[i] = Sentinel => i = Len(q)
    PROVE  /\ Take(q).batch = Pending(q)
           /\ Take(q).queue = <<>>
           /\ Take(q).task \in {"idle", "context", "done"}
           /\ Take(q).task = "context" => Take(q).flight = TRUE
           /\ Take(q).task # "context" => /\ Pending(q) = <<>>
                                          /\ Take(q).flight = FALSE
<1>1. CASE q = <<>>
  BY <1>1 DEF Take, Pending
<1>2. CASE q # <<>> /\ Head(q) = Sentinel
  <2>1. Len(q) \in Nat \ {0}
    BY <1>2, EmptySeq
  <2>2. q[1] = Sentinel
    BY <1>2, <2>1
  <2>3. Len(q) = 1
    BY <2>1, <2>2
  <2>4. Take(q) = [task |-> "done", batch |-> <<>>, queue |-> <<>>, flight |-> FALSE]
    BY <1>2, <2>3 DEF Take
  <2>5. Pending(q) = <<>>
    <3>1. Pending(q) = SubSeq(q, 1, 0)
      BY <1>2, <2>2, <2>3 DEF Pending
    <3> QED BY <3>1, SubSeqEmpty
  <2> QED BY <1>2, <2>4, <2>5
<1>3. CASE q # <<>> /\ Head(q) # Sentinel
  <2>1. Take(q) = [task |-> "context", batch |-> SubSeq(q, 1, BatchLen(q)),
                   queue |-> SubSeq(q, BatchLen(q) + 2, Len(q)), flight |-> TRUE]
    BY <1>3 DEF Take
  <2>n. Len(q) \in Nat \ {0}
    BY <1>3, EmptySeq
  <2> DEFINE stops == {i \in 1..Len(q) : q[i] = Sentinel}
  <2>2. CASE q[Len(q)] = Sentinel
    <3>1. stops = {Len(q)}
      BY <2>n, <2>2
    <3>2. BatchLen(q) = Len(q) - 1
      BY <2>n, <3>1 DEF BatchLen
    <3>3. SubSeq(q, BatchLen(q) + 2, Len(q)) = <<>>
      BY <2>n, <3>2, SubSeqEmpty
    <3>4. Pending(q) = SubSeq(q, 1, BatchLen(q))
      BY <1>3, <2>2, <3>2 DEF Pending
    <3>5. Take(q) = [task |-> "context", batch |-> Pending(q), queue |-> <<>>,
                     flight |-> TRUE]
      BY <2>1, <3>3, <3>4
    <3> HIDE DEF stops
    <3> QED BY <3>5
  <2>3. CASE q[Len(q)] # Sentinel
    <3>1. stops = {}
      BY <2>n, <2>3
    <3>2. BatchLen(q) = Len(q)
      BY <3>1 DEF BatchLen
    <3>3. SubSeq(q, BatchLen(q) + 2, Len(q)) = <<>>
      BY <2>n, <3>2, SubSeqEmpty
    <3>4. SubSeq(q, 1, BatchLen(q)) = q
      BY <3>2, SubSeqFull
    <3>5. Pending(q) = q
      BY <2>3 DEF Pending
    <3> QED BY <1>3, <2>1, <3>3, <3>4, <3>5
  <2> QED BY <2>2, <2>3
<1> QED BY <1>1, <1>2, <1>3

-----------------------------------------------------------------------------
(* The inductive invariant.                                                 *)

LEMMA InitInv == Init => IInv
<1> SUFFICES ASSUME Init PROVE IInv
  OBVIOUS
<1>1. TypeOK
  BY EmptySeq DEF Init, TypeOK
<1>2. Control
  BY DEF Init, Control
<1>3. SentinelLast
  BY EmptySeq DEF Init, SentinelLast
<1>4. Conservation
  <2>1. Pending(queue) = <<>>
    BY DEF Init, Pending
  <2>2. <<>> \o <<>> = <<>>
    BY EmptySeq, ConcatEmptySeq
  <2> QED BY <2>1, <2>2 DEF Init, Conservation
<1> QED BY <1>1, <1>2, <1>3, <1>4 DEF IInv

\* The steps of the consumer and of stop() that do not touch the queue.
LEMMA QuietSteps ==
    ASSUME IInv, SentinelAssumption, RoleAssumption,
           \/ Start \/ (\E m \in Msgs : EnqueueFull(m)) \/ NoticeSent
           \/ CooldownOver \/ BeginTurn \/ ContextFails \/ StopDrained
           \/ StopTimeout \/ Cancelled \/ Swallowed \/ StopFinish \/ UNCHANGED vars
    PROVE  IInv'
<1> USE DEF IInv, noticeVars, consumerVars
<1>0. UNCHANGED <<queue, batch, accepted, finished>>
  BY DEF Start, EnqueueFull, NoticeSent, CooldownOver, BeginTurn, ContextFails,
         StopDrained, StopTimeout, Cancelled, Swallowed, StopFinish, vars
<1>1. Conservation'
  BY <1>0 DEF Conservation, Pending
<1>2. SentinelLast'
  BY <1>0 DEF SentinelLast, Control, TypeOK, Start, EnqueueFull, NoticeSent,
         CooldownOver, BeginTurn, ContextFails, StopDrained, StopTimeout,
         Cancelled, Swallowed, StopFinish, vars
<1>3. (TypeOK /\ Control)'
  <2>1. CASE Start
    BY <2>1, <1>0 DEF Start, TypeOK, Control
  <2>2. CASE \E m \in Msgs : EnqueueFull(m)
    BY <2>2, <1>0 DEF EnqueueFull, TypeOK, Control
  <2>3. CASE NoticeSent
    BY <2>3, <1>0 DEF NoticeSent, TypeOK, Control
  <2>4. CASE CooldownOver
    BY <2>4, <1>0 DEF CooldownOver, TypeOK, Control
  <2>5. CASE BeginTurn
    <3>1. sessionRole' \in {"owner", "guest"}
      BY <2>5 DEF BeginTurn, IsAnchor, Allowed, TypeOK, RoleAssumption
    <3> QED BY <2>5, <1>0, <3>1 DEF BeginTurn, TypeOK, Control
  <2>6. CASE ContextFails
    BY <2>6, <1>0 DEF ContextFails, TypeOK, Control
  <2>7. CASE StopDrained
    BY <2>7, <1>0 DEF StopDrained, TypeOK, Control
  <2>8. CASE StopTimeout
    BY <2>8, <1>0 DEF StopTimeout, TypeOK, Control
  <2>9. CASE Cancelled
    BY <2>9, <1>0 DEF Cancelled, TypeOK, Control
  <2>10. CASE StopFinish
    BY <2>10, <1>0 DEF StopFinish, TypeOK, Control
  <2>11. CASE UNCHANGED vars
    BY <2>11, <1>0 DEF vars, TypeOK, Control
  <2>12. CASE Swallowed
    BY <2>12, <1>0 DEF Swallowed, TypeOK, Control
  <2> QED BY <2>1, <2>2, <2>3, <2>4, <2>5, <2>6, <2>7, <2>8, <2>9, <2>10, <2>11, <2>12
<1> QED BY <1>1, <1>2, <1>3

\* A message accepted goes to the end of a queue that has no sentinel yet.
LEMMA EnqueueStep ==
    ASSUME IInv, SentinelAssumption, NEW m \in Msgs, EnqueueAccept(m)
    PROVE  IInv'
<1> USE DEF IInv, noticeVars, consumerVars
<1>1. /\ state = "running"
      /\ queue' = Append(queue, m) /\ accepted' = Append(accepted, m)
      /\ UNCHANGED <<state, task, batch, turnInFlight, drained, stopping, notices,
                     cooling, sessionRole, finished, abandoned>>
  BY DEF EnqueueAccept, IsAccepting
<1>2. queue \in Seq(Items) /\ m \in Items
  BY DEF TypeOK, Items
<1>3. \A i \in 1..Len(queue) : queue[i] # Sentinel
  BY <1>1 DEF SentinelLast
<1>4. queue = Pending(queue) /\ queue \in Seq(Msgs)
  <2>1. queue = Pending(queue)
    BY <1>2, <1>3, EmptySeq DEF Pending
  <2> QED BY <1>2, <1>3, <2>1, PendingType
<1>5. /\ queue' \in Seq(Msgs) /\ Len(queue') = Len(queue) + 1
      /\ \A i \in 1..Len(queue') : queue'[i] \in Msgs
  BY <1>1, <1>4, AppendProperties, ElementOfSeq
<1>6. Pending(queue') = queue'
  <2>1. queue'[Len(queue')] # Sentinel \/ queue' = <<>>
    BY <1>5, EmptySeq DEF SentinelAssumption
  <2> QED BY <2>1 DEF Pending
<1>7. TypeOK'
  <2>1. queue' \in Seq(Items)
    BY <1>1, <1>2, AppendProperties
  <2> QED BY <1>1, <2>1, AppendProperties DEF TypeOK, Items
<1>8. Control'
  BY <1>1 DEF Control
<1>9. SentinelLast'
  BY <1>5 DEF SentinelLast, SentinelAssumption
<1>10. Conservation'
  <2>1. batch \in Seq(Msgs) /\ finished \in Seq(Msgs) /\ finished \o batch \in Seq(Msgs)
    BY ConcatProperties DEF TypeOK
  <2>2. accepted = (finished \o batch) \o queue
    BY <1>4 DEF Conservation
  <2>3. /\ accepted' = accepted \o <<m>> /\ queue' = queue \o <<m>>
        /\ <<m>> \in Seq(Msgs)
    BY <1>1, <1>4, AppendIsConcat DEF TypeOK
  <2>4. ((finished \o batch) \o queue) \o <<m>> = (finished \o batch) \o (queue \o <<m>>)
    <3> DEFINE done == finished \o batch
    <3>1. done \in Seq(Msgs) /\ queue \in Seq(Msgs) /\ <<m>> \in Seq(Msgs)
      BY <1>4, <2>1, <2>3
    <3> HIDE DEF done
    <3>2. (done \o queue) \o <<m>> = done \o (queue \o <<m>>)
      BY ONLY <3>1, ConcatAssociative
    <3> QED BY <3>2 DEF done
  <2> QED BY <1>1, <1>6, <2>2, <2>3, <2>4 DEF Conservation
<1> QED BY <1>7, <1>8, <1>9, <1>10

\* The consumer comes out of get() and takes everything that is pending.
LEMMA WakeStep ==
    ASSUME IInv, SentinelAssumption, Wake
    PROVE  IInv'
<1> USE DEF IInv, noticeVars
<1>1. queue \in Seq(Items)
  BY DEF TypeOK, Items
<1>2. \A i \in 1..Len(queue) : queue[i] = Sentinel => i = Len(queue)
  BY DEF SentinelLast
<1> DEFINE t == Take(queue)
<1>3. /\ task' = t.task /\ batch' = t.batch /\ queue' = t.queue
      /\ turnInFlight' = t.flight /\ drained' = (t.task = "done")
      /\ task = "idle" /\ queue # <<>> /\ stopping # "cancelling"
      /\ UNCHANGED <<state, stopping, notices, cooling, sessionRole, accepted,
                     finished, abandoned>>
  BY DEF Wake, Goto, Runs
<1>4. /\ batch' = Pending(queue) /\ queue' = <<>>
      /\ task' \in {"idle", "context", "done"}
      /\ task' = "context" => turnInFlight' = TRUE
      /\ task' # "context" => Pending(queue) = <<>> /\ turnInFlight' = FALSE
  BY <1>1, <1>2, <1>3, TakeAll
<1>5. task' = "done" => state # "running"
  <2>1. task' = "done" => queue[1] = Sentinel /\ 1 \in 1..Len(queue)
    BY <1>1, <1>3, EmptySeq DEF Take
  <2> QED BY <2>1 DEF SentinelLast
<1>6. batch' \in Seq(Msgs)
  BY <1>1, <1>2, <1>4, PendingType
<1>7. TypeOK'
  BY <1>3, <1>4, <1>6, EmptySeq DEF TypeOK
<1>8. Control'
  BY <1>3, <1>4, <1>5 DEF Control
<1>9. SentinelLast'
  BY <1>4, EmptySeq DEF SentinelLast
<1>10. Conservation'
  <2>1. batch = <<>> /\ finished \in Seq(Msgs)
    BY <1>3 DEF Control, TypeOK
  <2>2. accepted = finished \o Pending(queue)
    BY <2>1, ConcatEmptySeq DEF Conservation
  <2>3. Pending(queue') = <<>>
    BY <1>4 DEF Pending
  <2>4. (finished \o batch') \o <<>> = finished \o batch'
    BY <1>6, <2>1, ConcatProperties, ConcatEmptySeq
  <2> QED BY <1>3, <1>4, <2>2, <2>3, <2>4 DEF Conservation
<1> QED BY <1>7, <1>8, <1>9, <1>10

\* A turn ends: its messages are finished and the next ones, if any, taken.
LEMMA EndTurnStep ==
    ASSUME IInv, SentinelAssumption, EndTurn
    PROVE  IInv'
<1> USE DEF IInv, noticeVars
<1>1. queue \in Seq(Items) /\ <<Sentinel>> \in Seq(Items)
  BY DEF TypeOK, Items
<1>2. \A i \in 1..Len(queue) : queue[i] = Sentinel => i = Len(queue)
  BY DEF SentinelLast
<1> DEFINE leave == state = "draining" /\ queue = <<>>
           q == IF leave THEN <<Sentinel>> ELSE queue
           t == Take(q)
<1>3. /\ task' = t.task /\ batch' = t.batch /\ queue' = t.queue
      /\ turnInFlight' = t.flight /\ drained' = (t.task = "done")
      /\ task \in {"context", "agent", "reply"} /\ stopping # "cancelling"
      /\ finished' = finished \o batch
      /\ UNCHANGED <<state, stopping, notices, cooling, sessionRole, accepted,
                     abandoned>>
  BY DEF EndTurn, Goto, Runs
<1>4. /\ q \in Seq(Items)
      /\ \A i \in 1..Len(q) : q[i] = Sentinel => i = Len(q)
      /\ Pending(q) = Pending(queue)
  <2>1. CASE leave
    <3>1. q = <<Sentinel>> /\ Len(q) = 1 /\ Pending(queue) = <<>>
      BY <2>1 DEF Pending
    <3>2. Pending(q) = SubSeq(q, 1, 0)
      BY <3>1 DEF Pending
    <3>3. SubSeq(q, 1, 0) = <<>>
      BY SubSeqEmpty
    <3>4. q \in Seq(Items)
      BY <1>1, <3>1
    <3>5. \A i \in 1..Len(q) : q[i] = Sentinel => i = Len(q)
      <4> HIDE DEF q
      <4> QED BY <3>1
    <3>6. Pending(q) = Pending(queue)
      BY <3>1, <3>2, <3>3
    <3> QED BY <3>4, <3>5, <3>6
  <2>2. CASE ~leave
    BY <2>2, <1>1, <1>2
  <2> QED BY <2>1, <2>2
<1>5. /\ batch' = Pending(queue) /\ queue' = <<>>
      /\ task' \in {"idle", "context", "done"}
      /\ task' = "context" => turnInFlight' = TRUE
      /\ task' # "context" => Pending(queue) = <<>> /\ turnInFlight' = FALSE
  <2> HIDE DEF q
  <2> QED BY <1>3, <1>4, TakeAll
<1>6. task' = "done" => state # "running"
  <2>1. CASE leave
    BY <2>1
  <2>2. CASE ~leave
    <3>1. task' = "done" => queue # <<>> /\ queue[1] = Sentinel
      BY <1>3, <2>2 DEF Take
    <3>2. task' = "done" => 1 \in 1..Len(queue)
      BY <1>1, <3>1, EmptySeq
    <3> QED BY <3>1, <3>2 DEF SentinelLast
  <2> QED BY <2>1, <2>2
<1>7. batch' \in Seq(Msgs)
  BY <1>1, <1>2, <1>5, PendingType
<1>8. finished \in Seq(Msgs) /\ batch \in Seq(Msgs) /\ finished' \in Seq(Msgs)
  BY <1>3, ConcatProperties DEF TypeOK
<1>9. TypeOK'
  BY <1>3, <1>5, <1>7, <1>8, EmptySeq DEF TypeOK
<1>10. Control'
  BY <1>3, <1>5, <1>6 DEF Control
<1>11. SentinelLast'
  BY <1>5, EmptySeq DEF SentinelLast
<1>12. Conservation'
  <2>1. accepted' = finished' \o batch'
    BY <1>3, <1>5 DEF Conservation
  <2>2. Pending(queue') = <<>>
    BY <1>5 DEF Pending
  <2>3. (finished' \o batch') \o <<>> = finished' \o batch'
    BY <1>7, <1>8, ConcatProperties, ConcatEmptySeq
  <2> QED BY <2>1, <2>2, <2>3 DEF Conservation
<1> QED BY <1>9, <1>10, <1>11, <1>12

\* stop() puts the sentinel, if it fits, at the end of a queue without one.
LEMMA StopStep ==
    ASSUME IInv, SentinelAssumption, Stop
    PROVE  IInv'
<1> USE DEF IInv, noticeVars, consumerVars
<1>1. /\ state = "running" /\ state' = "draining"
      /\ stopping' = IF task = "none" THEN "joined" ELSE "waiting"
      /\ abandoned' = (task = "none")
      /\ UNCHANGED <<task, batch, turnInFlight, drained, notices, cooling,
                     sessionRole, accepted, finished>>
      /\ queue' = queue \/ queue' = Append(queue, Sentinel)
  BY DEF Stop
<1>2. queue \in Seq(Items) /\ Sentinel \in Items
  BY DEF TypeOK, Items
<1>3. \A i \in 1..Len(queue) : queue[i] # Sentinel
  BY <1>1 DEF SentinelLast
<1>4. Pending(queue) = queue
  BY <1>2, <1>3, EmptySeq DEF Pending
<1>5. queue' \in Seq(Items)
  BY <1>1, <1>2, AppendProperties
<1>6. \A i \in 1..Len(queue') : queue'[i] = Sentinel => i = Len(queue')
  <2>1. CASE queue' = queue
    BY <2>1, <1>3
  <2>2. CASE queue' = Append(queue, Sentinel)
    BY <2>2, <1>2, <1>3, AppendProperties
  <2> QED BY <1>1, <2>1, <2>2
<1>7. Pending(queue') = Pending(queue)
  <2>1. CASE queue' = queue
    BY <2>1
  <2>2. CASE queue' = Append(queue, Sentinel)
    <3>1. /\ queue' # <<>> /\ Len(queue') = Len(queue) + 1
          /\ queue'[Len(queue')] = Sentinel /\ Len(queue) \in Nat
          /\ \A i \in 1..Len(queue) : queue'[i] = queue[i]
      BY <2>2, <1>2, AppendProperties, LenProperties
    <3>2. Pending(queue') = SubSeq(queue', 1, Len(queue))
      BY <3>1 DEF Pending
    <3>3. SubSeq(queue', 1, Len(queue)) = queue
      BY <2>2, <1>2, HeadTailAppend, SubSeqProperties, <3>1, <1>5, SeqEqual, ElementOfSeq
    <3> QED BY <1>4, <3>2, <3>3
  <2> QED BY <1>1, <2>1, <2>2
<1>8. TypeOK'
  BY <1>1, <1>5 DEF TypeOK, Items
<1>9. Control'
  BY <1>1 DEF Control
<1>10. SentinelLast'
  BY <1>1, <1>6 DEF SentinelLast
<1>11. Conservation'
  BY <1>1, <1>7 DEF Conservation
<1> QED BY <1>8, <1>9, <1>10, <1>11

-----------------------------------------------------------------------------
LEMMA StepInv == IInv /\ [Next]_vars => IInv'
<1> SUFFICES ASSUME IInv, [Next]_vars PROVE IInv'
  OBVIOUS
<1> USE SentinelAssumption, RoleAssumption
<1>1. CASE \E m \in Msgs : EnqueueAccept(m)
  BY <1>1, EnqueueStep
<1>2. CASE Wake
  BY <1>2, WakeStep
<1>3. CASE EndTurn
  BY <1>3, EndTurnStep
<1>4. CASE Stop
  BY <1>4, StopStep
<1>5. CASE \/ Start \/ (\E m \in Msgs : EnqueueFull(m)) \/ NoticeSent
           \/ CooldownOver \/ BeginTurn \/ ContextFails \/ StopDrained
           \/ StopTimeout \/ Cancelled \/ Swallowed \/ StopFinish \/ UNCHANGED vars
  BY <1>5, QuietSteps
<1> QED BY <1>1, <1>2, <1>3, <1>4, <1>5 DEF Next, Consumer, Stopper

\* The strengthened invariant holds in every reachable state.
LEMMA Invariance == Spec => []IInv
BY InitInv, StepInv, PTL DEF Spec

\* Every variable of the processor keeps its type.
THEOREM TypeCorrect == Spec => []TypeOK
BY Invariance, PTL DEF IInv

\* enqueue() and stop() never let a message in behind the drain sentinel.
THEOREM SentinelIsLast == Spec => []SentinelLast
BY Invariance, PTL DEF IInv

\* Nothing accepted is lost, duplicated or reordered between enqueue() and the
\* end of its turn, for any queue depth and whenever stop() is called.
THEOREM NothingLost == Spec => []Conservation
BY Invariance, PTL DEF IInv

\* A consumer that left without being cancelled has finished all it accepted.
LEMMA DrainLemma == IInv => DrainComplete
<1> SUFFICES ASSUME IInv, task = "done", ~abandoned PROVE finished = accepted
  BY DEF DrainComplete
<1>1. batch = <<>> /\ queue = <<>> /\ finished \in Seq(Msgs)
  BY DEF IInv, Control, TypeOK
<1>2. Pending(queue) = <<>>
  BY <1>1 DEF Pending
<1>3. (finished \o <<>>) \o <<>> = finished
  BY <1>1, ConcatEmptySeq
<1> QED BY <1>1, <1>2, <1>3 DEF IInv, Conservation

\* Whichever of the three ways the consumer left by, its exit means that all the messages
\* accepted are finished, unless it was a cancellation that took effect.
THEOREM DrainIsComplete == Spec => []DrainComplete
BY DrainLemma, Invariance, PTL

\* The idle sweep may trust has_work_in_flight: while a consumer lives, it reads
\* False only when everything accepted is finished.
THEOREM BusyGateIsSound == Spec => []BusyGateSound
<1>1. IInv => BusyGateSound
  <2> SUFFICES ASSUME IInv, task \notin {"none", "done"}, ~HasWorkInFlight
               PROVE  finished = accepted
    BY DEF BusyGateSound
  <2>1. batch = <<>> /\ queue = <<>> /\ finished \in Seq(Msgs)
    BY DEF IInv, Control, TypeOK, HasWorkInFlight
  <2>2. Pending(queue) = <<>>
    BY <2>1 DEF Pending
  <2>3. (finished \o <<>>) \o <<>> = finished
    BY <2>1, ConcatEmptySeq
  <2> QED BY <2>1, <2>2, <2>3 DEF IInv, Conservation
<1> QED BY <1>1, Invariance, PTL

\* When stop() has returned, neither the consumer nor a notice is left.
THEOREM NothingIsLeftRunning == Spec => []NothingFloats
<1>1. IInv => NothingFloats
  BY DEF IInv, Control, NothingFloats
<1> QED BY <1>1, Invariance, PTL

\* The three together: an ordered hand-over that leaves nothing behind.
THEOREM HandOverIsOrdered == Spec => []OrderedHandOver
BY SentinelIsLast, NothingLost, NothingIsLeftRunning, PTL DEF OrderedHandOver

\* The consumer goes from one turn to the next by way of its context.
LEMMA TakeStarts == ASSUME NEW q PROVE Take(q).task \in {"idle", "done", "context"}
<1>1. CASE q = <<>>
  BY <1>1 DEF Take
<1>2. CASE q # <<>> /\ Head(q) = Sentinel /\ Len(q) = 1
  BY <1>2 DEF Take
<1>3. CASE q # <<>> /\ Head(q) = Sentinel /\ Len(q) > 1
  BY <1>3 DEF Take
<1>4. CASE ~(q = <<>>) /\ ~(Head(q) = Sentinel /\ Len(q) = 1)
           /\ ~(Head(q) = Sentinel /\ Len(q) > 1)
  BY <1>4 DEF Take
<1> QED BY <1>1, <1>2, <1>3, <1>4

\* The role a tool call is judged by is the anchor's: for any batch, the agent works under
\* the role of the last message in it whose sender is known.
THEOREM TheAgentActsForTheAnchor == Spec => []ActsForAnchor
<1>1. Init => ActsForAnchor
  BY DEF Init, ActsForAnchor
<1>2. IInv /\ ActsForAnchor /\ [Next]_vars => ActsForAnchor'
  <2> SUFFICES ASSUME IInv, ActsForAnchor, [Next]_vars, task' = "agent"
               PROVE  ActsForAnchor'
    BY DEF ActsForAnchor
  <2>1. CASE BeginTurn
    <3>1. PICK i \in 1..Len(batch) : IsAnchor(batch, i) /\ sessionRole' = RoleOf[batch[i]]
      BY <2>1 DEF BeginTurn
    <3>2. batch' = batch
      BY <2>1 DEF BeginTurn
    <3>3. \A j \in i+1..Len(batch) : RoleOf[batch[j]] = "anonymous"
      <4> SUFFICES ASSUME NEW j \in i+1..Len(batch), RoleOf[batch[j]] # "anonymous"
                   PROVE  FALSE
        OBVIOUS
      <4>1. batch \in Seq(Msgs)
        BY DEF IInv, TypeOK
      <4>2. i \in Nat /\ j \in 1..Len(batch) /\ j > i
        BY <4>1
      <4>3. j <= i
        BY <3>1, <4>2 DEF IsAnchor, Allowed
      <4> QED BY <4>2, <4>3
    <3>4. RoleOf[batch[i]] # "anonymous"
      BY <3>1 DEF IsAnchor, Allowed
    <3> QED BY <3>1, <3>2, <3>3, <3>4 DEF ActsForAnchor
  <2>2. CASE Wake \/ EndTurn
    <3>1. PICK q : task' = Take(q).task
      BY <2>2 DEF Wake, EndTurn, Goto
    <3> QED BY <3>1, TakeStarts
  <2>3. CASE UNCHANGED <<task, batch, sessionRole>>
    BY <2>3 DEF ActsForAnchor
  <2>4. ~Start /\ ~ContextFails /\ ~Cancelled
    BY DEF Start, ContextFails, Cancelled
  <2> QED
    BY <2>1, <2>2, <2>3, <2>4
    DEF Next, Consumer, Stopper, EnqueueAccept, EnqueueFull, NoticeSent, CooldownOver, Stop,
        StopDrained, StopTimeout, Swallowed, StopFinish, vars, consumerVars
<1> QED BY <1>1, <1>2, Invariance, PTL DEF Spec

\* A stopped processor keeps still, whoever still holds on to it.
THEOREM StoppedStaysStopped == Spec => [][StoppedIsFinal]_vars
<1>1. IInv /\ [Next]_vars => [StoppedIsFinal]_vars
  <2> SUFFICES ASSUME IInv, Next, state = "stopped"
               PROVE  UNCHANGED <<state, queue, task, batch, notices, sessionRole, accepted,
                                  finished>>
    BY DEF StoppedIsFinal
  <2>1. notices = 0 /\ task \in {"none", "done"} /\ stopping = "returned" /\ queue = queue
    BY DEF IInv, Control
  <2>2. ~Wake /\ ~BeginTurn /\ ~ContextFails /\ ~EndTurn /\ ~Cancelled /\ ~StopDrained
        /\ ~StopTimeout /\ ~Swallowed /\ ~StopFinish /\ ~Stop /\ ~Start /\ ~NoticeSent
    BY <2>1 DEF Wake, BeginTurn, ContextFails, EndTurn, Cancelled, StopDrained, StopTimeout,
                Swallowed, StopFinish, Stop, Start, NoticeSent
  <2>3. \A m \in Msgs : ~EnqueueAccept(m) /\ ~EnqueueFull(m)
    BY DEF EnqueueAccept, EnqueueFull, IsAccepting
  <2>4. CASE CooldownOver
    BY <2>4 DEF CooldownOver, consumerVars
  <2> QED BY <2>2, <2>3, <2>4 DEF Next, Consumer, Stopper
<1> QED BY <1>1, Invariance, PTL DEF Spec

-----------------------------------------------------------------------------
(* Refinement: the processor implements RoomInbox.                          *)

LEMMA InboxInit == Init => Inbox!Init
BY DEF Init, Inbox!Init, Phase

\* The end of a turn handles the turn's messages, the next in order.
LEMMA InboxHandle ==
    ASSUME IInv, EndTurn
    PROVE  Inbox!Handle \/ UNCHANGED Inbox!vars
<1> USE DEF IInv, noticeVars
<1>1. /\ UNCHANGED <<state, accepted, abandoned>> /\ finished' = finished \o batch
      /\ task \in {"context", "agent", "reply"}
  BY DEF EndTurn
\* A consumer that is in a turn has not been given up: a cancellation that takes effect
\* ends it, and one that does not changes nothing.
<1>2. ~abandoned /\ state # "stopped"
  BY <1>1 DEF Control, TypeOK
<1>3. /\ finished \in Seq(Msgs) /\ batch \in Seq(Msgs) /\ Pending(queue) \in Seq(Msgs)
      /\ finished' \in Seq(Msgs)
  <2>1. queue \in Seq(Items)
    BY DEF TypeOK, Items
  <2>2. \A i \in 1..Len(queue) : queue[i] = Sentinel => i = Len(queue)
    BY DEF SentinelLast
  <2>3. Pending(queue) \in Seq(Msgs)
    BY <2>1, <2>2, PendingType
  <2> QED BY <1>1, <2>3, ConcatProperties DEF TypeOK
<1>4. CASE batch = <<>>
  <2>1. finished' = finished
    BY <1>1, <1>3, <1>4, ConcatEmptySeq
  <2> QED BY <1>1, <2>1 DEF Inbox!vars, Phase
<1>5. CASE batch # <<>>
  <2> DEFINE n == Len(finished')
  <2>1. accepted = finished' \o Pending(queue)
    BY <1>1 DEF Conservation
  <2>2. n = Len(finished) + Len(batch) /\ Len(batch) \in Nat \ {0} /\ Len(finished) \in Nat
    BY <1>1, <1>3, <1>5, ConcatProperties, EmptySeq
  <2>3. Len(accepted) = n + Len(Pending(queue)) /\ Len(Pending(queue)) \in Nat
    BY <1>3, <2>1, ConcatProperties
  <2>4. n \in Len(finished) + 1 .. Len(accepted)
    BY <2>2, <2>3
  <2>5. finished' = SubSeq(accepted, 1, n)
    <3>1. /\ \A i \in 1..n : accepted[i] = finished'[i]
          /\ \A i \in 1..n : finished'[i] \in Msgs
      BY <1>3, <2>1, <2>2, <2>3, ConcatProperties, ElementOfSeq
    <3>2. /\ SubSeq(accepted, 1, n) \in Seq(Msgs)
          /\ Len(SubSeq(accepted, 1, n)) = n
          /\ \A i \in 1..n : SubSeq(accepted, 1, n)[i] = accepted[i]
      BY <2>2, <3>1, SubSeqProperties
    <3> QED BY <1>3, <3>1, <3>2, SeqEqual
  <2> QED BY <1>1, <1>2, <2>4, <2>5 DEF Inbox!Handle, Phase, TypeOK
<1> QED BY <1>4, <1>5

LEMMA InboxStep == IInv /\ [Next]_vars => [Inbox!Next]_(Inbox!vars)
<1> SUFFICES ASSUME IInv, [Next]_vars PROVE Inbox!Next \/ UNCHANGED Inbox!vars
  OBVIOUS
<1> USE DEF IInv, noticeVars, consumerVars
<1>1. CASE \E m \in Msgs : EnqueueAccept(m)
  <2>1. PICK m \in Msgs : EnqueueAccept(m)
    BY <1>1
  <2>2. Inbox!Accept(m)
    BY <2>1 DEF EnqueueAccept, IsAccepting, Accepted, Inbox!Accept, Phase
  <2> QED BY <2>2 DEF Inbox!Next
<1>2. CASE EndTurn
  BY <1>2, InboxHandle DEF Inbox!Next
<1>3. CASE Stop
  BY <1>3 DEF Stop, Inbox!Next, Inbox!Close, Phase
<1>4. CASE Cancelled
  <2>1. state = "draining" /\ ~abandoned
    BY <1>4 DEF Cancelled, Control, TypeOK
  <2> QED BY <1>4, <2>1 DEF Cancelled, Inbox!Next, Inbox!GiveUp, Phase
<1>5. CASE StopFinish
  <2>1. abandoned \/ finished = accepted
    BY <1>5, DrainLemma DEF StopFinish, Control, DrainComplete, TypeOK
  <2>2. state = "draining"
    BY <1>5 DEF StopFinish, Control, TypeOK
  <2> QED BY <1>5, <2>1, <2>2 DEF StopFinish, Inbox!Next, Inbox!Finish, Phase
<1>6. CASE \/ Start \/ (\E m \in Msgs : EnqueueFull(m)) \/ NoticeSent
           \/ CooldownOver \/ Wake \/ BeginTurn \/ ContextFails \/ StopDrained
           \/ StopTimeout \/ Swallowed \/ UNCHANGED vars
  <2>1. UNCHANGED <<state, accepted, finished, abandoned>>
    BY <1>6 DEF Start, EnqueueFull, NoticeSent, CooldownOver, Wake, BeginTurn,
                ContextFails, StopDrained, StopTimeout, Swallowed, vars
  <2> QED BY <2>1 DEF Inbox!vars, Phase
<1> QED BY <1>1, <1>2, <1>3, <1>4, <1>5, <1>6 DEF Next, Consumer, Stopper

\* The queue, the sentinel, the batches and the cancellation, effective or swallowed,
\* implement the promise of RoomInbox, for every set of messages and every queue depth.
THEOREM ProcessorImplementsInbox == Spec => ImplementsInbox
BY InboxInit, InboxStep, Invariance, PTL DEF Spec, ImplementsInbox, Inbox!Spec

-----------------------------------------------------------------------------
(* A turn of the agent: the inductive invariant.                            *)

InTurn == pc \in {"reading", "yielded", "stopping", "reaping"}

TurnPlaces ==
    /\ pc \in {"free", "reading", "yielded", "stopping", "reaping", "posting"}
    /\ proc \in [Procs -> AT!Alive \cup {"none", "gone", "failed"}]
    /\ cur \in Procs \cup {0}

\* Where the turn is says what its process can be: it was told to go exactly when the turn
\* waits for that, and has closed its stdout when the turn waits for its exit.
CurFits ==
    /\ InTurn => cur \in Procs /\ proc[cur] # "none"
    /\ pc \in {"reading", "yielded"} => proc[cur] # "told"
    /\ pc = "stopping" => proc[cur] \notin {"running", "closed"}
    /\ pc = "reaping" => proc[cur] \notin {"running", "told"}

TInv == TurnPlaces /\ CurFits /\ AT!OneProcess

USE DEF AT!Alive, InTurn

LEMMA InitTInv == AT!Init => TInv
BY DEF AT!Init, TInv, TurnPlaces, CurFits, AT!OneProcess

-----------------------------------------------------------------------------
(* One lemma per step that starts, ends or lets go of a process.            *)

\* Between turns the processes alive are those let go of: a new one is alone.
LEMMA BeginKeeps ==
    ASSUME TInv, NEW m \in AT!Modes, AT!Begin(m)
    PROVE  TInv'
<1> DEFINE k == CHOOSE n \in Procs : proc[n] = "none"
<1>1. k \in Procs /\ proc[k] = "none"
  BY DEF AT!Begin
<1>2. pc = "free" /\ cur' = k /\ left' = left
  BY DEF AT!Begin
<1>3. \/ pc' = "reading" /\ proc' = [proc EXCEPT ![k] = "running"]
      \/ pc' = "posting" /\ proc' = [proc EXCEPT ![k] = "gone"]
  BY DEF AT!Begin
<1> HIDE DEF k
<1>4. TurnPlaces'
  BY <1>1, <1>2, <1>3 DEF TInv, TurnPlaces
<1>5. CurFits'
  BY <1>1, <1>2, <1>3 DEF TInv, TurnPlaces, CurFits
<1>6. AT!OneProcess'
  BY <1>1, <1>2, <1>3 DEF TInv, TurnPlaces, AT!OneProcess
<1> QED
  BY <1>4, <1>5, <1>6 DEF TInv

LEMMA EndsKeeps ==
    ASSUME TInv, NEW k \in Procs, AT!Ends(k)
    PROVE  TInv'
<1>1. /\ proc[k] \in {"running", "closed"} /\ UNCHANGED <<pc, cur, left>>
      /\ \E s \in {"closed", "gone", "failed"} : proc' = [proc EXCEPT ![k] = s]
  BY DEF AT!Ends
<1>2. PICK s \in {"closed", "gone", "failed"} : proc' = [proc EXCEPT ![k] = s]
  BY <1>1
<1>3. TurnPlaces'
  BY <1>1, <1>2 DEF TInv, TurnPlaces
<1>4. CurFits'
  BY <1>1, <1>2 DEF TInv, TurnPlaces, CurFits
<1>5. AT!OneProcess'
  BY <1>1, <1>2 DEF TInv, TurnPlaces, AT!OneProcess
<1> QED
  BY <1>3, <1>4, <1>5 DEF TInv

\* A process that is told to go was at work, or is none.
LEMMA Telling ==
    ASSUME TInv, pc = "reading", pc' = "stopping", proc' = AT!Terminated(cur),
           UNCHANGED <<cur, left>>
    PROVE  TInv'
<1>1. cur \in Procs
  BY DEF TInv, CurFits
<1>2. CASE proc[cur] \in {"running", "closed"}
  <2>1. proc' = [proc EXCEPT ![cur] = "told"]
    BY <1>2 DEF AT!Terminated
  <2> QED
    BY <1>1, <2>1 DEF TInv, TurnPlaces, CurFits, AT!OneProcess
<1>3. CASE proc[cur] \notin {"running", "closed"}
  <2>1. proc' = proc
    BY <1>3 DEF AT!Terminated
  <2> QED
    BY <1>1, <1>3, <2>1 DEF TInv, TurnPlaces, CurFits, AT!OneProcess
<1> QED
  BY <1>2, <1>3

\* Nobody waits for the process that a cancelled turn had: it is let go of.
LEMMA LettingGo ==
    ASSUME TInv, InTurn, pc' \in {"free", "posting"}, UNCHANGED <<proc, cur>>,
           left' = IF proc[cur] \in AT!Alive THEN left \cup {cur} ELSE left
    PROVE  TInv'
BY DEF TInv, TurnPlaces, CurFits, AT!OneProcess

\* After the grace period the process that was told to go has gone.
LEMMA Killing ==
    ASSUME TInv, pc = "stopping", pc' \in {"free", "posting"}, proc' = AT!Killed(cur),
           UNCHANGED <<cur, left>>
    PROVE  TInv'
BY DEF TInv, TurnPlaces, CurFits, AT!OneProcess, AT!Killed

LEMMA NextTInv ==
    ASSUME TInv, [AT!Next]_agentVars
    PROVE  TInv'
<1>1. ASSUME NEW k \in Procs, AT!Ends(k) PROVE TInv'
  BY <1>1, EndsKeeps
<1>2. ASSUME NEW m \in AT!Modes, AT!Begin(m) PROVE TInv'
  BY <1>2, BeginKeeps
<1>3. CASE AT!Writes \/ AT!Read \/ AT!Shown \/ AT!Deadline \/ AT!Swallow \/ UNCHANGED agentVars
  <2>1. /\ UNCHANGED <<proc, cur, left>>
        /\ pc' = pc \/ (pc \in {"reading", "yielded"} /\ pc' \in {"reading", "yielded"})
    BY <1>3 DEF AT!Writes, AT!Read, AT!Shown, AT!Deadline, AT!Swallow, agentVars
  <2> QED
    BY <2>1 DEF TInv, TurnPlaces, CurFits, AT!OneProcess
<1>4. CASE AT!Odd
  BY <1>4, LettingGo DEF AT!Odd
<1>5. CASE AT!TimedOut
  BY <1>5, Telling DEF AT!TimedOut
<1>6. CASE AT!Cancel
  <2>1. CASE pc = "reading"
    BY <1>6, <2>1, Telling DEF AT!Cancel
  <2>2. CASE pc \in {"yielded", "reaping"}
    BY <1>6, <2>2, LettingGo DEF AT!Cancel
  <2>3. CASE pc = "posting"
    <3>1. pc' = "free" /\ UNCHANGED <<proc, cur, left>>
      BY <1>6, <2>3 DEF AT!Cancel
    <3> QED
      BY <2>3, <3>1 DEF TInv, TurnPlaces, CurFits, AT!OneProcess
  <2>4. CASE pc = "stopping"
    BY <1>6, <2>4, Killing DEF AT!Cancel
  <2> QED
    BY <1>6, <2>1, <2>2, <2>3, <2>4 DEF AT!Cancel
<1>7. CASE AT!Stopped
  BY <1>7, Killing DEF AT!Stopped
<1>8. CASE AT!Eof
  <2>1. /\ pc = "reading" /\ pc' = "reaping" /\ proc[cur] # "running"
        /\ UNCHANGED <<proc, cur, left>>
    BY <1>8 DEF AT!Eof
  <2> QED
    BY <2>1 DEF TInv, TurnPlaces, CurFits, AT!OneProcess
<1>9. CASE AT!Reaped
  <2>1. /\ pc = "reaping" /\ pc' = "posting" /\ UNCHANGED <<cur, left>>
        /\ proc' = [proc EXCEPT ![cur] = IF @ = "closed" THEN "failed" ELSE @]
    BY <1>9 DEF AT!Reaped
  <2> QED
    BY <2>1 DEF TInv, TurnPlaces, CurFits, AT!OneProcess
<1>10. CASE AT!Post
  <2>1. pc = "posting" /\ pc' = "free" /\ UNCHANGED <<proc, cur, left>>
    BY <1>10 DEF AT!Post
  <2> QED
    BY <2>1 DEF TInv, TurnPlaces, CurFits, AT!OneProcess
<1> QED
  BY <1>1, <1>2, <1>3, <1>4, <1>5, <1>6, <1>7, <1>8, <1>9, <1>10 DEF AT!Next, AT!TurnSteps

-----------------------------------------------------------------------------
(* What is posted.                                                          *)

\* A set of positions has a first one.
LEMMA First ==
    ASSUME NEW T, T \subseteq Nat, T # {}
    PROVE  \E i \in T : \A j \in T : i <= j
<1>1. IsWellFoundedOn(OpToRel(<, Nat), Nat)
  BY NatLessThanWellFounded
<1>2. \E x \in T : \A y \in T : ~ (<<y, x>> \in OpToRel(<, Nat))
  BY <1>1, WFMin, Zenon
<1>3. OpToRel(<, Nat) = {ss \in Nat \X Nat : ss[1] < ss[2]}
  BY Zenon DEF OpToRel
<1>4. PICK i \in T : \A j \in T : ~ (<<j, i>> \in OpToRel(<, Nat))
  BY <1>2
<1>5. ASSUME NEW j \in T PROVE ~ (j < i)
  <2>1. ~ (<<j, i>> \in {ss \in Nat \X Nat : ss[1] < ss[2]})
    BY <1>3, <1>4, Zenon
  <2> QED
    BY <2>1
<1> QED
  BY <1>5

\* A sequence without its i-th element.
LEMMA Removed ==
    ASSUME NEW S, NEW a \in Seq(S), NEW i \in 1 .. Len(a)
    PROVE  /\ AT!RemoveAt(a, i) \in Seq(S)
           /\ Len(AT!RemoveAt(a, i)) = Len(a) - 1
           /\ \A p \in 1 .. Len(a) - 1 :
                 AT!RemoveAt(a, i)[p] = IF p < i THEN a[p] ELSE a[p + 1]
<1> DEFINE x == SubSeq(a, 1, i - 1)  y == SubSeq(a, i + 1, Len(a))
<1>0. /\ i - 1 \in Int /\ i + 1 \in Int /\ Len(a) \in Int
      /\ \A k \in 1 .. i - 1 : a[k] \in S
      /\ \A k \in i + 1 .. Len(a) : a[k] \in S
  OBVIOUS
<1>1. x \in Seq(S) /\ Len(x) = i - 1 /\ \A p \in 1 .. i - 1 : x[p] = a[p]
  BY <1>0, SubSeqProperties
<1>2. y \in Seq(S) /\ Len(y) = Len(a) - i /\ \A p \in 1 .. Len(a) - i : y[p] = a[i + p]
  <2>1. /\ y \in Seq(S)
        /\ Len(y) = IF i + 1 <= Len(a) THEN Len(a) - (i + 1) + 1 ELSE 0
        /\ \A p \in 1 .. Len(a) - (i + 1) + 1 : y[p] = a[i + 1 + p - 1]
    BY <1>0, SubSeqProperties
  <2> QED
    BY <2>1
<1>3. AT!RemoveAt(a, i) = x \o y
  BY DEF AT!RemoveAt
<1> HIDE DEF x, y
<1>4. /\ x \o y \in Seq(S) /\ Len(x \o y) = Len(a) - 1
      /\ \A p \in 1 .. Len(a) - 1 :
            (x \o y)[p] = IF p <= Len(x) THEN x[p] ELSE y[p - Len(x)]
  <2>1. /\ x \o y \in Seq(S) /\ Len(x \o y) = Len(x) + Len(y)
        /\ \A p \in 1 .. Len(x) + Len(y) :
              (x \o y)[p] = IF p <= Len(x) THEN x[p] ELSE y[p - Len(x)]
    BY <1>1, <1>2, ConcatProperties
  <2>2. Len(x) + Len(y) = Len(a) - 1
    BY <1>1, <1>2
  <2> QED
    BY <2>1, <2>2
<1>5. ASSUME NEW p \in 1 .. Len(a) - 1
      PROVE  (x \o y)[p] = IF p < i THEN a[p] ELSE a[p + 1]
  <2>1. CASE p < i
    BY <1>1, <1>4, <2>1
  <2>2. CASE ~(p < i)
    BY <1>1, <1>2, <1>4, <2>2
  <2> QED
    BY <2>1, <2>2
<1> QED
  BY <1>3, <1>4, <1>5
\* What the turn holds for the post is an error, or what a process that exited well said.
AnswerOwn ==
    pc = "posting" /\ late = "no" =>
        \/ answer = AT!Error
        \/ /\ cur \in Procs /\ proc[cur] = "gone"
           /\ answer = <<"words">> \/ (answer = heard /\ heard # AT!Silence)

Heard == heard \in Seq(AT!Pieces)

AInv == Heard /\ AnswerOwn /\ AT!AnswerFits

\* What is cut out is one token.
LEMMA TokenIsCut ==
    ASSUME NEW S, NEW a \in Seq(S), AT!Contains(a, "token")
    PROVE  \E i \in 1 .. Len(a) : a[i] = "token" /\ AT!Stripped(a) = AT!RemoveAt(a, i)
<1> DEFINE Tokens == {i \in 1 .. Len(a) : a[i] = "token"}
           First1 == CHOOSE i \in 1 .. Len(a) :
                         a[i] = "token" /\ \A j \in 1 .. i - 1 : a[j] # "token"
<1>1. Tokens \subseteq Nat /\ Tokens # {}
  BY DEF AT!Contains
<1>2. PICK i \in Tokens : \A j \in Tokens : i <= j
  BY <1>1, First
<1>3. \A j \in 1 .. i - 1 : a[j] # "token"
  BY <1>2
<1>4. First1 \in 1 .. Len(a) /\ a[First1] = "token"
  BY <1>2, <1>3
<1>5. AT!Stripped(a) = AT!RemoveAt(a, First1)
  BY DEF AT!Stripped
<1> HIDE DEF First1
<1> QED
  BY <1>4, <1>5

LEMMA StrippedType ==
    ASSUME NEW S, NEW a \in Seq(S)
    PROVE  AT!Stripped(a) \in Seq(S)
<1>1. CASE ~AT!Contains(a, "token")
  BY <1>1 DEF AT!Stripped
<1>2. CASE AT!Contains(a, "token")
  BY <1>2, TokenIsCut, Removed
<1> QED
  BY <1>1, <1>2

\* Cutting the first token out leaves nothing only of the token itself, and leaves a token
\* only where there were two.
LEMMA StrippedFits ==
    ASSUME NEW a \in Seq(AT!Pieces), a # AT!Silence
    PROVE  /\ AT!Stripped(a) = AT!Silence => a = <<"token">>
           /\ AT!Contains(AT!Stripped(a), "token") =>
                  \E i, j \in DOMAIN a : i # j /\ a[i] = "token" /\ a[j] = "token"
<1>1. CASE ~AT!Contains(a, "token")
  BY <1>1 DEF AT!Stripped
<1>2. CASE AT!Contains(a, "token")
  <2>1. PICK i \in 1 .. Len(a) : a[i] = "token" /\ AT!Stripped(a) = AT!RemoveAt(a, i)
    BY <1>2, TokenIsCut
  <2>2. /\ AT!Stripped(a) \in Seq(AT!Pieces) /\ Len(AT!Stripped(a)) = Len(a) - 1
        /\ \A p \in 1 .. Len(a) - 1 :
              AT!Stripped(a)[p] = IF p < i THEN a[p] ELSE a[p + 1]
    BY <2>1, Removed
  <2>3. ASSUME AT!Stripped(a) = AT!Silence PROVE a = <<"token">>
    <3>1. Len(a) = 1
      BY <2>2, <2>3 DEF AT!Silence
    <3>2. i = 1 /\ a[1] = "token"
      BY <2>1, <3>1
    <3> QED
      BY <3>1, <3>2
  <2>4. ASSUME AT!Contains(AT!Stripped(a), "token")
        PROVE  \E j, k \in DOMAIN a : j # k /\ a[j] = "token" /\ a[k] = "token"
    <3>1. PICK p \in 1 .. Len(a) - 1 : AT!Stripped(a)[p] = "token"
      BY <2>2, <2>4 DEF AT!Contains
    <3>2. PICK q \in 1 .. Len(a) : q # i /\ a[q] = "token"
      BY <2>1, <2>2, <3>1
    <3> QED
      BY <2>1, <3>2
  <2> QED
    BY <2>3, <2>4
<1> QED
  BY <1>1, <1>2

\* An error and an answer of plain words have no token in them.
LEMMA StrippedPlain ==
    /\ AT!Stripped(AT!Error) = AT!Error
    /\ AT!Stripped(<<"words">>) = <<"words">>
BY DEF AT!Stripped, AT!Contains, AT!Error

LEMMA PostFits ==
    ASSUME TurnPlaces, AInv, AT!Post
    PROVE  AInv'
<1>1. /\ pc = "posting" /\ pc' = "free" /\ UNCHANGED <<mode, cur, proc, heard, late>>
      /\ said' = IF mode \notin AT!Streams THEN answer ELSE AT!Stripped(answer)
  BY DEF AT!Post
<1>2. Heard' /\ AnswerOwn'
  BY <1>1 DEF AInv, Heard, AnswerOwn
<1>3. AT!AnswerFits'
  <2> SUFFICES ASSUME late = "no", mode \in AT!Streams
               PROVE  \/ said' = AT!Error
                      \/ /\ proc[cur] = "gone"
                         /\ said' = AT!Silence => heard = <<"token">>
                         /\ AT!Contains(said', "token") =>
                               \E i, j \in DOMAIN heard :
                                  i # j /\ heard[i] = "token" /\ heard[j] = "token"
    BY <1>1 DEF AT!AnswerFits
  <2>1. said' = AT!Stripped(answer)
    BY <1>1
  <2>2. CASE answer = AT!Error
    BY <2>1, <2>2, StrippedPlain
  <2>3. CASE proc[cur] = "gone" /\ answer = <<"words">>
    BY <2>1, <2>3, StrippedPlain DEF AT!Contains, AT!Silence
  <2>4. CASE proc[cur] = "gone" /\ answer = heard /\ heard # AT!Silence
    BY <2>1, <2>4, StrippedFits DEF AInv, Heard
  <2> QED
    BY <1>1, <2>2, <2>3, <2>4 DEF AInv, AnswerOwn
<1> QED
  BY <1>2, <1>3 DEF AInv

LEMMA InitAInv == AT!Init => AInv
BY DEF AT!Init, AInv, Heard, AnswerOwn, AT!AnswerFits

LEMMA NextAInv ==
    ASSUME TInv, AInv, [AT!Next]_agentVars
    PROVE  AInv'
<1> USE DEF AInv
<1>1. ASSUME NEW k \in Procs, AT!Ends(k) PROVE AInv'
  <2>1. /\ proc[k] # "gone" /\ \A j \in Procs : j # k => proc'[j] = proc[j]
        /\ UNCHANGED <<pc, mode, cur, heard, late, answer, said>>
    BY <1>1 DEF AT!Ends, TInv, TurnPlaces
  <2>2. proc[cur] = "gone" /\ cur \in Procs => proc'[cur] = "gone"
    BY <2>1
  <2>3. cur # 0 => cur \in Procs
    BY DEF TInv, TurnPlaces
  <2>4. AnswerOwn'
    BY <2>1, <2>2 DEF AnswerOwn
  <2>5. AT!AnswerFits'
    BY <2>1, <2>2, <2>3 DEF AT!AnswerFits
  <2> QED
    BY <2>1, <2>4, <2>5 DEF Heard
<1>2. ASSUME NEW m \in AT!Modes, AT!Begin(m) PROVE AInv'
  <2>1. heard' = <<>> /\ (pc' = "reading" \/ (pc' = "posting" /\ answer' = AT!Error))
    BY <1>2 DEF AT!Begin
  <2> QED
    BY <2>1 DEF Heard, AnswerOwn, AT!AnswerFits
<1>3. CASE AT!Read
  <2>1. pc' \in {"reading", "yielded"}
    BY <1>3 DEF AT!Read
  <2>2. Heard'
    BY <1>3 DEF AT!Read, Heard
  <2> QED
    BY <2>1, <2>2 DEF AnswerOwn, AT!AnswerFits
<1>4. CASE AT!Writes \/ AT!Shown \/ AT!Deadline \/ AT!TimedOut \/ AT!Eof \/ AT!Swallow
  <2>1. /\ heard' = heard
        /\ pc' \notin {"posting", "free"}
    BY <1>4 DEF AT!Writes, AT!Shown, AT!Deadline, AT!TimedOut, AT!Eof, AT!Swallow
  <2> QED
    BY <2>1 DEF Heard, AnswerOwn, AT!AnswerFits
<1>5. CASE AT!Odd
  <2>1. heard' = heard /\ pc' = "posting" /\ answer' = AT!Error
    BY <1>5 DEF AT!Odd
  <2> QED
    BY <2>1 DEF Heard, AnswerOwn, AT!AnswerFits
<1>6. CASE AT!Cancel
  <2>1. heard' = heard /\ late' = "cancelled"
    BY <1>6 DEF AT!Cancel
  <2> QED
    BY <2>1 DEF Heard, AnswerOwn, AT!AnswerFits
<1>7. CASE AT!Stopped
  <2>1. /\ heard' = heard /\ late' = late
        /\ (late = "cancelled" /\ pc' = "free") \/ (pc' = "posting" /\ answer' = AT!Error)
    BY <1>7 DEF AT!Stopped
  <2> QED
    BY <2>1 DEF Heard, AnswerOwn, AT!AnswerFits
<1>8. CASE AT!Reaped
  <2>1. /\ heard' = heard /\ pc = "reaping" /\ pc' = "posting" /\ cur' = cur
        /\ proc' = [proc EXCEPT ![cur] = IF @ = "closed" THEN "failed" ELSE @]
        /\ answer' = IF proc'[cur] = "failed" \/ (mode = "create" /\ heard = <<>>) THEN AT!Error
                     ELSE IF heard = <<>> THEN <<"words">> ELSE heard
    BY <1>8 DEF AT!Reaped
  <2>2. cur \in Procs /\ proc'[cur] \in {"gone", "failed"}
    BY <2>1 DEF TInv, TurnPlaces, CurFits
  <2>3. AnswerOwn'
    BY <2>1, <2>2 DEF AnswerOwn, AT!Silence
  <2> QED
    BY <2>1, <2>3 DEF Heard, AT!AnswerFits
<1>9. CASE AT!Post
  BY <1>9, PostFits DEF TInv
<1>10. CASE UNCHANGED agentVars
  BY <1>10 DEF agentVars, Heard, AnswerOwn, AT!AnswerFits
<1> QED
  BY <1>1, <1>2, <1>3, <1>4, <1>5, <1>6, <1>7, <1>8, <1>9, <1>10 DEF AT!Next, AT!TurnSteps

-----------------------------------------------------------------------------
(* What the turn's variables range over.                                    *)

LEMMA InitTurnType ==
    ASSUME MaxLines \in Nat, AT!Init
    PROVE  AT!TypeOK
BY DEF AT!Init, AT!TypeOK, AT!Modes

LEMMA NextTurnType ==
    ASSUME MaxLines \in Nat, TInv, AT!TypeOK, [AT!Next]_agentVars
    PROVE  AT!TypeOK'
<1> USE DEF AT!TypeOK
<1>1. ASSUME NEW k \in Procs, AT!Ends(k) PROVE AT!TypeOK'
  BY <1>1 DEF AT!Ends
<1>2. ASSUME NEW m \in AT!Modes, AT!Begin(m) PROVE AT!TypeOK'
  <2>1. TurnPlaces'
    BY <1>2, BeginKeeps DEF TInv
  <2>2. /\ mode' \in AT!Modes /\ pipe' = <<>> /\ written' = 0 /\ heard' = <<>> /\ late' = "no"
        /\ answer' \in {AT!Error, AT!Silence} /\ said' = AT!Silence /\ left' = left
    BY <1>2 DEF AT!Begin
  <2>3. {AT!Error, AT!Silence} \subseteq Seq(AT!Pieces \cup {"error"})
    BY DEF AT!Error, AT!Silence
  <2> QED
    BY <2>1, <2>2, <2>3, SMTT(30) DEF TurnPlaces
<1>3. CASE AT!Writes
  BY <1>3 DEF AT!Writes
<1>4. CASE AT!Read
  <2>1. /\ pipe # <<>> /\ pipe' = Tail(pipe) /\ pc' \in {"yielded", "reading"}
        /\ heard' = IF Head(pipe) \in AT!Pieces THEN Append(heard, Head(pipe)) ELSE heard
        /\ UNCHANGED <<mode, cur, proc, written, late, answer, said, left>>
    BY <1>4 DEF AT!Read
  <2>2. pipe' \in Seq(AT!Lines)
    BY <2>1
  <2>3. heard' \in Seq(AT!Pieces)
    BY <2>1
  <2> QED
    BY <2>1, <2>2, <2>3
<1>5. CASE AT!Shown \/ AT!Deadline \/ AT!Eof \/ AT!Swallow
  BY <1>5 DEF AT!Shown, AT!Deadline, AT!Eof, AT!Swallow
<1>6. CASE AT!Odd
  BY <1>6 DEF AT!Odd, AT!Error, TInv, CurFits
<1>7. CASE AT!TimedOut
  BY <1>7 DEF AT!TimedOut, AT!Terminated
<1>8. CASE AT!Cancel
  BY <1>8 DEF AT!Cancel, AT!Terminated, AT!Killed, TInv, CurFits
<1>9. CASE AT!Stopped
  <2>1. /\ proc' = AT!Killed(cur)
        /\ pipe' = <<>> /\ pc' \in {"free", "posting"} /\ answer' \in {answer, AT!Error}
        /\ UNCHANGED <<mode, cur, written, heard, late, said, left>>
    BY <1>9 DEF AT!Stopped
  <2>2. AT!Error \in Seq(AT!Pieces \cup {"error"})
    BY DEF AT!Error
  <2>3. proc' \in [Procs -> AT!Alive \cup {"none", "gone", "failed"}]
    BY <2>1 DEF AT!Killed
  <2>4. answer' \in Seq(AT!Pieces \cup {"error"})
    BY <2>1, <2>2
  <2>5. pipe' \in Seq(AT!Lines)
    BY <2>1
  <2> QED
    BY <2>1, <2>3, <2>4, <2>5
<1>10. CASE AT!Reaped
  <2>1. /\ heard \in Seq(AT!Pieces \cup {"error"}) /\ AT!Error \in Seq(AT!Pieces \cup {"error"})
        /\ <<"words">> \in Seq(AT!Pieces \cup {"error"})
    BY DEF AT!Error, AT!Pieces
  <2>2. answer' \in Seq(AT!Pieces \cup {"error"})
    <3>1. answer' \in {AT!Error, <<"words">>, heard}
      BY <1>10 DEF AT!Reaped
    <3> QED
      BY <2>1, <3>1
  <2> QED
    BY <1>10, <2>2 DEF AT!Reaped
<1>11. CASE AT!Post
  <2>1. AT!Stripped(answer) \in Seq(AT!Pieces \cup {"error"})
    BY StrippedType
  <2> QED
    BY <1>11, <2>1 DEF AT!Post
<1>12. CASE UNCHANGED agentVars
  BY <1>12 DEF agentVars
<1> QED
  BY <1>1, <1>2, <1>3, <1>4, <1>5, <1>6, <1>7, <1>8, <1>9, <1>10, <1>11, <1>12
     DEF AT!Next, AT!TurnSteps

-----------------------------------------------------------------------------
(* The header.                                                              *)


\* What the fields range over.
KnownNames == backend \in {"file", "send"} /\ name \in IC!RoomNames

Places ==
    /\ resident \in {"no", "starting", "ready", "up"}
    /\ inj.on \in {"nothing", "start", "turn"}

\* A rename under way delivers the name the room has now: the next one waits for it.
RenameIsLatest == ren # IC!NoRename => ren = name

\* The flag is true of the agent wherever a start would leave it alone: a backend that is
\* told once is left alone by every start, one that reads a file by none.
FlagIsTrue ==
    /\ injected /\ ren = IC!NoRename /\ ~missed
    /\ ~(backend = "file" /\ resident \in {"no", "starting"})
    => informed = name

HInv == KnownNames /\ Places /\ RenameIsLatest /\ FlagIsTrue

LEMMA InitHInv ==
    ASSUME MaxRenames \in Nat, IC!Init
    PROVE  HInv
BY DEF IC!Init, HInv, IC!Nobody, KnownNames, Places, RenameIsLatest, FlagIsTrue, IC!RoomNames, IC!NoRename

LEMMA NextHInv ==
    ASSUME MaxRenames \in Nat, HInv, [IC!Next]_headerVars
    PROVE  HInv'
<1> USE DEF HInv
<1>1. CASE IC!Start
  BY <1>1 DEF IC!Start, IC!Injecting, IC!Begins, KnownNames, Places, RenameIsLatest, FlagIsTrue
<1>2. CASE IC!Retry
  BY <1>2 DEF IC!Retry, IC!Injecting, IC!Begins, KnownNames, Places, RenameIsLatest, FlagIsTrue
<1>3. CASE IC!Injected
  BY <1>3 DEF IC!Injected, IC!Injecting, IC!Resumes, IC!Sends, IC!Nobody, KnownNames, Places, RenameIsLatest, FlagIsTrue
<1>4. CASE IC!Refused
  BY <1>4 DEF IC!Refused, IC!Injecting, IC!Resumes, IC!Nobody, KnownNames, Places, RenameIsLatest, FlagIsTrue
<1>5. CASE IC!Failed
  BY <1>5 DEF IC!Failed, IC!Injecting, IC!Nobody, KnownNames, Places, RenameIsLatest, FlagIsTrue
<1>6. CASE IC!Registered
  BY <1>6 DEF IC!Registered, KnownNames, Places, RenameIsLatest, FlagIsTrue
<1>7. CASE IC!StartFails
  BY <1>7 DEF IC!StartFails, KnownNames, Places, RenameIsLatest, FlagIsTrue
<1>8. CASE IC!Reset
  BY <1>8 DEF IC!Reset, KnownNames, Places, RenameIsLatest, FlagIsTrue
<1>9. CASE IC!Rename
  <2>1. name' \in IC!RoomNames /\ name' # IC!NoRename
    BY <1>9 DEF IC!Rename, KnownNames, IC!RoomNames, IC!NoRename
  <2>2. RenameIsLatest'
    BY <1>9 DEF IC!Rename, RenameIsLatest
  <2>3. FlagIsTrue'
    <3>1. CASE resident = "up"
      BY <1>9, <2>1, <3>1 DEF IC!Rename, FlagIsTrue, IC!NoRename
    <3>2. CASE resident # "up"
      <4>1. missed' = (missed \/ resident \in {"starting", "ready"}
                              \/ (backend = "send" /\ injected))
        BY <1>9, <3>2, Zenon DEF IC!Rename
      <4>2. missed' \/ ~injected' \/ (backend = "file" /\ resident \in {"no", "starting"})'
        BY <1>9, <3>2, <4>1 DEF IC!Rename, KnownNames, Places
      <4> QED
        BY <4>2 DEF FlagIsTrue
    <3> QED
      BY <3>1, <3>2
  <2> QED
    BY <1>9, <2>1, <2>2, <2>3 DEF IC!Rename, KnownNames, Places
<1>10. CASE IC!RenameTold
  BY <1>10 DEF IC!RenameTold, KnownNames, Places, RenameIsLatest, FlagIsTrue
<1>11. CASE IC!RenameFailed
  BY <1>11 DEF IC!RenameFailed, IC!Rearmed, KnownNames, Places, RenameIsLatest, FlagIsTrue
<1>12. CASE IC!Drop
  BY <1>12 DEF IC!Drop, IC!Nobody, KnownNames, Places, RenameIsLatest, FlagIsTrue
<1>13. CASE IC!Save
  BY <1>13 DEF IC!Save, KnownNames, Places, RenameIsLatest, FlagIsTrue
<1>14. CASE IC!Restart
  BY <1>14 DEF IC!Restart, IC!Nobody, KnownNames, Places, RenameIsLatest, FlagIsTrue
<1>15. CASE UNCHANGED headerVars
  BY <1>15 DEF headerVars, KnownNames, Places, RenameIsLatest, FlagIsTrue
<1> QED
  BY <1>1, <1>2, <1>3, <1>4, <1>5, <1>6, <1>7, <1>8, <1>9, <1>10, <1>11, <1>12, <1>13, <1>14,
     <1>15 DEF IC!Next

\* A status counts fewer failures than are tried, as long as the header is due; so has the
\* injection that is on its way, whatever became of its status.
TriesLeft ==
    /\ ~injected => status.failures < MaxAttempts
    /\ IC!Injecting /\ ~inj.given => inj.tries < MaxAttempts

Flags == injected \in BOOLEAN /\ saved \in BOOLEAN /\ missed \in BOOLEAN

Counted ==
    status \in [state : IC!Retryable \cup {"failed_degraded", "injected"},
                failures : 0 .. MaxAttempts]

Carried ==
    inj \in [on : {"nothing", "start", "turn"}, content : IC!RoomNames, given : BOOLEAN,
             tries : 0 .. MaxAttempts, detached : BOOLEAN]

Named ==
    /\ config \in IC!RoomNames /\ informed \in IC!RoomNames \cup {IC!NoRename}
    /\ ren \in IC!RoomNames \cup {IC!NoRename} /\ failures \in 0 .. MaxFailures

HeaderType == Flags /\ Counted /\ Carried /\ Named /\ TriesLeft

LEMMA HeaderTypeOK ==
    ASSUME HInv, HeaderType
    PROVE  IC!TypeOK
BY DEF HInv, KnownNames, Places, HeaderType, Flags, Counted, Carried, Named, IC!TypeOK

LEMMA InitHeaderType ==
    ASSUME MaxRenames \in Nat, MaxFailures \in Nat, MaxAttempts \in Nat \ {0}, IC!Init
    PROVE  HeaderType
<1>1. Flags
  BY DEF IC!Init, Flags
<1>5. Counted
  BY DEF IC!Init, Counted, IC!NoStatus, IC!Retryable
<1>2. Carried
  BY DEF IC!Init, Carried, IC!Nobody, IC!RoomNames
<1>3. Named
  BY DEF IC!Init, Named, IC!NoRename, IC!RoomNames
<1>4. TriesLeft
  BY DEF IC!Init, TriesLeft, IC!Injecting, IC!Nobody, IC!NoStatus
<1> QED
  BY <1>1, <1>2, <1>3, <1>4, <1>5 DEF HeaderType

LEMMA NextHeaderType ==
    ASSUME MaxRenames \in Nat, MaxFailures \in Nat, MaxAttempts \in Nat \ {0}, HInv, HeaderType,
           [IC!Next]_headerVars
    PROVE  HeaderType'
<1>1. CASE IC!Start
  <2>1. Flags'
    BY <1>1, Zenon DEF IC!Start, IC!Injecting, IC!Begins, HeaderType, Flags
  <2>2. Counted'
    BY <1>1 DEF IC!Start, IC!Injecting, IC!Begins, HeaderType, Counted, TriesLeft, IC!Retryable
  <2>3. Carried'
    BY <1>1
    DEF IC!Start, IC!Injecting, IC!Begins, HeaderType, Flags, Counted, Carried, Named, HInv, KnownNames,
        IC!RoomNames
  <2>4. Named'
    BY <1>1 DEF IC!Start, IC!Injecting, IC!Begins, HeaderType, Named, Carried, HInv, KnownNames, IC!RoomNames, IC!NoRename
  <2>5. TriesLeft'
    BY <1>1 DEF IC!Start, IC!Injecting, IC!Begins, HeaderType, TriesLeft, Counted
  <2> QED
    BY <2>1, <2>2, <2>3, <2>4, <2>5 DEF HeaderType
<1>2. CASE IC!Retry
  <2>1. Flags'
    BY <1>2, Zenon DEF IC!Retry, IC!Injecting, IC!Begins, HeaderType, Flags
  <2>2. Counted'
    BY <1>2 DEF IC!Retry, IC!Injecting, IC!Begins, HeaderType, Counted, TriesLeft, IC!Retryable
  <2>3. Carried'
    BY <1>2
    DEF IC!Retry, IC!Injecting, IC!Begins, HeaderType, Flags, Counted, Carried, Named, HInv, KnownNames,
        IC!RoomNames
  <2>4. Named'
    BY <1>2 DEF IC!Retry, IC!Injecting, IC!Begins, HeaderType, Named, Carried, HInv, KnownNames, IC!RoomNames, IC!NoRename
  <2>5. TriesLeft'
    BY <1>2 DEF IC!Retry, IC!Injecting, IC!Begins, HeaderType, TriesLeft, Counted
  <2> QED
    BY <2>1, <2>2, <2>3, <2>4, <2>5 DEF HeaderType
<1>3. CASE IC!Injected
  <2>1. Flags'
    BY <1>3, Zenon DEF IC!Injected, IC!Injecting, IC!Resumes, IC!Sends, IC!Nobody, HeaderType, Flags
  <2>2. Counted'
    BY <1>3 DEF IC!Injected, IC!Injecting, IC!Resumes, IC!Sends, IC!Nobody, HeaderType, Counted, TriesLeft, IC!Retryable
  <2>3. Carried'
    BY <1>3 DEF IC!Injected, IC!Injecting, IC!Resumes, IC!Sends, IC!Nobody, HeaderType, Flags, Carried, Named, HInv, KnownNames, IC!RoomNames
  <2>4. Named'
    BY <1>3 DEF IC!Injected, IC!Injecting, IC!Resumes, IC!Sends, IC!Nobody, HeaderType, Named, Carried, HInv, KnownNames, IC!RoomNames, IC!NoRename
  <2>5. TriesLeft'
    BY <1>3 DEF IC!Injected, IC!Injecting, IC!Resumes, IC!Sends, IC!Nobody, HeaderType, TriesLeft, Counted
  <2> QED
    BY <2>1, <2>2, <2>3, <2>4, <2>5 DEF HeaderType
<1>4. CASE IC!Refused
  <2>1. Flags'
    BY <1>4, Zenon DEF IC!Refused, IC!Injecting, IC!Resumes, IC!Nobody, HeaderType, Flags
  <2>2. Counted'
    <3>1. inj.tries + 1 \in 0 .. MaxAttempts
      BY <1>4 DEF IC!Refused, HeaderType, Carried, TriesLeft
    <3> QED
      BY <1>4, <3>1 DEF IC!Refused, HeaderType, Counted, IC!Retryable
  <2>3. Carried'
    BY <1>4 DEF IC!Refused, IC!Injecting, IC!Resumes, IC!Nobody, HeaderType, Flags, Carried, Named, HInv, KnownNames, IC!RoomNames
  <2>4. Named'
    BY <1>4 DEF IC!Refused, IC!Injecting, IC!Resumes, IC!Nobody, HeaderType, Named, Carried, HInv, KnownNames, IC!RoomNames, IC!NoRename
  <2>5. TriesLeft'
    <3>1. inj' = IC!Nobody
      BY <1>4 DEF IC!Refused
    <3>2. CASE inj.detached
      <4>1. status' = status /\ (injected => injected')
        BY <1>4, <3>2 DEF IC!Refused
      <4> QED
        BY <3>1, <4>1 DEF HeaderType, TriesLeft, IC!Injecting, IC!Nobody
    <3>3. CASE ~inj.detached
      <4>1. status'.failures = inj.tries + 1
        BY <1>4, <3>3 DEF IC!Refused
      <4>2. ~(inj.tries + 1 >= MaxAttempts) \/ injected'
        BY <1>4, <3>3 DEF IC!Refused
      <4>3. inj.tries \in Int
        BY DEF HeaderType, Carried
      <4> QED
        BY <3>1, <4>1, <4>2, <4>3 DEF TriesLeft, IC!Injecting, IC!Nobody
    <3> QED
      BY <3>2, <3>3
  <2> QED
    BY <2>1, <2>2, <2>3, <2>4, <2>5 DEF HeaderType
<1>5. CASE IC!Failed
  <2>1. Flags'
    BY <1>5, Zenon DEF IC!Failed, IC!Injecting, IC!Nobody, HeaderType, Flags
  <2>2. Counted'
    BY <1>5 DEF IC!Failed, IC!Injecting, IC!Nobody, HeaderType, Counted, TriesLeft, IC!Retryable
  <2>3. Carried'
    BY <1>5 DEF IC!Failed, IC!Injecting, IC!Nobody, HeaderType, Flags, Carried, Named, HInv, KnownNames, IC!RoomNames
  <2>4. Named'
    BY <1>5 DEF IC!Failed, IC!Injecting, IC!Nobody, HeaderType, Named, Carried, HInv, KnownNames, IC!RoomNames, IC!NoRename
  <2>5. TriesLeft'
    BY <1>5 DEF IC!Failed, IC!Injecting, IC!Nobody, HeaderType, TriesLeft, Counted
  <2> QED
    BY <2>1, <2>2, <2>3, <2>4, <2>5 DEF HeaderType
<1>6. CASE IC!Registered
  <2>1. Flags'
    BY <1>6, Zenon DEF IC!Registered, IC!Injecting, HeaderType, Flags
  <2>2. Counted'
    BY <1>6 DEF IC!Registered, IC!Injecting, HeaderType, Counted, TriesLeft, IC!Retryable
  <2>3. Carried'
    BY <1>6 DEF IC!Registered, IC!Injecting, HeaderType, Flags, Carried, Named, HInv, KnownNames, IC!RoomNames
  <2>4. Named'
    BY <1>6 DEF IC!Registered, IC!Injecting, HeaderType, Named, Carried, HInv, KnownNames, IC!RoomNames, IC!NoRename
  <2>5. TriesLeft'
    BY <1>6 DEF IC!Registered, IC!Injecting, HeaderType, TriesLeft, Counted
  <2> QED
    BY <2>1, <2>2, <2>3, <2>4, <2>5 DEF HeaderType
<1>7. CASE IC!StartFails
  <2>1. Flags'
    BY <1>7, Zenon DEF IC!StartFails, IC!Injecting, IC!NoStatus, HeaderType, Flags
  <2>2. Counted'
    BY <1>7 DEF IC!StartFails, IC!Injecting, IC!NoStatus, HeaderType, Counted, TriesLeft, IC!Retryable
  <2>3. Carried'
    BY <1>7 DEF IC!StartFails, IC!Injecting, IC!NoStatus, HeaderType, Flags, Carried, Named, HInv, KnownNames, IC!RoomNames
  <2>4. Named'
    BY <1>7 DEF IC!StartFails, IC!Injecting, IC!NoStatus, HeaderType, Named, Carried, HInv, KnownNames, IC!RoomNames, IC!NoRename
  <2>5. TriesLeft'
    BY <1>7 DEF IC!StartFails, IC!Injecting, IC!NoStatus, HeaderType, TriesLeft, Counted
  <2> QED
    BY <2>1, <2>2, <2>3, <2>4, <2>5 DEF HeaderType
<1>8. CASE IC!Reset
  <2>1. Flags'
    BY <1>8, Zenon DEF IC!Reset, IC!NoStatus, IC!Injecting, HeaderType, Flags
  <2>2. Counted'
    BY <1>8 DEF IC!Reset, IC!NoStatus, IC!Injecting, HeaderType, Counted, TriesLeft, IC!Retryable
  <2>3. Carried'
    BY <1>8 DEF IC!Reset, IC!NoStatus, IC!Injecting, HeaderType, Flags, Carried, Named, HInv, KnownNames, IC!RoomNames
  <2>4. Named'
    BY <1>8 DEF IC!Reset, IC!NoStatus, IC!Injecting, HeaderType, Named, Carried, HInv, KnownNames, IC!RoomNames, IC!NoRename
  <2>5. TriesLeft'
    BY <1>8 DEF IC!Reset, IC!NoStatus, IC!Injecting, HeaderType, TriesLeft, Counted
  <2> QED
    BY <2>1, <2>2, <2>3, <2>4, <2>5 DEF HeaderType
<1>9. CASE IC!Rename
  <2>1. Flags'
    BY <1>9, Zenon DEF IC!Rename, IC!Injecting, HeaderType, Flags
  <2>2. Counted'
    BY <1>9 DEF IC!Rename, IC!Injecting, HeaderType, Counted, TriesLeft, IC!Retryable
  <2>3. Carried'
    BY <1>9 DEF IC!Rename, IC!Injecting, HeaderType, Flags, Carried, Named, HInv, KnownNames, IC!RoomNames
  <2>4. Named'
    BY <1>9 DEF IC!Rename, IC!Injecting, HeaderType, Named, Carried, HInv, KnownNames, IC!RoomNames, IC!NoRename
  <2>5. TriesLeft'
    BY <1>9 DEF IC!Rename, IC!Injecting, HeaderType, TriesLeft, Counted
  <2> QED
    BY <2>1, <2>2, <2>3, <2>4, <2>5 DEF HeaderType
<1>10. CASE IC!RenameTold
  <2>1. Flags'
    BY <1>10, Zenon DEF IC!RenameTold, IC!Injecting, HeaderType, Flags
  <2>2. Counted'
    BY <1>10 DEF IC!RenameTold, IC!Injecting, HeaderType, Counted, TriesLeft, IC!Retryable
  <2>3. Carried'
    BY <1>10 DEF IC!RenameTold, IC!Injecting, HeaderType, Flags, Carried, Named, HInv, KnownNames, IC!RoomNames
  <2>4. Named'
    BY <1>10 DEF IC!RenameTold, IC!Injecting, HeaderType, Named, Carried, HInv, KnownNames, IC!RoomNames, IC!NoRename
  <2>5. TriesLeft'
    BY <1>10 DEF IC!RenameTold, IC!Injecting, HeaderType, TriesLeft, Counted
  <2> QED
    BY <2>1, <2>2, <2>3, <2>4, <2>5 DEF HeaderType
<1>11. CASE IC!RenameFailed
  <2>1. Flags'
    BY <1>11, Zenon DEF IC!RenameFailed, IC!Rearmed, IC!Injecting, IC!NoStatus, HeaderType, Flags
  <2>2. Counted'
    BY <1>11 DEF IC!RenameFailed, IC!Rearmed, IC!Injecting, IC!NoStatus, HeaderType, Counted, TriesLeft, IC!Retryable
  <2>3. Carried'
    BY <1>11 DEF IC!RenameFailed, IC!Rearmed, IC!Injecting, IC!NoStatus, HeaderType, Flags, Carried, Named, HInv, KnownNames, IC!RoomNames
  <2>4. Named'
    BY <1>11 DEF IC!RenameFailed, IC!Rearmed, IC!Injecting, IC!NoStatus, HeaderType, Named, Carried, HInv, KnownNames, IC!RoomNames, IC!NoRename
  <2>5. TriesLeft'
    BY <1>11 DEF IC!RenameFailed, IC!Rearmed, IC!Injecting, IC!NoStatus, HeaderType, TriesLeft, Counted
  <2> QED
    BY <2>1, <2>2, <2>3, <2>4, <2>5 DEF HeaderType
<1>12. CASE IC!Drop
  <2>1. Flags'
    BY <1>12, Zenon DEF IC!Drop, IC!Nobody, IC!Injecting, HeaderType, Flags
  <2>2. Counted'
    BY <1>12 DEF IC!Drop, IC!Nobody, IC!Injecting, HeaderType, Counted, TriesLeft, IC!Retryable
  <2>3. Carried'
    BY <1>12 DEF IC!Drop, IC!Nobody, IC!Injecting, HeaderType, Flags, Carried, Named, HInv, KnownNames, IC!RoomNames
  <2>4. Named'
    BY <1>12 DEF IC!Drop, IC!Nobody, IC!Injecting, HeaderType, Named, Carried, HInv, KnownNames, IC!RoomNames, IC!NoRename
  <2>5. TriesLeft'
    BY <1>12 DEF IC!Drop, IC!Nobody, IC!Injecting, HeaderType, TriesLeft, Counted
  <2> QED
    BY <2>1, <2>2, <2>3, <2>4, <2>5 DEF HeaderType
<1>13. CASE IC!Save
  <2>1. Flags'
    BY <1>13, Zenon DEF IC!Save, IC!Injecting, HeaderType, Flags
  <2>2. Counted'
    BY <1>13 DEF IC!Save, IC!Injecting, HeaderType, Counted, TriesLeft, IC!Retryable
  <2>3. Carried'
    BY <1>13 DEF IC!Save, IC!Injecting, HeaderType, Flags, Carried, Named, HInv, KnownNames, IC!RoomNames
  <2>4. Named'
    BY <1>13 DEF IC!Save, IC!Injecting, HeaderType, Named, Carried, HInv, KnownNames, IC!RoomNames, IC!NoRename
  <2>5. TriesLeft'
    BY <1>13 DEF IC!Save, IC!Injecting, HeaderType, TriesLeft, Counted
  <2> QED
    BY <2>1, <2>2, <2>3, <2>4, <2>5 DEF HeaderType
<1>14. CASE IC!Restart
  <2>1. Flags'
    BY <1>14, Zenon DEF IC!Restart, IC!Nobody, IC!NoStatus, IC!Injecting, HeaderType, Flags
  <2>2. Counted'
    BY <1>14 DEF IC!Restart, IC!Nobody, IC!NoStatus, IC!Injecting, HeaderType, Counted, TriesLeft, IC!Retryable
  <2>3. Carried'
    BY <1>14 DEF IC!Restart, IC!Nobody, IC!NoStatus, IC!Injecting, HeaderType, Flags, Carried, Named, HInv, KnownNames, IC!RoomNames
  <2>4. Named'
    BY <1>14 DEF IC!Restart, IC!Nobody, IC!NoStatus, IC!Injecting, HeaderType, Named, Carried, HInv, KnownNames, IC!RoomNames, IC!NoRename
  <2>5. TriesLeft'
    BY <1>14 DEF IC!Restart, IC!Nobody, IC!NoStatus, IC!Injecting, HeaderType, TriesLeft, Counted
  <2> QED
    BY <2>1, <2>2, <2>3, <2>4, <2>5 DEF HeaderType
<1>15. CASE UNCHANGED headerVars
  <2>1. Flags'
    BY <1>15, Zenon DEF headerVars, IC!Injecting, HeaderType, Flags
  <2>2. Counted'
    BY <1>15 DEF headerVars, IC!Injecting, HeaderType, Counted, TriesLeft, IC!Retryable
  <2>3. Carried'
    BY <1>15 DEF headerVars, IC!Injecting, HeaderType, Flags, Carried, Named, HInv, KnownNames, IC!RoomNames
  <2>4. Named'
    BY <1>15 DEF headerVars, IC!Injecting, HeaderType, Named, Carried, HInv, KnownNames, IC!RoomNames, IC!NoRename
  <2>5. TriesLeft'
    BY <1>15 DEF headerVars, IC!Injecting, HeaderType, TriesLeft, Counted
  <2> QED
    BY <2>1, <2>2, <2>3, <2>4, <2>5 DEF HeaderType
<1> QED
  BY <1>1, <1>2, <1>3, <1>4, <1>5, <1>6, <1>7, <1>8, <1>9, <1>10, <1>11, <1>12, <1>13, <1>14,
     <1>15 DEF IC!Next

-----------------------------------------------------------------------------
(* What holds of the parts beside each other.                               *)

\* Between turns no process is at work on the session, and in a turn only its own, but for
\* those let go of where stream() and its callers do not stop them; and what a turn posts
\* is what its own process said, having exited well, or an error (ClaudeBackend,
\* AgentTurnRunner.run_turn).
THEOREM TurnIsSound ==
    ASSUME MaxLines \in Nat
    PROVE  MCSpec => []TurnSound
<1>1. MCInit => TInv /\ AInv /\ AT!TypeOK
  BY InitTInv, InitAInv, InitTurnType DEF MCInit
<1>2. [MCNext]_<<kind, vars, lifecycleVars, agentVars, headerVars>> => [AT!Next]_agentVars
  BY DEF MCNext
<1>3. TInv /\ AInv /\ AT!TypeOK /\ [AT!Next]_agentVars => TInv' /\ AInv' /\ AT!TypeOK'
  BY NextTInv, NextAInv, NextTurnType
<1>4. TInv /\ AInv /\ AT!TypeOK => TurnSound
  BY DEF TInv, AInv, AT!TurnSound, TurnSound
<1> QED
  BY <1>1, <1>2, <1>3, <1>4, PTL DEF MCSpec

\* A watcher that serves its room has told the agent the name the room has now, however
\* its renames, failures, starts and restarts interleave, unless the header is one of
\* those known to be lost (InjectedContextBuilder.ensure, MessageProcessor.rename).
THEOREM TheHeaderIsCurrent ==
    ASSUME MaxRenames \in Nat, MaxFailures \in Nat, MaxAttempts \in Nat \ {0}
    PROVE  MCSpec => []HeaderIsCurrent
<1>1. MCInit => HInv /\ HeaderType
  BY InitHInv, InitHeaderType DEF MCInit
<1>2. [MCNext]_<<kind, vars, lifecycleVars, agentVars, headerVars>> => [IC!Next]_headerVars
  BY DEF MCNext
<1>3. HInv /\ HeaderType /\ [IC!Next]_headerVars => HInv' /\ HeaderType'
  BY NextHInv, NextHeaderType
<1>4. HInv /\ HeaderType => HeaderIsCurrent
  BY HeaderTypeOK DEF HInv, FlagIsTrue, HeaderType, IC!HeaderIsCurrent, HeaderIsCurrent
<1> QED
  BY <1>1, <1>2, <1>3, <1>4, PTL DEF MCSpec
=============================================================================
