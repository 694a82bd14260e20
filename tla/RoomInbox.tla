----------------------------- MODULE RoomInbox ------------------------------
(***************************************************************************)
(* What a room's message processor promises to the dispatcher and to the   *)
(* watcher lifecycle, without its queue, sentinel, batches or tasks: what   *)
(* it accepts it handles once and in order, several at a time if it likes; *)
(* once closing it accepts nothing; it closes with everything handled, or   *)
(* it says that it gave up.                                                 *)
(***************************************************************************)
EXTENDS Naturals, Sequences

CONSTANT Msgs

VARIABLES
    accepted,   \* the messages accepted so far, in order
    handled,    \* the messages dealt with so far, in order
    phase,      \* "open", "closing" or "closed"
    gaveUp      \* handling was given up for good

vars == <<accepted, handled, phase, gaveUp>>

Init ==
    /\ accepted = <<>> /\ handled = <<>>
    /\ phase = "open" /\ gaveUp = FALSE

Accept(m) ==
    /\ phase = "open"
    /\ \A i \in 1..Len(accepted) : accepted[i] # m
    /\ accepted' = Append(accepted, m)
    /\ UNCHANGED <<handled, phase, gaveUp>>

Handle ==
    /\ phase # "closed" /\ ~gaveUp
    /\ \E n \in Len(handled)+1..Len(accepted) : handled' = SubSeq(accepted, 1, n)
    /\ UNCHANGED <<accepted, phase, gaveUp>>

\* Closing; there may be nobody to handle anything from here on.
Close ==
    /\ phase = "open" /\ phase' = "closing"
    /\ gaveUp' \in BOOLEAN
    /\ UNCHANGED <<accepted, handled>>

GiveUp ==
    /\ phase = "closing" /\ ~gaveUp
    /\ gaveUp' = TRUE
    /\ UNCHANGED <<accepted, handled, phase>>

Finish ==
    /\ phase = "closing" /\ phase' = "closed"
    /\ gaveUp \/ handled = accepted
    /\ UNCHANGED <<accepted, handled, gaveUp>>

Next == (\E m \in Msgs : Accept(m)) \/ Handle \/ Close \/ GiveUp \/ Finish

Spec == Init /\ [][Next]_vars
=============================================================================
