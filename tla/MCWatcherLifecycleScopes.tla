---------------------- MODULE MCWatcherLifecycleScopes ----------------------
(* Two small instances of WatcherLifecycle in one: every transition of one   *)
(* watcher whose name stays, or the transitions that fill and empty the index *)
(* for two rooms that trade their names.                                     *)
EXTENDS MCWatcherLifecycle

VARIABLE trading

Under(ops) == \A t \in Tasks : task[t].op \in ops \cup {"none", "boot"}
Touched == {r \in Rooms : states[r] # None} \cup {task[t].room : t \in {u \in Tasks : Busy(u)}}
           \cup {disk[n].room : n \in {m \in Names : disk[m] # None}}

InScope ==
    IF trading THEN Under({"join", "leave", "release"}) /\ Cardinality(UsedIds \ {None}) <= 3
    ELSE /\ Under({"wake", "pause", "resume", "drop", "expire"})
         /\ Cardinality(Touched) <= 1

\* The state file can be written whenever a record is pruned from it.
Writable ==
    \A t \in Tasks : task[t].at = "reclaiming" /\ task'[t] # task[t] =>
        states'[task[t].room] = None \/ disk' # disk

ScopedInit == Init /\ trading \in BOOLEAN
ScopedNext == /\ Next /\ UNCHANGED trading
              /\ InScope' /\ (IF trading THEN Writable ELSE UNCHANGED label)
ScopedSpec == ScopedInit /\ [][ScopedNext]_<<vars, trading>>

\* The index and the records agree on every name; as long as the file can be
\* written, it has no two rows for a room, and none that outlives its record.
NamesAgree == TypeOK /\ IndexAgrees /\ (trading => FileIsHonest)
=============================================================================
