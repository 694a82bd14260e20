------------------------ MODULE MCWatcherLifecycle --------------------------
(* Small instances of WatcherLifecycle.                                      *)
EXTENDS WatcherLifecycle, TLC

CONSTANTS r1, r2, n1, n2, n3, t1, t2, s1, s2, s3, i1, i2, i3, i4, i5, i6

\* Rooms, names and coroutines are interchangeable.  Sessions and records are
\* too, but a fresh one is taken with CHOOSE.
Symmetry == Permutations(Rooms) \cup Permutations(Names) \cup Permutations(Tasks)
=============================================================================
