---------------------------- MODULE ReplayWindow ----------------------------
(***************************************************************************)
(* The bookkeeping both connectors keep for a room (core/replay_window.py,  *)
(* core/pending_route.py): the mark a later replay has to begin at, with    *)
(* the count of those who asked for it, and the bounded buffer of a routing *)
(* episode.  A room is a record with the fields last, bnd, claims, seen and *)
(* promised; a message is its timestamp, and no timestamp is None.          *)
(***************************************************************************)
EXTENDS Naturals, Sequences, SequencesExt

None == 0

Marks(s, ts) == ({s.bnd} \cup ts) \ {None}
Oldest(ts) == CHOOSE t \in ts : \A u \in ts : t <= u

JustBefore(m) == m - 1

\* claim_boundary: the oldest mark wins, and every claim counts.
Claim(s, ts) ==
    IF Marks(s, ts) = {} THEN s
    ELSE [s EXCEPT !.bnd = Oldest(Marks(s, ts)), !.claims = @ + 1]

\* Mutant: the window is closed by whoever read it, although it was claimed since.
DischargeMutant(s, claims) == [s EXCEPT !.bnd = None, !.claims = 0]

\* discharge_boundary
Discharge(s, claims) ==
    IF s.claims = claims THEN [s EXCEPT !.bnd = None, !.claims = 0] ELSE s

\* discard_boundary: nobody is entitled to the window any more.
Discard(s) == [s EXCEPT !.bnd = None, !.claims = 0, !.promised = {}]

Commit(s, m) == [s EXCEPT !.last = IF m > @ THEN m ELSE @]

\* get_last_processed_ts: what is owed is below what was processed.
Watermark(s) == IF s.claims > 0 /\ s.bnd # None /\ s.bnd < s.last THEN s.bnd ELSE s.last

\* An episode holds a frame already, or has no place for it.
Duplicate(frames, m) == Contains(frames, m)
Full(frames, m, capacity) == ~Duplicate(frames, m) /\ Len(frames) >= capacity
Added(frames, m, capacity) ==
    IF Duplicate(frames, m) \/ Full(frames, m, capacity) THEN frames ELSE Append(frames, m)
=============================================================================
