---------------------------- MODULE MembershipProofs ---------------------------
(* That the record and the jobs of a room follow the membership of the bot        *)
(* (Membership), for any number of stays, losses, failures, reloads and crashes.   *)
EXTENDS MCServiceReload, Sequences, TLAPS, WellFoundedInduction

-----------------------------------------------------------------------------
(* Events in their order.                                                   *)

\* An event is of a stay there has been, and an end of one that is over.
Known(s, top, over) ==
    \A i \in DOMAIN s : /\ 1 <= s[i].stay /\ s[i].stay <= top
                        /\ s[i].kind = "removed" => s[i].stay <= over

\* One event before another: the stays are in their order, and nothing of a stay comes after
\* its end.
Earlier(e, f) == /\ e.stay <= f.stay
                 /\ e.kind = "removed" /\ f.kind # "removed" => e.stay < f.stay
InOrder(s) == \A i, j \in DOMAIN s : i < j => Earlier(s[i], s[j])
Before(s, t) == \A i \in DOMAIN s, j \in DOMAIN t : Earlier(s[i], t[j])
UpTo(s, e) == \A i \in DOMAIN s : Earlier(s[i], e)
Since(e, s) == \A i \in DOMAIN s : Earlier(e, s[i])

\* There is the end of stay n among the events, or no beginning of any.
HasEnd(s, n) == \E i \in DOMAIN s : s[i].kind = "removed" /\ s[i].stay = n
NoAdds(s) == \A i \in DOMAIN s : s[i].kind # "added"

\* The same events, whatever else is known of them.
Like(s, t) == /\ DOMAIN s = DOMAIN t
              /\ \A i \in DOMAIN s : s[i].kind = t[i].kind /\ s[i].stay = t[i].stay

-----------------------------------------------------------------------------
(* The inductive invariant.                                                 *)

\* The last stay that has ended.
Ended == IF member THEN stay - 1 ELSE stay

\* What is told of the room: events on the wire, deferred or replayed, and the tasks of the
\* room's turn.
Events == [kind : {"added", "removed", "message"}, stay : Nat]
Turns == [kind : {"added", "removed"}, stay : Nat, gen : Nat,
          at : {"held", "parked", "classified"}]

Questions(bys) == {q \in [by : bys \cup {"nobody"}, id : Nat, gone : Nat] :
                       q.by = "nobody" => q = M!Idle}

Flags ==
    /\ member \in BOOLEAN /\ link \in BOOLEAN /\ early \in BOOLEAN /\ jobs \in BOOLEAN
    /\ quiesced \in BOOLEAN /\ wrong \in BOOLEAN /\ checked \in BOOLEAN
Counts ==
    /\ stay \in 0 .. MaxStays /\ slipped \in 0 .. stay /\ creating \in 0 .. stay
    /\ moves \in 0 .. MaxMoves /\ gen \in Nat /\ nid \in Nat
    /\ member => stay > 0
Queues ==
    /\ wire \in Seq(Events) /\ deferred \in Seq(Events) /\ replaying \in Seq(Events)
    /\ tasks \in Seq(Turns)
Holders ==
    /\ record # NoRecord => record \in [id : 1 .. nid, stay : 1 .. stay, dormant : BOOLEAN]
    /\ reclaim \in Questions({"task", "replayed", "pass", "boot"})
    /\ probe \in Questions({"pass", "boot"}) /\ probe.id <= nid
    /\ ask \in Questions({"replay"})

Types == Flags /\ Counts /\ Queues /\ Holders

\* Nobody but the first holds the room's turn, and no removal is asked about.
OneTurn == \A i \in DOMAIN tasks : /\ i > 1 => tasks[i].at = "parked"
                                   /\ tasks[i].at = "classified" => tasks[i].kind = "added"

\* What is deferred or replayed is older than what waits for the room's turn, and that is
\* older than what has yet to be read.
Lined ==
    /\ Known(replaying, stay, Ended) /\ Known(deferred, stay, Ended)
    /\ Known(tasks, stay, Ended) /\ Known(wire, stay, Ended)
    /\ InOrder(replaying) /\ InOrder(deferred) /\ InOrder(tasks) /\ InOrder(wire)
    /\ Before(replaying, tasks) /\ Before(replaying, wire)
    /\ Before(deferred, tasks) /\ Before(deferred, wire) /\ Before(tasks, wire)

\* Events are deferred while the reload lasts, and replayed when it is over.
Rests ==
    /\ deferred # <<>> => quiesced
    /\ replaying # <<>> => ~quiesced

\* A replay that finds the bot gone finds it gone from its last stay, and nothing is told
\* after that.
Asked ==
    /\ ~link => wire = <<>>
    /\ ask.gone > 0 => ~member /\ ask.gone = stay /\ wire = <<>>

\* A reclamation has the room's record, and whoever began it waits for it.
Taken ==
    reclaim # M!Idle =>
        /\ record # NoRecord /\ record.id = reclaim.id
        /\ record.stay <= reclaim.gone /\ reclaim.gone <= Ended
        /\ reclaim.by = "task" =>
               /\ tasks # <<>> /\ tasks[1].kind = "removed" /\ tasks[1].at = "held"
               /\ tasks[1].stay = reclaim.gone /\ replaying = <<>> /\ deferred = <<>>
        /\ reclaim.by = "replayed" =>
               /\ replaying # <<>> /\ replaying[1].kind = "removed"
               /\ replaying[1].stay = reclaim.gone
        /\ reclaim.by \in {"pass", "boot"} => probe.by = reclaim.by

\* An answer on its way is about a stay that is over, and no record it is about is of a later
\* one.
Probed ==
    /\ probe.gone <= Ended
    /\ probe.gone > 0 /\ record # NoRecord /\ record.id = probe.id => record.stay <= probe.gone

\* The end of stay n is still to be handled.
Owed(n) == HasEnd(wire, n) \/ HasEnd(tasks, n) \/ HasEnd(deferred, n) \/ HasEnd(replaying, n)

\* Every end that is still to be handled is that of the record's stay, or of a later one.
Current == record # NoRecord => \A n \in Nat : Owed(n) => record.stay <= n

\* Nothing is left of a stay whose end was handled, and nothing will be told of it.
Followed ==
    ~member /\ slipped < stay /\ ~Owed(stay) =>
        /\ record = NoRecord /\ ~jobs
        /\ NoAdds(wire) /\ NoAdds(tasks) /\ NoAdds(deferred) /\ NoAdds(replaying)

\* A record that sleeps in a room the bot has left is about to be reconciled.
Watched ==
    checked => \/ member \/ record = NoRecord \/ ~record.dormant
               \/ probe.by = "pass" /\ probe.id = record.id /\ probe.gone = stay

RoomInv == /\ Types /\ OneTurn /\ Lined /\ Rests /\ Asked
           /\ Taken /\ Probed /\ Current /\ Followed /\ Watched /\ ~wrong

Narrow == "parked" \notin Windows /\ "asked" \notin Windows /\ "beside" \notin Windows
RoomBounds == MaxStays \in Nat /\ MaxMoves \in Nat

-----------------------------------------------------------------------------
(* Sequences of events.                                                     *)

\* What is in a sequence that has one more element.
LEMMA AppendAt ==
    ASSUME NEW S, NEW s \in Seq(S), NEW e \in S
    PROVE  /\ Append(s, e) \in Seq(S) /\ Append(s, e) # <<>>
           /\ DOMAIN Append(s, e) = 1 .. Len(s) + 1 /\ DOMAIN s = 1 .. Len(s) /\ Len(s) \in Nat
           /\ \A i \in 1 .. Len(s) : Append(s, e)[i] = s[i]
           /\ Append(s, e)[Len(s) + 1] = e
           /\ s = <<>> => Append(s, e)[1] = e
           /\ s # <<>> => Append(s, e)[1] = s[1]
  BY SMTT(30)

\* What is left of a sequence without its first.
LEMMA TailAt ==
    ASSUME NEW S, NEW s \in Seq(S), s # <<>>
    PROVE  /\ Tail(s) \in Seq(S) /\ Head(s) = s[1] /\ s[1] \in S /\ 1 \in DOMAIN s
           /\ DOMAIN Tail(s) = 1 .. Len(s) - 1 /\ DOMAIN s = 1 .. Len(s) /\ Len(s) \in Nat
           /\ \A i \in 1 .. Len(s) - 1 : Tail(s)[i] = s[i + 1]
  OBVIOUS

\* Of no events everything holds.
LEMMA EmptyAt ==
    ASSUME NEW s, NEW n, NEW top, NEW over, NEW e
    PROVE  /\ DOMAIN <<>> = {}
           /\ Known(<<>>, top, over) /\ InOrder(<<>>) /\ Before(<<>>, s) /\ Before(s, <<>>)
           /\ ~HasEnd(<<>>, n) /\ NoAdds(<<>>) /\ UpTo(<<>>, e) /\ Since(e, <<>>)
  BY DEF Known, InOrder, Before, HasEnd, NoAdds, UpTo, Since

\* What is appended comes last.
LEMMA AppendLine ==
    ASSUME NEW S, NEW s \in Seq(S), NEW e \in S, NEW t, NEW n, NEW top, NEW over
    PROVE  /\ Known(s, top, over) /\ 1 <= e.stay /\ e.stay <= top
              /\ (e.kind = "removed" => e.stay <= over) => Known(Append(s, e), top, over)
           /\ InOrder(s) /\ UpTo(s, e) => InOrder(Append(s, e))
           /\ Before(s, t) /\ Since(e, t) => Before(Append(s, e), t)
           /\ Before(t, s) /\ UpTo(t, e) => Before(t, Append(s, e))
           /\ HasEnd(Append(s, e), n) <=> (HasEnd(s, n) \/ (e.kind = "removed" /\ e.stay = n))
           /\ NoAdds(s) /\ e.kind # "added" => NoAdds(Append(s, e))
           /\ NoAdds(Append(s, e)) => NoAdds(s) /\ e.kind # "added"
<1> DEFINE a == Append(s, e)
<1>1. /\ DOMAIN a = 1 .. Len(s) + 1 /\ DOMAIN s = 1 .. Len(s) /\ Len(s) \in Nat
      /\ \A i \in 1 .. Len(s) : a[i] = s[i]
      /\ a[Len(s) + 1] = e
  BY AppendAt
<1>2. /\ \A i \in DOMAIN a : (i \in DOMAIN s /\ a[i] = s[i]) \/ (i = Len(s) + 1 /\ a[i] = e)
      /\ \A i \in DOMAIN s : i \in DOMAIN a /\ a[i] = s[i] /\ i < Len(s) + 1
      /\ Len(s) + 1 \in DOMAIN a
  BY <1>1
<1>3. \A i, j \in DOMAIN a : i < j => i \in DOMAIN s /\ a[i] = s[i]
  BY <1>1
<1> HIDE DEF a
<1>4. /\ Known(s, top, over) /\ 1 <= e.stay /\ e.stay <= top
         /\ (e.kind = "removed" => e.stay <= over) => Known(a, top, over)
  BY <1>2 DEF Known
<1>5. InOrder(s) /\ UpTo(s, e) => InOrder(a)
  BY <1>2, <1>3 DEF InOrder, UpTo
<1>6. Before(s, t) /\ Since(e, t) => Before(a, t)
  BY <1>2 DEF Before, Since
<1>7. Before(t, s) /\ UpTo(t, e) => Before(t, a)
  BY <1>2 DEF Before, UpTo
<1>8. HasEnd(a, n) <=> (HasEnd(s, n) \/ (e.kind = "removed" /\ e.stay = n))
  BY <1>2 DEF HasEnd
<1>9. /\ NoAdds(s) /\ e.kind # "added" => NoAdds(a)
      /\ NoAdds(a) => NoAdds(s) /\ e.kind # "added"
  BY <1>2 DEF NoAdds
<1> QED  BY <1>4, <1>5, <1>6, <1>7, <1>8, <1>9 DEF a

\* What is first is before the rest.
LEMMA TailLine ==
    ASSUME NEW S, NEW s \in Seq(S), s # <<>>, NEW t, NEW n, NEW top, NEW over
    PROVE  /\ Known(s, top, over) => /\ Known(Tail(s), top, over)
                                     /\ 1 <= s[1].stay /\ s[1].stay <= top
                                     /\ s[1].kind = "removed" => s[1].stay <= over
           /\ InOrder(s) => InOrder(Tail(s)) /\ Since(s[1], Tail(s))
           /\ Before(s, t) => Before(Tail(s), t) /\ Since(s[1], t)
           /\ Before(t, s) => Before(t, Tail(s)) /\ UpTo(t, s[1])
           /\ HasEnd(s, n) <=> (HasEnd(Tail(s), n) \/ (s[1].kind = "removed" /\ s[1].stay = n))
           /\ NoAdds(s) => NoAdds(Tail(s)) /\ s[1].kind # "added"
<1> DEFINE a == Tail(s)
<1>1. /\ 1 \in DOMAIN s /\ DOMAIN a = 1 .. Len(s) - 1 /\ DOMAIN s = 1 .. Len(s)
      /\ Len(s) \in Nat /\ \A i \in 1 .. Len(s) - 1 : a[i] = s[i + 1]
  BY TailAt
<1>2. /\ \A i \in DOMAIN a : i + 1 \in DOMAIN s /\ a[i] = s[i + 1] /\ 1 < i + 1
      /\ \A i \in DOMAIN s : i = 1 \/ (i - 1 \in DOMAIN a /\ a[i - 1] = s[i])
      /\ \A i, j \in DOMAIN a : i < j => i + 1 < j + 1
  BY <1>1
<1> HIDE DEF a
<1>4. Known(s, top, over) => /\ Known(a, top, over) /\ 1 <= s[1].stay /\ s[1].stay <= top
                             /\ s[1].kind = "removed" => s[1].stay <= over
  BY <1>1, <1>2 DEF Known
<1>5. InOrder(s) => InOrder(a) /\ Since(s[1], a)
  <2> SUFFICES ASSUME InOrder(s) PROVE InOrder(a) /\ Since(s[1], a)
    OBVIOUS
  <2>1. ASSUME NEW i \in DOMAIN a, NEW j \in DOMAIN a, i < j PROVE Earlier(a[i], a[j])
    BY <1>2, <2>1 DEF InOrder
  <2>2. ASSUME NEW i \in DOMAIN a PROVE Earlier(s[1], a[i])
    BY <1>1, <1>2 DEF InOrder
  <2> QED  BY <2>1, <2>2 DEF InOrder, Since
<1>6. Before(s, t) => Before(a, t) /\ Since(s[1], t)
  BY <1>1, <1>2 DEF Before, Since
<1>7. Before(t, s) => Before(t, a) /\ UpTo(t, s[1])
  BY <1>1, <1>2 DEF Before, UpTo
<1>8. HasEnd(s, n) <=> (HasEnd(a, n) \/ (s[1].kind = "removed" /\ s[1].stay = n))
  BY SMTT(30), <1>1, <1>2 DEF HasEnd
<1>9. NoAdds(s) => NoAdds(a) /\ s[1].kind # "added"
  BY <1>1, <1>2 DEF NoAdds
<1> QED  BY <1>4, <1>5, <1>6, <1>7, <1>8, <1>9 DEF a

\* The order speaks of kinds and stays only.
LEMMA LikeLine ==
    ASSUME NEW s, NEW u, Like(s, u), NEW t, NEW n, NEW top, NEW over, NEW e
    PROVE  /\ Known(s, top, over) => Known(u, top, over)
           /\ InOrder(s) => InOrder(u)
           /\ Before(s, t) => Before(u, t)
           /\ Before(t, s) => Before(t, u)
           /\ Since(e, s) => Since(e, u)
           /\ HasEnd(s, n) <=> HasEnd(u, n)
           /\ NoAdds(s) <=> NoAdds(u)
<1>1. Known(s, top, over) => Known(u, top, over)
  BY DEF Like, Known
<1>2. InOrder(s) => InOrder(u)
  BY DEF Like, InOrder, Earlier
<1>3. (Before(s, t) => Before(u, t)) /\ (Before(t, s) => Before(t, u)) /\ (Since(e, s) => Since(e, u))
  BY DEF Like, Before, Since, Earlier
<1>4. (HasEnd(s, n) <=> HasEnd(u, n)) /\ (NoAdds(s) <=> NoAdds(u))
  BY DEF Like, HasEnd, NoAdds
<1> QED  BY <1>1, <1>2, <1>3, <1>4

\* What is known stays known.
LEMMA KnownGrows ==
    ASSUME NEW s, \A i \in DOMAIN s : s[i].stay \in Nat,
           NEW top \in Nat, NEW over \in Nat, NEW top1 \in Nat, NEW over1 \in Nat,
           top <= top1, over <= over1, Known(s, top, over)
    PROVE  Known(s, top1, over1)
  BY DEF Known

\* What is told last comes after all that is known.
LEMMA KnownUpTo ==
    ASSUME NEW s, \A i \in DOMAIN s : s[i].stay \in Nat,
           NEW top \in Nat, NEW over \in Nat, Known(s, top, over),
           NEW e, e.stay \in Nat, top <= e.stay, e.kind # "removed" => over < e.stay
    PROVE  UpTo(s, e)
  BY DEF Known, UpTo, Earlier

\* An end that is known is one of a stay that is over.
LEMMA KnownEnd ==
    ASSUME NEW s, NEW top, NEW over, Known(s, top, over), NEW n, HasEnd(s, n)
    PROVE  1 <= n /\ n <= top /\ n <= over
  BY DEF Known, HasEnd

\* Every stay is a number.
LEMMA AllStays ==
    /\ \A s \in Seq(Events) : \A i \in DOMAIN s : s[i] \in Events /\ s[i].stay \in Nat
    /\ \A s \in Seq(Turns) : \A i \in DOMAIN s : s[i] \in Turns /\ s[i].stay \in Nat
<1>1. ASSUME NEW S, NEW s \in Seq(S), NEW i \in DOMAIN s PROVE s[i] \in S
  OBVIOUS
<1>2. (\A e \in Events : e.stay \in Nat) /\ (\A e \in Turns : e.stay \in Nat)
  BY DEF Events, Turns
<1> QED  BY <1>1, <1>2

\* The next of the tasks gets the room's turn.
LEMMA NextTurn ==
    ASSUME NEW ts \in Seq(Turns), ts # <<>>, NEW t, NEW n, NEW top, NEW over, NEW e
    PROVE  LET u == M!Next1(Tail(ts)) IN
           /\ u \in Seq(Turns)
           /\ \A i \in DOMAIN u : i + 1 \in DOMAIN ts /\ (i > 1 => u[i].at = ts[i + 1].at)
           /\ 1 \in DOMAIN u => u[1].at = "held"
           /\ Known(ts, top, over) => Known(u, top, over)
           /\ InOrder(ts) => InOrder(u) /\ Since(ts[1], u)
           /\ Before(ts, t) => Before(u, t)
           /\ Before(t, ts) => Before(t, u)
           /\ HasEnd(ts, n) <=> (HasEnd(u, n) \/ (ts[1].kind = "removed" /\ ts[1].stay = n))
           /\ NoAdds(ts) => NoAdds(u)
<1> DEFINE v == Tail(ts)
           u == M!Next1(v)
<1>1. v \in Seq(Turns) /\ DOMAIN v = 1 .. Len(ts) - 1 /\ DOMAIN ts = 1 .. Len(ts)
      /\ Len(ts) \in Nat /\ (\A i \in DOMAIN v : v[i] = ts[i + 1] /\ v[i] \in Turns)
  BY TailAt
<1>2. CASE v = <<>>
  <2>1. u = v
    BY <1>2 DEF M!Next1
  <2>2. DOMAIN u = {}
    BY <1>2, <2>1, EmptyAt
  <2> QED
    BY ZenonT(60), <1>1, <2>1, <2>2, TailLine
<1>3. CASE v # <<>>
  <2>1. u = [v EXCEPT ![1].at = "held"] /\ 1 \in DOMAIN v
    BY <1>1, <1>3, TailAt DEF M!Next1
  <2>2. DOMAIN u = DOMAIN v /\ (\A i \in DOMAIN v : i # 1 => u[i] = v[i])
        /\ u[1] = [v[1] EXCEPT !.at = "held"]
    BY <1>1, <2>1
  <2>3. u[1] \in Turns /\ u[1].kind = v[1].kind /\ u[1].stay = v[1].stay
        /\ u[1].at = "held"
    <3>1. v[1] \in Turns
      BY <1>1, <2>1
    <3> QED  BY <2>2, <3>1 DEF Turns
  <2>4. u \in Seq(Turns)
    <3>1. DOMAIN u = 1 .. Len(v) /\ Len(v) \in Nat
      BY <1>1, <2>2
    <3>2. \A i \in 1 .. Len(v) : u[i] \in Turns
      BY <1>1, <2>2, <2>3
    <3>3. u = [i \in 1 .. Len(v) |-> u[i]]
      BY <1>1, <2>1, <3>1
    <3> HIDE DEF u
    <3> QED  BY <3>1, <3>2, <3>3
  <2>5. /\ Like(v, u)
        /\ \A i \in DOMAIN u : i + 1 \in DOMAIN ts /\ (i > 1 => u[i].at = ts[i + 1].at)
        /\ u[1].at = "held"
    BY <1>1, <2>2, <2>3 DEF Like
  <2>6. Since(ts[1], v) => Since(ts[1], u)
    BY <2>5, LikeLine
  <2> HIDE DEF u
  <2>7. /\ Known(v, top, over) => Known(u, top, over)
        /\ InOrder(v) => InOrder(u)
        /\ Before(v, t) => Before(u, t)
        /\ Before(t, v) => Before(t, u)
        /\ HasEnd(v, n) <=> HasEnd(u, n)
        /\ NoAdds(v) <=> NoAdds(u)
    BY <2>5, LikeLine
  <2>8. /\ Known(ts, top, over) => Known(v, top, over)
        /\ InOrder(ts) => InOrder(v) /\ Since(ts[1], v)
        /\ Before(ts, t) => Before(v, t)
        /\ Before(t, ts) => Before(t, v)
        /\ HasEnd(ts, n) <=> (HasEnd(v, n) \/ (ts[1].kind = "removed" /\ ts[1].stay = n))
        /\ NoAdds(ts) => NoAdds(v)
    BY TailLine
  <2> QED  BY <2>4, <2>5, <2>6, <2>7, <2>8 DEF u
<1> QED  BY <1>2, <1>3

-----------------------------------------------------------------------------
(* Ends that are overdue, and the latest of them.                           *)

\* The ends that the model collects are those that are there.
LEMMA EndsAre ==
    ASSUME NEW s, NEW n
    PROVE  n \in M!Ends(s) <=> HasEnd(s, n)
  BY DEF M!Ends, HasEnd, M!Range

\* An end is overdue if it is still to be handled.
LEMMA OverdueIs == \A n : n \in M!Overdue <=> Owed(n)
  BY EndsAre DEF M!Overdue, Owed

\* A set of numbers has a least one, and a bounded one a greatest.
LEMMA LeastOf ==
    ASSUME NEW S, S \subseteq Nat, S # {}
    PROVE  \E x \in S : \A y \in S : x <= y
<1>1. IsWellFoundedOn(OpToRel(<, Nat), Nat)
  BY NatLessThanWellFounded
<1>2. PICK x \in S : \A y \in S : ~(<<y, x>> \in OpToRel(<, Nat))
  BY <1>1, WFMin
<1>3. \A y \in S : ~ (y < x)
  BY <1>2 DEF OpToRel
<1> QED  BY <1>3

LEMMA LatestOf ==
    ASSUME NEW n \in Nat, NEW S, S \subseteq 0 .. n, S # {}
    PROVE  M!Latest(S) \in S /\ \A u \in S : u <= M!Latest(S)
<1> DEFINE T == {n - x : x \in S}
<1>1. T \subseteq Nat /\ T # {}
  <2>1. ASSUME NEW x \in S PROVE n - x \in Nat
    <3>1. x \in 0 .. n
      OBVIOUS
    <3> QED  BY <3>1
  <2> QED  BY <2>1
<1>2. PICK y \in T : \A z \in T : y <= z
  BY <1>1, LeastOf
<1>3. PICK x \in S : y = n - x
  OBVIOUS
<1>4. \A u \in S : u <= x
  <2> TAKE u \in S
  <2>1. n - u \in T /\ u \in 0 .. n /\ x \in 0 .. n
    OBVIOUS
  <2>2. n - x <= n - u
    BY <1>2, <1>3, <2>1
  <2> QED  BY <2>1, <2>2
<1> QED  BY <1>4 DEF M!Latest

-----------------------------------------------------------------------------
(* What becomes of the lines of events.                                     *)

\* The last stay that is over is the last, or the one before.
LEMMA EndedNat == Types => Ended \in Nat /\ Ended <= stay /\ stay \in Nat
  BY DEF Types, Flags, Counts, Ended

LEMMA StaysOfLines ==
    ASSUME Queues
    PROVE  /\ \A i \in DOMAIN wire : wire[i].stay \in Nat
           /\ \A i \in DOMAIN tasks : tasks[i].stay \in Nat
           /\ \A i \in DOMAIN deferred : deferred[i].stay \in Nat
           /\ \A i \in DOMAIN replaying : replaying[i].stay \in Nat
  BY AllStays DEF Queues

\* The room's history goes on, and nothing is told of it.
LEMMA LinesGrow ==
    ASSUME Types, Lined, UNCHANGED <<wire, tasks, deferred, replaying>>,
           stay' \in Nat, Ended' \in Nat, stay <= stay', Ended <= Ended'
    PROVE  Lined'
<1>1. /\ Known(replaying, stay', Ended') /\ Known(deferred, stay', Ended')
      /\ Known(tasks, stay', Ended') /\ Known(wire, stay', Ended')
  BY KnownGrows, StaysOfLines, EndedNat DEF Types, Lined
<1> QED  BY <1>1 DEF Lined

\* It goes on, and it is told.
LEMMA LinesTold ==
    ASSUME Types, Lined, UNCHANGED <<tasks, deferred, replaying>>,
           stay' \in Nat, Ended' \in Nat, stay <= stay', Ended <= Ended',
           NEW e \in Events, wire' = Append(wire, e), e.stay = stay', 1 <= stay',
           e.kind = "removed" => stay' <= Ended', e.kind # "removed" => Ended < stay'
    PROVE  Lined'
<1>1. stay \in Nat /\ Ended \in Nat /\ wire \in Seq(Events)
  BY EndedNat DEF Types, Queues
<1>2. /\ Known(replaying, stay', Ended') /\ Known(deferred, stay', Ended')
      /\ Known(tasks, stay', Ended') /\ Known(wire, stay', Ended')
  BY <1>1, KnownGrows, StaysOfLines DEF Types, Lined
<1>3. UpTo(replaying, e) /\ UpTo(deferred, e) /\ UpTo(tasks, e) /\ UpTo(wire, e)
  BY <1>1, KnownUpTo, StaysOfLines DEF Types, Lined
<1>4. 1 <= e.stay /\ e.stay <= stay' /\ (e.kind = "removed" => e.stay <= Ended')
  OBVIOUS
<1>5. Known(wire, stay', Ended') => Known(wire', stay', Ended')
  BY <1>1, <1>4, AppendLine
<1>6. InOrder(wire')
  BY <1>1, <1>3, AppendLine DEF Lined
<1>7. Before(replaying, wire') /\ Before(deferred, wire') /\ Before(tasks, wire')
  BY <1>1, <1>3, AppendLine DEF Lined
<1> QED  BY <1>2, <1>5, <1>6, <1>7 DEF Lined

\* A task is the last to wait, when nothing is on the wire.
LEMMA LinesNoted ==
    ASSUME Types, Lined, UNCHANGED <<wire, deferred, replaying, stay, member>>, wire = <<>>,
           NEW w \in Turns, tasks' = Append(tasks, w), w.stay = stay, 1 <= stay,
           w.kind = "removed", stay <= Ended
    PROVE  Lined'
<1>1. stay \in Nat /\ Ended \in Nat /\ tasks \in Seq(Turns) /\ Ended' = Ended
  BY EndedNat DEF Types, Queues, Ended
<1>0. /\ w.stay \in Nat /\ 1 <= w.stay /\ w.stay <= stay /\ stay <= w.stay
      /\ w.kind = "removed" => w.stay <= Ended
  BY <1>1
<1>2. UpTo(replaying, w) /\ UpTo(deferred, w) /\ UpTo(tasks, w)
  BY <1>0, <1>1, KnownUpTo, StaysOfLines DEF Types, Lined
<1>3. Known(tasks', stay, Ended) /\ InOrder(tasks')
  <2>1. Known(tasks, stay, Ended) => Known(tasks', stay, Ended)
    BY <1>0, <1>1, AppendLine
  <2> QED  BY <1>1, <1>2, <2>1, AppendLine DEF Lined
<1>4. Before(replaying, tasks') /\ Before(deferred, tasks') /\ Before(tasks', wire)
  BY <1>1, <1>2, AppendLine, EmptyAt DEF Lined
<1> QED  BY <1>1, <1>3, <1>4 DEF Lined

\* The first event is read, and forgotten.
LEMMA LinesRead ==
    ASSUME Types, Lined, UNCHANGED <<tasks, deferred, replaying, stay, member>>,
           wire # <<>>, wire' = Tail(wire)
    PROVE  Lined'
<1>1. wire \in Seq(Events) /\ Ended' = Ended
  BY DEF Types, Queues, Ended
<1>2. /\ Known(wire', stay, Ended) /\ InOrder(wire')
      /\ Before(replaying, wire') /\ Before(deferred, wire') /\ Before(tasks, wire')
  BY <1>1, TailLine DEF Lined
<1> QED  BY <1>1, <1>2 DEF Lined

\* It is read, and waits for the room's turn.
LEMMA LinesArrive ==
    ASSUME Types, Lined, UNCHANGED <<deferred, replaying, stay, member>>,
           wire # <<>>, wire' = Tail(wire),
           NEW w \in Turns, w.kind = wire[1].kind, w.stay = wire[1].stay,
           tasks' = Append(tasks, w)
    PROVE  Lined'
<1>1. wire \in Seq(Events) /\ tasks \in Seq(Turns) /\ Ended' = Ended
  BY DEF Types, Queues, Ended
<1>2. /\ Known(wire', stay, Ended) /\ InOrder(wire') /\ Since(wire[1], wire')
      /\ 1 <= wire[1].stay /\ wire[1].stay <= stay
      /\ wire[1].kind = "removed" => wire[1].stay <= Ended
  BY <1>1, TailLine DEF Lined
<1>3. /\ Before(replaying, wire') /\ UpTo(replaying, wire[1])
      /\ Before(deferred, wire') /\ UpTo(deferred, wire[1])
      /\ Before(tasks, wire') /\ UpTo(tasks, wire[1])
  BY <1>1, TailLine DEF Lined
<1>4. UpTo(replaying, w) /\ UpTo(deferred, w) /\ UpTo(tasks, w) /\ Since(w, wire')
  BY <1>2, <1>3 DEF UpTo, Since, Earlier
<1>5. Known(tasks', stay, Ended) /\ InOrder(tasks') /\ Before(tasks', wire')
  BY <1>1, <1>2, <1>3, <1>4, AppendLine DEF Lined
<1>6. Before(replaying, tasks') /\ Before(deferred, tasks')
  BY <1>1, <1>4, AppendLine DEF Lined
<1> QED  BY <1>1, <1>2, <1>3, <1>5, <1>6 DEF Lined

\* The first task is over.
LEMMA LinesOver ==
    ASSUME Types, Lined, UNCHANGED <<wire, deferred, replaying, stay, member>>,
           tasks # <<>>, tasks' = M!Next1(Tail(tasks))
    PROVE  Lined'
<1>1. tasks \in Seq(Turns) /\ Ended' = Ended
  BY DEF Types, Queues, Ended
<1>2. /\ Known(tasks', stay, Ended) /\ InOrder(tasks') /\ Before(tasks', wire)
      /\ Before(replaying, tasks') /\ Before(deferred, tasks')
  BY <1>1, NextTurn DEF Lined
<1> QED  BY <1>1, <1>2 DEF Lined

\* It is deferred.
LEMMA LinesDefer ==
    ASSUME Types, Lined, UNCHANGED <<wire, replaying, stay, member>>,
           tasks # <<>>, tasks' = M!Next1(Tail(tasks)), replaying = <<>>,
           NEW e \in Events, e.kind = tasks[1].kind, e.stay = tasks[1].stay,
           deferred' = Append(deferred, e)
    PROVE  Lined'
<1>1. tasks \in Seq(Turns) /\ deferred \in Seq(Events) /\ Ended' = Ended
  BY DEF Types, Queues, Ended
<1>2. /\ Known(tasks', stay, Ended) /\ InOrder(tasks') /\ Before(tasks', wire)
      /\ Before(deferred, tasks') /\ Since(tasks[1], tasks')
  BY <1>1, NextTurn DEF Lined
<1>3. /\ UpTo(deferred, tasks[1]) /\ Since(tasks[1], wire)
      /\ 1 <= tasks[1].stay /\ tasks[1].stay <= stay
      /\ tasks[1].kind = "removed" => tasks[1].stay <= Ended
  BY <1>1, TailLine DEF Lined
<1>4. UpTo(deferred, e) /\ Since(e, wire) /\ Since(e, tasks')
  BY <1>2, <1>3 DEF UpTo, Since, Earlier
<1>5. /\ Known(deferred', stay, Ended) /\ InOrder(deferred')
      /\ Before(deferred', tasks') /\ Before(deferred', wire)
  BY <1>1, <1>2, <1>3, <1>4, AppendLine DEF Lined
<1>6. Before(replaying, tasks')
  BY EmptyAt
<1> QED  BY <1>1, <1>2, <1>5, <1>6 DEF Lined

\* The first of what is replayed is done.
LEMMA LinesReplayed ==
    ASSUME Types, Lined, UNCHANGED <<wire, deferred, tasks, stay, member>>,
           replaying # <<>>, replaying' = Tail(replaying)
    PROVE  Lined'
<1>1. replaying \in Seq(Events) /\ Ended' = Ended
  BY DEF Types, Queues, Ended
<1>2. /\ Known(replaying', stay, Ended) /\ InOrder(replaying')
      /\ Before(replaying', tasks) /\ Before(replaying', wire)
  BY <1>1, TailLine DEF Lined
<1> QED  BY <1>1, <1>2 DEF Lined

\* What was deferred is replayed.
LEMMA LinesRearm ==
    ASSUME Types, Lined, UNCHANGED <<wire, tasks, stay, member>>,
           replaying' = deferred, deferred' = <<>>
    PROVE  Lined'
  BY EmptyAt DEF Lined, Ended

\* The wire is cut, or everything is forgotten.
LEMMA LinesCut ==
    ASSUME Types, Lined, UNCHANGED <<stay, member>>, wire' = <<>>,
           \/ UNCHANGED <<tasks, deferred, replaying>>
           \/ tasks' = <<>> /\ deferred' = <<>> /\ replaying' = <<>>
    PROVE  Lined'
  BY EmptyAt DEF Lined, Ended

-----------------------------------------------------------------------------
(* The platform and the socket.                                             *)

\* What holds of reclamations and questions goes on holding while stays only end.
LEMMA HoldersKept ==
    ASSUME Types, Taken, Probed, Ended' \in Nat, Ended <= Ended',
           UNCHANGED <<record, reclaim, probe, tasks, replaying, deferred>>
    PROVE  Taken' /\ Probed'
<1>1. Ended \in Nat /\ reclaim.gone \in Nat /\ probe.gone \in Nat
  BY EndedNat DEF Types, Holders, Questions
<1>2. Taken'
  BY <1>1 DEF Taken
<1>3. Probed'
  BY <1>1 DEF Probed
<1> QED  BY <1>2, <1>3

\* An event is told if the socket is up.
LEMMA Told ==
    ASSUME Types, Lined, Asked, NEW k \in {"added", "removed", "message"},
           M!Tell(k), UNCHANGED <<link, tasks, deferred, replaying>>,
           stay' \in Nat, Ended' \in Nat, stay <= stay', Ended <= Ended', 1 <= stay',
           k = "removed" => stay' <= Ended', k # "removed" => Ended < stay'
    PROVE  /\ wire' \in Seq(Events) /\ Lined' /\ (~link' => wire' = <<>>)
           /\ \A n : Owed(n)' <=> (Owed(n) \/ (link /\ k = "removed" /\ n = stay'))
<1> DEFINE e == [kind |-> k, stay |-> stay']
<1>1. e \in Events /\ e.kind = k /\ e.stay = stay' /\ wire \in Seq(Events)
  BY DEF Events, Types, Queues
<1>2. CASE link
  <2>1. wire' = Append(wire, e)
    BY <1>2 DEF M!Tell
  <2> HIDE DEF e
  <2>2. wire' \in Seq(Events)
    BY <1>1, <2>1, AppendAt
  <2>3. Lined'
    BY <1>1, <2>1, LinesTold
  <2>4. \A n : HasEnd(wire', n) <=> (HasEnd(wire, n) \/ (k = "removed" /\ n = stay'))
    BY <1>1, <2>1, AppendLine
  <2> QED  BY <1>2, <2>2, <2>3, <2>4 DEF Owed
<1>3. CASE ~link
  <2>1. wire' = wire
    BY <1>3 DEF M!Tell
  <2>2. Lined'
    BY <2>1, LinesGrow
  <2> QED  BY <1>1, <1>3, <2>1, <2>2 DEF Owed, Asked
<1> QED  BY <1>2, <1>3, Zenon DEF Types, Flags

LEMMA JoinStep == ASSUME RoomInv, Narrow, RoomBounds, M!Join PROVE RoomInv'
<1> USE DEF RoomInv
<1>0. /\ link' = link /\ gen' = gen /\ early' = early /\ tasks' = tasks /\ record' = record
      /\ nid' = nid /\ jobs' = jobs /\ reclaim' = reclaim /\ creating' = creating
      /\ quiesced' = quiesced /\ deferred' = deferred /\ replaying' = replaying
      /\ probe' = probe /\ ask' = ask /\ moves' = moves /\ wrong' = wrong /\ slipped' = slipped
  BY DEF M!Join, M!serial, M!rest, M!questions
<1>1. /\ ~member /\ member' = TRUE /\ stay < MaxStays /\ stay' = stay + 1 /\ checked' = FALSE
      /\ M!Tell("added") /\ ~(ask.gone > 0)
  BY DEF M!Join, Narrow
<1>2. stay \in Nat /\ Ended = stay /\ Ended' = stay /\ stay' \in 0 .. MaxStays
  BY <1>1, EndedNat DEF Ended, Types, Counts, RoomBounds
<1>3. /\ wire' \in Seq(Events) /\ Lined' /\ (~link' => wire' = <<>>)
      /\ \A n : Owed(n)' <=> Owed(n)
  BY <1>0, <1>1, <1>2, Told
<1>4. Types'
  <2>1. Flags'
    BY <1>0, <1>1 DEF Types, Flags
  <2>2. Counts'
    BY <1>0, <1>1, <1>2 DEF Types, Counts
  <2>3. Queues'
    BY <1>0, <1>3 DEF Types, Queues
  <2>4. Holders'
    BY <1>0, <1>2, <1>1 DEF Types, Holders
  <2> QED  BY <2>1, <2>2, <2>3, <2>4 DEF Types
<1>5. OneTurn' /\ Rests' /\ Asked'
  BY <1>0, <1>1, <1>3 DEF OneTurn, Rests, Asked
<1>6. Taken' /\ Probed'
  BY <1>0, <1>2, HoldersKept
<1>7. Current'
  BY <1>0, <1>3 DEF Current
<1>8. Followed' /\ Watched' /\ ~wrong'
  BY <1>0, <1>1 DEF Followed, Watched
<1> QED  BY <1>3, <1>4, <1>5, <1>6, <1>7, <1>8

LEMMA KickStep == ASSUME RoomInv, M!Kick PROVE RoomInv'
<1> USE DEF RoomInv
<1>0. /\ link' = link /\ gen' = gen /\ early' = early /\ tasks' = tasks /\ record' = record
      /\ nid' = nid /\ jobs' = jobs /\ reclaim' = reclaim /\ creating' = creating
      /\ quiesced' = quiesced /\ deferred' = deferred /\ replaying' = replaying
      /\ probe' = probe /\ ask' = ask /\ moves' = moves /\ wrong' = wrong
  BY DEF M!Kick, M!serial, M!rest, M!questions
<1>1. /\ member /\ member' = FALSE /\ stay' = stay /\ checked' = FALSE /\ M!Tell("removed")
      /\ slipped' = IF link THEN slipped ELSE stay
  BY DEF M!Kick
<1>2. stay \in Nat /\ 1 <= stay /\ Ended = stay - 1 /\ Ended' = stay /\ Ended \in Nat
  BY <1>1, EndedNat DEF Ended, Types, Counts
<1>3. /\ wire' \in Seq(Events) /\ Lined' /\ (~link' => wire' = <<>>)
      /\ \A n : Owed(n)' <=> (Owed(n) \/ (link /\ n = stay))
  BY <1>0, <1>1, <1>2, Told
<1>4. Types'
  <2>1. Flags'
    BY <1>0, <1>1 DEF Types, Flags
  <2>2. Counts'
    BY <1>0, <1>1, <1>2 DEF Types, Counts
  <2>3. Queues'
    BY <1>0, <1>3 DEF Types, Queues
  <2>4. Holders'
    BY <1>0, <1>1 DEF Types, Holders
  <2> QED  BY <2>1, <2>2, <2>3, <2>4 DEF Types
<1>5. OneTurn' /\ Rests'
  BY <1>0 DEF OneTurn, Rests
<1>6. Asked'
  BY <1>0, <1>1, <1>3 DEF Asked
<1>7. Taken' /\ Probed'
  BY <1>0, <1>2, HoldersKept
<1>8. Current'
  <2>1. record # NoRecord => record.stay <= stay
    BY DEF Types, Holders
  <2> QED  BY <1>0, <1>3, <2>1 DEF Current
<1>9. Followed'
  <2>1. link => Owed(stay)'
    BY <1>1, <1>3 DEF Owed
  <2>2. ~link => slipped' = stay
    BY <1>1
  <2> QED  BY <1>1, <1>2, <2>1, <2>2 DEF Followed
<1>10. Watched' /\ ~wrong'
  BY <1>0, <1>1 DEF Watched
<1> QED  BY <1>3, <1>4, <1>5, <1>6, <1>7, <1>8, <1>9, <1>10

LEMMA SayStep == ASSUME RoomInv, M!Say PROVE RoomInv'
<1> USE DEF RoomInv
<1>0. /\ member' = member /\ stay' = stay /\ checked' = checked /\ slipped' = slipped
      /\ link' = link /\ gen' = gen /\ early' = early /\ tasks' = tasks /\ record' = record
      /\ nid' = nid /\ jobs' = jobs /\ reclaim' = reclaim /\ creating' = creating
      /\ quiesced' = quiesced /\ deferred' = deferred /\ replaying' = replaying
      /\ probe' = probe /\ ask' = ask /\ moves' = moves /\ wrong' = wrong
  BY DEF M!Say, M!platform, M!serial, M!rest, M!questions
<1>1. member /\ M!Tell("message")
  BY DEF M!Say
<1>2. stay \in Nat /\ 1 <= stay /\ Ended = stay - 1 /\ Ended' = Ended /\ Ended \in Nat
  BY <1>0, <1>1, EndedNat DEF Ended, Types, Counts
<1>3. /\ wire' \in Seq(Events) /\ Lined' /\ (~link' => wire' = <<>>)
      /\ \A n : Owed(n)' <=> Owed(n)
  BY <1>0, <1>1, <1>2, Told
<1>4. Types'
  BY <1>0, <1>3 DEF Types, Flags, Counts, Queues, Holders
<1>5. OneTurn' /\ Rests'
  BY <1>0 DEF OneTurn, Rests
<1>6. Asked'
  BY <1>0, <1>1, <1>3 DEF Asked
<1>7. Taken' /\ Probed'
  BY <1>0, <1>2, HoldersKept
<1>8. Current'
  BY <1>0, <1>3 DEF Current
<1>9. Followed'
  BY <1>0, <1>1 DEF Followed
<1>10. Watched' /\ ~wrong'
  BY <1>0, <1>1 DEF Watched
<1> QED  BY <1>3, <1>4, <1>5, <1>6, <1>7, <1>8, <1>9, <1>10

\* Every loss or failure is counted.
LEMMA FaultCounts == ASSUME RoomBounds, Types, M!Fault PROVE moves' \in 0 .. MaxMoves
  BY DEF RoomBounds, Types, Counts, M!Fault

\* What was told and not read is lost with the socket; the latest end of it is noted.
LEMMA LinkDownStep == ASSUME RoomInv, RoomBounds, M!LinkDown PROVE RoomInv'
<1> USE DEF RoomInv
<1>0. /\ member' = member /\ stay' = stay /\ checked' = checked
      /\ gen' = gen /\ early' = early /\ tasks' = tasks /\ record' = record
      /\ nid' = nid /\ jobs' = jobs /\ reclaim' = reclaim /\ creating' = creating
      /\ quiesced' = quiesced /\ deferred' = deferred /\ replaying' = replaying
      /\ probe' = probe /\ ask' = ask /\ wrong' = wrong
  BY DEF M!LinkDown, M!platform, M!serial, M!rest, M!questions
<1> DEFINE S == {slipped} \cup M!Ends(wire)
<1>1. /\ link /\ link' = FALSE /\ wire' = <<>> /\ moves' \in 0 .. MaxMoves
      /\ slipped' = M!Latest(S)
  BY FaultCounts DEF M!LinkDown
<1>2. stay \in Nat /\ Ended' = Ended /\ Ended \in Nat
  BY <1>0, EndedNat DEF Ended
<1>3. slipped' \in 0 .. stay /\ slipped <= slipped' /\ (HasEnd(wire, stay) => slipped' = stay)
  <2>1. S \subseteq 0 .. stay /\ S # {}
    <3>1. slipped \in 0 .. stay
      BY DEF Types, Counts
    <3>2. ASSUME NEW n \in M!Ends(wire) PROVE n \in 0 .. stay
      <4>1. PICK i \in DOMAIN wire : wire[i].kind = "removed" /\ n = wire[i].stay
        BY <3>2, EndsAre DEF HasEnd
      <4>2. wire[i].stay \in Nat /\ wire[i].stay <= stay
        BY StaysOfLines DEF Types, Lined, Known
      <4> QED  BY <1>2, <4>1, <4>2
    <3> QED  BY <3>1, <3>2
  <2>2. slipped' \in S /\ \A u \in S : u <= slipped'
    BY <1>1, <1>2, <2>1, LatestOf
  <2>3. HasEnd(wire, stay) => stay \in S
    BY EndsAre
  <2> HIDE DEF S
  <2>4. slipped \in S
    BY DEF S
  <2> QED  BY <1>2, <2>1, <2>2, <2>3, <2>4
<1>4. \A n : Owed(n)' <=> (HasEnd(tasks, n) \/ HasEnd(deferred, n) \/ HasEnd(replaying, n))
  BY <1>0, <1>1, EmptyAt DEF Owed
<1>5. Lined'
  BY <1>0, <1>1, LinesCut
<1>6. Types'
  <2>1. Flags'
    BY <1>0, <1>1 DEF Types, Flags
  <2>2. Counts'
    BY <1>0, <1>1, <1>3 DEF Types, Counts
  <2>3. Queues'
    BY <1>0, <1>1 DEF Types, Queues
  <2>4. Holders'
    BY <1>0 DEF Types, Holders
  <2> QED  BY <2>1, <2>2, <2>3, <2>4 DEF Types
<1>7. OneTurn' /\ Rests' /\ Asked'
  BY <1>0, <1>1 DEF OneTurn, Rests, Asked
<1>8. Taken' /\ Probed'
  BY <1>0, <1>2, HoldersKept
<1>9. Current'
  BY <1>0, <1>4 DEF Current, Owed
<1>10. Followed'
  <2> SUFFICES ASSUME ~member, slipped' < stay, ~Owed(stay)'
               PROVE  /\ record = NoRecord /\ ~jobs
                      /\ NoAdds(wire)' /\ NoAdds(tasks) /\ NoAdds(deferred) /\ NoAdds(replaying)
    BY <1>0 DEF Followed
  <2>1. ~HasEnd(tasks, stay) /\ ~HasEnd(deferred, stay) /\ ~HasEnd(replaying, stay)
    BY <1>0, <1>4 DEF Owed
  <2>2. ~HasEnd(wire, stay) /\ slipped < stay
    BY <1>2, <1>3 DEF Types, Counts
  <2> QED  BY <1>1, <2>1, <2>2, EmptyAt DEF Followed, Owed
<1>11. Watched' /\ ~wrong'
  BY <1>0 DEF Watched
<1> QED  BY <1>5, <1>6, <1>7, <1>8, <1>9, <1>10, <1>11

\* Nothing of the events changes.
LEMMA EventsKept ==
    ASSUME Types, Lined, OneTurn, UNCHANGED <<member, stay, wire, tasks, deferred, replaying>>
    PROVE  /\ Lined' /\ OneTurn' /\ Ended' = Ended /\ Ended \in Nat /\ stay \in Nat
           /\ \A n : Owed(n)' <=> Owed(n)
  BY EndedNat DEF Lined, OneTurn, Ended, Owed

LEMMA LinkUpStep == ASSUME RoomInv, M!LinkUp PROVE RoomInv'
<1> USE DEF RoomInv
<1>0. /\ member' = member /\ stay' = stay /\ checked' = checked /\ slipped' = slipped
      /\ wire' = wire /\ moves' = moves
      /\ gen' = gen /\ early' = early /\ tasks' = tasks /\ record' = record
      /\ nid' = nid /\ jobs' = jobs /\ reclaim' = reclaim /\ creating' = creating
      /\ quiesced' = quiesced /\ deferred' = deferred /\ replaying' = replaying
      /\ probe' = probe /\ wrong' = wrong
  BY DEF M!LinkUp, M!platform, M!serial, M!rest
<1>1. /\ ~link /\ link' = TRUE
      /\ \/ /\ record # NoRecord
            /\ ask' = [by |-> "replay", id |-> record.id, gone |-> IF member THEN 0 ELSE stay]
         \/ ask' = ask
  BY DEF M!LinkUp
<1>2. wire = <<>> /\ (record # NoRecord => record.id \in Nat)
  BY <1>1 DEF Asked, Types, Holders, Counts
<1>3. /\ Lined' /\ OneTurn' /\ Ended' = Ended /\ Ended \in Nat /\ stay \in Nat
      /\ \A n : Owed(n)' <=> Owed(n)
  BY <1>0, EventsKept
<1>4. Types'
  <2>1. ask' \in Questions({"replay"})
    BY <1>1, <1>2, <1>3 DEF Types, Holders, Questions
  <2> QED  BY <1>0, <1>1, <2>1 DEF Types, Flags, Counts, Queues, Holders
<1>5. Rests'
  BY <1>0 DEF Rests
<1>6. Asked'
  <2>1. CASE ask' = ask
    BY <1>0, <1>1, <1>2, <2>1 DEF Asked
  <2>2. CASE ask' = [by |-> "replay", id |-> record.id, gone |-> IF member THEN 0 ELSE stay]
    BY <1>0, <1>1, <1>2, <2>2 DEF Asked
  <2> QED  BY <1>1, <2>1, <2>2
<1>7. Taken' /\ Probed'
  BY <1>0, <1>3, HoldersKept
<1>8. Current'
  BY <1>0, <1>3 DEF Current
<1>9. Followed'
  BY <1>0, <1>3 DEF Followed, Owed
<1>10. Watched' /\ ~wrong'
  BY <1>0 DEF Watched
<1> QED  BY <1>3, <1>4, <1>5, <1>6, <1>7, <1>8, <1>9, <1>10

-----------------------------------------------------------------------------
(* The connector.                                                           *)

\* Who waits for the room's turn.
LEMMA WaitingIs ==
    ASSUME NEW e, e.kind \in {"added", "removed"}, e.stay \in Nat, NEW g \in Nat
    PROVE  LET w == M!Waiting(e, g) IN
           /\ w \in Turns /\ w.kind = e.kind /\ w.stay = e.stay
           /\ w.at # "classified" /\ (tasks # <<>> => w.at = "parked")
  BY DEF M!Waiting, Turns

\* Who comes last waits, and the first stays the first.
LEMMA TurnAppended ==
    ASSUME tasks \in Seq(Turns), OneTurn, NEW w \in Turns, w.at # "classified", tasks # <<>> => w.at = "parked",
           tasks' = Append(tasks, w)
    PROVE  /\ OneTurn' /\ tasks' \in Seq(Turns) /\ tasks' # <<>>
           /\ tasks # <<>> => tasks'[1] = tasks[1]
           /\ \A n : HasEnd(tasks', n) <=> (HasEnd(tasks, n) \/ (w.kind = "removed" /\ w.stay = n))
<1>1. /\ tasks' \in Seq(Turns) /\ tasks' # <<>>
      /\ DOMAIN tasks' = 1 .. Len(tasks) + 1 /\ DOMAIN tasks = 1 .. Len(tasks) /\ Len(tasks) \in Nat
      /\ \A i \in 1 .. Len(tasks) : tasks'[i] = tasks[i]
      /\ tasks'[Len(tasks) + 1] = w
      /\ tasks # <<>> => tasks'[1] = tasks[1]
  BY AppendAt
<1>2. \A n : HasEnd(tasks', n) <=> (HasEnd(tasks, n) \/ (w.kind = "removed" /\ w.stay = n))
  BY AppendLine
<1>3. OneTurn'
  <2> SUFFICES ASSUME NEW i \in DOMAIN tasks', NEW w1, w1 = tasks'[i]
               PROVE (i > 1 => w1.at = "parked") /\ (w1.at = "classified" => w1.kind = "added")
    BY DEF OneTurn
  <2>1. CASE i \in 1 .. Len(tasks)
    <3>1. w1 = tasks[i] /\ i \in DOMAIN tasks
      BY <1>1, <2>1
    <3> QED  BY <3>1 DEF OneTurn
  <2>2. CASE i = Len(tasks) + 1
    <3>1. CASE tasks # <<>>
      BY <1>1, <2>2, <3>1
    <3>2. CASE tasks = <<>>
      <4>1. Len(tasks) = 0
        BY <3>2
      <4> QED  BY <1>1, <2>2, <4>1
    <3> QED  BY <3>1, <3>2
  <2> QED  BY <1>1, <2>1, <2>2
<1> QED  BY <1>1, <1>2, <1>3

LEMMA ArriveStep == ASSUME RoomInv, M!Arrive PROVE RoomInv'
<1> USE DEF RoomInv
<1>0. /\ member' = member /\ stay' = stay /\ checked' = checked /\ slipped' = slipped
      /\ link' = link /\ moves' = moves /\ record' = record /\ early' = early
      /\ nid' = nid /\ jobs' = jobs /\ reclaim' = reclaim
      /\ quiesced' = quiesced /\ deferred' = deferred /\ replaying' = replaying
      /\ probe' = probe /\ ask' = ask /\ wrong' = wrong
  BY DEF M!Arrive, M!NoteRemoved, M!platform, M!serial, M!rest, M!questions
<1> DEFINE e == Head(wire)
<1>1. wire # <<>> /\ wire' = Tail(wire)
  BY DEF M!Arrive
<1>2. \/ e.kind = "removed" /\ M!NoteRemoved(e) /\ UNCHANGED creating
      \/ e.kind = "added" /\ tasks' = Append(tasks, M!Waiting(e, gen)) /\ UNCHANGED <<gen, creating>>
      \/ e.kind = "message" /\ UNCHANGED <<gen, tasks>> /\ creating' \in {e.stay, creating}
  BY DEF M!Arrive, M!serial
<1>3. /\ e = wire[1] /\ e \in Events /\ e.stay \in Nat /\ wire' \in Seq(Events)
      /\ wire \in Seq(Events) /\ tasks \in Seq(Turns) /\ gen \in Nat /\ stay \in Nat
      /\ Ended' = Ended /\ Ended \in Nat
  <2>1. wire \in Seq(Events) /\ tasks \in Seq(Turns) /\ gen \in Nat
    BY DEF Types, Counts, Queues
  <2>2. e = wire[1] /\ e \in Events /\ wire' \in Seq(Events)
    BY <1>1, <2>1, TailAt
  <2>3. e.stay \in Nat
    BY <2>2 DEF Events
  <2>4. stay \in Nat /\ Ended' = Ended /\ Ended \in Nat
    BY <1>0, EndedNat DEF Ended
  <2> QED  BY <2>1, <2>2, <2>3, <2>4
<1>4. e.stay <= stay /\ e.stay \in 0 .. stay
  <2>1. wire[1].stay <= stay
    BY <1>1, <1>3, TailAt DEF Lined, Known
  <2> QED  BY <1>3, <2>1
<1>5. \A n : HasEnd(wire, n) <=> (HasEnd(wire', n) \/ (e.kind = "removed" /\ e.stay = n))
  BY <1>1, <1>3, TailLine
<1>6. NoAdds(wire) => NoAdds(wire') /\ e.kind # "added"
  BY <1>1, <1>3, TailLine
<1>7. ask.gone > 0 => FALSE
  BY <1>1 DEF Asked
<1> HIDE DEF e
<1>8. /\ Lined' /\ OneTurn' /\ tasks' \in Seq(Turns) /\ gen' \in Nat /\ creating' \in 0 .. stay
      /\ tasks # <<>> => tasks' # <<>> /\ tasks'[1] = tasks[1]
      /\ \A n : Owed(n)' <=> Owed(n)
      /\ NoAdds(wire) /\ NoAdds(tasks) => NoAdds(wire') /\ NoAdds(tasks')
  <2>1. ASSUME NEW g \in Nat, e.kind \in {"added", "removed"},
               tasks' = Append(tasks, M!Waiting(e, g)), gen' \in Nat, creating' = creating
        PROVE  <1>8!1 /\ <1>8!2 /\ <1>8!3 /\ <1>8!4
    <3> DEFINE w == M!Waiting(e, g)
    <3>1. /\ w \in Turns /\ w.kind = e.kind /\ w.stay = e.stay /\ w.at # "classified"
          /\ tasks # <<>> => w.at = "parked"
      BY <1>3, <2>1, WaitingIs
    <3> HIDE DEF w
    <3>2. tasks' = Append(tasks, w)
      BY <2>1 DEF w
    <3>3. Lined'
      BY <1>0, <1>1, <1>3, <3>1, <3>2, LinesArrive
    <3>4. /\ OneTurn' /\ tasks' \in Seq(Turns) /\ tasks' # <<>>
          /\ tasks # <<>> => tasks'[1] = tasks[1]
          /\ \A n : HasEnd(tasks', n) <=> (HasEnd(tasks, n) \/ (w.kind = "removed" /\ w.stay = n))
      BY <1>3, <3>1, <3>2, TurnAppended
    <3>5. \A n : Owed(n)' <=> Owed(n)
      BY <1>0, <1>5, <3>1, <3>4 DEF Owed
    <3>6. NoAdds(tasks) /\ e.kind # "added" => NoAdds(tasks')
      BY <1>3, <3>1, <3>2, AppendLine
    <3> QED  BY <1>6, <2>1, <3>3, <3>4, <3>5, <3>6 DEF Types, Counts
  <2>2. CASE e.kind = "message" /\ UNCHANGED <<gen, tasks>> /\ creating' \in {e.stay, creating}
    <3>1. Lined'
      BY <1>0, <1>1, <2>2, LinesRead
    <3>2. \A n : Owed(n)' <=> Owed(n)
      BY <1>0, <1>5, <2>2 DEF Owed
    <3> QED  BY <1>3, <1>4, <1>6, <2>2, <3>1, <3>2 DEF OneTurn, Types, Counts
  <2>3. CASE e.kind = "removed" /\ M!NoteRemoved(e) /\ UNCHANGED creating
    BY SMTT(30), <1>3, <2>1, <2>3 DEF M!NoteRemoved
  <2>4. CASE e.kind = "added" /\ tasks' = Append(tasks, M!Waiting(e, gen)) /\ UNCHANGED <<gen, creating>>
    BY <1>3, <2>1, <2>4
  <2> QED  BY <1>2, <2>2, <2>3, <2>4
<1>9. Types'
  BY <1>0, <1>3, <1>8 DEF Types, Flags, Counts, Queues, Holders
<1>10. Rests'
  BY <1>0 DEF Rests
<1>11. Asked'
  BY <1>0, <1>1, <1>7 DEF Asked
<1>12. Taken' /\ Probed'
  BY <1>0, <1>3, <1>8 DEF Taken, Probed
<1>13. Current'
  BY <1>0, <1>8 DEF Current
<1>14. Followed'
  <2>1. Owed(stay)' <=> Owed(stay)
    BY <1>0, <1>8 DEF Owed
  <2> QED  BY <1>0, <1>8, <2>1 DEF Followed
<1>15. Watched' /\ ~wrong'
  BY <1>0 DEF Watched
<1> QED  BY <1>8, <1>9, <1>10, <1>11, <1>12, <1>13, <1>14, <1>15

LEMMA AnsweredStep == ASSUME RoomInv, RoomBounds, M!Answered PROVE RoomInv'
<1> USE DEF RoomInv
<1>0. /\ member' = member /\ stay' = stay /\ checked' = checked /\ slipped' = slipped
      /\ link' = link /\ wire' = wire /\ record' = record /\ early' = early
      /\ nid' = nid /\ jobs' = jobs /\ reclaim' = reclaim /\ creating' = creating
      /\ quiesced' = quiesced /\ deferred' = deferred /\ replaying' = replaying
      /\ probe' = probe /\ ask' = M!Idle /\ wrong' = wrong
  BY DEF M!Answered, M!NoteRemoved, M!platform, M!socketVars, M!serial, M!rest
<1>1. /\ tasks \in Seq(Turns) /\ gen \in Nat /\ stay \in Nat /\ Ended' = Ended /\ Ended \in Nat
      /\ M!Idle \in Questions({"replay"}) /\ ~(M!Idle.gone > 0)
  BY <1>0, EndedNat DEF Types, Counts, Queues, Ended, Questions, M!Idle
<1>2. moves' \in 0 .. MaxMoves
  BY FaultCounts DEF M!Answered, Types, Counts
<1>3. /\ Lined' /\ OneTurn' /\ tasks' \in Seq(Turns) /\ gen' \in Nat
      /\ tasks # <<>> => tasks' # <<>> /\ tasks'[1] = tasks[1]
      /\ \A n \in Nat : Owed(n)' => Owed(n) \/ n = stay
      /\ ~Owed(stay)' => ~Owed(stay) /\ tasks' = tasks
  <2>1. CASE UNCHANGED M!serial
    <3>1. tasks' = tasks /\ gen' = gen
      BY <2>1 DEF M!serial
    <3>2. Lined' /\ OneTurn' /\ \A n : Owed(n)' <=> Owed(n)
      BY <1>0, <3>1, EventsKept
    <3>3. Owed(stay)' <=> Owed(stay)
      BY <1>0, <3>1 DEF Owed
    <3> QED  BY <1>1, <3>1, <3>2, <3>3
  <2>2. CASE ask.gone > 0 /\ M!NoteRemoved([kind |-> "removed", stay |-> ask.gone])
    <3> DEFINE e == [kind |-> "removed", stay |-> ask.gone]
               w == M!Waiting(e, gen)
    <3>1. ~member /\ ask.gone = stay /\ wire = <<>> /\ 1 <= stay /\ stay <= Ended
      BY <1>1, <2>2 DEF Asked, Ended
    <3>2. e.kind = "removed" /\ e.stay = stay
      BY <3>1
    <3>3. gen' = gen + 1 /\ tasks' = Append(tasks, w)
      BY <2>2 DEF M!NoteRemoved
    <3> HIDE DEF e
    <3>4. /\ w \in Turns /\ w.kind = "removed" /\ w.stay = stay /\ w.at # "classified"
          /\ tasks # <<>> => w.at = "parked"
      BY <1>1, <3>2, WaitingIs
    <3> HIDE DEF w
    <3>5. Lined'
      BY <1>0, <3>1, <3>3, <3>4, LinesNoted
    <3>6. /\ OneTurn' /\ tasks' \in Seq(Turns) /\ tasks' # <<>>
          /\ tasks # <<>> => tasks'[1] = tasks[1]
          /\ \A n : HasEnd(tasks', n) <=> (HasEnd(tasks, n) \/ n = stay)
      BY <1>1, <3>3, <3>4, TurnAppended
    <3>7. Owed(stay)'
      BY <1>0, <3>6 DEF Owed
    <3> QED  BY <1>0, <1>1, <3>3, <3>5, <3>6, <3>7 DEF Owed
  <2> QED  BY <2>1, <2>2 DEF M!Answered
<1>4. Types'
  BY <1>0, <1>1, <1>2, <1>3 DEF Types, Flags, Counts, Queues, Holders
<1>5. Rests'
  BY <1>0 DEF Rests
<1>6. Asked'
  BY <1>0, <1>1 DEF Asked
<1>7. Taken' /\ Probed'
  BY <1>0, <1>1, <1>3 DEF Taken, Probed
<1>8. Current'
  <2>1. record # NoRecord => record.stay <= stay
    BY DEF Types, Holders
  <2> QED  BY <1>0, <1>3, <2>1 DEF Current
<1>9. Followed'
  BY <1>0, <1>3 DEF Followed
<1>10. Watched' /\ ~wrong'
  BY <1>0 DEF Watched
<1> QED  BY <1>3, <1>4, <1>5, <1>6, <1>7, <1>8, <1>9, <1>10

\* An add is over before its hook: no end is handled.
LEMMA AddOver ==
    ASSUME Types, Lined, OneTurn, tasks # <<>>, M!TaskOver,
           UNCHANGED <<wire, deferred, replaying, stay, member>>
    PROVE  /\ Lined' /\ OneTurn' /\ tasks' \in Seq(Turns)
           /\ gen' = gen /\ early' = early
           /\ tasks[1].kind # "removed" => \A n : Owed(n)' <=> Owed(n)
           /\ \A n : Owed(n) => Owed(n)' \/ (tasks[1].kind = "removed" /\ tasks[1].stay = n)
           /\ \A n : Owed(n)' => Owed(n)
           /\ NoAdds(tasks) => NoAdds(tasks')
<1>1. /\ tasks' = M!Next1(Tail(tasks)) /\ gen' = gen /\ early' = early
      /\ tasks \in Seq(Turns)
  BY DEF M!TaskOver, Types, Queues
<1>2. Lined'
  BY <1>1, LinesOver
<1>3. /\ tasks' \in Seq(Turns)
      /\ \A i \in DOMAIN tasks' : i + 1 \in DOMAIN tasks /\ (i > 1 => tasks'[i].at = tasks[i + 1].at)
      /\ 1 \in DOMAIN tasks' => tasks'[1].at = "held"
      /\ NoAdds(tasks) => NoAdds(tasks')
  BY <1>1, NextTurn
<1>4. \A n : HasEnd(tasks, n) <=> (HasEnd(tasks', n) \/ (tasks[1].kind = "removed" /\ tasks[1].stay = n))
  BY <1>1, NextTurn
<1>5. OneTurn'
  <2>1. DOMAIN tasks' \subseteq Nat /\ \A i \in DOMAIN tasks' : i = 1 \/ i > 1
    BY <1>3
  <2>2. ASSUME NEW i \in DOMAIN tasks', i > 1 PROVE tasks'[i].at = "parked"
    <3>1. i + 1 \in DOMAIN tasks /\ tasks'[i].at = tasks[i + 1].at
      BY <1>3, <2>2
    <3>2. i + 1 > 1
      BY <2>1, <2>2
    <3> QED  BY <3>1, <3>2 DEF OneTurn
  <2> QED  BY <1>3, <2>1, <2>2 DEF OneTurn
<1> QED  BY <1>1, <1>2, <1>3, <1>4, <1>5 DEF Owed

LEMMA ClassifyStep == ASSUME RoomInv, RoomBounds, M!Classify PROVE RoomInv'
<1> USE DEF RoomInv
<1>0. /\ member' = member /\ stay' = stay /\ checked' = checked /\ slipped' = slipped
      /\ link' = link /\ wire' = wire /\ record' = record
      /\ nid' = nid /\ jobs' = jobs /\ reclaim' = reclaim /\ creating' = creating
      /\ quiesced' = quiesced /\ deferred' = deferred /\ replaying' = replaying
      /\ probe' = probe /\ ask' = ask /\ wrong' = wrong
  BY DEF M!Classify, M!platform, M!socketVars, M!rest, M!questions
<1>1. tasks # <<>> /\ tasks[1].kind = "added"
  BY DEF M!Classify
<1>2. /\ tasks \in Seq(Turns) /\ gen \in Nat /\ stay \in Nat /\ Ended' = Ended /\ Ended \in Nat
  BY <1>0, EndedNat DEF Types, Counts, Queues, Ended
<1>3. moves' \in 0 .. MaxMoves
  BY FaultCounts DEF M!Classify, Types, Counts
<1>4. /\ Lined' /\ OneTurn' /\ tasks' \in Seq(Turns) /\ gen' = gen /\ early' = early
      /\ \A n : Owed(n)' <=> Owed(n)
      /\ NoAdds(tasks) => NoAdds(tasks')
  <2>1. CASE M!TaskOver
    BY <1>0, <1>1, <2>1, AddOver
  <2>2. CASE /\ tasks' = [tasks EXCEPT ![1].at = "classified",
                                       ![1].gen = IF early THEN @ ELSE gen]
             /\ UNCHANGED <<gen, early, moves>>
    <3>1. 1 \in DOMAIN tasks /\ tasks[1] \in Turns
      BY <1>1, <1>2, TailAt
    <3>2. /\ DOMAIN tasks' = DOMAIN tasks
          /\ \A i \in DOMAIN tasks : i # 1 => tasks'[i] = tasks[i]
          /\ tasks'[1] \in Turns /\ tasks'[1].kind = tasks[1].kind /\ tasks'[1].stay = tasks[1].stay
      <4> DEFINE g == IF early THEN tasks[1].gen ELSE gen
      <4>1. g \in Nat
        BY <1>2, <3>1 DEF Turns
      <4>2. tasks'[1] = [tasks[1] EXCEPT !.at = "classified", !.gen = g]
        BY <2>2, <3>1
      <4> HIDE DEF g
      <4>3. tasks'[1] \in Turns /\ tasks'[1].kind = tasks[1].kind /\ tasks'[1].stay = tasks[1].stay
        BY <3>1, <4>1, <4>2 DEF Turns
      <4>4. DOMAIN tasks' = DOMAIN tasks /\ \A i \in DOMAIN tasks : i # 1 => tasks'[i] = tasks[i]
        BY <2>2
      <4> QED  BY <4>3, <4>4
    <3>3. tasks' \in Seq(Turns)
      <4>1. DOMAIN tasks' = 1 .. Len(tasks) /\ Len(tasks) \in Nat
        BY <1>2, <3>2
      <4>2. \A i \in 1 .. Len(tasks) : tasks'[i] \in Turns
        BY <1>2, <3>2
      <4>3. tasks' = [i \in 1 .. Len(tasks) |-> tasks'[i]]
        BY <1>2, <2>2, <4>1
      <4> QED  BY <4>1, <4>2, <4>3
    <3>4. Like(tasks, tasks')
      BY <3>2 DEF Like
    <3>5. Lined'
      BY <1>0, <1>2, <3>4, LikeLine DEF Lined
    <3>6. OneTurn'
      <4> SUFFICES ASSUME NEW i \in DOMAIN tasks
                   PROVE  /\ i > 1 => tasks'[i].at = "parked"
                          /\ tasks'[i].at = "classified" => tasks'[i].kind = "added"
        BY <3>2 DEF OneTurn
      <4>1. CASE i = 1
        BY <1>1, <3>2, <4>1
      <4>2. CASE i # 1
        BY <3>2, <4>2 DEF OneTurn
      <4> QED  BY <4>1, <4>2
    <3>7. (\A n : HasEnd(tasks, n) <=> HasEnd(tasks', n)) /\ (NoAdds(tasks) <=> NoAdds(tasks'))
      BY <3>4, LikeLine
    <3> QED  BY <1>0, <2>2, <3>3, <3>5, <3>6, <3>7 DEF Owed
  <2> QED  BY <2>1, <2>2 DEF M!Classify
<1>5. Types'
  BY <1>0, <1>2, <1>3, <1>4 DEF Types, Flags, Counts, Queues, Holders
<1>6. Rests' /\ Asked'
  BY <1>0 DEF Rests, Asked
<1>7. Taken' /\ Probed'
  BY <1>0, <1>1, <1>2, <1>4 DEF Taken, Probed
<1>8. Current'
  BY <1>0, <1>4 DEF Current
<1>9. Followed'
  <2>1. Owed(stay)' <=> Owed(stay)
    BY <1>0, <1>4 DEF Owed
  <2> QED  BY <1>0, <1>4, <2>1 DEF Followed
<1>10. Watched' /\ ~wrong'
  BY <1>0 DEF Watched
<1> QED  BY <1>4, <1>5, <1>6, <1>7, <1>8, <1>9, <1>10


LEMMA OutrunStep == ASSUME RoomInv, M!Outrun PROVE RoomInv'
<1> USE DEF RoomInv
<1>0. /\ member' = member /\ stay' = stay /\ checked' = checked /\ slipped' = slipped
      /\ link' = link /\ wire' = wire /\ record' = record /\ creating' = creating
      /\ nid' = nid /\ jobs' = jobs /\ reclaim' = reclaim /\ moves' = moves
      /\ quiesced' = quiesced /\ deferred' = deferred /\ replaying' = replaying
      /\ probe' = probe /\ ask' = ask /\ wrong' = wrong
  BY DEF M!Outrun, M!platform, M!socketVars, M!rest, M!questions
<1>1. tasks # <<>> /\ tasks[1].at = "classified" /\ M!TaskOver
  BY DEF M!Outrun
<1>2. tasks[1].kind = "added"
  <2>1. 1 \in DOMAIN tasks
    BY <1>1, TailAt DEF Types, Queues
  <2> QED  BY <1>1, <2>1 DEF OneTurn
<1>3. Ended' = Ended
  BY <1>0 DEF Ended
<1>4. /\ Lined' /\ OneTurn' /\ tasks' \in Seq(Turns) /\ gen' = gen /\ early' = early
      /\ \A n : Owed(n)' <=> Owed(n)
      /\ NoAdds(tasks) => NoAdds(tasks')
  BY <1>0, <1>1, <1>2, AddOver
<1>5. Types'
  BY <1>0, <1>4 DEF Types, Flags, Counts, Queues, Holders
<1>6. Rests' /\ Asked'
  BY <1>0 DEF Rests, Asked
<1>7. Taken' /\ Probed'
  BY <1>0, <1>2, <1>3, <1>4 DEF Taken, Probed
<1>8. Current'
  BY <1>0, <1>4 DEF Current
<1>9. Followed'
  <2>1. Owed(stay)' <=> Owed(stay)
    BY <1>0, <1>4 DEF Owed
  <2> QED  BY <1>0, <1>4, <2>1 DEF Followed
<1>10. Watched' /\ ~wrong'
  BY <1>0 DEF Watched
<1> QED  BY <1>4, <1>5, <1>6, <1>7, <1>8, <1>9, <1>10

-----------------------------------------------------------------------------
(* The session manager's hooks.                                             *)

\* What the hook that is called for the room's task, or for the first event of the replay,
\* is told.
Heads(by, k, n) ==
    \/ /\ by = "task" /\ tasks # <<>> /\ tasks[1].kind = k /\ tasks[1].stay = n
       /\ replaying = <<>> /\ deferred = <<>>
    \/ /\ by = "replayed" /\ replaying # <<>> /\ replaying[1].kind = k /\ replaying[1].stay = n
       /\ deferred = <<>>

\* What comes after an end is of later stays.
LEMMA SinceEnd ==
    ASSUME NEW h, NEW s, Since(h, s), h.stay \in Nat, \A i \in DOMAIN s : s[i].stay \in Nat,
           NEW top \in Nat, NEW over, Known(s, top, over)
    PROVE  /\ \A m : HasEnd(s, m) => h.stay <= m
           /\ h.kind = "removed" /\ h.stay = top => NoAdds(s)
<1>1. \A m : HasEnd(s, m) => h.stay <= m
  BY DEF Since, Earlier, HasEnd
<1>2. ASSUME h.kind = "removed", h.stay = top PROVE NoAdds(s)
  <2> SUFFICES ASSUME NEW i \in DOMAIN s, s[i].kind = "added" PROVE FALSE
    BY DEF NoAdds
  <2>1. h.stay < s[i].stay
    BY <1>2 DEF Since, Earlier
  <2>2. s[i].stay <= top
    BY DEF Known
  <2> QED  BY <1>2, <2>1, <2>2
<1> QED  BY <1>1, <1>2

LEMMA HeadPassed ==
    ASSUME Types, Lined, OneTurn, NEW by, NEW k, NEW n, Heads(by, k, n), M!GoOn(by),
           UNCHANGED <<wire, deferred, stay, member>>
    PROVE  /\ Lined' /\ OneTurn' /\ tasks' \in Seq(Turns) /\ replaying' \in Seq(Events)
           /\ gen' = gen /\ early' = early /\ probe' = probe /\ Ended' = Ended
           /\ replaying' # <<>> => replaying # <<>>
           /\ by = "replayed" => tasks' = tasks
           /\ n \in 1 .. stay /\ (k = "removed" => n <= Ended)
           /\ \A m : Owed(m) <=> (Owed(m)' \/ (k = "removed" /\ m = n))
           /\ \A m : Owed(m)' => n <= m
           /\ NoAdds(tasks) /\ NoAdds(replaying) =>
                 NoAdds(tasks') /\ NoAdds(replaying') /\ k # "added"
           /\ k = "removed" /\ n = stay =>
                 NoAdds(wire') /\ NoAdds(tasks') /\ NoAdds(deferred') /\ NoAdds(replaying')
<1>1. /\ tasks \in Seq(Turns) /\ replaying \in Seq(Events) /\ deferred = <<>>
      /\ stay \in Nat /\ Ended \in Nat /\ Ended' = Ended
  BY EndedNat DEF Types, Queues, Heads, Ended
<1>2. \A m : ~HasEnd(deferred, m)
  BY <1>1, EmptyAt
<1>3. NoAdds(deferred')
  BY <1>1, EmptyAt
<1>4. CASE by = "task"
  <2>1. /\ tasks # <<>> /\ tasks[1].kind = k /\ tasks[1].stay = n /\ replaying = <<>>
        /\ M!TaskOver /\ replaying' = replaying /\ probe' = probe
    BY <1>4 DEF Heads, M!GoOn
  <2>2. tasks' = M!Next1(Tail(tasks)) /\ gen' = gen /\ early' = early
    BY <2>1 DEF M!TaskOver
  <2>3. Lined' /\ OneTurn' /\ tasks' \in Seq(Turns) /\ (NoAdds(tasks) => NoAdds(tasks'))
    BY <2>1, AddOver
  <2>4. \A m : HasEnd(tasks, m) <=> (HasEnd(tasks', m) \/ (k = "removed" /\ m = n))
    BY <1>1, <2>1, <2>2, NextTurn
  <2>5. Since(tasks[1], tasks') /\ Since(tasks[1], wire)
    BY <1>1, <2>1, <2>2, NextTurn, TailLine DEF Lined
  <2>6. tasks[1] \in Turns /\ n \in Nat /\ 1 <= n /\ n <= stay /\ (k = "removed" => n <= Ended)
    <3>1. tasks[1] \in Turns /\ 1 \in DOMAIN tasks
      BY <1>1, <2>1, TailAt
    <3>2. n \in Nat
      BY <2>1, <3>1 DEF Turns
    <3> QED  BY <2>1, <3>1, <3>2 DEF Lined, Known
  <2>7. Known(tasks', stay, Ended) /\ Known(wire, stay, Ended)
    BY <1>1, <2>3 DEF Lined
  <2>8. /\ \A i \in DOMAIN tasks' : tasks'[i].stay \in Nat
        /\ \A i \in DOMAIN wire : wire[i].stay \in Nat
    BY <2>3, AllStays DEF Types, Queues
  <2>9. /\ \A m : HasEnd(tasks', m) => n <= m
        /\ k = "removed" /\ n = stay => NoAdds(tasks')
    BY <1>1, <2>1, <2>5, <2>6, <2>7, <2>8, SinceEnd
  <2>10. /\ \A m : HasEnd(wire, m) => n <= m
         /\ k = "removed" /\ n = stay => NoAdds(wire)
    BY <1>1, <2>1, <2>5, <2>6, <2>7, <2>8, SinceEnd
  <2>11. \A m : ~HasEnd(replaying, m)
    BY <2>1, EmptyAt
  <2>12. NoAdds(replaying')
    BY <2>1, EmptyAt
  <2>13. \A m : Owed(m)' <=> HasEnd(wire, m) \/ HasEnd(tasks', m)
    BY <1>2, <2>1, <2>11 DEF Owed
  <2>14. \A m : Owed(m) <=> HasEnd(wire, m) \/ HasEnd(tasks, m)
    BY <1>2, <2>1, <2>11 DEF Owed
  <2>15. NoAdds(tasks) => k # "added"
    BY <1>1, <2>1, TailLine
  <2> QED
    BY <1>1, <1>3, <1>4, <2>1, <2>2, <2>3, <2>4, <2>6, <2>9, <2>10, <2>12, <2>13, <2>14, <2>15
<1>5. CASE by = "replayed"
  <2>1. /\ replaying # <<>> /\ replaying[1].kind = k /\ replaying[1].stay = n
        /\ replaying' = Tail(replaying) /\ tasks' = tasks /\ gen' = gen /\ early' = early
        /\ probe' = probe
    BY <1>5 DEF Heads, M!GoOn, M!serial
  <2>2. Lined'
    BY <2>1, LinesReplayed
  <2>3. OneTurn'
    BY <2>1 DEF OneTurn
  <2>4. \A m : HasEnd(replaying, m) <=> (HasEnd(replaying', m) \/ (k = "removed" /\ m = n))
    BY <1>1, <2>1, TailLine
  <2>5. Since(replaying[1], replaying') /\ Since(replaying[1], tasks) /\ Since(replaying[1], wire)
    BY <1>1, <2>1, TailLine DEF Lined
  <2>6. /\ replaying[1] \in Events /\ n \in Nat /\ 1 <= n /\ n <= stay
        /\ k = "removed" => n <= Ended
    <3>1. replaying[1] \in Events /\ 1 \in DOMAIN replaying
      BY <1>1, <2>1, TailAt
    <3>2. n \in Nat
      BY <2>1, <3>1 DEF Events
    <3> QED  BY <2>1, <3>1, <3>2 DEF Lined, Known
  <2>7. replaying' \in Seq(Events)
    BY <1>1, <2>1, TailAt
  <2>8. Known(tasks, stay, Ended) /\ Known(wire, stay, Ended) /\ Known(replaying', stay, Ended)
    BY <1>1, <2>2 DEF Lined
  <2>9. /\ \A i \in DOMAIN tasks : tasks[i].stay \in Nat
        /\ \A i \in DOMAIN wire : wire[i].stay \in Nat
        /\ \A i \in DOMAIN replaying' : replaying'[i].stay \in Nat
    BY <2>7, AllStays DEF Types, Queues
  <2>10. /\ \A m : HasEnd(tasks, m) => n <= m
         /\ k = "removed" /\ n = stay => NoAdds(tasks)
    BY <1>1, <2>1, <2>5, <2>6, <2>8, <2>9, SinceEnd
  <2>11. /\ \A m : HasEnd(wire, m) => n <= m
         /\ k = "removed" /\ n = stay => NoAdds(wire)
    BY <1>1, <2>1, <2>5, <2>6, <2>8, <2>9, SinceEnd
  <2>12. /\ \A m : HasEnd(replaying', m) => n <= m
         /\ k = "removed" /\ n = stay => NoAdds(replaying')
    BY <1>1, <2>1, <2>5, <2>6, <2>8, <2>9, SinceEnd
  <2>13. \A m : Owed(m)' <=> HasEnd(wire, m) \/ HasEnd(tasks, m) \/ HasEnd(replaying', m)
    BY <1>2, <2>1 DEF Owed
  <2>14. \A m : Owed(m) <=> HasEnd(wire, m) \/ HasEnd(tasks, m) \/ HasEnd(replaying, m)
    BY <1>2 DEF Owed
  <2>15. NoAdds(replaying) => k # "added" /\ NoAdds(replaying')
    BY <1>1, <2>1, TailLine
  <2> QED
    BY <1>1, <1>3, <1>5, <2>1, <2>2, <2>3, <2>4, <2>6, <2>7, <2>10, <2>11, <2>12, <2>13,
       <2>14, <2>15
<1> QED  BY <1>4, <1>5 DEF Heads

\* A hook of the room's task is called when nothing is replayed beside it.
LEMMA HookedIs ==
    ASSUME RoomInv, Narrow, NEW by, NEW e, M!Hooked(by, e)
    PROVE  /\ by \in {"task", "replayed"} /\ e \in Events
           /\ quiesced => by = "task" /\ replaying = <<>>
           /\ by = "task" => /\ tasks # <<>> /\ tasks[1].kind = e.kind /\ tasks[1].stay = e.stay
                             /\ replaying = <<>>
                             /\ e.kind = "removed" => tasks[1].at = "held"
           /\ by = "replayed" => /\ replaying # <<>>
                                 /\ replaying[1].kind = e.kind /\ replaying[1].stay = e.stay
           /\ ~quiesced => Heads(by, e.kind, e.stay)
<1> USE DEF RoomInv
<1>1. tasks \in Seq(Turns) /\ replaying \in Seq(Events)
  BY DEF Types, Queues
<1>2. ~quiesced => deferred = <<>>
  BY DEF Rests
<1>3. CASE by = "task"
  <2>1. /\ tasks # <<>> /\ e = [kind |-> tasks[1].kind, stay |-> tasks[1].stay]
        /\ e.kind = "removed" => tasks[1].at = "held" \/ tasks[1].at = "classified"
        /\ replaying = <<>>
    BY <1>3 DEF M!Hooked, Narrow
  <2>2. tasks[1] \in Turns /\ 1 \in DOMAIN tasks
    BY <1>1, <2>1, TailAt
  <2>3. e \in Events
    BY <2>1, <2>2 DEF Turns, Events
  <2>4. e.kind = "removed" => tasks[1].at = "held"
    BY <2>1, <2>2 DEF OneTurn
  <2> QED  BY <1>2, <1>3, <2>1, <2>3, <2>4 DEF Heads
<1>4. CASE by = "replayed"
  <2>1. replaying # <<>> /\ e = Head(replaying)
    BY <1>4 DEF M!Hooked
  <2>2. e = replaying[1] /\ e \in Events
    BY <1>1, <2>1, TailAt
  <2>3. ~quiesced
    BY <2>1 DEF Rests
  <2> QED  BY <1>2, <1>4, <2>1, <2>2, <2>3 DEF Heads
<1> QED  BY <1>3, <1>4 DEF M!Hooked

LEMMA DeferStep ==
    ASSUME RoomInv, Narrow, NEW by, NEW e, M!Defer(by, e) PROVE RoomInv'
<1> USE DEF RoomInv
<1>0. /\ member' = member /\ stay' = stay /\ checked' = checked /\ slipped' = slipped
      /\ link' = link /\ wire' = wire /\ record' = record /\ creating' = creating
      /\ nid' = nid /\ jobs' = jobs /\ reclaim' = reclaim /\ moves' = moves
      /\ quiesced' = quiesced /\ ask' = ask /\ wrong' = wrong
  BY DEF M!Defer, M!platform, M!socketVars
<1>1. /\ M!Hooked(by, e) /\ quiesced /\ reclaim.by # by /\ deferred' = Append(deferred, e)
      /\ M!GoOn(by)
  BY DEF M!Defer
<1>2. /\ by = "task" /\ replaying = <<>> /\ e \in Events /\ tasks # <<>>
      /\ tasks[1].kind = e.kind /\ tasks[1].stay = e.stay
  BY <1>1, HookedIs
<1>3. M!TaskOver /\ replaying' = replaying /\ probe' = probe
  BY <1>1, <1>2 DEF M!GoOn
<1>4. /\ tasks' = M!Next1(Tail(tasks)) /\ gen' = gen /\ early' = early
      /\ tasks \in Seq(Turns) /\ deferred \in Seq(Events) /\ Ended' = Ended
  BY <1>0, <1>3 DEF M!TaskOver, Types, Queues, Ended
<1>5. Lined'
  BY <1>0, <1>2, <1>1, <1>3, <1>4, LinesDefer
<1>6. /\ tasks' \in Seq(Turns)
      /\ \A i \in DOMAIN tasks' : i + 1 \in DOMAIN tasks /\ (i > 1 => tasks'[i].at = tasks[i + 1].at)
      /\ 1 \in DOMAIN tasks' => tasks'[1].at = "held"
      /\ NoAdds(tasks) => NoAdds(tasks')
  BY <1>2, <1>4, NextTurn
<1>7. OneTurn'
  <2>1. DOMAIN tasks' \subseteq Nat /\ \A i \in DOMAIN tasks' : i = 1 \/ i > 1
    BY <1>6
  <2>2. ASSUME NEW i \in DOMAIN tasks', i > 1 PROVE tasks'[i].at = "parked"
    <3>1. i + 1 \in DOMAIN tasks /\ tasks'[i].at = tasks[i + 1].at
      BY <1>6, <2>2
    <3>2. i + 1 > 1
      BY <2>1, <2>2
    <3> QED  BY <3>1, <3>2 DEF OneTurn
  <2> QED  BY <1>6, <2>1, <2>2 DEF OneTurn
<1>8. \A n : HasEnd(tasks, n) <=> (HasEnd(tasks', n) \/ (tasks[1].kind = "removed" /\ tasks[1].stay = n))
  BY <1>2, <1>4, NextTurn
<1>9. \A n : HasEnd(deferred', n) <=> (HasEnd(deferred, n) \/ (e.kind = "removed" /\ e.stay = n))
  BY <1>1, <1>2, <1>4, AppendLine
<1>10. \A n : Owed(n)' <=> Owed(n)
  BY <1>0, <1>2, <1>3, <1>8, <1>9 DEF Owed
<1>11. NoAdds(tasks) /\ NoAdds(deferred) => NoAdds(deferred')
  <2>1. NoAdds(tasks) => tasks[1].kind # "added"
    BY <1>2, <1>4, TailLine
  <2> QED  BY <1>1, <1>2, <1>4, <2>1, AppendLine
<1>12. deferred' \in Seq(Events)
  BY <1>1, <1>2, <1>4, AppendAt
<1>13. Types'
  BY <1>0, <1>3, <1>4, <1>6, <1>12 DEF Types, Flags, Counts, Queues, Holders
<1>14. Rests' /\ Asked'
  BY <1>0, <1>1, <1>2, <1>3 DEF Rests, Asked
<1>15. Taken' /\ Probed'
  BY <1>0, <1>1, <1>2, <1>3, <1>4 DEF Taken, Probed
<1>16. Current'
  BY <1>0, <1>10 DEF Current
<1>17. Followed'
  <2>1. Owed(stay)' <=> Owed(stay)
    BY <1>0, <1>10 DEF Owed
  <2> QED  BY <1>0, <1>3, <1>6, <1>11, <2>1 DEF Followed
<1>18. Watched' /\ ~wrong'
  BY <1>0, <1>3 DEF Watched
<1> QED  BY <1>5, <1>7, <1>13, <1>14, <1>15, <1>16, <1>17, <1>18

LEMMA AddedStep ==
    ASSUME RoomInv, Narrow, NEW by, NEW e, M!Added(by, e) PROVE RoomInv'
<1> USE DEF RoomInv
<1>0. /\ member' = member /\ stay' = stay /\ checked' = FALSE /\ slipped' = slipped
      /\ link' = link /\ wire' = wire /\ creating' = creating
      /\ jobs' = jobs /\ reclaim' = reclaim /\ moves' = moves
      /\ quiesced' = quiesced /\ deferred' = deferred /\ ask' = ask /\ wrong' = wrong
  BY DEF M!Added, M!platform, M!socketVars
<1>1. M!Hooked(by, e) /\ e.kind = "added" /\ ~quiesced /\ M!GoOn(by)
  BY DEF M!Added
<1>2. /\ by \in {"task", "replayed"} /\ Heads(by, "added", e.stay)
      /\ by = "task" => tasks # <<>> /\ tasks[1].kind = "added" /\ replaying = <<>>
      /\ by = "replayed" => replaying # <<>> /\ replaying[1].kind = "added"
  BY <1>1, HookedIs
<1>3. /\ Lined' /\ OneTurn' /\ tasks' \in Seq(Turns) /\ replaying' \in Seq(Events)
      /\ gen' = gen /\ early' = early /\ probe' = probe /\ Ended' = Ended
      /\ e.stay \in 1 .. stay
      /\ \A m : Owed(m) <=> (Owed(m)' \/ ("added" = "removed" /\ m = e.stay))
      /\ \A m : Owed(m)' => e.stay <= m
      /\ NoAdds(tasks) /\ NoAdds(replaying) =>
            NoAdds(tasks') /\ NoAdds(replaying') /\ "added" # "added"
  BY <1>0, <1>1, <1>2, HeadPassed
<1>4. \/ record = NoRecord /\ record' = [id |-> nid + 1, stay |-> e.stay, dormant |-> TRUE]
         /\ nid' = nid + 1
      \/ record # NoRecord /\ record' = record /\ nid' = nid
  BY DEF M!Added, M!NewRecord
<1>5. nid \in Nat /\ stay \in Nat /\ e.stay \in Nat
  BY <1>3 DEF Types, Counts
<1>6. Types'
  <2>1. Flags' /\ Queues'
    BY <1>0, <1>3 DEF Types, Flags, Queues
  <2>2. Counts'
    BY <1>0, <1>3, <1>4, <1>5 DEF Types, Counts
  <2>3. record' # NoRecord => record' \in [id : 1 .. nid', stay : 1 .. stay, dormant : BOOLEAN]
    <3>1. CASE record # NoRecord /\ record' = record /\ nid' = nid
      BY <3>1 DEF Types, Holders
    <3>2. CASE /\ record' = [id |-> nid + 1, stay |-> e.stay, dormant |-> TRUE]
               /\ nid' = nid + 1
      BY <1>3, <1>5, <3>2
    <3> QED  BY <1>4, <3>1, <3>2
  <2>4. probe.id <= nid'
    <3>1. probe.id \in Nat /\ probe.id <= nid
      BY DEF Types, Holders, Questions
    <3> QED  BY <1>4, <1>5, <3>1
  <2>5. Holders'
    BY <1>0, <1>3, <2>3, <2>4 DEF Types, Holders
  <2> QED  BY <2>1, <2>2, <2>5 DEF Types
<1>7. Rests' /\ Asked'
  BY <1>0, <1>1, <1>2 DEF Rests, Asked, Heads
<1>8. Taken'
  <2> SUFFICES ASSUME reclaim # M!Idle PROVE Taken'
    BY <1>0 DEF Taken
  <2>1. record # NoRecord /\ record' = record
    BY <1>4 DEF Taken
  <2>2. reclaim.by # "task" /\ reclaim.by # "replayed"
    BY <1>2 DEF Taken
  <2> QED  BY <1>0, <1>3, <2>1, <2>2 DEF Taken
<1>9. Probed'
  <2>1. CASE record # NoRecord /\ record' = record
    BY <1>0, <1>3, <2>1 DEF Probed
  <2>2. CASE record' = [id |-> nid + 1, stay |-> e.stay, dormant |-> TRUE]
    <3>1. probe.id \in Nat /\ probe.id <= nid
      BY DEF Types, Holders, Questions
    <3>2. record'.id # probe.id
      BY <1>5, <2>2, <3>1
    <3> QED  BY <1>3, <3>2 DEF Probed
  <2> QED  BY <1>4, <2>1, <2>2
<1>10. Current'
  BY <1>3, <1>4 DEF Current
<1>11. Followed'
  <2>1. Owed(stay)' <=> Owed(stay)
    BY <1>0, <1>3 DEF Owed
  <2> QED  BY <1>0, <1>3, <2>1 DEF Followed
<1>12. Watched' /\ ~wrong'
  BY <1>0 DEF Watched
<1> QED  BY <1>3, <1>6, <1>7, <1>8, <1>9, <1>10, <1>11, <1>12

LEMMA RemovedStep ==
    ASSUME RoomInv, Narrow, NEW by, NEW e, M!Removed(by, e) PROVE RoomInv'
<1> USE DEF RoomInv
<1>0. /\ member' = member /\ stay' = stay /\ checked' = FALSE /\ slipped' = slipped
      /\ link' = link /\ wire' = wire /\ creating' = creating /\ nid' = nid
      /\ record' = record /\ moves' = moves
      /\ quiesced' = quiesced /\ deferred' = deferred /\ ask' = ask
  BY DEF M!Removed, M!platform, M!socketVars
<1>1. M!Hooked(by, e) /\ e.kind = "removed" /\ ~quiesced /\ reclaim = M!Idle
  BY DEF M!Removed
<1>2. /\ by \in {"task", "replayed"} /\ Heads(by, "removed", e.stay) /\ deferred = <<>>
      /\ by = "task" => tasks # <<>> /\ tasks[1].kind = "removed" /\ tasks[1].stay = e.stay
                        /\ replaying = <<>> /\ tasks[1].at = "held"
      /\ by = "replayed" => replaying # <<>> /\ replaying[1].kind = "removed"
                            /\ replaying[1].stay = e.stay
  BY <1>1, HookedIs DEF Heads
<1>3. /\ stay \in Nat /\ Ended \in Nat /\ Ended' = Ended /\ e.stay \in Nat /\ e.stay <= Ended
      /\ Owed(e.stay)
  <2>1. stay \in Nat /\ Ended \in Nat /\ Ended' = Ended
    BY <1>0, EndedNat DEF Ended
  <2>2. CASE by = "task"
    <3>1. 1 \in DOMAIN tasks
      BY <1>2, <2>2, TailAt DEF Types, Queues
    <3>2. tasks[1].stay \in Nat /\ tasks[1].stay <= Ended
      BY <1>2, <2>2, <3>1, StaysOfLines DEF Types, Lined, Known
    <3>3. HasEnd(tasks, e.stay)
      BY <1>2, <2>2, <3>1 DEF HasEnd
    <3> QED  BY <1>2, <2>1, <2>2, <3>2, <3>3 DEF Owed
  <2>3. CASE by = "replayed"
    <3>1. 1 \in DOMAIN replaying
      BY <1>2, <2>3, TailAt DEF Types, Queues
    <3>2. replaying[1].stay \in Nat /\ replaying[1].stay <= Ended
      BY <1>2, <2>3, <3>1, StaysOfLines DEF Types, Lined, Known
    <3>3. HasEnd(replaying, e.stay)
      BY <1>2, <2>3, <3>1 DEF HasEnd
    <3> QED  BY <1>2, <2>1, <2>3, <3>2, <3>3 DEF Owed
  <2> QED  BY <1>2, <2>2, <2>3
<1>4. CASE M!Takes(by, e.stay) /\ UNCHANGED <<jobs, M!serial, probe, replaying>>
  <2>1. /\ record # NoRecord /\ reclaim' = [by |-> by, id |-> record.id, gone |-> e.stay]
        /\ wrong' = (wrong \/ record.stay > e.stay) /\ jobs' = jobs /\ probe' = probe
        /\ replaying' = replaying /\ gen' = gen /\ early' = early /\ tasks' = tasks
    BY <1>4 DEF M!Takes, M!serial
  <2>2. record.stay <= e.stay /\ record.stay \in Nat /\ record.id \in Nat
    <3>1. record.stay \in Nat /\ record.id \in Nat
      BY <2>1 DEF Types, Holders, Counts
    <3>2. record.stay <= e.stay
      BY <1>3, <2>1 DEF Current
    <3> QED  BY <3>1, <3>2
  <2>3. ~wrong'
    <3>1. ~(record.stay > e.stay)
      BY <1>3, <2>2
    <3> QED  BY <2>1, <3>1
  <2>4. reclaim' \in Questions({"task", "replayed", "pass", "boot"})
    BY <1>2, <1>3, <2>1, <2>2 DEF Questions
  <2>5. Types'
    BY <1>0, <2>1, <2>3, <2>4 DEF Types, Flags, Counts, Queues, Holders
  <2>6. /\ Lined' /\ OneTurn' /\ \A n : Owed(n)' <=> Owed(n)
    BY <1>0, <2>1, EventsKept
  <2>7. Rests' /\ Asked'
    BY <1>0, <2>1 DEF Rests, Asked
  <2>8. Taken' /\ Probed'
    BY <1>0, <1>2, <1>3, <2>1, <2>2 DEF Taken, Probed
  <2>9. Current'
    BY <1>0, <2>6 DEF Current
  <2>10. Followed'
    <3>1. Owed(stay)' <=> Owed(stay)
      BY <1>0, <2>1 DEF Owed
    <3> QED  BY <1>0, <2>1, <3>1 DEF Followed
  <2>11. Watched'
    BY <1>0 DEF Watched
  <2> QED  BY <2>3, <2>5, <2>6, <2>7, <2>8, <2>9, <2>10, <2>11
<1>5. CASE record = NoRecord /\ M!CancelJobs /\ M!GoOn(by) /\ UNCHANGED <<reclaim, wrong>>
  <2>1. record = NoRecord /\ ~jobs' /\ jobs' \in BOOLEAN /\ reclaim' = reclaim /\ wrong' = wrong
    BY <1>5 DEF M!CancelJobs, M!NothingServed
  <2>2. /\ Lined' /\ OneTurn' /\ tasks' \in Seq(Turns) /\ replaying' \in Seq(Events)
        /\ gen' = gen /\ early' = early /\ probe' = probe
        /\ replaying' # <<>> => replaying # <<>>
        /\ \A m : Owed(m) <=> (Owed(m)' \/ ("removed" = "removed" /\ m = e.stay))
        /\ NoAdds(tasks) /\ NoAdds(replaying) =>
              NoAdds(tasks') /\ NoAdds(replaying') /\ "removed" # "added"
        /\ "removed" = "removed" /\ e.stay = stay =>
              NoAdds(wire') /\ NoAdds(tasks') /\ NoAdds(deferred') /\ NoAdds(replaying')
    BY <1>0, <1>2, <1>5, HeadPassed
  <2>3. Types'
    BY <1>0, <2>1, <2>2 DEF Types, Flags, Counts, Queues, Holders
  <2>4. Rests' /\ Asked'
    BY <1>0, <1>1, <1>2, <2>2 DEF Rests, Asked
  <2>5. Taken' /\ Probed'
    BY <1>0, <1>1, <1>3, <2>1, <2>2 DEF Taken, Probed
  <2>6. Current'
    BY <1>0, <2>1 DEF Current
  <2>7. Followed'
    <3> SUFFICES ASSUME ~member, slipped < stay, ~Owed(stay)'
                 PROVE  NoAdds(wire') /\ NoAdds(tasks') /\ NoAdds(deferred') /\ NoAdds(replaying')
      BY <1>0, <2>1 DEF Followed
    <3>1. CASE e.stay = stay
      BY <2>2, <3>1
    <3>2. CASE e.stay # stay
      <4>1. Owed(stay)' <=> Owed(stay)'
        OBVIOUS
      <4>2. ~Owed(stay)
        <5>1. PICK n : n = stay
          OBVIOUS
        <5>2. Owed(n)' <=> Owed(stay)'
          BY <1>0, <5>1 DEF Owed
        <5> QED  BY <2>2, <3>2, <5>1, <5>2
      <4> QED  BY <1>0, <2>2, <4>2 DEF Followed
    <3> QED  BY <3>1, <3>2
  <2>8. Watched' /\ ~wrong'
    BY <1>0, <2>1 DEF Watched
  <2> QED  BY <2>2, <2>3, <2>4, <2>5, <2>6, <2>7, <2>8
<1> QED  BY <1>4, <1>5 DEF M!Removed

\* The end of every stay is known by its number.
LEMMA OwedNat == ASSUME Types, Lined, NEW n, Owed(n) PROVE n \in 0 .. stay
<1>1. ASSUME NEW S, NEW s \in Seq(S), \A i \in DOMAIN s : s[i].stay \in Nat,
             Known(s, stay, Ended), HasEnd(s, n)
      PROVE  n \in 0 .. stay
  <2>1. PICK i \in DOMAIN s : s[i].stay = n
    BY <1>1 DEF HasEnd
  <2>2. n \in Nat /\ n <= stay
    BY <1>1, <2>1 DEF Known
  <2> QED  BY <2>2, EndedNat
<1>2. /\ wire \in Seq(Events) /\ tasks \in Seq(Turns) /\ deferred \in Seq(Events)
      /\ replaying \in Seq(Events)
  BY DEF Types, Queues
<1>3. /\ Known(wire, stay, Ended) /\ Known(tasks, stay, Ended) /\ Known(deferred, stay, Ended)
      /\ Known(replaying, stay, Ended)
  BY DEF Lined
<1>4. /\ \A i \in DOMAIN wire : wire[i].stay \in Nat
      /\ \A i \in DOMAIN tasks : tasks[i].stay \in Nat
      /\ \A i \in DOMAIN deferred : deferred[i].stay \in Nat
      /\ \A i \in DOMAIN replaying : replaying[i].stay \in Nat
  BY StaysOfLines DEF Types
<1>5. CASE HasEnd(wire, n)
  BY <1>1, <1>2, <1>3, <1>4, <1>5
<1>6. CASE HasEnd(tasks, n)
  BY <1>1, <1>2, <1>3, <1>4, <1>6
<1>7. CASE HasEnd(deferred, n)
  BY <1>1, <1>2, <1>3, <1>4, <1>7
<1>8. CASE HasEnd(replaying, n)
  BY <1>1, <1>2, <1>3, <1>4, <1>8
<1> QED  BY <1>5, <1>6, <1>7, <1>8 DEF Owed

\* Whoever waited for a reclamation goes on with it.
LEMMA ReclaimerIs ==
    ASSUME Types, Taken, Rests, reclaim # M!Idle
    PROVE  /\ reclaim.by \in {"task", "replayed", "pass", "boot"}
           /\ reclaim.by \in {"task", "replayed"} => Heads(reclaim.by, "removed", reclaim.gone)
           /\ reclaim.gone \in Nat
<1>1. reclaim \in Questions({"task", "replayed", "pass", "boot"})
  BY DEF Types, Holders
<1>2. reclaim.by \in {"task", "replayed", "pass", "boot"} /\ reclaim.gone \in Nat
  BY <1>1 DEF Questions
<1>3. reclaim.by = "task" => Heads(reclaim.by, "removed", reclaim.gone)
  BY DEF Taken, Heads
<1>4. reclaim.by = "replayed" => Heads(reclaim.by, "removed", reclaim.gone)
  BY DEF Taken, Heads, Rests
<1> QED  BY <1>2, <1>3, <1>4

\* What a reclamation leaves of the events when it is over.
LEMMA WentOn ==
    ASSUME Types, Lined, OneTurn, Taken, Rests, reclaim # M!Idle, M!GoOn(reclaim.by),
           UNCHANGED <<wire, deferred, stay, member>>
    PROVE  /\ Lined' /\ OneTurn' /\ tasks' \in Seq(Turns) /\ replaying' \in Seq(Events)
           /\ gen' = gen /\ early' = early /\ probe' \in {probe, M!Idle} /\ Ended' = Ended
           /\ replaying' # <<>> => replaying # <<>>
           /\ \A m : Owed(m)' => Owed(m)
           /\ ~Owed(stay)' /\ Owed(stay) => reclaim.gone = stay
           /\ NoAdds(tasks) /\ NoAdds(replaying) => NoAdds(tasks') /\ NoAdds(replaying')
           /\ ~Owed(stay)' /\ Owed(stay) =>
                 NoAdds(wire') /\ NoAdds(tasks') /\ NoAdds(deferred') /\ NoAdds(replaying')
<1>1. PICK n : n = stay
  OBVIOUS
<1>2. (Owed(n) <=> Owed(stay)) /\ (Owed(n)' <=> Owed(stay)')
  BY <1>1 DEF Owed
<1>3. CASE reclaim.by \in {"task", "replayed"}
  <2>1. PICK g : g = reclaim.gone
    OBVIOUS
  <2>2. PICK by : by = reclaim.by
    OBVIOUS
  <2>3. Heads(by, "removed", g) /\ M!GoOn(by)
    BY <1>3, <2>1, <2>2, ReclaimerIs
  <2>4. /\ Lined' /\ OneTurn' /\ tasks' \in Seq(Turns) /\ replaying' \in Seq(Events)
        /\ gen' = gen /\ early' = early /\ probe' = probe /\ Ended' = Ended
        /\ replaying' # <<>> => replaying # <<>>
        /\ \A m : Owed(m) <=> (Owed(m)' \/ ("removed" = "removed" /\ m = g))
        /\ NoAdds(tasks) /\ NoAdds(replaying) =>
              NoAdds(tasks') /\ NoAdds(replaying') /\ "removed" # "added"
        /\ "removed" = "removed" /\ g = stay =>
              NoAdds(wire') /\ NoAdds(tasks') /\ NoAdds(deferred') /\ NoAdds(replaying')
    BY <2>3, HeadPassed
  <2> QED  BY <1>1, <1>2, <2>1, <2>4
<1>4. CASE reclaim.by \in {"pass", "boot"}
  <2>1. /\ gen' = gen /\ early' = early /\ tasks' = tasks /\ replaying' = replaying
        /\ probe' = M!Idle
    BY <1>4 DEF M!GoOn, M!serial
  <2>2. Lined' /\ OneTurn' /\ Ended' = Ended /\ \A m : Owed(m)' <=> Owed(m)
    BY <2>1, EventsKept
  <2> QED  BY <1>1, <1>2, <2>1, <2>2 DEF Types, Queues
<1> QED  BY <1>3, <1>4, ReclaimerIs

LEMMA ReclaimedStep == ASSUME RoomInv, RoomBounds, M!Reclaimed PROVE RoomInv'
<1> USE DEF RoomInv
<1>0. /\ member' = member /\ stay' = stay
      /\ link' = link /\ wire' = wire /\ creating' = creating /\ nid' = nid
      /\ quiesced' = quiesced /\ deferred' = deferred /\ ask' = ask /\ wrong' = wrong
  BY DEF M!Reclaimed, M!platform, M!socketVars
<1>1. /\ reclaim # M!Idle /\ reclaim' = M!Idle /\ M!GoOn(reclaim.by)
      /\ checked' = (checked /\ reclaim.by = "pass" /\ record' = NoRecord)
  BY DEF M!Reclaimed
<1>2. /\ Lined' /\ OneTurn' /\ tasks' \in Seq(Turns) /\ replaying' \in Seq(Events)
      /\ gen' = gen /\ early' = early /\ probe' \in {probe, M!Idle} /\ Ended' = Ended
      /\ replaying' # <<>> => replaying # <<>>
      /\ \A m : Owed(m)' => Owed(m)
      /\ ~Owed(stay)' /\ Owed(stay) => reclaim.gone = stay
      /\ NoAdds(tasks) /\ NoAdds(replaying) => NoAdds(tasks') /\ NoAdds(replaying')
      /\ ~Owed(stay)' /\ Owed(stay) =>
            NoAdds(wire') /\ NoAdds(tasks') /\ NoAdds(deferred') /\ NoAdds(replaying')
  BY <1>0, <1>1, WentOn
<1>3. /\ record # NoRecord /\ reclaim.gone \in Nat /\ reclaim.gone <= Ended
      /\ stay \in Nat /\ Ended \in Nat /\ Ended <= stay
  BY <1>1, ReclaimerIs, EndedNat DEF Taken
<1>4. /\ M!Idle \in Questions({"task", "replayed", "pass", "boot"})
      /\ M!Idle \in Questions({"pass", "boot"}) /\ M!Idle.id = 0 /\ M!Idle.gone = 0
  BY DEF M!Idle, Questions
<1>5. probe' \in Questions({"pass", "boot"}) /\ probe'.id <= nid
  BY <1>2, <1>4 DEF Types, Holders, Counts
<1>6. Rests' /\ Asked'
  BY <1>0, <1>2 DEF Rests, Asked
<1>7. Taken'
  BY <1>1 DEF Taken
<1>8. Watched' /\ ~wrong' /\ checked' \in BOOLEAN
  BY <1>0, <1>1 DEF Watched, Types, Flags
<1>9. Queues'
  BY <1>0, <1>2 DEF Types, Queues
<1>10. CASE record' = NoRecord /\ jobs' = (jobs /\ ~M!NothingServed(TRUE)) /\ UNCHANGED <<slipped, moves>>
  <2>1. record' = NoRecord /\ jobs' = FALSE /\ slipped' = slipped /\ moves' = moves
    BY <1>10 DEF M!NothingServed
  <2>2. Flags' /\ Counts' /\ Holders'
    BY <1>0, <1>1, <1>2, <1>4, <1>5, <1>8, <2>1 DEF Types, Flags, Counts, Holders
  <2>3. Probed' /\ Current'
    BY <1>2, <1>3, <1>4, <2>1 DEF Probed, Current
  <2>4. Followed'
    BY <1>0, <1>2, <2>1 DEF Followed
  <2> QED  BY <1>2, <1>6, <1>7, <1>8, <1>9, <2>2, <2>3, <2>4 DEF Types
<1>11. CASE /\ M!Fault /\ record' = [record EXCEPT !.dormant = TRUE] /\ UNCHANGED jobs
            /\ slipped' = M!Latest({slipped, reclaim.gone})
  <2>1. moves' \in 0 .. MaxMoves
    BY <1>11, FaultCounts
  <2>2. record \in [id : 1 .. nid, stay : 1 .. stay, dormant : BOOLEAN]
    BY <1>3 DEF Types, Holders
  <2>3. /\ record' \in [id : 1 .. nid, stay : 1 .. stay, dormant : BOOLEAN]
        /\ record'.id = record.id /\ record'.stay = record.stay
    BY <1>11, <2>2
  <2>4. slipped' \in 0 .. stay /\ slipped <= slipped' /\ reclaim.gone <= slipped'
    <3> DEFINE S == {slipped, reclaim.gone}
    <3>1. S \subseteq 0 .. stay /\ S # {}
      BY <1>3 DEF Types, Counts
    <3>2. slipped' = M!Latest(S) /\ slipped \in S /\ reclaim.gone \in S
      BY <1>11
    <3> HIDE DEF S
    <3>3. M!Latest(S) \in S /\ \A u \in S : u <= M!Latest(S)
      BY <1>3, <3>1, LatestOf
    <3> QED  BY <3>1, <3>2, <3>3
  <2>5. Flags'
    BY <1>0, <1>2, <1>8, <1>11 DEF Types, Flags
  <2>6. Counts'
    BY <1>0, <1>2, <2>1, <2>4 DEF Types, Counts
  <2>7. Holders'
    BY <1>0, <1>1, <1>4, <1>5, <2>3 DEF Types, Holders
  <2>8. Probed'
    BY <1>2, <1>3, <1>4, <2>3 DEF Probed
  <2>9. Current'
    BY <1>2, <1>3, <2>3 DEF Current
  <2>10. Followed'
    <3> SUFFICES ASSUME ~member, slipped' < stay, ~Owed(stay)' PROVE FALSE
      BY <1>0 DEF Followed
    <3>1. slipped \in Nat /\ slipped < stay /\ reclaim.gone # stay
      BY <1>3, <2>4 DEF Types, Counts
    <3>2. ~Owed(stay)
      BY <1>2, <3>1
    <3> QED  BY <1>3, <3>1, <3>2 DEF Followed
  <2> QED  BY <1>2, <1>6, <1>7, <1>8, <1>9, <2>5, <2>6, <2>7, <2>8, <2>9, <2>10 DEF Types
<1> QED  BY <1>10, <1>11 DEF M!Reclaimed

-----------------------------------------------------------------------------
(* The record.                                                              *)

LEMMA CreatedStep == ASSUME RoomInv, Narrow, M!Created PROVE RoomInv'
<1> USE DEF RoomInv
<1>0. /\ member' = member /\ stay' = stay /\ link' = link /\ wire' = wire
      /\ gen' = gen /\ early' = early /\ tasks' = tasks /\ jobs' = jobs /\ reclaim' = reclaim
      /\ quiesced' = quiesced /\ deferred' = deferred /\ replaying' = replaying
      /\ probe' = probe /\ ask' = ask /\ moves' = moves /\ wrong' = wrong
  BY DEF M!Created, M!platform, M!socketVars, M!serial, M!rest, M!questions
<1>1. /\ creating > 0 /\ reclaim = M!Idle /\ creating' = 0 /\ checked' = FALSE
      /\ ~\E s \in M!Overdue : s < creating
      /\ slipped' = IF record = NoRecord /\ ~member /\ stay \notin M!Overdue THEN stay ELSE slipped
  BY DEF M!Created, Narrow
<1>2. \/ /\ record' = [id |-> nid + 1, stay |-> creating, dormant |-> FALSE]
         /\ nid' = nid + 1
      \/ record' = record /\ nid' = nid
  BY DEF M!Created, M!NewRecord
<1>3. /\ creating \in 1 .. stay /\ nid \in Nat /\ stay \in Nat
      /\ probe.id \in Nat /\ probe.id <= nid
  BY <1>1 DEF Types, Counts, Holders, Questions
<1>4. /\ Lined' /\ OneTurn' /\ Ended' = Ended /\ \A n : Owed(n)' <=> Owed(n)
  BY <1>0, EventsKept
<1>5. \A n : Owed(n) => creating <= n
  <2> SUFFICES ASSUME NEW n, Owed(n) PROVE creating <= n
    OBVIOUS
  <2>1. n \in 0 .. stay
    BY OwedNat
  <2>2. ~(n < creating)
    BY <1>1, OverdueIs
  <2> QED  BY <1>3, <2>1, <2>2
<1>6. Types'
  <2>1. Flags' /\ Queues'
    BY <1>0, <1>1 DEF Types, Flags, Queues
  <2>2. Counts'
    BY <1>0, <1>1, <1>2, <1>3 DEF Types, Counts
  <2>3. record' # NoRecord => record' \in [id : 1 .. nid', stay : 1 .. stay, dormant : BOOLEAN]
    <3>1. CASE /\ record' = [id |-> nid + 1, stay |-> creating, dormant |-> FALSE]
               /\ nid' = nid + 1
      BY <1>3, <3>1
    <3>2. CASE record' = record /\ nid' = nid
      BY <3>2 DEF Types, Holders
    <3> QED  BY <1>2, <3>1, <3>2
  <2>4. probe.id <= nid'
    BY <1>2, <1>3
  <2>5. Holders'
    BY <1>0, <2>3, <2>4 DEF Types, Holders
  <2> QED  BY <2>1, <2>2, <2>5 DEF Types
<1>7. Rests' /\ Asked' /\ Taken'
  BY <1>0, <1>1 DEF Rests, Asked, Taken
<1>8. Probed'
  <2>1. CASE record' = [id |-> nid + 1, stay |-> creating, dormant |-> FALSE]
    <3>1. record'.id # probe.id
      BY <1>3, <2>1
    <3> QED  BY <1>0, <1>4, <3>1 DEF Probed
  <2>2. CASE record' = record
    BY <1>0, <1>4, <2>2 DEF Probed
  <2> QED  BY <1>2, <2>1, <2>2
<1>9. Current'
  <2>1. record' # NoRecord => record'.stay = creating \/ (record # NoRecord /\ record' = record)
    BY <1>2
  <2> QED  BY <1>4, <1>5, <2>1 DEF Current
<1>10. Followed'
  <2> SUFFICES ASSUME ~member, slipped' < stay, ~Owed(stay)' PROVE FALSE
    BY <1>0 DEF Followed
  <2>1. ~Owed(stay) /\ stay \notin M!Overdue
    <3>1. Owed(stay)' <=> Owed(stay)
      BY <1>0 DEF Owed
    <3> QED  BY <3>1, OverdueIs
  <2>2. record # NoRecord /\ slipped' = slipped
    BY <1>1, <1>3, <2>1
  <2> QED  BY <2>1, <2>2 DEF Followed
<1>11. Watched' /\ ~wrong'
  BY <1>0, <1>1 DEF Watched
<1> QED  BY <1>4, <1>6, <1>7, <1>8, <1>9, <1>10, <1>11

LEMMA TurnStep == ASSUME RoomInv, RoomBounds, M!Turn PROVE RoomInv'
<1> USE DEF RoomInv
<1>0. /\ member' = member /\ stay' = stay /\ link' = link /\ wire' = wire /\ nid' = nid
      /\ gen' = gen /\ early' = early /\ tasks' = tasks /\ jobs' = jobs /\ reclaim' = reclaim
      /\ quiesced' = quiesced /\ deferred' = deferred /\ replaying' = replaying
      /\ probe' = probe /\ ask' = ask /\ wrong' = wrong /\ creating' = creating
      /\ slipped' = slipped
  BY DEF M!Turn, M!platform, M!socketVars, M!serial, M!rest, M!questions
<1>1. /\ record # NoRecord /\ reclaim = M!Idle /\ checked' = FALSE
      /\ record' = [record EXCEPT !.dormant = ~@] /\ moves' \in 0 .. MaxMoves
  BY FaultCounts DEF M!Turn
<1>2. record \in [id : 1 .. nid, stay : 1 .. stay, dormant : BOOLEAN]
  BY <1>1 DEF Types, Holders
<1>3. /\ record' \in [id : 1 .. nid, stay : 1 .. stay, dormant : BOOLEAN]
      /\ record'.id = record.id /\ record'.stay = record.stay
  BY <1>1, <1>2
<1>4. /\ Lined' /\ OneTurn' /\ Ended' = Ended /\ \A n : Owed(n)' <=> Owed(n)
  BY <1>0, EventsKept
<1>5. Types'
  BY <1>0, <1>1, <1>3 DEF Types, Flags, Counts, Queues, Holders
<1>6. Rests' /\ Asked' /\ Taken'
  BY <1>0, <1>1 DEF Rests, Asked, Taken
<1>7. Probed' /\ Current'
  BY <1>0, <1>1, <1>3, <1>4 DEF Probed, Current
<1>8. Followed'
  <2>1. Owed(stay)' <=> Owed(stay)
    BY <1>0 DEF Owed
  <2> QED  BY <1>0, <1>1, <2>1 DEF Followed
<1>9. Watched' /\ ~wrong'
  BY <1>0, <1>1 DEF Watched
<1> QED  BY <1>4, <1>5, <1>6, <1>7, <1>8, <1>9

LEMMA ExpireStep == ASSUME RoomInv, RoomBounds, M!Expire PROVE RoomInv'
<1> USE DEF RoomInv
<1>0. /\ member' = member /\ stay' = stay /\ link' = link /\ wire' = wire /\ nid' = nid
      /\ gen' = gen /\ early' = early /\ tasks' = tasks /\ jobs' = jobs /\ reclaim' = reclaim
      /\ quiesced' = quiesced /\ deferred' = deferred /\ replaying' = replaying
      /\ probe' = probe /\ ask' = ask /\ wrong' = wrong /\ creating' = creating
      /\ slipped' = slipped
  BY DEF M!Expire, M!platform, M!socketVars, M!serial, M!rest, M!questions
<1>1. /\ record # NoRecord /\ reclaim = M!Idle /\ checked' = FALSE /\ record' = NoRecord
      /\ moves' \in 0 .. MaxMoves
  BY FaultCounts DEF M!Expire
<1>2. /\ Lined' /\ OneTurn' /\ Ended' = Ended /\ \A n : Owed(n)' <=> Owed(n)
  BY <1>0, EventsKept
<1>3. Types'
  BY <1>0, <1>1 DEF Types, Flags, Counts, Queues, Holders
<1>4. Rests' /\ Asked' /\ Taken'
  BY <1>0, <1>1 DEF Rests, Asked, Taken
<1>5. Probed' /\ Current'
  BY <1>0, <1>1, <1>2 DEF Probed, Current
<1>6. Followed'
  <2>1. Owed(stay)' <=> Owed(stay)
    BY <1>0 DEF Owed
  <2> QED  BY <1>0, <1>1, <2>1 DEF Followed
<1>7. Watched' /\ ~wrong'
  BY <1>0, <1>1 DEF Watched
<1> QED  BY <1>2, <1>3, <1>4, <1>5, <1>6, <1>7

LEMMA ScheduleStep == ASSUME RoomInv, M!Schedule PROVE RoomInv'
<1> USE DEF RoomInv
<1>0. /\ member' = member /\ stay' = stay /\ link' = link /\ wire' = wire /\ nid' = nid
      /\ gen' = gen /\ early' = early /\ tasks' = tasks /\ reclaim' = reclaim
      /\ quiesced' = quiesced /\ deferred' = deferred /\ replaying' = replaying
      /\ probe' = probe /\ ask' = ask /\ wrong' = wrong /\ creating' = creating
      /\ slipped' = slipped /\ moves' = moves /\ record' = record
  BY DEF M!Schedule, M!platform, M!socketVars, M!serial, M!rest, M!questions
<1>1. record # NoRecord /\ jobs' = TRUE /\ checked' = FALSE
  BY DEF M!Schedule
<1>2. /\ Lined' /\ OneTurn' /\ Ended' = Ended /\ Ended \in Nat /\ \A n : Owed(n)' <=> Owed(n)
  BY <1>0, EventsKept
<1>3. Types'
  BY <1>0, <1>1 DEF Types, Flags, Counts, Queues, Holders
<1>4. Rests' /\ Asked'
  BY <1>0 DEF Rests, Asked
<1>5. Taken' /\ Probed'
  BY <1>0, <1>2, HoldersKept
<1>6. Current'
  BY <1>0, <1>2 DEF Current
<1>7. Followed'
  <2>1. Owed(stay)' <=> Owed(stay)
    BY <1>0 DEF Owed
  <2> QED  BY <1>0, <1>1, <2>1 DEF Followed
<1>8. Watched' /\ ~wrong'
  BY <1>0, <1>1 DEF Watched
<1> QED  BY <1>2, <1>3, <1>4, <1>5, <1>6, <1>7, <1>8

-----------------------------------------------------------------------------
(* A reload, the reconciliation, a crash and the boot.                      *)

\* Nobody asks about no record.
LEMMA NobodyIs ==
    /\ M!Idle.by = "nobody" /\ M!Idle.id = 0 /\ M!Idle.gone = 0
    /\ M!Idle \in Questions({"task", "replayed", "pass", "boot"})
    /\ M!Idle \in Questions({"pass", "boot"}) /\ M!Idle \in Questions({"replay"})
  BY DEF M!Idle, Questions

LEMMA QuiesceStep == ASSUME RoomInv, RoomBounds, M!Quiesce PROVE RoomInv'
<1> USE DEF RoomInv
<1>0. /\ member' = member /\ stay' = stay /\ link' = link /\ wire' = wire /\ nid' = nid
      /\ gen' = gen /\ early' = early /\ tasks' = tasks /\ jobs' = jobs
      /\ deferred' = deferred /\ replaying' = replaying /\ record' = record
      /\ ask' = ask /\ wrong' = wrong /\ creating' = creating /\ slipped' = slipped
  BY DEF M!Quiesce, M!platform, M!socketVars, M!serial
<1>1. /\ replaying = <<>> /\ probe.by # "boot" /\ quiesced' = TRUE /\ moves' \in 0 .. MaxMoves
      /\ probe' = M!Idle /\ checked' = (checked /\ probe = M!Idle)
      /\ reclaim' = IF reclaim.by = "pass" THEN M!Idle ELSE reclaim
  BY FaultCounts DEF M!Quiesce
<1>2. /\ Lined' /\ OneTurn' /\ Ended' = Ended /\ Ended \in Nat /\ \A n : Owed(n)' <=> Owed(n)
  BY <1>0, EventsKept
<1>3. Types'
  <2>1. Flags' /\ Counts' /\ Queues'
    BY <1>0, <1>1 DEF Types, Flags, Counts, Queues
  <2>2. probe'.id <= nid
    BY <1>1, NobodyIs DEF Types, Counts
  <2>3. Holders'
    BY <1>0, <1>1, <2>2, NobodyIs DEF Types, Holders
  <2> QED  BY <2>1, <2>3 DEF Types
<1>4. Rests' /\ Asked'
  BY <1>0, <1>1 DEF Rests, Asked
<1>5. Taken'
  <2> SUFFICES ASSUME reclaim' # M!Idle PROVE Taken'
    BY DEF Taken
  <2>1. reclaim' = reclaim /\ reclaim.by # "pass"
    BY <1>1
  <2>2. reclaim.by # "boot"
    BY <1>1, <2>1 DEF Taken
  <2> QED  BY <1>0, <1>2, <2>1, <2>2 DEF Taken
<1>6. Probed'
  BY <1>1, <1>2, NobodyIs DEF Probed
<1>7. Current'
  BY <1>0, <1>2 DEF Current
<1>8. Followed'
  <2>1. Owed(stay)' <=> Owed(stay)
    BY <1>0 DEF Owed
  <2> QED  BY <1>0, <2>1 DEF Followed
<1>9. Watched' /\ ~wrong'
  BY <1>0, <1>1, NobodyIs DEF Watched
<1> QED  BY <1>2, <1>3, <1>4, <1>5, <1>6, <1>7, <1>8, <1>9

LEMMA RearmStep == ASSUME RoomInv, M!Rearm PROVE RoomInv'
<1> USE DEF RoomInv
<1>0. /\ member' = member /\ stay' = stay /\ link' = link /\ wire' = wire /\ nid' = nid
      /\ gen' = gen /\ early' = early /\ tasks' = tasks /\ jobs' = jobs /\ reclaim' = reclaim
      /\ record' = record /\ probe' = probe /\ moves' = moves /\ checked' = checked
      /\ ask' = ask /\ wrong' = wrong /\ creating' = creating /\ slipped' = slipped
  BY DEF M!Rearm, M!platform, M!socketVars, M!serial, M!questions
<1>1. /\ quiesced /\ reclaim = M!Idle
      /\ quiesced' = FALSE /\ replaying' = deferred /\ deferred' = <<>>
  BY DEF M!Rearm
<1>2. replaying = <<>>
  BY <1>1 DEF Rests
<1>3. Lined'
  BY <1>0, <1>1, LinesRearm
<1>4. OneTurn' /\ Ended' = Ended
  BY <1>0 DEF OneTurn, Ended
<1>5. \A n : ~HasEnd(replaying, n) /\ ~HasEnd(deferred', n)
  BY <1>1, <1>2, EmptyAt
<1>6. \A n : Owed(n)' <=> Owed(n)
  BY <1>0, <1>1, <1>5 DEF Owed
<1>7. Types'
  BY <1>0, <1>1, <1>2 DEF Types, Flags, Counts, Queues, Holders
<1>8. Rests' /\ Asked' /\ Taken'
  BY <1>0, <1>1 DEF Rests, Asked, Taken
<1>9. Probed' /\ Current'
  BY <1>0, <1>4, <1>6 DEF Probed, Current
<1>10. Followed'
  <2>1. Owed(stay)' <=> Owed(stay)
    BY <1>0, <1>1, <1>5 DEF Owed
  <2>2. NoAdds(deferred')
    BY <1>1, EmptyAt
  <2> QED  BY <1>0, <1>1, <2>1, <2>2 DEF Followed
<1>11. Watched' /\ ~wrong'
  BY <1>0 DEF Watched
<1> QED  BY <1>3, <1>4, <1>7, <1>8, <1>9, <1>10, <1>11

\* The question of what has become of the record's room, answered as it is now.
LEMMA QuestionIs ==
    ASSUME Types, record # NoRecord, NEW by \in {"pass", "boot"}, NEW q,
           q = [by |-> by, id |-> record.id, gone |-> IF member THEN 0 ELSE stay]
    PROVE  /\ q \in Questions({"pass", "boot"}) /\ q.id <= nid /\ q.gone <= Ended
           /\ q.gone > 0 => record.stay <= q.gone
           /\ q.by = by /\ q.id = record.id /\ (~member => q.gone = stay)
<1>1. /\ record \in [id : 1 .. nid, stay : 1 .. stay, dormant : BOOLEAN]
      /\ nid \in Nat /\ stay \in Nat /\ member \in BOOLEAN /\ (member => stay > 0)
  BY DEF Types, Flags, Counts, Holders
<1>2. record.id \in Nat /\ record.id <= nid /\ record.stay \in Nat /\ record.stay <= stay
  BY <1>1
<1>3. CASE member
  <2>1. q = [by |-> by, id |-> record.id, gone |-> 0]
    BY <1>3
  <2> QED  BY <1>1, <1>2, <1>3, <2>1 DEF Questions, Ended
<1>4. CASE ~member
  <2>1. q = [by |-> by, id |-> record.id, gone |-> stay]
    BY <1>4
  <2> QED  BY <1>1, <1>2, <1>4, <2>1 DEF Questions, Ended
<1> QED  BY <1>1, <1>3, <1>4

LEMMA SnapshotStep == ASSUME RoomInv, M!Snapshot PROVE RoomInv'
<1> USE DEF RoomInv
<1>0. /\ member' = member /\ stay' = stay /\ link' = link /\ wire' = wire /\ nid' = nid
      /\ gen' = gen /\ early' = early /\ tasks' = tasks /\ jobs' = jobs /\ reclaim' = reclaim
      /\ quiesced' = quiesced /\ deferred' = deferred /\ replaying' = replaying
      /\ record' = record /\ moves' = moves
      /\ ask' = ask /\ wrong' = wrong /\ creating' = creating /\ slipped' = slipped
  BY DEF M!Snapshot, M!platform, M!socketVars, M!serial, M!rest
<1>1. /\ record # NoRecord /\ probe = M!Idle /\ checked' = TRUE
      /\ probe' = [by |-> "pass", id |-> record.id, gone |-> IF member THEN 0 ELSE stay]
  BY DEF M!Snapshot
<1>2. /\ probe' \in Questions({"pass", "boot"}) /\ probe'.id <= nid /\ probe'.gone <= Ended
      /\ probe'.gone > 0 => record.stay <= probe'.gone
      /\ probe'.by = "pass" /\ probe'.id = record.id /\ (~member => probe'.gone = stay)
  BY <1>1, QuestionIs
<1>3. /\ Lined' /\ OneTurn' /\ Ended' = Ended /\ \A n : Owed(n)' <=> Owed(n)
  BY <1>0, EventsKept
<1>4. Types'
  <2>1. Flags' /\ Counts' /\ Queues'
    BY <1>0, <1>1 DEF Types, Flags, Counts, Queues
  <2>2. Holders'
    BY <1>0, <1>2 DEF Types, Holders
  <2> QED  BY <2>1, <2>2 DEF Types
<1>5. Rests' /\ Asked'
  BY <1>0 DEF Rests, Asked
<1>6. Taken'
  BY <1>0, <1>1, <1>3, NobodyIs DEF Taken
<1>7. Probed' /\ Current'
  BY <1>0, <1>2, <1>3 DEF Probed, Current
<1>8. Followed'
  <2>1. Owed(stay)' <=> Owed(stay)
    BY <1>0 DEF Owed
  <2> QED  BY <1>0, <2>1 DEF Followed
<1>9. Watched' /\ ~wrong'
  BY <1>0, <1>2 DEF Watched
<1> QED  BY <1>3, <1>4, <1>5, <1>6, <1>7, <1>8, <1>9

\* The record that the answer is about is taken: it is of the stay that is over, or of one
\* before.
LEMMA TakenRight ==
    ASSUME RoomInv, NEW by \in {"pass", "boot"}, probe.by = by, probe.gone > 0, M!Same,
           M!Takes(by, probe.gone),
           UNCHANGED <<record, probe, tasks, replaying, deferred, member, stay>>
    PROVE  /\ wrong' = FALSE /\ reclaim' \in Questions({"task", "replayed", "pass", "boot"})
           /\ Taken'
<1> USE DEF RoomInv
<1>1. /\ record # NoRecord /\ record.id = probe.id
      /\ reclaim' = [by |-> by, id |-> record.id, gone |-> probe.gone]
      /\ wrong' = (wrong \/ record.stay > probe.gone)
  BY DEF M!Takes, M!Same
<1>2. record.stay <= probe.gone /\ probe.gone <= Ended /\ Ended' = Ended
  BY <1>1 DEF Probed, Ended
<1>3. record.id \in Nat /\ record.stay \in Nat /\ probe.gone \in Nat
  BY <1>1 DEF Types, Holders, Counts, Questions
<1>4. wrong' = FALSE
  <2>1. ~(record.stay > probe.gone)
    BY <1>2, <1>3
  <2> QED  BY <1>1, <2>1
<1>5. reclaim' \in Questions({"task", "replayed", "pass", "boot"})
  BY <1>1, <1>3 DEF Questions
<1>6. Taken'
  BY <1>1, <1>2 DEF Taken
<1> QED  BY <1>4, <1>5, <1>6

LEMMA ReconcileStep == ASSUME RoomInv, RoomBounds, M!Reconcile PROVE RoomInv'
<1> USE DEF RoomInv
<1>0. /\ member' = member /\ stay' = stay /\ link' = link /\ wire' = wire /\ nid' = nid
      /\ gen' = gen /\ early' = early /\ tasks' = tasks /\ jobs' = jobs
      /\ quiesced' = quiesced /\ deferred' = deferred /\ replaying' = replaying
      /\ record' = record
      /\ ask' = ask /\ creating' = creating /\ slipped' = slipped
  BY DEF M!Reconcile, M!platform, M!socketVars, M!serial, M!rest
<1>1. probe.by = "pass" /\ reclaim = M!Idle
  BY DEF M!Reconcile
<1>2. /\ Lined' /\ OneTurn' /\ Ended' = Ended /\ Ended \in Nat /\ \A n : Owed(n)' <=> Owed(n)
  BY <1>0, EventsKept
<1>3. moves' \in 0 .. MaxMoves
  BY FaultCounts DEF M!Reconcile, Types, Counts
<1>4. checked' = checked \/ checked' = FALSE
  BY DEF M!Reconcile
<1>5. /\ reclaim' \in Questions({"task", "replayed", "pass", "boot"}) /\ wrong' = FALSE /\ Taken'
      /\ probe' \in {probe, M!Idle}
      /\ checked' => \/ member \/ record = NoRecord \/ ~record.dormant
                     \/ probe'.by = "pass" /\ probe'.id = record.id /\ probe'.gone = stay
  <2>1. CASE /\ probe.gone > 0 /\ M!Same /\ record.dormant /\ M!Takes("pass", probe.gone)
             /\ UNCHANGED <<probe, moves, checked>>
    <3>1. wrong' = FALSE /\ reclaim' \in Questions({"task", "replayed", "pass", "boot"}) /\ Taken'
      BY <1>0, <1>1, <2>1, TakenRight
    <3> QED  BY <2>1, <3>1 DEF Watched
  <2>2. CASE /\ probe.gone = 0 \/ ~(M!Same /\ record.dormant)
             /\ probe' = M!Idle /\ UNCHANGED <<reclaim, wrong, moves, checked>>
    <3>1. wrong' = FALSE /\ reclaim' \in Questions({"task", "replayed", "pass", "boot"}) /\ Taken'
      BY <1>1, <2>2, NobodyIs DEF Taken
    <3>2. ASSUME checked, ~member, record # NoRecord, record.dormant PROVE FALSE
      <4>1. probe.id = record.id /\ probe.gone = stay
        BY <3>2 DEF Watched
      <4>2. stay # 0
        BY <3>2 DEF Types, Holders, Counts
      <4> QED  BY <2>2, <3>2, <4>1, <4>2 DEF M!Same
    <3> QED  BY <2>2, <3>1, <3>2 DEF Types, Flags
  <2>3. CASE /\ M!Fault /\ probe' = M!Idle /\ checked' = FALSE /\ UNCHANGED <<reclaim, wrong>>
    BY <1>1, <2>3, NobodyIs DEF Taken
  <2> QED  BY <2>1, <2>2, <2>3 DEF M!Reconcile
<1>6. probe' \in Questions({"pass", "boot"}) /\ probe'.id <= nid
  BY <1>5, NobodyIs DEF Types, Holders, Counts
<1>7. Types'
  <2>1. Flags' /\ Counts' /\ Queues'
    BY <1>0, <1>3, <1>4, <1>5 DEF Types, Flags, Counts, Queues
  <2>2. Holders'
    BY <1>0, <1>5, <1>6 DEF Types, Holders
  <2> QED  BY <2>1, <2>2 DEF Types
<1>8. Rests' /\ Asked'
  BY <1>0 DEF Rests, Asked
<1>9. Probed' /\ Current'
  BY <1>0, <1>2, <1>5, NobodyIs DEF Probed, Current
<1>10. Followed'
  <2>1. Owed(stay)' <=> Owed(stay)
    BY <1>0 DEF Owed
  <2> QED  BY <1>0, <2>1 DEF Followed
<1>11. Watched' /\ ~wrong'
  BY <1>0, <1>5 DEF Watched
<1> QED  BY <1>2, <1>5, <1>7, <1>8, <1>9, <1>10, <1>11

LEMMA CrashStep == ASSUME RoomInv, RoomBounds, M!Crash PROVE RoomInv'
<1> USE DEF RoomInv
<1>0. /\ member' = member /\ stay' = stay /\ early' = early /\ record' = record
      /\ nid' = nid /\ jobs' = jobs /\ wrong' = wrong
  BY DEF M!Crash, M!platform
<1> DEFINE S == {slipped, reclaim.gone} \cup M!Overdue
<1>1. /\ link' = TRUE /\ wire' = <<>> /\ gen' = 0 /\ tasks' = <<>> /\ reclaim' = M!Idle
      /\ creating' = 0 /\ ask' = M!Idle /\ quiesced' = FALSE /\ deferred' = <<>>
      /\ replaying' = <<>> /\ checked' = FALSE /\ moves' \in 0 .. MaxMoves
      /\ slipped' = M!Latest(S)
  BY FaultCounts DEF M!Crash
<1>2. \/ /\ record # NoRecord
         /\ probe' = [by |-> "boot", id |-> record.id, gone |-> IF member THEN 0 ELSE stay]
      \/ probe' = M!Idle
  BY DEF M!Crash
<1>3. stay \in Nat /\ Ended' = Ended /\ Ended \in Nat /\ Ended <= stay /\ nid \in Nat
  BY <1>0, EndedNat DEF Ended, Types, Counts
<1>4. slipped' \in 0 .. stay /\ slipped <= slipped' /\ (Owed(stay) => slipped' = stay)
  <2>1. slipped \in 0 .. stay /\ reclaim.gone \in 0 .. stay
    <3>1. reclaim.gone \in Nat
      BY DEF Types, Holders, Questions
    <3>2. reclaim.gone <= stay
      BY <1>3, <3>1, NobodyIs DEF Taken
    <3> QED  BY <1>3, <3>1, <3>2 DEF Types, Counts
  <2>2. \A n \in M!Overdue : n \in 0 .. stay
    BY OverdueIs, OwedNat
  <2>3. S \subseteq 0 .. stay /\ S # {} /\ slipped \in S
    BY <2>1, <2>2
  <2>4. Owed(stay) => stay \in S
    BY OverdueIs
  <2> HIDE DEF S
  <2>5. slipped' \in S /\ \A u \in S : u <= slipped'
    BY <1>1, <1>3, <2>3, LatestOf
  <2> QED  BY <1>3, <2>3, <2>4, <2>5
<1>5. Lined'
  BY <1>0, <1>1, LinesCut
<1>6. \A n : ~Owed(n)'
  BY <1>1, EmptyAt DEF Owed
<1>7. /\ probe' \in Questions({"pass", "boot"}) /\ probe'.id <= nid /\ probe'.gone <= Ended
      /\ probe'.gone > 0 /\ record # NoRecord => record.stay <= probe'.gone
  <2>1. CASE /\ record # NoRecord
             /\ probe' = [by |-> "boot", id |-> record.id, gone |-> IF member THEN 0 ELSE stay]
    BY <2>1, QuestionIs
  <2>2. CASE probe' = M!Idle
    BY <1>3, <2>2, NobodyIs
  <2> QED  BY <1>2, <2>1, <2>2
<1>8. Types'
  <2>1. Flags'
    BY <1>0, <1>1 DEF Types, Flags
  <2>2. Counts'
    BY <1>0, <1>1, <1>3, <1>4 DEF Types, Counts
  <2>3. Queues'
    BY <1>1 DEF Types, Queues
  <2>4. Holders'
    BY <1>0, <1>1, <1>7, NobodyIs DEF Types, Holders
  <2> QED  BY <2>1, <2>2, <2>3, <2>4 DEF Types
<1>9. OneTurn'
  BY <1>1, EmptyAt DEF OneTurn
<1>10. Rests' /\ Asked' /\ Taken'
  BY <1>1, NobodyIs DEF Rests, Asked, Taken
<1>11. Probed' /\ Current'
  BY <1>0, <1>3, <1>6, <1>7 DEF Probed, Current
<1>12. Followed'
  <2> SUFFICES ASSUME ~member, slipped' < stay
               PROVE  /\ record = NoRecord /\ ~jobs
                      /\ NoAdds(wire') /\ NoAdds(tasks') /\ NoAdds(deferred') /\ NoAdds(replaying')
    BY <1>0 DEF Followed
  <2>1. slipped < stay /\ ~Owed(stay)
    BY <1>3, <1>4 DEF Types, Counts
  <2>2. record = NoRecord /\ ~jobs
    BY <2>1 DEF Followed
  <2> QED  BY <1>1, <2>2, EmptyAt
<1>13. Watched' /\ ~wrong'
  BY <1>0, <1>1 DEF Watched
<1> QED  BY <1>5, <1>8, <1>9, <1>10, <1>11, <1>12, <1>13

LEMMA ServedStep == ASSUME RoomInv, RoomBounds, M!Served PROVE RoomInv'
<1> USE DEF RoomInv
<1>0. /\ member' = member /\ stay' = stay /\ link' = link /\ wire' = wire /\ nid' = nid
      /\ gen' = gen /\ early' = early /\ tasks' = tasks
      /\ quiesced' = quiesced /\ deferred' = deferred /\ replaying' = replaying
      /\ record' = record /\ checked' = checked
      /\ ask' = ask /\ creating' = creating /\ slipped' = slipped
  BY DEF M!Served, M!platform, M!socketVars, M!serial, M!rest
<1>1. probe.by = "boot" /\ reclaim = M!Idle
  BY DEF M!Served
<1>2. /\ Lined' /\ OneTurn' /\ Ended' = Ended /\ Ended \in Nat /\ \A n : Owed(n)' <=> Owed(n)
  BY <1>0, EventsKept
<1>3. moves' \in 0 .. MaxMoves
  BY FaultCounts DEF M!Served, Types, Counts
<1>4. jobs' \in BOOLEAN /\ (jobs' => jobs)
  <2>1. jobs' = jobs \/ M!CancelJobs
    BY DEF M!Served
  <2>2. jobs \in BOOLEAN
    BY DEF Types, Flags
  <2>3. M!CancelJobs => jobs' = (jobs /\ ~(FALSE \/ record = NoRecord))
    BY DEF M!CancelJobs, M!NothingServed
  <2>4. CASE jobs
    BY <2>1, <2>2, <2>3, <2>4, Zenon
  <2>5. CASE jobs = FALSE
    BY <2>1, <2>3, <2>5, Zenon
  <2> QED  BY <2>2, <2>4, <2>5, Zenon
<1>5. /\ reclaim' \in Questions({"task", "replayed", "pass", "boot"}) /\ wrong' = FALSE /\ Taken'
      /\ probe' \in {probe, M!Idle}
  <2>1. CASE /\ probe.gone > 0 /\ M!Same /\ M!Takes("boot", probe.gone)
             /\ UNCHANGED <<jobs, probe, moves>>
    <3>1. wrong' = FALSE /\ reclaim' \in Questions({"task", "replayed", "pass", "boot"}) /\ Taken'
      BY <1>0, <1>1, <2>1, TakenRight
    <3> QED  BY <2>1, <3>1
  <2>2. CASE probe' = M!Idle /\ UNCHANGED <<reclaim, wrong>>
    BY <1>1, <2>2, NobodyIs DEF Taken
  <2> QED  BY <2>1, <2>2 DEF M!Served
<1>6. probe' \in Questions({"pass", "boot"}) /\ probe'.id <= nid
  BY <1>5, NobodyIs DEF Types, Holders, Counts
<1>7. Types'
  <2>1. Flags' /\ Counts' /\ Queues'
    BY <1>0, <1>3, <1>4, <1>5 DEF Types, Flags, Counts, Queues
  <2>2. Holders'
    BY <1>0, <1>5, <1>6 DEF Types, Holders
  <2> QED  BY <2>1, <2>2 DEF Types
<1>8. Rests' /\ Asked'
  BY <1>0 DEF Rests, Asked
<1>9. Probed' /\ Current'
  BY <1>0, <1>2, <1>5, NobodyIs DEF Probed, Current
<1>10. Followed'
  <2>1. Owed(stay)' <=> Owed(stay)
    BY <1>0 DEF Owed
  <2> QED  BY <1>0, <1>4, <2>1 DEF Followed
<1>11. Watched' /\ ~wrong'
  BY <1>0, <1>1, <1>5 DEF Watched
<1> QED  BY <1>2, <1>5, <1>7, <1>8, <1>9, <1>10, <1>11

-----------------------------------------------------------------------------
(* The room's theorem.                                                      *)

LEMMA RoomStep ==
    ASSUME RoomInv, Narrow, RoomBounds, [M!Next]_roomVars
    PROVE  RoomInv'
<1>1. CASE M!Join \/ M!Kick \/ M!Say \/ M!LinkDown \/ M!LinkUp
  BY <1>1, JoinStep, KickStep, SayStep, LinkDownStep, LinkUpStep
<1>2. CASE M!Arrive \/ M!Answered \/ M!Classify \/ M!Outrun
  BY <1>2, ArriveStep, AnsweredStep, ClassifyStep, OutrunStep
<1>3. ASSUME NEW by \in {"task", "replayed"}, NEW e,
             M!Defer(by, e) \/ M!Added(by, e) \/ M!Removed(by, e)
      PROVE  RoomInv'
  BY <1>3, DeferStep, AddedStep, RemovedStep
<1>4. CASE M!Reclaimed \/ M!Created \/ M!Turn \/ M!Expire \/ M!Schedule
  BY <1>4, ReclaimedStep, CreatedStep, TurnStep, ExpireStep, ScheduleStep
<1>5. CASE M!Quiesce \/ M!Rearm \/ M!Snapshot \/ M!Reconcile \/ M!Crash \/ M!Served
  BY <1>5, QuiesceStep, RearmStep, SnapshotStep, ReconcileStep, CrashStep, ServedStep
<1>6. CASE UNCHANGED roomVars
  <2>1. /\ member' = member /\ stay' = stay /\ link' = link /\ wire' = wire /\ nid' = nid
        /\ gen' = gen /\ early' = early /\ tasks' = tasks /\ jobs' = jobs /\ reclaim' = reclaim
        /\ quiesced' = quiesced /\ deferred' = deferred /\ replaying' = replaying
        /\ record' = record /\ probe' = probe /\ ask' = ask /\ moves' = moves
        /\ creating' = creating /\ slipped' = slipped /\ checked' = checked /\ wrong' = wrong
    BY <1>6 DEF roomVars
  <2>2. /\ Lined' /\ OneTurn' /\ Ended' = Ended /\ \A n : Owed(n)' <=> Owed(n)
    BY <2>1, EventsKept DEF RoomInv
  <2>3. Types' /\ Rests' /\ Asked'
    BY <2>1 DEF RoomInv, Types, Flags, Counts, Queues, Holders, Rests, Asked
  <2>4. Taken' /\ Probed' /\ Current' /\ Watched' /\ ~wrong'
    BY <2>1, <2>2 DEF RoomInv, Taken, Probed, Current, Watched
  <2>5. Followed'
    <3>1. Owed(stay)' <=> Owed(stay)
      BY <2>1 DEF Owed
    <3> QED  BY <2>1, <3>1 DEF RoomInv, Followed
  <2> QED  BY <2>2, <2>3, <2>4, <2>5 DEF RoomInv
<1> QED  BY <1>1, <1>2, <1>3, <1>4, <1>5, <1>6 DEF M!Next

LEMMA RoomInit == ASSUME M!Init, RoomBounds PROVE RoomInv
<1>1. /\ member = FALSE /\ stay = 0 /\ link = TRUE /\ wire = <<>> /\ gen = 0
      /\ early \in BOOLEAN /\ tasks = <<>> /\ record = NoRecord /\ nid = 0 /\ jobs = FALSE
      /\ reclaim = M!Idle /\ creating = 0 /\ quiesced = FALSE /\ deferred = <<>>
      /\ replaying = <<>> /\ probe = M!Idle /\ ask = M!Idle /\ moves = 0
      /\ wrong = FALSE /\ slipped = 0 /\ checked = FALSE
  BY DEF M!Init
<1>2. Flags
  BY <1>1 DEF Flags
<1>3. Counts
  BY <1>1 DEF Counts, RoomBounds
<1>4. Queues
  BY <1>1 DEF Queues
<1>5. Holders
  BY <1>1, NobodyIs DEF Holders
<1>6. OneTurn
  BY <1>1, EmptyAt DEF OneTurn
<1>7. Lined
  BY <1>1, EmptyAt DEF Lined
<1>8. \A n : ~Owed(n)
  BY <1>1, EmptyAt DEF Owed
<1>9. Rests /\ Asked /\ Taken
  BY <1>1, NobodyIs DEF Rests, Asked, Taken
<1>10. Probed /\ Current
  BY <1>1, <1>8, NobodyIs DEF Probed, Current, Ended
<1>11. Followed /\ Watched
  BY <1>1 DEF Followed, Watched
<1> QED  BY <1>1, <1>2, <1>3, <1>4, <1>5, <1>6, <1>7, <1>9, <1>10, <1>11 DEF RoomInv, Types

\* Who waits, and who has been asked, is one of those there are.
LEMMA TypesOfRoom == ASSUME RoomInv, RoomBounds PROVE M!TypeOK
<1> USE DEF RoomInv
<1>1. {member, link, early, jobs, quiesced, wrong, checked} \subseteq BOOLEAN
  BY DEF Types, Flags
<1>2. stay \in 0 .. MaxStays /\ slipped \in 0 .. stay /\ moves \in 0 .. MaxMoves
  BY DEF Types, Counts
<1>3. {stay, slipped} \subseteq 0 .. MaxStays
  BY <1>2 DEF RoomBounds
<1>4. M!Range(wire) \subseteq [kind : {"added", "removed", "message"}, stay : 0 .. MaxStays]
  <2> SUFFICES ASSUME NEW i \in DOMAIN wire
               PROVE  wire[i] \in [kind : {"added", "removed", "message"}, stay : 0 .. MaxStays]
    BY DEF M!Range
  <2>1. wire[i] \in Events /\ wire[i].stay \in Nat /\ wire[i].stay <= stay
    BY AllStays DEF Types, Queues, Lined, Known
  <2>2. wire[i].stay \in 0 .. MaxStays
    BY <1>2, <2>1 DEF RoomBounds
  <2> QED  BY <2>1, <2>2 DEF Events
<1>5. record = NoRecord \/ record \in [id : 1 .. nid, stay : 0 .. MaxStays, dormant : BOOLEAN]
  <2> SUFFICES ASSUME record # NoRecord
               PROVE  record \in [id : 1 .. nid, stay : 0 .. MaxStays, dormant : BOOLEAN]
    OBVIOUS
  <2>1. record \in [id : 1 .. nid, stay : 1 .. stay, dormant : BOOLEAN]
    BY DEF Types, Holders
  <2>2. 1 .. stay \subseteq 0 .. MaxStays
    BY <1>2 DEF RoomBounds
  <2> QED  BY <2>1, <2>2
<1>6. \A i \in DOMAIN tasks : i > 1 => tasks[i].at = "parked"
  BY DEF OneTurn
<1>7. {reclaim.by, probe.by, ask.by} \subseteq
          {"nobody", "task", "replayed", "boot", "pass", "replay"}
  BY DEF Types, Holders, Questions
<1> QED  BY <1>1, <1>2, <1>3, <1>4, <1>5, <1>6, <1>7 DEF M!TypeOK

\* At rest, no end is still to be handled.
LEMMA RoomAtRest == ASSUME RoomInv, RoomBounds PROVE RoomFollowed
<1>1. M!AtRest => ~Owed(stay)
  BY EmptyAt DEF M!AtRest, Owed
<1>2. M!AtRest /\ slipped < stay /\ ~member => record = NoRecord /\ ~jobs
  BY <1>1 DEF RoomInv, Followed
<1>3. M!AtRest /\ checked /\ ~member => record = NoRecord \/ ~record.dormant
  BY NobodyIs DEF RoomInv, Watched, M!AtRest
<1> QED  BY <1>2, <1>3, TypesOfRoom DEF RoomInv, RoomFollowed, M!RoomFollowed

roomMcVars == <<kind, vars, hostVars, editVars, roomVars>>

\* A record is reclaimed only for the end of a stay it was there in, although the events of the
\* room are deferred, lost, doubled by a replay and handled beside the questions of boot and
\* reconciliation; once they are handled, a room the bot has left has neither record nor
\* jobs, unless the news was lost or could not be followed; and a record that sleeps does not
\* outlive a reconciliation (session_manager.py: remove_on_leave, reclaim_room,
\* _reconcile_membership, _room_still_served; both connector.py: _note_removed).
\* The three windows that Windows opens are left out: in each of them the code fails.
THEOREM TheRoomIsFollowed ==
    ASSUME Narrow, RoomBounds
    PROVE  MCSpec => []RoomFollowed
<1>1. MCInit => RoomInv
  BY RoomInit DEF MCInit
<1>2. RoomInv /\ [MCNext]_roomMcVars => RoomInv'
  <2>1. [MCNext]_roomMcVars => [M!Next]_roomVars
    BY DEF MCNext, roomMcVars
  <2> QED  BY <2>1, RoomStep
<1>3. RoomInv => RoomFollowed
  BY RoomAtRest
<1> QED  BY <1>1, <1>2, <1>3, PTL DEF MCSpec, roomMcVars
=============================================================================
