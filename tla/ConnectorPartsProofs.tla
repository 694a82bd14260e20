------------------------ MODULE ConnectorPartsProofs ------------------------
(* Four parts of the connectors, each with an inductive invariant of its own.    *)
(* That the turn budget of a sender is honest (AgentChain), and that no direct   *)
(* message is answered by two bots of one account (BotAccounts): for any number  *)
(* of senders, deliveries, counts and limits, and of bots, conversations, teams  *)
(* and reloads; a section says what holds of them beside each other.             *)
(* That a caller of the voice connector is told what the room was sent while     *)
(* its own request was the one that waited (VoiceRoom), and that a call to       *)
(* Rocket.Chat is carried out once, by one login whenever the token they share   *)
(* expires (RestSession): for any number of requests, of notices and timeouts,   *)
(* and of calls and expiries.  Both queue for a lock; the lemmas about sequences *)
(* of waiters come before the two.                                               *)
EXTENDS MCConnectors, Sequences, FiniteSets, FiniteSetTheorems, SequenceTheorems,
        WellFoundedInduction, TLAPS

-----------------------------------------------------------------------------
\* The sizes of sets that the two modules speak of are those of the library.
LEMMA ChainSets ==
    ASSUME NEW S
    PROVE  /\ AC!IsFiniteSet(S) <=> IsFiniteSet(S)
           /\ AC!Cardinality(S) = Cardinality(S)
<1>1. AC!IsFiniteSet(S) <=> IsFiniteSet(S)
  BY DEF AC!IsFiniteSet, IsFiniteSet
<1>2. AC!Cardinality(S) = Cardinality(S)
  BY Zenon DEF AC!Cardinality, Cardinality
<1> QED
  BY <1>1, <1>2

LEMMA BotSets ==
    ASSUME NEW S
    PROVE  BA!Cardinality(S) = Cardinality(S)
BY Zenon DEF BA!Cardinality, Cardinality

-----------------------------------------------------------------------------
(* The turn budget.                                                         *)

\* A budget of no turns would refuse everybody; a delivery is over before the tombstones of
\* its time are (MaxFlight), which is how the limits are chosen.
Parameters ==
    /\ MaxTurns \in Nat \ {0} /\ TTL \in Nat /\ Factor \in Nat /\ Remembered \in Nat \ {0}
    /\ MaxIssued \in Nat /\ MaxCounts \in Nat

-----------------------------------------------------------------------------
(* The turn budget: the inductive invariant.                                *)

Counts == [turns : Nat, gen : Nat, issued : Nat, released : Seq(Nat), age : Nat]
Tombs == [gen : Nat, age : Nat]
Posts == [token : Nat, gen : Nat, count : Nat, age : Nat]

ChainKinds ==
    /\ store \in [Senders -> Counts \cup {AC!None}]
    /\ generations \in [Senders -> Tombs \cup {AC!NoStone}]
    /\ flight \in [AC!Flights -> Posts]
    /\ held \in [Senders -> SUBSET Nat]
    /\ count \in [Senders -> Nat]
    /\ refused \in BOOLEAN

Live(s) == store[s] # AC!None

\* The turns that are held are those counted, and were issued by this count.
TurnsHeld ==
    \A s \in Senders : Live(s) =>
        /\ AC!IsFiniteSet(held[s]) /\ store[s].turns = AC!Cardinality(held[s])
        /\ held[s] \subseteq 1 .. store[s].issued
        /\ \A i \in 1 .. Len(store[s].released) : store[s].released[i] <= store[s].issued

\* A delivery under way belongs to its sender's count exactly when the numbers agree, and
\* then it holds its turn, which nobody has returned.  It is as old as the count's last use.
FlightsOfLive ==
    \A f \in AC!Flights : AC!InFlight(f) /\ Live(f[1]) =>
        LET p == flight[f]  c == store[f[1]] IN
        /\ p.gen <= c.gen /\ p.age >= c.age
        /\ p.gen = c.gen <=> p.count = count[f[1]]
        /\ p.gen = c.gen => /\ p.token \in held[f[1]]
                            /\ \A i \in 1 .. Len(c.released) : c.released[i] # p.token

\* When there is no count, a tombstone outlives the deliveries of the last one.
FlightsOfNone ==
    \A f \in AC!Flights : AC!InFlight(f) /\ ~Live(f[1]) =>
        /\ generations[f[1]] # AC!NoStone /\ generations[f[1]].gen > flight[f].gen
        /\ flight[f].age >= TTL + 1 + generations[f[1]].age

FlightsOfAll ==
    \A f \in AC!Flights : AC!InFlight(f) =>
        /\ flight[f].count <= count[f[1]] /\ flight[f].age <= AC!MaxFlight
        /\ \A g \in AC!Flights : g # f /\ g[1] = f[1] /\ AC!InFlight(g)
                              /\ flight[g].count = flight[f].count
                              => flight[g].token # flight[f].token

ChainInv == ChainKinds /\ TurnsHeld /\ FlightsOfLive /\ FlightsOfNone /\ FlightsOfAll /\ ~refused

USE DEF AC!InFlight, Live

LEMMA SenderOfFlight == \A f \in AC!Flights : f[1] \in Senders
BY DEF AC!Flights

\* A count, a tombstone and none of either are told apart by their fields.
LEMMA Apart == AC!None \notin Counts /\ AC!NoStone \notin Tombs
<1>1. ASSUME AC!None \in Counts PROVE FALSE
  <2>1. AC!None.turns \in Nat
    BY <1>1 DEF Counts
  <2> QED
    BY <2>1 DEF AC!None
<1>2. ASSUME AC!NoStone \in Tombs PROVE FALSE
  <2>1. AC!NoStone.gen \in Nat
    BY <1>2 DEF Tombs
  <2> QED
    BY <2>1 DEF AC!NoStone
<1> QED
  BY <1>1, <1>2

LEMMA Limits ==
    ASSUME Parameters
    PROVE  /\ Factor * TTL \in Nat /\ AC!MaxFlight = TTL + Factor * TTL
<1>1. Factor * TTL \in Nat
  BY DEF Parameters
<1>2. (1 + Factor) * TTL = TTL + Factor * TTL
  BY DEF Parameters
<1> QED
  BY <1>1, <1>2 DEF AC!MaxFlight

LEMMA InitChainInv ==
    ASSUME AC!Init
    PROVE  ChainInv
<1>1. ChainKinds
  BY DEF AC!Init, ChainKinds, Posts, AC!Grounded
<1>2. \A s \in Senders : ~Live(s)
  BY DEF AC!Init, Live
<1>3. \A f \in AC!Flights : ~AC!InFlight(f)
  BY DEF AC!Init, AC!InFlight, AC!Grounded
<1> QED
  BY <1>1, <1>2, <1>3, SenderOfFlight
     DEF AC!Init, ChainInv, TurnsHeld, FlightsOfLive, FlightsOfNone, FlightsOfAll

-----------------------------------------------------------------------------
(* What a post finds.                                                       *)

\* What _gc leaves of a sender without a count is a tombstone that outlives its deliveries.
LEMMA SweptOutlives ==
    ASSUME Parameters, ChainInv, NEW f \in AC!Flights, AC!InFlight(f), ~Live(f[1]) \/ AC!Expired(f[1])
    PROVE  /\ AC!Swept[f[1]] # AC!NoStone /\ AC!Swept[f[1]].gen > flight[f].gen
           /\ flight[f].age >= TTL + 1 + AC!Swept[f[1]].age
<1> DEFINE s == f[1]  p == flight[f]
<1>0. /\ p \in Posts /\ p.gen \in Nat /\ p.age \in Nat /\ TTL \in Nat
      /\ p.age <= AC!MaxFlight /\ s \in Senders
  BY SenderOfFlight DEF ChainInv, ChainKinds, FlightsOfAll, Parameters, Posts
<1>1. CASE AC!Expired(s)
  <2>1. store[s] \in Counts /\ store[s].gen \in Nat /\ store[s].age \in Nat
    BY <1>0, <1>1, Apart DEF AC!Expired, ChainInv, ChainKinds, Counts
  <2>2. AC!Swept[s] = [gen |-> store[s].gen + 1, age |-> 0]
    BY <1>0, <1>1 DEF AC!Swept
  <2>3. AC!Swept[s] \in Tombs /\ AC!Swept[s].gen = store[s].gen + 1 /\ AC!Swept[s].age = 0
    BY <2>1, <2>2 DEF Tombs
  <2>4. store[s].age > TTL /\ p.gen <= store[s].gen /\ p.age >= store[s].age
    BY <1>1 DEF AC!Expired, ChainInv, FlightsOfLive, Live
  <2> QED
    BY <1>0, <2>1, <2>3, <2>4, Apart
<1>2. CASE ~AC!Expired(s)
  <2>1. ~Live(s)
    BY <1>2
  <2>2. /\ generations[s] # AC!NoStone /\ generations[s].gen > p.gen
        /\ p.age >= TTL + 1 + generations[s].age
    BY <2>1 DEF ChainInv, FlightsOfNone
  <2>3. generations[s] \in Tombs /\ generations[s].age \in Nat
    BY <1>0, <2>2 DEF ChainInv, ChainKinds, Tombs
  <2>4. ~AC!Stale(s)
    BY <1>0, <2>2, <2>3, Limits DEF AC!Stale
  <2>5. AC!Swept[s] = generations[s]
    BY <1>0, <1>2, <2>4 DEF AC!Swept
  <2> QED
    BY <2>2, <2>5
<1> QED
  BY <1>1, <1>2

LEMMA SweptKinds ==
    ASSUME Parameters, ChainInv
    PROVE  AC!Swept \in [Senders -> Tombs \cup {AC!NoStone}]
<1>1. ASSUME NEW s \in Senders
      PROVE  (IF AC!Expired(s) THEN [gen |-> store[s].gen + 1, age |-> 0]
              ELSE IF AC!Stale(s) THEN AC!NoStone ELSE generations[s]) \in Tombs \cup {AC!NoStone}
  <2>1. CASE AC!Expired(s)
    <3>1. store[s].gen \in Nat
      BY <2>1 DEF AC!Expired, ChainInv, ChainKinds, Counts
    <3> QED
      BY <2>1, <3>1 DEF Tombs
  <2>2. CASE ~AC!Expired(s)
    BY <2>2 DEF ChainInv, ChainKinds
  <2> QED
    BY <2>1, <2>2
<1> QED
  BY <1>1 DEF AC!Swept

\* A post finds its sender's count, or one that is new to every delivery under way.
LEMMA ContextFound ==
    ASSUME Parameters, ChainInv, NEW s \in Senders
    PROVE  LET c == AC!Context(s)  made == store[s] = AC!None \/ AC!Expired(s) IN
           /\ c \in Counts
           /\ ~made => Live(s) /\ c = store[s]
           /\ made => /\ c.turns = 0 /\ c.issued = 0 /\ c.released = <<>> /\ c.age = 0
                      /\ \A f \in AC!Flights :
                            f[1] = s /\ AC!InFlight(f) => flight[f].gen < c.gen
<1>1. CASE store[s] # AC!None /\ ~AC!Expired(s)
  <2>1. AC!Context(s) = store[s]
    BY <1>1 DEF AC!Context
  <2>2. store[s] \in Counts
    BY <1>1 DEF ChainInv, ChainKinds
  <2> QED
    BY <1>1, <2>1, <2>2 DEF Live
<1>2. CASE store[s] = AC!None \/ AC!Expired(s)
  <2> DEFINE g == IF AC!Swept[s] = AC!NoStone THEN 0 ELSE AC!Swept[s].gen
  <2>1. AC!Context(s) = [turns |-> 0, gen |-> g, issued |-> 0, released |-> <<>>, age |-> 0]
    BY <1>2 DEF AC!Context
  <2>2. g \in Nat
    BY SweptKinds DEF Tombs
  <2>3. ASSUME NEW f \in AC!Flights, f[1] = s, AC!InFlight(f)
        PROVE  flight[f].gen < g
    <3>1. AC!Swept[s] # AC!NoStone /\ AC!Swept[s].gen > flight[f].gen
      BY <1>2, <2>3, SweptOutlives DEF Live
    <3>2. flight[f].gen \in Nat
      BY DEF ChainInv, ChainKinds, Posts
    <3> QED
      BY <2>2, <3>1, <3>2
  <2> HIDE DEF g
  <2>4. AC!Context(s) \in Counts
    BY <2>1, <2>2 DEF Counts
  <2> QED
    BY <1>2, <2>1, <2>3, <2>4
<1> QED
  BY <1>1, <1>2

-----------------------------------------------------------------------------
(* The steps.                                                               *)

\* The filter refuses the post, or the post takes a turn.
LEMMA OfferKeeps ==
    ASSUME Parameters, ChainInv, NEW f \in AC!Flights, AC!Offer(f)
    PROVE  ChainInv'
<1> DEFINE s == f[1]
           c == AC!Context(s)
           made == store[s] = AC!None \/ AC!Expired(s)
           token == c.issued + 1
           taken == [turns |-> c.turns + 1, gen |-> c.gen, issued |-> token,
                     released |-> c.released, age |-> 0]
           post == [token |-> token, gen |-> c.gen, count |-> count'[s], age |-> 0]
           kept == [x \in Senders |-> IF AC!Expired(x) THEN AC!None ELSE store[x]]
           n == IF made THEN count[s] + 1 ELSE count[s]
           holding == IF made THEN {} ELSE held[s]
           refuses == c.turns >= MaxTurns
<1>0. s \in Senders
  BY SenderOfFlight
<1>1. /\ c \in Counts
      /\ ~made => Live(s) /\ c = store[s]
      /\ made => /\ c.turns = 0 /\ c.issued = 0 /\ c.released = <<>> /\ c.age = 0
                 /\ \A g \in AC!Flights : g[1] = s /\ AC!InFlight(g) => flight[g].gen < c.gen
  BY <1>0, ContextFound
<1>2. /\ ~AC!InFlight(f)
      /\ generations' = AC!Swept
      /\ count' = [x \in Senders |-> IF x = s /\ made THEN count[x] + 1 ELSE count[x]]
      /\ refuses => /\ store' = [kept EXCEPT ![s] = c]
                    /\ refused' = (refused \/ AC!Cardinality(held[s]) < MaxTurns)
                    /\ UNCHANGED <<flight, held>>
      /\ ~refuses => /\ store' = [kept EXCEPT ![s] = taken]
                     /\ flight' = [flight EXCEPT ![f] = post]
                     /\ held' = [held EXCEPT ![s] = holding \cup {token}]
                     /\ UNCHANGED refused
  BY DEF AC!Offer
<1>3. /\ c.turns \in Nat /\ c.gen \in Nat /\ c.issued \in Nat /\ c.age \in Nat
      /\ c.released \in Seq(Nat) /\ token \in Nat /\ token > c.issued
  BY <1>1 DEF Counts
<1>4. /\ taken \in Counts /\ taken.turns = c.turns + 1 /\ taken.issued = token
      /\ taken.gen = c.gen /\ taken.age = 0 /\ taken.released = c.released
  BY <1>3 DEF Counts
<1>5. n \in Nat /\ count'[s] = n /\ \A x \in Senders : x # s => count'[x] = count[x]
  BY <1>0, <1>2 DEF ChainInv, ChainKinds
<1>6. /\ post \in Posts /\ post.token = token /\ post.gen = c.gen /\ post.count = n
      /\ post.age = 0
  BY <1>3, <1>5 DEF Posts
<1>7. /\ made => n = count[s] + 1
      /\ ~made => n = count[s]
  OBVIOUS
<1>8. /\ AC!IsFiniteSet(holding) /\ c.turns = AC!Cardinality(holding)
      /\ holding \subseteq 1 .. c.issued /\ holding \in SUBSET Nat
      /\ \A i \in 1 .. Len(c.released) : c.released[i] <= c.issued
  <2>1. CASE made
    BY <1>1, <2>1, FS_EmptySet, ChainSets
  <2>2. CASE ~made
    BY <1>0, <1>1, <2>2 DEF ChainInv, TurnsHeld, ChainKinds
  <2> QED
    BY <2>1, <2>2
<1>9. ASSUME NEW g \in AC!Flights, g[1] = s, AC!InFlight(g)
      PROVE  /\ flight[g].gen <= c.gen /\ flight[g].age >= c.age /\ flight[g].count <= n
             /\ flight[g].gen = c.gen <=> flight[g].count = n
             /\ flight[g].gen = c.gen =>
                   /\ ~made /\ flight[g].token \in held[s]
                   /\ \A i \in 1 .. Len(c.released) : c.released[i] # flight[g].token
  <2>1. flight[g] \in Posts /\ flight[g].count <= count[s] /\ count[s] \in Nat
    BY <1>0, <1>9 DEF ChainInv, ChainKinds, FlightsOfAll
  <2>2. /\ flight[g].gen \in Nat /\ flight[g].count \in Nat /\ flight[g].age \in Nat
    BY <2>1 DEF Posts
  <2>3. CASE made
    <3>1. flight[g].gen < c.gen /\ c.age = 0 /\ n = count[s] + 1
      BY <1>1, <1>7, <1>9, <2>3
    <3> HIDE DEF c, n, made
    <3> QED
      BY SMTT(30), <1>3, <2>1, <2>2, <3>1
  <2>4. CASE ~made
    <3>1. n = count[s] /\ c = store[s] /\ Live(s)
      BY <1>1, <1>7, <2>4
    <3> HIDE DEF c, n, made
    <3> QED
      BY <1>9, <2>1, <2>4, <3>1 DEF ChainInv, FlightsOfLive
  <2> QED
    BY <2>3, <2>4
<1>10. \A x \in Senders : x # s => store'[x] = IF AC!Expired(x) THEN AC!None ELSE store[x]
  BY <1>2
<1>11. store'[s] = IF refuses THEN c ELSE taken
  BY <1>0, <1>2
<1>12. Live(s)'
  BY <1>1, <1>4, <1>11, Apart DEF Live
<1>13. /\ \A g \in AC!Flights : g # f \/ refuses => flight'[g] = flight[g]
       /\ ~refuses => flight'[f] = post
       /\ flight' \in [AC!Flights -> Posts]
  BY <1>2, <1>6 DEF ChainInv, ChainKinds
<1>14. /\ \A x \in Senders : x # s \/ refuses => held'[x] = held[x]
       /\ ~refuses => held'[s] = holding \cup {token}
       /\ held' \in [Senders -> SUBSET Nat]
  <2>1. holding \cup {token} \in SUBSET Nat
    BY <1>3, <1>8
  <2> HIDE DEF holding, token
  <2> QED
    BY <1>0, <1>2, <2>1 DEF ChainInv, ChainKinds
<1>15. ChainKinds'
  <2>1. store' \in [Senders -> Counts \cup {AC!None}]
    BY ZenonT(60), <1>1, <1>2, <1>4 DEF ChainInv, ChainKinds
  <2>2. generations' \in [Senders -> Tombs \cup {AC!NoStone}]
    BY <1>2, SweptKinds
  <2>3. count' \in [Senders -> Nat]
    BY <1>2 DEF ChainInv, ChainKinds
  <2>4. refused' \in BOOLEAN
    BY <1>2 DEF ChainInv, ChainKinds
  <2> QED
    BY <1>13, <1>14, <2>1, <2>2, <2>3, <2>4 DEF ChainKinds
<1> HIDE DEF c, made, token, taken, post, kept, n, holding, refuses
<1>16. TurnsHeld'
  <2>1. ASSUME NEW x \in Senders, x # s, Live(x)'
        PROVE  /\ AC!IsFiniteSet(held'[x]) /\ store'[x].turns = AC!Cardinality(held'[x])
               /\ held'[x] \subseteq 1 .. store'[x].issued
               /\ \A i \in 1 .. Len(store'[x].released) :
                     store'[x].released[i] <= store'[x].issued
    <3>1. Live(x) /\ store'[x] = store[x] /\ held'[x] = held[x]
      BY <1>10, <1>14, <2>1 DEF Live
    <3> QED
      BY <3>1 DEF ChainInv, TurnsHeld
  <2>2. /\ AC!IsFiniteSet(held'[s]) /\ store'[s].turns = AC!Cardinality(held'[s])
        /\ held'[s] \subseteq 1 .. store'[s].issued
        /\ \A i \in 1 .. Len(store'[s].released) :
              store'[s].released[i] <= store'[s].issued
    <3>1. CASE refuses
      <4>1. ~made
        BY <1>1, <1>3, <3>1 DEF Parameters, refuses
      <4>2. held'[s] = holding /\ store'[s] = c
        BY <1>0, <1>11, <1>14, <3>1, <4>1 DEF holding
      <4> QED
        BY <1>8, <4>2
    <3>2. CASE ~refuses
      <4>1. held'[s] = holding \cup {token} /\ store'[s] = taken
        BY <1>11, <1>14, <3>2
      <4>2. token \notin holding
        BY <1>3, <1>8
      <4>3. /\ AC!IsFiniteSet(holding \cup {token})
            /\ AC!Cardinality(holding \cup {token}) = AC!Cardinality(holding) + 1
        BY <1>8, <4>2, FS_AddElement, ChainSets
      <4>4. holding \cup {token} \subseteq 1 .. token
        BY <1>3, <1>8
      <4>5. \A i \in 1 .. Len(c.released) : c.released[i] <= token
        BY <1>3, <1>8
      <4> QED
        BY <1>4, <1>8, <4>1, <4>3, <4>4, <4>5
    <3> QED
      BY <3>1, <3>2
  <2> QED
    BY <2>1, <2>2 DEF TurnsHeld
<1>17. FlightsOfLive'
  <2>1. ASSUME NEW g \in AC!Flights, AC!InFlight(g)', Live(g[1])'
        PROVE  LET p == flight'[g]  k == store'[g[1]] IN
               /\ p.gen <= k.gen /\ p.age >= k.age
               /\ p.gen = k.gen <=> p.count = count'[g[1]]
               /\ p.gen = k.gen => /\ p.token \in held'[g[1]]
                                   /\ \A i \in 1 .. Len(k.released) : k.released[i] # p.token
    <3>0. g[1] \in Senders
      BY SenderOfFlight
    <3>1. CASE g[1] # s
      <4>1. Live(g[1]) /\ store'[g[1]] = store[g[1]] /\ held'[g[1]] = held[g[1]]
            /\ count'[g[1]] = count[g[1]] /\ flight'[g] = flight[g]
        BY <1>5, <1>10, <1>13, <1>14, <2>1, <3>0, <3>1 DEF Live
      <4> QED
        BY <2>1, <4>1 DEF ChainInv, FlightsOfLive
    <3>2. CASE g[1] = s /\ (g # f \/ refuses)
      <4>1. flight'[g] = flight[g] /\ AC!InFlight(g)
        BY <1>13, <2>1, <3>2
      <4>2. store'[s].gen = c.gen /\ store'[s].released = c.released
            /\ store'[s].age \in {0, c.age}
        BY <1>4, <1>11
      <4>3. ~made /\ flight[g].token \in held[s] => flight[g].token \in held'[s]
        BY <1>0, <1>14 DEF holding
      <4>4. flight[g].age \in Nat
        BY DEF ChainInv, ChainKinds, Posts
      <4>5. /\ flight[g].gen <= c.gen /\ flight[g].age >= c.age /\ flight[g].count <= n
            /\ flight[g].gen = c.gen <=> flight[g].count = n
            /\ flight[g].gen = c.gen =>
                  /\ ~made /\ flight[g].token \in held[s]
                  /\ \A i \in 1 .. Len(c.released) : c.released[i] # flight[g].token
        BY <1>9, <3>2, <4>1
      <4> QED
        BY <1>5, <3>2, <4>1, <4>2, <4>3, <4>4, <4>5
    <3>3. CASE g = f /\ ~refuses
      <4>1. store'[s] = taken /\ flight'[g] = post /\ token \in held'[s]
        BY <1>11, <1>13, <1>14, <3>3
      <4>2. \A i \in 1 .. Len(c.released) : c.released[i] # token
        BY <1>3, <1>8
      <4> QED
        BY SMTT(30), <1>3, <1>4, <1>5, <1>6, <3>3, <4>1, <4>2
    <3> QED
      BY <3>1, <3>2, <3>3
  <2> QED
    BY <2>1 DEF FlightsOfLive
<1>18. FlightsOfNone'
  <2>1. ASSUME NEW g \in AC!Flights, AC!InFlight(g)', ~Live(g[1])'
        PROVE  /\ generations'[g[1]] # AC!NoStone /\ generations'[g[1]].gen > flight'[g].gen
               /\ flight'[g].age >= TTL + 1 + generations'[g[1]].age
    <3>1. g[1] \in Senders /\ g[1] # s
      BY <1>12, <2>1, SenderOfFlight
    <3>2. ~Live(g[1]) \/ AC!Expired(g[1])
      BY <1>10, <2>1, <3>1 DEF Live
    <3>3. flight'[g] = flight[g] /\ AC!InFlight(g)
      BY <1>13, <2>1, <3>1
    <3> QED
      BY <1>2, <3>2, <3>3, SweptOutlives
  <2> QED
    BY <2>1 DEF FlightsOfNone
<1>19. FlightsOfAll'
  <2>0. AC!MaxFlight \in Nat
    BY Limits DEF Parameters
  <2>1. ASSUME NEW g \in AC!Flights, g # f \/ refuses, AC!InFlight(g)'
        PROVE  /\ AC!InFlight(g) /\ flight'[g] = flight[g]
               /\ flight[g].count <= count'[g[1]] /\ flight[g].age <= AC!MaxFlight
    <3>1. flight'[g] = flight[g] /\ AC!InFlight(g)
      BY <1>13, <2>1
    <3>2. CASE g[1] = s
      BY <1>5, <1>9, <3>1, <3>2 DEF ChainInv, FlightsOfAll
    <3>3. CASE g[1] # s
      BY <1>5, <3>1, <3>3, SenderOfFlight DEF ChainInv, FlightsOfAll
    <3> QED
      BY <3>1, <3>2, <3>3
  <2>2. ASSUME NEW g \in AC!Flights, g # f, g[1] = s, AC!InFlight(g)', flight'[g].count = n
        PROVE  flight'[g].token # token
    <3>1. flight'[g] = flight[g] /\ AC!InFlight(g)
      BY <1>13, <2>2
    <3>2. flight[g].token \in holding
      BY <1>9, <2>2, <3>1 DEF holding
    <3> QED
      BY <1>3, <1>8, <3>1, <3>2
  <2>3. ASSUME NEW g \in AC!Flights, AC!InFlight(g)', NEW h \in AC!Flights, h # g, h[1] = g[1],
               AC!InFlight(h)', flight'[h].count = flight'[g].count
        PROVE  flight'[h].token # flight'[g].token
    <3>1. CASE (g # f /\ h # f) \/ refuses
      BY <2>1, <2>3, <3>1 DEF ChainInv, FlightsOfAll
    <3>2. CASE g = f /\ ~refuses
      BY <1>6, <1>13, <2>2, <2>3, <3>2
    <3>3. CASE h = f /\ ~refuses
      BY <1>6, <1>13, <2>2, <2>3, <3>3
    <3> QED
      BY <3>1, <3>2, <3>3
  <2>4. ASSUME NEW g \in AC!Flights, AC!InFlight(g)'
        PROVE  flight'[g].count <= count'[g[1]] /\ flight'[g].age <= AC!MaxFlight
    <3>1. CASE g # f \/ refuses
      BY <2>1, <2>4, <3>1
    <3>2. CASE g = f /\ ~refuses
      BY <1>5, <1>6, <1>13, <2>0, <3>2
    <3> QED
      BY <3>1, <3>2
  <2> QED
    BY <2>3, <2>4 DEF FlightsOfAll
<1>20. ~refused'
  <2>1. CASE refuses
    <3>1. ~made
      BY <1>1, <1>3, <2>1 DEF Parameters, refuses
    <3>2. c.turns = AC!Cardinality(held[s])
      BY <1>8, <3>1 DEF holding
    <3>3. ~(AC!Cardinality(held[s]) < MaxTurns)
      BY <1>3, <2>1, <3>2 DEF Parameters, refuses
    <3> QED
      BY <1>2, <2>1, <3>3 DEF ChainInv
  <2>2. CASE ~refuses
    BY <1>2, <2>2 DEF ChainInv
  <2> QED
    BY <2>1, <2>2
<1> QED
  BY <1>15, <1>16, <1>17, <1>18, <1>19, <1>20 DEF ChainInv

\* What Append does, element by element.
LEMMA Appended ==
    ASSUME NEW r \in Seq(Nat), NEW t \in Nat
    PROVE  /\ Append(r, t) \in Seq(Nat) /\ Len(Append(r, t)) = Len(r) + 1
           /\ \A i \in 1 .. Len(r) + 1 : Append(r, t)[i] = IF i <= Len(r) THEN r[i] ELSE t
OBVIOUS

\* A turn is returned to the count it was taken from, once.
LEMMA HandBackKeeps ==
    ASSUME Parameters, ChainInv, NEW f \in AC!Flights, AC!HandBack(f)
    PROVE  ChainInv'
<1> DEFINE s == f[1]
           p == flight[f]
           c == store[s]
           back == Append(IF Len(c.released) = Remembered THEN Tail(c.released)
                          ELSE c.released, p.token)
           lower == [turns |-> c.turns - 1, gen |-> c.gen, issued |-> c.issued, age |-> 0,
                     released |-> back]
           mine == Live(s) /\ c.gen = p.gen
<1>0. s \in Senders
  BY SenderOfFlight
<1>1. /\ AC!InFlight(f)
      /\ store' = [store EXCEPT ![s] = AC!Released(c, p.token, p.gen)]
      /\ held' = [held EXCEPT ![s] = IF p.count = count[s] THEN @ \ {p.token} ELSE @]
      /\ flight' = [flight EXCEPT ![f] = AC!Grounded]
      /\ UNCHANGED <<generations, count, refused>>
  BY DEF AC!HandBack
<1>2. p \in Posts /\ p.token \in Nat
  BY DEF ChainInv, ChainKinds, Posts
<1>3. Live(s) => /\ c \in Counts /\ c.turns \in Nat /\ c.gen \in Nat /\ c.issued \in Nat
                 /\ c.released \in Seq(Nat)
  BY <1>0 DEF ChainInv, ChainKinds, Live, Counts
<1>4. mine => /\ p.count = count[s] /\ p.token \in held[s] /\ p.token <= c.issued
              /\ \A i \in 1 .. Len(c.released) : c.released[i] # p.token
  <2> SUFFICES ASSUME mine
               PROVE  /\ p.count = count[s] /\ p.token \in held[s] /\ p.token <= c.issued
                      /\ \A i \in 1 .. Len(c.released) : c.released[i] # p.token
    OBVIOUS
  <2>1. /\ p.count = count[s] /\ p.token \in held[s]
        /\ \A i \in 1 .. Len(c.released) : c.released[i] # p.token
    BY <1>1 DEF ChainInv, FlightsOfLive
  <2>2. held[s] \subseteq 1 .. c.issued
    BY <1>0 DEF ChainInv, TurnsHeld
  <2> QED
    BY <1>3, <2>1, <2>2
<1>5. Live(s) /\ ~mine => p.count # count[s]
  BY <1>1 DEF ChainInv, FlightsOfLive
<1>6. store'[s] = IF mine THEN lower ELSE c
  <2>1. store'[s] = AC!Released(c, p.token, p.gen)
    BY <1>0, <1>1 DEF ChainInv, ChainKinds
  <2>2. CASE mine
    <3> DEFINE tk == p.token
               iss == c.issued
    <3>1. tk \in Nat /\ iss \in Nat /\ tk <= iss /\ c # AC!None
      BY <1>2, <1>3, <1>4, <2>2 DEF Live
    <3>2. ~(tk > iss)
      <4> HIDE DEF tk, iss
      <4> QED
        BY <3>1
    <3>3. ~AC!Contains(c.released, tk)
      <4>1. \A i \in 1 .. Len(c.released) : c.released[i] # tk
        BY <1>4, <2>2
      <4> HIDE DEF c, tk, mine
      <4> QED
        BY <4>1 DEF AC!Contains
    <3> QED
      BY <2>1, <2>2, <3>1, <3>2, <3>3 DEF AC!Released
  <2>3. CASE ~mine
    BY <2>1, <2>3 DEF AC!Released, Live
  <2> QED
    BY <2>2, <2>3
<1>7. mine => /\ back \in Seq(Nat)
              /\ \A i \in 1 .. Len(back) :
                    back[i] = p.token
                    \/ \E j \in 1 .. Len(c.released) : back[i] = c.released[j]
  <2> SUFFICES ASSUME mine
               PROVE  /\ back \in Seq(Nat)
                      /\ \A i \in 1 .. Len(back) :
                            back[i] = p.token
                            \/ \E j \in 1 .. Len(c.released) : back[i] = c.released[j]
    OBVIOUS
  <2> DEFINE r == c.released
  <2>1. r \in Seq(Nat)
    BY <1>3
  <2>4. back = Append(IF Len(r) = Remembered THEN Tail(r) ELSE r, p.token)
    OBVIOUS
  <2> HIDE DEF r, back
  <2>2. CASE Len(r) = Remembered
    <3>1. r # <<>>
      BY <2>1, <2>2 DEF Parameters
    <3>2. /\ Tail(r) \in Seq(Nat)
          /\ \A i \in 1 .. Len(Tail(r)) : i + 1 \in 1 .. Len(r) /\ Tail(r)[i] = r[i + 1]
      BY <2>1, <3>1
    <3>3. back = Append(Tail(r), p.token)
      BY <2>2, <2>4
    <3>4. /\ back \in Seq(Nat) /\ Len(back) = Len(Tail(r)) + 1
          /\ \A i \in 1 .. Len(back) :
                back[i] = IF i <= Len(Tail(r)) THEN Tail(r)[i] ELSE p.token
      BY <1>2, <3>2, <3>3, Appended
    <3>5. \A i \in 1 .. Len(back) : back[i] = p.token \/ \E j \in 1 .. Len(r) : back[i] = r[j]
      BY <3>2, <3>4
    <3> QED
      BY <3>4, <3>5 DEF r
  <2>3. CASE Len(r) # Remembered
    <3>1. back = Append(r, p.token)
      BY <2>3, <2>4
    <3>2. /\ back \in Seq(Nat) /\ Len(back) = Len(r) + 1
          /\ \A i \in 1 .. Len(back) : back[i] = IF i <= Len(r) THEN r[i] ELSE p.token
      BY <1>2, <2>1, <3>1, Appended
    <3>3. \A i \in 1 .. Len(back) : back[i] = p.token \/ \E j \in 1 .. Len(r) : back[i] = r[j]
      BY <2>1, <3>2
    <3> QED
      BY <3>2, <3>3 DEF r
  <2> QED
    BY <2>2, <2>3
<1>8. mine => AC!IsFiniteSet(held[s]) /\ c.turns = AC!Cardinality(held[s])
  BY <1>0 DEF ChainInv, TurnsHeld
<1>9. mine => /\ AC!IsFiniteSet(held[s] \ {p.token})
              /\ AC!Cardinality(held[s] \ {p.token}) = c.turns - 1 /\ c.turns - 1 \in Nat
  <2>1. mine => /\ AC!IsFiniteSet(held[s] \ {p.token})
                /\ AC!Cardinality(held[s] \ {p.token}) = c.turns - 1
    BY <1>4, <1>8, FS_RemoveElement, ChainSets
  <2>2. mine => Cardinality(held[s] \ {p.token}) \in Nat
    BY <2>1, FS_CardinalityType, ChainSets
  <2> QED
    BY <2>1, <2>2, ChainSets
<1>10. mine => /\ lower \in Counts /\ lower.turns = c.turns - 1 /\ lower.gen = c.gen
               /\ lower.issued = c.issued /\ lower.age = 0 /\ lower.released = back
  BY <1>3, <1>7, <1>9 DEF Counts
<1>11. /\ \A x \in Senders : x # s => store'[x] = store[x] /\ held'[x] = held[x]
       /\ held'[s] = IF p.count = count[s] THEN held[s] \ {p.token} ELSE held[s]
  BY <1>0, <1>1 DEF ChainInv, ChainKinds
<1>12. /\ \A g \in AC!Flights : g # f => flight'[g] = flight[g]
       /\ ~AC!InFlight(f)'
  BY <1>1 DEF ChainInv, ChainKinds, AC!Grounded
<1>13. ChainKinds'
  <2>1. store' \in [Senders -> Counts \cup {AC!None}]
    BY <1>0, <1>1, <1>6, <1>10 DEF ChainInv, ChainKinds
  <2>2. flight' \in [AC!Flights -> Posts]
    <3>1. AC!Grounded \in Posts
      BY DEF AC!Grounded, Posts
    <3> QED
      BY <1>1, <3>1 DEF ChainInv, ChainKinds
  <2>3. held' \in [Senders -> SUBSET Nat]
    BY <1>0, <1>1 DEF ChainInv, ChainKinds
  <2> QED
    BY <1>1, <2>1, <2>2, <2>3 DEF ChainInv, ChainKinds
<1>14. ASSUME NEW x \in Senders
       PROVE  Live(x)' <=> Live(x)
  <2>1. CASE x = s /\ mine
    <3>1. store'[s] = lower
      BY <1>6, <2>1
    <3>2. lower # AC!None
      BY <1>10, <2>1, Apart
    <3> QED
      BY <2>1, <3>1, <3>2 DEF Live
  <2>2. CASE x = s /\ ~mine
    <3>1. store'[s] = store[s]
      BY <1>6, <2>2
    <3> QED
      BY <2>2, <3>1 DEF Live
  <2>3. CASE x # s
    BY <1>11, <2>3 DEF Live
  <2> QED
    BY <2>1, <2>2, <2>3
<1> HIDE DEF p, c, back, lower, mine
<1>15. TurnsHeld'
  <2>1. ASSUME NEW x \in Senders, Live(x)'
        PROVE  /\ AC!IsFiniteSet(held'[x]) /\ store'[x].turns = AC!Cardinality(held'[x])
               /\ held'[x] \subseteq 1 .. store'[x].issued
               /\ \A i \in 1 .. Len(store'[x].released) :
                     store'[x].released[i] <= store'[x].issued
    <3>1. /\ AC!IsFiniteSet(held[x]) /\ store[x].turns = AC!Cardinality(held[x])
          /\ held[x] \subseteq 1 .. store[x].issued
          /\ \A i \in 1 .. Len(store[x].released) : store[x].released[i] <= store[x].issued
      BY <1>14, <2>1 DEF ChainInv, TurnsHeld
    <3>2. CASE x # s
      BY <1>11, <3>1, <3>2
    <3>3. CASE x = s /\ ~mine
      <4>1. store'[s] = c /\ held'[s] = held[s]
        BY <1>5, <1>6, <1>11, <1>14, <2>1, <3>3
      <4> QED
        BY <3>1, <3>3, <4>1 DEF c
    <3>4. CASE x = s /\ mine
      <4>1. store'[s] = lower /\ held'[s] = held[s] \ {p.token}
        BY <1>4, <1>6, <1>11, <3>4
      <4>2. \A i \in 1 .. Len(back) : back[i] <= c.issued
        BY <1>4, <1>7, <3>1, <3>4 DEF c
      <4> QED
        BY <1>9, <1>10, <3>1, <3>4, <4>1, <4>2 DEF c
    <3> QED
      BY <3>2, <3>3, <3>4
  <2> QED
    BY <2>1 DEF TurnsHeld
<1>16. FlightsOfLive'
  <2>1. ASSUME NEW g \in AC!Flights, AC!InFlight(g)', Live(g[1])'
        PROVE  LET q == flight'[g]  k == store'[g[1]] IN
               /\ q.gen <= k.gen /\ q.age >= k.age
               /\ q.gen = k.gen <=> q.count = count'[g[1]]
               /\ q.gen = k.gen => /\ q.token \in held'[g[1]]
                                   /\ \A i \in 1 .. Len(k.released) : k.released[i] # q.token
    <3>0. g[1] \in Senders /\ Live(g[1]) /\ g # f
      BY <1>12, <1>14, <2>1, SenderOfFlight
    <3>1. flight'[g] = flight[g] /\ AC!InFlight(g) /\ count'[g[1]] = count[g[1]]
      BY <1>1, <1>12, <2>1, <3>0
    <3>2. LET q == flight[g]  k == store[g[1]] IN
          /\ q.gen <= k.gen /\ q.age >= k.age
          /\ q.gen = k.gen <=> q.count = count[g[1]]
          /\ q.gen = k.gen => /\ q.token \in held[g[1]]
                              /\ \A i \in 1 .. Len(k.released) : k.released[i] # q.token
      BY <3>0, <3>1 DEF ChainInv, FlightsOfLive
    <3>3. CASE g[1] # s
      BY <1>11, <3>0, <3>1, <3>2, <3>3
    <3>4. CASE g[1] = s /\ ~mine
      <4>1. store'[s] = c /\ held'[s] = held[s]
        BY <1>5, <1>6, <1>11, <3>0, <3>4
      <4> QED
        BY <3>1, <3>2, <3>4, <4>1 DEF c
    <3>5. CASE g[1] = s /\ mine
      <4>1. store'[s] = lower /\ held'[s] = held[s] \ {p.token}
        BY <1>4, <1>6, <1>11, <3>5
      <4>2. flight[g].age \in Nat
        BY DEF ChainInv, ChainKinds, Posts
      <4>3. flight[g].gen = c.gen => flight[g].token # p.token
        <5>1. flight[g].gen = c.gen => flight[g].count = count[s]
          BY <3>2, <3>5 DEF c
        <5> QED
          BY <1>1, <1>4, <3>0, <3>1, <3>5, <5>1 DEF ChainInv, FlightsOfAll, p
      <4>4. flight[g].gen = c.gen => \A i \in 1 .. Len(back) : back[i] # flight[g].token
        BY <1>7, <3>2, <3>5, <4>3 DEF c
      <4>5. /\ flight[g].gen <= c.gen
            /\ flight[g].gen = c.gen <=> flight[g].count = count[s]
            /\ flight[g].gen = c.gen => flight[g].token \in held[s]
        BY <3>2, <3>5 DEF c
      <4> QED
        BY <1>10, <3>1, <3>5, <4>1, <4>2, <4>3, <4>4, <4>5
    <3> QED
      BY <3>3, <3>4, <3>5
  <2> QED
    BY <2>1 DEF FlightsOfLive
<1>17. FlightsOfNone'
  BY <1>1, <1>12, <1>14, SenderOfFlight DEF ChainInv, FlightsOfNone
<1>18. FlightsOfAll'
  BY <1>1, <1>12 DEF ChainInv, FlightsOfAll
<1> QED
  BY <1>1, <1>13, <1>15, <1>16, <1>17, <1>18 DEF ChainInv

LEMMA LandKeeps ==
    ASSUME Parameters, ChainInv, NEW f \in AC!Flights, AC!Land(f)
    PROVE  ChainInv'
<1>1. /\ flight' = [flight EXCEPT ![f] = AC!Grounded]
      /\ UNCHANGED <<store, generations, held, count, refused>>
  BY DEF AC!Land
<1>2. AC!Grounded \in Posts
  BY DEF AC!Grounded, Posts
<1>3. /\ \A g \in AC!Flights : g # f => flight'[g] = flight[g]
      /\ ~AC!InFlight(f)'
      /\ flight' \in [AC!Flights -> Posts]
  BY <1>1, <1>2 DEF ChainInv, ChainKinds, AC!Grounded
<1>4. ChainKinds' /\ TurnsHeld'
  BY <1>1, <1>3 DEF ChainInv, ChainKinds, TurnsHeld, Live
<1>5. FlightsOfLive' /\ FlightsOfNone'
  BY <1>1, <1>3 DEF ChainInv, FlightsOfLive, FlightsOfNone, Live
<1>6. FlightsOfAll'
  BY <1>1, <1>3 DEF ChainInv, FlightsOfAll
<1> QED
  BY <1>1, <1>4, <1>5, <1>6 DEF ChainInv

\* A human's post begins every count again under a number of its own.
LEMMA HumanPostKeeps ==
    ASSUME Parameters, ChainInv, AC!HumanPost
    PROVE  ChainInv'
<1>1. /\ store' = [s \in Senders |-> IF store[s] = AC!None THEN AC!None ELSE AC!FreshCount(store[s])]
      /\ generations' = [s \in Senders |-> IF store[s] = AC!None THEN generations[s]
                                            ELSE [gen |-> store'[s].gen, age |-> 0]]
      /\ held' = [s \in Senders |-> IF store[s] = AC!None THEN held[s] ELSE {}]
      /\ count' = [s \in Senders |-> IF store[s] = AC!None THEN count[s] ELSE count[s] + 1]
      /\ UNCHANGED <<flight, refused>>
  BY DEF AC!HumanPost
<1>2. ASSUME NEW s \in Senders, Live(s)
      PROVE  /\ store[s] \in Counts /\ store[s].gen \in Nat
             /\ store'[s] \in Counts /\ store'[s].turns = 0 /\ store'[s].age = 0
             /\ store'[s].gen = store[s].gen + 1 /\ store'[s].released = <<>>
             /\ held'[s] = {} /\ count'[s] = count[s] + 1 /\ Live(s)'
             /\ generations'[s] = [gen |-> store'[s].gen, age |-> 0]
  <2>1. store[s] \in Counts /\ store[s].gen \in Nat
    BY <1>2 DEF ChainInv, ChainKinds, Live, Counts
  <2>2. store'[s] = AC!FreshCount(store[s])
    BY <1>1, <1>2 DEF Live
  <2>3. /\ store'[s] \in Counts /\ store'[s].turns = 0 /\ store'[s].age = 0
        /\ store'[s].gen = store[s].gen + 1 /\ store'[s].released = <<>>
    BY <2>1, <2>2 DEF AC!FreshCount, Counts
  <2> QED
    BY <1>1, <1>2, <2>1, <2>2, <2>3, Apart DEF Live
<1>3. ASSUME NEW s \in Senders, ~Live(s)
      PROVE  /\ ~Live(s)' /\ generations'[s] = generations[s] /\ count'[s] = count[s]
             /\ store'[s] = AC!None /\ held'[s] = held[s]
  BY <1>1, <1>3 DEF Live
<1>4. ChainKinds'
  <2>1. store' \in [Senders -> Counts \cup {AC!None}]
    BY <1>1, <1>2, <1>3
  <2>2. ASSUME NEW s \in Senders PROVE generations'[s] \in Tombs \cup {AC!NoStone}
    <3>1. CASE Live(s)
      <4>1. store'[s].gen \in Nat
        <5>1. store'[s].gen = store[s].gen + 1 /\ store[s].gen \in Nat
          BY <1>2, <3>1
        <5> QED
          BY <5>1
      <4>2. [gen |-> store'[s].gen, age |-> 0] \in Tombs
        BY <4>1 DEF Tombs
      <4> QED
        BY <1>2, <3>1, <4>2
    <3>2. CASE ~Live(s)
      BY <1>3, <3>2 DEF ChainInv, ChainKinds
    <3> QED
      BY <3>1, <3>2
  <2>3. generations' \in [Senders -> Tombs \cup {AC!NoStone}]
    BY <1>1, <2>2
  <2>4. held' \in [Senders -> SUBSET Nat] /\ count' \in [Senders -> Nat]
    BY <1>1 DEF ChainInv, ChainKinds
  <2> QED
    BY <1>1, <2>1, <2>3, <2>4 DEF ChainInv, ChainKinds
<1>5. TurnsHeld'
  <2>1. ASSUME NEW s \in Senders, Live(s)'
        PROVE  /\ AC!IsFiniteSet(held'[s]) /\ store'[s].turns = AC!Cardinality(held'[s])
               /\ held'[s] \subseteq 1 .. store'[s].issued
               /\ \A i \in 1 .. Len(store'[s].released) :
                     store'[s].released[i] <= store'[s].issued
    <3>1. held'[s] = {} /\ store'[s].turns = 0 /\ store'[s].released = <<>>
      BY <1>2, <1>3, <2>1
    <3> QED
      BY <3>1, FS_EmptySet, ChainSets
  <2> QED
    BY <2>1 DEF TurnsHeld
<1>6. FlightsOfLive'
  <2>1. ASSUME NEW f \in AC!Flights, AC!InFlight(f)', Live(f[1])'
        PROVE  LET p == flight'[f]  c == store'[f[1]] IN
               /\ p.gen <= c.gen /\ p.age >= c.age
               /\ p.gen = c.gen <=> p.count = count'[f[1]]
               /\ p.gen = c.gen => /\ p.token \in held'[f[1]]
                                   /\ \A i \in 1 .. Len(c.released) : c.released[i] # p.token
    <3>1. f[1] \in Senders /\ Live(f[1]) /\ AC!InFlight(f) /\ flight'[f] = flight[f]
      BY <1>1, <1>3, <2>1, SenderOfFlight
    <3>2. /\ flight[f].gen \in Nat /\ flight[f].count \in Nat /\ flight[f].age \in Nat
          /\ count[f[1]] \in Nat
      BY <3>1 DEF ChainInv, ChainKinds, Posts
    <3>3. flight[f].gen <= store[f[1]].gen /\ flight[f].count <= count[f[1]]
      BY <3>1 DEF ChainInv, FlightsOfLive, FlightsOfAll
    <3>4. /\ store'[f[1]].gen = store[f[1]].gen + 1 /\ store'[f[1]].age = 0
          /\ count'[f[1]] = count[f[1]] + 1 /\ store[f[1]].gen \in Nat
      BY <1>2, <3>1
    <3> QED
      BY <3>1, <3>2, <3>3, <3>4
  <2> QED
    BY <2>1 DEF FlightsOfLive
<1>7. FlightsOfNone'
  BY <1>1, <1>2, <1>3, SenderOfFlight DEF ChainInv, FlightsOfNone
<1>8. FlightsOfAll'
  <2>1. ASSUME NEW f \in AC!Flights, AC!InFlight(f)
        PROVE  flight[f].count <= count'[f[1]]
    <3>1. flight[f].count \in Nat /\ count[f[1]] \in Nat /\ flight[f].count <= count[f[1]]
      BY <2>1, SenderOfFlight DEF ChainInv, ChainKinds, Posts, FlightsOfAll
    <3>2. f[1] \in Senders
      BY SenderOfFlight
    <3>3. CASE Live(f[1])
      <4>1. count'[f[1]] = count[f[1]] + 1
        BY <1>2, <3>2, <3>3
      <4> QED
        BY <3>1, <4>1
    <3>4. CASE ~Live(f[1])
      <4>1. count'[f[1]] = count[f[1]]
        BY <1>3, <3>2, <3>4
      <4> QED
        BY <3>1, <4>1
    <3> QED
      BY <3>3, <3>4
  <2> QED
    BY <1>1, <2>1 DEF ChainInv, FlightsOfAll
<1> QED
  BY <1>1, <1>4, <1>5, <1>6, <1>7, <1>8 DEF ChainInv

\* The clock makes a delivery older with the count and the tombstone it is measured by.
LEMMA TickKeeps ==
    ASSUME Parameters, ChainInv, AC!Tick
    PROVE  ChainInv'
<1> DEFINE Older(x, limit) == IF x.age > limit THEN x ELSE [x EXCEPT !.age = @ + 1]
<1>1. /\ \A f \in AC!Flights : AC!InFlight(f) => flight[f].age < AC!MaxFlight
      /\ store' = [s \in Senders |-> IF store[s] = AC!None THEN AC!None ELSE Older(store[s], TTL)]
      /\ generations' = [s \in Senders |-> IF generations[s] = AC!NoStone THEN AC!NoStone
                                            ELSE Older(generations[s], Factor * TTL)]
      /\ flight' = [f \in AC!Flights |-> IF AC!InFlight(f) THEN [flight[f] EXCEPT !.age = @ + 1]
                                       ELSE flight[f]]
      /\ UNCHANGED <<held, count, refused>>
  BY DEF AC!Tick
<1>2. ASSUME NEW s \in Senders, Live(s)
      PROVE  /\ Live(s)' /\ store'[s] \in Counts /\ store[s].age \in Nat
             /\ store'[s].turns = store[s].turns /\ store'[s].gen = store[s].gen
             /\ store'[s].issued = store[s].issued /\ store'[s].released = store[s].released
             /\ store'[s].age <= store[s].age + 1 /\ store'[s].age \in Nat
  <2>1. store[s] \in Counts /\ store'[s] = Older(store[s], TTL)
    BY <1>1, <1>2 DEF ChainInv, ChainKinds, Live
  <2>2. /\ store'[s] \in Counts /\ store[s].age \in Nat
        /\ store'[s].turns = store[s].turns /\ store'[s].gen = store[s].gen
        /\ store'[s].issued = store[s].issued /\ store'[s].released = store[s].released
        /\ store'[s].age <= store[s].age + 1 /\ store'[s].age \in Nat
    BY SMTT(30), <2>1 DEF Counts
  <2> QED
    BY <2>2, Apart DEF Live
<1>3. ASSUME NEW s \in Senders, ~Live(s)
      PROVE  ~Live(s)' /\ store'[s] = AC!None
  BY <1>1, <1>3 DEF Live
<1>4. ASSUME NEW s \in Senders, generations[s] # AC!NoStone
      PROVE  /\ generations'[s] \in Tombs /\ generations'[s] # AC!NoStone
             /\ generations'[s].gen = generations[s].gen
             /\ generations[s].age \in Nat /\ generations'[s].age \in Nat
             /\ generations'[s].age <= generations[s].age + 1
  <2>1. generations[s] \in Tombs /\ generations'[s] = Older(generations[s], Factor * TTL)
    BY <1>1, <1>4 DEF ChainInv, ChainKinds
  <2>2. Factor * TTL \in Nat
    BY Limits
  <2>3. /\ generations'[s] \in Tombs /\ generations'[s].gen = generations[s].gen
        /\ generations[s].age \in Nat /\ generations'[s].age \in Nat
        /\ generations'[s].age <= generations[s].age + 1
    BY <2>1, <2>2 DEF Tombs
  <2> QED
    BY <2>3, Apart
<1>5. ASSUME NEW f \in AC!Flights
      PROVE  /\ flight'[f] \in Posts /\ flight'[f].token = flight[f].token
             /\ flight'[f].gen = flight[f].gen /\ flight'[f].count = flight[f].count
             /\ flight[f].age \in Nat
             /\ AC!InFlight(f) => flight'[f].age = flight[f].age + 1
  <2>1. flight[f] \in Posts
    BY DEF ChainInv, ChainKinds
  <2>2. flight'[f] = IF AC!InFlight(f) THEN [flight[f] EXCEPT !.age = @ + 1] ELSE flight[f]
    BY <1>1
  <2> QED
    BY <2>1, <2>2 DEF Posts
<1>6. ChainKinds'
  <2>1. store' \in [Senders -> Counts \cup {AC!None}]
    BY <1>1, <1>2, <1>3
  <2>2. ASSUME NEW s \in Senders PROVE generations'[s] \in Tombs \cup {AC!NoStone}
    BY <1>1, <1>4
  <2>3. generations' \in [Senders -> Tombs \cup {AC!NoStone}]
    BY <1>1, <2>2
  <2>4. flight' \in [AC!Flights -> Posts]
    BY <1>1, <1>5
  <2> QED
    BY <1>1, <2>1, <2>3, <2>4 DEF ChainInv, ChainKinds
<1>7. TurnsHeld'
  <2>1. ASSUME NEW s \in Senders, Live(s)' PROVE Live(s)
    BY <1>3, <2>1
  <2> QED
    BY <1>1, <1>2, <2>1 DEF ChainInv, TurnsHeld
<1>8. FlightsOfLive'
  <2>1. ASSUME NEW f \in AC!Flights, AC!InFlight(f)', Live(f[1])'
        PROVE  LET p == flight'[f]  c == store'[f[1]] IN
               /\ p.gen <= c.gen /\ p.age >= c.age
               /\ p.gen = c.gen <=> p.count = count'[f[1]]
               /\ p.gen = c.gen => /\ p.token \in held'[f[1]]
                                   /\ \A i \in 1 .. Len(c.released) : c.released[i] # p.token
    <3>1. f[1] \in Senders /\ Live(f[1]) /\ AC!InFlight(f)
      BY <1>3, <1>5, <2>1, SenderOfFlight
    <3>2. LET p == flight[f]  c == store[f[1]] IN
          /\ p.gen <= c.gen /\ p.age >= c.age
          /\ p.gen = c.gen <=> p.count = count[f[1]]
          /\ p.gen = c.gen => /\ p.token \in held[f[1]]
                              /\ \A i \in 1 .. Len(c.released) : c.released[i] # p.token
      BY <3>1 DEF ChainInv, FlightsOfLive
    <3>3. /\ store'[f[1]].gen = store[f[1]].gen /\ store'[f[1]].released = store[f[1]].released
          /\ store'[f[1]].age <= store[f[1]].age + 1 /\ store'[f[1]].age \in Nat
          /\ store[f[1]].age \in Nat
      BY <1>2, <3>1
    <3>4. /\ flight'[f].gen = flight[f].gen /\ flight'[f].count = flight[f].count
          /\ flight'[f].token = flight[f].token
          /\ flight'[f].age = flight[f].age + 1 /\ flight[f].age \in Nat
      BY <1>5, <3>1
    <3> QED
      BY SMTT(30), <1>1, <3>2, <3>3, <3>4
  <2> QED
    BY <2>1 DEF FlightsOfLive
<1>9. FlightsOfNone'
  <2>1. ASSUME NEW f \in AC!Flights, AC!InFlight(f)', ~Live(f[1])'
        PROVE  /\ generations'[f[1]] # AC!NoStone /\ generations'[f[1]].gen > flight'[f].gen
               /\ flight'[f].age >= TTL + 1 + generations'[f[1]].age
    <3>1. f[1] \in Senders /\ ~Live(f[1]) /\ AC!InFlight(f)
      BY <1>2, <1>5, <2>1, SenderOfFlight
    <3>2. /\ generations[f[1]] # AC!NoStone /\ generations[f[1]].gen > flight[f].gen
          /\ flight[f].age >= TTL + 1 + generations[f[1]].age
      BY <3>1 DEF ChainInv, FlightsOfNone
    <3>3. /\ flight'[f].gen = flight[f].gen /\ flight'[f].age = flight[f].age + 1
          /\ flight[f].age \in Nat /\ TTL \in Nat
      BY <1>5, <3>1 DEF Parameters
    <3> QED
      BY <1>4, <3>1, <3>2, <3>3
  <2> QED
    BY <2>1 DEF FlightsOfNone
<1>10. FlightsOfAll'
  <2>0. AC!MaxFlight \in Nat
    BY Limits DEF Parameters
  <2>1. ASSUME NEW f \in AC!Flights, AC!InFlight(f)'
        PROVE  /\ flight'[f].count <= count'[f[1]] /\ flight'[f].age <= AC!MaxFlight
               /\ \A g \in AC!Flights : g # f /\ g[1] = f[1] /\ AC!InFlight(g)'
                                     /\ flight'[g].count = flight'[f].count
                                     => flight'[g].token # flight'[f].token
    <3>1. AC!InFlight(f) /\ flight'[f].age = flight[f].age + 1 /\ flight[f].age \in Nat
      BY <1>5, <2>1
    <3>2. flight[f].age < AC!MaxFlight
      BY <1>1, <3>1
    <3>3. /\ flight[f].count <= count[f[1]]
          /\ \A g \in AC!Flights : g # f /\ g[1] = f[1] /\ AC!InFlight(g)
                                /\ flight[g].count = flight[f].count
                                => flight[g].token # flight[f].token
      BY <3>1 DEF ChainInv, FlightsOfAll
    <3> QED
      BY <1>1, <1>5, <2>0, <3>1, <3>2, <3>3
  <2> QED
    BY <2>1 DEF FlightsOfAll
<1> QED
  BY <1>1, <1>6, <1>7, <1>8, <1>9, <1>10 DEF ChainInv

LEMMA NextChainInv ==
    ASSUME Parameters, ChainInv, [AC!Next]_acVars
    PROVE  ChainInv'
<1>1. CASE UNCHANGED acVars
  BY <1>1 DEF acVars, ChainInv, ChainKinds, TurnsHeld, FlightsOfLive, FlightsOfNone, FlightsOfAll,
              Live
<1>2. CASE AC!Next
  BY <1>2, OfferKeeps, HandBackKeeps, LandKeeps, HumanPostKeeps, TickKeeps DEF AC!Next
<1> QED
  BY <1>1, <1>2

-----------------------------------------------------------------------------
(* The bots of one account: the inductive invariant.                        *)

BotKinds ==
    /\ records \in [Bots -> SUBSET BA!Chats]
    /\ open \cup passed \cup waiting \subseteq Bots
    /\ phase \in {"idle", "stopping", "reconciling", "connecting", "down"}

\* The bots of a set meet nowhere but at the records in excused: their rules claim different
\* kinds, a record of one is not claimed by another, and no two hold the same.
Separate(bots, config, holds, spared) ==
    \A b \in bots, c \in bots, r \in BA!Chats : b # c =>
        /\ BA!KindOf(r) \in config[b].claims => BA!KindOf(r) \notin config[c].claims
        /\ BA!KindOf(r) \in config[b].claims /\ r \in holds[c] => <<c, r>> \in spared
        /\ r \in holds[b] /\ r \in holds[c] => <<b, r>> \in spared \/ <<c, r>> \in spared

\* The bots that answer now or will without being looked at again.
Trusted ==
    CASE phase = "stopping" -> BA!Kept(target)
      [] phase = "connecting" -> (open \cup passed) \ unsound
      [] OTHER -> open \ unsound

\* A record is due only while its bot has still to be reconciled.
DueIsPending ==
    \A b \in Bots, r \in BA!Chats : <<b, r>> \in due => phase = "reconciling" /\ b \in waiting

\* Who is degraded and answers is known; who neither answers nor is degraded has still to pass.
DegradedIsKnown ==
    /\ unsound \subseteq degraded /\ open \cap degraded \subseteq unsound
    /\ phase = "stopping" => open = {} /\ waiting \subseteq BA!Gone(target)
    /\ phase = "reconciling" => open \cap passed = {}
    /\ phase = "connecting" => /\ waiting \cap (open \cup passed \cup degraded) = {}
                               /\ passed \cap degraded = {}
                               /\ \A b \in Bots : active[b].on =>
                                     b \in open \cup passed \cup degraded \cup waiting
    /\ phase = "idle" => \A b \in Bots : active[b].on => b \in open \cup degraded

\* A change of rules was let in only if the bots that stay do not meet under the new ones.
ChangeWasChecked ==
    phase = "stopping" /\ BA!RulesChanged(target) =>
        \A b \in BA!Kept(target), c \in BA!Kept(target) : b # c =>
            target[b].claims \cap target[c].claims \cap BA!Classes = {}

BotInv ==
    /\ BotKinds /\ DueIsPending /\ DegradedIsKnown /\ ChangeWasChecked
    /\ Separate(Trusted, active, records, due \cup unpaid)

-----------------------------------------------------------------------------
(* What the checks establish.                                               *)

LEMMA KindIsClass == \A r : BA!KindOf(r) \in BA!Classes
BY DEF BA!KindOf, BA!Classes

\* Where find_identity_conflicts finds nothing, the bots meet nowhere.
LEMMA NoConflictSeparates ==
    ASSUME NEW config, NEW bots, NEW holds, ~BA!Conflict(config, bots, holds)
    PROVE  Separate(bots, config, holds, {})
<1> SUFFICES ASSUME NEW b \in bots, NEW c \in bots, NEW r \in BA!Chats, b # c
             PROVE  /\ BA!KindOf(r) \in config[b].claims => BA!KindOf(r) \notin config[c].claims
                    /\ BA!KindOf(r) \in config[b].claims => r \notin holds[c]
                    /\ r \in holds[b] => r \notin holds[c]
  BY DEF Separate
<1> DEFINE x == BA!Claim(config, holds, b)  y == BA!Claim(config, holds, c)
<1>1. ~BA!Overlaps(x, y)
  BY DEF BA!Conflict
<1>2. /\ x.kinds = config[b].claims /\ x.rooms = holds[b] \cap Dms
      /\ x.groups = holds[b] \cap GroupDms
      /\ y.kinds = config[c].claims /\ y.rooms = holds[c] \cap Dms
      /\ y.groups = holds[c] \cap GroupDms
  BY DEF BA!Claim
<1> HIDE DEF x, y
<1>3. CASE r \in Dms
  BY <1>1, <1>2, <1>3 DEF BA!KindOf, BA!Overlaps
<1>4. CASE r \notin Dms /\ r \in GroupDms
  BY <1>1, <1>2, <1>4 DEF BA!KindOf, BA!Overlaps
<1> QED
  BY <1>3, <1>4 DEF BA!Chats

LEMMA NoConflictOfRules ==
    ASSUME NEW config, NEW bots, ~BA!Conflict(config, bots, BA!NoRecords),
           NEW b \in bots, NEW c \in bots, b # c
    PROVE  config[b].claims \cap config[c].claims \cap BA!Classes = {}
<1> DEFINE x == BA!Claim(config, BA!NoRecords, b)  y == BA!Claim(config, BA!NoRecords, c)
<1>1. ~BA!Overlaps(x, y)
  BY DEF BA!Conflict
<1>2. x.kinds = config[b].claims /\ y.kinds = config[c].claims
  BY DEF BA!Claim
<1> HIDE DEF x, y
<1> QED
  BY <1>1, <1>2 DEF BA!Overlaps, BA!Classes

\* What holds of some bots, records and excuses holds of fewer bots, and of more excuses.
LEMMA SeparateFewer ==
    ASSUME NEW config, NEW bots, NEW holds, NEW spared, Separate(bots, config, holds, spared),
           NEW some \in SUBSET bots, NEW more, spared \subseteq more
    PROVE  Separate(some, config, holds, more)
BY DEF Separate

\* Bots that stay are not degraded.
LEMMA KeptIsSound ==
    ASSUME NEW config, NEW b \in BA!Kept(config)
    PROVE  b \in Bots /\ b \notin degraded /\ active[b].on
BY DEF BA!Kept, BA!Changed

LEMMA InitBotInv ==
    ASSUME BA!Init
    PROVE  BotInv
<1>1. Separate({b \in Bots : active[b].on}, active, records, {})
  BY NoConflictSeparates DEF BA!Init
<1>2. Separate(Trusted, active, records, due \cup unpaid)
  BY <1>1 DEF BA!Init, Trusted
<1>3. BotKinds /\ DueIsPending /\ ChangeWasChecked
  BY DEF BA!Init, BotKinds, DueIsPending, ChangeWasChecked
<1>4. DegradedIsKnown
  BY DEF BA!Init, DegradedIsKnown
<1> QED
  BY <1>2, <1>3, <1>4 DEF BotInv

-----------------------------------------------------------------------------
(* The steps.                                                               *)

\* Facts about two bots of the trusted ones and a conversation.
LEMMA TrustedMeetNowhere ==
    ASSUME BotInv, NEW b \in Trusted, NEW c \in Trusted, NEW r \in BA!Chats, b # c
    PROVE  /\ BA!KindOf(r) \in active[b].claims => BA!KindOf(r) \notin active[c].claims
           /\ BA!KindOf(r) \in active[b].claims /\ r \in records[c] => <<c, r>> \in due \cup unpaid
           /\ r \in records[b] /\ r \in records[c]
                 => <<b, r>> \in due \cup unpaid \/ <<c, r>> \in due \cup unpaid
BY DEF BotInv, Separate

\* A message makes a record of what only its own bot's rules claim.
LEMMA ReceiveKeeps ==
    ASSUME BotInv, NEW b \in Bots, NEW r \in BA!Chats, BA!Receive(b, r)
    PROVE  BotInv'
<1>1. /\ b \in open /\ BA!KindOf(r) \in active[b].claims
      /\ records' = [records EXCEPT ![b] = @ \cup {r}]
      /\ UNCHANGED <<active, target, phase, waiting, open, passed, degraded, due, unpaid, unsound>>
  BY DEF BA!Receive
<1>2. Trusted' = Trusted
  BY <1>1 DEF Trusted, BA!Kept, BA!Changed
<1>3. BotKinds' /\ DueIsPending' /\ DegradedIsKnown' /\ ChangeWasChecked'
  BY <1>1 DEF BotInv, BotKinds, DueIsPending, DegradedIsKnown, ChangeWasChecked, BA!Kept, BA!Changed,
              BA!Gone, BA!RulesChanged
<1>4. ASSUME NEW x \in Trusted, NEW y \in Trusted, NEW t \in BA!Chats, x # y
      PROVE  /\ BA!KindOf(t) \in active[x].claims => BA!KindOf(t) \notin active[y].claims
             /\ BA!KindOf(t) \in active[x].claims /\ t \in records'[y] => <<y, t>> \in due \cup unpaid
             /\ t \in records'[x] /\ t \in records'[y]
                   => <<x, t>> \in due \cup unpaid \/ <<y, t>> \in due \cup unpaid
  <2>1. /\ BA!KindOf(t) \in active[x].claims => BA!KindOf(t) \notin active[y].claims
        /\ BA!KindOf(t) \in active[x].claims /\ t \in records[y] => <<y, t>> \in due \cup unpaid
        /\ BA!KindOf(t) \in active[y].claims /\ t \in records[x] => <<x, t>> \in due \cup unpaid
        /\ t \in records[x] /\ t \in records[y]
              => <<x, t>> \in due \cup unpaid \/ <<y, t>> \in due \cup unpaid
    BY <1>4, TrustedMeetNowhere
  <2>2. /\ t \in records'[x] => t \in records[x] \/ (x = b /\ t = r)
        /\ t \in records'[y] => t \in records[y] \/ (y = b /\ t = r)
    BY <1>1 DEF BotInv, BotKinds
  <2> QED
    BY <1>1, <1>4, <2>1, <2>2
<1>5. Separate(Trusted, active, records, due \cup unpaid)'
  BY <1>1, <1>2, <1>4 DEF Separate
<1> QED
  BY <1>3, <1>5 DEF BotInv

LEMMA ExpireKeeps ==
    ASSUME BotInv, NEW b \in Bots, NEW r \in BA!Chats, BA!Expire(b, r)
    PROVE  BotInv'
<1>1. /\ records' = [records EXCEPT ![b] = @ \ {r}]
      /\ unpaid' = unpaid \ {<<b, r>>} /\ due' = due \ {<<b, r>>}
      /\ UNCHANGED <<active, target, phase, waiting, open, passed, degraded, unsound>>
  BY DEF BA!Expire
<1>2. Trusted' = Trusted
  BY <1>1 DEF Trusted, BA!Kept, BA!Changed
<1>3. BotKinds' /\ DueIsPending' /\ DegradedIsKnown' /\ ChangeWasChecked'
  BY <1>1 DEF BotInv, BotKinds, DueIsPending, DegradedIsKnown, ChangeWasChecked, BA!Kept, BA!Changed,
              BA!Gone, BA!RulesChanged
<1>4. ASSUME NEW x \in Trusted, NEW y \in Trusted, NEW t \in BA!Chats, x # y
      PROVE  /\ BA!KindOf(t) \in active[x].claims => BA!KindOf(t) \notin active[y].claims
             /\ BA!KindOf(t) \in active[x].claims /\ t \in records'[y] => <<y, t>> \in due' \cup unpaid'
             /\ t \in records'[x] /\ t \in records'[y]
                   => <<x, t>> \in due' \cup unpaid' \/ <<y, t>> \in due' \cup unpaid'
  <2>1. x \in Bots /\ y \in Bots
    BY DEF BotInv, BotKinds, Trusted, BA!Kept
  <2>2. /\ t \in records'[x] => t \in records[x] /\ ~(x = b /\ t = r)
        /\ t \in records'[y] => t \in records[y] /\ ~(y = b /\ t = r)
    BY <1>1, <2>1 DEF BotInv, BotKinds
  <2>3. /\ <<x, t>> \in due \cup unpaid /\ ~(x = b /\ t = r) => <<x, t>> \in due' \cup unpaid'
        /\ <<y, t>> \in due \cup unpaid /\ ~(y = b /\ t = r) => <<y, t>> \in due' \cup unpaid'
    BY <1>1
  <2> QED
    BY <1>4, <2>2, <2>3, TrustedMeetNowhere
<1>5. Separate(Trusted, active, records, due \cup unpaid)'
  BY <1>1, <1>2, <1>4 DEF Separate
<1> QED
  BY <1>3, <1>5 DEF BotInv

\* A reload is refused, or its rules have been compared.
LEMMA ReloadKeeps ==
    ASSUME BotInv, NEW config \in BA!Configurations, BA!Reload(config)
    PROVE  BotInv'
<1>1. /\ phase = "idle"
      /\ UNCHANGED <<active, passed, degraded, records, due, unpaid, unsound>>
  BY DEF BA!Reload
<1>2. CASE BA!RulesChanged(config) /\ BA!Conflict(config, BA!Kept(config) \ degraded, BA!NoRecords)
  <2>1. UNCHANGED <<target, phase, waiting, open>>
    BY <1>2 DEF BA!Reload
  <2> QED
    BY <1>1, <2>1 DEF BotInv, BotKinds, DueIsPending, DegradedIsKnown, ChangeWasChecked, Separate,
                      Trusted, BA!Kept, BA!Changed, BA!Gone, BA!RulesChanged
<1>3. CASE ~(BA!RulesChanged(config) /\ BA!Conflict(config, BA!Kept(config) \ degraded, BA!NoRecords))
  <2>1. target' = config /\ phase' = "stopping" /\ open' = {} /\ waiting' = BA!Gone(config)
    BY <1>3 DEF BA!Reload
  <2>2. BA!Kept(target)' = BA!Kept(config) /\ (BA!RulesChanged(target)' <=> BA!RulesChanged(config))
    BY <1>1, <2>1 DEF BA!Kept, BA!Changed, BA!RulesChanged
  <2>3. BA!Kept(config) \subseteq Trusted
    BY <1>1, KeptIsSound DEF BotInv, DegradedIsKnown, Trusted
  <2>4. Trusted' = BA!Kept(config)
    BY <2>1, <2>2 DEF Trusted
  <2>5. Separate(Trusted, active, records, due \cup unpaid)'
    BY <1>1, <2>3, <2>4 DEF BotInv, Separate
  <2>6. BotKinds'
    BY <1>1, <2>1 DEF BotInv, BotKinds, BA!Gone
  <2>7. DueIsPending' /\ DegradedIsKnown'
    BY <1>1, <2>1 DEF BotInv, DueIsPending, DegradedIsKnown, BA!Gone
  <2>8. ChangeWasChecked'
    <3> SUFFICES ASSUME BA!RulesChanged(config), NEW b \in BA!Kept(config), NEW c \in BA!Kept(config),
                        b # c
                 PROVE  config[b].claims \cap config[c].claims \cap BA!Classes = {}
      BY <2>1, <2>2 DEF ChangeWasChecked
    <3>1. b \in BA!Kept(config) \ degraded /\ c \in BA!Kept(config) \ degraded
      BY KeptIsSound
    <3> QED
      BY <1>3, <3>1, NoConflictOfRules
  <2> QED
    BY <2>5, <2>6, <2>7, <2>8 DEF BotInv
<1> QED
  BY <1>2, <1>3

\* A connector that goes has nothing to do with those that stay.
LEMMA RemoveKeeps ==
    ASSUME BotInv, NEW b \in Bots, BA!Remove(b)
    PROVE  BotInv'
<1>1. /\ phase = "stopping" /\ waiting' = waiting \ {b}
      /\ unpaid' = unpaid \ ({b} \X BA!Chats) /\ due' = due \ ({b} \X BA!Chats)
      /\ UNCHANGED <<active, target, phase, open, passed, degraded, unsound>>
      /\ \E failed \in SUBSET records[b] :
            records' = [records EXCEPT ![b] = @ \ (records[b] \ failed)]
  BY DEF BA!Remove, BA!Expiring
<1>2. PICK failed \in SUBSET records[b] :
         records' = [records EXCEPT ![b] = @ \ (records[b] \ failed)]
  BY <1>1
<1>3. Trusted' = Trusted /\ Trusted = BA!Kept(target) /\ b \notin BA!Kept(target)
  <2>1. b \in BA!Gone(target)
    BY DEF BA!Remove, BotInv, DegradedIsKnown
  <2> QED
    BY <1>1, <2>1 DEF Trusted, BA!Kept, BA!Changed, BA!Gone
<1>4. BotKinds' /\ DueIsPending' /\ DegradedIsKnown' /\ ChangeWasChecked'
  BY <1>1, <1>2 DEF BotInv, BotKinds, DueIsPending, DegradedIsKnown, ChangeWasChecked, BA!Kept, BA!Changed,
              BA!Gone, BA!RulesChanged
<1>5. ASSUME NEW x \in Trusted, NEW t \in BA!Chats
      PROVE  records'[x] = records[x] /\ (<<x, t>> \in due' \cup unpaid' <=> <<x, t>> \in due \cup unpaid)
  BY <1>1, <1>2, <1>3 DEF BotInv, BotKinds, BA!Kept
<1>6. Separate(Trusted, active, records, due \cup unpaid)'
  <2> SUFFICES ASSUME NEW x \in Trusted, NEW y \in Trusted, NEW t \in BA!Chats, x # y
        PROVE  /\ BA!KindOf(t) \in active[x].claims => BA!KindOf(t) \notin active[y].claims
               /\ BA!KindOf(t) \in active[x].claims /\ t \in records'[y] => <<y, t>> \in due' \cup unpaid'
               /\ t \in records'[x] /\ t \in records'[y]
                     => <<x, t>> \in due' \cup unpaid' \/ <<y, t>> \in due' \cup unpaid'
    BY <1>1, <1>3 DEF Separate
  <2> QED
    BY <1>5, TrustedMeetNowhere
<1> QED
  BY <1>4, <1>6 DEF BotInv

\* The new rules are in force: what a bot holds and they have let go of is due.
LEMMA InstallKeeps ==
    ASSUME BotInv, BA!Install
    PROVE  BotInv'
<1> DEFINE kept == BA!Kept(target)
           leaving == UNION {{b} \X BA!Uncovered(target, b) : b \in kept}
<1>1. /\ phase = "stopping" /\ open' = kept
      /\ waiting' = IF BA!RulesChanged(target) THEN kept ELSE {}
      /\ due' = IF BA!RulesChanged(target) THEN leaving ELSE {}
      /\ passed' = BA!Changed(target) \cup BA!Added(target)
      /\ degraded' = degraded \cap kept /\ unsound' = unsound \cap kept
      /\ active' = target /\ phase' = "reconciling"
      /\ UNCHANGED <<target, records, unpaid>>
  BY DEF BA!Install
<1>2. kept \subseteq Bots /\ Trusted = kept
  BY <1>1 DEF BA!Kept, Trusted
<1>3. degraded' = {} /\ unsound' = {}
  BY <1>1, KeptIsSound DEF BotInv, DegradedIsKnown
<1>4. ASSUME NEW b \in kept, NEW r \in BA!Chats, BA!RulesChanged(target)
      PROVE  <<b, r>> \in due' <=> r \in records[b] /\ BA!KindOf(r) \notin target[b].claims
  <2>1. BA!Uncovered(target, b) = {t \in records[b] : BA!KindOf(t) \notin target[b].claims}
    BY DEF BA!Uncovered
  <2>2. <<b, r>> \in leaving <=> r \in BA!Uncovered(target, b)
    <3> HIDE DEF kept
    <3> QED
      OBVIOUS
  <2> QED
    BY <1>1, <1>4, <2>1, <2>2
<1>5. DueIsPending'
  <2> SUFFICES ASSUME NEW b \in Bots, NEW r \in BA!Chats, <<b, r>> \in due'
               PROVE  b \in waiting'
    BY <1>1 DEF DueIsPending
  <2>1. BA!RulesChanged(target) /\ <<b, r>> \in leaving
    BY <1>1
  <2>2. b \in kept
    <3> HIDE DEF kept
    <3> QED
      BY <2>1
  <2> QED
    BY <1>1, <2>1, <2>2
<1>6. BotKinds' /\ DegradedIsKnown' /\ ChangeWasChecked'
  BY <1>1, <1>2, <1>3 DEF BotInv, BotKinds, DegradedIsKnown, ChangeWasChecked, BA!Changed, BA!Added, BA!Kept
<1>7. ASSUME NEW x \in kept, NEW y \in kept, NEW t \in BA!Chats, x # y
      PROVE  /\ BA!KindOf(t) \in target[x].claims => BA!KindOf(t) \notin target[y].claims
             /\ BA!KindOf(t) \in target[x].claims /\ t \in records[y] => <<y, t>> \in due' \cup unpaid
             /\ t \in records[x] /\ t \in records[y]
                   => <<x, t>> \in due' \cup unpaid \/ <<y, t>> \in due' \cup unpaid
  <2>1. CASE BA!RulesChanged(target)
    <3>1. target[x].claims \cap target[y].claims \cap BA!Classes = {}
      BY <1>1, <1>7, <2>1 DEF BotInv, ChangeWasChecked
    <3>2. ~(BA!KindOf(t) \in target[x].claims /\ BA!KindOf(t) \in target[y].claims)
      BY <3>1, KindIsClass
    <3>3. /\ <<x, t>> \in due' <=> t \in records[x] /\ BA!KindOf(t) \notin target[x].claims
          /\ <<y, t>> \in due' <=> t \in records[y] /\ BA!KindOf(t) \notin target[y].claims
      BY <1>4, <2>1
    <3> QED
      BY <3>2, <3>3
  <2>2. CASE ~BA!RulesChanged(target)
    <3>1. target[x].claims = active[x].claims /\ target[y].claims = active[y].claims
      BY <1>2, <2>2 DEF BA!RulesChanged
    <3>2. <<x, t>> \notin due /\ <<y, t>> \notin due
      BY <1>1, <1>2 DEF BotInv, DueIsPending
    <3> QED
      BY <1>2, <1>7, <3>1, <3>2, TrustedMeetNowhere
  <2> QED
    BY <2>1, <2>2
<1>8. Separate(Trusted, active, records, due \cup unpaid)'
  <2>1. Trusted' = kept
    BY <1>1, <1>3 DEF Trusted
  <2> QED
    BY <1>1, <1>7, <2>1 DEF Separate
<1> QED
  BY <1>5, <1>6, <1>8 DEF BotInv

\* A bot's records that no rule covers go, are reported, or the bot is known to be unsound.
LEMMA ReconcileKeeps ==
    ASSUME BotInv, NEW b \in Bots, BA!Reconcile(b)
    PROVE  BotInv'
<1>1. /\ phase = "reconciling" /\ b \in waiting /\ waiting' = waiting \ {b}
      /\ UNCHANGED <<active, target, phase, open, passed>>
      /\ due' = due \ ({b} \X BA!Chats)
  BY DEF BA!Reconcile, BA!Expiring
<1>2. DueIsPending'
  BY <1>1 DEF BotInv, DueIsPending
<1>3. Trusted = open \ unsound /\ Trusted' = (open \ unsound)'
  BY <1>1 DEF Trusted
<1>4. CASE \E failed \in SUBSET BA!Uncovered(active, b) :
              /\ records' = [records EXCEPT ![b] = @ \ (BA!Uncovered(active, b) \ failed)]
              /\ unpaid' = (unpaid \ ({b} \X BA!Chats)) \cup ({b} \X failed)
              /\ UNCHANGED <<degraded, unsound>>
  <2>1. PICK failed \in SUBSET BA!Uncovered(active, b) :
              /\ records' = [records EXCEPT ![b] = @ \ (BA!Uncovered(active, b) \ failed)]
              /\ unpaid' = (unpaid \ ({b} \X BA!Chats)) \cup ({b} \X failed)
              /\ UNCHANGED <<degraded, unsound>>
    BY <1>4
  <2>2. BotKinds' /\ DegradedIsKnown' /\ ChangeWasChecked'
    BY <1>1, <2>1 DEF BotInv, BotKinds, DegradedIsKnown, ChangeWasChecked
  <2>3. ASSUME NEW x \in Trusted, NEW t \in BA!Chats, x # b
        PROVE  /\ records'[x] = records[x]
               /\ <<x, t>> \in due' \cup unpaid' <=> <<x, t>> \in due \cup unpaid
    BY <1>1, <1>3, <2>1, <2>3 DEF BotInv, BotKinds
  <2>4. ASSUME NEW t \in BA!Chats
        PROVE  /\ t \in records'[b] => t \in records[b]
               /\ t \in records'[b] /\ <<b, t>> \notin due' \cup unpaid'
                     => BA!KindOf(t) \in active[b].claims
    <3>1. records'[b] = records[b] \ (BA!Uncovered(active, b) \ failed)
      BY <2>1 DEF BotInv, BotKinds
    <3>2. t \in failed => <<b, t>> \in unpaid'
      BY <2>1
    <3> QED
      BY <3>1, <3>2 DEF BA!Uncovered
  <2>5. ASSUME NEW x \in Trusted, NEW y \in Trusted, NEW t \in BA!Chats, x # y
        PROVE  /\ BA!KindOf(t) \in active[x].claims => BA!KindOf(t) \notin active[y].claims
               /\ BA!KindOf(t) \in active[x].claims /\ t \in records'[y] => <<y, t>> \in due' \cup unpaid'
               /\ t \in records'[x] /\ t \in records'[y]
                     => <<x, t>> \in due' \cup unpaid' \/ <<y, t>> \in due' \cup unpaid'
    <3>1. /\ BA!KindOf(t) \in active[x].claims => BA!KindOf(t) \notin active[y].claims
          /\ BA!KindOf(t) \in active[x].claims /\ t \in records[y] => <<y, t>> \in due \cup unpaid
          /\ BA!KindOf(t) \in active[y].claims /\ t \in records[x] => <<x, t>> \in due \cup unpaid
          /\ t \in records[x] /\ t \in records[y]
                => <<x, t>> \in due \cup unpaid \/ <<y, t>> \in due \cup unpaid
      BY <2>5, TrustedMeetNowhere
    <3>2. CASE x # b /\ y # b
      BY <2>3, <3>1, <3>2
    <3>3. CASE x = b
      <4>1. y # b
        BY <2>5, <3>3
      <4> QED
        BY <2>3, <2>4, <3>1, <3>3, <4>1
    <3>4. CASE y = b
      <4>1. x # b
        BY <2>5, <3>4
      <4> QED
        BY <2>3, <2>4, <3>1, <3>4, <4>1
    <3> QED
      BY <3>2, <3>3, <3>4
  <2>6. Separate(Trusted, active, records, due \cup unpaid)'
    BY <1>1, <1>3, <2>1, <2>5 DEF Separate
  <2> QED
    BY <1>2, <2>2, <2>6 DEF BotInv
<1>5. CASE /\ degraded' = degraded \cup {b} /\ unsound' = unsound \cup {b}
           /\ unpaid' = unpaid \cup {<<b, r>> : r \in BA!Uncovered(active, b)}
           /\ UNCHANGED records
  <2>1. BotKinds' /\ DegradedIsKnown' /\ ChangeWasChecked'
    BY <1>1, <1>5 DEF BotInv, BotKinds, DegradedIsKnown, ChangeWasChecked
  <2>2. ASSUME NEW x \in Trusted', NEW t \in BA!Chats
        PROVE  x \in Trusted /\ (<<x, t>> \in due \cup unpaid => <<x, t>> \in due' \cup unpaid')
    BY <1>1, <1>3, <1>5
  <2>3. Separate(Trusted, active, records, due \cup unpaid)'
    <3> SUFFICES ASSUME NEW x \in Trusted', NEW y \in Trusted', NEW t \in BA!Chats, x # y
        PROVE  /\ BA!KindOf(t) \in active[x].claims => BA!KindOf(t) \notin active[y].claims
               /\ BA!KindOf(t) \in active[x].claims /\ t \in records[y] => <<y, t>> \in due' \cup unpaid'
               /\ t \in records[x] /\ t \in records[y]
                     => <<x, t>> \in due' \cup unpaid' \/ <<y, t>> \in due' \cup unpaid'
      BY <1>1, <1>5 DEF Separate
    <3> QED
      BY <2>2, TrustedMeetNowhere
  <2> QED
    BY <1>2, <2>1, <2>3 DEF BotInv
<1> QED
  BY <1>1, <1>4, <1>5 DEF BA!Reconcile, BA!Expiring

\* Who has still to pass is not trusted yet, whatever its records are.
LEMMA SettleKeeps ==
    ASSUME BotInv, NEW b \in Bots, BA!Settle(b)
    PROVE  BotInv'
<1>1. /\ phase = "reconciling" /\ b \in passed /\ passed' = passed \ {b}
      /\ UNCHANGED <<active, target, phase, waiting, open, unsound, unpaid>>
      /\ due' = due \/ due' = due \ ({b} \X BA!Chats)
      /\ degraded' = degraded \/ degraded' = degraded \cup {b}
      /\ records' = records
         \/ \E failed \in SUBSET BA!Uncovered(active, b) :
               records' = [records EXCEPT ![b] = @ \ (BA!Uncovered(active, b) \ failed)]
  BY DEF BA!Settle, BA!Expiring
<1>2. b \notin open
  BY <1>1 DEF BotInv, DegradedIsKnown
<1>3. Trusted = open \ unsound /\ Trusted' = open \ unsound
  BY <1>1 DEF Trusted
<1>4. records' \in [Bots -> SUBSET BA!Chats] /\ \A x \in Bots : x # b => records'[x] = records[x]
  BY <1>1 DEF BotInv, BotKinds, BA!Uncovered
<1>5. BotKinds' /\ DueIsPending' /\ DegradedIsKnown' /\ ChangeWasChecked'
  BY <1>1, <1>2, <1>4 DEF BotInv, BotKinds, DueIsPending, DegradedIsKnown, ChangeWasChecked
<1>6. ASSUME NEW x \in Trusted, NEW t \in BA!Chats
      PROVE  /\ records'[x] = records[x]
             /\ <<x, t>> \in due' \cup unpaid' <=> <<x, t>> \in due \cup unpaid
  BY <1>1, <1>2, <1>3, <1>4 DEF BotInv, BotKinds
<1>7. Separate(Trusted, active, records, due \cup unpaid)'
  <2> SUFFICES ASSUME NEW x \in Trusted, NEW y \in Trusted, NEW t \in BA!Chats, x # y
        PROVE  /\ BA!KindOf(t) \in active[x].claims => BA!KindOf(t) \notin active[y].claims
               /\ BA!KindOf(t) \in active[x].claims /\ t \in records'[y] => <<y, t>> \in due' \cup unpaid'
               /\ t \in records'[x] /\ t \in records'[y]
                     => <<x, t>> \in due' \cup unpaid' \/ <<y, t>> \in due' \cup unpaid'
    BY <1>1, <1>3 DEF Separate
  <2> QED
    BY <1>6, TrustedMeetNowhere
<1> QED
  BY <1>5, <1>7 DEF BotInv

LEMMA StartBarrierKeeps ==
    ASSUME BotInv, BA!StartBarrier
    PROVE  BotInv'
<1>1. /\ phase = "reconciling" /\ waiting = {} /\ passed = {} /\ phase' = "connecting"
      /\ waiting' = {b \in Bots : active[b].on} \ (open \cup degraded)
      /\ UNCHANGED <<active, target, open, passed, degraded, records, due, unpaid, unsound>>
  BY DEF BA!StartBarrier
<1>2. BotKinds' /\ DueIsPending' /\ DegradedIsKnown' /\ ChangeWasChecked'
  BY <1>1 DEF BotInv, BotKinds, DueIsPending, DegradedIsKnown, ChangeWasChecked
<1>3. Trusted' = Trusted
  BY <1>1 DEF Trusted
<1>4. Separate(Trusted, active, records, due \cup unpaid)'
  BY <1>1, <1>3 DEF BotInv, Separate
<1> QED
  BY <1>2, <1>4 DEF BotInv

\* Who passes the barrier meets none of those that have passed it or stayed.
LEMMA BarrierKeeps ==
    ASSUME BotInv, NEW b \in Bots, BA!Barrier(b)
    PROVE  BotInv'
<1> DEFINE admitted == (open \cup passed) \ degraded
<1>1. /\ phase = "connecting" /\ b \in waiting /\ waiting' = waiting \ {b}
      /\ UNCHANGED <<active, target, phase, open, records, due, unpaid, unsound>>
  BY DEF BA!Barrier
<1>2. b \notin open \cup passed \cup degraded
  BY <1>1 DEF BotInv, DegradedIsKnown
<1>3. Trusted = (open \cup passed) \ unsound /\ Trusted' = ((open \cup passed) \ unsound)'
  BY <1>1 DEF Trusted
<1>4. CASE BA!Conflict(active, admitted \cup {b}, records)
  <2>1. degraded' = degraded \cup {b} /\ passed' = passed
    BY <1>4 DEF BA!Barrier
  <2>2. BotKinds' /\ DueIsPending' /\ DegradedIsKnown' /\ ChangeWasChecked'
    BY <1>1, <1>2, <2>1 DEF BotInv, BotKinds, DueIsPending, DegradedIsKnown, ChangeWasChecked
  <2>3. Separate(Trusted, active, records, due \cup unpaid)'
    BY <1>1, <1>3, <2>1 DEF BotInv, Separate
  <2> QED
    BY <2>2, <2>3 DEF BotInv
<1>5. CASE ~BA!Conflict(active, admitted \cup {b}, records)
  <2>1. passed' = passed \cup {b} /\ degraded' = degraded
    BY <1>5 DEF BA!Barrier
  <2>2. BotKinds' /\ DueIsPending' /\ DegradedIsKnown' /\ ChangeWasChecked'
    BY <1>1, <1>2, <2>1 DEF BotInv, BotKinds, DueIsPending, DegradedIsKnown, ChangeWasChecked
  <2>3. Separate(admitted \cup {b}, active, records, {})
    BY <1>5, NoConflictSeparates
  <2>4. Trusted' \subseteq admitted \cup {b}
    BY <1>1, <1>3, <2>1 DEF BotInv, DegradedIsKnown
  <2>5. Separate(Trusted', active, records, due \cup unpaid)
    BY <2>3, <2>4, SeparateFewer
  <2>6. Separate(Trusted, active, records, due \cup unpaid)'
    BY <1>1, <2>5 DEF Separate
  <2> QED
    BY <2>2, <2>6 DEF BotInv
<1> QED
  BY <1>4, <1>5

LEMMA FinishKeeps ==
    ASSUME BotInv, BA!Finish
    PROVE  BotInv'
<1>1. /\ phase = "connecting" /\ waiting = {} /\ phase' = "idle"
      /\ open' = open \cup passed /\ passed' = {}
      /\ UNCHANGED <<active, target, waiting, degraded, records, due, unpaid, unsound>>
  BY DEF BA!Finish
<1>2. BotKinds' /\ DueIsPending' /\ DegradedIsKnown' /\ ChangeWasChecked'
  BY <1>1 DEF BotInv, BotKinds, DueIsPending, DegradedIsKnown, ChangeWasChecked
<1>3. Trusted' = Trusted
  BY <1>1 DEF Trusted
<1>4. Separate(Trusted, active, records, due \cup unpaid)'
  BY <1>1, <1>3 DEF BotInv, Separate
<1> QED
  BY <1>2, <1>4 DEF BotInv

\* A start is refused, or nobody meets anybody.
LEMMA BootKeeps ==
    ASSUME BotInv, NEW config \in BA!Configurations, BA!Boot(config)
    PROVE  BotInv'
<1> DEFINE on == {b \in Bots : config[b].on}
<1>1. /\ active' = config /\ target' = config /\ waiting' = {} /\ passed' = {}
      /\ degraded' = {} /\ unsound' = {} /\ due' = {} /\ unpaid' = {}
      /\ IF BA!Conflict(config, on, records') THEN phase' = "down" /\ open' = {}
         ELSE phase' = "idle" /\ open' = on
  BY DEF BA!Boot
<1>2. records' \in [Bots -> SUBSET BA!Chats]
  <2>1. PICK failed : records' = [b \in Bots |-> {r \in records[b] :
                                    r \in BA!Uncovered(config, b) => <<b, r>> \in failed}]
    BY DEF BA!Boot
  <2> QED
    BY <2>1 DEF BotInv, BotKinds
<1>3. BotKinds' /\ DueIsPending' /\ DegradedIsKnown' /\ ChangeWasChecked'
  BY <1>1, <1>2 DEF BotInv, BotKinds, DueIsPending, DegradedIsKnown, ChangeWasChecked
<1>4. Separate(Trusted, active, records, due \cup unpaid)'
  <2>1. CASE BA!Conflict(config, on, records')
    BY <1>1, <2>1 DEF Separate, Trusted
  <2>2. CASE ~BA!Conflict(config, on, records')
    <3>1. Separate(on, config, records', {})
      BY <2>2, NoConflictSeparates
    <3>2. Trusted' = on
      BY <1>1, <2>2 DEF Trusted
    <3> QED
      BY <1>1, <3>1, <3>2 DEF Separate
  <2> QED
    BY <2>1, <2>2
<1> QED
  BY <1>3, <1>4 DEF BotInv

LEMMA NextBotInv ==
    ASSUME BotInv, [BA!Next]_baVars
    PROVE  BotInv'
<1>1. CASE UNCHANGED baVars
  BY <1>1 DEF baVars, BotInv, BotKinds, DueIsPending, DegradedIsKnown, ChangeWasChecked,
              Separate, Trusted, BA!Kept, BA!Changed, BA!Gone, BA!RulesChanged
<1>2. CASE BA!Next
  BY <1>2, ReceiveKeeps, ExpireKeeps, ReloadKeeps, RemoveKeeps, InstallKeeps, ReconcileKeeps,
     SettleKeeps, StartBarrierKeeps, BarrierKeeps, FinishKeeps, BootKeeps DEF BA!Next
<1> QED
  BY <1>1, <1>2

-----------------------------------------------------------------------------
\* Bots that meet nowhere but at excused records do not both answer.
LEMMA SeparateAnswersOnce ==
    ASSUME BotInv
    PROVE  BA!OneAnswer
<1> SUFFICES ASSUME NEW r \in BA!Chats
             PROVE  BA!Cardinality({b \in Bots : BA!Answers(b, r)}) <= 1
  BY DEF BA!OneAnswer
<1> DEFINE A == {b \in Bots : BA!Answers(b, r)}
<1>1. ASSUME NEW x \in A, NEW y \in A PROVE x = y
  <2> SUFFICES ASSUME x # y PROVE FALSE
    OBVIOUS
  <2>1. x \in open \ unsound /\ y \in open \ unsound
    BY DEF BA!Answers
  <2>2. x \in Trusted /\ y \in Trusted
    BY <2>1 DEF BotInv, DegradedIsKnown, Trusted
  <2> QED
    BY <2>2, TrustedMeetNowhere DEF BA!Answers
<1>2. CASE A = {}
  BY <1>2, FS_EmptySet, BotSets
<1>3. CASE A # {}
  <2>1. PICK x : x \in A
    BY <1>3
  <2>2. A = {x}
    BY <1>1, <2>1
  <2>3. BA!Cardinality({x}) = 1
    BY FS_Singleton, BotSets
  <2> QED
    BY <2>2, <2>3
<1> QED
  BY <1>2, <1>3

-----------------------------------------------------------------------------
(* What holds of the parts beside each other.                               *)

\* A sender's live count is the number of its posts that hold a turn of it, and nobody is
\* refused before the budget is really spent, however deliveries overlap resets, expiries
\* and each other (check_and_increment, release_turn, reset_by_human and _gc).
THEOREM TheBudgetIsHonest ==
    ASSUME Parameters
    PROVE  Spec => []BudgetHonest
<1>1. Init => ChainInv
  BY InitChainInv DEF Init
<1>2. [Next]_<<kind, rcVars, wsVars, acVars, baVars, callVars>> => [AC!Next]_acVars
  BY DEF Next
<1>3. ChainInv /\ [AC!Next]_acVars => ChainInv'
  BY NextChainInv
<1>4. ChainInv => BudgetHonest
  BY DEF ChainInv, TurnsHeld, Live, AC!BudgetHonest, BudgetHonest
<1> QED
  BY <1>1, <1>2, <1>3, <1>4, PTL DEF Spec

\* No direct message is answered by two bots of one account, whatever the rules, the reloads
\* and the records that outlive their rules, but at the records a reload is about to expire
\* or has reported (find_identity_conflicts, _kept_identity_conflict, reconcile_live).
THEOREM OneBotAnswers == Spec => []OneAnswer
<1>1. Init => BotInv
  BY InitBotInv DEF Init
<1>2. [Next]_<<kind, rcVars, wsVars, acVars, baVars, callVars>> => [BA!Next]_baVars
  BY DEF Next, callVars
<1>3. BotInv /\ [BA!Next]_baVars => BotInv'
  BY NextBotInv
<1>4. BotInv => OneAnswer
  BY SeparateAnswersOnce DEF OneAnswer
<1> QED
  BY <1>1, <1>2, <1>3, <1>4, PTL DEF Spec

-----------------------------------------------------------------------------
(* Who waits for a lock: a sequence without repetitions.                    *)

In(e, q) == \E i \in 1 .. Len(q) : q[i] = e
Distinct(q) == \A i, j \in 1 .. Len(q) : q[i] = q[j] => i = j

\* A set of positions has a first one.
LEMMA First ==
    ASSUME NEW T, T \subseteq Nat, T # {}
    PROVE  \E i \in T : \A j \in T : i <= j
<1>1. IsWellFoundedOn(OpToRel(<, Nat), Nat)
  BY NatLessThanWellFounded
<1>2. \E x \in T : \A y \in T : ~ (<<y, x>> \in OpToRel(<, Nat))
  BY <1>1, WFMin, Zenon
<1>3. OpToRel(<, Nat) = {ss \in Nat \X Nat : ss[1] < ss[2]}
  BY Zenon DEF OpToRel
<1>4. PICK i \in T : \A j \in T : ~ (<<j, i>> \in OpToRel(<, Nat))
  BY <1>2
<1>5. ASSUME NEW j \in T PROVE ~ (j < i)
  <2>1. ~ (<<j, i>> \in {ss \in Nat \X Nat : ss[1] < ss[2]})
    BY <1>3, <1>4, Zenon
  <2> QED
    BY <2>1
<1> QED
  BY <1>5

\* A sequence without its i-th element.
LEMMA Removed ==
    ASSUME NEW S, NEW a \in Seq(S), NEW i \in 1 .. Len(a)
    PROVE  LET b == SubSeq(a, 1, i - 1) \o SubSeq(a, i + 1, Len(a))
           IN  /\ b \in Seq(S)
               /\ Len(b) = Len(a) - 1
               /\ \A p \in 1 .. Len(a) - 1 : b[p] = IF p < i THEN a[p] ELSE a[p + 1]
<1> DEFINE x == SubSeq(a, 1, i - 1)  y == SubSeq(a, i + 1, Len(a))
<1>0. /\ i - 1 \in Int /\ i + 1 \in Int /\ Len(a) \in Int
      /\ \A k \in 1 .. i - 1 : a[k] \in S
      /\ \A k \in i + 1 .. Len(a) : a[k] \in S
  OBVIOUS
<1>1. x \in Seq(S) /\ Len(x) = i - 1 /\ \A p \in 1 .. i - 1 : x[p] = a[p]
  BY <1>0, SubSeqProperties
<1>2. y \in Seq(S) /\ Len(y) = Len(a) - i /\ \A p \in 1 .. Len(a) - i : y[p] = a[i + p]
  <2>1. /\ y \in Seq(S)
        /\ Len(y) = IF i + 1 <= Len(a) THEN Len(a) - (i + 1) + 1 ELSE 0
        /\ \A p \in 1 .. Len(a) - (i + 1) + 1 : y[p] = a[i + 1 + p - 1]
    BY <1>0, SubSeqProperties
  <2> QED
    BY <2>1
<1> HIDE DEF x, y
<1>4. /\ x \o y \in Seq(S) /\ Len(x \o y) = Len(x) + Len(y)
      /\ \A p \in 1 .. Len(x) + Len(y) :
            (x \o y)[p] = IF p <= Len(x) THEN x[p] ELSE y[p - Len(x)]
  BY <1>1, <1>2, ConcatProperties
<1>5. Len(x) + Len(y) = Len(a) - 1
  BY <1>1, <1>2
<1>6. ASSUME NEW p \in 1 .. Len(a) - 1
      PROVE  (x \o y)[p] = IF p < i THEN a[p] ELSE a[p + 1]
  <2>1. CASE p < i
    BY <1>1, <1>4, <1>5, <2>1
  <2>2. CASE ~(p < i)
    <3>1. p - Len(x) \in 1 .. Len(a) - i /\ ~(p <= Len(x)) /\ i + (p - Len(x)) = p + 1
      BY <1>1, <2>2
    <3>2. (x \o y)[p] = y[p - Len(x)]
      BY <1>4, <1>5, <3>1
    <3> QED
      BY <1>2, <2>2, <3>1, <3>2
  <2> QED
    BY <2>1, <2>2
<1>7. /\ x \o y \in Seq(S) /\ Len(x \o y) = Len(a) - 1
      /\ \A p \in 1 .. Len(a) - 1 : (x \o y)[p] = IF p < i THEN a[p] ELSE a[p + 1]
  BY <1>4, <1>5, <1>6
<1> QED
  BY <1>7 DEF x, y

\* What a waiter that leaves leaves behind.
Leaves(q, c, b) ==
    /\ Distinct(b)
    /\ \A e : In(e, b) <=> e # c /\ In(e, q)
    /\ q # <<>> /\ q[1] # c => b # <<>> /\ b[1] = q[1]

LEMMA Leaving ==
    ASSUME NEW S, NEW q \in Seq(S), Distinct(q), NEW c, NEW b,
           \/ ~In(c, q) /\ b = q
           \/ \E i \in 1 .. Len(q) :
                 q[i] = c /\ b = SubSeq(q, 1, i - 1) \o SubSeq(q, i + 1, Len(q))
    PROVE  b \in Seq(S) /\ Leaves(q, c, b)
<1>1. CASE ~In(c, q) /\ b = q
  BY <1>1 DEF Leaves, In
<1>2. ASSUME NEW i \in 1 .. Len(q), q[i] = c,
             b = SubSeq(q, 1, i - 1) \o SubSeq(q, i + 1, Len(q))
      PROVE  b \in Seq(S) /\ Leaves(q, c, b)
  <2>1. /\ b \in Seq(S)
        /\ Len(b) = Len(q) - 1
        /\ \A p \in 1 .. Len(q) - 1 : b[p] = IF p < i THEN q[p] ELSE q[p + 1]
    <3> DEFINE r == SubSeq(q, 1, i - 1) \o SubSeq(q, i + 1, Len(q))
    <3>1. /\ r \in Seq(S)
          /\ Len(r) = Len(q) - 1
          /\ \A p \in 1 .. Len(q) - 1 : r[p] = IF p < i THEN q[p] ELSE q[p + 1]
      BY Removed
    <3>2. b = r
      BY <1>2
    <3> QED
      BY <3>1, <3>2
  <2>2. Distinct(b)
    BY <2>1 DEF Distinct
  <2>3. ASSUME NEW e, In(e, b) PROVE e # c /\ In(e, q)
    <3>1. PICK p \in 1 .. Len(b) : b[p] = e
      BY <2>3 DEF In
    <3>2. CASE p < i
      <4>1. p \in 1 .. Len(q) /\ q[p] = e /\ p # i
        BY <2>1, <3>1, <3>2
      <4> QED
        BY <1>2, <4>1 DEF Distinct, In
    <3>3. CASE ~(p < i)
      <4>1. p + 1 \in 1 .. Len(q) /\ q[p + 1] = e /\ p + 1 # i
        BY <2>1, <3>1, <3>3
      <4> QED
        BY <1>2, <4>1 DEF Distinct, In
    <3> QED
      BY <3>2, <3>3
  <2>4. ASSUME NEW e, e # c, In(e, q) PROVE In(e, b)
    <3>1. PICK j \in 1 .. Len(q) : q[j] = e
      BY <2>4 DEF In
    <3>2. CASE j < i
      BY <2>1, <3>1, <3>2 DEF In
    <3>3. CASE ~(j < i)
      <4>1. j - 1 \in 1 .. Len(b) /\ b[j - 1] = q[j]
        <5>1. j # i
          BY <1>2, <2>4, <3>1
        <5>2. j - 1 \in 1 .. Len(q) - 1 /\ ~(j - 1 < i) /\ (j - 1) + 1 = j
          BY <3>1, <3>3, <5>1
        <5> QED
          BY <2>1, <5>2
      <4> QED
        BY <3>1, <4>1 DEF In
    <3> QED
      BY <3>2, <3>3
  <2>5. ASSUME q # <<>>, q[1] # c PROVE b # <<>> /\ b[1] = q[1]
    <3>1. 1 < i
      BY <1>2, <2>5
    <3> QED
      BY <2>1, <3>1
  <2> QED
    BY <2>1, <2>2, <2>3, <2>4, <2>5 DEF Leaves
<1> QED
  BY <1>1, <1>2

\* One more waits.
LEMMA Joining ==
    ASSUME NEW S, NEW q \in Seq(S), Distinct(q), NEW c \in S, ~In(c, q)
    PROVE  /\ Append(q, c) \in Seq(S) /\ Distinct(Append(q, c))
           /\ \A e : In(e, Append(q, c)) <=> e = c \/ In(e, q)
           /\ Append(q, c) # <<>>
           /\ q # <<>> => Append(q, c)[1] = q[1]
<1>1. /\ Append(q, c) \in Seq(S) /\ Len(Append(q, c)) = Len(q) + 1
      /\ \A i \in 1 .. Len(q) : Append(q, c)[i] = q[i]
      /\ Append(q, c)[Len(q) + 1] = c
  BY AppendProperties
<1>2. Distinct(Append(q, c))
  BY <1>1 DEF Distinct, In
<1>3. ASSUME NEW e, In(e, q) PROVE In(e, Append(q, c))
  BY <1>1, <1>3 DEF In
<1>4. In(c, Append(q, c))
  BY <1>1 DEF In
<1>5. ASSUME NEW e, In(e, Append(q, c)) PROVE e = c \/ In(e, q)
  BY <1>1, <1>5 DEF In
<1>6. Append(q, c) # <<>> /\ (q # <<>> => Append(q, c)[1] = q[1])
  BY <1>1
<1> QED
  BY <1>1, <1>2, <1>3, <1>4, <1>5, <1>6

-----------------------------------------------------------------------------
(* A voice room: the inductive invariant.                                   *)

Said == [status : {"text"}, by : SUBSET Requests, during : Requests]
Answers == [status : VR!Status, by : SUBSET Requests, during : Requests \cup {Nobody}]

Holds(r) == at[r] \in {"handler", "waiting"}
Early == \E q \in Requests : VR!AnsweredEarly(q)

\* The room's lock: its queue is who waits for it, and its first one holds it.
RoomLocked ==
    /\ at \in [Requests -> {"idle", "lock", "handler", "waiting", "answered"}]
    /\ waiters \in Seq(Requests) /\ Distinct(waiters)
    /\ \A r \in Requests : at[r] \in {"lock", "handler", "waiting"} <=> In(r, waiters)
    /\ \A r \in Requests : Holds(r) => waiters # <<>> /\ waiters[1] = r

\* The texts that are kept were sent to who waits.
TextsKept ==
    /\ listening \in BOOLEAN /\ (listening <=> \E r \in Requests : at[r] = "waiting")
    /\ texts \in Seq(Said)
    /\ \A r \in Requests : at[r] = "handler" => texts = <<>>
    /\ \A r \in Requests : at[r] = "waiting" =>
          \A i \in 1 .. Len(texts) : texts[i].during = r

TextsTold ==
    /\ told \in [Requests -> Answers]
    /\ \A r \in Requests : at[r] # "answered" => told[r] = VR!NoText
    /\ \A r \in Requests : told[r].status = "text" => told[r].during = r

\* As long as no request was answered early, only who waits is asked about, once.
OneAtATime ==
    /\ \A r \in Requests : told[r].status = "text" => r \in told[r].by
    /\ Len(accepted) <= 1 /\ \A i \in 1 .. Len(accepted) : at[accepted[i]] = "waiting"
    /\ \A q \in turn : at[q] = "waiting"
    /\ turn # {} => accepted = <<>>
    /\ \A i \in 1 .. Len(texts) : texts[i].by # {} => accepted = <<>> /\ turn = {}
    /\ \A r \in Requests : at[r] = "waiting" => \A i \in 1 .. Len(texts) : texts[i].by \subseteq {r}

VoiceInv ==
    /\ RoomLocked /\ TextsKept /\ TextsTold
    /\ accepted \in Seq(Requests) /\ turn \subseteq Requests
    /\ ~Early => OneAtATime

\* Two requests never hold the lock at once.
LEMMA OneHolder ==
    ASSUME RoomLocked, NEW r \in Requests, NEW s \in Requests, Holds(r), Holds(s)
    PROVE  r = s
  BY DEF RoomLocked

\* A request that has its answer is out of the lock's queue.
LEMMA Unlocked ==
    ASSUME RoomLocked, NEW r \in Requests, waiters' = VR!RemoveFirst(waiters, r)
    PROVE  waiters' \in Seq(Requests) /\ Leaves(waiters, r, waiters')
<1>1. CASE ~In(r, waiters)
  <2>1. waiters' = waiters
    BY <1>1 DEF VR!RemoveFirst, In
  <2> QED
    BY <1>1, <2>1, Leaving DEF RoomLocked
<1>2. CASE In(r, waiters)
  <2> DEFINE I == {i \in 1 .. Len(waiters) : waiters[i] = r}
  <2>1. I \subseteq Nat /\ I # {}
    BY <1>2 DEF In
  <2>2. \E x \in I : \A y \in I : x =< y
    BY <2>1, First
  <2>3. VR!Min(I) \in I
    BY <2>2 DEF VR!Min
  <2>4. waiters' = VR!RemoveAt(waiters, VR!Min(I))
    BY <1>2 DEF VR!RemoveFirst, VR!SelectInSeq, In
  <2>5. \E i \in 1 .. Len(waiters) :
           waiters[i] = r
           /\ waiters' = SubSeq(waiters, 1, i - 1) \o SubSeq(waiters, i + 1, Len(waiters))
    BY <2>3, <2>4 DEF VR!RemoveAt
  <2> QED
    BY <2>5, Leaving DEF RoomLocked
<1> QED
  BY <1>1, <1>2

\* What an answer does to its request and to no other.
LEMMA AnswerFits ==
    ASSUME VoiceInv, NEW r \in Requests, at[r] # "answered", NEW t \in Answers,
           VR!Answer(r, t), t.status = "text" => t.during = r
    PROVE  /\ RoomLocked' /\ TextsTold' /\ (Early => Early')
           /\ at'[r] = "answered" /\ told'[r] = t
           /\ \A s \in Requests : s # r => at'[s] = at[s] /\ told'[s] = told[s]
<1>1. /\ at' = [at EXCEPT ![r] = "answered"] /\ told' = [told EXCEPT ![r] = t]
      /\ waiters' = VR!RemoveFirst(waiters, r)
  BY DEF VR!Answer
<1>2. /\ at'[r] = "answered" /\ told'[r] = t
      /\ \A s \in Requests : s # r => at'[s] = at[s] /\ told'[s] = told[s]
  BY <1>1 DEF VoiceInv, RoomLocked, TextsTold
<1>3. waiters' \in Seq(Requests) /\ Leaves(waiters, r, waiters')
  BY <1>1, Unlocked DEF VoiceInv
<1>4. ASSUME NEW s \in Requests
      PROVE  /\ at'[s] \in {"lock", "handler", "waiting"} <=> In(s, waiters')
             /\ Holds(s)' => waiters' # <<>> /\ waiters'[1] = s
  <2>1. CASE s = r
    BY <1>2, <1>3, <2>1 DEF Leaves, Holds
  <2>2. CASE s # r
    BY <1>2, <1>3, <2>2 DEF Leaves, Holds, VoiceInv, RoomLocked
  <2> QED
    BY <2>1, <2>2
<1>5. RoomLocked'
  <2>1. at' \in [Requests -> {"idle", "lock", "handler", "waiting", "answered"}]
    BY <1>1 DEF VoiceInv, RoomLocked
  <2> QED
    BY <1>3, <1>4, <2>1 DEF RoomLocked, Leaves
<1>6. TextsTold'
  <2>1. told' \in [Requests -> Answers]
    BY <1>1 DEF VoiceInv, TextsTold
  <2>2. ASSUME NEW s \in Requests
        PROVE  /\ at'[s] # "answered" => told'[s] = VR!NoText
               /\ told'[s].status = "text" => told'[s].during = s
    <3>1. CASE s = r
      BY <1>2, <3>1
    <3>2. CASE s # r
      BY <1>2, <3>2 DEF VoiceInv, TextsTold
    <3> QED
      BY <3>1, <3>2
  <2> QED
    BY <2>1, <2>2 DEF TextsTold, VR!NoText
<1>7. ASSUME Early PROVE Early'
  <2>1. PICK q \in Requests : VR!AnsweredEarly(q)
    BY <1>7 DEF Early
  <2>2. told[r].status = "nothing"
    BY DEF VoiceInv, TextsTold, VR!NoText
  <2>3. q # r
    BY <2>1, <2>2 DEF VR!AnsweredEarly
  <2>4. VR!AnsweredEarly(q)'
    BY <1>2, <2>1, <2>3 DEF VR!AnsweredEarly
  <2> QED
    BY <2>4 DEF Early
<1> QED
  BY <1>2, <1>5, <1>6, <1>7

\* An answer to a request that does not wait for a text.
LEMMA OthersAnswered ==
    ASSUME VoiceInv, NEW r \in Requests, at[r] \notin {"answered", "waiting"},
           NEW t \in Answers, t.status # "text", VR!Answer(r, t),
           UNCHANGED <<texts, listening, turn>>,
           accepted' \in Seq(Requests), accepted' = accepted \/ Early'
    PROVE  VoiceInv'
<1>1. /\ RoomLocked' /\ TextsTold' /\ (Early => Early')
      /\ at'[r] = "answered" /\ told'[r] = t
      /\ \A s \in Requests : s # r => at'[s] = at[s] /\ told'[s] = told[s]
  BY AnswerFits
<1>2. TextsKept'
  BY <1>1 DEF VoiceInv, TextsKept
<1>3. ASSUME ~Early' PROVE OneAtATime'
  <2>1. accepted' = accepted /\ OneAtATime
    BY <1>1, <1>3 DEF VoiceInv
  <2>2. ASSUME NEW s \in Requests, told'[s].status = "text" PROVE s \in told'[s].by
    BY <1>1, <2>1, <2>2 DEF OneAtATime
  <2>3. \A s \in Requests : at[s] = "waiting" <=> at'[s] = "waiting"
    BY <1>1
  <2>4. \A i \in 1 .. Len(accepted) : accepted[i] \in Requests
    BY DEF VoiceInv
  <2>5. \A q \in turn : q \in Requests
    BY DEF VoiceInv
  <2> QED
    BY <2>1, <2>2, <2>3, <2>4, <2>5 DEF OneAtATime
<1> QED
  BY <1>1, <1>2, <1>3 DEF VoiceInv

\* An answer to the request that waits.
LEMMA WaiterAnswered ==
    ASSUME VoiceInv, NEW r \in Requests, at[r] = "waiting",
           NEW t \in Answers, t.status = "text" => t.during = r, VR!Answer(r, t),
           listening' = FALSE, texts' \in Seq(Said), UNCHANGED <<accepted, turn>>,
           OneAtATime =>
              \/ Early'
              \/ (t.status = "text" => r \in t.by) /\ accepted = <<>> /\ turn = {}
    PROVE  VoiceInv'
<1>1. /\ RoomLocked' /\ TextsTold' /\ (Early => Early')
      /\ at'[r] = "answered" /\ told'[r] = t
      /\ \A s \in Requests : s # r => at'[s] = at[s] /\ told'[s] = told[s]
  BY AnswerFits
<1>2. \A s \in Requests : at'[s] \notin {"handler", "waiting"}
  BY <1>1, OneHolder DEF VoiceInv, Holds
<1>3. TextsKept'
  BY <1>2 DEF TextsKept
<1>4. ASSUME ~Early' PROVE OneAtATime'
  <2>1. OneAtATime /\ accepted' = <<>> /\ turn' = {} /\ (t.status = "text" => r \in t.by)
    BY <1>1, <1>4 DEF VoiceInv
  <2>2. ASSUME NEW s \in Requests, told'[s].status = "text" PROVE s \in told'[s].by
    BY <1>1, <2>1, <2>2 DEF OneAtATime
  <2> QED
    BY <1>2, <2>1, <2>2 DEF OneAtATime
<1> QED
  BY <1>1, <1>3, <1>4 DEF VoiceInv

\* A text is for whoever waits, and for nobody otherwise.
LEMMA TextFits ==
    ASSUME VoiceInv, NEW by \in SUBSET Requests, VR!SendText(by),
           UNCHANGED <<at, waiters, listening, told>>
    PROVE  /\ RoomLocked' /\ TextsKept' /\ TextsTold' /\ Early' = Early
           /\ \/ texts' = texts
              \/ \E r \in Requests :
                    at[r] = "waiting"
                    /\ texts' = Append(texts, [status |-> "text", by |-> by, during |-> r])
<1>1. RoomLocked' /\ TextsTold' /\ Early' = Early
  BY DEF VoiceInv, RoomLocked, Holds, TextsTold, Early, VR!AnsweredEarly
<1>2. CASE ~listening
  <2>1. texts' = texts
    BY <1>2 DEF VR!SendText, VR!Heard
  <2> QED
    BY <1>1, <2>1 DEF VoiceInv, TextsKept
<1>3. CASE listening
  <2>1. PICK r \in Requests : at[r] = "waiting"
    BY <1>3 DEF VoiceInv, TextsKept
  <2>2. VR!Holder = r
    BY <2>1 DEF VR!Holder, VoiceInv, RoomLocked, Holds
  <2> DEFINE text == [status |-> "text", by |-> by, during |-> r]
  <2>3. texts' = Append(texts, text)
    BY <1>3, <2>2 DEF VR!SendText, VR!Heard
  <2>4. text \in Said /\ text.during = r
    BY DEF Said
  <2> HIDE DEF text
  <2>5. /\ texts' \in Seq(Said) /\ Len(texts') = Len(texts) + 1
        /\ \A i \in 1 .. Len(texts) : texts'[i] = texts[i]
        /\ texts'[Len(texts) + 1] = text
    BY <2>3, <2>4, AppendProperties DEF VoiceInv, TextsKept
  <2>6. ASSUME NEW s \in Requests, at[s] \in {"handler", "waiting"} PROVE s = r
    BY <2>1, <2>6, OneHolder DEF VoiceInv, Holds
  <2>7. \A i \in 1 .. Len(texts') : texts'[i].during = r
    <3>1. \A i \in 1 .. Len(texts) : texts[i].during = r
      BY <2>1 DEF VoiceInv, TextsKept
    <3> QED
      BY <2>4, <2>5, <3>1
  <2>8. TextsKept'
    BY <2>1, <2>5, <2>6, <2>7 DEF VoiceInv, TextsKept
  <2> QED
    BY <1>1, <2>1, <2>3, <2>8 DEF text
<1> QED
  BY <1>2, <1>3 DEF VoiceInv, TextsKept

LEMMA InitVoiceInv == VR!Init => VoiceInv
<1> SUFFICES ASSUME VR!Init PROVE VoiceInv
  OBVIOUS
<1>1. RoomLocked
  BY DEF VR!Init, RoomLocked, Distinct, In, Holds
<1>2. TextsKept
  <2>1. /\ listening = FALSE /\ texts = <<>> /\ \A r \in Requests : at[r] = "idle"
    BY DEF VR!Init
  <2>2. listening \in BOOLEAN /\ (listening <=> \E r \in Requests : at[r] = "waiting")
    BY <2>1
  <2>3. texts \in Seq(Said)
    BY <2>1
  <2> QED
    BY <2>1, <2>2, <2>3 DEF TextsKept
<1>3. TextsTold
  <2>1. VR!NoText \in Answers /\ VR!NoText.status = "nothing"
    BY DEF VR!NoText, Answers, VR!Status
  <2> QED
    BY <2>1 DEF VR!Init, TextsTold
<1>4. OneAtATime
  BY <1>3 DEF VR!Init, OneAtATime, TextsTold, VR!NoText
<1> QED
  BY <1>1, <1>2, <1>3, <1>4 DEF VoiceInv, VR!Init

\* What is said to a caller that is told no text.
LEMMA OnlyFits ==
    ASSUME NEW s \in {"refused", "busy", "timeout", "504"}
    PROVE  VR!Only(s) \in Answers /\ VR!Only(s).status = s
  BY DEF VR!Only, VR!NoText, Answers, VR!Status

LEMMA AsksWell ==
    ASSUME VoiceInv, NEW r \in Requests, VR!Refuse(r) \/ VR!Ask(r)
    PROVE  VoiceInv'
<1>1. CASE VR!Refuse(r)
  <2>1. /\ at[r] = "idle" /\ VR!Answer(r, VR!Only("refused"))
        /\ UNCHANGED <<texts, listening, accepted, turn>>
    BY <1>1 DEF VR!Refuse
  <2> QED
    BY <2>1, OnlyFits, OthersAnswered DEF VoiceInv
<1>2. CASE VR!Ask(r)
  <2>1. /\ at[r] = "idle" /\ at' = [at EXCEPT ![r] = "lock"] /\ waiters' = Append(waiters, r)
        /\ UNCHANGED <<texts, listening, accepted, turn, told>>
    BY <1>2 DEF VR!Ask
  <2>2. at'[r] = "lock" /\ \A s \in Requests : s # r => at'[s] = at[s]
    BY <2>1 DEF VoiceInv, RoomLocked
  <2>3. waiters \in Seq(Requests) /\ Distinct(waiters) /\ ~In(r, waiters)
    BY <2>1 DEF VoiceInv, RoomLocked
  <2>4. /\ waiters' \in Seq(Requests) /\ Distinct(waiters') /\ waiters' # <<>>
        /\ \A e : In(e, waiters') <=> e = r \/ In(e, waiters)
        /\ waiters # <<>> => waiters'[1] = waiters[1]
    BY <2>1, <2>3, Joining
  <2>5. ASSUME NEW s \in Requests
        PROVE  /\ at'[s] \in {"lock", "handler", "waiting"} <=> In(s, waiters')
               /\ Holds(s)' => waiters' # <<>> /\ waiters'[1] = s
    <3>1. CASE s = r
      BY <2>2, <2>4, <3>1 DEF Holds
    <3>2. CASE s # r
      BY <2>2, <2>4, <3>2 DEF Holds, VoiceInv, RoomLocked
    <3> QED
      BY <3>1, <3>2
  <2>6. RoomLocked'
    BY <2>1, <2>4, <2>5 DEF VoiceInv, RoomLocked
  <2>7. /\ \A s \in Requests : at'[s] = "waiting" <=> at[s] = "waiting"
        /\ \A s \in Requests : at'[s] = "handler" <=> at[s] = "handler"
        /\ \A s \in Requests : at'[s] = "answered" <=> at[s] = "answered"
    BY <2>1, <2>2
  <2>8. TextsKept' /\ TextsTold' /\ Early' = Early
    BY <2>1, <2>7 DEF VoiceInv, TextsKept, TextsTold, Early, VR!AnsweredEarly
  <2>9. OneAtATime => OneAtATime'
    BY <2>1, <2>7 DEF VoiceInv, OneAtATime
  <2> QED
    BY <2>1, <2>6, <2>8, <2>9 DEF VoiceInv
<1> QED
  BY <1>1, <1>2

LEMMA EntersWell ==
    ASSUME VoiceInv, NEW r \in Requests, VR!Enter(r)
    PROVE  VoiceInv'
<1>1. /\ at[r] = "lock" /\ Head(waiters) = r /\ at' = [at EXCEPT ![r] = "handler"]
      /\ texts' = <<>> /\ UNCHANGED <<waiters, listening, accepted, turn, told>>
  BY DEF VR!Enter, VR!Drained
<1>2. at'[r] = "handler" /\ \A s \in Requests : s # r => at'[s] = at[s]
  BY <1>1 DEF VoiceInv, RoomLocked
<1>3. waiters # <<>> /\ waiters[1] = r
  <2>1. In(r, waiters) /\ waiters \in Seq(Requests)
    BY <1>1 DEF VoiceInv, RoomLocked
  <2> QED
    BY <1>1, <2>1 DEF In
<1>4. RoomLocked'
  <2>1. ASSUME NEW s \in Requests
        PROVE  /\ at'[s] \in {"lock", "handler", "waiting"} <=> In(s, waiters)
               /\ Holds(s)' => waiters # <<>> /\ waiters[1] = s
    <3>1. CASE s = r
      BY <1>1, <1>2, <1>3, <3>1 DEF VoiceInv, RoomLocked
    <3>2. CASE s # r
      BY <1>2, <3>2 DEF Holds, VoiceInv, RoomLocked
    <3> QED
      BY <3>1, <3>2
  <2> QED
    BY <1>1, <2>1 DEF VoiceInv, RoomLocked
<1>5. /\ \A s \in Requests : at'[s] = "waiting" <=> at[s] = "waiting"
      /\ \A s \in Requests : at'[s] = "answered" <=> at[s] = "answered"
  BY <1>1, <1>2
<1>6. TextsKept' /\ TextsTold' /\ Early' = Early
  BY <1>1, <1>5 DEF VoiceInv, TextsKept, TextsTold, Early, VR!AnsweredEarly
<1>7. OneAtATime => OneAtATime'
  BY <1>1, <1>5 DEF VoiceInv, OneAtATime
<1> QED
  BY <1>1, <1>4, <1>6, <1>7 DEF VoiceInv

LEMMA HandlesWell ==
    ASSUME VoiceInv, NEW r \in Requests, VR!Handled(r)
    PROVE  VoiceInv'
<1>1. CASE VR!Answer(r, VR!Only("busy")) /\ UNCHANGED <<listening, accepted>>
  <2>1. at[r] = "handler" /\ UNCHANGED <<texts, turn>>
    BY DEF VR!Handled
  <2> QED
    BY <1>1, <2>1, OnlyFits, OthersAnswered DEF VoiceInv
<1>2. CASE /\ at' = [at EXCEPT ![r] = "waiting"] /\ listening' = TRUE
           /\ accepted' \in {Append(accepted, r), accepted} /\ UNCHANGED <<waiters, told>>
  <2>1. at[r] = "handler" /\ UNCHANGED <<texts, turn>>
    BY DEF VR!Handled
  <2>2. at'[r] = "waiting" /\ \A s \in Requests : s # r => at'[s] = at[s]
    BY <1>2 DEF VoiceInv, RoomLocked
  <2>3. RoomLocked'
    <3>1. ASSUME NEW s \in Requests
          PROVE  /\ at'[s] \in {"lock", "handler", "waiting"} <=> In(s, waiters)
                 /\ Holds(s)' => waiters # <<>> /\ waiters[1] = s
      <4>1. CASE s = r
        BY <2>1, <2>2, <4>1 DEF Holds, VoiceInv, RoomLocked
      <4>2. CASE s # r
        BY <2>2, <4>2 DEF Holds, VoiceInv, RoomLocked
      <4> QED
        BY <4>1, <4>2
    <3> QED
      BY <1>2, <3>1 DEF VoiceInv, RoomLocked
  <2>4. texts = <<>> /\ \A s \in Requests : s # r => at[s] \notin {"handler", "waiting"}
    BY <2>1, OneHolder DEF VoiceInv, TextsKept, Holds
  <2>5. TextsKept'
    BY <1>2, <2>1, <2>2, <2>4 DEF VoiceInv, TextsKept
  <2>6. TextsTold' /\ Early' = Early
    BY <1>2, <2>1, <2>2 DEF VoiceInv, TextsTold, Early, VR!AnsweredEarly
  <2>7. accepted' \in Seq(Requests)
    BY <1>2 DEF VoiceInv
  <2>8. ASSUME OneAtATime PROVE OneAtATime'
    <3>1. turn = {}
      BY <2>1, <2>4, <2>8 DEF OneAtATime, VoiceInv
    <3>2. accepted = <<>>
      <4>1. \A i \in 1 .. Len(accepted) : accepted[i] \in Requests /\ at[accepted[i]] = "waiting"
        BY <2>8 DEF OneAtATime, VoiceInv
      <4>2. ~ (1 \in 1 .. Len(accepted))
        BY <2>1, <2>4, <4>1
      <4> QED
        BY <4>2 DEF VoiceInv
    <3>3. Len(accepted') <= 1 /\ \A i \in 1 .. Len(accepted') : accepted'[i] = r
      <4>1. CASE accepted' = accepted
        BY <3>2, <4>1
      <4>2. CASE accepted' = Append(accepted, r)
        <5>1. accepted \in Seq(Requests) /\ Len(accepted) = 0
          BY <3>2 DEF VoiceInv
        <5>2. Len(accepted') = 1 /\ accepted'[1] = r
          BY <4>2, <5>1, AppendProperties
        <5> QED
          BY <5>2
      <4> QED
        BY <1>2, <4>1, <4>2
    <3> QED
      BY <1>2, <2>1, <2>2, <2>4, <2>8, <3>1, <3>3 DEF OneAtATime
  <2> QED
    BY <2>1, <2>3, <2>5, <2>6, <2>7, <2>8 DEF VoiceInv
<1> QED
  BY <1>1, <1>2 DEF VR!Handled

LEMMA WakesWell ==
    ASSUME VoiceInv, NEW r \in Requests, VR!Wake(r)
    PROVE  VoiceInv'
<1>1. /\ at[r] = "waiting" /\ texts # <<>> /\ texts' = Tail(texts) /\ listening' = FALSE
      /\ VR!Answer(r, Head(texts)) /\ UNCHANGED <<accepted, turn>>
  BY DEF VR!Wake
<1>2. texts \in Seq(Said)
  BY DEF VoiceInv, TextsKept
<1>3. PICK t \in Said : t = Head(texts) /\ t = texts[1]
  BY <1>1, <1>2
<1>4. 1 \in 1 .. Len(texts) /\ texts' \in Seq(Said)
  BY <1>1, <1>2
<1>5. t \in Answers /\ t.status = "text" /\ t.during = r /\ t.by \in SUBSET Requests
  BY <1>1, <1>3, <1>4 DEF Said, Answers, VR!Status, VoiceInv, TextsKept
<1>6. told'[r] = t
  BY <1>1, <1>3, <1>5, AnswerFits
<1>7. ASSUME OneAtATime
      PROVE  \/ Early'
             \/ (t.status = "text" => r \in t.by) /\ accepted = <<>> /\ turn = {}
  <2>1. CASE t.by = {}
    BY <1>5, <1>6, <2>1 DEF Early, VR!AnsweredEarly
  <2>2. CASE t.by # {}
    <3>1. accepted = <<>> /\ turn = {} /\ t.by \subseteq {r}
      BY <1>1, <1>3, <1>4, <1>7, <2>2 DEF OneAtATime
    <3> QED
      BY <2>2, <3>1
  <2> QED
    BY <2>1, <2>2
<1> QED
  BY <1>1, <1>3, <1>4, <1>5, <1>7, WaiterAnswered

LEMMA TimersFireWell ==
    ASSUME VoiceInv, NEW r \in Requests, VR!Timeout(r) \/ VR!Cut(r)
    PROVE  VoiceInv'
<1>1. ASSUME NEW s \in {"timeout", "504"}, at[r] # "answered", VR!Answer(r, VR!Only(s))
      PROVE  Early'
  <2>1. VR!Only(s) \in Answers /\ VR!Only(s).status = s
    BY OnlyFits
  <2>2. told'[r] = VR!Only(s)
    BY <1>1, <2>1, AnswerFits
  <2> QED
    BY <2>1, <2>2 DEF Early, VR!AnsweredEarly
<1>2. CASE VR!Timeout(r)
  <2>1. /\ at[r] = "waiting" /\ listening' = FALSE /\ VR!Answer(r, VR!Only("timeout"))
        /\ UNCHANGED <<texts, accepted, turn>>
    BY <1>2 DEF VR!Timeout
  <2>2. Early'
    BY <1>1, <2>1
  <2> QED
    BY <2>1, <2>2, OnlyFits, WaiterAnswered DEF VoiceInv, TextsKept
<1>3. CASE VR!Cut(r)
  <2>1. /\ at[r] \in {"lock", "handler", "waiting"} /\ VR!Answer(r, VR!Only("504"))
        /\ listening' = (listening /\ at[r] # "waiting") /\ UNCHANGED <<texts, turn>>
        /\ accepted' = accepted \/ (at[r] = "handler" /\ accepted' = Append(accepted, r))
    BY <1>3 DEF VR!Cut
  <2>2. Early'
    BY <1>1, <2>1
  <2>3. CASE at[r] = "waiting"
    BY <2>1, <2>2, <2>3, OnlyFits, WaiterAnswered DEF VoiceInv, TextsKept
  <2>4. CASE at[r] # "waiting"
    <3>1. listening' = listening
      BY <2>1, <2>4 DEF VoiceInv, TextsKept
    <3>2. accepted' \in Seq(Requests)
      BY <2>1 DEF VoiceInv
    <3> QED
      BY <2>1, <2>2, <2>4, <3>1, <3>2, OnlyFits, OthersAnswered
  <2> QED
    BY <2>3, <2>4
<1> QED
  BY <1>2, <1>3

\* A turn takes all there is to take, which is one request as long as none was answered early.
LEMMA TurnsBeginWell ==
    ASSUME VoiceInv, VR!Begin
    PROVE  VoiceInv'
<1>1. PICK n \in 1 .. Len(accepted) :
         /\ turn = {} /\ turn' = VR!Range(SubSeq(accepted, 1, n))
         /\ accepted' = SubSeq(accepted, n + 1, Len(accepted))
         /\ UNCHANGED <<at, waiters, texts, listening, told>>
  BY DEF VR!Begin
<1>2. RoomLocked' /\ TextsKept' /\ TextsTold' /\ Early' = Early
  BY <1>1 DEF VoiceInv, RoomLocked, Holds, TextsKept, TextsTold, Early, VR!AnsweredEarly
<1>3. accepted \in Seq(Requests) /\ n \in Nat /\ Len(accepted) \in Nat
  BY DEF VoiceInv
<1>4. /\ accepted' \in Seq(Requests)
      /\ Len(accepted') = IF n + 1 <= Len(accepted) THEN Len(accepted) - (n + 1) + 1 ELSE 0
  <2>1. n + 1 \in Int /\ \A i \in n + 1 .. Len(accepted) : accepted[i] \in Requests
    BY <1>3
  <2> QED
    BY <1>1, <1>3, <2>1, SubSeqProperties
<1>5. \A q \in turn' : \E i \in 1 .. n : q = accepted[i]
  <2> DEFINE taken == SubSeq(accepted, 1, n)
  <2>1. \A i \in 1 .. n : accepted[i] \in Requests
    BY <1>3
  <2>2. taken \in Seq(Requests) /\ Len(taken) = n /\ \A i \in 1 .. n : taken[i] = accepted[i]
    BY <1>3, <2>1, SubSeqProperties
  <2> HIDE DEF taken
  <2>3. \A q \in VR!Range(taken) : \E i \in 1 .. n : q = taken[i]
    BY <2>2 DEF VR!Range
  <2> QED
    BY <1>1, <2>2, <2>3 DEF taken
<1>6. turn' \subseteq Requests
  BY <1>3, <1>5
<1>7. ASSUME OneAtATime PROVE OneAtATime'
  <2>1. Len(accepted') = 0
    BY <1>3, <1>4, <1>7 DEF OneAtATime
  <2>2. accepted' = <<>>
    BY <1>4, <2>1
  <2>3. \A q \in turn' : at[q] = "waiting"
    BY <1>3, <1>5, <1>7 DEF OneAtATime
  <2>4. \A i \in 1 .. Len(texts) : texts[i].by = {}
    BY <1>3, <1>7 DEF OneAtATime
  <2> QED
    BY <1>1, <1>7, <2>1, <2>2, <2>3, <2>4 DEF OneAtATime
<1> QED
  BY <1>2, <1>4, <1>6, <1>7 DEF VoiceInv

\* The answer of a turn is what the one that waits is owed.
LEMMA TurnsEndWell ==
    ASSUME VoiceInv, VR!End
    PROVE  VoiceInv'
<1>1. /\ turn # {} /\ turn' = {} /\ UNCHANGED <<at, waiters, listening, accepted, told>>
      /\ turn \in SUBSET Requests
  BY DEF VR!End, VoiceInv
<1>2. /\ RoomLocked' /\ TextsKept' /\ TextsTold' /\ Early' = Early
      /\ \/ texts' = texts
         \/ \E r \in Requests :
               at[r] = "waiting"
               /\ texts' = Append(texts, [status |-> "text", by |-> turn, during |-> r])
  <2>1. CASE VR!SendText(turn)
    BY <1>1, <2>1, TextFits
  <2>2. CASE texts' = texts
    BY <1>1, <2>2 DEF VoiceInv, RoomLocked, Holds, TextsKept, TextsTold, Early,
                      VR!AnsweredEarly
  <2> QED
    BY <2>1, <2>2 DEF VR!End
<1>3. ASSUME OneAtATime PROVE OneAtATime'
  <2>1. accepted = <<>>
    BY <1>1, <1>3 DEF OneAtATime
  <2>2. CASE texts' = texts
    BY <1>1, <1>3, <2>1, <2>2 DEF OneAtATime
  <2>3. ASSUME NEW r \in Requests, at[r] = "waiting",
               texts' = Append(texts, [status |-> "text", by |-> turn, during |-> r])
        PROVE  OneAtATime'
    <3>1. \A q \in Requests : at[q] = "waiting" => q = r
      BY <2>3, OneHolder DEF VoiceInv, Holds
    <3>2. turn \subseteq {r}
      BY <1>1, <1>3, <3>1 DEF OneAtATime
    <3> DEFINE text == [status |-> "text", by |-> turn, during |-> r]
    <3>3. text \in Said /\ text.by = turn
      BY <1>1 DEF Said
    <3> HIDE DEF text
    <3>4. texts' = Append(texts, text)
      BY <2>3 DEF text
    <3>5. \A i \in 1 .. Len(texts') : texts'[i] = text \/ \E j \in 1 .. Len(texts) : texts'[i] = texts[j]
      BY <3>3, <3>4, AppendProperties DEF VoiceInv, TextsKept
    <3>6. \A i \in 1 .. Len(texts') : texts'[i].by \subseteq {r}
      BY <1>3, <2>3, <3>2, <3>3, <3>5 DEF OneAtATime
    <3> QED
      BY <1>1, <1>3, <2>1, <3>1, <3>6 DEF OneAtATime
  <2> QED
    BY <1>2, <2>2, <2>3
<1> QED
  BY <1>1, <1>2, <1>3 DEF VoiceInv

LEMMA NoticesWell ==
    ASSUME VoiceInv, VR!Notice
    PROVE  VoiceInv'
<1>1. VR!SendText({}) /\ UNCHANGED <<at, waiters, listening, accepted, turn, told>>
  BY DEF VR!Notice
<1>2. /\ RoomLocked' /\ TextsKept' /\ TextsTold' /\ Early' = Early
      /\ \/ texts' = texts
         \/ \E r \in Requests :
               at[r] = "waiting"
               /\ texts' = Append(texts, [status |-> "text", by |-> {}, during |-> r])
  BY <1>1, TextFits
<1>3. ASSUME OneAtATime PROVE OneAtATime'
  <2>1. CASE texts' = texts
    BY <1>1, <1>3, <2>1 DEF OneAtATime
  <2>2. ASSUME NEW r \in Requests, at[r] = "waiting",
               texts' = Append(texts, [status |-> "text", by |-> {}, during |-> r])
        PROVE  OneAtATime'
    <3> DEFINE text == [status |-> "text", by |-> {}, during |-> r]
    <3>1. text \in Said /\ text.by = {}
      BY DEF Said
    <3> HIDE DEF text
    <3>2. texts' = Append(texts, text)
      BY <2>2 DEF text
    <3>3. \A i \in 1 .. Len(texts') : texts'[i] = text \/ \E j \in 1 .. Len(texts) : texts'[i] = texts[j]
      BY <3>1, <3>2, AppendProperties DEF VoiceInv, TextsKept
    <3> QED
      BY <1>1, <1>3, <3>1, <3>3 DEF OneAtATime
  <2> QED
    BY <1>2, <2>1, <2>2
<1> QED
  BY <1>1, <1>2, <1>3 DEF VoiceInv

LEMMA NextVoiceInv ==
    ASSUME VoiceInv, [VR!Next]_voiceVars
    PROVE  VoiceInv'
<1>1. CASE UNCHANGED voiceVars
  BY <1>1 DEF voiceVars, VoiceInv, RoomLocked, Holds, TextsKept, TextsTold, OneAtATime, Early,
              VR!AnsweredEarly
<1> QED
  BY <1>1, AsksWell, EntersWell, HandlesWell, WakesWell, TimersFireWell, TurnsBeginWell,
     TurnsEndWell, NoticesWell DEF VR!Next

\* The callers hear the answer to their own words.
LEMMA VoiceServes == Nobody \notin Requests /\ VoiceInv => VR!FreshAnswers
<1> SUFFICES ASSUME Nobody \notin Requests, VoiceInv PROVE VR!FreshAnswers
  OBVIOUS
<1>1. \A r \in Requests : told[r].status = "text" =>
          told[r].during = r /\ (r \in told[r].by \/ Early)
  BY DEF VoiceInv, TextsTold, OneAtATime
<1>2. \A i \in DOMAIN texts : texts[i].during # Nobody
  <2>1. texts \in Seq(Said) /\ DOMAIN texts = 1 .. Len(texts)
    BY DEF VoiceInv, TextsKept
  <2>2. \A i \in 1 .. Len(texts) : texts[i] \in Said
    BY <2>1
  <2> QED
    BY <2>1, <2>2 DEF Said
<1> QED
  BY <1>1, <1>2 DEF VR!FreshAnswers, Early, VoiceInv, TextsKept

-----------------------------------------------------------------------------
(* Calls to Rocket.Chat: the inductive invariant.                           *)

RestCalls ==
    [op : {"none", "call", "download", "upload"},
     at : {"idle", "headers", "sent", "refused", "login", "ok", "denied", "failed"},
     part : 1 .. 2, token : Nat, sent : Nat, again : BOOLEAN, since : Int]

\* Each token but the last has expired, and each expiry was of another: they are counted
\* by each other.
TokenExpiries ==
    /\ auth \in Nat \ {0} /\ issued = auth /\ valid \in {{}, {auth}} /\ lapses \in Nat
    /\ lapses = IF valid = {} THEN auth ELSE auth - 1

\* What is known of a call, of its token and of the expiries since it began.
CallFits(k, n) ==
    LET whole == IF k.op = "upload" THEN 2 ELSE 1 IN
    /\ k.part <= whole
    /\ k.at = "idle" => k.op = "none" /\ k.part = 1 /\ ~k.again /\ n = 0
    /\ k.at = "headers" => k.token <= auth /\ ~k.again /\ k.since = k.token - 1
    /\ k.at \in {"sent", "refused", "login"} =>
          /\ k.token = k.sent /\ k.token <= auth
          /\ ~k.again => k.since = k.token - 1
          /\ k.again => k.token >= k.since + 2
    /\ k.at \in {"refused", "login"} => k.token \notin valid /\ ~k.again
    /\ k.at = "login" => k.token = auth
    /\ k.at = "denied" => lapses - k.since >= 2
    /\ k.at \in {"headers", "sent", "refused", "login"} => n = k.part - 1
    /\ k.at = "ok" => n = whole
    /\ n <= k.part

CallsFit ==
    /\ call \in [Callers -> RestCalls] /\ done \in [Callers -> Nat]
    /\ \A c \in Callers : CallFits(call[c], done[c])

\* The lock's queue.
LockFits ==
    /\ queued \in Seq(Callers) /\ Distinct(queued)
    /\ \A c \in Callers : call[c].at \in {"refused", "login"} <=> In(c, queued)
    /\ \A c \in Callers : call[c].at = "login" => queued # <<>> /\ queued[1] = c

RestInv == TokenExpiries /\ CallsFit /\ LockFits /\ ~wasted

\* A release takes the caller out of the queue.
LEMMA Released ==
    ASSUME LockFits, NEW c \in Callers, RS!Release(c)
    PROVE  queued' \in Seq(Callers) /\ Leaves(queued, c, queued')
<1>1. queued' = RS!RemoveFirst(queued, c)
  BY DEF RS!Release
<1>2. CASE ~In(c, queued)
  <2>1. queued' = queued
    BY <1>1, <1>2 DEF RS!RemoveFirst, In
  <2> QED
    BY <1>2, <2>1, Leaving DEF LockFits
<1>3. CASE In(c, queued)
  <2> DEFINE I == {i \in 1 .. Len(queued) : queued[i] = c}
  <2>1. I \subseteq Nat /\ I # {}
    BY <1>3 DEF In
  <2>2. \E x \in I : \A y \in I : x =< y
    BY <2>1, First
  <2>3. RS!Min(I) \in I
    BY <2>2 DEF RS!Min
  <2>4. queued' = RS!RemoveAt(queued, RS!Min(I))
    BY <1>1, <1>3 DEF RS!RemoveFirst, RS!SelectInSeq, In
  <2>5. \E i \in 1 .. Len(queued) :
           queued[i] = c
           /\ queued' = SubSeq(queued, 1, i - 1) \o SubSeq(queued, i + 1, Len(queued))
    BY <2>3, <2>4 DEF RS!RemoveAt
  <2> QED
    BY <2>5, Leaving DEF LockFits
<1> QED
  BY <1>2, <1>3

LEMMA InitRestInv == RS!Init => RestInv
<1> SUFFICES ASSUME RS!Init PROVE RestInv
  OBVIOUS
<1>1. TokenExpiries
  BY DEF RS!Init, TokenExpiries
<1>2. CallsFit
  BY DEF RS!Init, CallsFit, CallFits, RestCalls, RS!NoCall
<1>3. LockFits
  BY DEF RS!Init, LockFits, Distinct, In, RS!NoCall
<1> QED
  BY <1>1, <1>2, <1>3 DEF RestInv, RS!Init

\* A step of one call that leaves the token and the lock alone.
LEMMA OneCall ==
    ASSUME RestInv, NEW c \in Callers, NEW k \in RestCalls, NEW n \in Nat,
           call' = [call EXCEPT ![c] = k], done' = [done EXCEPT ![c] = n],
           UNCHANGED <<auth, valid, issued, lapses, wasted>>,
           CallFits(k, n)
    PROVE  TokenExpiries' /\ CallsFit' /\ ~wasted'
<1>1. TokenExpiries' /\ ~wasted'
  BY DEF RestInv, TokenExpiries
<1>2. CallFits(k, n)'
  BY DEF CallFits
<1>3. ASSUME NEW d \in Callers
      PROVE  CallFits(call[d], done[d]) => CallFits(call[d], done[d])'
  <2>1. CASE d = c
    BY <1>2, <2>1 DEF RestInv, CallsFit, CallFits
  <2>2. CASE d # c
    <3>1. call'[d] = call[d] /\ done'[d] = done[d]
      BY <2>2 DEF RestInv, CallsFit
    <3> QED
      BY <3>1 DEF CallFits
  <2> QED
    BY <2>1, <2>2
<1>4. CallsFit'
  BY <1>3 DEF RestInv, CallsFit
<1> QED
  BY <1>1, <1>4

\* The lock stays as it is when a call does that neither waits for it nor comes to.
LEMMA LockAlone ==
    ASSUME RestInv, NEW c \in Callers, queued' = queued, call' \in [Callers -> RestCalls],
           \A d \in Callers : d # c => call'[d] = call[d],
           call[c].at \notin {"refused", "login"}, call'[c].at \notin {"refused", "login"}
    PROVE  LockFits'
<1>1. ASSUME NEW d \in Callers
      PROVE  /\ call'[d].at \in {"refused", "login"} <=> call[d].at \in {"refused", "login"}
             /\ call'[d].at = "login" => call[d].at = "login"
  <2>1. CASE d = c
    BY <2>1
  <2>2. CASE d # c
    BY <2>2
  <2> QED
    BY <2>1, <2>2
<1> QED
  BY <1>1 DEF RestInv, LockFits

\* Of a caller that leaves the lock, the others and the lock are as they should be.
LEMMA LockLeft ==
    ASSUME RestInv, NEW c \in Callers, RS!Release(c), call' \in [Callers -> RestCalls],
           \A d \in Callers : d # c => call'[d] = call[d],
           call'[c].at \notin {"refused", "login"}
    PROVE  LockFits'
<1>1. queued' \in Seq(Callers) /\ Leaves(queued, c, queued')
  BY Released DEF RestInv
<1>2. ASSUME NEW d \in Callers
      PROVE  call'[d].at \in {"refused", "login"} <=> In(d, queued')
  <2>1. CASE d = c
    BY <1>1, <2>1 DEF Leaves
  <2>2. CASE d # c
    BY <1>1, <2>2 DEF Leaves, RestInv, LockFits
  <2> QED
    BY <2>1, <2>2
<1>3. ASSUME NEW d \in Callers, call'[d].at = "login"
      PROVE  queued' # <<>> /\ queued'[1] = d
  <2>1. d # c /\ call[d].at = "login"
    BY <1>3
  <2>2. queued # <<>> /\ queued[1] = d
    BY <2>1 DEF RestInv, LockFits
  <2> QED
    BY <1>1, <2>1, <2>2 DEF Leaves
<1> QED
  BY <1>1, <1>2, <1>3 DEF LockFits, Leaves

LEMMA BeginsWell ==
    ASSUME RestInv, NEW c \in Callers, RS!Begin(c)
    PROVE  RestInv'
<1>1. PICK op \in {"call", "download", "upload"} :
         LET k == [call[c] EXCEPT !.op = op,
                                  !.since = lapses - (IF auth \in valid THEN 0 ELSE 1)]
         IN  call' = [call EXCEPT ![c] = IF op = "download"
                                         THEN [k EXCEPT !.at = "headers", !.token = auth]
                                         ELSE RS!Sent(c, k)]
  BY DEF RS!Begin
<1> DEFINE old == call[c]
           k == [old EXCEPT !.op = op, !.since = lapses - (IF auth \in valid THEN 0 ELSE 1)]
           new == IF op = "download" THEN [k EXCEPT !.at = "headers", !.token = auth]
                  ELSE [k EXCEPT !.at = "sent", !.token = auth, !.sent = auth]
<1>2. /\ old.at = "idle" /\ call' = [call EXCEPT ![c] = new]
      /\ UNCHANGED <<auth, valid, issued, queued, done, lapses, wasted>>
  BY <1>1 DEF RS!Begin, RS!Sent
<1>3. old \in RestCalls /\ CallFits(old, done[c]) /\ done[c] \in Nat
  BY DEF RestInv, CallsFit
<1>4. lapses - (IF auth \in valid THEN 0 ELSE 1) = auth - 1
  BY DEF RestInv, TokenExpiries
<1>5. old.part = 1 /\ ~old.again /\ done[c] = 0
  BY <1>2, <1>3 DEF CallFits
<1>6. auth \in Nat /\ auth - 1 \in Int
  BY DEF RestInv, TokenExpiries
<1>7. /\ k \in RestCalls /\ k.op = op /\ k.since = auth - 1 /\ k.part = 1 /\ ~k.again
  BY <1>3, <1>4, <1>5, <1>6 DEF RestCalls
<1> HIDE DEF k
<1>8. /\ new \in RestCalls /\ new.op = op /\ new.part = 1 /\ ~new.again /\ new.since = auth - 1
      /\ new.token = auth /\ new.at \in {"headers", "sent"}
      /\ new.at = "sent" => new.sent = auth
  <2>1. CASE op = "download"
    BY <1>6, <1>7, <2>1 DEF RestCalls
  <2>2. CASE op # "download"
    BY <1>6, <1>7, <2>2 DEF RestCalls
  <2> QED
    BY <2>1, <2>2
<1> HIDE DEF new, old
<1>9. CallFits(new, done[c])
  BY <1>5, <1>6, <1>8 DEF CallFits
<1>10. done' = [done EXCEPT ![c] = done[c]]
  BY <1>2 DEF RestInv, CallsFit
<1>11. TokenExpiries' /\ CallsFit' /\ ~wasted'
  BY <1>2, <1>3, <1>8, <1>9, <1>10, OneCall
<1>12. /\ call'[c].at \notin {"refused", "login"} /\ call[c].at \notin {"refused", "login"}
       /\ \A d \in Callers : d # c => call'[d] = call[d]
  BY <1>2, <1>8 DEF RestInv, CallsFit, old
<1>13. LockFits'
  BY <1>2, <1>11, <1>12, LockAlone DEF CallsFit
<1> QED
  BY <1>11, <1>13 DEF RestInv

LEMMA DownloadsWell ==
    ASSUME RestInv, ~OldHeaders, NEW c \in Callers, RS!Download(c)
    PROVE  RestInv'
<1> DEFINE old == call[c]
           new == [old EXCEPT !.at = "sent", !.sent = auth]
<1>1. /\ old.at = "headers" /\ old.token = auth /\ call' = [call EXCEPT ![c] = new]
      /\ UNCHANGED <<auth, valid, issued, queued, done, lapses, wasted>>
  BY DEF RS!Download
<1>2. old \in RestCalls /\ CallFits(old, done[c]) /\ done[c] \in Nat
  BY DEF RestInv, CallsFit
<1>3. /\ new \in RestCalls /\ new.at = "sent" /\ new.sent = auth /\ new.token = old.token
      /\ new.op = old.op /\ new.part = old.part /\ new.again = old.again
      /\ new.since = old.since
  BY <1>1, <1>2 DEF RestCalls, RestInv, TokenExpiries
<1> HIDE DEF new, old
<1>4. CallFits(new, done[c])
  BY <1>1, <1>2, <1>3 DEF CallFits, RestInv, TokenExpiries
<1>5. done' = [done EXCEPT ![c] = done[c]]
  BY <1>1 DEF RestInv, CallsFit
<1>6. TokenExpiries' /\ CallsFit' /\ ~wasted'
  BY <1>1, <1>2, <1>3, <1>4, <1>5, OneCall
<1>7. /\ call'[c].at \notin {"refused", "login"} /\ call[c].at \notin {"refused", "login"}
      /\ \A d \in Callers : d # c => call'[d] = call[d]
  BY <1>1, <1>3 DEF RestInv, CallsFit, old
<1>8. LockFits'
  BY <1>1, <1>6, <1>7, LockAlone DEF CallsFit
<1> QED
  BY <1>6, <1>8 DEF RestInv

\* An upload's second call, of its first.
Second(k, s) == [k EXCEPT !.part = 2, !.again = FALSE, !.since = s]

LEMMA SecondPart ==
    ASSUME NEW k \in RestCalls, NEW s \in Int
    PROVE  /\ Second(k, s) \in RestCalls /\ Second(k, s).part = 2 /\ Second(k, s).op = k.op
           /\ ~Second(k, s).again /\ Second(k, s).since = s
<1>1. ASSUME NEW p \in 1 .. 2, NEW b \in BOOLEAN
      PROVE  [k EXCEPT !.part = p, !.again = b, !.since = s] \in RestCalls
  BY DEF RestCalls
<1>2. 2 \in 1 .. 2 /\ FALSE \in BOOLEAN
  OBVIOUS
<1>3. Second(k, s) \in RestCalls
  BY <1>1, <1>2 DEF Second
<1> QED
  BY <1>3 DEF RestCalls, Second

LEMMA CarriedWell ==
    ASSUME RestInv, NEW c \in Callers, RS!Carried(c)
    PROVE  RestInv'
<1> DEFINE old == call[c]
           lost == [old EXCEPT !.at = "failed"]
           again == [old EXCEPT !.part = 2, !.again = FALSE,
                                !.since = lapses - (IF auth \in valid THEN 0 ELSE 1)]
           next == [again EXCEPT !.at = "sent", !.token = auth, !.sent = auth]
           over == [old EXCEPT !.at = "ok"]
           new == call'[c]
           whole == IF old.op = "upload" THEN 2 ELSE 1
<1>1. /\ old.at = "sent" /\ old.token \in valid
      /\ done' = [done EXCEPT ![c] = done[c] + 1]
      /\ UNCHANGED <<auth, valid, issued, queued, lapses, wasted>>
      /\ \/ call' = [call EXCEPT ![c] = lost]
         \/ old.part < whole /\ call' = [call EXCEPT ![c] = next]
         \/ ~(old.part < whole) /\ call' = [call EXCEPT ![c] = over]
  BY DEF RS!Carried, RS!Sent, RS!Parts
<1>2. old \in RestCalls /\ CallFits(old, done[c]) /\ done[c] \in Nat
  BY DEF RestInv, CallsFit
<1>3. lapses - (IF auth \in valid THEN 0 ELSE 1) = auth - 1 /\ auth \in Nat /\ auth - 1 \in Int
  BY DEF RestInv, TokenExpiries
<1>4. done[c] = old.part - 1 /\ old.part <= whole
  BY <1>1, <1>2 DEF CallFits
<1>5. PICK k \in {lost, next, over} :
         /\ call' = [call EXCEPT ![c] = k]
         /\ k = next => old.part < whole
         /\ k = over => ~(old.part < whole)
  <2>1. lost # next /\ lost # over /\ next # over
    BY <1>2 DEF RestCalls
  <2> QED
    BY <1>1, <2>1
<1>6. k \in RestCalls /\ k.at \notin {"refused", "login"} /\ CallFits(k, done[c] + 1)
  <2>1. CASE k = lost
    <3>1. lost \in RestCalls /\ lost.at = "failed" /\ lost.part = old.part /\ lost.op = old.op
      BY <1>2 DEF RestCalls
    <3> QED
      BY <1>2, <1>4, <2>1, <3>1 DEF CallFits, RestCalls
  <2>2. CASE k = next
    <3>1. /\ next \in RestCalls /\ next.at = "sent" /\ next.part = 2 /\ next.op = old.op
          /\ ~next.again /\ next.since = auth - 1 /\ next.token = auth /\ next.sent = auth
      <4>1. /\ again \in RestCalls /\ again.part = 2 /\ again.op = old.op
            /\ ~again.again /\ again.since = auth - 1
        <5>1. again = Second(old, auth - 1)
          BY <1>3 DEF Second
        <5> HIDE DEF again, old
        <5> QED
          BY <1>2, <1>3, <5>1, SecondPart
      <4> HIDE DEF again
      <4> QED
        BY <1>3, <4>1 DEF RestCalls
    <3>2. whole = 2 /\ old.part = 1
      BY <1>2, <1>5, <2>2 DEF RestCalls
    <3> HIDE DEF next
    <3> QED
      BY <1>3, <1>4, <2>2, <3>1, <3>2 DEF CallFits
  <2>3. CASE k = over
    <3>1. over \in RestCalls /\ over.at = "ok" /\ over.part = old.part /\ over.op = old.op
      BY <1>2 DEF RestCalls
    <3>2. old.part = whole
      BY <1>2, <1>4, <1>5, <2>3 DEF RestCalls
    <3> HIDE DEF over
    <3> QED
      BY <1>2, <1>4, <2>3, <3>1, <3>2 DEF CallFits, RestCalls
  <2> QED
    BY <2>1, <2>2, <2>3
<1> HIDE DEF lost, next, over
<1>7. TokenExpiries' /\ CallsFit' /\ ~wasted'
  <2>1. done[c] + 1 \in Nat
    BY <1>2
  <2>2. PICK n \in Nat : n = done[c] + 1
    BY <2>1
  <2> QED
    BY <1>1, <1>5, <1>6, <2>2, OneCall
<1>8. /\ call'[c].at \notin {"refused", "login"} /\ call[c].at \notin {"refused", "login"}
      /\ \A d \in Callers : d # c => call'[d] = call[d]
  BY <1>1, <1>5, <1>6 DEF RestInv, CallsFit
<1>9. LockFits'
  BY <1>1, <1>7, <1>8, LockAlone DEF CallsFit
<1> QED
  BY <1>7, <1>9 DEF RestInv

LEMMA RefusedWell ==
    ASSUME RestInv, NEW c \in Callers, RS!Refused(c)
    PROVE  RestInv'
<1> DEFINE old == call[c]
           new == [old EXCEPT !.at = "refused"]
<1>1. /\ old.at = "sent" /\ old.token \notin valid /\ ~old.again
      /\ call' = [call EXCEPT ![c] = new] /\ queued' = Append(queued, c)
      /\ done' = [done EXCEPT ![c] = done[c]]
      /\ UNCHANGED <<auth, valid, issued, lapses, wasted>>
  BY DEF RS!Refused, RS!Retries
<1>2. old \in RestCalls /\ CallFits(old, done[c]) /\ done[c] \in Nat
  BY DEF RestInv, CallsFit
<1>3. /\ new \in RestCalls /\ new.at = "refused" /\ new.sent = old.sent
      /\ new.token = old.token /\ new.op = old.op /\ new.part = old.part
      /\ new.again = old.again /\ new.since = old.since
  BY <1>2 DEF RestCalls
<1> HIDE DEF new
<1>4. CallFits(new, done[c])
  BY <1>1, <1>2, <1>3 DEF CallFits
<1>5. TokenExpiries' /\ CallsFit' /\ ~wasted'
  BY <1>1, <1>2, <1>3, <1>4, OneCall
<1>6. call'[c] = new /\ \A d \in Callers : d # c => call'[d] = call[d]
  BY <1>1 DEF RestInv, CallsFit
<1>7. ~In(c, queued) /\ queued \in Seq(Callers) /\ Distinct(queued)
  BY <1>1 DEF RestInv, LockFits
<1>8. /\ queued' \in Seq(Callers) /\ Distinct(queued')
      /\ \A e : In(e, queued') <=> e = c \/ In(e, queued)
      /\ queued' # <<>> /\ (queued # <<>> => queued'[1] = queued[1])
  BY <1>1, <1>7, Joining
<1>9. ASSUME NEW d \in Callers
      PROVE  /\ call'[d].at \in {"refused", "login"} <=> In(d, queued')
             /\ call'[d].at = "login" => queued' # <<>> /\ queued'[1] = d
  <2>1. CASE d = c
    BY <1>3, <1>6, <1>8, <2>1
  <2>2. CASE d # c
    BY <1>6, <1>8, <2>2 DEF RestInv, LockFits
  <2> QED
    BY <2>1, <2>2
<1>10. LockFits'
  BY <1>8, <1>9 DEF LockFits
<1> QED
  BY <1>5, <1>10 DEF RestInv

LEMMA FailsWell ==
    ASSUME RestInv, NEW c \in Callers, RS!Fails(c)
    PROVE  RestInv'
<1> DEFINE old == call[c]
           denied == [old EXCEPT !.at = "denied"]
           failed == [old EXCEPT !.at = "failed"]
<1>1. /\ RS!Release(c) /\ UNCHANGED <<auth, valid, issued, done, lapses, wasted>>
      /\ \/ old.at = "sent" /\ old.again /\ old.token \notin valid
            /\ call' = [call EXCEPT ![c] = denied]
         \/ old.at \in {"headers", "sent", "refused", "login"}
            /\ call' = [call EXCEPT ![c] = failed]
  BY DEF RS!Fails
<1>2. old \in RestCalls /\ CallFits(old, done[c]) /\ done[c] \in Nat
  BY DEF RestInv, CallsFit
<1>3. PICK k \in RestCalls :
         /\ call' = [call EXCEPT ![c] = k] /\ k.at \in {"denied", "failed"}
         /\ CallFits(k, done[c])
  <2>1. CASE old.at = "sent" /\ old.again /\ old.token \notin valid
             /\ call' = [call EXCEPT ![c] = denied]
    <3>1. /\ denied \in RestCalls /\ denied.at = "denied" /\ denied.op = old.op
          /\ denied.part = old.part /\ denied.since = old.since
      BY <1>2 DEF RestCalls
    <3> HIDE DEF denied
    <3>2. lapses >= old.token /\ lapses \in Int
      BY <1>2, <2>1 DEF RestInv, TokenExpiries, CallFits, RestCalls
    <3>3. old.token >= old.since + 2 /\ old.token \in Int /\ old.since \in Int
      BY <1>2, <2>1 DEF CallFits, RestCalls
    <3>4. lapses - denied.since >= 2
      BY <3>1, <3>2, <3>3
    <3>5. CallFits(denied, done[c])
      BY <1>2, <3>1, <3>4 DEF CallFits
    <3> QED
      BY <2>1, <3>1, <3>5
  <2>2. CASE old.at \in {"headers", "sent", "refused", "login"}
             /\ call' = [call EXCEPT ![c] = failed]
    <3>1. /\ failed \in RestCalls /\ failed.at = "failed" /\ failed.op = old.op
          /\ failed.part = old.part
      BY <1>2 DEF RestCalls
    <3> HIDE DEF failed
    <3>2. CallFits(failed, done[c])
      BY <1>2, <3>1 DEF CallFits
    <3> QED
      BY <2>2, <3>1, <3>2
  <2> QED
    BY <1>1, <2>1, <2>2
<1> HIDE DEF denied, failed
<1>4. done' = [done EXCEPT ![c] = done[c]]
  BY <1>1 DEF RestInv, CallsFit
<1>5. TokenExpiries' /\ CallsFit' /\ ~wasted'
  BY <1>1, <1>2, <1>3, <1>4, OneCall
<1>6. call'[c] = k /\ \A d \in Callers : d # c => call'[d] = call[d]
  BY <1>3 DEF RestInv, CallsFit
<1>7. LockFits'
  BY <1>1, <1>3, <1>5, <1>6, LockLeft DEF CallsFit
<1> QED
  BY <1>5, <1>7 DEF RestInv

LEMMA RechecksWell ==
    ASSUME RestInv, NEW c \in Callers, RS!Recheck(c)
    PROVE  RestInv'
<1> DEFINE old == call[c]
           login == [old EXCEPT !.at = "login"]
           resent == [[old EXCEPT !.at = "sent", !.token = auth, !.sent = auth]
                      EXCEPT !.again = TRUE]
<1>1. /\ old.at = "refused" /\ Head(queued) = c
      /\ UNCHANGED <<auth, valid, issued, done, lapses, wasted>>
      /\ \/ auth = old.sent /\ call' = [call EXCEPT ![c] = login] /\ queued' = queued
         \/ auth # old.sent /\ call' = [call EXCEPT ![c] = resent] /\ RS!Release(c)
  BY DEF RS!Recheck, RS!StillRefused, RS!Sent
<1>2. old \in RestCalls /\ CallFits(old, done[c]) /\ done[c] \in Nat
  BY DEF RestInv, CallsFit
<1>3. done' = [done EXCEPT ![c] = done[c]]
  BY <1>1 DEF RestInv, CallsFit
<1>4. auth \in Nat
  BY DEF RestInv, TokenExpiries
<1>5. /\ old.token = old.sent /\ old.token <= auth /\ ~old.again /\ old.since = old.token - 1
      /\ old.token \notin valid /\ done[c] = old.part - 1
  BY <1>1, <1>2 DEF CallFits
<1>6. CASE auth = old.sent /\ call' = [call EXCEPT ![c] = login] /\ queued' = queued
  <2>1. /\ login \in RestCalls /\ login.at = "login" /\ login.op = old.op
        /\ login.part = old.part /\ login.token = old.token /\ login.sent = old.sent
        /\ login.again = old.again /\ login.since = old.since
    BY <1>2 DEF RestCalls
  <2> HIDE DEF login
  <2>2. CallFits(login, done[c])
    BY <1>1, <1>2, <1>5, <1>6, <2>1 DEF CallFits
  <2>3. TokenExpiries' /\ CallsFit' /\ ~wasted'
    BY <1>1, <1>2, <1>3, <1>6, <2>1, <2>2, OneCall
  <2>4. call'[c] = login /\ \A d \in Callers : d # c => call'[d] = call[d]
    BY <1>6 DEF RestInv, CallsFit
  <2>5. queued \in Seq(Callers) /\ queued # <<>> /\ queued[1] = c
    <3>1. In(c, queued) /\ queued \in Seq(Callers)
      BY <1>1 DEF RestInv, LockFits
    <3> QED
      BY <1>1, <3>1 DEF In
  <2>6. ASSUME NEW d \in Callers
        PROVE  /\ call'[d].at \in {"refused", "login"} <=> In(d, queued')
               /\ call'[d].at = "login" => queued' # <<>> /\ queued'[1] = d
    <3>1. CASE d = c
      BY <1>1, <1>6, <2>1, <2>4, <2>5, <3>1 DEF RestInv, LockFits
    <3>2. CASE d # c
      BY <1>6, <2>4, <3>2 DEF RestInv, LockFits
    <3> QED
      BY <3>1, <3>2
  <2>7. LockFits'
    BY <1>6, <2>6 DEF RestInv, LockFits
  <2> QED
    BY <2>3, <2>7 DEF RestInv
<1>7. CASE auth # old.sent /\ call' = [call EXCEPT ![c] = resent] /\ RS!Release(c)
  <2>1. /\ resent \in RestCalls /\ resent.at = "sent" /\ resent.op = old.op
        /\ resent.part = old.part /\ resent.token = auth /\ resent.sent = auth
        /\ resent.again /\ resent.since = old.since
    BY <1>2, <1>4 DEF RestCalls
  <2> HIDE DEF resent
  <2>2. auth >= old.since + 2
    BY <1>2, <1>4, <1>5, <1>7 DEF RestCalls
  <2>3. CallFits(resent, done[c])
    BY <1>2, <1>4, <1>5, <2>1, <2>2 DEF CallFits
  <2>4. TokenExpiries' /\ CallsFit' /\ ~wasted'
    BY <1>1, <1>2, <1>3, <1>7, <2>1, <2>3, OneCall
  <2>5. call'[c] = resent /\ \A d \in Callers : d # c => call'[d] = call[d]
    BY <1>7 DEF RestInv, CallsFit
  <2>6. LockFits'
    BY <1>7, <2>1, <2>4, <2>5, LockLeft DEF CallsFit
  <2> QED
    BY <2>4, <2>6 DEF RestInv
<1> QED
  BY <1>1, <1>6, <1>7

\* The one login there is replaces a token that has expired.
LEMMA LoginsWell ==
    ASSUME RestInv, NEW c \in Callers, RS!Login(c)
    PROVE  RestInv'
<1> DEFINE old == call[c]
           new == [old EXCEPT !.at = "sent", !.token = auth + 1, !.sent = auth + 1,
                              !.again = TRUE]
<1>1. /\ auth \in Nat \ {0} /\ issued = auth
      /\ lapses = IF valid = {} THEN auth ELSE auth - 1
      /\ valid \in {{}, {auth}} /\ lapses \in Nat
  BY DEF RestInv, TokenExpiries
<1>2. /\ old.at = "login" /\ issued' = auth + 1 /\ auth' = auth + 1
      /\ valid' = valid \cup {auth + 1} /\ wasted' = (wasted \/ auth \in valid)
      /\ call' = [call EXCEPT ![c] = new]
      /\ RS!Release(c) /\ UNCHANGED <<done, lapses>>
  BY <1>1 DEF RS!Login
<1>3. old \in RestCalls /\ CallFits(old, done[c]) /\ done[c] \in Nat
  BY DEF RestInv, CallsFit
<1>4. /\ old.token = auth /\ ~old.again /\ old.since = auth - 1 /\ auth \notin valid
      /\ done[c] = old.part - 1
  BY <1>2, <1>3 DEF CallFits
<1>5. valid = {} /\ lapses = auth
  BY <1>1, <1>4
<1>6. TokenExpiries' /\ ~wasted'
  <2>1. TokenExpiries'
    BY <1>1, <1>2, <1>5 DEF TokenExpiries
  <2>2. ~wasted /\ ~(auth \in valid)
    BY <1>4 DEF RestInv
  <2> QED
    BY <1>2, <2>1, <2>2
<1>7. /\ new \in RestCalls /\ new.at = "sent" /\ new.op = old.op /\ new.part = old.part
      /\ new.token = auth + 1 /\ new.sent = auth + 1 /\ new.again /\ new.since = old.since
  <2>1. PICK t \in Nat : t = auth + 1
    BY <1>1
  <2> QED
    BY <1>3, <2>1 DEF RestCalls
<1> HIDE DEF new
<1>8. call'[c] = new /\ \A d \in Callers : d # c => call'[d] = call[d]
  BY <1>2 DEF RestInv, CallsFit
<1>9. call' \in [Callers -> RestCalls]
  BY <1>2, <1>7 DEF RestInv, CallsFit
<1>10. LockFits'
  BY <1>2, <1>7, <1>8, <1>9, LockLeft
<1>11. ASSUME NEW d \in Callers PROVE CallFits(call[d], done[d])'
  <2>1. CASE d = c
    BY <1>1, <1>2, <1>3, <1>4, <1>7, <1>8, <2>1 DEF CallFits
  <2>2. CASE d # c
    <3>1. call'[d] = call[d] /\ done'[d] = done[d] /\ call[d] \in RestCalls
      BY <1>2, <1>8, <2>2 DEF RestInv, CallsFit
    <3>2. call[d].at # "login"
      BY <1>2, <2>2 DEF RestInv, LockFits
    <3>3. call[d].token <= auth => call[d].token <= auth' /\ call[d].token \notin valid'
      BY <1>1, <1>2, <1>5, <3>1 DEF RestCalls
    <3>4. CallFits(call[d], done[d])
      BY DEF RestInv, CallsFit
    <3> QED
      BY <1>2, <3>1, <3>2, <3>3, <3>4 DEF CallFits
  <2> QED
    BY <2>1, <2>2
<1>12. CallsFit'
  BY <1>2, <1>9, <1>11 DEF RestInv, CallsFit
<1> QED
  BY <1>6, <1>10, <1>12 DEF RestInv

LEMMA ExpiresWell ==
    ASSUME RestInv, RS!Expire
    PROVE  RestInv'
<1>1. /\ valid # {} /\ lapses' = lapses + 1 /\ valid' = {}
      /\ UNCHANGED <<auth, issued, call, queued, done, wasted>>
  BY DEF RS!Expire
<1>2. TokenExpiries'
  BY <1>1 DEF RestInv, TokenExpiries
<1>3. ASSUME NEW d \in Callers PROVE CallFits(call[d], done[d])'
  <2>1. CallFits(call[d], done[d]) /\ call[d] \in RestCalls
    BY DEF RestInv, CallsFit
  <2>2. lapses - call[d].since >= 2 => lapses' - call[d].since >= 2
    BY <1>1, <2>1 DEF RestInv, TokenExpiries, RestCalls
  <2> QED
    BY <1>1, <2>1, <2>2 DEF CallFits
<1>4. CallsFit' /\ LockFits' /\ ~wasted'
  BY <1>1, <1>3 DEF RestInv, CallsFit, LockFits
<1> QED
  BY <1>2, <1>4 DEF RestInv

LEMMA NextRestInv ==
    ASSUME ~OldHeaders, RestInv, [RS!Next]_restVars
    PROVE  RestInv'
<1>1. CASE UNCHANGED restVars
  BY <1>1 DEF restVars, RestInv, TokenExpiries, CallsFit, CallFits, LockFits
<1> QED
  BY <1>1, BeginsWell, DownloadsWell, CarriedWell, RefusedWell, FailsWell, RechecksWell,
     LoginsWell, ExpiresWell DEF RS!Next

\* The calls are as they are reported.
LEMMA RestServes == RestInv => RS!OneLogin
<1> SUFFICES ASSUME RestInv PROVE RS!OneLogin
  OBVIOUS
<1>1. ASSUME NEW c \in Callers
      PROVE  /\ call[c].at = "denied" => lapses - call[c].since >= 2
             /\ done[c] <= call[c].part
             /\ call[c].at = "ok" => done[c] = RS!Parts(c)
  BY DEF RestInv, CallsFit, CallFits, RS!Parts
<1> QED
  BY <1>1 DEF RestInv, RS!OneLogin

-----------------------------------------------------------------------------
(* What holds of both beside each other.                                    *)

\* Who speaks to the voice connector is told what the room was sent while its own request
\* was the one that waited, which is the answer to it unless a request was answered early;
\* and a call to Rocket.Chat is carried out once, by one login for all that are refused
\* (VoiceConnector._dispatch and send_text; RocketChatREST._request and
\* _post_with_reauth_retry).
THEOREM CallersServed ==
    ASSUME Nobody \notin Requests, ~OldHeaders
    PROVE  Spec => []CallersAreServed
<1>1. Init => VoiceInv /\ RestInv
  BY InitVoiceInv, InitRestInv DEF Init
<1>2. [Next]_<<kind, rcVars, wsVars, acVars, baVars, callVars>>
         => [VR!Next]_voiceVars /\ [RS!Next]_restVars
  BY DEF Next, callVars
<1>3. VoiceInv /\ RestInv /\ [VR!Next]_voiceVars /\ [RS!Next]_restVars => (VoiceInv /\ RestInv)'
  BY NextVoiceInv, NextRestInv
<1>4. VoiceInv /\ RestInv => CallersAreServed
  BY VoiceServes, RestServes DEF CallersAreServed
<1> QED
  BY <1>1, <1>2, <1>3, <1>4, PTL DEF Spec
=============================================================================
