------------------------------ MODULE AgentChain ------------------------------
(* The turn budget of the agents that talk to this one in a thread             *)
(* (core/agent_chain.py), as the two connectors' filters spend it and their     *)
(* deliveries give it back.  A post of another agent takes a turn when the       *)
(* filter accepts it; what is not delivered in the end returns it, and is        *)
(* offered again.  A human's post starts every count afresh, and so does a quiet *)
(* time; the answers of deliveries that began before still come.                 *)
EXTENDS Integers, FiniteSets, Sequences, SequencesExt

CONSTANTS Senders, MaxTurns, TTL, Factor, Remembered,
          Deliveries,                  \* slots: a live worker and a replay, per sender
          MaxIssued, MaxCounts         \* bounds of the instance

None == [turns |-> -1]
NoStone == [gen |-> -1]
Flights == Senders \X Deliveries
Grounded == [token |-> 0, gen |-> 0, count |-> 0, age |-> 0]
MaxFlight == (1 + Factor) * TTL        \* a delivery is over before its tombstone is

VARIABLES store, generations, flight,
          held,      \* history: the tokens of the sender's count not given back
          count,     \* history: the counts the sender has had
          refused    \* history: the posts refused of a sender who had turns left

chainVars == <<store, generations, flight, held, count, refused>>

Contexts == [turns : 0 .. MaxTurns, gen : 0 .. MaxCounts, issued : 0 .. MaxIssued,
             released : Seq(1 .. MaxIssued), age : 0 .. TTL + 1]
Stones == [gen : 0 .. MaxCounts, age : 0 .. Factor * TTL + 1]

TypeOK ==
    /\ store \in [Senders -> Contexts \cup {None}]
    /\ generations \in [Senders -> Stones \cup {NoStone}]
    /\ flight \in [Flights -> [token : 0 .. MaxIssued, gen : 0 .. MaxCounts,
                               count : 0 .. MaxCounts, age : 0 .. MaxFlight]]
    /\ held \in [Senders -> SUBSET (1 .. MaxIssued)]
    /\ count \in [Senders -> 0 .. MaxCounts]
    /\ refused \in BOOLEAN

Init ==
    /\ store = [s \in Senders |-> None]
    /\ generations = [s \in Senders |-> NoStone]
    /\ flight = [f \in Flights |-> Grounded]
    /\ held = [s \in Senders |-> {}]
    /\ count = [s \in Senders |-> 0]
    /\ refused = FALSE

-----------------------------------------------------------------------------
InFlight(f) == flight[f].token > 0

\* Mutant: the count begins again under its old number.
FreshCountMutant(c) ==
    [turns |-> 0, gen |-> c.gen, issued |-> 0, released |-> <<>>, age |-> 0]

\* A count begun again; the number of the old one is never used for another.
FreshCount(c) ==
    [turns |-> 0, gen |-> c.gen + 1, issued |-> 0, released |-> <<>>, age |-> 0]

Expired(s) == store[s] # None /\ store[s].age > TTL
Stale(s) == generations[s] # NoStone /\ generations[s].age > Factor * TTL

\* _gc: old tombstones go first, then the contexts, each leaving one.
Swept ==
    [s \in Senders |-> IF Expired(s) THEN [gen |-> store[s].gen + 1, age |-> 0]
                       ELSE IF Stale(s) THEN NoStone ELSE generations[s]]

\* The context that a post of s finds, or makes.
Context(s) ==
    IF store[s] # None /\ ~Expired(s) THEN store[s]
    ELSE [turns |-> 0, gen |-> IF Swept[s] = NoStone THEN 0 ELSE Swept[s].gen,
          issued |-> 0, released |-> <<>>, age |-> 0]

\* The filter offers a post to the budget.  The contexts that expired are gone, and the
\* sender's has been made if there was none.
Offer(f) ==
    LET s == f[1]
        c == Context(s)
        made == store[s] = None \/ Expired(s)
        taken == [turns |-> c.turns + 1, gen |-> c.gen, issued |-> c.issued + 1,
                  released |-> c.released, age |-> 0]
        kept == [x \in Senders |-> IF Expired(x) THEN None ELSE store[x]]
    IN /\ ~InFlight(f)
       /\ c.issued < MaxIssued /\ c.gen < MaxCounts /\ (made => count[s] < MaxCounts)
       /\ generations' = Swept
       /\ count' = [x \in Senders |-> IF x = s /\ made THEN count[x] + 1 ELSE count[x]]
       /\ IF c.turns >= MaxTurns
          THEN /\ store' = [kept EXCEPT ![s] = c]
               /\ refused' = (refused \/ Cardinality(held[s]) < MaxTurns)
               /\ UNCHANGED <<flight, held>>
          ELSE /\ store' = [kept EXCEPT ![s] = taken]
               /\ flight' = [flight EXCEPT ![f] = [token |-> taken.issued, gen |-> c.gen,
                                                   count |-> count'[s], age |-> 0]]
               /\ held' = [held EXCEPT ![s] = (IF made THEN {} ELSE @) \cup {taken.issued}]
               /\ UNCHANGED refused

\* release_turn: it answers for the count its token belongs to, once.
Released(c, token, gen) ==
    IF c = None \/ c.gen # gen \/ token > c.issued \/ Contains(c.released, token) THEN c
    ELSE [turns |-> c.turns - 1, gen |-> c.gen, issued |-> c.issued, age |-> 0,
          released |-> Append(IF Len(c.released) = Remembered THEN Tail(c.released)
                              ELSE c.released, token)]

\* The delivery ends without the agent having the post: the turn is returned.
HandBack(f) ==
    LET s == f[1]  p == flight[f] IN
    /\ InFlight(f)
    /\ store' = [store EXCEPT ![s] = Released(@, p.token, p.gen)]
    /\ held' = [held EXCEPT ![s] = IF p.count = count[s] THEN @ \ {p.token} ELSE @]
    /\ flight' = [flight EXCEPT ![f] = Grounded]
    /\ UNCHANGED <<generations, count, refused>>

\* It ends with the post handed over, or is cancelled: either way the turn is spent.
Land(f) ==
    /\ InFlight(f)
    /\ flight' = [flight EXCEPT ![f] = Grounded]
    /\ UNCHANGED <<store, generations, held, count, refused>>

\* A post of a human who may speak here, with a mention or without one.
HumanPost ==
    /\ \A s \in Senders : store[s] # None => count[s] < MaxCounts /\ store[s].gen < MaxCounts
    /\ \E s \in Senders : store[s] # None
    /\ store' = [s \in Senders |-> IF store[s] = None THEN None ELSE FreshCount(store[s])]
    /\ generations' = [s \in Senders |-> IF store[s] = None THEN generations[s]
                                         ELSE [gen |-> store'[s].gen, age |-> 0]]
    /\ held' = [s \in Senders |-> IF store[s] = None THEN held[s] ELSE {}]
    /\ count' = [s \in Senders |-> IF store[s] = None THEN count[s] ELSE count[s] + 1]
    /\ UNCHANGED <<flight, refused>>

\* The clock; what is older than any limit is not told apart.
Tick ==
    LET Older(x, limit) == IF x.age > limit THEN x ELSE [x EXCEPT !.age = @ + 1] IN
    /\ \A f \in Flights : InFlight(f) => flight[f].age < MaxFlight
    /\ store' = [s \in Senders |-> IF store[s] = None THEN None ELSE Older(store[s], TTL)]
    /\ generations' = [s \in Senders |-> IF generations[s] = NoStone THEN NoStone
                                         ELSE Older(generations[s], Factor * TTL)]
    /\ flight' = [f \in Flights |-> IF InFlight(f) THEN [flight[f] EXCEPT !.age = @ + 1]
                                    ELSE flight[f]]
    /\ UNCHANGED <<held, count, refused>>

Next ==
    \/ \E f \in Flights : Offer(f) \/ HandBack(f) \/ Land(f)
    \/ HumanPost \/ Tick

Spec == Init /\ [][Next]_chainVars

-----------------------------------------------------------------------------
\* A sender's live count is the number of its posts that hold a turn of it: the answer of
\* a delivery from before a reset or an expiry neither frees a turn nor costs one, and
\* nobody is refused before the budget is really spent.
BudgetHonest ==
    /\ \A s \in Senders : store[s] # None => store[s].turns = Cardinality(held[s])
    /\ ~refused
=============================================================================
