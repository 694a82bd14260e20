---------------------------- MODULE RoomPatterns ----------------------------
(* What the validation of a configuration says about the room patterns of its   *)
(* rules (core/room_pattern.py, config.py), against what the rules then match:  *)
(* the search of two sides' automata, one character more at a time, for a name  *)
(* that both accept, or that one accepts alone; its limit, and the alphabets    *)
(* it refuses.                                                                  *)
EXTENDS Naturals, Sequences, SequencesExt, FiniteSets

CONSTANTS Tokens,      \* bound of the model: the tokens that occur; a literal is a class of one
          Other,       \* a character that none of them mentions
          MaxTokens,   \* bound of the model: tokens of a pattern
          MaxLength,   \* bound of the model: characters of a name
          MaxProduct,  \* _MAX_PRODUCT_STATES
          Folding      \* what Unicode folds, one set of pairs at a time

VARIABLES question,    \* union_intersects, or union_subsumes
          left, right, \* the two unions: the exception and what is included; outer and inner
          folds, seen, queue,
          verdict,
          decided      \* history: the search was neither refused nor given up

patternVars == <<question, left, right, folds, seen, queue, verdict, decided>>

-----------------------------------------------------------------------------
(* Patterns and their automata.                                             *)

\* A run of stars is one star.
Patterns == {p \in SeqOf(Tokens, MaxTokens) :
                /\ p # <<>>
                /\ \A i \in 1 .. Len(p) - 1 : ~(p[i].kind = "any_run" /\ p[i + 1].kind = "any_run")}

Accepts(t, ch) == \/ t.kind = "any_one"
                  \/ t.kind = "class" /\ (ch \in t.members) # t.negated

\* Mutant: a star has to stand for a character.
ClosureMutant(p, S) == S

\* One star at most follows another position, since runs of them are collapsed.
Closure(p, S) == S \cup {s + 1 : s \in {q \in S : q <= Len(p) /\ p[q].kind = "any_run"}}

Start(p) == Closure(p, {1})

Read(p, S, ch) ==
    LET inside == {s \in S : s <= Len(p)} IN
    Closure(p, {s \in inside : p[s].kind = "any_run"}
               \cup {s + 1 : s \in {q \in inside : Accepts(p[q], ch)}})

Accepting(p, S) == Len(p) + 1 \in S

\* One character stands for all that no pattern mentions.
Mentioned == UNION {UNION {p[i].members : i \in DOMAIN p} : p \in left \cup right}

\* Mutant: it is forgotten.
AlphabetMutant == Mentioned

Alphabet == Mentioned \cup {Other}

\* No name is spelled with two characters that are folded into one.
Refused == \E a, b \in Mentioned : <<a, b>> \in folds

-----------------------------------------------------------------------------
(* The search.                                                              *)

\* What is answered when nothing can be said.
Nothing == question = "intersects"

StartNode == [p \in left \cup right |-> Start(p)]
Next1(node, ch) == [p \in left \cup right |-> Read(p, node[p], ch)]

One(side, node) == \E p \in side : Accepting(p, node[p])
Alive(side, node) == \E p \in side : node[p] # {}

Found(node) == IF question = "intersects" THEN One(left, node) /\ One(right, node)
               ELSE One(right, node) /\ ~One(left, node)

Worth(node) == Alive(right, node) /\ (question = "intersects" => Alive(left, node))

Unions(n) == {Range(pair) : pair \in [1 .. n -> Patterns]}

Init ==
    /\ \/ question = "intersects" /\ left \in Unions(1) /\ right \in Unions(1)
       \/ question = "subsumes" /\ left \in Unions(2) /\ right \in Unions(1)
    /\ folds \in Folding
    /\ seen = {StartNode} /\ queue = <<StartNode>>
    /\ verdict = "open" /\ decided = TRUE

Answer(v, sure) == verdict' = (IF v THEN "yes" ELSE "no") /\ decided' = sure

Refuse ==
    /\ verdict = "open" /\ Refused /\ Answer(Nothing, FALSE)
    /\ UNCHANGED <<question, left, right, folds, seen, queue>>

GiveUp ==
    /\ verdict = "open" /\ ~Refused /\ queue # <<>> /\ Cardinality(seen) > MaxProduct
    /\ Answer(Nothing, FALSE)
    /\ UNCHANGED <<question, left, right, folds, seen, queue>>

Search ==
    /\ verdict = "open" /\ ~Refused /\ queue # <<>> /\ Cardinality(seen) <= MaxProduct
    /\ LET node == Last(queue)
           next == {m \in {Next1(node, ch) : ch \in Alphabet} : Worth(m)} \ seen IN
       IF Found(node)
       THEN Answer(Nothing, TRUE) /\ queue' = Front(queue) /\ UNCHANGED seen
       ELSE /\ queue' = Front(queue) \o SetToSeq(next) /\ seen' = seen \cup next
            /\ UNCHANGED <<verdict, decided>>
    /\ UNCHANGED <<question, left, right, folds>>

Exhausted ==
    /\ verdict = "open" /\ ~Refused /\ queue = <<>> /\ Answer(~Nothing, TRUE)
    /\ UNCHANGED <<question, left, right, folds, seen, queue>>

Next == Refuse \/ GiveUp \/ Search \/ Exhausted

Spec == Init /\ [][Next]_patternVars

-----------------------------------------------------------------------------
(* What patterns mean, without automata: a name is cut into as many pieces. *)

Chars == UNION {t.members : t \in Tokens} \cup {Other}
Names == SeqOf(Chars, MaxLength)

Fits(t, piece) == \/ t.kind = "any_run"
                  \/ Len(piece) = 1 /\ Accepts(t, piece[1])

Language == [p \in Patterns |->
    {n \in Names :
       \E cut \in [0 .. Len(p) -> 0 .. Len(n)] :
          /\ cut[0] = 0 /\ cut[Len(p)] = Len(n)
          /\ \A i \in 1 .. Len(p) : /\ cut[i - 1] <= cut[i]
                                    /\ Fits(p[i], SubSeq(n, cut[i - 1] + 1, cut[i]))}]

RoomNames == {n \in Names : \A i \in 1 .. Len(n) - 1 : <<n[i], n[i + 1]>> \notin folds}
Matches(side, n) == \E p \in side : n \in Language[p]

\* RoomMatcher.match, for a named room.
Match(include, except, n) ==
    IF ~Matches(include, n) THEN "no_match"
    ELSE IF Matches(except, n) THEN "declined" ELSE "claimed"

\* first_matching_rule: a decline ends the search.
Winner(rules, n) ==
    LET heard == {i \in DOMAIN rules : Match(rules[i].include, rules[i].except, n) # "no_match"} IN
    IF heard = {} THEN 0
    ELSE LET first == CHOOSE i \in heard : \A j \in heard : i <= j IN
         IF Match(rules[first].include, rules[first].except, n) = "claimed" THEN first ELSE 0

TypeOK ==
    /\ verdict \in {"open", "yes", "no"} /\ decided \in BOOLEAN
    /\ Range(queue) \subseteq seen
    /\ \A node \in seen : \A p \in left \cup right : node[p] \subseteq 1 .. Len(p) + 1

\* An exception that does nothing is refused; a rule that an earlier one shadows is reported.
Dead == question = "intersects" /\ verdict = "no"
Shadowed == question = "subsumes" /\ verdict = "yes"

\* An exception that is refused as dead never declines a room, and a rule that is reported
\* as shadowed never wins one, whatever the earlier rule excepts; and a search that was
\* not cut short misses neither.
Verdicts ==
    /\ question = "intersects" /\ verdict # "open" =>
          LET declines == \E n \in RoomNames : Match(right, left, n) = "declined" IN
          /\ Dead => ~declines
          /\ ~Dead /\ decided => declines
    /\ question = "subsumes" /\ verdict # "open" =>
          LET wins(except) == \E n \in RoomNames :
                 Winner(<<[include |-> left, except |-> except],
                          [include |-> right, except |-> {}]>>, n) = 2 IN
          /\ Shadowed => ~wins({}) /\ ~wins(left)
          /\ ~Shadowed /\ decided => wins({}) /\ wins(left)
=============================================================================
