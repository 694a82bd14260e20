------------------------------ MODULE BotAccounts ------------------------------
(* Connectors that share a bot account (bot_identity.py, service.py): the platform *)
(* sends a direct message to each of them, so no two may answer the same one.     *)
(* What one answers is what its rules claim and what its records hold on to; both  *)
(* change with every reload and with every message.                               *)
EXTENDS FiniteSets, Naturals

CONSTANTS Bots,                    \* the connectors, all logged in as one account
          Dms, GroupDms,           \* the private conversations of that account
          Scopes,                  \* teams; Unscoped has none
          Unscoped, MaxReloads, MaxUndone

VARIABLES active,    \* the configuration in force: each bot's entry
          target,    \* the one a reload applies
          phase,        \* where the reload is
          waiting,      \* the bots its present phase has still to handle
          open,      \* the bots that answer messages
          passed,    \* those that passed the barrier in this reload
          degraded,
          records,   \* the conversations each bot has a record of
          due,       \* the records this reload is to expire
          owed,      \* history: those it could not, as it told the operator
          unsound,   \* history: bots that are degraded and answer
          reloads, undone

accountVars == <<active, target, phase, waiting, open, passed, degraded, records, due, owed,
                 unsound, reloads, undone>>

Classes == {"direct", "group"}
Chats == Dms \cup GroupDms
Absent == [on |-> FALSE, scope |-> Unscoped, claims |-> {}]
BotEntries == {Absent} \cup
    {[on |-> TRUE, scope |-> s, claims |-> k] : s \in Scopes \cup {Unscoped},
                                               k \in SUBSET Classes}
Configurations == {f \in [Bots -> BotEntries] : \A b, c \in Bots :
    f[b].on /\ f[c].on => (f[b].scope = Unscoped <=> f[c].scope = Unscoped)}

TypeOK ==
    /\ active \in Configurations /\ target \in Configurations
    /\ phase \in {"idle", "stopping", "reconciling", "connecting", "down"}
    /\ waiting \cup open \cup passed \cup degraded \cup unsound \subseteq Bots
    /\ records \in [Bots -> SUBSET Chats] /\ due \cup owed \subseteq Bots \X Chats
    /\ reloads \in 0 .. MaxReloads /\ undone \in 0 .. MaxUndone

-----------------------------------------------------------------------------
\* dm_claims, widened by fold_record_dm_claims with the records held.
Claim(config, held, b) ==
    [kinds |-> config[b].claims, rooms |-> held[b] \cap Dms, groups |-> held[b] \cap GroupDms]
NoRecords == [b \in Bots |-> {}]

\* DmClaim.overlaps: a class meets anything of its kind, a room meets itself.
Overlaps(x, y) ==
    \/ "direct" \in x.kinds /\ ("direct" \in y.kinds \/ y.rooms # {})
    \/ "direct" \in y.kinds /\ x.rooms # {}
    \/ "group" \in x.kinds /\ ("group" \in y.kinds \/ y.groups # {})
    \/ "group" \in y.kinds /\ x.groups # {}
    \/ x.rooms \cap y.rooms # {} \/ x.groups \cap y.groups # {}

\* Mutant: what the records hold on to is not looked at.
ConflictMutant(config, bots, held) ==
    \E b, c \in bots : b # c /\
        \/ config[b].scope = Unscoped \/ config[b].scope = config[c].scope
        \/ Overlaps(Claim(config, NoRecords, b), Claim(config, NoRecords, c))

\* find_identity_conflicts: two of one account must be of two teams, and share no DM.
Conflict(config, bots, held) ==
    \E b, c \in bots : b # c /\
        \/ config[b].scope = Unscoped \/ config[b].scope = config[c].scope
        \/ Overlaps(Claim(config, held, b), Claim(config, held, c))

KindOf(r) == IF r \in Dms THEN "direct" ELSE "group"
Uncovered(config, b) == {r \in records[b] : KindOf(r) \notin config[b].claims}

Changed(config) == {b \in Bots : active[b].on /\ config[b].on
                                 /\ (config[b].scope # active[b].scope \/ b \in degraded)}
Added(config) == {b \in Bots : ~active[b].on /\ config[b].on}
Gone(config) == {b \in Bots : active[b].on /\ ~config[b].on}
Kept(config) == {b \in Bots : active[b].on /\ config[b].on} \ Changed(config)
RulesChanged(config) == \E b \in Bots : config[b].claims # active[b].claims

Init ==
    /\ active \in Configurations /\ target = active
    /\ records = [b \in Bots |-> {}] /\ degraded = {}
    /\ ~Conflict(active, {b \in Bots : active[b].on}, records)
    /\ open = {b \in Bots : active[b].on} /\ passed = {}
    /\ phase = "idle" /\ waiting = {} /\ due = {} /\ owed = {} /\ unsound = {}
    /\ reloads = 0 /\ undone = 0

-----------------------------------------------------------------------------
\* A message: what has a record is answered from it, whatever the rules say by now, and
\* what a rule claims gets one.
Receive(b, r) ==
    /\ b \in open /\ KindOf(r) \in active[b].claims /\ r \notin records[b]
    /\ records' = [records EXCEPT ![b] = @ \cup {r}]
    /\ UNCHANGED <<active, target, phase, waiting, open, passed, degraded, due, owed, unsound,
                   reloads, undone>>

\* The operator, or its TTL, expires a record.
Expire(b, r) ==
    /\ b \in open /\ r \in records[b]
    /\ records' = [records EXCEPT ![b] = @ \ {r}]
    /\ owed' = owed \ {<<b, r>>} /\ due' = due \ {<<b, r>>}
    /\ UNCHANGED <<active, target, phase, waiting, open, passed, degraded, unsound, reloads,
                   undone>>

\* Of the records a bot's rules have let go of, those of failed stay.
Expiring(b, rs, failed) ==
    /\ undone + Cardinality(failed) <= MaxUndone
    /\ undone' = undone + Cardinality(failed)
    /\ records' = [records EXCEPT ![b] = @ \ (rs \ failed)]
    /\ due' = due \ ({b} \X Chats)

-----------------------------------------------------------------------------
(* The reload.                                                              *)

\* _kept_identity_conflict refuses a change of rules that would let two bots claim the
\* same direct messages; what their records hold it leaves to the reload, which expires
\* what a rule has let go of.  All bots are quiesced.
Reload(config) ==
    /\ phase = "idle" /\ reloads < MaxReloads /\ reloads' = reloads + 1
    /\ config # active \/ degraded # {}
    /\ IF RulesChanged(config) /\ Conflict(config, Kept(config) \ degraded, NoRecords)
       THEN UNCHANGED <<target, phase, waiting, open>>
       ELSE /\ target' = config /\ phase' = "stopping" /\ open' = {}
            /\ waiting' = Gone(config)
    /\ UNCHANGED <<active, passed, degraded, records, due, owed, unsound, undone>>

\* reclaim_all releases the records of a connector that goes; it is shut down.
Remove(b) ==
    /\ phase = "stopping" /\ b \in waiting /\ waiting' = waiting \ {b}
    /\ \E failed \in SUBSET records[b] : Expiring(b, records[b], failed)
    /\ owed' = owed \ ({b} \X Chats)
    /\ UNCHANGED <<active, target, phase, open, passed, degraded, unsound, reloads>>

\* The fleet is the new one; the bots that stay take their rules and are armed again.
Install ==
    /\ phase = "stopping" /\ waiting = {}
    /\ LET kept == Kept(target)
           leaving == UNION {{b} \X Uncovered(target, b) : b \in kept}
       IN /\ open' = kept /\ waiting' = IF RulesChanged(target) THEN kept ELSE {}
          /\ due' = IF RulesChanged(target) THEN leaving ELSE {}
    /\ passed' = Changed(target) \cup Added(target)
    /\ degraded' = degraded \cap Kept(target)
    /\ unsound' = unsound \cap Kept(target)
    /\ active' = target /\ phase' = "reconciling"
    /\ UNCHANGED <<target, records, owed, reloads, undone>>

\* reconcile_live: the records no rule covers any more go, one bot after another.  If it
\* breaks, its bot is called degraded and goes on as it is.
Reconcile(b) ==
    /\ phase = "reconciling" /\ b \in waiting /\ waiting' = waiting \ {b}
    /\ \/ \E failed \in SUBSET Uncovered(active, b) :
             /\ Expiring(b, Uncovered(active, b), failed)
             /\ owed' = (owed \ ({b} \X Chats)) \cup ({b} \X failed)
             /\ UNCHANGED <<degraded, unsound>>
       \/ /\ undone < MaxUndone /\ undone' = undone + 1
          /\ degraded' = degraded \cup {b} /\ unsound' = unsound \cup {b}
          /\ owed' = owed \cup {<<b, r>> : r \in Uncovered(active, b)}
          /\ due' = due \ ({b} \X Chats) /\ UNCHANGED records
    /\ UNCHANGED <<active, target, phase, open, passed, reloads>>

\* The connectors to start settle their records and connect, or cannot.  What they could not
\* expire is the barrier's business.
Settle(b) ==
    /\ phase = "reconciling" /\ waiting = {} /\ b \in passed
    /\ \/ \E failed \in SUBSET Uncovered(active, b) :
             Expiring(b, Uncovered(active, b), failed) /\ UNCHANGED <<degraded, owed>>
       \/ /\ undone < MaxUndone /\ undone' = undone + 1 /\ degraded' = degraded \cup {b}
          /\ UNCHANGED <<records, owed, due>>
    /\ passed' = passed \ {b}
    /\ UNCHANGED <<active, target, phase, waiting, open, unsound, reloads>>

StartBarrier ==
    /\ phase = "reconciling" /\ waiting = {} /\ passed = {}
    /\ phase' = "connecting"
    /\ waiting' = {b \in Bots : active[b].on} \ (open \cup degraded)
    /\ UNCHANGED <<active, target, open, passed, degraded, records, due, owed, unsound,
                   reloads, undone>>

\* The barrier, one new connector at a time; the one that does not pass is shut down.
Barrier(b) ==
    /\ phase = "connecting" /\ b \in waiting /\ waiting' = waiting \ {b}
    /\ LET accepted == (open \cup passed) \ degraded IN
       IF Conflict(active, accepted \cup {b}, records)
       THEN degraded' = degraded \cup {b} /\ UNCHANGED passed
       ELSE passed' = passed \cup {b} /\ UNCHANGED degraded
    /\ UNCHANGED <<active, target, phase, open, records, due, owed, unsound, reloads, undone>>

Finish ==
    /\ phase = "connecting" /\ waiting = {}
    /\ phase' = "idle" /\ open' = open \cup passed /\ passed' = {}
    /\ UNCHANGED <<active, target, waiting, degraded, records, due, owed, unsound, reloads,
                   undone>>

\* The process ends anywhere, and boots from the file: the records are settled as far as
\* they will, everybody connects, and one conflict refuses the whole start.
Boot(config) ==
    /\ reloads < MaxReloads /\ reloads' = reloads + 1
    /\ active' = config /\ target' = config /\ waiting' = {} /\ passed' = {}
    /\ degraded' = {} /\ unsound' = {} /\ due' = {} /\ owed' = {}
    /\ \E failed \in SUBSET UNION {{b} \X Uncovered(config, b) : b \in Bots} :
          /\ undone' = undone + Cardinality(failed) /\ undone' <= MaxUndone
          /\ records' = [b \in Bots |-> {r \in records[b] :
                             r \in Uncovered(config, b) => <<b, r>> \in failed}]
    /\ LET on == {b \in Bots : config[b].on} IN
       IF Conflict(config, on, records')
       THEN phase' = "down" /\ open' = {}
       ELSE phase' = "idle" /\ open' = on

Next ==
    \/ \E b \in Bots :
          \/ \E r \in Chats : Receive(b, r) \/ Expire(b, r)
          \/ Remove(b) \/ Reconcile(b) \/ Settle(b) \/ Barrier(b)
    \/ \E config \in Configurations : Reload(config) \/ Boot(config)
    \/ Install \/ StartBarrier \/ Finish

Spec == Init /\ [][Next]_accountVars

-----------------------------------------------------------------------------
\* No direct message is answered by two bots of one account, whatever the rules, the
\* reloads, and the records that outlive their rules: only a record a reload is about to
\* expire, or has reported that it could not, may meet another bot's claim.
Answers(b, r) ==
    /\ b \in open \ unsound /\ <<b, r>> \notin due \cup owed
    /\ r \in records[b] \/ KindOf(r) \in active[b].claims

OneAnswer == \A r \in Chats : Cardinality({b \in Bots : Answers(b, r)}) <= 1
=============================================================================
