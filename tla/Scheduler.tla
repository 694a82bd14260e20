----------------------------- MODULE Scheduler -----------------------------
(***************************************************************************)
(* The job scheduler and its store: the catch-up pass and the ticks of      *)
(* core/scheduler.py, the jobs and jobs.json of core/job_store.py, the      *)
(* operators' commands in control.py, the migration in core/job_migrate.py, *)
(* the cancellations and the reload's pause of the scheduler in service.py. *)
(*                                                                         *)
(* Time is a small number of slots; a cron expression is the set of slots   *)
(* it names.  A step runs from one await to the next, and a write through   *)
(* to_thread is two steps: the fields in memory, then the file.             *)
(***************************************************************************)
EXTENDS Naturals, FiniteSets

CONSTANTS
    Jobs,
    Legacy,         \* jobs that may be in a file written before jobs had a room
    Times,          \* Times[j]: runs of job j, 0 for ever
    Slots,          \* Slots[j]: the slots its cron expression names
    MaxTime,        \* the clock stops here
    MaxCatchup,     \* _MAX_MISSED_CATCHUP (500)
    MaxCrashes, MaxReloads,
    Links,          \* what a reload may make of a job's connector
    Ops,            \* the commands given: "create" "pause" "resume" "delete" "cancel" "migrate"
    SaveMayFail,    \* a write of jobs.json may raise
    NoJob

ASSUME TimeAssumption ==
    /\ MaxTime \in Nat \ {0} /\ MaxCatchup \in Nat \ {0}
    /\ MaxCrashes \in Nat /\ MaxReloads \in Nat
    /\ Times \in [Jobs -> Nat] /\ Slots \in [Jobs -> SUBSET (1..MaxTime)]
ASSUME JobsAssumption == Legacy \subseteq Jobs /\ NoJob \notin Jobs
ASSUME ChoicesAssumption == /\ Links \subseteq {"up", "degraded", "gone"}
                            /\ SaveMayFail \in BOOLEAN

VARIABLES
    now,
    rec,        \* rec[j]: the fields of job j's object
    listed,     \* the jobs in the store's dictionary
    version,    \* the schema version the store writes
    file,       \* jobs.json
    link,       \* link[j]: the connector of job j
    pc,         \* where the scheduler is; "down": the process is
    mode,       \* the pass under way: "catchup" or "tick"
    due,        \* jobs of the pass not fired yet, as list_due() returned them
    upto,       \* the instant the catch-up pass began
    fire,       \* the fire under way
    migration,  \* schedule migrate: jobs to look at, and whether all is well
    crashes, reloads,
    \* histories
    delivered,  \* delivered[j][s]: messages accepted for job j's slot s; not
                \* counted any more once a cancellation was taken back
    runs,       \* runs[j]: the same for all slots of job j together
    restarted   \* restarted[j]: the statuses job j was resumed from

storeVars == <<rec, listed, version>>
passVars == <<pc, mode, due, upto, fire>>
histVars == <<crashes, reloads, delivered, runs, restarted>>
vars == <<now, storeVars, file, link, passVars, migration, histVars>>

Never == MaxTime + 1                \* a slot beyond the clock
Statuses == {"absent", "active", "paused", "completed", "cancelled"}
Terminal == {"completed", "cancelled"}
Job == [status : Statuses, next : 0..Never, anchor : 0..Never, count : Nat, room : BOOLEAN]
NoRow == [status |-> "absent", next |-> 0, anchor |-> 0, count |-> 0, room |-> FALSE]
NoFire == [job |-> NoJob, slot |-> 0, copy |-> NoRow, missed |-> {}]
NoDelivery == [j \in Jobs |-> [s \in 1..Never |-> 0]]
NoMigration == [on |-> FALSE, todo |-> {}, unresolved |-> FALSE]

Least(S) == CHOOSE s \in S : \A u \in S : s <= u

\* compute_next_run(): the first slot strictly after an instant.
NextSlot(j, after) == Least({s \in Slots[j] : s > after} \cup {Never})

\* compute_all_missed(): the slots in (after, before], the first MaxCatchup.
Missed(j, after, before) ==
    LET all == {s \in Slots[j] : after < s /\ s <= before}
    IN {s \in all : Cardinality({u \in all : u <= s}) <= MaxCatchup}

\* list_due()
IsDue(r) == r.status = "active" /\ r.next # 0 /\ r.next <= now

\* save(): the file takes what memory holds, or the write raises.
Save ==
    \/ file' = [rows |-> [j \in Jobs |-> IF j \in listed' THEN rec'[j] ELSE NoRow],
                version |-> version']
    \/ SaveMayFail /\ UNCHANGED file

-----------------------------------------------------------------------------
\* The daemon finds no jobs.json, or one written by an older version.
Init ==
    LET old(j) == [status |-> "active", next |-> NextSlot(j, 0), anchor |-> 0,
                   count |-> 0, room |-> FALSE]
    IN /\ now = 0
       /\ listed \in SUBSET Legacy /\ version = IF listed = {} THEN 2 ELSE 1
       /\ rec = [j \in Jobs |-> IF j \in listed THEN old(j) ELSE NoRow]
       /\ file = [rows |-> rec, version |-> version]
       /\ link = [j \in Jobs |-> "up"]
       /\ pc = "off" /\ mode = "tick" /\ due = {} /\ upto = 0 /\ fire = NoFire
       /\ migration = NoMigration
       /\ crashes = 0 /\ reloads = 0
       /\ delivered = NoDelivery /\ runs = [j \in Jobs |-> 0]
       /\ restarted = [j \in Jobs |-> {}]

\* From a pass's beginning or a fire's end to the next injection nothing else runs.
LoopIsFree == pc # "pass"

Clock ==
    /\ LoopIsFree /\ now < MaxTime /\ now' = now + 1
    /\ UNCHANGED <<storeVars, file, link, passVars, migration, histVars>>

-----------------------------------------------------------------------------
(* The scheduler's task.                                                    *)

\* run(): the catch-up pass takes the fire lock first.
StartScheduler ==
    /\ pc = "off" /\ pc' = "pass" /\ mode' = "catchup"
    /\ due' = {j \in listed : IsDue(rec[j])} /\ upto' = now
    /\ UNCHANGED <<now, storeVars, file, link, fire, migration, histVars>>

\* Mutant: the task is cancelled wherever it is.
BetweenFiresMutant == pc \in {"idle", "injecting", "writing"}

\* _stop_scheduler() takes the fire lock.
BetweenFires == pc = "idle"

\* A reload stops the scheduler, and changes what connectors there are.
StopScheduler ==
    /\ BetweenFires /\ reloads < MaxReloads /\ reloads' = reloads + 1
    /\ pc' = "off" /\ fire' = NoFire /\ due' = {}
    /\ link' \in [Jobs -> Links]
    /\ UNCHANGED <<now, storeVars, file, mode, upto, migration, crashes, delivered, runs,
                   restarted>>

\* A tick purges jobs that ended long enough ago, then lists what is due.
Tick ==
    /\ pc = "idle" /\ pc' = "pass" /\ mode' = "tick"
    /\ UNCHANGED <<rec, version>>
    /\ \E ended \in SUBSET {j \in listed : rec[j].status \in Terminal} :
         /\ listed' = listed \ ended
         /\ IF ended = {} THEN UNCHANGED file ELSE Save
    /\ due' = {j \in listed' : IsDue(rec[j])}
    /\ UNCHANGED <<now, link, upto, fire, migration, histVars>>

\* The pass is over: sleep.
EndPass ==
    /\ pc = "pass" /\ due = {} /\ pc' = "idle"
    /\ mode' = "tick" /\ upto' = 0 /\ fire' = NoFire
    /\ UNCHANGED <<now, storeVars, file, link, due, migration, histVars>>

\* _fire_once() on a copy of a job, up to the injection.  A degraded connector
\* ends it here, and with it the job's catch-up; one that is gone cancels it.
Launch(j, job, slot, rest) ==
    /\ fire' = [job |-> j, slot |-> slot, copy |-> [job EXCEPT !.anchor = slot],
                missed |-> rest]
    /\ pc' = CASE link[j] = "up" -> "injecting"
               [] link[j] = "degraded" -> "pass"
               [] link[j] = "gone" -> "cancelling"

\* _fire_due_jobs(): the job's object is read again, its status is not.
FireDue(j) ==
    /\ pc = "pass" /\ mode = "tick" /\ j \in due /\ due' = due \ {j}
    /\ Launch(j, rec[j], IF rec[j].next = 0 THEN now ELSE rec[j].next, {})
    /\ UNCHANGED <<now, storeVars, file, link, mode, upto, migration, histVars>>

\* _fire_catch_up(): the last run of a job is fired once, for its own slot.
\* Any other job is fired for every slot since the last one it tried.
CatchUp(j) ==
    LET missed == Missed(j, rec[j].anchor, upto)
    IN /\ pc = "pass" /\ mode = "catchup" /\ j \in due /\ due' = due \ {j}
       /\ \/ /\ Times[j] > 0 /\ Times[j] - rec[j].count = 1
             /\ Launch(j, rec[j], IF rec[j].next = 0 THEN now ELSE rec[j].next, {})
          \/ /\ Times[j] = 0 \/ Times[j] - rec[j].count > 1
             /\ missed # {} /\ rec[j].status = "active"
             /\ Launch(j, rec[j], Least(missed), missed \ {Least(missed)})
          \/ /\ Times[j] = 0 \/ Times[j] - rec[j].count > 1
             /\ missed = {} \/ rec[j].status # "active"
             /\ UNCHANGED <<pc, fire>>
       /\ UNCHANGED <<now, storeVars, file, link, mode, upto, migration, histVars>>

\* Mutant: one run more than asked for.
ExhaustedMutant(j, count) == Times[j] > 0 /\ count > Times[j]

Exhausted(j, count) == Times[j] > 0 /\ count >= Times[j]

\* Mutant: a finite job that could not be delivered is tried again at once.
AfterFailureMutant(job, j, slot) == job

\* A finite job keeps its budget and goes on to its next slot.
AfterFailure(job, j, slot) == [job EXCEPT !.next = NextSlot(j, slot)]

\* The run is counted; for a job that runs for ever the count is left out.
AfterRun(job, j, slot) ==
    LET count == IF Times[j] = 0 THEN 0 ELSE job.count + 1
    IN IF Exhausted(j, count)
       THEN [job EXCEPT !.count = count, !.status = "completed", !.next = 0]
       ELSE [job EXCEPT !.count = count, !.next = NextSlot(j, slot)]

\* The room's processor took the message, or did not; one that never took it
\* counts as a run only where runs are not counted.
Injected(accepted) ==
    LET j == fire.job
    IN /\ pc = "injecting" /\ pc' = "writing"
       /\ IF accepted /\ "cancelled" \notin restarted[j]
          THEN /\ delivered' = [delivered EXCEPT ![j][fire.slot] = @ + 1]
               /\ runs' = [runs EXCEPT ![j] = @ + 1]
          ELSE UNCHANGED <<delivered, runs>>
       /\ fire' = [fire EXCEPT !.copy =
                     IF accepted \/ Times[j] = 0 THEN AfterRun(@, j, fire.slot)
                     ELSE AfterFailure(@, j, fire.slot)]
       /\ UNCHANGED <<now, storeVars, file, link, mode, due, upto, migration,
                      crashes, reloads, restarted>>

\* The fire is over; the catch-up goes on from the copy it returned.
Finish ==
    IF fire.missed # {} /\ fire.copy.status = "active"
    THEN Launch(fire.job, fire.copy, Least(fire.missed), fire.missed \ {Least(fire.missed)})
    ELSE pc' = "pass" /\ fire' = NoFire

\* Mutant: the cancellation is overwritten.
WritableMutant(j) == j \in listed

\* write_fields() leaves a job alone that is deleted or cancelled.
Writable(j) == j \in listed /\ rec[j].status # "cancelled"

\* Mutant: the whole copy is written back, as update() does.
FireOwnedMutant(stored, copy) == copy

\* FIRE_OWNED_FIELDS of the copy, the other fields of the stored job.
FireOwned(stored, copy) == [copy EXCEPT !.room = stored.room]

WriteFields ==
    LET j == fire.job
    IN /\ pc = "writing" /\ Writable(j)
       /\ rec' = [rec EXCEPT ![j] = FireOwned(@, fire.copy)]
       /\ pc' = "saving"
       /\ UNCHANGED <<now, listed, version, file, link, mode, due, upto, fire,
                      migration, histVars>>

\* write_fields() returned False, which nobody reads.
WriteRefused ==
    /\ pc = "writing" /\ ~Writable(fire.job) /\ Finish
    /\ UNCHANGED <<now, storeVars, file, link, mode, due, upto, migration, histVars>>

\* The job's connector has left the config: cancel(), on the live object.
CancelGone ==
    LET j == fire.job
    IN /\ pc = "cancelling" /\ pc' = "saving"
       /\ rec' = IF j \in listed THEN [rec EXCEPT ![j].status = "cancelled"] ELSE rec
       /\ fire' = [fire EXCEPT !.copy.status = "cancelled"]
       /\ UNCHANGED <<now, listed, version, file, link, mode, due, upto, migration,
                      histVars>>

SaveFire ==
    /\ pc = "saving" /\ Finish
    /\ UNCHANGED storeVars /\ Save
    /\ UNCHANGED <<now, link, mode, due, upto, migration, histVars>>

-----------------------------------------------------------------------------
(* Commands and cancellations, on the event loop: memory, then the file.    *)

Command(op) == LoopIsFree /\ pc # "down" /\ op \in Ops

\* schedule create: the first run is the cron's, or the one asked for.
Create(j, first) ==
    /\ Command("create") /\ rec[j].status = "absent"
    /\ first > now
    /\ rec' = [rec EXCEPT ![j] = [status |-> "active", next |-> first, anchor |-> now,
                                  count |-> 0, room |-> TRUE]]
    /\ listed' = listed \cup {j} /\ UNCHANGED version /\ Save
    /\ UNCHANGED <<now, link, passVars, migration, histVars>>

Pause(j) ==
    /\ Command("pause") /\ j \in listed /\ rec[j].status = "active"
    /\ rec' = [rec EXCEPT ![j].status = "paused"]
    /\ UNCHANGED <<listed, version>> /\ Save
    /\ UNCHANGED <<now, link, passVars, migration, histVars>>

\* Resume also restores a job the gateway cancelled.
Resume(j) ==
    /\ Command("resume") /\ j \in listed /\ rec[j].status \in {"paused", "cancelled"}
    /\ rec' = [rec EXCEPT ![j].status = "active", ![j].next = NextSlot(j, now)]
    /\ restarted' = [restarted EXCEPT ![j] = @ \cup {rec[j].status}]
    /\ IF rec[j].status = "cancelled"
       THEN /\ delivered' = [delivered EXCEPT ![j] = NoDelivery[j]]
            /\ runs' = [runs EXCEPT ![j] = 0]
       ELSE UNCHANGED <<delivered, runs>>
    /\ UNCHANGED <<listed, version>> /\ Save
    /\ UNCHANGED <<now, link, passVars, migration, crashes, reloads>>

Delete(j) ==
    /\ Command("delete") /\ j \in listed
    /\ listed' = listed \ {j} /\ UNCHANGED <<rec, version>> /\ Save
    /\ UNCHANGED <<now, link, passVars, migration, histVars>>

\* _cancel_jobs_for(): the bot was removed from the job's room.
CancelRoom(j) ==
    /\ Command("cancel") /\ j \in listed /\ rec[j].status \in {"active", "paused"}
    /\ rec' = [rec EXCEPT ![j].status = "cancelled"]
    /\ UNCHANGED <<listed, version>> /\ Save
    /\ UNCHANGED <<now, link, passVars, migration, histVars>>

\* needs_migration(): the version is old, or a job that can fire has no room.
Roomless == {j \in listed : ~rec[j].room /\ rec[j].status # "completed"}

Migrate ==
    /\ Command("migrate") /\ ~migration.on /\ (version < 2 \/ Roomless # {})
    /\ migration' = [on |-> TRUE, todo |-> listed, unresolved |-> FALSE]
    /\ UNCHANGED <<now, storeVars, file, link, passVars, histVars>>

\* One job's room is resolved, or is not; a job deleted meanwhile is passed over,
\* and a write that raises ends the run.
MigrateJob(j, resolved) ==
    LET owed == ~rec[j].room /\ rec[j].status # "completed"
    IN /\ LoopIsFree /\ migration.on /\ j \in migration.todo
       /\ IF owed /\ resolved /\ j \in listed
          THEN /\ rec' = [rec EXCEPT ![j].room = TRUE] /\ UNCHANGED <<listed, version>>
               /\ Save
               /\ migration' = IF file'.rows[j].room
                               THEN [migration EXCEPT !.todo = @ \ {j}] ELSE NoMigration
          ELSE /\ migration' = [migration EXCEPT !.todo = @ \ {j},
                                                 !.unresolved = @ \/ (owed /\ ~resolved)]
               /\ UNCHANGED <<storeVars, file>>
       /\ UNCHANGED <<now, link, passVars, histVars>>

MayStamp == ~migration.unresolved

\* The version moves once every job was accounted for.
MigrateEnd ==
    /\ LoopIsFree /\ migration.on /\ migration.todo = {} /\ migration' = NoMigration
    /\ IF MayStamp
       THEN version' = 2 /\ UNCHANGED <<rec, listed>> /\ Save
       ELSE UNCHANGED <<storeVars, file>>
    /\ UNCHANGED <<now, link, passVars, histVars>>

-----------------------------------------------------------------------------
(* The process.                                                             *)

\* The process dies.  What it would have to remember is gone, so memory is given
\* at once what load() will read.
Crash ==
    /\ pc # "down" /\ crashes < MaxCrashes /\ crashes' = crashes + 1
    /\ pc' = "down" /\ mode' = "tick" /\ due' = {} /\ upto' = 0 /\ fire' = NoFire
    /\ migration' = NoMigration
    /\ rec' = file.rows /\ version' = file.version
    /\ listed' = {j \in Jobs : file.rows[j].status # "absent"}
    /\ delivered' = [j \in Jobs |-> IF j \in listed' THEN delivered[j] ELSE NoDelivery[j]]
    /\ runs' = [j \in Jobs |-> IF j \in listed' THEN runs[j] ELSE 0]
    /\ restarted' = [j \in Jobs |-> IF j \in listed' THEN restarted[j] ELSE {}]
    /\ UNCHANGED <<now, file, link, reloads>>

\* load(), at the daemon's start.
Load ==
    /\ pc = "down" /\ pc' = "off"
    /\ UNCHANGED <<now, storeVars, file, link, mode, due, upto, fire, migration, histVars>>

-----------------------------------------------------------------------------
Task ==
    \/ StartScheduler \/ Tick \/ EndPass
    \/ \E j \in Jobs : FireDue(j) \/ CatchUp(j)
    \/ \E accepted \in BOOLEAN : Injected(accepted)
    \/ WriteFields \/ WriteRefused \/ CancelGone \/ SaveFire

Next ==
    \/ Clock \/ Task \/ StopScheduler \/ Crash \/ Load
    \/ \E j \in Jobs :
          \/ \E first \in 1..MaxTime : Create(j, first)
          \/ Pause(j) \/ Resume(j) \/ Delete(j) \/ CancelRoom(j)
          \/ \E resolved \in BOOLEAN : MigrateJob(j, resolved)
    \/ Migrate \/ MigrateEnd

\* The scheduler's task runs, its injections and writes return, and a daemon
\* that died is started again.
Fairness == WF_vars(Task) /\ WF_vars(Load)

Spec == Init /\ [][Next]_vars
FairSpec == Spec /\ Fairness

-----------------------------------------------------------------------------
(* Properties.                                                              *)

TypeOK ==
    /\ now \in 0..MaxTime
    /\ rec \in [Jobs -> Job] /\ listed \subseteq Jobs /\ version \in {1, 2}
    /\ file \in [rows : [Jobs -> Job], version : {1, 2}]
    /\ \A j \in Jobs : Times[j] > 0 => rec[j].count <= Times[j]
    /\ link \in [Jobs -> {"up", "degraded", "gone"}]
    /\ pc \in {"down", "off", "idle", "pass", "injecting", "writing", "saving", "cancelling"}
    /\ mode \in {"catchup", "tick"} /\ due \subseteq Jobs /\ upto \in 0..MaxTime
    /\ fire \in [job : Jobs \cup {NoJob}, slot : 0..Never, copy : Job,
                 missed : SUBSET (1..MaxTime)]
    /\ migration \in [on : BOOLEAN, todo : SUBSET Jobs, unresolved : BOOLEAN]
    /\ crashes \in 0..MaxCrashes /\ reloads \in 0..MaxReloads
    /\ delivered \in [Jobs -> [1..Never -> Nat]] /\ runs \in [Jobs -> Nat]
    /\ restarted \in [Jobs -> SUBSET {"paused", "cancelled"}]

\* A job with a number of runs delivers no more than that, over ticks,
\* catch-ups, reloads, pauses and restarts: a crash costs at most the one run it
\* cut off before it was written.  A cancellation that is taken back may cost one.
BudgetKept ==
    \A j \in Jobs : Times[j] > 0 /\ "cancelled" \notin restarted[j] =>
        runs[j] <= Times[j] + crashes

\* A slot is delivered once, and again only after a crash that came before the
\* write: no reload of the config, no catch-up and no slow injection makes the
\* scheduler forget that it fired a slot.
NoSlotTwice ==
    \A j \in Jobs : restarted[j] = {} =>
        \A s \in 1..Never : delivered[j][s] <= 1 + crashes

\* No slot and no budget is overrun, except by what a crash cut off.
NoRunTooMany == BudgetKept /\ NoSlotTwice

\* A file that says it was migrated was: every job in it that can fire has its
\* room, and no fire that was in flight took it away again.
HonestVersion ==
    file.version = 2 =>
        \A j \in Jobs : file.rows[j].status \notin {"absent", "completed"} => file.rows[j].room

\* A job that was deleted or cancelled stays so, whatever fire held a copy of
\* it: only an operator's resume brings a cancelled job back.
EndedStaysEnded ==
    [][pc' # "down" => \A j \in Jobs :
         /\ j \notin listed /\ rec[j].status # "absent" => j \notin listed'
         /\ rec[j].status = "cancelled" => rec'[j].status = "cancelled" \/ Resume(j)]_vars

\* A job that is due does not stay due unless its connector is not up: it is
\* fired and moves on, or it is ended, however often its injection fails.
DueIsSettled ==
    \A j \in Jobs :
        IsDue(rec[j]) /\ j \in listed /\ link[j] = "up"
            ~> ~IsDue(rec[j]) \/ j \notin listed \/ link[j] # "up"

-----------------------------------------------------------------------------
(* What the docs say and the code does not do.                              *)

\* scheduling.md: "Paused jobs do not fire until resumed."
PausedDoesNotFire ==
    [][pc' = "injecting" /\ fire' # fire => rec[fire'.job].status # "paused"]_vars
=============================================================================
