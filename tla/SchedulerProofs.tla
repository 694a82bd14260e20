-------------------------- MODULE SchedulerProofs --------------------------
(***************************************************************************)
(* Theorems about Scheduler, for every set of jobs, every schedule and       *)
(* every bound: its type, that the schema version of jobs.json is honest,   *)
(* that a job that was deleted or cancelled stays so, that no slot is       *)
(* delivered twice, and that no job is run more often than it was given.    *)
(***************************************************************************)
EXTENDS Scheduler, WellFoundedInduction, TLAPS

-----------------------------------------------------------------------------
(* The schedule.                                                            *)

\* A set of numbers that is not empty has its least element.
LEMMA LeastOf ==
    ASSUME NEW S, S \subseteq Nat, S # {}
    PROVE  Least(S) \in S /\ \A u \in S : Least(S) <= u
<1>1. IsWellFoundedOn(OpToRel(<, Nat), Nat)
  BY NatLessThanWellFounded
<1>2. PICK x \in S : \A y \in S : ~(<<y, x>> \in OpToRel(<, Nat))
  BY <1>1, WFMin
<1>3. \A y \in S : ~ (y < x)
  BY <1>2 DEF OpToRel
<1>4. \A y \in S : x <= y
  BY <1>3
<1> QED
  BY <1>4 DEF Least

\* compute_next_run() names a slot, or none that the clock reaches.
LEMMA NextSlotType ==
    ASSUME NEW j \in Jobs, NEW after
    PROVE  NextSlot(j, after) \in 1..Never
<1> DEFINE S == {s \in Slots[j] : s > after} \cup {Never}
<1>1. S \subseteq 1..Never /\ S # {}
  BY TimeAssumption DEF Never
<1>2. S \subseteq Nat
  BY <1>1, TimeAssumption DEF Never
<1>3. NextSlot(j, after) = Least(S)
  BY DEF NextSlot
<1> HIDE DEF S
<1> QED
  BY <1>1, <1>2, <1>3, LeastOf

\* compute_all_missed() returns slots of the clock, and the least of them is one.
LEMMA MissedType ==
    ASSUME NEW j \in Jobs, NEW after, NEW before
    PROVE  Missed(j, after, before) \subseteq 1..MaxTime
BY TimeAssumption DEF Missed

LEMMA LeastMissed ==
    ASSUME NEW S, S \subseteq 1..MaxTime, S # {}
    PROVE  Least(S) \in 1..MaxTime
<1>1. S \subseteq Nat
  BY TimeAssumption
<1> QED
  BY <1>1, LeastOf

-----------------------------------------------------------------------------
(* The inductive invariant.                                                 *)

\* A job that is not completed has runs left, so a fire may count one.
Spare(j, r) == Times[j] > 0 /\ r.status # "completed" => r.count < Times[j]

Firing == {"injecting", "writing", "cancelling"}

\* The runs of a job, its copy in a fire included; a job that is being fired,
\* or is about to be, is not completed by anything else.
Accounts ==
    /\ \A j \in Jobs : Spare(j, rec[j]) /\ Spare(j, file.rows[j])
    /\ \A j \in due : rec[j].status \notin {"absent", "completed"}
    /\ pc \in {"down", "off", "idle"} => fire = NoFire
    /\ pc \in Firing \cup {"saving"} =>
          /\ fire.job \in Jobs /\ fire.job \notin due /\ Spare(fire.job, fire.copy)
          /\ Times[fire.job] > 0 => fire.copy.count <= Times[fire.job]
    /\ pc \in Firing \cup {"saving"} => fire.copy.status # "absent"
    /\ pc \in {"injecting", "cancelling"} => fire.copy.status # "completed"
    /\ pc \in Firing => rec[fire.job].status \notin {"absent", "completed"}
    /\ pc = "saving" /\ fire.copy.status = "active" =>
          rec[fire.job].status \notin {"absent", "completed"}

Roomed(r) == r.status \notin {"absent", "completed"} => r.room

\* What the version in memory claims, and what a migration under way has done.
Migrated ==
    /\ \A j \in listed : rec[j].status # "absent"
    /\ version = 2 => \A j \in listed : Roomed(rec[j])
    /\ file.version = 2 => \A j \in Jobs : Roomed(file.rows[j])
    /\ migration.on /\ ~migration.unresolved =>
          \A j \in listed \ migration.todo : Roomed(rec[j])

CountsOK == \A j \in Jobs : Times[j] > 0 => file.rows[j].count <= Times[j]

IInv == TypeOK /\ CountsOK /\ Accounts /\ Migrated

LEMMA Constants ==
    /\ MaxTime \in Nat /\ Never \in Nat /\ MaxTime < Never /\ MaxTime > 0
    /\ \A j \in Jobs : Times[j] \in Nat /\ Slots[j] \subseteq 1..MaxTime
    /\ NoJob \notin Jobs /\ Legacy \subseteq Jobs
    /\ NoRow \in Job /\ NoFire.copy = NoRow
    /\ NoFire \in [job : Jobs \cup {NoJob}, slot : 0..Never, copy : Job,
                   missed : SUBSET (1..MaxTime)]
    /\ NoMigration \in [on : BOOLEAN, todo : SUBSET Jobs, unresolved : BOOLEAN]
    /\ NoDelivery \in [Jobs -> [1..Never -> Nat]]
<1>1. MaxTime \in Nat /\ Never \in Nat /\ MaxTime < Never /\ MaxTime > 0
  BY TimeAssumption DEF Never
<1>2. NoRow \in Job
  BY <1>1 DEF NoRow, Job, Statuses
<1> QED
  BY <1>1, <1>2, TimeAssumption, JobsAssumption
     DEF NoFire, NoMigration, NoDelivery, NoRow

LEMMA InitInv == Init => IInv
<1> SUFFICES ASSUME Init PROVE IInv
  OBVIOUS
<1> DEFINE old(j) == [status |-> "active", next |-> NextSlot(j, 0), anchor |-> 0,
                      count |-> 0, room |-> FALSE]
<1>1. \A j \in Jobs : old(j) \in Job /\ old(j).count = 0 /\ old(j).status = "active"
  <2> TAKE j \in Jobs
  <2>1. NextSlot(j, 0) \in 0..Never
    BY NextSlotType, Constants
  <2> QED
    BY <2>1, Constants DEF Job, Statuses
<1>2. \A j \in Jobs : rec[j] = IF j \in listed THEN old(j) ELSE NoRow
  BY DEF Init
<1>3. rec = [j \in Jobs |-> IF j \in listed THEN old(j) ELSE NoRow]
  BY DEF Init
<1> HIDE DEF old
<1>4. rec \in [Jobs -> Job] /\ \A j \in Jobs : rec[j].count = 0
  BY <1>1, <1>3, Constants DEF NoRow
<1>5. listed \subseteq Jobs /\ version \in {1, 2} /\ (version = 2 => listed = {})
  <2>1. listed \subseteq Legacy /\ version = IF listed = {} THEN 2 ELSE 1
    BY DEF Init
  <2> QED
    BY <2>1, JobsAssumption
<1>6. file = [rows |-> rec, version |-> version]
  BY DEF Init
<1>7. TypeOK
  <2>1. link \in [Jobs -> {"up", "degraded", "gone"}] /\ delivered \in [Jobs -> [1..Never -> Nat]]
        /\ runs \in [Jobs -> Nat] /\ restarted \in [Jobs -> SUBSET {"paused", "cancelled"}]
    BY Constants DEF Init
  <2>2. \A j \in Jobs : Times[j] > 0 => rec[j].count <= Times[j]
    BY <1>4, Constants
  <2>3. file \in [rows : [Jobs -> Job], version : {1, 2}]
    BY <1>4, <1>5, <1>6
  <2>4. now \in 0..MaxTime /\ upto \in 0..MaxTime /\ crashes \in 0..MaxCrashes
        /\ reloads \in 0..MaxReloads
    BY TimeAssumption DEF Init
  <2> QED
    BY <1>4, <1>5, <2>1, <2>2, <2>3, <2>4, Constants DEF Init, TypeOK
<1>8. CountsOK
  BY <1>4, <1>6, Constants DEF CountsOK
<1>9. Accounts
  <2>1. pc = "off" /\ due = {} /\ fire = NoFire /\ file.rows = rec
    BY <1>6 DEF Init
  <2> QED
    BY <1>4, <2>1, Constants DEF Accounts, Spare, Firing
<1>10. Migrated
  <2>1. \A j \in listed : rec[j].status = "active"
    BY <1>1, <1>2, <1>5
  <2>2. file.version = 2 => \A j \in Jobs : file.rows[j] = NoRow
    BY <1>2, <1>5, <1>6
  <2> QED
    BY <2>1, <2>2, <1>5 DEF Migrated, Roomed, NoRow, Init, NoMigration
<1> QED
  BY <1>7, <1>8, <1>9, <1>10 DEF IInv

-----------------------------------------------------------------------------
(* What the steps have in common.                                           *)

FireType == [job : Jobs \cup {NoJob}, slot : 0..Never, copy : Job,
             missed : SUBSET (1..MaxTime)]

\* A row and its budget.
Sound(j, r) == r \in Job /\ Spare(j, r) /\ (Times[j] > 0 => r.count <= Times[j])

\* save() writes rows that are as sound as those in memory, and a version that
\* is as honest.
LEMMA SaveKeeps ==
    ASSUME IInv, Save, listed' \subseteq Jobs, version' \in {1, 2},
           \A j \in Jobs : Sound(j, rec'[j]),
           version' = 2 => \A j \in listed' : Roomed(rec'[j])
    PROVE  /\ file' \in [rows : [Jobs -> Job], version : {1, 2}]
           /\ \A j \in Jobs : Sound(j, file'.rows[j])
           /\ file'.version = 2 => \A j \in Jobs : Roomed(file'.rows[j])
<1>1. CASE UNCHANGED file
  BY <1>1 DEF IInv, TypeOK, CountsOK, Accounts, Migrated, Sound
<1>2. CASE file' = [rows |-> [j \in Jobs |-> IF j \in listed' THEN rec'[j] ELSE NoRow],
                    version |-> version']
  <2>1. \A j \in Jobs : Sound(j, NoRow) /\ Roomed(NoRow)
    BY Constants DEF Sound, Spare, Roomed, NoRow
  <2>2. \A j \in Jobs : file'.rows[j] = IF j \in listed' THEN rec'[j] ELSE NoRow
    BY <1>2
  <2>3. \A j \in Jobs : Sound(j, file'.rows[j])
    BY <2>1, <2>2
  <2>4. \A j \in Jobs : (IF j \in listed' THEN rec'[j] ELSE NoRow) \in Job
    BY <2>1 DEF Sound
  <2>5. file' \in [rows : [Jobs -> Job], version : {1, 2}]
    BY <1>2, <2>4
  <2>6. file'.version = version'
    BY <1>2
  <2> QED
    BY <2>1, <2>2, <2>3, <2>5, <2>6
<1> QED
  BY <1>1, <1>2 DEF Save

\* A fire begins with a copy that has the job's count and status.
LEMMA LaunchKeeps ==
    ASSUME NEW j \in Jobs, NEW job \in Job, NEW slot \in 0..Never,
           NEW rest \in SUBSET (1..MaxTime),
           link[j] \in {"up", "degraded", "gone"},
           Launch(j, job, slot, rest)
    PROVE  /\ fire' \in FireType /\ fire'.job = j
           /\ fire'.copy.status = job.status /\ fire'.copy.count = job.count
           /\ pc' \in {"injecting", "pass", "cancelling"}
<1>1. fire' = [job |-> j, slot |-> slot, copy |-> [job EXCEPT !.anchor = slot],
               missed |-> rest]
  BY DEF Launch
<1>2. [job EXCEPT !.anchor = slot] \in Job
      /\ [job EXCEPT !.anchor = slot].status = job.status
      /\ [job EXCEPT !.anchor = slot].count = job.count
  BY DEF Job
<1>3. pc' \in {"injecting", "pass", "cancelling"}
  BY DEF Launch
<1> QED
  BY <1>1, <1>2, <1>3 DEF FireType

\* A step of the event loop that leaves the pass under way alone: jobs stay
\* sound, and nothing but a fire completes one.
LEMMA CommandKeeps ==
    ASSUME IInv, UNCHANGED <<now, link, passVars, crashes, reloads>>,
           rec' \in [Jobs -> Job], listed' \subseteq Jobs, version' \in {1, 2},
           \A j \in Jobs : Sound(j, rec'[j]),
           \A j \in Jobs : rec[j].status \notin {"absent", "completed"} =>
                             rec'[j].status \notin {"absent", "completed"},
           version' = 2 => \A j \in listed' : Roomed(rec'[j]),
           UNCHANGED file \/ Save,
           delivered' \in [Jobs -> [1..Never -> Nat]], runs' \in [Jobs -> Nat],
           restarted' \in [Jobs -> SUBSET {"paused", "cancelled"}],
           migration' \in [on : BOOLEAN, todo : SUBSET Jobs, unresolved : BOOLEAN],
           \A j \in listed' : rec'[j].status # "absent",
           migration'.on /\ ~migration'.unresolved =>
              \A j \in listed' \ migration'.todo : Roomed(rec'[j])
    PROVE  IInv'
<1>1. /\ file' \in [rows : [Jobs -> Job], version : {1, 2}]
      /\ \A j \in Jobs : Sound(j, file'.rows[j])
      /\ file'.version = 2 => \A j \in Jobs : Roomed(file'.rows[j])
  <2>1. CASE UNCHANGED file
    BY <2>1 DEF IInv, TypeOK, CountsOK, Accounts, Migrated, Sound
  <2>2. CASE Save
    BY <2>2, SaveKeeps
  <2> QED
    BY <2>1, <2>2
<1>2. TypeOK'
  BY <1>1 DEF IInv, TypeOK, Sound, passVars
<1>3. CountsOK'
  BY <1>1 DEF CountsOK, Sound
<1>4. Accounts'
  BY <1>1 DEF IInv, TypeOK, Accounts, Sound, Spare, Firing, passVars
<1>5. Migrated'
  BY <1>1 DEF Migrated, Roomed
<1> QED
  BY <1>2, <1>3, <1>4, <1>5 DEF IInv

\* What an invariant state says of the jobs.
LEMMA Rows ==
    ASSUME IInv
    PROVE  /\ rec \in [Jobs -> Job] /\ listed \subseteq Jobs /\ version \in {1, 2}
           /\ \A j \in Jobs : Sound(j, rec[j])
           /\ \A j \in listed : rec[j].status # "absent"
           /\ version = 2 => \A j \in listed : Roomed(rec[j])
           /\ migration \in [on : BOOLEAN, todo : SUBSET Jobs, unresolved : BOOLEAN]
           /\ delivered \in [Jobs -> [1..Never -> Nat]] /\ runs \in [Jobs -> Nat]
           /\ restarted \in [Jobs -> SUBSET {"paused", "cancelled"}]
           /\ \A j \in Jobs : link[j] \in {"up", "degraded", "gone"}
           /\ now \in 0..MaxTime /\ upto \in 0..MaxTime
           /\ migration.on /\ ~migration.unresolved =>
                 \A j \in listed \ migration.todo : Roomed(rec[j])
BY DEF IInv, TypeOK, Accounts, Migrated, Sound

-----------------------------------------------------------------------------
(* The operators' commands and the migration.                               *)

LEMMA CreateKeeps ==
    ASSUME IInv, NEW j \in Jobs, NEW first \in 1..MaxTime, Create(j, first)
    PROVE  IInv'
<1> DEFINE row == [status |-> "active", next |-> first, anchor |-> now, count |-> 0,
                   room |-> TRUE]
<1>1. row \in Job /\ Sound(j, row) /\ Roomed(row) /\ row.status = "active"
  <2>1. first \in 0..Never /\ now \in 0..Never
    <3>1. MaxTime \in Nat /\ Never \in Nat /\ MaxTime < Never /\ now \in 0..MaxTime
      BY Rows, Constants
    <3> QED
      BY <3>1
  <2>2. row \in Job
    BY <2>1 DEF Job, Statuses
  <2>3. Sound(j, row)
    BY <2>2, Constants DEF Sound, Spare
  <2> QED
    BY <2>2, <2>3 DEF Roomed
<1>2. rec' = [rec EXCEPT ![j] = row] /\ listed' = listed \cup {j} /\ Save
      /\ UNCHANGED <<version, now, link, passVars, migration, crashes, reloads,
                     delivered, runs, restarted>>
  BY DEF Create, histVars
<1> HIDE DEF row
<1>3. rec' \in [Jobs -> Job] /\ \A k \in Jobs : rec'[k] = IF k = j THEN row ELSE rec[k]
  BY <1>1, <1>2, Rows
<1> QED
  BY <1>1, <1>2, <1>3, Rows, CommandKeeps

LEMMA PauseKeeps ==
    ASSUME IInv, NEW j \in Jobs, Pause(j)
    PROVE  IInv'
<1> DEFINE row == [rec[j] EXCEPT !.status = "paused"]
<1>1. rec' = [rec EXCEPT ![j] = row] /\ j \in listed /\ rec[j].status = "active" /\ Save
      /\ UNCHANGED <<listed, version, now, link, passVars, migration, crashes, reloads,
                     delivered, runs, restarted>>
  BY DEF Pause, histVars
<1>2. row \in Job /\ Sound(j, row) /\ row.status = "paused" /\ row.room = rec[j].room
  <2>1. rec[j] \in Job /\ Sound(j, rec[j]) /\ rec[j].status # "completed"
    BY <1>1, Rows
  <2>2. row \in Job /\ row.status = "paused" /\ row.room = rec[j].room
        /\ row.count = rec[j].count
    BY <2>1 DEF Job, Statuses
  <2> QED
    BY <2>1, <2>2 DEF Sound, Spare
<1> HIDE DEF row
<1>3. rec' \in [Jobs -> Job] /\ \A k \in Jobs : rec'[k] = IF k = j THEN row ELSE rec[k]
  BY <1>1, <1>2, Rows
<1>4. Roomed(rec[j]) => Roomed(row)
  BY <1>1, <1>2 DEF Roomed
<1> QED
  BY <1>1, <1>2, <1>3, <1>4, Rows, CommandKeeps

LEMMA ResumeKeeps ==
    ASSUME IInv, NEW j \in Jobs, Resume(j)
    PROVE  IInv'
<1> DEFINE row == [rec[j] EXCEPT !.status = "active", !.next = NextSlot(j, now)]
<1>1. /\ rec' = [rec EXCEPT ![j] = row]
      /\ j \in listed /\ rec[j].status \in {"paused", "cancelled"}
      /\ Save
      /\ restarted' = [restarted EXCEPT ![j] = @ \cup {rec[j].status}]
      /\ IF rec[j].status = "cancelled"
         THEN /\ delivered' = [delivered EXCEPT ![j] = NoDelivery[j]]
              /\ runs' = [runs EXCEPT ![j] = 0]
         ELSE UNCHANGED <<delivered, runs>>
      /\ UNCHANGED <<listed, version, now, link, passVars, migration, crashes, reloads>>
  BY DEF Resume
<1>2. NextSlot(j, now) \in 0..Never
  BY NextSlotType, Constants
<1>3. row \in Job /\ Sound(j, row) /\ row.status = "active" /\ row.room = rec[j].room
  <2>1. rec[j] \in Job
    BY Rows
  <2>2. row \in Job /\ row.status = "active" /\ row.room = rec[j].room
        /\ row.count = rec[j].count
    BY <1>2, <2>1 DEF Job, Statuses
  <2>3. Sound(j, rec[j]) /\ rec[j].status # "completed"
    BY <1>1, Rows
  <2> QED
    BY <2>2, <2>3 DEF Sound, Spare
<1> HIDE DEF row
<1>4. rec' \in [Jobs -> Job] /\ \A k \in Jobs : rec'[k] = IF k = j THEN row ELSE rec[k]
  BY <1>1, <1>3, Rows
<1>5. Roomed(rec[j]) => Roomed(row)
  BY <1>1, <1>3 DEF Roomed
<1>6. delivered' \in [Jobs -> [1..Never -> Nat]] /\ runs' \in [Jobs -> Nat]
  <2>1. delivered' \in [Jobs -> [1..Never -> Nat]]
    <3>1. NoDelivery[j] \in [1..Never -> Nat] /\ delivered \in [Jobs -> [1..Never -> Nat]]
      BY Rows, Constants
    <3> QED
      BY <1>1, <3>1
  <2>2. runs' \in [Jobs -> Nat]
    BY <1>1, Rows
  <2> QED
    BY <2>1, <2>2
<1>7. restarted' \in [Jobs -> SUBSET {"paused", "cancelled"}]
  BY <1>1, Rows
<1> QED
  BY <1>1, <1>3, <1>4, <1>5, <1>6, <1>7, Rows, CommandKeeps

LEMMA DeleteKeeps ==
    ASSUME IInv, NEW j \in Jobs, Delete(j)
    PROVE  IInv'
<1>1. listed' = listed \ {j} /\ Save
      /\ UNCHANGED <<rec, version, now, link, passVars, migration, crashes, reloads,
                     delivered, runs, restarted>>
  BY DEF Delete, histVars
<1> QED
  BY <1>1, Rows, CommandKeeps

LEMMA CancelRoomKeeps ==
    ASSUME IInv, NEW j \in Jobs, CancelRoom(j)
    PROVE  IInv'
<1> DEFINE row == [rec[j] EXCEPT !.status = "cancelled"]
<1>1. rec' = [rec EXCEPT ![j] = row] /\ j \in listed
      /\ rec[j].status \in {"active", "paused"} /\ Save
      /\ UNCHANGED <<listed, version, now, link, passVars, migration, crashes, reloads,
                     delivered, runs, restarted>>
  BY DEF CancelRoom, histVars
<1>2. row \in Job /\ Sound(j, row) /\ row.status = "cancelled" /\ row.room = rec[j].room
  <2>1. rec[j] \in Job /\ Sound(j, rec[j]) /\ rec[j].status # "completed"
    BY <1>1, Rows
  <2>2. row \in Job /\ row.status = "cancelled" /\ row.room = rec[j].room
        /\ row.count = rec[j].count
    BY <2>1 DEF Job, Statuses
  <2> QED
    BY <2>1, <2>2 DEF Sound, Spare
<1> HIDE DEF row
<1>3. rec' \in [Jobs -> Job] /\ \A k \in Jobs : rec'[k] = IF k = j THEN row ELSE rec[k]
  BY <1>1, <1>2, Rows
<1>4. Roomed(rec[j]) => Roomed(row)
  BY <1>1, <1>2 DEF Roomed
<1> QED
  BY <1>1, <1>2, <1>3, <1>4, Rows, CommandKeeps

LEMMA MigrateKeeps ==
    ASSUME IInv, Migrate
    PROVE  IInv'
<1>1. migration' = [on |-> TRUE, todo |-> listed, unresolved |-> FALSE]
      /\ UNCHANGED <<rec, listed, version, file, now, link, passVars, crashes, reloads,
                     delivered, runs, restarted>>
  BY DEF Migrate, storeVars, histVars
<1> QED
  BY <1>1, Rows, CommandKeeps

\* A job that is passed over has its room, is completed, or is deleted.
LEMMA MigrateJobKeeps ==
    ASSUME IInv, NEW j \in Jobs, NEW resolved \in BOOLEAN, MigrateJob(j, resolved)
    PROVE  IInv'
<1> DEFINE owed == ~rec[j].room /\ rec[j].status # "completed"
<1> DEFINE row == [rec[j] EXCEPT !.room = TRUE]
<1>1. migration.on /\ j \in migration.todo
      /\ UNCHANGED <<now, link, passVars, crashes, reloads, delivered, runs, restarted>>
  BY DEF MigrateJob, histVars
<1>2. CASE owed /\ resolved /\ j \in listed
  <2>1. rec' = [rec EXCEPT ![j] = row] /\ UNCHANGED <<listed, version>> /\ Save
        /\ migration' \in {[migration EXCEPT !.todo = @ \ {j}], NoMigration}
    BY <1>2 DEF MigrateJob
  <2>2. row \in Job /\ Sound(j, row) /\ Roomed(row) /\ row.status = rec[j].status
    <3>1. rec[j] \in Job /\ Sound(j, rec[j])
      BY Rows
    <3>2. row \in Job /\ row.status = rec[j].status /\ row.count = rec[j].count /\ row.room
      BY <3>1 DEF Job
    <3> QED
      BY <3>1, <3>2 DEF Sound, Spare, Roomed
  <2> HIDE DEF row, owed
  <2>3. rec' \in [Jobs -> Job] /\ \A k \in Jobs : rec'[k] = IF k = j THEN row ELSE rec[k]
    BY <2>1, <2>2, Rows
  <2>4. migration' \in [on : BOOLEAN, todo : SUBSET Jobs, unresolved : BOOLEAN]
        /\ (migration'.on /\ ~migration'.unresolved =>
              ~migration.unresolved /\ migration'.todo = migration.todo \ {j})
    <3>1. CASE migration' = [migration EXCEPT !.todo = @ \ {j}]
      BY <3>1, Rows
    <3>2. CASE migration' = NoMigration
      BY <3>2 DEF NoMigration
    <3> QED
      BY <2>1, <3>1, <3>2
  <2> QED
    BY <1>1, <2>1, <2>2, <2>3, <2>4, Rows, CommandKeeps
<1>3. CASE ~(owed /\ resolved /\ j \in listed)
  <2>1. migration' = [migration EXCEPT !.todo = @ \ {j},
                                       !.unresolved = @ \/ (owed /\ ~resolved)]
        /\ UNCHANGED <<rec, listed, version, file>>
    BY <1>3 DEF MigrateJob, storeVars
  <2>2. migration' \in [on : BOOLEAN, todo : SUBSET Jobs, unresolved : BOOLEAN]
        /\ (migration'.on /\ ~migration'.unresolved =>
              /\ migration.on /\ ~migration.unresolved /\ ~(owed /\ ~resolved)
              /\ migration'.todo = migration.todo \ {j})
    BY <2>1, Rows
  <2>3. ~owed => Roomed(rec[j])
    BY DEF Roomed
  <2> HIDE DEF owed
  <2>4. migration'.on /\ ~migration'.unresolved =>
           \A k \in listed' \ migration'.todo : Roomed(rec'[k])
    BY <1>3, <2>1, <2>2, <2>3, Rows
  <2> QED
    BY <1>1, <2>1, <2>2, <2>4, Rows, CommandKeeps
<1> QED
  BY <1>2, <1>3

\* Every job was accounted for, so the new version is true.
LEMMA MigrateEndKeeps ==
    ASSUME IInv, MigrateEnd
    PROVE  IInv'
<1>1. migration.on /\ migration.todo = {} /\ migration' = NoMigration
      /\ UNCHANGED <<now, link, passVars, crashes, reloads, delivered, runs, restarted>>
  BY DEF MigrateEnd, histVars
<1>2. ~migration'.on /\ migration' \in [on : BOOLEAN, todo : SUBSET Jobs, unresolved : BOOLEAN]
  BY <1>1, Constants DEF NoMigration
<1>3. CASE MayStamp
  <2>1. version' = 2 /\ UNCHANGED <<rec, listed>> /\ Save
    BY <1>3 DEF MigrateEnd
  <2>2. \A j \in listed : Roomed(rec[j])
    BY <1>1, <1>3, Rows DEF MayStamp
  <2> QED
    BY <1>1, <1>2, <2>1, <2>2, Rows, CommandKeeps
<1>4. CASE ~MayStamp
  <2>1. UNCHANGED <<rec, listed, version, file>>
    BY <1>4 DEF MigrateEnd, storeVars
  <2> QED
    BY <1>1, <1>2, <2>1, Rows, CommandKeeps
<1> QED
  BY <1>3, <1>4

-----------------------------------------------------------------------------
(* The scheduler's task.                                                    *)

\* A step of the task that writes nothing.
LEMMA PassKeeps ==
    ASSUME IInv, UNCHANGED <<storeVars, file, migration, crashes, restarted>>,
           now' \in 0..MaxTime, upto' \in 0..MaxTime, reloads' \in 0..MaxReloads,
           link' \in [Jobs -> {"up", "degraded", "gone"}],
           delivered' \in [Jobs -> [1..Never -> Nat]], runs' \in [Jobs -> Nat],
           pc' \in {"down", "off", "idle", "pass"} \cup Firing,
           mode' \in {"catchup", "tick"}, due' \subseteq Jobs, fire' \in FireType,
           Accounts'
    PROVE  IInv'
<1>1. TypeOK'
  BY DEF IInv, TypeOK, storeVars, FireType, Firing
<1>2. CountsOK' /\ Migrated'
  BY DEF IInv, CountsOK, Migrated, Roomed, storeVars
<1> QED
  BY <1>1, <1>2 DEF IInv

LEMMA StartSchedulerKeeps == ASSUME IInv, StartScheduler PROVE IInv'
<1> DEFINE listedDue == {j \in listed : IsDue(rec[j])}
<1>1. pc = "off" /\ pc' = "pass" /\ mode' = "catchup" /\ due' = listedDue /\ upto' = now
      /\ UNCHANGED <<now, storeVars, file, link, fire, migration, histVars>>
  BY DEF StartScheduler
<1>2. listedDue \subseteq Jobs /\ \A j \in listedDue : rec[j].status \notin {"absent", "completed"}
  BY Rows DEF IsDue
<1> HIDE DEF listedDue
<1>3. Accounts'
  BY <1>1, <1>2 DEF IInv, Accounts, Firing, Spare, storeVars
<1> QED
  BY <1>1, <1>2, <1>3, PassKeeps DEF IInv, TypeOK, histVars, FireType

LEMMA StopSchedulerKeeps == ASSUME IInv, StopScheduler PROVE IInv'
<1>1. pc' = "off" /\ fire' = NoFire /\ due' = {} /\ link' \in [Jobs -> Links]
      /\ reloads < MaxReloads /\ reloads' = reloads + 1
      /\ UNCHANGED <<now, storeVars, file, mode, upto, migration, crashes, delivered, runs, restarted>>
  BY DEF StopScheduler
<1>2. link' \in [Jobs -> {"up", "degraded", "gone"}]
  BY <1>1, ChoicesAssumption
<1>3. reloads' \in 0..MaxReloads
  BY <1>1, TimeAssumption DEF IInv, TypeOK
<1>4. Accounts'
  BY <1>1 DEF IInv, Accounts, Firing, Spare, storeVars
<1> QED
  BY <1>1, <1>2, <1>3, <1>4, Constants, PassKeeps DEF IInv, TypeOK, FireType

LEMMA EndPassKeeps == ASSUME IInv, EndPass PROVE IInv'
<1>1. due = {} /\ pc' = "idle" /\ mode' = "tick" /\ upto' = 0 /\ fire' = NoFire
      /\ UNCHANGED <<now, storeVars, file, link, due, migration, histVars>>
  BY DEF EndPass
<1>2. Accounts'
  BY <1>1 DEF IInv, Accounts, Firing, Spare, storeVars
<1>3. upto' \in 0..MaxTime
  BY <1>1, Constants
<1> QED
  BY <1>1, <1>2, <1>3, Constants, PassKeeps DEF IInv, TypeOK, histVars, FireType

LEMMA TickKeeps == ASSUME IInv, Tick PROVE IInv'
<1>1. PICK ended \in SUBSET {j \in listed : rec[j].status \in Terminal} :
         /\ listed' = listed \ ended
         /\ IF ended = {} THEN UNCHANGED file ELSE Save
  BY DEF Tick
<1> DEFINE listedDue == {j \in listed' : IsDue(rec[j])}
<1>2. pc = "idle" /\ pc' = "pass" /\ mode' = "tick" /\ due' = listedDue
      /\ UNCHANGED <<rec, version, now, link, upto, fire, migration, histVars>>
  BY DEF Tick
<1>3. listedDue \subseteq Jobs /\ \A j \in listedDue : rec[j].status \notin {"absent", "completed"}
  BY <1>1, Rows DEF IsDue
<1> HIDE DEF listedDue
<1>4. /\ file' \in [rows : [Jobs -> Job], version : {1, 2}]
      /\ \A j \in Jobs : Sound(j, file'.rows[j])
      /\ file'.version = 2 => \A j \in Jobs : Roomed(file'.rows[j])
  <2>1. CASE UNCHANGED file
    BY <2>1 DEF IInv, TypeOK, CountsOK, Accounts, Migrated, Sound
  <2>2. CASE Save
    BY <1>1, <1>2, <2>2, Rows, SaveKeeps
  <2> QED
    BY <1>1, <2>1, <2>2
<1>5. TypeOK'
  BY <1>1, <1>2, <1>3, <1>4 DEF IInv, TypeOK, histVars
<1>6. CountsOK'
  BY <1>4 DEF CountsOK, Sound
<1>7. Accounts'
  BY <1>2, <1>3, <1>4 DEF IInv, Accounts, Sound, Spare, Firing
<1>8. Migrated'
  BY <1>1, <1>2, <1>4 DEF IInv, Migrated, Roomed
<1> QED
  BY <1>5, <1>6, <1>7, <1>8 DEF IInv

\* A job of the pass is fired: it is not completed, so its copy has runs left.
LEMMA FireKeeps ==
    ASSUME IInv, NEW j \in due, NEW slot \in 0..Never, NEW rest \in SUBSET (1..MaxTime),
           due' = due \ {j}, Launch(j, rec[j], slot, rest),
           UNCHANGED <<now, storeVars, file, link, mode, upto, migration, histVars>>
    PROVE  IInv'
<1>1. j \in Jobs /\ rec[j] \in Job /\ rec[j].status \notin {"absent", "completed"} /\ Sound(j, rec[j])
  BY Rows DEF IInv, TypeOK, Accounts
<1>2. /\ fire' \in FireType /\ fire'.job = j
      /\ fire'.copy.status = rec[j].status /\ fire'.copy.count = rec[j].count
      /\ pc' \in {"injecting", "pass", "cancelling"}
  BY <1>1, Rows, LaunchKeeps
<1>3. Accounts'
  BY <1>1, <1>2 DEF IInv, TypeOK, Accounts, Spare, Sound, Firing, storeVars
<1> QED
  BY <1>2, <1>3, PassKeeps DEF IInv, TypeOK, histVars, Firing

LEMMA FireDueKeeps == ASSUME IInv, NEW j \in Jobs, FireDue(j) PROVE IInv'
<1> DEFINE slot == IF rec[j].next = 0 THEN now ELSE rec[j].next
<1>1. j \in due /\ due' = due \ {j} /\ Launch(j, rec[j], slot, {})
      /\ UNCHANGED <<now, storeVars, file, link, mode, upto, migration, histVars>>
  BY DEF FireDue
<1>2. slot \in 0..Never
  <2>1. MaxTime \in Nat /\ Never \in Nat /\ MaxTime < Never /\ now \in 0..MaxTime
        /\ rec[j].next \in 0..Never
    BY Rows, Constants DEF Job
  <2> QED
    BY <2>1
<1> HIDE DEF slot
<1> QED
  BY <1>1, <1>2, FireKeeps

LEMMA CatchUpKeeps == ASSUME IInv, NEW j \in Jobs, CatchUp(j) PROVE IInv'
<1> DEFINE slot == IF rec[j].next = 0 THEN now ELSE rec[j].next
<1> DEFINE missed == Missed(j, rec[j].anchor, upto)
<1>1. pc = "pass" /\ j \in due /\ due' = due \ {j}
      /\ UNCHANGED <<now, storeVars, file, link, mode, upto, migration, histVars>>
  BY DEF CatchUp
<1>2. \/ Launch(j, rec[j], slot, {})
      \/ missed # {} /\ Launch(j, rec[j], Least(missed), missed \ {Least(missed)})
      \/ UNCHANGED <<pc, fire>>
  BY DEF CatchUp
<1>3. MaxTime \in Nat /\ Never \in Nat /\ MaxTime < Never /\ now \in 0..MaxTime
      /\ rec[j].next \in 0..Never
  BY Rows, Constants DEF Job
<1>4. slot \in 0..Never
  BY <1>3
<1>5. missed \subseteq 1..MaxTime
  BY MissedType
<1> HIDE DEF slot, missed
<1>6. CASE Launch(j, rec[j], slot, {})
  BY <1>1, <1>4, <1>6, FireKeeps
<1>7. CASE missed # {} /\ Launch(j, rec[j], Least(missed), missed \ {Least(missed)})
  <2>1. Least(missed) \in 1..MaxTime
    BY <1>5, <1>7, LeastMissed
  <2>2. Least(missed) \in 0..Never
    BY <1>3, <2>1
  <2> QED
    BY <1>1, <1>5, <1>7, <2>2, FireKeeps
<1>8. CASE UNCHANGED <<pc, fire>>
  <2>1. Accounts'
    BY <1>1, <1>8 DEF IInv, Accounts, Firing, Spare, storeVars
  <2> QED
    BY <1>1, <1>8, <2>1, PassKeeps DEF IInv, TypeOK, histVars, FireType
<1> QED
  BY <1>2, <1>6, <1>7, <1>8

-----------------------------------------------------------------------------
(* A fire, from the injection's answer to the next fire.                    *)

\* What an invariant state says of the fire under way.
LEMMA InFire ==
    ASSUME IInv, pc \in Firing \cup {"saving"}
    PROVE  /\ fire \in FireType /\ fire.job \in Jobs /\ fire.job \notin due
           /\ fire.copy \in Job /\ Sound(fire.job, fire.copy)
           /\ rec[fire.job] \in Job /\ Sound(fire.job, rec[fire.job])
           /\ fire.missed \in SUBSET (1..MaxTime)
<1>1. fire \in FireType /\ fire.job \in Jobs /\ fire.job \notin due
      /\ Spare(fire.job, fire.copy)
      /\ (Times[fire.job] > 0 => fire.copy.count <= Times[fire.job])
  BY DEF IInv, TypeOK, Accounts, FireType
<1>2. fire.copy \in Job /\ fire.missed \in SUBSET (1..MaxTime)
  BY <1>1 DEF FireType
<1> QED
  BY <1>1, <1>2, Rows DEF Sound

\* The accounting of a run, and of a failure, of a job that has runs left.
LEMMA RunIsCounted ==
    ASSUME NEW j \in Jobs, NEW r \in Job, NEW slot, Sound(j, r), r.status # "completed"
    PROVE  /\ Sound(j, AfterRun(r, j, slot)) /\ Sound(j, AfterFailure(r, j, slot))
           /\ r.status # "absent" => AfterRun(r, j, slot).status # "absent"
           /\ AfterFailure(r, j, slot).status = r.status
<1>1. NextSlot(j, slot) \in 0..Never /\ 0 \in 0..Never
  <2>1. Never \in Nat
    BY Constants
  <2> QED
    BY <2>1, NextSlotType
<1>2. Times[j] \in Nat /\ r.count \in Nat /\ (Times[j] > 0 => r.count < Times[j])
  BY Constants DEF Job, Sound, Spare
<1> DEFINE count == IF Times[j] = 0 THEN 0 ELSE r.count + 1
<1>3. count \in Nat /\ (Times[j] > 0 => count <= Times[j])
  BY <1>2
<1>4. AfterRun(r, j, slot) =
         IF Exhausted(j, count)
         THEN [r EXCEPT !.count = count, !.status = "completed", !.next = 0]
         ELSE [r EXCEPT !.count = count, !.next = NextSlot(j, slot)]
  BY DEF AfterRun
<1> HIDE DEF count
<1>5. ASSUME Exhausted(j, count)
      PROVE  Sound(j, AfterRun(r, j, slot)) /\ AfterRun(r, j, slot).status = "completed"
  <2> DEFINE done == [r EXCEPT !.count = count, !.status = "completed", !.next = 0]
  <2>1. done \in Job /\ done.count = count /\ done.status = "completed"
    BY <1>1, <1>3 DEF Job, Statuses
  <2> QED
    BY <1>3, <1>4, <1>5, <2>1 DEF Sound, Spare
<1>6. ASSUME ~Exhausted(j, count)
      PROVE  Sound(j, AfterRun(r, j, slot)) /\ AfterRun(r, j, slot).status = r.status
  <2> DEFINE next == [r EXCEPT !.count = count, !.next = NextSlot(j, slot)]
  <2>1. next \in Job /\ next.count = count /\ next.status = r.status
    BY <1>1, <1>3 DEF Job, Statuses
  <2>2. Times[j] > 0 => count < Times[j]
    BY <1>2, <1>3, <1>6 DEF Exhausted
  <2> QED
    BY <1>3, <1>4, <1>6, <2>1, <2>2 DEF Sound, Spare
<1>7. Sound(j, AfterFailure(r, j, slot)) /\ AfterFailure(r, j, slot).status = r.status
  <2> DEFINE next == [r EXCEPT !.next = NextSlot(j, slot)]
  <2>1. next \in Job /\ next.count = r.count /\ next.status = r.status
    BY <1>1 DEF Job
  <2> QED
    BY <2>1 DEF Sound, Spare, AfterFailure
<1> QED
  BY <1>5, <1>6, <1>7

LEMMA InjectedKeeps == ASSUME IInv, NEW accepted \in BOOLEAN, Injected(accepted) PROVE IInv'
<1> DEFINE j == fire.job
<1> DEFINE copy == IF accepted \/ Times[j] = 0 THEN AfterRun(fire.copy, j, fire.slot)
                   ELSE AfterFailure(fire.copy, j, fire.slot)
<1>1. pc = "injecting" /\ pc' = "writing"
      /\ fire' = [fire EXCEPT !.copy = copy]
      /\ UNCHANGED <<now, storeVars, file, link, mode, due, upto, migration,
                     crashes, reloads, restarted>>
  BY DEF Injected
<1>2. j \in Jobs /\ j \notin due /\ fire \in FireType /\ fire.copy \in Job
      /\ Sound(j, fire.copy)
  BY <1>1, InFire DEF Firing
<1>3. fire.copy.status \notin {"absent", "completed"} /\ rec[j].status \notin {"absent", "completed"}
  BY <1>1 DEF IInv, Accounts, Firing
<1>4. Sound(j, copy) /\ copy.status # "absent"
  BY <1>2, <1>3, RunIsCounted
<1> HIDE DEF copy
<1>5. fire' \in FireType /\ fire'.job = j /\ fire'.copy = copy
  BY <1>1, <1>2, <1>4 DEF FireType, Sound
<1>6. delivered' \in [Jobs -> [1..Never -> Nat]] /\ runs' \in [Jobs -> Nat]
  <2>1. delivered \in [Jobs -> [1..Never -> Nat]] /\ runs \in [Jobs -> Nat]
    BY Rows
  <2>2. ASSUME NEW f \in [1..Never -> Nat], NEW slot
        PROVE  [f EXCEPT ![slot] = @ + 1] \in [1..Never -> Nat]
    <3>1. CASE slot \in 1..Never
      BY <3>1
    <3>2. CASE slot \notin 1..Never
      BY <3>2
    <3> QED
      BY <3>1, <3>2
  <2> DEFINE counted == [delivered[j] EXCEPT ![fire.slot] = @ + 1]
  <2>3. \/ UNCHANGED <<delivered, runs>>
        \/ /\ delivered' = [delivered EXCEPT ![j] = counted]
           /\ runs' = [runs EXCEPT ![j] = @ + 1]
    BY DEF Injected
  <2>4. counted \in [1..Never -> Nat]
    BY <1>2, <2>1, <2>2
  <2> HIDE DEF counted
  <2> QED
    BY <1>2, <2>1, <2>3, <2>4
<1>7. Accounts'
  BY <1>1, <1>2, <1>3, <1>4, <1>5 DEF IInv, Accounts, Sound, Firing, Spare, storeVars
<1> QED
  BY <1>1, <1>5, <1>6, <1>7, PassKeeps DEF IInv, TypeOK, Firing

\* The catch-up's next slot is fired on the copy of the last one.
LEMMA FinishType ==
    ASSUME IInv, pc \in Firing \cup {"saving"}, Finish
    PROVE  /\ fire' \in FireType /\ pc' \in {"injecting", "pass", "cancelling"}
           /\ pc' \in Firing =>
                /\ fire'.job = fire.job /\ fire.copy.status = "active"
                /\ fire'.copy.status = "active" /\ fire'.copy.count = fire.copy.count
<1>1. fire.job \in Jobs /\ fire.copy \in Job /\ fire.missed \in SUBSET (1..MaxTime)
  BY InFire
<1>2. CASE fire.missed # {} /\ fire.copy.status = "active"
  <2> DEFINE rest == fire.missed \ {Least(fire.missed)}
  <2>1. Launch(fire.job, fire.copy, Least(fire.missed), rest)
    BY <1>2 DEF Finish
  <2>2. Least(fire.missed) \in 1..MaxTime
    BY <1>1, <1>2, LeastMissed
  <2>3. MaxTime \in Nat /\ Never \in Nat /\ MaxTime < Never
    BY Constants
  <2>4. Least(fire.missed) \in 0..Never /\ rest \in SUBSET (1..MaxTime)
    BY <1>1, <2>2, <2>3
  <2> HIDE DEF rest
  <2>5. link[fire.job] \in {"up", "degraded", "gone"}
    BY <1>1, Rows
  <2> QED
    BY <1>1, <1>2, <2>1, <2>4, <2>5, LaunchKeeps
<1>3. CASE ~(fire.missed # {} /\ fire.copy.status = "active")
  BY <1>3, Constants DEF Finish, FireType, Firing
<1> QED
  BY <1>2, <1>3

LEMMA WriteRefusedKeeps == ASSUME IInv, WriteRefused PROVE IInv'
<1>1. pc = "writing" /\ Finish
      /\ UNCHANGED <<now, storeVars, file, link, mode, due, upto, migration, histVars>>
  BY DEF WriteRefused
<1>2. /\ fire' \in FireType /\ pc' \in {"injecting", "pass", "cancelling"}
      /\ pc' \in Firing =>
           /\ fire'.job = fire.job /\ fire.copy.status = "active"
           /\ fire'.copy.status = "active" /\ fire'.copy.count = fire.copy.count
  BY <1>1, FinishType DEF Firing
<1>3. Accounts'
  BY <1>1, <1>2 DEF IInv, Accounts, Firing, Spare, storeVars
<1> QED
  BY <1>1, <1>2, <1>3, PassKeeps DEF IInv, TypeOK, histVars, Firing

\* A write to one job's fields in memory, before the file is written.
LEMMA MemoryKeeps ==
    ASSUME IInv, NEW j \in Jobs, NEW row, Sound(j, row), Roomed(rec[j]) => Roomed(row),
           rec[j].status # "absent" => row.status # "absent",
           rec' = [rec EXCEPT ![j] = row],
           UNCHANGED <<now, listed, version, file, link, mode, due, upto, migration, histVars>>,
           pc' = "saving", fire' \in FireType, Accounts'
    PROVE  IInv'
<1>1. rec' \in [Jobs -> Job] /\ \A k \in Jobs : rec'[k] = IF k = j THEN row ELSE rec[k]
  BY Rows DEF Sound
<1>2. TypeOK'
  BY <1>1, Rows DEF IInv, TypeOK, Sound, FireType, histVars
<1>3. CountsOK'
  BY DEF IInv, CountsOK
<1>4. Migrated'
  BY <1>1, Rows DEF IInv, Migrated
<1> QED
  BY <1>2, <1>3, <1>4 DEF IInv

\* The fields a fire owns go to the stored job, which keeps its room.
LEMMA WriteFieldsKeeps == ASSUME IInv, WriteFields PROVE IInv'
<1> DEFINE j == fire.job
<1> DEFINE row == FireOwned(rec[j], fire.copy)
<1>1. pc = "writing" /\ pc' = "saving" /\ j \in listed /\ rec' = [rec EXCEPT ![j] = row]
      /\ UNCHANGED <<now, listed, version, file, link, mode, due, upto, fire,
                     migration, histVars>>
  BY DEF WriteFields, Writable
<1>2. j \in Jobs /\ j \notin due /\ fire \in FireType /\ fire.copy \in Job
      /\ Sound(j, fire.copy) /\ rec[j] \in Job
  BY <1>1, InFire DEF Firing
<1>3. rec[j].status \notin {"completed", "absent"}
  BY <1>1, Rows DEF IInv, Accounts, Firing
<1>4. row \in Job /\ row.status = fire.copy.status /\ row.count = fire.copy.count
      /\ row.room = rec[j].room
  BY <1>2 DEF FireOwned, Job
<1> HIDE DEF row
<1>5. Sound(j, row) /\ (Roomed(rec[j]) => Roomed(row))
  BY <1>2, <1>3, <1>4 DEF Sound, Spare, Roomed
<1>6. fire.copy.status # "absent"
  BY <1>1 DEF IInv, Accounts, Firing
<1>7. Accounts'
  <2>1. rec' \in [Jobs -> Job] /\ \A k \in Jobs : rec'[k] = IF k = j THEN row ELSE rec[k]
    BY <1>1, <1>4, Rows
  <2> QED
    BY <1>1, <1>2, <1>4, <1>5, <2>1 DEF IInv, TypeOK, Accounts, Sound, Spare, Firing
<1> QED
  BY <1>1, <1>2, <1>4, <1>5, <1>6, <1>7, MemoryKeeps

LEMMA CancelGoneKeeps == ASSUME IInv, CancelGone PROVE IInv'
<1> DEFINE j == fire.job
<1> DEFINE row == IF j \in listed THEN [rec[j] EXCEPT !.status = "cancelled"] ELSE rec[j]
<1>1. pc = "cancelling" /\ pc' = "saving"
      /\ fire' = [fire EXCEPT !.copy = [fire.copy EXCEPT !.status = "cancelled"]]
      /\ UNCHANGED <<now, listed, version, file, link, mode, due, upto, migration, histVars>>
  BY DEF CancelGone
<1>2. j \in Jobs /\ j \notin due /\ fire \in FireType /\ fire.copy \in Job
      /\ Sound(j, fire.copy) /\ rec[j] \in Job /\ Sound(j, rec[j])
  BY <1>1, InFire DEF Firing
<1>3. rec[j].status \notin {"completed", "absent"} /\ fire.copy.status # "completed"
  BY <1>1 DEF IInv, Accounts, Firing
<1>4. rec' = [rec EXCEPT ![j] = row]
  <2>1. rec' = IF j \in listed THEN [rec EXCEPT ![j].status = "cancelled"] ELSE rec
    BY DEF CancelGone
  <2>2. rec \in [Jobs -> Job]
    BY Rows
  <2> QED
    BY <1>2, <2>1, <2>2
<1>5. row \in Job /\ row.status \in {rec[j].status, "cancelled"} /\ row.count = rec[j].count
      /\ row.room = rec[j].room
  BY <1>2 DEF Job, Statuses
<1> HIDE DEF row
<1>6. Sound(j, row) /\ (Roomed(rec[j]) => Roomed(row)) /\ row.status # "absent"
  BY <1>2, <1>3, <1>5 DEF Sound, Spare, Roomed
<1>7. fire' \in FireType /\ fire'.job = j /\ fire'.copy.status = "cancelled"
      /\ fire'.copy.count = fire.copy.count
  <2> DEFINE copy == [fire.copy EXCEPT !.status = "cancelled"]
  <2>1. copy \in Job /\ copy.status = "cancelled" /\ copy.count = fire.copy.count
    BY <1>2 DEF Job, Statuses
  <2> HIDE DEF copy
  <2>2. fire' = [fire EXCEPT !.copy = copy]
    BY <1>1 DEF copy
  <2> QED
    BY <1>2, <2>1, <2>2 DEF FireType
<1>8. Accounts'
  <2>1. rec' \in [Jobs -> Job] /\ \A k \in Jobs : rec'[k] = IF k = j THEN row ELSE rec[k]
    BY <1>2, <1>4, <1>5, Rows
  <2> QED
    BY <1>1, <1>2, <1>3, <1>6, <1>7, <2>1
       DEF IInv, TypeOK, Accounts, Sound, Spare, Firing
<1> QED
  BY <1>1, <1>2, <1>4, <1>6, <1>7, <1>8, MemoryKeeps

LEMMA SaveFireKeeps == ASSUME IInv, SaveFire PROVE IInv'
<1>1. pc = "saving" /\ Finish /\ Save
      /\ UNCHANGED <<rec, listed, version, now, link, mode, due, upto, migration, histVars>>
  BY DEF SaveFire, storeVars
<1>2. /\ fire' \in FireType /\ pc' \in {"injecting", "pass", "cancelling"}
      /\ pc' \in Firing =>
           /\ fire'.job = fire.job /\ fire.copy.status = "active"
           /\ fire'.copy.status = "active" /\ fire'.copy.count = fire.copy.count
  BY <1>1, FinishType
<1>3. /\ file' \in [rows : [Jobs -> Job], version : {1, 2}]
      /\ \A j \in Jobs : Sound(j, file'.rows[j])
      /\ file'.version = 2 => \A j \in Jobs : Roomed(file'.rows[j])
  BY <1>1, Rows, SaveKeeps
<1>4. TypeOK'
  BY <1>1, <1>2, <1>3 DEF IInv, TypeOK, FireType, histVars
<1>5. CountsOK'
  BY <1>3 DEF CountsOK, Sound
<1>6. Accounts'
  BY <1>1, <1>2, <1>3 DEF IInv, Accounts, Sound, Spare, Firing
<1>7. Migrated'
  BY <1>1, <1>3 DEF IInv, Migrated, Roomed
<1> QED
  BY <1>4, <1>5, <1>6, <1>7 DEF IInv

-----------------------------------------------------------------------------
(* The process, and the whole.                                              *)

LEMMA ClockKeeps == ASSUME IInv, Clock PROVE IInv'
<1>1. now' \in 0..MaxTime
  <2>1. now \in 0..MaxTime /\ now < MaxTime /\ now' = now + 1 /\ MaxTime \in Nat
    BY Rows, Constants DEF Clock
  <2> QED
    BY <2>1
<1>2. UNCHANGED <<storeVars, file, link, passVars, migration, histVars>>
  BY DEF Clock
<1>3. TypeOK'
  BY <1>1, <1>2 DEF IInv, TypeOK, storeVars, passVars, histVars
<1>4. CountsOK' /\ Migrated'
  BY <1>2 DEF IInv, CountsOK, Migrated, Roomed, storeVars
<1>5. Accounts'
  BY <1>2 DEF IInv, Accounts, Spare, storeVars, passVars
<1> QED
  BY <1>3, <1>4, <1>5 DEF IInv

\* What the file says is as sound as what memory said.
LEMMA CrashKeeps == ASSUME IInv, Crash PROVE IInv'
<1>1. /\ pc' = "down" /\ mode' = "tick" /\ due' = {} /\ upto' = 0 /\ fire' = NoFire
      /\ migration' = NoMigration /\ rec' = file.rows /\ version' = file.version
      /\ listed' = {j \in Jobs : file.rows[j].status # "absent"}
      /\ UNCHANGED <<now, file, link, reloads>>
  BY DEF Crash
<1>2. crashes' \in 0..MaxCrashes
  BY TimeAssumption DEF Crash, IInv, TypeOK
<1>3. delivered' \in [Jobs -> [1..Never -> Nat]] /\ runs' \in [Jobs -> Nat]
      /\ restarted' \in [Jobs -> SUBSET {"paused", "cancelled"}]
  BY Rows, Constants DEF Crash
<1>4. file \in [rows : [Jobs -> Job], version : {1, 2}] /\ 0 \in 0..MaxTime
  BY Constants DEF IInv, TypeOK
<1>5. \A j \in Jobs : Times[j] > 0 => file.rows[j].count <= Times[j]
  BY DEF IInv, CountsOK
<1>6. TypeOK'
  BY <1>1, <1>2, <1>3, <1>4, <1>5, Constants DEF IInv, TypeOK
<1>7. CountsOK'
  BY <1>1, <1>5 DEF CountsOK
<1>8. Accounts'
  BY <1>1 DEF IInv, Accounts, Spare, Firing
<1>9. Migrated'
  BY <1>1 DEF IInv, Migrated, Roomed, NoMigration
<1> QED
  BY <1>6, <1>7, <1>8, <1>9 DEF IInv

LEMMA LoadKeeps == ASSUME IInv, Load PROVE IInv'
<1>1. pc = "down" /\ pc' = "off"
      /\ UNCHANGED <<now, storeVars, file, link, mode, due, upto, fire, migration, histVars>>
  BY DEF Load
<1>2. Accounts'
  BY <1>1 DEF IInv, Accounts, Spare, Firing, storeVars
<1> QED
  BY <1>1, <1>2, PassKeeps DEF IInv, TypeOK, histVars, FireType

LEMMA NextInv == IInv /\ [Next]_vars => IInv'
<1> SUFFICES ASSUME IInv, [Next]_vars PROVE IInv'
  OBVIOUS
<1>1. CASE Task
  BY <1>1, StartSchedulerKeeps, TickKeeps, EndPassKeeps, FireDueKeeps, CatchUpKeeps,
     InjectedKeeps, WriteFieldsKeeps, WriteRefusedKeeps, CancelGoneKeeps, SaveFireKeeps
     DEF Task
<1>2. CASE Clock \/ StopScheduler \/ Crash \/ Load
  BY <1>2, ClockKeeps, StopSchedulerKeeps, CrashKeeps, LoadKeeps
<1>3. CASE \E j \in Jobs :
              \/ \E first \in 1..MaxTime : Create(j, first)
              \/ Pause(j) \/ Resume(j) \/ Delete(j) \/ CancelRoom(j)
              \/ \E resolved \in BOOLEAN : MigrateJob(j, resolved)
  BY <1>3, CreateKeeps, PauseKeeps, ResumeKeeps, DeleteKeeps, CancelRoomKeeps,
     MigrateJobKeeps
<1>4. CASE Migrate \/ MigrateEnd
  BY <1>4, MigrateKeeps, MigrateEndKeeps
<1>5. CASE UNCHANGED vars
  <2>1. UNCHANGED <<now, rec, listed, version, file, link, pc, mode, due, upto, fire,
                    migration, crashes, reloads, delivered, runs, restarted>>
    BY <1>5 DEF vars, storeVars, passVars, histVars
  <2> QED
    BY <2>1 DEF IInv, TypeOK, CountsOK, Accounts, Migrated, Spare, Roomed
<1> QED
  BY <1>1, <1>2, <1>3, <1>4, <1>5 DEF Next

-----------------------------------------------------------------------------
(* No slot twice, and no run too many: the inductive invariant.             *)

\* A job that a fire may come to without another resume.
Goes(j) == (j \in listed /\ rec[j].status # "cancelled") \/ j \in due

\* The fire under way is job j's, at one of these places.
Fires(j, places) == pc \in places /\ fire.job = j

\* What the file has of a job once memory is saved.
Kept(j) == IF j \in listed THEN rec[j] ELSE NoRow

\* The next run comes after the last one that was tried.
Ahead(r) == r.next = 0 \/ r.next > r.anchor

\* Every slot of j that was delivered as often as may be is before, or is, s.
FullTo(j, s) == \A u \in 1..Never : delivered[j][u] > crashes => u <= s
FullBelow(j, s) == \A u \in 1..Never : delivered[j][u] > crashes => u < s

Unborn(j) ==
    rec[j].status = "absent" => runs[j] = 0 /\ \A s \in 1..Never : delivered[j][s] = 0

\* The slots that may be full are behind the job, its fire, and what is left of its
\* catch-up.
Slotted(j) == restarted[j] = {} =>
    /\ \A s \in 1..Never : delivered[j][s] <= 1 + crashes
    /\ Ahead(rec[j])
    /\ j \in due => rec[j].next \in 1..MaxTime
    /\ Goes(j) /\ ~Fires(j, {"writing"}) => FullTo(j, rec[j].anchor)
    /\ Fires(j, {"injecting", "cancelling"}) => FullBelow(j, fire.slot)
    /\ Fires(j, {"writing", "saving"}) => FullTo(j, fire.slot)
    /\ Fires(j, {"writing"}) => Ahead(fire.copy)
    /\ Fires(j, Firing \cup {"saving"}) =>
          /\ fire.slot \in 1..MaxTime /\ fire.copy.anchor = fire.slot
          /\ \A s \in fire.missed : s > fire.slot

\* The rows of the file.
Filed(j) ==
    /\ file.rows[j].status = "absent" => file.rows[j] = NoRow
    /\ restarted[j] = {} => Ahead(file.rows[j])

SlotInv == \A j \in Jobs : Unborn(j) /\ Slotted(j) /\ Filed(j)

\* A job whose runs are limited, and were not given back by a resume.
Limited(j) == Times[j] > 0 /\ "cancelled" \notin restarted[j]

\* The runs that were delivered are counted by the job, and by the file but for the run that
\* is on its way there.
Budgeted(j) == Limited(j) =>
    /\ runs[j] <= Times[j] + crashes
    /\ Goes(j) /\ ~Fires(j, {"writing"}) => runs[j] <= rec[j].count + crashes
    /\ file.rows[j].status \notin {"absent", "cancelled"} =>
          runs[j] <= file.rows[j].count + crashes + 1

\* As long as a fire is under way its copy counts them.
Carried(j) == Limited(j) /\ Fires(j, Firing \cup {"saving"}) =>
    runs[j] <= fire.copy.count + crashes

\* As long as no write fails, the file is what memory holds, but for a fire on its way there.
Mirrored(j) == Fires(j, {"saving"}) \/ file.rows[j] = Kept(j)

BudgetInv == \A j \in Jobs : Budgeted(j) /\ Carried(j) /\ Mirrored(j)
LEMMA NextSlotAfter ==
    ASSUME NEW j \in Jobs, NEW after \in 0..MaxTime
    PROVE  NextSlot(j, after) > after
<1> DEFINE S == {s \in Slots[j] : s > after} \cup {Never}
<1>1. S \subseteq Nat /\ S # {} /\ \A s \in S : s > after
  BY Constants DEF Never
<1>2. NextSlot(j, after) = Least(S)
  BY DEF NextSlot
<1> HIDE DEF S
<1> QED
  BY <1>1, <1>2, LeastOf

LEMMA MissedAfter ==
    ASSUME NEW j \in Jobs, NEW after \in 0..Never, NEW before \in 0..MaxTime,
           NEW s \in Missed(j, after, before)
    PROVE  s > after
BY DEF Missed

\* What is left of a catch-up when its first slot is taken.
LEMMA RestAfter ==
    ASSUME NEW S, S \subseteq 1..MaxTime, S # {}
    PROVE  Least(S) \in S /\ \A s \in S \ {Least(S)} : s > Least(S)
<1>1. S \subseteq Nat
  BY Constants
<1>2. Least(S) \in S /\ \A s \in S : Least(S) <= s
  BY <1>1, LeastOf
<1> DEFINE l == Least(S)
<1>3. l \in Nat /\ \A s \in S : s \in Nat /\ l <= s
  BY <1>1, <1>2
<1> HIDE DEF l
<1>4. \A s \in S \ {l} : s > l
  BY <1>3
<1> QED
  BY <1>2, <1>4 DEF l

\* The numbers of a job.
LEMMA Numbers ==
    ASSUME IInv, NEW j \in Jobs
    PROVE  /\ crashes \in Nat /\ runs[j] \in Nat /\ Times[j] \in Nat /\ MaxTime \in Nat
           /\ \A s \in 1..Never : delivered[j][s] \in Nat
           /\ rec[j] \in Job /\ file.rows[j] \in Job
           /\ \A r \in Job : r.next \in Nat /\ r.anchor \in Nat /\ r.count \in Nat
           /\ restarted[j] \subseteq {"paused", "cancelled"}
<1>1. \A r \in Job : r.next \in Nat /\ r.anchor \in Nat /\ r.count \in Nat
  BY Constants DEF Job
<1>2. crashes \in Nat
  BY TimeAssumption DEF IInv, TypeOK
<1> QED
  BY <1>1, <1>2, Rows, Constants DEF IInv, TypeOK

SlotJob(j) == Unborn(j) /\ Slotted(j) /\ Filed(j)

\* A write of the file writes the rows of memory.
LEMMA SaveRows ==
    ASSUME Save, NEW j \in Jobs
    PROVE  file' = file \/ file'.rows[j] = IF j \in listed' THEN rec'[j] ELSE NoRow
BY DEF Save

LEMMA FiledKeeps ==
    ASSUME IInv', NEW j \in Jobs, Filed(j), Save \/ UNCHANGED file,
           restarted'[j] = {} => restarted[j] = {} /\ Ahead(rec'[j])
    PROVE  Filed(j)'
<1>1. CASE UNCHANGED file
  BY <1>1 DEF Filed
<1>2. CASE file'.rows[j] = IF j \in listed' THEN rec'[j] ELSE NoRow
  <2>1. j \in listed' => rec'[j].status # "absent"
    BY DEF IInv, Migrated
  <2>2. Ahead(NoRow)
    BY DEF Ahead, NoRow
  <2> QED
    BY <1>2, <2>1, <2>2 DEF Filed, Ahead
<1> QED
  BY <1>1, <1>2, SaveRows

\* A step leaves the schedule, the count and the history of a job alone, and does not bring
\* it back.
Same(j) ==
    /\ rec'[j].next = rec[j].next /\ rec'[j].anchor = rec[j].anchor
    /\ rec'[j].count = rec[j].count
    /\ rec'[j].status = "absent" <=> rec[j].status = "absent"
    /\ j \in listed' => j \in listed
    /\ j \in listed' /\ rec'[j].status # "cancelled" => rec[j].status # "cancelled"
    /\ delivered'[j] = delivered[j] /\ runs'[j] = runs[j] /\ restarted'[j] = restarted[j]

LEMMA SameSlots ==
    ASSUME IInv', NEW j \in Jobs, SlotJob(j), Same(j), UNCHANGED <<passVars, crashes>>,
           Save \/ UNCHANGED file
    PROVE  SlotJob(j)'
<1>1. Unborn(j)'
  BY DEF SlotJob, Unborn, Same
<1>2. Slotted(j)'
  <2>1. Goes(j)' => Goes(j)
    BY DEF Goes, Same, passVars
  <2>2. \A s : (FullTo(j, s)' <=> FullTo(j, s)) /\ (FullBelow(j, s)' <=> FullBelow(j, s))
    BY DEF FullTo, FullBelow, Same
  <2>3. UNCHANGED <<pc, fire, due, crashes>>
    BY DEF passVars
  <2> QED
    BY <2>1, <2>2, <2>3 DEF SlotJob, Slotted, Same, Fires, Ahead, FullTo, FullBelow
<1>3. Filed(j)'
  BY <1>2, FiledKeeps DEF SlotJob, Slotted, Same
<1> QED
  BY <1>1, <1>2, <1>3 DEF SlotJob

\* The commands that leave every job's schedule alone.
LEMMA CommandsAreSame ==
    ASSUME IInv,
           \/ \E k \in Jobs : \/ Pause(k) \/ Delete(k) \/ CancelRoom(k)
                              \/ \E resolved \in BOOLEAN : MigrateJob(k, resolved)
           \/ Migrate \/ MigrateEnd
    PROVE  /\ \A j \in Jobs : Same(j)
           /\ UNCHANGED <<passVars, crashes>> /\ (Save \/ UNCHANGED file)
<1>1. /\ UNCHANGED <<passVars, crashes, delivered, runs, restarted>>
      /\ Save \/ UNCHANGED file
  BY DEF Pause, Delete, CancelRoom, MigrateJob, Migrate, MigrateEnd, histVars, storeVars
<1>2. ASSUME NEW k \in Jobs, Pause(k) \/ CancelRoom(k), NEW j \in Jobs
      PROVE  Same(j)
  <2>1. rec[k] \in Job /\ rec \in [Jobs -> Job] /\ rec[k].status \in {"active", "paused"}
        /\ listed' = listed
    BY <1>2, Rows DEF Pause, CancelRoom
  <2>2. PICK s \in {"paused", "cancelled"} : rec' = [rec EXCEPT ![k].status = s]
    BY <1>2 DEF Pause, CancelRoom
  <2>3. rec'[j] = IF j = k THEN [rec[k] EXCEPT !.status = s] ELSE rec[j]
    BY <2>1, <2>2
  <2>4. /\ rec'[j].next = rec[j].next /\ rec'[j].anchor = rec[j].anchor
        /\ rec'[j].count = rec[j].count
        /\ rec'[j].status = IF j = k THEN s ELSE rec[j].status
    BY <2>1, <2>3 DEF Job
  <2> QED
    BY <1>1, <2>1, <2>4 DEF Same
<1>3. ASSUME NEW k \in Jobs, Delete(k), NEW j \in Jobs
      PROVE  Same(j)
  BY <1>1, <1>3 DEF Delete, Same
<1>4. ASSUME NEW k \in Jobs, NEW resolved \in BOOLEAN, MigrateJob(k, resolved), NEW j \in Jobs
      PROVE  Same(j)
  <2>1. rec[k] \in Job /\ rec \in [Jobs -> Job]
    BY Rows
  <2>2. listed' = listed /\ (rec' = rec \/ rec' = [rec EXCEPT ![k].room = TRUE])
    BY <1>4 DEF MigrateJob, storeVars
  <2>3. rec'[j] = rec[j] \/ (j = k /\ rec'[j] = [rec[k] EXCEPT !.room = TRUE])
    BY <2>1, <2>2
  <2>4. /\ rec'[j].next = rec[j].next /\ rec'[j].anchor = rec[j].anchor
        /\ rec'[j].count = rec[j].count /\ rec'[j].status = rec[j].status
    BY <2>1, <2>3 DEF Job
  <2> QED
    BY <1>1, <2>2, <2>4 DEF Same
<1>5. ASSUME Migrate \/ MigrateEnd, NEW j \in Jobs
      PROVE  Same(j)
  <2>1. UNCHANGED <<rec, listed>>
    BY <1>5 DEF Migrate, MigrateEnd, storeVars
  <2> QED
    BY <1>1, <2>1 DEF Same
<1> QED
  BY <1>1, <1>2, <1>3, <1>4, <1>5

LEMMA CreateSlots ==
    ASSUME IInv, IInv', SlotInv, NEW k \in Jobs, NEW first \in 1..MaxTime, Create(k, first),
           NEW j \in Jobs
    PROVE  SlotJob(j)'
<1>1. /\ rec \in [Jobs -> Job] /\ listed' = listed \cup {k} /\ now \in 0..MaxTime
      /\ rec' = [rec EXCEPT ![k] = [status |-> "active", next |-> first, anchor |-> now,
                                    count |-> 0, room |-> TRUE]]
      /\ rec[k].status = "absent" /\ first > now /\ Save
      /\ UNCHANGED <<passVars, crashes, delivered, runs, restarted>>
  BY Rows DEF Create, histVars
<1>2. CASE j # k
  <2>1. Same(j)
    BY <1>1, <1>2 DEF Same
  <2> QED
    BY <1>1, <2>1, SameSlots DEF SlotInv, SlotJob
<1>3. CASE j = k
  <2>1. /\ rec'[j].status = "active" /\ rec'[j].next = first /\ rec'[j].anchor = now
        /\ first > 0
    BY <1>1, <1>3, Constants
  <2>2. Unborn(j)' /\ Ahead(rec'[j])
    BY <1>1, <2>1 DEF Unborn, Ahead
  <2>3. runs[j] = 0 /\ \A s \in 1..Never : delivered[j][s] = 0 /\ crashes \in Nat
    BY <1>1, <1>3, Numbers DEF SlotInv, Unborn
  <2>4. \A s : FullTo(j, s)' /\ FullBelow(j, s)'
    BY <1>1, <2>3 DEF FullTo, FullBelow
  <2>5. j \notin due
    BY <1>1, <1>3 DEF IInv, Accounts
  <2>6. Fires(j, Firing \cup {"saving"})' <=> Fires(j, Firing \cup {"saving"})
    BY <1>1 DEF Fires, passVars
  <2>7. ~Fires(j, {"writing"})'
    BY <1>1, <1>3 DEF Fires, passVars, IInv, Accounts, Firing
  <2>8. Slotted(j)'
    BY <1>1, <1>3, <2>2, <2>3, <2>4, <2>5, <2>6, <2>7 DEF SlotInv, Slotted, passVars
  <2>9. Filed(j)'
    BY <1>1, <1>3, <2>2, FiledKeeps DEF SlotInv
  <2> QED
    BY <2>2, <2>8, <2>9 DEF SlotJob
<1> QED
  BY <1>2, <1>3

LEMMA ResumeSlots ==
    ASSUME IInv, IInv', SlotInv, NEW k \in Jobs, Resume(k), NEW j \in Jobs
    PROVE  SlotJob(j)'
<1>1. /\ rec \in [Jobs -> Job] /\ restarted \in [Jobs -> SUBSET {"paused", "cancelled"}]
      /\ delivered \in [Jobs -> [1..Never -> Nat]] /\ runs \in [Jobs -> Nat]
      /\ rec' = [rec EXCEPT ![k] = [@ EXCEPT !.status = "active", !.next = NextSlot(k, now)]]
      /\ restarted' = [restarted EXCEPT ![k] = @ \cup {rec[k].status}]
      /\ delivered' = delivered \/ delivered' = [delivered EXCEPT ![k] = NoDelivery[k]]
      /\ runs' = runs \/ runs' = [runs EXCEPT ![k] = 0]
      /\ listed' = listed /\ Save
      /\ UNCHANGED <<passVars, crashes>>
  BY Rows DEF Resume
<1>2. CASE j # k
  <2>1. Same(j)
    BY <1>1, <1>2 DEF Same
  <2> QED
    BY <1>1, <2>1, SameSlots DEF SlotInv, SlotJob
<1>3. CASE j = k
  <2>1. restarted'[j] # {} /\ rec'[j].status = "active"
    BY <1>1, <1>3 DEF Job
  <2>2. Unborn(j)' /\ Slotted(j)'
    BY <2>1 DEF Unborn, Slotted
  <2>3. Filed(j)'
    BY <1>1, <2>1, FiledKeeps DEF SlotInv
  <2> QED
    BY <2>2, <2>3 DEF SlotJob
<1> QED
  BY <1>2, <1>3

\* A step of the task between two fires: it may list what is due, or come to nothing.
LEMMA RestSlots ==
    ASSUME IInv, IInv', NEW j \in Jobs, SlotJob(j),
           UNCHANGED <<rec, delivered, runs, restarted, crashes>>,
           Save \/ UNCHANGED file, listed' \subseteq listed,
           \A k \in due' : k \in due \/ (k \in listed' /\ IsDue(rec[k])),
           pc # "writing" \/ ~Goes(j), pc' \notin Firing \cup {"saving"}
    PROVE  SlotJob(j)'
<1>1. Unborn(j)'
  BY DEF SlotJob, Unborn
<1>2. rec[j] \in Job /\ now \in 0..MaxTime
  BY Rows
<1>3. \A s : FullTo(j, s)' <=> FullTo(j, s)
  BY DEF FullTo
<1>4. \A places \in SUBSET (Firing \cup {"saving"}) : ~Fires(j, places)'
  BY DEF Fires
<1>5. IsDue(rec[j]) => rec[j].next \in 1..MaxTime /\ rec[j].status = "active"
  BY <1>2, Constants, Numbers DEF IsDue
<1>6. Goes(j)' => Goes(j)
  BY <1>5, Rows DEF Goes
<1>7. j \in due' => j \in due \/ rec[j].next \in 1..MaxTime
  BY <1>5
<1>8. Slotted(j)'
  <2>1. ~Fires(j, {"injecting", "cancelling"})' /\ ~Fires(j, {"writing", "saving"})'
        /\ ~Fires(j, {"writing"})' /\ ~Fires(j, Firing \cup {"saving"})'
    BY <1>4 DEF Firing
  <2>2. Goes(j) => ~Fires(j, {"writing"})
    BY DEF Fires
  <2> QED
    BY <1>3, <1>6, <1>7, <2>1, <2>2 DEF SlotJob, Slotted
<1>9. Filed(j)'
  BY <1>8, FiledKeeps DEF SlotJob, Slotted
<1> QED
  BY <1>1, <1>8, <1>9 DEF SlotJob

LEMMA BetweenFiresSlots ==
    ASSUME IInv, IInv', SlotInv, NEW j \in Jobs,
           StartScheduler \/ Tick \/ EndPass \/ StopScheduler \/ Load
    PROVE  SlotJob(j)'
<1>1. CASE StartScheduler
  <2>1. pc = "off" /\ pc' = "pass" /\ due' = {k \in listed : IsDue(rec[k])}
        /\ UNCHANGED <<rec, delivered, runs, restarted, crashes, listed, file>>
    BY <1>1 DEF StartScheduler, storeVars, histVars
  <2> QED
    BY <2>1, RestSlots DEF SlotInv, SlotJob, Firing
<1>2. CASE Tick
  <2>1. pc = "idle" /\ pc' = "pass" /\ due' = {k \in listed' : IsDue(rec[k])}
        /\ listed' \subseteq listed /\ (Save \/ UNCHANGED file)
        /\ UNCHANGED <<rec, delivered, runs, restarted, crashes>>
    BY <1>2 DEF Tick, histVars
  <2> QED
    BY <2>1, RestSlots DEF SlotInv, SlotJob, Firing
<1>3. CASE EndPass \/ StopScheduler \/ Load
  <2>1. pc # "writing" /\ pc' \in {"idle", "off"} /\ due' \subseteq due
        /\ UNCHANGED <<rec, delivered, runs, restarted, crashes, listed, file>>
    BY <1>3 DEF EndPass, StopScheduler, BetweenFires, Load, storeVars, histVars
  <2> QED
    BY <2>1, RestSlots DEF SlotInv, SlotJob, Firing
<1> QED
  BY <1>1, <1>2, <1>3

\* A fire under way whose slot is ahead of every full one, and of which more may follow.
Launched(j) ==
    /\ FullBelow(j, fire.slot) /\ fire.slot \in 1..MaxTime
    /\ fire.copy.anchor = fire.slot /\ \A s \in fire.missed : s > fire.slot

LEMMA LaunchIsAhead ==
    ASSUME NEW j \in Jobs, NEW job \in Job, NEW slot \in 1..MaxTime, NEW rest,
           Launch(j, job, slot, rest), FullBelow(j, slot), \A s \in rest : s > slot,
           link[j] \in {"up", "degraded", "gone"}, UNCHANGED <<delivered, crashes>>
    PROVE  Launched(j)' /\ fire'.job = j /\ pc' # "writing" /\ pc' # "saving"
<1>1. fire' = [job |-> j, slot |-> slot, copy |-> [job EXCEPT !.anchor = slot],
               missed |-> rest]
  BY DEF Launch
<1>2. [job EXCEPT !.anchor = slot].anchor = slot
  BY DEF Job
<1>3. FullBelow(j, slot)' /\ fire'.slot = slot
  BY <1>1 DEF FullBelow
<1>4. pc' # "writing" /\ pc' # "saving"
  BY DEF Launch
<1> QED
  BY <1>1, <1>2, <1>3, <1>4 DEF Launched, FullBelow

LEMMA BelowNext ==
    ASSUME IInv, NEW j \in Jobs, NEW a \in 0..Never, NEW s \in 1..MaxTime, FullTo(j, a), s > a
    PROVE  FullBelow(j, s)
BY Constants DEF FullTo, FullBelow

\* The pass comes to a job: to its next run, or to what it missed.
LEMMA FireSlots ==
    ASSUME IInv, IInv', SlotInv, NEW k \in Jobs, FireDue(k) \/ CatchUp(k), NEW j \in Jobs
    PROVE  SlotJob(j)'
<1>1. /\ pc = "pass" /\ k \in due /\ due' = due \ {k}
      /\ UNCHANGED <<rec, listed, file, delivered, runs, restarted, crashes>>
  BY DEF FireDue, CatchUp, storeVars, histVars
<1>2. CASE pc' \notin Firing \cup {"saving"}
  BY <1>1, <1>2, RestSlots DEF SlotInv, SlotJob
<1>3. CASE pc' \in Firing \cup {"saving"}
  <2> DEFINE slot == IF rec[k].next = 0 THEN now ELSE rec[k].next
             missed == Missed(k, rec[k].anchor, upto)
  <2>1. \/ Launch(k, rec[k], slot, {})
        \/ missed # {} /\ Launch(k, rec[k], Least(missed), missed \ {Least(missed)})
    BY <1>1, <1>3 DEF FireDue, CatchUp, Firing
  <2>2. /\ rec[k] \in Job /\ upto \in 0..MaxTime /\ rec[k].anchor \in 0..Never
        /\ rec[k].anchor \in Nat /\ link[k] \in {"up", "degraded", "gone"}
    BY Rows, Numbers DEF Job
  <2>3. ASSUME restarted[k] = {} PROVE Launched(k)' /\ fire'.job = k
    <3>1. /\ rec[k].next \in 1..MaxTime /\ Ahead(rec[k]) /\ FullTo(k, rec[k].anchor)
      BY <1>1, <2>3 DEF SlotInv, Slotted, Goes, Fires
    <3>2. CASE Launch(k, rec[k], slot, {})
      <4>1. slot \in 1..MaxTime /\ slot > rec[k].anchor
        BY <3>1, Constants DEF Ahead
      <4>2. FullBelow(k, slot)
        BY <2>2, <3>1, <4>1, BelowNext
      <4> HIDE DEF slot
      <4> QED
        BY <1>1, <2>2, <3>2, <4>1, <4>2, LaunchIsAhead
    <3>3. CASE missed # {} /\ Launch(k, rec[k], Least(missed), missed \ {Least(missed)})
      <4>1. missed \subseteq 1..MaxTime /\ \A s \in missed : s > rec[k].anchor
        BY <2>2, MissedType, MissedAfter
      <4> HIDE DEF missed
      <4>2. Least(missed) \in missed /\ \A s \in missed \ {Least(missed)} : s > Least(missed)
        BY <3>3, <4>1, RestAfter
      <4>3. FullBelow(k, Least(missed))
        BY <2>2, <3>1, <4>1, <4>2, BelowNext
      <4> QED
        BY <1>1, <2>2, <3>3, <4>1, <4>2, <4>3, LaunchIsAhead
    <3> QED
      BY <2>1, <3>2, <3>3
  <2> HIDE DEF slot, missed
  <2>4. fire'.job = k /\ pc' # "writing" /\ pc' # "saving"
    BY <2>1, <2>2 DEF Launch
  <2>5. Unborn(j)' /\ Filed(j)'
    BY <1>1 DEF SlotInv, Unborn, Filed
  <2>6. /\ (Goes(j)' => Goes(j)) /\ (FullTo(j, rec[j].anchor)' <=> FullTo(j, rec[j].anchor))
        /\ ~Fires(j, {"writing"}) /\ ~Fires(j, {"writing", "saving"})'
        /\ ~Fires(j, {"writing"})'
    BY <1>1, <2>4 DEF Goes, FullTo, Fires
  <2>7. Slotted(j)'
    <3>1. CASE j = k
      BY <1>1, <2>3, <2>6, <3>1 DEF SlotInv, Slotted, Launched
    <3>2. CASE j # k
      <4>1. ~Fires(j, {"injecting", "cancelling"})' /\ ~Fires(j, Firing \cup {"saving"})'
        BY <2>4, <3>2 DEF Fires
      <4> QED
        BY <1>1, <2>6, <4>1 DEF SlotInv, Slotted
    <3> QED
      BY <3>1, <3>2
  <2> QED
    BY <2>5, <2>7 DEF SlotJob
<1> QED
  BY <1>2, <1>3

\* What an injection leaves of the copy: the next run is after the slot.
LEMMA CopyAhead ==
    ASSUME NEW j \in Jobs, NEW r \in Job, NEW slot \in 1..MaxTime, r.anchor = slot
    PROVE  /\ AfterRun(r, j, slot).anchor = slot /\ Ahead(AfterRun(r, j, slot))
           /\ AfterFailure(r, j, slot).anchor = slot /\ Ahead(AfterFailure(r, j, slot))
<1>1. NextSlot(j, slot) > slot
  BY NextSlotAfter, Constants
<1> DEFINE n == NextSlot(j, slot)
           last(c) == [r EXCEPT !.count = c, !.status = "completed", !.next = 0]
           next(c) == [r EXCEPT !.count = c, !.next = n]
           again == [r EXCEPT !.next = n]
<1>2. \A c : last(c).anchor = slot /\ last(c).next = 0
  BY DEF Job
<1>3. \A c : next(c).anchor = slot /\ next(c).next = n
  BY DEF Job
<1>4. again.anchor = slot /\ again.next = n
  BY DEF Job
<1>5. \E c : AfterRun(r, j, slot) = last(c) \/ AfterRun(r, j, slot) = next(c)
  BY DEF AfterRun
<1>6. AfterFailure(r, j, slot) = again
  BY DEF AfterFailure
<1> HIDE DEF n, last, next, again
<1>7. n > slot
  BY <1>1 DEF n
<1> QED
  BY <1>2, <1>3, <1>4, <1>5, <1>6, <1>7 DEF Ahead

LEMMA InjectedSlots ==
    ASSUME IInv, IInv', SlotInv, NEW accepted \in BOOLEAN, Injected(accepted), NEW j \in Jobs
    PROVE  SlotJob(j)'
<1> DEFINE f == fire.job
           copy == IF accepted \/ Times[f] = 0 THEN AfterRun(fire.copy, f, fire.slot)
                   ELSE AfterFailure(fire.copy, f, fire.slot)
           counted == [delivered[f] EXCEPT ![fire.slot] = @ + 1]
<1>1. /\ pc = "injecting" /\ pc' = "writing" /\ fire' = [fire EXCEPT !.copy = copy]
      /\ UNCHANGED <<rec, listed, file, due, restarted, crashes>>
      /\ \/ UNCHANGED <<delivered, runs>>
         \/ /\ delivered' = [delivered EXCEPT ![f] = counted]
            /\ runs' = [runs EXCEPT ![f] = @ + 1]
  BY DEF Injected, storeVars
<1>2. /\ f \in Jobs /\ f \notin due /\ fire \in FireType /\ fire.copy \in Job
      /\ rec[f].status # "absent"
      /\ delivered \in [Jobs -> [1..Never -> Nat]] /\ runs \in [Jobs -> Nat]
  BY <1>1, InFire, Rows DEF IInv, Accounts, Firing
<1>3. fire'.job = f /\ fire'.slot = fire.slot /\ fire'.copy = copy /\ fire'.missed = fire.missed
  BY <1>1, <1>2 DEF FireType
<1> HIDE DEF copy, counted
<1>4. Filed(j)'
  BY <1>1 DEF SlotInv, Filed
<1>5. CASE j # f
  <2>1. delivered'[j] = delivered[j] /\ runs'[j] = runs[j]
    BY <1>1, <1>2, <1>5
  <2>2. /\ ~Fires(j, {"injecting", "cancelling"})' /\ ~Fires(j, Firing \cup {"saving"})'
        /\ ~Fires(j, {"writing", "saving"})' /\ ~Fires(j, {"writing"})' /\ ~Fires(j, {"writing"})
    BY <1>1, <1>3, <1>5 DEF Fires
  <2>3. FullTo(j, rec[j].anchor)' <=> FullTo(j, rec[j].anchor)
    BY <1>1, <2>1 DEF FullTo
  <2>4. Goes(j)' <=> Goes(j)
    BY <1>1 DEF Goes
  <2>5. Unborn(j)' /\ Slotted(j)'
    BY <1>1, <2>1, <2>2, <2>3, <2>4 DEF SlotInv, Unborn, Slotted
  <2> QED
    BY <1>4, <2>5 DEF SlotJob
<1>6. CASE j = f
  <2>1. Unborn(j)'
    BY <1>1, <1>2, <1>6 DEF Unborn
  <2>2. ASSUME restarted[j] = {} PROVE Slotted(j)'
    <3>1. /\ FullBelow(j, fire.slot) /\ fire.slot \in 1..MaxTime
          /\ fire.copy.anchor = fire.slot /\ \A s \in fire.missed : s > fire.slot
          /\ \A s \in 1..Never : delivered[j][s] <= 1 + crashes
          /\ Ahead(rec[j])
      BY <1>1, <1>6, <2>2 DEF SlotInv, Slotted, Fires, Firing
    <3>2. copy.anchor = fire.slot /\ Ahead(copy)
      BY <1>2, <1>6, <3>1, CopyAhead DEF copy
    <3>3. \A s \in 1..Never : delivered'[j][s] \in {delivered[j][s], delivered[j][s] + 1}
                              /\ (s # fire.slot => delivered'[j][s] = delivered[j][s])
      <4>1. delivered'[j] = delivered[j] \/ delivered'[j] = counted
        BY <1>1, <1>2, <1>6
      <4>2. delivered[j] \in [1..Never -> Nat]
        BY <1>2, <1>6
      <4> QED
        BY <1>6, <4>1, <4>2 DEF counted
    <3>4. crashes \in Nat /\ (\A s \in 1..Never : delivered[j][s] \in Nat)
          /\ fire.slot \in 1..Never
      BY <3>1, Numbers, Constants
    <3>5. FullTo(j, fire.slot)' /\ \A s \in 1..Never : delivered'[j][s] <= 1 + crashes
      BY <1>1, <1>3, <3>1, <3>3, <3>4 DEF FullTo, FullBelow
    <3>6. ~Fires(j, {"injecting", "cancelling"})' /\ Fires(j, {"writing"})' /\ j \notin due'
      BY <1>1, <1>2, <1>3, <1>6 DEF Fires
    <3> QED
      BY <1>1, <1>3, <3>1, <3>2, <3>5, <3>6 DEF Slotted
  <2>3. restarted[j] # {} => Slotted(j)'
    BY <1>1 DEF Slotted
  <2> QED
    BY <1>4, <2>1, <2>2, <2>3 DEF SlotJob
<1> QED
  BY <1>5, <1>6

\* A fire is over: the catch-up goes on with a later slot, or the pass with another job.
LEMMA FinishSlots ==
    ASSUME IInv, IInv', NEW j \in Jobs, SlotJob(j), Finish, pc \in {"writing", "saving"},
           UNCHANGED <<rec, listed, due, delivered, runs, restarted, crashes>>, Filed(j)',
           pc = "saving" \/ ~Goes(fire.job)
    PROVE  SlotJob(j)'
<1>1. /\ fire \in FireType /\ fire.job \in Jobs /\ fire.job \notin due /\ fire.copy \in Job
      /\ fire.missed \in SUBSET (1..MaxTime) /\ link[fire.job] \in {"up", "degraded", "gone"}
  BY InFire, Rows DEF Firing
<1> DEFINE least == Least(fire.missed)
<1>2. \/ /\ fire.missed # {}
         /\ Launch(fire.job, fire.copy, least, fire.missed \ {least})
      \/ pc' = "pass" /\ fire' = NoFire
  BY DEF Finish
<1>3. pc' # "writing" /\ pc' # "saving"
  BY <1>1, <1>2 DEF Launch
<1>4. ASSUME restarted[j] = {}, j = fire.job, pc' \in Firing
      PROVE  Launched(j)'
  <2>1. FullTo(j, fire.slot) /\ fire.slot \in 1..MaxTime /\ \A s \in fire.missed : s > fire.slot
    <3>1. Fires(j, {"writing", "saving"}) /\ Fires(j, Firing \cup {"saving"})
      BY <1>4 DEF Fires, Firing
    <3> QED
      BY <1>4, <3>1 DEF SlotJob, Slotted
  <2>2. fire.missed # {} /\ Launch(j, fire.copy, least, fire.missed \ {least})
    BY <1>2, <1>4 DEF Firing
  <2>3. least \in fire.missed /\ \A s \in fire.missed \ {least} : s > least
    BY <1>1, <2>2, RestAfter
  <2> HIDE DEF least
  <2>4. FullBelow(j, least) /\ least \in 1..MaxTime
    <3>1. least \in 1..MaxTime /\ least > fire.slot
      BY <1>1, <2>1, <2>3
    <3>2. MaxTime \in Nat /\ Never \in Nat /\ MaxTime < Never
      BY Constants
    <3>3. fire.slot \in 0..Never
      BY <2>1, <3>2
    <3> QED
      BY <2>1, <3>1, <3>3, BelowNext
  <2> QED
    BY <1>1, <1>4, <2>2, <2>3, <2>4, LaunchIsAhead
<1>5. j # fire.job => ~Fires(j, Firing \cup {"saving"})'
  BY <1>1, <1>2, <1>3 DEF Fires, Launch, Firing
<1>6. Unborn(j)'
  BY DEF SlotJob, Unborn
<1>7. Slotted(j)'
  <2>1. FullTo(j, rec[j].anchor)' <=> FullTo(j, rec[j].anchor)
    BY DEF FullTo
  <2>2. (Goes(j)' <=> Goes(j)) /\ (Goes(j) => ~Fires(j, {"writing"}))
    BY DEF Goes, Fires
  <2>3. ~Fires(j, {"writing", "saving"})' /\ ~Fires(j, {"writing"})'
    BY <1>3 DEF Fires
  <2>4. /\ Fires(j, {"injecting", "cancelling"})' => Fires(j, Firing \cup {"saving"})'
        /\ Fires(j, Firing \cup {"saving"})' => pc' \in Firing
    BY <1>3 DEF Fires, Firing
  <2> QED
    BY <1>4, <1>5, <2>1, <2>2, <2>3, <2>4 DEF SlotJob, Slotted, Launched
<1> QED
  BY <1>6, <1>7 DEF SlotJob

LEMMA WriteRefusedSlots ==
    ASSUME IInv, IInv', SlotInv, WriteRefused, NEW j \in Jobs
    PROVE  SlotJob(j)'
<1>1. /\ pc = "writing" /\ Finish /\ ~Writable(fire.job)
      /\ UNCHANGED <<rec, listed, file, due, delivered, runs, restarted, crashes>>
  BY DEF WriteRefused, storeVars, histVars
<1>2. ~Goes(fire.job)
  BY <1>1, InFire DEF Goes, Writable, Firing
<1>3. Filed(j)'
  BY <1>1 DEF SlotInv, Filed
<1> QED
  BY <1>1, <1>2, <1>3, FinishSlots DEF SlotInv, SlotJob

LEMMA SaveFireSlots ==
    ASSUME IInv, IInv', SlotInv, SaveFire, NEW j \in Jobs
    PROVE  SlotJob(j)'
<1>1. /\ pc = "saving" /\ Finish /\ Save
      /\ UNCHANGED <<rec, listed, due, delivered, runs, restarted, crashes>>
  BY DEF SaveFire, storeVars, histVars
<1>2. Filed(j)'
  BY <1>1, FiledKeeps DEF SlotInv, Slotted
<1> QED
  BY <1>1, <1>2, FinishSlots DEF SlotInv, SlotJob

\* What the fire owns is written: the job has come to the slot that was delivered.
LEMMA WriteFieldsSlots ==
    ASSUME IInv, IInv', SlotInv, WriteFields, NEW j \in Jobs
    PROVE  SlotJob(j)'
<1> DEFINE f == fire.job
<1>1. /\ pc = "writing" /\ pc' = "saving"
      /\ rec' = [rec EXCEPT ![f] = FireOwned(@, fire.copy)]
      /\ UNCHANGED <<listed, file, due, fire, delivered, runs, restarted, crashes>>
  BY DEF WriteFields, histVars
<1>2. /\ f \in Jobs /\ f \notin due /\ fire.copy \in Job /\ rec \in [Jobs -> Job]
      /\ rec[f].status # "absent" /\ fire.copy.status # "absent"
  BY <1>1, InFire, Rows DEF IInv, Accounts, Firing
<1>3. Filed(j)'
  BY <1>1 DEF SlotInv, Filed
<1>4. CASE j # f
  <2>1. rec'[j] = rec[j]
    BY <1>1, <1>2, <1>4
  <2>2. \A places : ~Fires(j, places)' /\ ~Fires(j, places)
    BY <1>1, <1>4 DEF Fires
  <2>3. FullTo(j, rec[j].anchor)' <=> FullTo(j, rec[j].anchor)
    BY <1>1, <2>1 DEF FullTo
  <2>4. Goes(j)' <=> Goes(j)
    BY <1>1, <2>1 DEF Goes
  <2>5. Unborn(j)' /\ Slotted(j)'
    BY <1>1, <2>1, <2>2, <2>3, <2>4 DEF SlotInv, Unborn, Slotted
  <2> QED
    BY <1>3, <2>5 DEF SlotJob
<1>5. CASE j = f
  <2>1. /\ rec'[j].next = fire.copy.next /\ rec'[j].anchor = fire.copy.anchor
        /\ rec'[j].status = fire.copy.status
    BY <1>1, <1>2, <1>5 DEF FireOwned, Job
  <2>2. Unborn(j)'
    BY <1>2, <1>5, <2>1 DEF Unborn
  <2>3. ASSUME restarted[j] = {} PROVE Slotted(j)'
    <3>1. /\ Ahead(fire.copy) /\ FullTo(j, fire.slot) /\ fire.copy.anchor = fire.slot
          /\ fire.slot \in 1..MaxTime /\ \A s \in fire.missed : s > fire.slot
          /\ \A s \in 1..Never : delivered[j][s] <= 1 + crashes
      BY <1>1, <1>5, <2>3 DEF SlotInv, Slotted, Fires, Firing
    <3>2. Ahead(rec'[j])
      BY <2>1, <3>1 DEF Ahead
    <3>3. FullTo(j, fire.slot)' /\ FullTo(j, rec[j].anchor)'
      BY <1>1, <2>1, <3>1 DEF FullTo
    <3>4. ~Fires(j, {"injecting", "cancelling"})' /\ ~Fires(j, {"writing"})' /\ j \notin due'
      BY <1>1, <1>2, <1>5 DEF Fires
    <3> QED
      BY <1>1, <3>1, <3>2, <3>3, <3>4 DEF Slotted, Ahead
  <2>4. restarted[j] # {} => Slotted(j)'
    BY <1>1 DEF Slotted
  <2> QED
    BY <1>3, <2>2, <2>3, <2>4 DEF SlotJob
<1> QED
  BY <1>4, <1>5

LEMMA CancelGoneSlots ==
    ASSUME IInv, IInv', SlotInv, CancelGone, NEW j \in Jobs
    PROVE  SlotJob(j)'
<1> DEFINE f == fire.job
<1>1. /\ pc = "cancelling" /\ pc' = "saving"
      /\ rec' = IF f \in listed THEN [rec EXCEPT ![f] = [@ EXCEPT !.status = "cancelled"]]
                ELSE rec
      /\ fire' = [fire EXCEPT !.copy = [@ EXCEPT !.status = "cancelled"]]
      /\ UNCHANGED <<listed, file, due, delivered, runs, restarted, crashes>>
  BY DEF CancelGone, histVars
<1>2. /\ f \in Jobs /\ f \notin due /\ fire \in FireType /\ fire.copy \in Job
      /\ rec \in [Jobs -> Job] /\ rec[f].status # "absent"
  BY <1>1, InFire, Rows DEF IInv, Accounts, Firing
<1>3. /\ rec'[j].next = rec[j].next /\ rec'[j].anchor = rec[j].anchor
      /\ rec'[j].status \in {rec[j].status, "cancelled"}
      /\ rec'[j].status = "absent" <=> rec[j].status = "absent"
  <2>1. rec[j] \in Job /\ rec'[j] \in {rec[j], [rec[j] EXCEPT !.status = "cancelled"]}
        /\ (rec[j].status = "absent" => rec'[j] = rec[j])
    BY <1>1, <1>2
  <2> QED
    BY <2>1 DEF Job
<1>4. /\ fire'.job = f /\ fire'.slot = fire.slot /\ fire'.missed = fire.missed
      /\ fire'.copy.anchor = fire.copy.anchor
  BY <1>1, <1>2 DEF FireType, Job
<1>5. Filed(j)' /\ Unborn(j)'
  BY <1>1, <1>3 DEF SlotInv, Filed, Unborn
<1>6. Slotted(j)'
  <2>1. (FullTo(j, rec[j].anchor)' <=> FullTo(j, rec[j].anchor)) /\ (Ahead(rec'[j]) <=> Ahead(rec[j]))
    BY <1>1, <1>3 DEF FullTo, Ahead
  <2>2. (Goes(j)' => Goes(j)) /\ ~Fires(j, {"writing"})
    BY <1>1, <1>3 DEF Goes, Fires
  <2>3. ~Fires(j, {"injecting", "cancelling"})' /\ ~Fires(j, {"writing"})'
    BY <1>1 DEF Fires
  <2>4. /\ Fires(j, {"writing", "saving"})' => Fires(j, {"injecting", "cancelling"})
        /\ Fires(j, Firing \cup {"saving"})' => Fires(j, Firing \cup {"saving"})
    BY <1>1, <1>4 DEF Fires, Firing
  <2>5. ASSUME restarted[j] = {}, Fires(j, {"injecting", "cancelling"}) PROVE FullTo(j, fire.slot)'
    <3>1. FullBelow(j, fire.slot) /\ fire.slot \in 1..MaxTime
      BY <2>5 DEF SlotInv, Slotted, Fires, Firing
    <3> QED
      BY <1>1, <1>4, <3>1, Constants DEF FullTo, FullBelow
  <2> QED
    BY <1>1, <1>3, <1>4, <2>1, <2>2, <2>3, <2>4, <2>5 DEF SlotInv, Slotted
<1> QED
  BY <1>5, <1>6 DEF SlotJob

LEMMA CrashSlots ==
    ASSUME IInv, IInv', SlotInv, Crash, NEW j \in Jobs
    PROVE  SlotJob(j)'
<1>1. /\ pc' = "down" /\ due' = {} /\ rec' = file.rows /\ file' = file /\ crashes' = crashes + 1
      /\ listed' = {k \in Jobs : file.rows[k].status # "absent"}
      /\ delivered'[j] = IF j \in listed' THEN delivered[j] ELSE NoDelivery[j]
      /\ runs'[j] = IF j \in listed' THEN runs[j] ELSE 0
      /\ restarted'[j] = IF j \in listed' THEN restarted[j] ELSE {}
  BY DEF Crash
<1>2. \A s \in 1..Never : NoDelivery[j][s] = 0
  BY DEF NoDelivery
<1>3. crashes \in Nat /\ \A s \in 1..Never : delivered[j][s] \in Nat
  BY Numbers
<1>4. Unborn(j)'
  BY <1>1, <1>2 DEF Unborn
<1>5. Ahead(NoRow)
  BY DEF Ahead, NoRow
<1>6. restarted'[j] = {} => Ahead(file.rows[j])
  BY <1>1, <1>5 DEF SlotInv, Filed
<1>7. Filed(j)'
  BY <1>1, <1>6 DEF SlotInv, Filed
<1>8. Slotted(j)'
  <2>1. ASSUME restarted'[j] = {} PROVE \A s \in 1..Never : delivered'[j][s] <= crashes'
    BY <1>1, <1>2, <1>3, <2>1 DEF SlotInv, Slotted
  <2>2. ASSUME restarted'[j] = {} PROVE \A s \in 1..Never : delivered'[j][s] <= 1 + crashes'
                                         /\ ~(delivered'[j][s] > crashes')
    <3>1. crashes' \in Nat /\ \A s \in 1..Never : delivered'[j][s] \in Nat
      BY <1>1, <1>2, <1>3
    <3> QED
      BY <2>1, <2>2, <3>1
  <2>3. \A places \in SUBSET (Firing \cup {"saving"}) : ~Fires(j, places)'
    BY <1>1 DEF Fires, Firing
  <2>4. ~Fires(j, {"injecting", "cancelling"})' /\ ~Fires(j, {"writing", "saving"})'
        /\ ~Fires(j, {"writing"})' /\ ~Fires(j, Firing \cup {"saving"})'
    BY <2>3 DEF Firing
  <2> QED
    BY <1>1, <1>6, <2>2, <2>4 DEF Slotted, FullTo
<1> QED
  BY <1>4, <1>7, <1>8 DEF SlotJob

LEMMA InitSlotInv == Init => SlotInv
<1> SUFFICES ASSUME Init, NEW j \in Jobs PROVE Unborn(j) /\ Slotted(j) /\ Filed(j)
  BY DEF SlotInv
<1>1. IInv
  BY InitInv
<1>2. /\ pc = "off" /\ due = {} /\ file.rows = rec /\ crashes = 0 /\ runs[j] = 0
      /\ \A s \in 1..Never : delivered[j][s] = 0
  BY DEF Init, NoDelivery
<1>3. \/ rec[j] = NoRow
      \/ rec[j].next = NextSlot(j, 0) /\ rec[j].anchor = 0 /\ rec[j].status = "active"
  BY DEF Init
<1>4. NextSlot(j, 0) > 0
  BY NextSlotAfter, Constants
<1>5. Ahead(rec[j]) /\ (rec[j].status = "absent" => rec[j] = NoRow)
  BY <1>3, <1>4 DEF Ahead, NoRow
<1>6. \A places \in SUBSET (Firing \cup {"saving"}) : ~Fires(j, places)
  BY <1>2 DEF Fires, Firing
<1>7. ~Fires(j, {"injecting", "cancelling"}) /\ ~Fires(j, {"writing", "saving"})
      /\ ~Fires(j, {"writing"}) /\ ~Fires(j, Firing \cup {"saving"})
  BY <1>6 DEF Firing
<1> QED
  BY <1>2, <1>5, <1>7 DEF Unborn, Slotted, Filed, FullTo

LEMMA NextSlotInv == IInv /\ IInv' /\ SlotInv /\ [Next]_vars => SlotInv'
<1> SUFFICES ASSUME IInv, IInv', SlotInv, [Next]_vars, NEW j \in Jobs PROVE SlotJob(j)'
  BY DEF SlotInv, SlotJob
<1>1. CASE Task
  BY <1>1, BetweenFiresSlots, FireSlots, InjectedSlots, WriteFieldsSlots, WriteRefusedSlots,
     CancelGoneSlots, SaveFireSlots DEF Task
<1>2. CASE StopScheduler \/ Load
  BY <1>2, BetweenFiresSlots
<1>3. CASE Clock \/ UNCHANGED vars
  <2>1. Same(j) /\ UNCHANGED <<passVars, crashes, file>>
    BY <1>3 DEF Clock, Same, vars, storeVars, passVars, histVars
  <2> QED
    BY <2>1, SameSlots DEF SlotInv, SlotJob
<1>4. CASE Crash
  BY <1>4, CrashSlots
<1>5. CASE \E k \in Jobs : (\E first \in 1..MaxTime : Create(k, first)) \/ Resume(k)
  BY <1>5, CreateSlots, ResumeSlots
<1>6. CASE \/ \E k \in Jobs : \/ Pause(k) \/ Delete(k) \/ CancelRoom(k)
                              \/ \E resolved \in BOOLEAN : MigrateJob(k, resolved)
           \/ Migrate \/ MigrateEnd
  BY <1>6, CommandsAreSame, SameSlots DEF SlotInv, SlotJob
<1> QED
  BY <1>1, <1>2, <1>3, <1>4, <1>5, <1>6 DEF Next


-----------------------------------------------------------------------------
(* The budget of a job.                                                     *)

BudgetJob(j) == Budgeted(j) /\ Carried(j) /\ Mirrored(j)

\* A write that does not fail brings the file up to memory.
LEMMA SaveMirrors ==
    ASSUME ~SaveMayFail, Save, NEW j \in Jobs
    PROVE  file'.rows[j] = Kept(j)' /\ Mirrored(j)'
BY DEF Save, Kept, Mirrored

\* A job nobody ran has its budget.
LEMMA NoRunsAreFew ==
    ASSUME IInv', NEW j \in Jobs, runs'[j] = 0
    PROVE  Budgeted(j)' /\ Carried(j)'
<1>1. crashes' \in Nat /\ rec'[j].count \in Nat /\ file'.rows[j].count \in Nat /\ Times[j] \in Nat
  <2>1. \A r \in Job : r.count \in Nat
    BY DEF Job
  <2> QED
    BY <2>1, TimeAssumption DEF IInv, TypeOK
<1>2. fire'.copy.count \in Nat
  <2>1. fire' \in FireType
    BY DEF IInv, TypeOK, FireType
  <2> QED
    BY <2>1 DEF FireType, Job
<1> QED
  BY <1>1, <1>2 DEF Budgeted, Carried

\* A step that delivers nothing and counts nothing: whatever goes on went before, a fire
\* under way has counted, and the file, if it is written, is behind by no more than it was.
LEMMA KeepsBudget ==
    ASSUME ~SaveMayFail, IInv, IInv', NEW j \in Jobs, BudgetJob(j),
           rec'[j].count = rec[j].count,
           rec'[j].status = "absent" <=> rec[j].status = "absent",
           UNCHANGED crashes, runs'[j] = runs[j], Limited(j)' => Limited(j),
           j \in listed' /\ rec'[j].status # "cancelled" =>
              j \in listed /\ rec[j].status # "cancelled",
           Goes(j)' => Goes(j) /\ (Fires(j, {"writing"}) => Fires(j, {"writing"})'),
           Carried(j)', Save \/ (UNCHANGED file /\ Mirrored(j)')
    PROVE  BudgetJob(j)'
<1>1. Mirrored(j)'
  BY SaveMirrors
<1>2. ASSUME Save, Limited(j), file'.rows[j].status \notin {"absent", "cancelled"}
      PROVE  runs'[j] <= file'.rows[j].count + crashes' + 1
  <2>1. file'.rows[j] = rec'[j] /\ j \in listed' /\ rec'[j].status # "cancelled"
    BY <1>2, SaveMirrors DEF Kept, NoRow
  <2>2. Goes(j) /\ file'.rows[j].count = rec[j].count /\ j \in listed
        /\ rec[j].status \notin {"absent", "cancelled"}
    BY <1>2, <2>1 DEF Goes
  <2>3. CASE Fires(j, {"writing"})
    <3>1. file.rows[j] = rec[j]
      BY <2>2, <2>3 DEF BudgetJob, Mirrored, Fires, Kept
    <3> QED
      BY <1>2, <2>2, <3>1 DEF BudgetJob, Budgeted
  <2>4. CASE ~Fires(j, {"writing"})
    <3>1. runs[j] <= rec[j].count + crashes
      BY <1>2, <2>2, <2>4 DEF BudgetJob, Budgeted
    <3> QED
      BY <2>2, <3>1, Numbers
  <2> QED
    BY <2>3, <2>4
<1>3. Budgeted(j)'
  BY <1>2 DEF BudgetJob, Budgeted
<1> QED
  BY <1>1, <1>3 DEF BudgetJob

\* A command leaves the fire under way alone.
LEMMA SameBudget ==
    ASSUME ~SaveMayFail, IInv, IInv', NEW j \in Jobs, BudgetJob(j), Same(j),
           UNCHANGED <<passVars, crashes>>, Save \/ UNCHANGED <<rec, listed, file>>
    PROVE  BudgetJob(j)'
<1>1. UNCHANGED <<pc, fire, due>>
  BY DEF passVars
<1>2. Goes(j)' => Goes(j)
  BY <1>1 DEF Goes, Same
<1>3. \A places : Fires(j, places)' <=> Fires(j, places)
  BY <1>1 DEF Fires
<1>4. Limited(j)' <=> Limited(j)
  BY DEF Limited, Same
<1>5. Carried(j)'
  BY <1>1, <1>3, <1>4 DEF BudgetJob, Carried, Same
<1>6. Save \/ (UNCHANGED file /\ Mirrored(j)')
  BY <1>3 DEF BudgetJob, Mirrored, Kept
<1> QED
  BY <1>2, <1>3, <1>4, <1>5, <1>6, KeepsBudget DEF Same

LEMMA CommandsSave ==
    ASSUME \/ \E k \in Jobs : \/ Pause(k) \/ Delete(k) \/ CancelRoom(k)
                              \/ \E resolved \in BOOLEAN : MigrateJob(k, resolved)
           \/ Migrate \/ MigrateEnd
    PROVE  Save \/ UNCHANGED <<rec, listed, file>>
BY DEF Pause, Delete, CancelRoom, MigrateJob, Migrate, MigrateEnd, storeVars

LEMMA CreateBudget ==
    ASSUME ~SaveMayFail, IInv, IInv', SlotInv, BudgetInv,
           NEW k \in Jobs, NEW first \in 1..MaxTime, Create(k, first), NEW j \in Jobs
    PROVE  BudgetJob(j)'
<1>1. /\ rec \in [Jobs -> Job] /\ listed' = listed \cup {k} /\ rec[k].status = "absent"
      /\ \E row : rec' = [rec EXCEPT ![k] = row]
      /\ Save /\ UNCHANGED <<passVars, crashes, delivered, runs, restarted>>
  BY Rows DEF Create, histVars
<1>2. CASE j # k
  <2>1. Same(j)
    BY <1>1, <1>2 DEF Same
  <2> QED
    BY <1>1, <2>1, SameBudget DEF BudgetInv, BudgetJob
<1>3. CASE j = k
  <2>1. runs'[j] = 0
    BY <1>1, <1>3 DEF SlotInv, Unborn
  <2> QED
    BY <1>1, <2>1, NoRunsAreFew, SaveMirrors DEF BudgetJob
<1> QED
  BY <1>2, <1>3

\* A job that was cancelled has its runs no longer counted; one that was paused goes on.
LEMMA ResumeBudget ==
    ASSUME ~SaveMayFail, IInv, IInv', BudgetInv, NEW k \in Jobs, Resume(k), NEW j \in Jobs
    PROVE  BudgetJob(j)'
<1>1. /\ rec \in [Jobs -> Job] /\ restarted \in [Jobs -> SUBSET {"paused", "cancelled"}]
      /\ runs \in [Jobs -> Nat] /\ delivered \in [Jobs -> [1..Never -> Nat]]
      /\ rec' = [rec EXCEPT ![k] = [@ EXCEPT !.status = "active", !.next = NextSlot(k, now)]]
      /\ restarted' = [restarted EXCEPT ![k] = @ \cup {rec[k].status}]
      /\ k \in listed /\ rec[k].status \in {"paused", "cancelled"}
      /\ rec[k].status = "cancelled" => /\ runs' = [runs EXCEPT ![k] = 0]
                                        /\ delivered' = [delivered EXCEPT ![k] = NoDelivery[k]]
      /\ rec[k].status = "paused" => UNCHANGED <<runs, delivered>>
      /\ listed' = listed /\ Save /\ UNCHANGED <<passVars, crashes>>
  BY Rows DEF Resume
<1>2. CASE j # k
  <2>1. Same(j)
    BY <1>1, <1>2 DEF Same
  <2> QED
    BY <1>1, <2>1, SameBudget DEF BudgetInv, BudgetJob
<1>3. CASE j = k /\ rec[k].status = "cancelled"
  <2>1. runs'[j] = 0
    BY <1>1, <1>3
  <2> QED
    BY <1>1, <2>1, NoRunsAreFew, SaveMirrors DEF BudgetJob
<1>4. CASE j = k /\ rec[k].status = "paused"
  <2>1. rec'[j].count = rec[j].count /\ rec'[j].status = "active" /\ runs'[j] = runs[j]
    BY <1>1, <1>4 DEF Job
  <2>2. UNCHANGED <<pc, fire, due>>
    BY <1>1 DEF passVars
  <2>3. Goes(j) /\ \A places : Fires(j, places)' <=> Fires(j, places)
    BY <1>1, <1>4, <2>2 DEF Goes, Fires
  <2>4. Limited(j)' => Limited(j)
    BY <1>1, <1>4 DEF Limited
  <2>5. Carried(j)'
    BY <1>1, <2>1, <2>2, <2>3, <2>4 DEF BudgetInv, Carried
  <2> QED
    BY <1>1, <1>4, <2>1, <2>3, <2>4, <2>5, KeepsBudget DEF BudgetInv, BudgetJob
<1> QED
  BY <1>1, <1>2, <1>3, <1>4

\* A step of the task between two fires.
LEMMA RestBudget ==
    ASSUME ~SaveMayFail, IInv, IInv', NEW j \in Jobs, BudgetJob(j),
           UNCHANGED <<rec, delivered, runs, restarted, crashes>>,
           Save \/ UNCHANGED <<listed, file>>, listed' \subseteq listed,
           \A k \in due' : k \in due \/ (k \in listed' /\ IsDue(rec[k])),
           pc \notin {"writing", "saving"}, pc' \notin Firing \cup {"saving"}
    PROVE  BudgetJob(j)'
<1>1. Goes(j)' => Goes(j)
  BY DEF Goes, IsDue
<1>2. ~Fires(j, {"writing"}) /\ ~Fires(j, {"saving"}) /\ ~Fires(j, Firing \cup {"saving"})'
  BY DEF Fires
<1>3. Carried(j)' /\ (Limited(j)' => Limited(j))
  BY <1>2 DEF Carried, Limited
<1>4. Save \/ (UNCHANGED file /\ Mirrored(j)')
  BY <1>2 DEF BudgetJob, Mirrored, Kept
<1> QED
  BY <1>1, <1>2, <1>3, <1>4, KeepsBudget

LEMMA BetweenFiresBudget ==
    ASSUME ~SaveMayFail, IInv, IInv', BudgetInv, NEW j \in Jobs,
           StartScheduler \/ Tick \/ EndPass \/ StopScheduler \/ Load
    PROVE  BudgetJob(j)'
<1>1. CASE StartScheduler
  <2>1. pc = "off" /\ pc' = "pass" /\ due' = {k \in listed : IsDue(rec[k])}
        /\ UNCHANGED <<rec, delivered, runs, restarted, crashes, listed, file>>
    BY <1>1 DEF StartScheduler, storeVars, histVars
  <2> QED
    BY <2>1, RestBudget DEF BudgetInv, BudgetJob, Firing
<1>2. CASE Tick
  <2>1. pc = "idle" /\ pc' = "pass" /\ due' = {k \in listed' : IsDue(rec[k])}
        /\ listed' \subseteq listed /\ (Save \/ UNCHANGED <<listed, file>>)
        /\ UNCHANGED <<rec, delivered, runs, restarted, crashes>>
    BY <1>2 DEF Tick, histVars
  <2> QED
    BY <2>1, RestBudget DEF BudgetInv, BudgetJob, Firing
<1>3. CASE EndPass \/ StopScheduler \/ Load
  <2>1. pc \in {"pass", "idle", "down"} /\ pc' \in {"idle", "off"} /\ due' \subseteq due
        /\ UNCHANGED <<rec, delivered, runs, restarted, crashes, listed, file>>
    BY <1>3 DEF EndPass, StopScheduler, BetweenFires, Load, storeVars, histVars
  <2> QED
    BY <2>1, RestBudget DEF BudgetInv, BudgetJob, Firing
<1> QED
  BY <1>1, <1>2, <1>3

\* A fire begins with a copy that counts what the job counts.
LEMMA LaunchCarries ==
    ASSUME IInv, NEW k \in Jobs, NEW job \in Job, NEW slot, NEW rest, Launch(k, job, slot, rest),
           Limited(k)' => runs'[k] <= job.count + crashes', NEW j \in Jobs
    PROVE  Carried(j)' /\ pc' # "writing" /\ pc' # "saving"
<1>1. fire' = [job |-> k, slot |-> slot, copy |-> [job EXCEPT !.anchor = slot],
               missed |-> rest]
  BY DEF Launch
<1>2. [job EXCEPT !.anchor = slot].count = job.count
  BY DEF Job
<1>3. fire'.job = k /\ fire'.copy.count = job.count
  BY <1>1, <1>2
<1>4. link[k] \in {"up", "degraded", "gone"}
  BY Rows
<1>5. pc' # "writing" /\ pc' # "saving"
  BY <1>4 DEF Launch
<1> QED
  BY <1>3, <1>5 DEF Carried, Fires

LEMMA FireBudget ==
    ASSUME ~SaveMayFail, IInv, IInv', BudgetInv, NEW k \in Jobs, FireDue(k) \/ CatchUp(k),
           NEW j \in Jobs
    PROVE  BudgetJob(j)'
<1>1. /\ pc = "pass" /\ k \in due /\ due' = due \ {k}
      /\ UNCHANGED <<rec, listed, file, delivered, runs, restarted, crashes>>
  BY DEF FireDue, CatchUp, storeVars, histVars
<1>2. CASE pc' \notin Firing \cup {"saving"}
  BY <1>1, <1>2, RestBudget DEF BudgetInv, BudgetJob
<1>3. CASE pc' \in Firing \cup {"saving"}
  <2>1. PICK slot, rest : Launch(k, rec[k], slot, rest)
    BY <1>1, <1>3 DEF FireDue, CatchUp, Firing
  <2>2. rec[k] \in Job
    BY Rows
  <2>3. Limited(k)' => runs'[k] <= rec[k].count + crashes'
    BY <1>1 DEF BudgetInv, Budgeted, Limited, Goes, Fires
  <2>4. Carried(j)'
    BY <2>1, <2>2, <2>3, LaunchCarries
  <2>5. (Goes(j)' => Goes(j)) /\ ~Fires(j, {"writing"}) /\ ~Fires(j, {"saving"})
    BY <1>1 DEF Goes, Fires
  <2>6. Mirrored(j)' /\ (Limited(j)' => Limited(j))
    BY <1>1, <2>5 DEF BudgetInv, Mirrored, Kept, Limited
  <2> QED
    BY <1>1, <2>4, <2>5, <2>6, KeepsBudget DEF BudgetInv, BudgetJob
<1> QED
  BY <1>2, <1>3

\* What an injection leaves of the copy's count: a run is counted, a failure is not.
LEMMA CopyCounts ==
    ASSUME NEW j \in Jobs, NEW r \in Job, NEW slot, Times[j] > 0
    PROVE  /\ AfterRun(r, j, slot).count = r.count + 1
           /\ AfterFailure(r, j, slot).count = r.count
<1> DEFINE n == NextSlot(j, slot)
           c == r.count + 1
           last == [r EXCEPT !.count = c, !.status = "completed", !.next = 0]
           next == [r EXCEPT !.count = c, !.next = n]
           again == [r EXCEPT !.next = n]
<1>1. last.count = c /\ next.count = c /\ again.count = r.count
  BY DEF Job
<1>2. AfterRun(r, j, slot) = last \/ AfterRun(r, j, slot) = next
  <2>1. (IF Times[j] = 0 THEN 0 ELSE r.count + 1) = c
    BY Constants
  <2> HIDE DEF c, n
  <2>2. AfterRun(r, j, slot) =
           IF Exhausted(j, c)
           THEN [r EXCEPT !.count = c, !.status = "completed", !.next = 0]
           ELSE [r EXCEPT !.count = c, !.next = NextSlot(j, slot)]
    BY <2>1 DEF AfterRun
  <2> QED
    BY <2>2 DEF n
<1>3. AfterFailure(r, j, slot) = again
  BY DEF AfterFailure
<1> HIDE DEF last, next, again
<1> QED
  BY <1>1, <1>2, <1>3

\* The run that is delivered was in the budget: the copy had runs left.
LEMMA InjectedBudget ==
    ASSUME ~SaveMayFail, IInv, IInv', BudgetInv, NEW accepted \in BOOLEAN, Injected(accepted),
           NEW j \in Jobs
    PROVE  BudgetJob(j)'
<1> DEFINE f == fire.job
           copy == IF accepted \/ Times[f] = 0 THEN AfterRun(fire.copy, f, fire.slot)
                   ELSE AfterFailure(fire.copy, f, fire.slot)
<1>1. /\ pc = "injecting" /\ pc' = "writing" /\ fire' = [fire EXCEPT !.copy = copy]
      /\ UNCHANGED <<rec, listed, file, due, restarted, crashes>>
      /\ \/ UNCHANGED runs
         \/ accepted /\ runs' = [runs EXCEPT ![f] = @ + 1]
  BY DEF Injected, storeVars
<1>2. /\ f \in Jobs /\ f \notin due /\ fire \in FireType /\ fire.copy \in Job
      /\ Spare(f, fire.copy) /\ fire.copy.status # "completed" /\ runs \in [Jobs -> Nat]
  BY <1>1, InFire, Rows DEF IInv, Accounts, Firing
<1>3. fire'.job = f /\ fire'.copy = copy
  BY <1>1, <1>2 DEF FireType
<1> HIDE DEF copy
<1>4. Mirrored(j)'
  BY <1>1 DEF BudgetInv, Mirrored, Kept, Fires
<1>5. CASE j # f
  <2>1. runs'[j] = runs[j] /\ (Limited(j)' => Limited(j)) /\ (Goes(j)' => Goes(j))
    BY <1>1, <1>2, <1>5 DEF Limited, Goes
  <2>2. ~Fires(j, {"writing"}) /\ Carried(j)'
    BY <1>1, <1>3, <1>5 DEF Carried, Fires
  <2> QED
    BY <1>1, <1>4, <2>1, <2>2, KeepsBudget DEF BudgetInv, BudgetJob
<1>6. CASE j = f
  <2>1. ASSUME Limited(j)
        PROVE  /\ runs'[j] <= Times[j] + crashes /\ runs'[j] <= copy.count + crashes
               /\ file.rows[j].status \notin {"absent", "cancelled"} =>
                     runs'[j] <= file.rows[j].count + crashes + 1
    <3>1. Fires(j, Firing \cup {"saving"}) /\ ~Fires(j, {"saving"}) /\ ~Fires(j, {"writing"})
      BY <1>1, <1>6 DEF Fires, Firing
    <3>2. runs[j] <= fire.copy.count + crashes /\ runs[j] <= Times[j] + crashes
      BY <2>1, <3>1 DEF BudgetInv, Carried, Budgeted
    <3>3. file.rows[j].status \notin {"absent", "cancelled"} =>
             runs[j] <= file.rows[j].count + crashes
      <4>1. file.rows[j] = Kept(j)
        BY <3>1 DEF BudgetInv, Mirrored
      <4>2. file.rows[j].status \notin {"absent", "cancelled"} =>
               Goes(j) /\ file.rows[j] = rec[j]
        BY <4>1 DEF Kept, NoRow, Goes
      <4> QED
        BY <2>1, <3>1, <4>2 DEF BudgetInv, Budgeted
    <3>4. Times[j] > 0 /\ fire.copy.count < Times[j]
      BY <1>2, <1>6, <2>1 DEF Limited, Spare
    <3>5. IF accepted THEN copy.count = fire.copy.count + 1 ELSE copy.count = fire.copy.count
      BY <1>2, <1>6, <3>4, CopyCounts, Numbers DEF copy
    <3>6. runs'[j] = runs[j] \/ (accepted /\ runs'[j] = runs[j] + 1)
      BY <1>1, <1>2, <1>6
    <3>7. /\ crashes \in Nat /\ runs[j] \in Nat /\ fire.copy.count \in Nat /\ Times[j] \in Nat
          /\ file.rows[j].count \in Nat
      BY <1>2, Numbers
    <3> QED
      BY <3>2, <3>3, <3>4, <3>5, <3>6, <3>7
  <2>2. (Limited(j)' => Limited(j)) /\ Fires(j, {"writing"})'
    BY <1>1, <1>3, <1>6 DEF Limited, Fires
  <2>3. Budgeted(j)' /\ Carried(j)'
    BY <1>1, <1>3, <2>1, <2>2 DEF Budgeted, Carried
  <2> QED
    BY <1>4, <2>3 DEF BudgetJob
<1> QED
  BY <1>5, <1>6

\* The count of the copy becomes the job's.
LEMMA WriteFieldsBudget ==
    ASSUME ~SaveMayFail, IInv, IInv', BudgetInv, WriteFields, NEW j \in Jobs
    PROVE  BudgetJob(j)'
<1> DEFINE f == fire.job
<1>1. /\ pc = "writing" /\ pc' = "saving"
      /\ rec' = [rec EXCEPT ![f] = FireOwned(@, fire.copy)]
      /\ UNCHANGED <<listed, file, due, fire, delivered, runs, restarted, crashes>>
  BY DEF WriteFields, histVars
<1>2. /\ f \in Jobs /\ fire.copy \in Job /\ rec \in [Jobs -> Job]
  BY <1>1, InFire, Rows DEF Firing
<1>3. (Limited(j)' <=> Limited(j)) /\ Carried(j)'
  BY <1>1 DEF BudgetInv, Limited, Carried, Fires, Firing
<1>4. CASE j # f
  <2>1. rec'[j] = rec[j]
    BY <1>1, <1>2, <1>4
  <2>2. ~Fires(j, {"writing"}) /\ (Goes(j)' => Goes(j)) /\ Mirrored(j)'
    BY <1>1, <1>4, <2>1 DEF BudgetInv, Fires, Goes, Mirrored, Kept
  <2> QED
    BY <1>1, <1>3, <2>1, <2>2, KeepsBudget DEF BudgetInv, BudgetJob
<1>5. CASE j = f
  <2>1. rec'[j].count = fire.copy.count
    BY <1>1, <1>2, <1>5 DEF FireOwned, Job
  <2>2. Mirrored(j)' /\ Fires(j, Firing \cup {"saving"})
    BY <1>1, <1>5 DEF Mirrored, Fires, Firing
  <2>3. Budgeted(j)'
    BY <1>1, <1>3, <2>1, <2>2 DEF BudgetInv, Budgeted, Carried
  <2> QED
    BY <1>3, <2>2, <2>3 DEF BudgetJob
<1> QED
  BY <1>4, <1>5

LEMMA FinishBudget ==
    ASSUME ~SaveMayFail, IInv, IInv', BudgetInv, NEW j \in Jobs, Finish,
           UNCHANGED <<rec, listed, due, delivered, runs, restarted, crashes>>,
           \/ pc = "saving" /\ Save
           \/ pc = "writing" /\ ~Goes(fire.job) /\ UNCHANGED file
    PROVE  BudgetJob(j)'
<1>1. /\ fire.job \in Jobs /\ fire.copy \in Job
      /\ Fires(fire.job, Firing \cup {"saving"})
  BY InFire DEF Firing, Fires
<1>2. Carried(j)' /\ pc' # "writing" /\ pc' # "saving"
  <2>1. CASE pc' = "pass" /\ fire' = NoFire
    BY <2>1 DEF Carried, Fires, Firing
  <2>2. CASE \E slot, rest : Launch(fire.job, fire.copy, slot, rest)
    <3>1. PICK f \in Jobs, job \in Job : f = fire.job /\ job = fire.copy
      BY <1>1
    <3>2. Limited(f)' => runs'[f] <= job.count + crashes'
      BY <1>1, <3>1 DEF BudgetInv, Carried, Limited
    <3>3. PICK slot, rest : Launch(f, job, slot, rest)
      BY <2>2, <3>1
    <3> QED
      BY <3>2, <3>3, LaunchCarries
  <2> QED
    BY <2>1, <2>2 DEF Finish
<1>3. (Goes(j)' => Goes(j)) /\ (Limited(j)' => Limited(j))
  BY DEF Goes, Limited
<1>4. Goes(j) => ~Fires(j, {"writing"})
  BY DEF Fires
<1>5. Save \/ (UNCHANGED file /\ Mirrored(j)')
  BY DEF BudgetInv, Mirrored, Kept, Fires
<1> QED
  BY <1>2, <1>3, <1>4, <1>5, KeepsBudget DEF BudgetInv, BudgetJob

LEMMA EndOfFireBudget ==
    ASSUME ~SaveMayFail, IInv, IInv', BudgetInv, WriteRefused \/ SaveFire, NEW j \in Jobs
    PROVE  BudgetJob(j)'
<1>1. CASE WriteRefused
  <2>1. /\ pc = "writing" /\ Finish /\ ~Writable(fire.job)
        /\ UNCHANGED <<rec, listed, file, due, delivered, runs, restarted, crashes>>
    BY <1>1 DEF WriteRefused, storeVars, histVars
  <2>2. ~Goes(fire.job)
    BY <2>1, InFire DEF Goes, Writable, Firing
  <2> QED
    BY <2>1, <2>2, FinishBudget
<1>2. CASE SaveFire
  BY <1>2, FinishBudget DEF SaveFire, storeVars, histVars
<1> QED
  BY <1>1, <1>2

LEMMA CancelGoneBudget ==
    ASSUME ~SaveMayFail, IInv, IInv', BudgetInv, CancelGone, NEW j \in Jobs
    PROVE  BudgetJob(j)'
<1> DEFINE f == fire.job
<1>1. /\ pc = "cancelling" /\ pc' = "saving"
      /\ rec' = IF f \in listed THEN [rec EXCEPT ![f] = [@ EXCEPT !.status = "cancelled"]]
                ELSE rec
      /\ fire' = [fire EXCEPT !.copy = [@ EXCEPT !.status = "cancelled"]]
      /\ UNCHANGED <<listed, file, due, delivered, runs, restarted, crashes>>
  BY DEF CancelGone, histVars
<1>2. /\ f \in Jobs /\ fire \in FireType /\ fire.copy \in Job
      /\ rec \in [Jobs -> Job] /\ rec[f].status # "absent"
  BY <1>1, InFire, Rows DEF IInv, Accounts, Firing
<1>3. /\ rec'[j].count = rec[j].count /\ (j # f => rec'[j] = rec[j])
      /\ rec'[j].status \in {rec[j].status, "cancelled"}
      /\ rec'[j].status = "absent" <=> rec[j].status = "absent"
  <2>1. rec[j] \in Job /\ rec'[j] \in {rec[j], [rec[j] EXCEPT !.status = "cancelled"]}
        /\ (rec[j].status = "absent" \/ j # f => rec'[j] = rec[j])
    BY <1>1, <1>2
  <2> QED
    BY <2>1 DEF Job
<1>4. fire'.job = f /\ fire'.copy.count = fire.copy.count
  BY <1>1, <1>2 DEF FireType, Job
<1>5. Carried(j)'
  <2>1. Fires(j, Firing \cup {"saving"})' => Fires(j, Firing \cup {"saving"})
    BY <1>1, <1>4 DEF Fires, Firing
  <2> QED
    BY <1>1, <1>4, <2>1 DEF BudgetInv, Carried, Limited
<1>6. Mirrored(j)'
  <2>1. j = f => Fires(j, {"saving"})'
    BY <1>1, <1>4 DEF Fires
  <2>2. Kept(j)' = Kept(j) \/ j = f
    BY <1>1, <1>3 DEF Kept
  <2> QED
    BY <1>1, <2>1, <2>2 DEF BudgetInv, Mirrored, Fires
<1>7. (Goes(j)' => Goes(j)) /\ ~Fires(j, {"writing"}) /\ (Limited(j)' => Limited(j))
  BY <1>1, <1>3 DEF Goes, Fires, Limited
<1> QED
  BY <1>1, <1>3, <1>5, <1>6, <1>7, KeepsBudget DEF BudgetInv, BudgetJob

\* The run the crash cut off before it was written is the one more that it may cost.
LEMMA CrashBudget ==
    ASSUME ~SaveMayFail, IInv, IInv', SlotInv, BudgetInv, Crash, NEW j \in Jobs
    PROVE  BudgetJob(j)'
<1>1. /\ pc' = "down" /\ due' = {} /\ rec' = file.rows /\ file' = file /\ crashes' = crashes + 1
      /\ listed' = {k \in Jobs : file.rows[k].status # "absent"}
      /\ runs'[j] = IF j \in listed' THEN runs[j] ELSE 0
      /\ restarted'[j] = IF j \in listed' THEN restarted[j] ELSE {}
  BY DEF Crash
<1>2. Mirrored(j)'
  BY <1>1 DEF SlotInv, Filed, Mirrored, Kept
<1>3. CASE j \notin listed'
  BY <1>1, <1>2, <1>3, NoRunsAreFew DEF BudgetJob
<1>4. CASE j \in listed'
  <2>1. runs'[j] = runs[j] /\ (Limited(j)' => Limited(j)) /\ rec'[j] = file.rows[j]
        /\ rec'[j].status # "absent"
    BY <1>1, <1>4 DEF Limited
  <2>2. /\ crashes \in Nat /\ runs[j] \in Nat /\ file.rows[j].count \in Nat /\ Times[j] \in Nat
    BY Numbers
  <2>3. ASSUME Limited(j)
        PROVE  /\ runs[j] <= Times[j] + crashes
               /\ file.rows[j].status \notin {"absent", "cancelled"} =>
                     runs[j] <= file.rows[j].count + crashes + 1
    BY <2>3 DEF BudgetInv, Budgeted
  <2>4. Goes(j)' => file.rows[j].status \notin {"absent", "cancelled"}
    BY <1>1, <2>1 DEF Goes
  <2>5. Budgeted(j)' /\ Carried(j)'
    BY <1>1, <2>1, <2>2, <2>3, <2>4 DEF Budgeted, Carried, Fires, Firing
  <2> QED
    BY <1>2, <2>5 DEF BudgetJob
<1> QED
  BY <1>3, <1>4

LEMMA InitBudgetInv == Init => BudgetInv
<1> SUFFICES ASSUME Init, NEW j \in Jobs PROVE Budgeted(j) /\ Carried(j) /\ Mirrored(j)
  BY DEF BudgetInv
<1>1. IInv
  BY InitInv
<1>2. /\ pc = "off" /\ file.rows = rec /\ crashes = 0 /\ runs[j] = 0
      /\ (j \notin listed => rec[j] = NoRow)
  BY DEF Init
<1>3. rec[j].count \in Nat /\ Times[j] \in Nat
  BY <1>1, Numbers
<1> QED
  BY <1>2, <1>3 DEF Budgeted, Carried, Mirrored, Kept, Fires, Firing

LEMMA NextBudgetInv ==
    ~SaveMayFail /\ IInv /\ IInv' /\ SlotInv /\ BudgetInv /\ [Next]_vars => BudgetInv'
<1> SUFFICES ASSUME ~SaveMayFail, IInv, IInv', SlotInv, BudgetInv, [Next]_vars, NEW j \in Jobs
             PROVE  BudgetJob(j)'
  BY DEF BudgetInv, BudgetJob
<1>1. CASE Task
  BY <1>1, BetweenFiresBudget, FireBudget, InjectedBudget, WriteFieldsBudget, EndOfFireBudget,
     CancelGoneBudget DEF Task
<1>2. CASE StopScheduler \/ Load
  BY <1>2, BetweenFiresBudget
<1>3. CASE Clock \/ UNCHANGED vars
  <2>1. Same(j) /\ UNCHANGED <<passVars, crashes, rec, listed, file>>
    BY <1>3 DEF Clock, Same, vars, storeVars, passVars, histVars
  <2> QED
    BY <2>1, SameBudget DEF BudgetInv, BudgetJob
<1>4. CASE Crash
  BY <1>4, CrashBudget
<1>5. CASE \E k \in Jobs : (\E first \in 1..MaxTime : Create(k, first)) \/ Resume(k)
  BY <1>5, CreateBudget, ResumeBudget
<1>6. CASE \/ \E k \in Jobs : \/ Pause(k) \/ Delete(k) \/ CancelRoom(k)
                              \/ \E resolved \in BOOLEAN : MigrateJob(k, resolved)
           \/ Migrate \/ MigrateEnd
  BY <1>6, CommandsAreSame, CommandsSave, SameBudget DEF BudgetInv, BudgetJob
<1> QED
  BY <1>1, <1>2, <1>3, <1>4, <1>5, <1>6 DEF Next

-----------------------------------------------------------------------------
(* The theorems.                                                            *)

\* Every state of the scheduler is well formed; no job counts more runs than
\* it was given (scheduler.py, _fire_once).
THEOREM TypeCorrect == Spec => []TypeOK
<1>1. IInv => TypeOK
  BY DEF IInv
<1> QED
  BY <1>1, InitInv, NextInv, PTL DEF Spec

\* jobs.json claims the new schema only when every job that can fire has its
\* room, whatever fires, failing writes, crashes and commands come between the
\* steps of a migration (job_store.py, write_fields and stamp_version).
THEOREM VersionIsHonest == Spec => []HonestVersion
<1>1. IInv => HonestVersion
  BY DEF IInv, Migrated, HonestVersion, Roomed
<1> QED
  BY <1>1, InitInv, NextInv, PTL DEF Spec

\* No fire that holds a copy of a job brings it back after a deletion or a
\* cancellation (job_store.py, write_fields).
THEOREM EndsAreFinal == Spec => EndedStaysEnded
<1> DEFINE Stays == pc' # "down" => \A j \in Jobs :
         /\ j \notin listed /\ rec[j].status # "absent" => j \notin listed'
         /\ rec[j].status = "cancelled" => rec'[j].status = "cancelled" \/ Resume(j)
<1>1. ASSUME IInv, Next, pc' # "down", NEW j \in Jobs
      PROVE  /\ j \notin listed /\ rec[j].status # "absent" => j \notin listed'
             /\ rec[j].status = "cancelled" => rec'[j].status = "cancelled" \/ Resume(j)
  <2>1. rec \in [Jobs -> Job]
    BY <1>1, Rows
  <2>2. CASE UNCHANGED <<rec, listed>>
    BY <2>2
  <2>3. CASE Tick
    BY <2>3 DEF Tick
  <2>4. CASE WriteFields
    BY <2>1, <2>4 DEF WriteFields, Writable
  <2>5. CASE CancelGone
    <3>1. listed' = listed
          /\ rec' = IF fire.job \in listed THEN [rec EXCEPT ![fire.job].status = "cancelled"]
                    ELSE rec
      BY <2>5 DEF CancelGone
    <3>2. rec[j] \in Job
      BY <2>1
    <3> QED
      BY <2>1, <3>1, <3>2 DEF Job
  <2>6. CASE \E k \in Jobs : \E first \in 1..MaxTime : Create(k, first)
    BY <2>1, <2>6 DEF Create
  <2>7. CASE \E k \in Jobs : Pause(k)
    BY <2>1, <2>7 DEF Pause
  <2>8. CASE \E k \in Jobs : Resume(k)
    BY <2>1, <2>8 DEF Resume
  <2>9. CASE \E k \in Jobs : Delete(k)
    BY <2>9 DEF Delete
  <2>10. CASE \E k \in Jobs : CancelRoom(k)
    BY <2>1, <2>10 DEF CancelRoom
  <2>11. CASE \E k \in Jobs : \E resolved \in BOOLEAN : MigrateJob(k, resolved)
    <3>1. PICK k \in Jobs : \E resolved \in BOOLEAN : MigrateJob(k, resolved)
      BY <2>11
    <3>2. listed' = listed /\ (rec' = [rec EXCEPT ![k].room = TRUE] \/ rec' = rec)
      BY <3>1 DEF MigrateJob, storeVars
    <3>3. rec[k] \in Job /\ rec[j] \in Job
      BY <2>1
    <3> QED
      BY <2>1, <3>2, <3>3 DEF Job
  <2>12. CASE MigrateEnd
    BY <2>12 DEF MigrateEnd, storeVars
  <2>13. Clock \/ StartScheduler \/ EndPass \/ StopScheduler \/ Load \/ Migrate
         \/ WriteRefused \/ SaveFire
         \/ (\E k \in Jobs : FireDue(k) \/ CatchUp(k))
         \/ (\E accepted \in BOOLEAN : Injected(accepted))
         => UNCHANGED <<rec, listed>>
    BY DEF Clock, StartScheduler, EndPass, StopScheduler, Load, Migrate, WriteRefused,
           SaveFire, FireDue, CatchUp, Injected, storeVars
  <2>14. ~Crash
    BY <1>1 DEF Crash
  <2> QED
    BY <1>1, <2>2, <2>3, <2>4, <2>5, <2>6, <2>7, <2>8, <2>9, <2>10, <2>11, <2>12, <2>13,
       <2>14 DEF Next, Task
<1>2. IInv /\ [Next]_vars => [Stays]_vars
  BY <1>1
<1>3. EndedStaysEnded <=> [][Stays]_vars
  BY DEF EndedStaysEnded
<1> HIDE DEF Stays
<1> QED
  BY <1>2, <1>3, InitInv, NextInv, PTL DEF Spec

\* Whatever fails to be written, no reload, catch-up, command or slow injection makes the
\* scheduler fire a slot it has fired: only a crash does, once (scheduler.py, _fire_once and
\* _fire_catch_up; service.py, _stop_scheduler).
THEOREM SlotsFireOnce == Spec => []NoSlotTwice
<1>1. IInv /\ SlotInv => NoSlotTwice
  BY DEF SlotInv, Slotted, NoSlotTwice
<1> QED
  BY <1>1, InitInv, NextInv, InitSlotInv, NextSlotInv, PTL DEF Spec

\* As long as jobs.json can be written, a job with a number of runs is not run more often, but
\* for what a crash cut off; and no slot is delivered twice (scheduler.py, _fire_once;
\* job_store.py, write_fields).  A run whose write fails is lost by the next crash, so the
\* first half needs its hypothesis.
THEOREM NoRunIsTooMany ==
    ASSUME ~SaveMayFail
    PROVE  Spec => []NoRunTooMany
<1>1. IInv /\ SlotInv => NoSlotTwice
  BY DEF SlotInv, Slotted, NoSlotTwice
<1>2. BudgetInv => BudgetKept
  BY DEF BudgetInv, Budgeted, Limited, BudgetKept
<1>3. IInv /\ IInv' /\ SlotInv /\ BudgetInv /\ [Next]_vars => BudgetInv'
  BY NextBudgetInv
<1> QED
  BY <1>1, <1>2, <1>3, InitInv, NextInv, InitSlotInv, NextSlotInv, InitBudgetInv, PTL
     DEF Spec, NoRunTooMany
=============================================================================
