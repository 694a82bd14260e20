---------------------------- MODULE InjectedContext ----------------------------
(* The identity header of one room's watcher, on its way to the agent: the record  *)
(* whose flag says that it got there, InjectedContextBuilder.ensure() at a start    *)
(* and before a turn, and MessageProcessor.rename() when the room's name changes    *)
(* (core/injected_context_builder.py, core/message_processor.py).                  *)
EXTENDS Naturals

CONSTANTS MaxRenames, MaxFailures,       \* bounds on what happens
          MaxAttempts                    \* _MAX_INJECT_ATTEMPTS

VARIABLES backend,       \* "file": rewritten at each call; "send": told once, in the session
          name,          \* the handle, counted by its renames
          config,        \* the one the processor was made or renamed with
          informed,      \* the one the agent has last been told
          injected, saved,    \* context_injected, in memory and in the file
          status,        \* InjectionStatus
          resident,      \* the processor: "no", "starting", "ready" to be registered, "up"
          inj,           \* the injection at work: whose, with what, by what flag, tries before
          ren,           \* the header that a rename delivers
          failures,
          missed         \* history: the agent is owed a header that nobody will send

headerVars == <<backend, name, config, informed, injected, saved, status, resident, inj, ren,
                failures, missed>>

RoomNames == 0 .. MaxRenames
Nobody == [on |-> "nothing", content |-> 0, given |-> FALSE, tries |-> 0, detached |-> FALSE]
NoStatus == [state |-> "not_started", failures |-> 0]
NoRename == MaxRenames + 1
Retryable == {"not_started", "failed_retryable", "pending"}

TypeOK ==
    /\ backend \in {"file", "send"} /\ name \in RoomNames /\ config \in RoomNames
    /\ informed \in RoomNames \cup {NoRename}
    /\ injected \in BOOLEAN /\ saved \in BOOLEAN
    /\ status \in [state : Retryable \cup {"failed_degraded", "injected"},
                   failures : 0 .. MaxAttempts]
    /\ resident \in {"no", "starting", "ready", "up"}
    /\ inj \in [on : {"nothing", "start", "turn"}, content : RoomNames, given : BOOLEAN,
                tries : 0 .. MaxAttempts, detached : BOOLEAN]
    /\ ren \in RoomNames \cup {NoRename} /\ failures \in 0 .. MaxFailures /\ missed \in BOOLEAN

Init ==
    /\ backend \in {"file", "send"} /\ name = 0 /\ config = 0 /\ informed = NoRename
    /\ injected = FALSE /\ saved = FALSE /\ status = NoStatus /\ resident = "no"
    /\ inj = Nobody /\ ren = NoRename /\ failures = 0 /\ missed = FALSE

-----------------------------------------------------------------------------
Injecting == inj.on # "nothing"

\* build() and the first half of ensure(): the flag is that of now, and the status that
\* it counts in, though a rename may drop that meanwhile.
Begins(on, content) ==
    /\ inj' = [on |-> on, content |-> content, given |-> injected, tries |-> status.failures,
               detached |-> FALSE]
    /\ status' = [status EXCEPT !.state = "pending"]

\* A watcher starts: the header is ensured whatever the record says.
Start ==
    /\ resident = "no" /\ ~Injecting /\ resident' = "starting"
    /\ config' = name /\ Begins("start", name)
    /\ UNCHANGED <<backend, name, informed, injected, saved, ren, failures, missed>>

\* A message finds that the header is due.
Retry ==
    /\ resident = "up" /\ ~Injecting /\ ~injected /\ status.state \in Retryable
    /\ Begins("turn", config)
    /\ UNCHANGED <<backend, name, config, informed, injected, saved, resident, ren, failures,
                   missed>>

Resumes == resident' = IF inj.on = "start" THEN "ready" ELSE resident

\* ensure_durable_instructions: a backend that is told once, and has been, does nothing.
Sends == backend = "file" \/ ~inj.given

\* The backend has the header.
Injected ==
    LET stale == IF Sends THEN inj.content # name ELSE informed # name
    IN /\ Injecting
       /\ informed' = IF Sends THEN inj.content ELSE informed
       /\ injected' = TRUE /\ status' = [state |-> "injected", failures |-> 0]
       /\ missed' = IF stale THEN ren = NoRename \/ missed ELSE FALSE
       /\ inj' = Nobody /\ Resumes
       /\ UNCHANGED <<backend, name, config, saved, ren, failures>>

\* The agent answers with an error.  After some of them the flag goes up and nothing is
\* tried any more, though a rename have taken flag and status back meanwhile.
Refused ==
    LET n == inj.tries + 1
        over == n >= MaxAttempts
    IN /\ Injecting /\ backend = "send" /\ ~inj.given /\ failures < MaxFailures
       /\ failures' = failures + 1
       /\ status' = IF inj.detached THEN status
                    ELSE [state |-> IF over THEN "failed_degraded" ELSE "failed_retryable",
                          failures |-> n]
       /\ injected' = (injected \/ over) /\ missed' = (missed \/ over)
       /\ inj' = Nobody /\ Resumes
       /\ UNCHANGED <<backend, name, config, informed, saved, ren>>

\* Anything else went wrong: a turn is refused, a start rolled back.
Failed ==
    /\ Injecting /\ failures < MaxFailures /\ failures' = failures + 1
    /\ status' = IF ~inj.detached /\ status.state = "pending"
                 THEN [status EXCEPT !.state = "not_started"] ELSE status
    /\ inj' = Nobody /\ resident' = IF inj.on = "start" THEN "no" ELSE resident
    /\ UNCHANGED <<backend, name, config, informed, injected, saved, ren, missed>>

\* The rest of the start succeeds, and the record is written.
Registered ==
    /\ resident = "ready" /\ resident' = "up" /\ saved' = injected
    /\ UNCHANGED <<backend, name, config, informed, injected, status, inj, ren, failures,
                   missed>>

\* The rest of the start fails.  A session that was made for it goes with it.
StartFails ==
    /\ resident = "ready" /\ resident' = "no"
    /\ failures < MaxFailures /\ failures' = failures + 1
    /\ \/ UNCHANGED <<injected, informed, status>>
       \/ injected' = FALSE /\ informed' = NoRename /\ status' = NoStatus
    /\ UNCHANGED <<backend, name, config, saved, inj, ren, missed>>

\* reset: the watcher is stopped, its session forgotten, and started with another.
\* (A rename on its way to the old session is left out.)
Reset ==
    /\ resident = "up" /\ ren = NoRename /\ resident' = "starting" /\ config' = name
    /\ injected' = FALSE /\ informed' = NoRename
    /\ inj' = [on |-> "start", content |-> name, given |-> FALSE, tries |-> 0, detached |-> FALSE]
    /\ status' = [NoStatus EXCEPT !.state = "pending"]
    /\ UNCHANGED <<backend, name, saved, ren, failures, missed>>

\* A frame shows another name: the record takes it, and is written.  The processor, if
\* there is one, delivers the new header beside whatever it is doing.
Rename ==
    /\ name < MaxRenames /\ ren = NoRename
    /\ name' = name + 1 /\ saved' = injected
    /\ IF resident = "up"
       THEN ren' = name' /\ config' = name' /\ UNCHANGED missed
       ELSE /\ UNCHANGED <<ren, config>>
            /\ missed' = (missed \/ resident \in {"starting", "ready"} \/
                          (backend = "send" /\ injected))
    /\ UNCHANGED <<backend, informed, injected, status, resident, inj, failures>>

\* It has arrived.
RenameTold ==
    /\ ren # NoRename /\ informed' = ren /\ ren' = NoRename
    /\ missed' = (missed /\ ren # name)
    /\ UNCHANGED <<backend, name, config, injected, saved, status, resident, inj, failures>>

\* Mutant: a failed rename is logged.
RearmedMutant == injected

\* It has not: the record's flag and the status are taken back, so that the next message
\* delivers it.
Rearmed == FALSE

RenameFailed ==
    /\ ren # NoRename /\ failures < MaxFailures /\ failures' = failures + 1
    /\ ren' = NoRename /\ injected' = Rearmed /\ status' = NoStatus
    /\ inj' = [inj EXCEPT !.detached = Injecting]
    /\ UNCHANGED <<backend, name, config, informed, saved, resident, missed>>

\* The watcher is stopped: what its turn was injecting is cancelled, and its status stays.
\* A rename that is under way goes on.
Drop ==
    /\ resident = "up" /\ resident' = "no" /\ inj' = Nobody
    /\ UNCHANGED <<backend, name, config, informed, injected, saved, status, ren, failures,
                   missed>>

\* Any save of the store takes the flag with it.
Save ==
    /\ saved # injected /\ saved' = injected
    /\ UNCHANGED <<backend, name, config, informed, injected, status, resident, inj, ren, failures,
                   missed>>

\* The process ends and comes back: memory is what the file says.
Restart ==
    /\ resident' = "no" /\ inj' = Nobody /\ ren' = NoRename /\ status' = NoStatus
    /\ injected' = saved
    /\ missed' = (missed \/ (backend = "send" /\ saved /\ informed # name))
    /\ UNCHANGED <<backend, name, config, informed, saved, failures>>

Next ==
    \/ Start \/ Retry \/ Injected \/ Refused \/ Failed \/ Registered \/ StartFails \/ Reset
    \/ Rename \/ RenameTold \/ RenameFailed \/ Drop \/ Save \/ Restart

Spec == Init /\ [][Next]_headerVars

-----------------------------------------------------------------------------
\* A watcher that serves its room, with its flag up and nothing on the way, has told the
\* agent the name the room has now: a rename that fails is made good by the next message.
\* Excepted are the headers known to be lost (missed).
HeaderIsCurrent ==
    resident = "up" /\ injected /\ ~Injecting /\ ren = NoRename /\ ~missed => informed = name
=============================================================================
