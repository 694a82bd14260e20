----------------------------- MODULE RestSession -----------------------------
(* The token that all calls to Rocket.Chat's REST interface share               *)
(* (connectors/rocketchat/rest.py): it may expire at any time, the calls it is   *)
(* refused to log in once between them and are sent once more, and an upload is  *)
(* two calls.                                                                    *)
EXTENDS Naturals, Sequences, SequencesExt, FiniteSets

CONSTANTS Callers,
          MaxLapses,  \* bound of the model: expiries of the token
          OldHeaders  \* explored besides: a download's headers are older than the token
                      \* it compares

VARIABLES auth,     \* auth_token
          valid,    \* the server: the tokens it accepts
          issued,
          call,     \* what each caller is doing
          queued,   \* who waits for _relogin_lock; the first one holds it
          done,     \* the server: how often it has done what a caller asked for
          lapses,
          wasted    \* history: a token was replaced that had not been refused

restVars == <<auth, valid, issued, call, queued, done, lapses, wasted>>

NoCall == [op |-> "none", at |-> "idle", part |-> 1, token |-> 0, sent |-> 0, again |-> FALSE,
           since |-> 0]

TypeOK ==
    /\ auth \in 1 .. issued /\ valid \subseteq 1 .. issued /\ lapses \in 0 .. MaxLapses
    /\ \A c \in Callers :
          /\ call[c].op \in {"none", "call", "download", "upload"} /\ call[c].part \in 1 .. 2
          /\ call[c].at \in {"idle", "headers", "sent", "refused", "login", "ok", "denied",
                             "failed"}
          /\ call[c].at \in {"refused", "login"} <=> c \in Range(queued)

Init == /\ auth = 1 /\ valid = {1} /\ issued = 1 /\ call = [c \in Callers |-> NoCall]
        /\ queued = <<>> /\ done = [c \in Callers |-> 0] /\ lapses = 0 /\ wasted = FALSE

Parts(c) == IF call[c].op = "upload" THEN 2 ELSE 1

\* The headers are made when the request is.
Sent(c, k) == [k EXCEPT !.at = "sent", !.token = auth, !.sent = auth]
Release(c) == queued' = RemoveFirst(queued, c)

Begin(c) ==
    /\ call[c].at = "idle"
    /\ \E op \in {"call", "download", "upload"} :
          LET k == [call[c] EXCEPT !.op = op,
                                   !.since = lapses - (IF auth \in valid THEN 0 ELSE 1)] IN
          call' = [call EXCEPT ![c] = IF op = "download"
                                      THEN [k EXCEPT !.at = "headers", !.token = auth]
                                      ELSE Sent(c, k)]
    /\ UNCHANGED <<auth, valid, issued, queued, done, lapses, wasted>>

\* A download has its headers before its directory, and notes the token after it.
Download(c) ==
    /\ call[c].at = "headers" /\ (call[c].token = auth \/ OldHeaders)
    /\ call' = [call EXCEPT ![c].at = "sent", ![c].sent = auth]
    /\ UNCHANGED <<auth, valid, issued, queued, done, lapses, wasted>>

\* The server does it, and its answer may be lost.
Carried(c) ==
    /\ call[c].at = "sent" /\ call[c].token \in valid /\ done' = [done EXCEPT ![c] = @ + 1]
    /\ \/ call' = [call EXCEPT ![c].at = "failed"]
       \/ call' = [call EXCEPT ![c] =
              IF @.part < Parts(c)
              THEN Sent(c, [@ EXCEPT !.part = 2, !.again = FALSE,
                                     !.since = lapses - (IF auth \in valid THEN 0 ELSE 1)])
              ELSE [@ EXCEPT !.at = "ok"]]
    /\ UNCHANGED <<auth, valid, issued, queued, lapses, wasted>>

\* Mutant: whatever did not work is sent once more.
RetriesMutant(c) == TRUE

\* Only what was refused is sent once more: the server has done nothing then.
Retries(c) == call[c].token \notin valid

Refused(c) ==
    /\ call[c].at = "sent" /\ Retries(c) /\ ~call[c].again
    /\ call' = [call EXCEPT ![c].at = "refused"] /\ queued' = Append(queued, c)
    /\ done' = [done EXCEPT ![c] = IF call[c].token \in valid THEN @ + 1 ELSE @]
    /\ UNCHANGED <<auth, valid, issued, lapses, wasted>>

\* Refused again, which is an error; or something else is wrong, or the call is cancelled.
Fails(c) ==
    /\ \/ /\ call[c].at = "sent" /\ call[c].again /\ call[c].token \notin valid
          /\ call' = [call EXCEPT ![c].at = "denied"]
       \/ /\ call[c].at \in {"headers", "sent", "refused", "login"}
          /\ call' = [call EXCEPT ![c].at = "failed"]
    /\ Release(c)
    /\ UNCHANGED <<auth, valid, issued, done, lapses, wasted>>

\* Mutant: every refused call logs in.
StillRefusedMutant(c) == TRUE

\* Nobody has logged in since the refused request was sent.
StillRefused(c) == auth = call[c].sent

Recheck(c) ==
    /\ call[c].at = "refused" /\ Head(queued) = c
    /\ IF StillRefused(c)
       THEN call' = [call EXCEPT ![c].at = "login"] /\ UNCHANGED queued
       ELSE call' = [call EXCEPT ![c] = [Sent(c, @) EXCEPT !.again = TRUE]] /\ Release(c)
    /\ UNCHANGED <<auth, valid, issued, done, lapses, wasted>>

\* The request is sent again when the lock is released.
Login(c) ==
    /\ call[c].at = "login"
    /\ issued' = issued + 1 /\ auth' = issued + 1 /\ valid' = valid \cup {issued + 1}
    /\ wasted' = (wasted \/ auth \in valid)
    /\ call' = [call EXCEPT ![c] = [@ EXCEPT !.at = "sent", !.token = auth', !.sent = auth',
                                             !.again = TRUE]]
    /\ Release(c) /\ UNCHANGED <<done, lapses>>

Expire ==
    /\ lapses < MaxLapses /\ valid # {} /\ lapses' = lapses + 1 /\ valid' = {}
    /\ UNCHANGED <<auth, issued, call, queued, done, wasted>>

Next == Expire \/ \E c \in Callers : Begin(c) \/ Download(c) \/ Carried(c) \/ Refused(c)
                                     \/ Fails(c) \/ Recheck(c) \/ Login(c)

Spec == Init /\ [][Next]_restVars

-----------------------------------------------------------------------------
\* A token that works is never replaced; a call is refused for good only if the token
\* expired once more while it was under way; and the server does nothing twice, and all of
\* what is reported as done.
OneLogin ==
    /\ ~wasted
    /\ \A c \in Callers :
          /\ call[c].at = "denied" => lapses - call[c].since >= 2
          /\ done[c] <= call[c].part
          /\ call[c].at = "ok" => done[c] = Parts(c)
=============================================================================
