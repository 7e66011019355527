--------------------------- MODULE SyncCoordinator ---------------------------
(***************************************************************************)
(* The background worker of skriuw-sync (coordinator.rs) and the shells     *)
(* that signal it.  Signals only set flags under the control lock; the      *)
(* worker copies the flags, leaves the lock, runs a cycle and writes its    *)
(* result back, so anything signalled in between meets a stale copy.        *)
(***************************************************************************)
EXTENDS Naturals

CONSTANT MaxCalls      \* bound on the calls the shells make

ASSUME MaxCallsAssumption == MaxCalls \in Nat

VARIABLES
    shutdown, wake_requested, offline_notice, reset_requested, online,
    session_valid,     \* the fields of Control
    cancelled,         \* SyncCancellation: the permanent flag
    interrupt,         \* SyncCancellation: the flag a pause raises
    owed,              \* a signal has set its flag and not yet notified
    token,             \* how many credentials were installed, as their name
    resuming,          \* a resume has written its token, not the control
    pc, snap, deadline, status, outcome,      \* the worker
    expired,           \* credentials the service no longer accepts
    calls,             \* calls made so far
    unserved,          \* a commit no cycle has read yet
    signedIn, quiet, asked, hint              \* what the shells were promised

control == <<shutdown, wake_requested, offline_notice, reset_requested,
             online, session_valid, cancelled, interrupt, owed>>
session == <<token, resuming, expired>>
worker  == <<pc, snap, deadline, status, outcome>>
promises == <<signedIn, quiet, asked, hint>>
vars == <<control, session, worker, calls, unserved, promises>>

Outcomes == {"upToDate", "pending", "retrying", "blocked",
             "authenticationRequired"}
Statuses == Outcomes \cup {"connecting", "offline"}
Snapshots == [online : BOOLEAN, session_valid : BOOLEAN,
              offline_notice : BOOLEAN, reset_requested : BOOLEAN]

TypeOK ==
    /\ shutdown \in BOOLEAN /\ wake_requested \in BOOLEAN
    /\ offline_notice \in BOOLEAN /\ reset_requested \in BOOLEAN
    /\ online \in BOOLEAN /\ session_valid \in BOOLEAN
    /\ cancelled \in BOOLEAN /\ interrupt \in BOOLEAN /\ owed \in BOOLEAN
    /\ resuming \in BOOLEAN /\ unserved \in BOOLEAN
    /\ signedIn \in BOOLEAN /\ quiet \in BOOLEAN /\ asked \in BOOLEAN
    /\ pc \in {"check", "asleep", "taken", "ready", "cycle", "settle",
               "publish", "exited"}
    /\ snap \in Snapshots
    /\ deadline \in {"none", "set"}
    /\ status \in Statuses
    /\ outcome \in Statuses
    /\ token \in 0..MaxCalls
    /\ expired \subseteq 0..MaxCalls
    /\ calls \in 0..MaxCalls
    /\ hint \in {"none", "given", "shown"}

Init ==
    /\ shutdown = FALSE /\ wake_requested = TRUE
    /\ offline_notice = FALSE /\ reset_requested = FALSE
    /\ online = TRUE /\ session_valid = TRUE
    /\ cancelled = FALSE /\ interrupt = FALSE /\ owed = FALSE
    /\ token = 0 /\ resuming = FALSE /\ expired = {}
    /\ pc = "check" /\ deadline = "none" /\ status = "connecting"
    /\ outcome = "pending"
    /\ snap = [online |-> TRUE, session_valid |-> TRUE,
               offline_notice |-> FALSE, reset_requested |-> FALSE]
    /\ calls = 0 /\ unserved = FALSE
    /\ signedIn = TRUE /\ quiet = FALSE /\ asked = FALSE /\ hint = "none"

-----------------------------------------------------------------------------
(* The shells.  A call sets its flags in one critical section and notifies   *)
(* the worker after leaving it.                                              *)

Calls == calls < MaxCalls /\ calls' = calls + 1

\* A plausible slip: the flag is raised and the condvar is not notified
UpdateUnnotified ==
    /\ online' = TRUE
    /\ wake_requested' = TRUE
    /\ owed' = owed
    /\ hint' = "none"

\* `update`: every trigger asks for a cycle and takes back an offline hint
Update ==
    /\ online' = TRUE
    /\ wake_requested' = TRUE
    /\ owed' = TRUE
    /\ hint' = "none"

CommitLocally ==
    /\ Calls /\ Update
    /\ unserved' = TRUE
    /\ UNCHANGED <<shutdown, offline_notice, reset_requested, session_valid,
                   cancelled, interrupt, session, worker, signedIn, quiet,
                   asked>>

RequestRefresh ==
    /\ Calls /\ Update
    /\ reset_requested' = TRUE
    /\ asked' = TRUE
    /\ UNCHANGED <<shutdown, offline_notice, session_valid, cancelled,
                   interrupt, session, worker, unserved, signedIn, quiet>>

SetOffline ==
    /\ Calls
    /\ online' = FALSE
    /\ offline_notice' = TRUE
    /\ wake_requested' = TRUE
    /\ interrupt' = TRUE
    /\ owed' = TRUE
    /\ hint' = IF hint = "shown" THEN "shown" ELSE "given"
    /\ asked' = FALSE
    /\ UNCHANGED <<shutdown, reset_requested, session_valid, cancelled,
                   session, worker, unserved, signedIn, quiet>>

PauseForLogout ==
    /\ Calls
    /\ session_valid' = FALSE
    /\ wake_requested' = TRUE
    /\ interrupt' = TRUE
    /\ owed' = TRUE
    /\ signedIn' = FALSE
    /\ UNCHANGED <<shutdown, offline_notice, reset_requested, online,
                   cancelled, session, worker, unserved, quiet, asked, hint>>

\* `resume_with_session` writes the shared token before it takes the lock
InstallToken ==
    /\ Calls /\ ~resuming
    /\ token' = token + 1
    /\ resuming' = TRUE
    /\ UNCHANGED <<control, expired, worker, unserved, promises>>

ResumeWithSession ==
    /\ resuming
    /\ resuming' = FALSE
    /\ Update
    /\ session_valid' = TRUE
    /\ reset_requested' = TRUE
    /\ signedIn' = TRUE
    /\ quiet' = FALSE
    /\ UNCHANGED <<shutdown, offline_notice, cancelled, interrupt, token,
                   expired, worker, calls, unserved, asked>>

\* A plausible slip: a worker waiting without a deadline is left asleep
ShutdownUnnotified ==
    /\ ~shutdown
    /\ shutdown' = TRUE
    /\ UNCHANGED <<wake_requested, offline_notice, reset_requested, online,
                   session_valid, cancelled, interrupt, owed, session, worker,
                   calls, unserved, promises>>

Shutdown ==
    /\ ~shutdown
    /\ shutdown' = TRUE
    /\ owed' = TRUE
    /\ UNCHANGED <<wake_requested, offline_notice, reset_requested, online,
                   session_valid, cancelled, interrupt, session, worker,
                   calls, unserved, promises>>

\* After the lock: a shutdown cancels for good, then the condvar is notified
NotifyAll ==
    /\ owed
    /\ owed' = FALSE
    /\ cancelled' = shutdown
    /\ pc' = IF pc = "asleep" THEN "check" ELSE pc
    /\ UNCHANGED <<shutdown, wake_requested, offline_notice, reset_requested,
                   online, session_valid, interrupt, session, snap, deadline,
                   status, outcome, calls, unserved, promises>>

\* The service stops accepting the credential in use
ExpireToken ==
    /\ token \notin expired
    /\ expired' = expired \cup {token}
    /\ Calls
    /\ UNCHANGED <<control, token, resuming, worker, unserved, promises>>

-----------------------------------------------------------------------------
(* The worker: `run`.                                                        *)

Exit ==
    /\ pc = "check" /\ shutdown
    /\ pc' = "exited"
    /\ UNCHANGED <<control, session, snap, deadline, status, outcome, calls,
                   unserved, promises>>

\* Nothing to do: wait on the condvar, up to the deadline if there is one
Sleep ==
    /\ pc = "check" /\ ~shutdown /\ ~wake_requested
    /\ pc' = "asleep"
    /\ UNCHANGED <<control, session, snap, deadline, status, outcome, calls,
                   unserved, promises>>

TakeFlags ==
    /\ offline_notice' = FALSE
    /\ reset_requested' = FALSE
    /\ snap' = [online |-> online, session_valid |-> session_valid,
                offline_notice |-> offline_notice,
                reset_requested |-> reset_requested]
    /\ pc' = "taken"
    /\ UNCHANGED <<shutdown, online, session_valid, cancelled, interrupt,
                   owed, session, deadline, status, outcome, calls, unserved,
                   promises>>

Woken ==
    /\ pc = "check" /\ ~shutdown /\ wake_requested
    /\ wake_requested' = FALSE
    /\ TakeFlags

\* The deadline passed; it counts only while the session is valid
DeadlinePasses ==
    /\ pc \in {"check", "asleep"} /\ ~shutdown
    /\ deadline = "set" /\ session_valid /\ ~wake_requested
    /\ UNCHANGED wake_requested
    /\ TakeFlags

ShowPaused ==
    /\ pc = "taken" /\ ~snap.session_valid
    /\ status' = "authenticationRequired"
    /\ deadline' = "none"
    /\ pc' = "check"
    /\ quiet' = ~session_valid
    /\ UNCHANGED <<control, session, snap, outcome, calls, unserved,
                   signedIn, asked, hint>>

\* A plausible slip: offline waits for a wake and does not probe
ShowOfflineForGood ==
    /\ pc = "taken" /\ snap.session_valid /\ snap.offline_notice
    /\ status' = "offline"
    /\ deadline' = "none"
    /\ pc' = "check"
    /\ hint' = IF hint = "given" THEN "shown" ELSE hint
    /\ UNCHANGED <<control, session, snap, outcome, calls, unserved,
                   signedIn, quiet, asked>>

ShowOffline ==
    /\ pc = "taken" /\ snap.session_valid /\ snap.offline_notice
    /\ status' = "offline"
    /\ deadline' = "set"
    /\ pc' = "check"
    /\ hint' = IF hint = "given" THEN "shown" ELSE hint
    /\ UNCHANGED <<control, session, snap, outcome, calls, unserved,
                   signedIn, quiet, asked>>

\* `reset_sync_retry_times` and the backoff reset
Proceed ==
    /\ pc = "taken" /\ snap.session_valid /\ ~snap.offline_notice
    /\ asked' = (asked /\ ~snap.reset_requested)
    /\ pc' = "ready"
    /\ UNCHANGED <<control, session, snap, deadline, status, outcome, calls,
                   unserved, signedIn, quiet, hint>>

ClearInterrupt ==
    /\ pc = "ready"
    /\ interrupt' = FALSE
    /\ pc' = "cycle"
    /\ UNCHANGED <<shutdown, wake_requested, offline_notice, reset_requested,
                   online, session_valid, cancelled, owed, session, snap,
                   deadline, status, outcome, calls, unserved, promises>>

\* `run_sync_cycle` and the publication after it, as what they report.  A
\* raised flag ends the cycle early; a cycle past its last check misses it.
CycleCancelled ==
    /\ interrupt \/ cancelled
    /\ outcome' = "pending"
    /\ UNCHANGED <<unserved, hint>>

CycleAnswered ==
    /\ outcome' \in IF token \in expired
                    THEN {"authenticationRequired", "retrying"}
                    ELSE Outcomes \ {"authenticationRequired"}
    /\ unserved' = FALSE
    /\ hint' = IF hint = "shown" /\ outcome' # "retrying" THEN "none" ELSE hint

RunCycle ==
    /\ pc = "cycle"
    /\ CycleCancelled \/ CycleAnswered
    /\ pc' = "settle"
    /\ UNCHANGED <<control, session, snap, deadline, status, calls, signedIn,
                   quiet, asked>>

\* What the coordinator takes for granted after a cycle: any answer but a
\* retry means the network is there
OnlineAfter == IF outcome = "retrying" THEN snap.online ELSE TRUE

\* A plausible slip: the dead session is shown and not remembered
SessionKept == UNCHANGED session_valid

SessionAfter ==
    session_valid' = (session_valid /\ outcome # "authenticationRequired")

Settle ==
    /\ pc = "settle"
    /\ online' = OnlineAfter
    /\ SessionAfter
    /\ outcome' = IF outcome = "retrying" /\ ~OnlineAfter THEN "offline"
                  ELSE outcome
    /\ quiet' = (quiet \/ outcome = "authenticationRequired")
    /\ pc' = "publish"
    /\ UNCHANGED <<shutdown, wake_requested, offline_notice, reset_requested,
                   cancelled, interrupt, owed, session, snap, deadline,
                   status, calls, unserved, signedIn, asked, hint>>

Publish ==
    /\ pc = "publish"
    /\ status' = outcome
    /\ deadline' = IF outcome = "authenticationRequired" THEN "none"
                   ELSE "set"
    /\ pc' = "check"
    /\ UNCHANGED <<control, session, snap, outcome, calls, unserved, promises>>

-----------------------------------------------------------------------------
Signal ==
    \/ CommitLocally \/ RequestRefresh \/ SetOffline \/ PauseForLogout
    \/ InstallToken \/ ResumeWithSession \/ Shutdown \/ NotifyAll
    \/ ExpireToken

Work ==
    \/ Exit \/ Sleep \/ Woken \/ DeadlinePasses \/ ShowPaused \/ ShowOffline
    \/ Proceed \/ ClearInterrupt \/ RunCycle \/ Settle \/ Publish

Next == Signal \/ Work

\* The thread runs, the timed wait returns, a request is bounded by its
\* timeout, and a call that has taken the lock reaches its notification.
Fairness == WF_vars(Work) /\ WF_vars(NotifyAll) /\ WF_vars(ResumeWithSession)

Spec == Init /\ [][Next]_vars /\ Fairness

-----------------------------------------------------------------------------
(* No wake-up is lost: a worker that sleeps over a raised flag is about to   *)
(* be notified, and while a session lasts it never sleeps without a deadline *)
(* on a commit that no cycle has read (coordinator.rs:339-375).              *)
NoLostWake ==
    pc = "asleep" =>
        /\ wake_requested \/ shutdown => owed
        /\ unserved /\ session_valid /\ ~wake_requested => deadline = "set"

(* Once a cycle has found the credential dead or the pause has been shown,   *)
(* no further cycle starts before a resume (coordinator_driver.rs:737, "no   *)
(* cycle runs against a dead session").                                      *)
NoCycleWithoutSession == quiet => pc \notin {"ready", "cycle"}

(* A commit is read by a cycle, unless the session ends or the coordinator   *)
(* shuts down first, whatever offline notices and cancelled cycles come      *)
(* between; a pause is shown, whatever the worker was doing when it came.    *)
SignalsServed ==
    /\ unserved ~> (~unserved \/ ~session_valid \/ shutdown)
    /\ ~session_valid ~> (status = "authenticationRequired" \/ session_valid
                          \/ shutdown)

(* A shutdown ends the worker, so the call that joins it returns.            *)
ShutdownStops == shutdown ~> pc = "exited"

(* "session refresh resumes the same sequence"                               *)
(* (docs/specs/desktop-sync-coordinator.md:143): after a resume with a       *)
(* credential the service accepts, and no later pause, a settled worker has  *)
(* a valid session.  A cycle that fails on the old credential while the      *)
(* resume runs overwrites it (coordinator.rs:446-450).                          *)
ResumeHolds ==
    signedIn /\ ~resuming /\ token \notin expired /\ pc \in {"check", "asleep"}
        => session_valid

(* "Logout pauses synchronization: the in-flight network call is             *)
(* interrupted" (coordinator.rs:233): a cycle that runs in a paused session  *)
(* has its interrupt raised.  `clear_interrupt` (coordinator.rs:405) comes   *)
(* after the snapshot and takes back a pause made between the two.           *)
PauseInterrupts == pc = "cycle" /\ ~session_valid => interrupt

(* "so a user-initiated retry is never deferred by a delay recorded before   *)
(* the user acted" (docs/specs/desktop-sync-coordinator.md:63): a worker     *)
(* with a session and nothing left to take has cleared the retry times that  *)
(* a refresh asked for, no offline notice having come after it.  A notice    *)
(* from before the refresh is not withdrawn by it: the worker shows offline  *)
(* and drops the request (coordinator.rs:395-399).                           *)
RefreshHolds ==
    asked /\ session_valid /\ ~wake_requested
        => pc \notin {"check", "asleep"}

(* "a failed probe keeps the offline projection instead of retrying"         *)
(* (coordinator_driver.rs:793): once the offline state was shown, and until  *)
(* a wake or an answer from the service, the status never falls back to      *)
(* retrying.  A cycle the notice itself cancelled ends as pending and sets   *)
(* the flag back (coordinator.rs:438-447).                                   *)
OfflineHolds == hint = "shown" => status # "retrying"
=============================================================================
