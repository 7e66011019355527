---------------------------- MODULE BrowserSync ----------------------------
(***************************************************************************)
(* The sync driver of a browser tab (platform/browser/sync.ts) with the    *)
(* storage worker it drives (worker-client.ts, storage-worker.ts) and the  *)
(* session that worker keeps (skriuw-sqlite-wasm sync.rs).                 *)
(*                                                                         *)
(* The worker serves requests one at a time, in the order they were sent.  *)
(* Serving and the reply's handler are one step: what the page does in     *)
(* between it could as well do before the request is served.  A worker     *)
(* that died refuses what was sent and what will be; storage.ts keeps that *)
(* client until the page is loaded again.                                  *)
(*                                                                         *)
(* Three callers establish a session, each at most once at a time: the     *)
(* start of the page (resume), a wake after a lost session (reestablish)   *)
(* and the user (connect).                                                 *)
(***************************************************************************)
EXTENDS Naturals, Sequences

CONSTANTS Token,       \* credentials the service issues, one per sign-in
          NoToken,
          MaxFaults    \* failed or cut short requests, revocations, dead
                       \* workers and reloads

ASSUME TokenAssumption == NoToken \notin Token
ASSUME FaultsAssumption == MaxFaults \in Nat

VARIABLES
    active,       \* the driver runs
    sessionLost,
    timer,        \* the scheduled cycle: its kind, or "none"
    cycling,      \* cycleInFlight
    wakeAgain,    \* wakeRequested
    stage,        \* per caller: what its attempt waits for
    bearer,       \* per caller: the credential of its attempt
    mail,         \* requests the worker has not answered
    alive,        \* the worker
    session,      \* credential of the worker's session
    linked,       \* the durable connection of the workspace
    work,         \* commits the service does not have
    stored,       \* the persisted credential
    standing,     \* per credential: what the service thinks of it
    leaving,      \* a sign-out waits for the pause
    told,         \* the reason sync does not run was published or returned
    faults

flagVars == <<active, sessionLost, timer>>
cycleVars == <<cycling, wakeAgain>>
attemptVars == <<stage, bearer>>
workerVars == <<alive, session, linked, work>>
cloudVars == <<stored, standing, leaving, told>>
vars == <<flagVars, cycleVars, attemptVars, mail, workerVars, cloudVars, faults>>

Starter == {"page", "wake", "user"}
Timer == {"none", "immediate", "retry", "poll"}
Stage == {"idle", "resuming", "planning", "provisioning", "connecting", "reporting"}
Kind == {"connection", "connect", "status", "cycle", "disconnect", "refresh", "apply"}
Standing == {"unissued", "valid", "ended"}

Request(kind, from) == [kind |-> kind, from |-> from]
Asks(kind) == \E i \in DOMAIN mail : mail[i].kind = kind
Idle(k) == stage[k] = "idle"
Fault == faults < MaxFaults /\ faults' = faults + 1

\* resume() at the start of a page, with the credential found in storage
FirstStage(token) ==
    [k \in Starter |-> IF k = "page" /\ token # NoToken THEN "resuming" ELSE "idle"]
FirstBearer(token) == [k \in Starter |-> IF k = "page" THEN token ELSE NoToken]
FirstMail(token) == IF token = NoToken THEN <<>> ELSE <<Request("connection", "page")>>

Init ==
    /\ active = FALSE /\ sessionLost = FALSE /\ timer = "none"
    /\ cycling = FALSE /\ wakeAgain = FALSE
    /\ alive = TRUE /\ session = NoToken
    /\ stored \in Token \cup {NoToken}
    /\ linked \in BOOLEAN
    /\ work = FALSE
    /\ standing \in [Token -> {"unissued", "valid"}]
    /\ \A t \in Token : standing[t] = "valid" <=> t = stored
    /\ stage = FirstStage(stored) /\ bearer = FirstBearer(stored)
    /\ mail = FirstMail(stored)
    /\ leaving = FALSE /\ told = FALSE
    /\ faults = 0
-----------------------------------------------------------------------------
(* Establishing a session *)

Reach(k, s) == stage' = [stage EXCEPT ![k] = s]

\* schedule(): only a running driver has a timer
Scheduled(kind) == IF active THEN kind ELSE timer

\* loseSession, pause
LoseSession == active' = FALSE /\ timer' = "none"

\* Variant: resumeAttempted stands, and the attempt only asks for the status.
ReestablishOnce(rest) ==
    /\ sessionLost /\ ~active /\ Idle("wake")
    /\ Reach("wake", "reporting")
    /\ mail' = Append(rest, Request("status", "wake"))
    /\ UNCHANGED bearer

\* reestablish(): resume() once more, with the credential found in storage;
\* without one it only asks for the status.
Lost == sessionLost /\ ~active /\ Idle("wake")
Reestablish(rest) ==
    /\ Lost
    /\ bearer' = [bearer EXCEPT !["wake"] = stored]
    /\ IF stored = NoToken
       THEN Reach("wake", "reporting") /\ mail' = Append(rest, Request("status", "wake"))
       ELSE Reach("wake", "resuming") /\ mail' = Append(rest, Request("connection", "wake"))

\* wake(): a running driver schedules a cycle at once, a lost session is
\* established again
Woken(rest) ==
    \/ Reestablish(rest) /\ UNCHANGED timer
    \/ /\ ~Lost
       /\ timer' = Scheduled("immediate")
       /\ mail' = rest
       /\ UNCHANGED attemptVars

\* Variant: a failed reopening reaches the console only.
GiveUpQuietly(k, rest, why) ==
    /\ IF k = "wake"
       THEN Reach(k, "reporting") /\ mail' = Append(rest, Request("status", k))
       ELSE Reach(k, "idle") /\ mail' = rest
    /\ stored' = IF why = "rejected" THEN NoToken ELSE stored
    /\ UNCHANGED <<bearer, standing, leaving, told>>

\* The attempt of k is over: connect() throws to the user's caller, resume()
\* publishes the reason and asks for the status.
GiveUp(k, rest, why) ==
    /\ IF k = "wake"
       THEN Reach(k, "reporting") /\ mail' = Append(rest, Request("status", k))
       ELSE Reach(k, "idle") /\ mail' = rest
    /\ told' = (told \/ why = "failed")
    /\ stored' = IF why = "rejected" THEN NoToken ELSE stored
    /\ UNCHANGED <<bearer, standing, leaving>>

\* The request at the head of the mail is answered.
Answered(kind) == mail # <<>> /\ Head(mail).kind = kind
Served(kind) == Answered(kind) /\ alive
From == Head(mail).from

ServeConnection ==
    /\ Served("connection")
    /\ IF stage[From] = "planning"
       THEN /\ Reach(From, "provisioning")
            /\ mail' = Tail(mail)
            /\ UNCHANGED <<bearer, cloudVars>>
       ELSE IF linked
       THEN /\ Reach(From, "planning")
            /\ mail' = Append(Tail(mail), Request("connection", From))
            /\ UNCHANGED <<bearer, cloudVars>>
       ELSE GiveUp(From, Tail(mail), "unlinked")
    /\ UNCHANGED <<flagVars, cycleVars, workerVars, faults>>

\* The service answers the provisioning of attempt k.
Provisioned(k) ==
    /\ stage[k] = "provisioning"
    /\ standing[bearer[k]] = "valid"
    /\ Reach(k, "connecting")
    /\ mail' = Append(mail, Request("connect", k))
    /\ UNCHANGED <<flagVars, cycleVars, bearer, workerVars, cloudVars, faults>>

SessionRejected(k) ==
    /\ stage[k] = "provisioning"
    /\ standing[bearer[k]] # "valid"
    /\ GiveUp(k, mail, "rejected")
    /\ UNCHANGED <<flagVars, cycleVars, workerVars, faults>>

ProvisioningFails(k) ==
    /\ stage[k] = "provisioning"
    /\ Fault
    /\ GiveUp(k, mail, "failed")
    /\ UNCHANGED <<flagVars, cycleVars, workerVars>>

\* Variant: the first cycle waits for a wake.
ServeConnectOnly ==
    /\ Served("connect")
    /\ session' = bearer[From]
    /\ linked' = TRUE
    /\ active' = TRUE /\ sessionLost' = FALSE
    /\ told' = FALSE
    /\ Reach(From, "idle")
    /\ mail' = Tail(mail)
    /\ UNCHANGED <<timer, cycleVars, bearer, alive, work, stored, standing, leaving, faults>>

ServeConnect ==
    /\ Served("connect")
    /\ session' = bearer[From]
    /\ linked' = TRUE
    /\ active' = TRUE /\ sessionLost' = FALSE /\ timer' = "immediate"
    /\ told' = FALSE
    /\ Reach(From, "idle")
    /\ mail' = Tail(mail)
    /\ UNCHANGED <<cycleVars, bearer, alive, work, stored, standing, leaving, faults>>

\* The worker is dead, or storage fails; connecting may have dropped the
\* session before.
RequestFails ==
    /\ \/ Answered("connection") /\ UNCHANGED session
       \/ Answered("connect") /\ session' \in {session, NoToken}
    /\ IF alive THEN Fault ELSE UNCHANGED faults
    /\ GiveUp(From, Tail(mail), "failed")
    /\ UNCHANGED <<flagVars, cycleVars, alive, linked, work>>

ServeStatus ==
    /\ Answered("status")
    /\ Reach(From, "idle")
    /\ mail' = Tail(mail)
    /\ UNCHANGED <<flagVars, cycleVars, bearer, workerVars, cloudVars, faults>>
-----------------------------------------------------------------------------
(* Cycles *)

TimerFires ==
    /\ timer # "none"
    /\ timer' = "none"
    /\ IF cycling
       THEN wakeAgain' = TRUE /\ UNCHANGED <<cycling, mail>>
       ELSE /\ cycling' = TRUE
            /\ mail' = Append(mail, Request("cycle", "page"))
            /\ UNCHANGED wakeAgain
    /\ UNCHANGED <<active, sessionLost, attemptVars, workerVars, cloudVars, faults>>

\* runCycle's finally; a wake during the cycle outdoes what the outcome scheduled
CycleEnds(kind) ==
    /\ timer' = Scheduled(IF wakeAgain THEN "immediate" ELSE kind)
    /\ cycling' = FALSE /\ wakeAgain' = FALSE
    /\ mail' = Tail(mail)
    /\ UNCHANGED <<active, sessionLost, attemptVars>>

Cycles == Served("cycle") /\ session # NoToken

\* upToDate
CycleSyncs ==
    /\ Cycles /\ standing[session] = "valid"
    /\ CycleEnds("poll")
    /\ work' = FALSE
    /\ UNCHANGED <<alive, session, linked, cloudVars, faults>>

\* The end of a cycle that ends the session with it: schedule() does nothing.
DriverStops ==
    /\ LoseSession
    /\ cycling' = FALSE /\ wakeAgain' = FALSE
    /\ mail' = Tail(mail)
    /\ UNCHANGED attemptVars

\* Variant: every failure counts as a lost session.
CycleGivesUp(kind) ==
    /\ Cycles
    /\ Fault
    /\ DriverStops
    /\ sessionLost' = TRUE
    /\ UNCHANGED <<workerVars, cloudVars>>

\* "immediate": pending or rehydrating; "retry": no network, or storage failed;
\* "poll": blocked without a retry time
CycleFallsShort(kind) ==
    /\ Cycles
    /\ Fault
    /\ CycleEnds(kind)
    /\ UNCHANGED <<workerVars, cloudVars>>

\* authenticationRequired
CycleDenied ==
    /\ Cycles /\ standing[session] # "valid"
    /\ DriverStops
    /\ stored' = NoToken
    /\ UNCHANGED <<sessionLost, workerVars, standing, leaving, told, faults>>

\* "no active session", or the worker died: terminal
CycleLosesSession ==
    /\ Answered("cycle") /\ session = NoToken
    /\ DriverStops
    /\ sessionLost' = TRUE
    /\ UNCHANGED <<workerVars, cloudVars, faults>>
-----------------------------------------------------------------------------
(* What reaches the driver from outside *)

\* window focus, the network is back, the push channel
Wake ==
    /\ active \/ Lost
    /\ Woken(mail)
    /\ UNCHANGED <<active, sessionLost, cycleVars, workerVars, cloudVars, faults>>

\* setOnline(false)
OfflineNotice ==
    /\ active /\ ~cycling
    /\ timer' = "poll"
    /\ UNCHANGED <<active, sessionLost, cycleVars, attemptVars, mail, workerVars,
                   cloudVars, faults>>

\* apply_workspace_operations; the interrupt sent ahead of it cuts a cycle
\* short, as CycleFallsShort may
Commit ==
    /\ alive /\ ~Asks("apply")
    /\ mail' = Append(mail, Request("apply", "page"))
    /\ UNCHANGED <<flagVars, cycleVars, attemptVars, workerVars, cloudVars, faults>>

\* The commit is durable, and notifyLocalCommit wakes the driver.
ServeApply ==
    /\ Served("apply")
    /\ work' = TRUE
    /\ Woken(Tail(mail))
    /\ UNCHANGED <<active, sessionLost, cycleVars, alive, session, linked, cloudVars, faults>>

ApplyRefused ==
    /\ Answered("apply") /\ ~alive
    /\ mail' = Tail(mail)
    /\ UNCHANGED <<flagVars, cycleVars, attemptVars, workerVars, cloudVars, faults>>

\* refresh() and retry() of a running driver; of another one they are a Wake
Refresh ==
    /\ active /\ ~Asks("refresh")
    /\ mail' = Append(mail, Request("refresh", "page"))
    /\ UNCHANGED <<flagVars, cycleVars, attemptVars, workerVars, cloudVars, faults>>

ServeRefresh ==
    /\ Answered("refresh")
    /\ timer' = Scheduled("immediate")
    /\ mail' = Tail(mail)
    /\ UNCHANGED <<active, sessionLost, cycleVars, attemptVars, workerVars, cloudVars, faults>>

\* The user signs in: the credential is persisted, and sync connects.
SignIn(t) ==
    /\ standing[t] = "unissued"
    /\ ~active /\ ~leaving /\ Idle("user")
    /\ standing' = [standing EXCEPT ![t] = "valid"]
    /\ stored' = t
    /\ bearer' = [bearer EXCEPT !["user"] = t]
    /\ Reach("user", "planning")
    /\ mail' = Append(mail, Request("connection", "user"))
    /\ told' = FALSE
    /\ UNCHANGED <<flagVars, cycleVars, workerVars, leaving, faults>>

\* signOutSafely: pause(), then the session ends at the service and here,
\* whether the pause succeeded or not
Pause ==
    /\ stored # NoToken /\ ~leaving
    /\ LoseSession
    /\ sessionLost' = FALSE
    /\ mail' = Append(mail, Request("disconnect", "user"))
    /\ leaving' = TRUE
    /\ UNCHANGED <<cycleVars, attemptVars, workerVars, stored, standing, told, faults>>

SignOut ==
    /\ Answered("disconnect")
    /\ session' = NoToken
    /\ mail' = Tail(mail)
    /\ leaving' = FALSE
    /\ stored' = NoToken
    /\ standing' = [t \in Token |-> IF t = stored THEN "ended" ELSE standing[t]]
    /\ UNCHANGED <<flagVars, cycleVars, attemptVars, alive, linked, work, told, faults>>
-----------------------------------------------------------------------------
(* What goes wrong *)

\* The service ends a session on its own.
Revoke(t) ==
    /\ standing[t] = "valid"
    /\ Fault
    /\ standing' = [standing EXCEPT ![t] = "ended"]
    /\ UNCHANGED <<flagVars, cycleVars, attemptVars, mail, workerVars, stored, leaving, told>>

\* The worker crashes or misses a deadline; what it was asked to connect or
\* apply may be durable all the same.
WorkerDies ==
    /\ alive
    /\ Fault
    /\ alive' = FALSE /\ session' = NoToken
    /\ linked' \in {linked, linked \/ Answered("connect")}
    /\ work' \in {work, work \/ Answered("apply")}
    /\ UNCHANGED <<flagVars, cycleVars, attemptVars, mail, cloudVars>>

\* The page is loaded again, with a new worker.
Reload ==
    /\ Fault
    /\ active' = FALSE /\ sessionLost' = FALSE /\ timer' = "none"
    /\ cycling' = FALSE /\ wakeAgain' = FALSE
    /\ alive' = TRUE /\ session' = NoToken
    /\ stage' = FirstStage(stored) /\ bearer' = FirstBearer(stored)
    /\ mail' = FirstMail(stored)
    /\ leaving' = FALSE /\ told' = FALSE
    /\ UNCHANGED <<linked, work, stored, standing>>
-----------------------------------------------------------------------------
Worker ==
    \/ ServeConnection \/ ServeConnect \/ RequestFails \/ ServeStatus
    \/ CycleSyncs \/ CycleDenied \/ CycleLosesSession
    \/ \E kind \in {"immediate", "retry", "poll"} : CycleFallsShort(kind)
    \/ ServeApply \/ ApplyRefused \/ ServeRefresh \/ SignOut

Service ==
    \E k \in Starter : Provisioned(k) \/ SessionRejected(k) \/ ProvisioningFails(k)

Next ==
    \/ TimerFires \/ Worker \/ Service
    \/ Wake \/ OfflineNotice \/ Commit \/ Refresh \/ Pause
    \/ \E t \in Token : SignIn(t) \/ Revoke(t)
    \/ WorkerDies \/ Reload

Spec == Init /\ [][Next]_vars

\* Timers fire, the worker and the service answer, and a user who works on
\* wakes the driver now and then.
FairSpec ==
    /\ Spec
    /\ WF_vars(TimerFires) /\ WF_vars(Worker) /\ WF_vars(Service) /\ WF_vars(Wake)
-----------------------------------------------------------------------------
TypeOK ==
    /\ active \in BOOLEAN /\ sessionLost \in BOOLEAN /\ timer \in Timer
    /\ cycling \in BOOLEAN /\ wakeAgain \in BOOLEAN
    /\ stage \in [Starter -> Stage]
    /\ bearer \in [Starter -> Token \cup {NoToken}]
    /\ mail \in Seq([kind : Kind, from : Starter])
    /\ alive \in BOOLEAN /\ session \in Token \cup {NoToken}
    /\ linked \in BOOLEAN /\ work \in BOOLEAN
    /\ stored \in Token \cup {NoToken}
    /\ standing \in [Token -> Standing]
    /\ leaving \in BOOLEAN /\ told \in BOOLEAN
    /\ faults \in 0 .. MaxFaults

\* "Without ever silently stopping": a driver that runs has a cycle ahead of
\* it, scheduled or under way, and a wake noted during a cycle is not lost.
RunningDriverCycles == active => timer # "none" \/ cycling

\* The worker reports the last status of a session it holds.  A driver that
\* does not run therefore leaves no usable session behind, except for the
\* time until the worker has served the disconnect.
StoppedIsShown ==
    ~active /\ session # NoToken => Asks("disconnect") \/ standing[session] # "valid"

Undertaken == \E k \in Starter : ~Idle(k)

\* A linked workspace with a persisted credential whose driver does not run is
\* about to be connected, waits for a wake, or its user was told why not.
RetriedOrTold ==
    linked /\ stored # NoToken /\ ~active
        => Undertaken \/ leaving \/ sessionLost \/ told

\* "Transient failures keep the session for the next wake": a persisted
\* credential of a linked workspace is used again at the latest by a wake.
KeptForNextWake ==
    linked /\ stored # NoToken /\ ~active => Undertaken \/ leaving \/ sessionLost

\* A wake brings about a cycle at once: no outcome of the cycle that runs
\* puts off one that is due.
WakeKept ==
    [][timer = "immediate" /\ Answered("cycle") /\ ~Asks("disconnect")
         => timer' # "poll"]_vars

\* "A rejected credential clears the persisted session": no other one does.
OnlyRejectedIsDiscarded ==
    [][stored # NoToken /\ stored' = NoToken => leaving \/ standing[stored] # "valid"]_vars

\* Every commit reaches the service, unless the workspace is not linked, the
\* user has no session or the worker is dead, or the one attempt a page makes
\* to resume has failed and said so.  A session lost later is not given up.
EveryCommitSyncs ==
    work ~> \/ ~work \/ ~linked \/ stored = NoToken \/ ~alive
            \/ told /\ ~sessionLost
=============================================================================
