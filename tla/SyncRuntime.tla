----------------------------- MODULE SyncRuntime -----------------------------
(***************************************************************************)
(* The native sync runtime (skriuw-sync runtime.rs): which thread may start *)
(* the background worker of a workspace database, which may stop it, and    *)
(* how a restore or an import keeps both away from the database it          *)
(* replaces.  The worker itself is SyncCoordinator; here it is alive or not.*)
(***************************************************************************)
EXTENDS Naturals, FiniteSets

CONSTANTS
    Connector,     \* threads that call connect (startup resume, the shell)
    Pauser,        \* threads that call pause
    Maintainer,    \* threads that restore or import
    Reader,        \* threads that call with_workspace
    Session,       \* credentials a connect may carry
    MaxCalls,      \* bound on the calls made
    None           \* no worker, no thread

Thread == Connector \cup Pauser \cup Maintainer \cup Reader
Worker == 1..MaxCalls

ASSUME RuntimeAssumption == MaxCalls \in Nat /\ None \notin Thread \cup Nat
\* A thread makes one kind of call.
ASSUME ThreadAssumption ==
    /\ IsFiniteSet(Maintainer) /\ Session # {}
    /\ Connector \cap (Pauser \cup Maintainer \cup Reader) = {}
    /\ Pauser \cap (Maintainer \cup Reader) = {} /\ Maintainer \cap Reader = {}

VARIABLES
    pc, want, held, seen,      \* per thread: place, credential, taken worker,
                               \* epoch a connect has read
    connect_gate,              \* Mutex: the connect inside
    readers,                   \* RwLock: threads with a read guard
    maintenance,               \* the number the lock guards
    active, stop_epoch,        \* the running coordinator and the stops so far
    alive, cancelled, dead,    \* workers running, told to stop, and those
                               \* whose session ended
    started, session,          \* workers started so far and their credential
    calls,
    overtaken                  \* connects a pause passed, and how early

locks   == <<connect_gate, readers, maintenance>>
workers == <<alive, cancelled, dead, started, session>>
vars    == <<pc, want, held, seen, locks, active, stop_epoch, workers, calls,
             overtaken>>

TypeOK ==
    /\ pc \in [Thread -> {"idle", "gate", "entered", "guarded", "take",
                          "stopping", "joining", "stopped", "linking",
                          "locking", "maintaining", "reading"}]
    /\ want \in [Connector -> Session]
    /\ held \in [Thread -> Worker \cup {None}]
    /\ seen \in [Connector -> Nat]
    /\ connect_gate \in Connector \cup {None}
    /\ readers \subseteq Connector \cup Reader
    /\ maintenance \in 0..Cardinality(Maintainer)
    /\ active \in Worker \cup {None}
    /\ stop_epoch \in Nat
    /\ alive \subseteq 1..started
    /\ cancelled \subseteq 1..started
    /\ dead \subseteq 1..started
    /\ started \in 0..MaxCalls
    /\ session \in [Worker -> Session]
    /\ calls \in 0..MaxCalls
    /\ overtaken \in [Connector -> {"no", "early", "late"}]

Init ==
    /\ pc = [t \in Thread |-> "idle"]
    /\ want = [c \in Connector |-> CHOOSE s \in Session : TRUE]
    /\ held = [t \in Thread |-> None]
    /\ seen = [c \in Connector |-> 0]
    /\ connect_gate = None /\ readers = {} /\ maintenance = 0
    /\ active = None /\ stop_epoch = 0
    /\ alive = {} /\ cancelled = {} /\ dead = {} /\ started = 0
    /\ session = [w \in Worker |-> CHOOSE s \in Session : TRUE]
    /\ calls = 0
    /\ overtaken = [c \in Connector |-> "no"]

Goto(t, place) == pc' = [pc EXCEPT ![t] = place]
Call == calls < MaxCalls /\ calls' = calls + 1

-----------------------------------------------------------------------------
(* take_coordinator and stop_coordinator, by whoever calls them              *)

\* A pause passes every connect that is past its reuse check
Overtake(t) ==
    overtaken' =
        IF t \notin Pauser THEN overtaken
        ELSE [c \in Connector |->
                IF pc[c] = "linking" THEN "late"
                ELSE IF pc[c] \in {"stopping", "joining", "stopped"}
                     /\ overtaken[c] = "no" THEN "early"
                ELSE overtaken[c]]

\* Under the lock on `active`: the epoch moves on and the coordinator is out
Take(t) ==
    /\ stop_epoch' = stop_epoch + 1
    /\ held' = [held EXCEPT ![t] = active]
    /\ active' = None
    /\ Goto(t, "stopping")
    /\ Overtake(t)

\* `shutdown`, after the lock: the flags, then the join
CancelHeld(t) ==
    /\ pc[t] = "stopping"
    /\ cancelled' = cancelled \cup ({held[t]} \ {None})
    /\ Goto(t, "joining")
    /\ UNCHANGED <<want, held, seen, locks, active, stop_epoch, alive, dead,
                   started, session, calls, overtaken>>

Join(t) ==
    /\ pc[t] = "joining"
    /\ held[t] \notin alive
    /\ held' = [held EXCEPT ![t] = None]
    /\ Goto(t, IF t \in Connector THEN "stopped"
               ELSE IF t \in Maintainer THEN "maintaining" ELSE "idle")
    /\ UNCHANGED <<want, seen, locks, active, stop_epoch, workers, calls,
                   overtaken>>

-----------------------------------------------------------------------------
(* connect                                                                   *)

CallConnect(c, s) ==
    /\ pc[c] = "idle" /\ Call
    /\ want' = [want EXCEPT ![c] = s]
    /\ overtaken' = [overtaken EXCEPT ![c] = "no"]
    /\ Goto(c, "gate")
    /\ UNCHANGED <<held, seen, locks, active, stop_epoch, workers>>

\* A plausible slip: connects do not wait for each other
GateOpen(c) == TRUE

GateFree(c) == connect_gate = None

EnterGate(c) ==
    /\ pc[c] = "gate" /\ GateFree(c)
    /\ connect_gate' = c
    /\ Goto(c, "entered")
    /\ UNCHANGED <<want, held, seen, readers, maintenance, active, stop_epoch,
                   workers, calls, overtaken>>

\* A plausible slip: an early return leaves the gate closed
ReturnHolding(c) ==
    /\ connect_gate' = connect_gate
    /\ readers' = readers \ {c}
    /\ Goto(c, "idle")
    /\ UNCHANGED maintenance

\* Every guard the call holds is dropped when it returns
Return(c) ==
    /\ connect_gate' = None
    /\ readers' = readers \ {c}
    /\ Goto(c, "idle")
    /\ UNCHANGED maintenance

RefuseConnect(c) ==
    /\ pc[c] = "entered" /\ maintenance # 0
    /\ Return(c)
    /\ UNCHANGED <<want, held, seen, active, stop_epoch, workers, calls,
                   overtaken>>

\* A plausible slip: the count is not looked at once the lock is read
GateUnchecked(t) == readers' = readers \cup {t}

\* `maintenance_gate`: a read guard, given only outside maintenance
HoldGate(t) == maintenance = 0 /\ readers' = readers \cup {t}

PassMaintenance(c) ==
    /\ pc[c] = "entered" /\ HoldGate(c)
    /\ Goto(c, "guarded")
    /\ UNCHANGED <<want, held, seen, connect_gate, maintenance, active,
                   stop_epoch, workers, calls, overtaken>>

\* `serves`: the same credential, and the session has not ended
Serves(w, s) == w # None /\ session[w] = s /\ w \notin dead

Reuse(c) ==
    /\ pc[c] = "guarded" /\ Serves(active, want[c])
    /\ Return(c)
    /\ UNCHANGED <<want, held, seen, active, stop_epoch, workers, calls,
                   overtaken>>

StopOld(c) ==
    /\ pc[c] = "guarded" /\ ~Serves(active, want[c])
    /\ Take(c)
    /\ UNCHANGED <<want, seen, locks, workers, calls>>

LoadEpoch(c) ==
    /\ pc[c] = "stopped"
    /\ seen' = [seen EXCEPT ![c] = stop_epoch]
    /\ Goto(c, "linking")
    /\ UNCHANGED <<want, held, locks, active, stop_epoch, workers, calls,
                   overtaken>>

\* The transport, the provisioning or the link fails
LinkFails(c) ==
    /\ pc[c] = "linking"
    /\ Return(c)
    /\ UNCHANGED <<want, held, seen, active, stop_epoch, workers, calls,
                   overtaken>>

\* A plausible slip: a stop made during the link is not noticed
StopIgnored(c) == FALSE

Stopped(c) == stop_epoch # seen[c]

GiveUp(c) ==
    /\ pc[c] = "linking" /\ Stopped(c)
    /\ Return(c)
    /\ UNCHANGED <<want, held, seen, active, stop_epoch, workers, calls,
                   overtaken>>

Start(c) ==
    /\ pc[c] = "linking" /\ ~Stopped(c)
    /\ started' = started + 1
    /\ alive' = alive \cup {started'}
    /\ session' = [session EXCEPT ![started'] = want[c]]
    /\ active' = started'
    /\ Return(c)
    /\ UNCHANGED <<want, held, seen, stop_epoch, cancelled, dead, calls,
                   overtaken>>

Connect(c) ==
    \/ \E s \in Session : CallConnect(c, s)
    \/ EnterGate(c) \/ RefuseConnect(c) \/ PassMaintenance(c) \/ Reuse(c)
    \/ StopOld(c) \/ LoadEpoch(c) \/ LinkFails(c) \/ GiveUp(c) \/ Start(c)

-----------------------------------------------------------------------------
(* pause, suspend_for_maintenance, with_workspace and the worker threads     *)

Pause(p) ==
    /\ pc[p] = "idle" /\ Call
    /\ Take(p)
    /\ UNCHANGED <<want, seen, locks, workers>>

CallSuspend(m) ==
    /\ pc[m] = "idle" /\ Call
    /\ Goto(m, "locking")
    /\ UNCHANGED <<want, held, seen, locks, active, stop_epoch, workers,
                   overtaken>>

\* The write lock waits for every read guard
Exclusive == readers = {}

Suspend(m) ==
    /\ pc[m] = "locking" /\ Exclusive
    /\ maintenance' = maintenance + 1
    /\ Goto(m, "take")
    /\ UNCHANGED <<want, held, seen, connect_gate, readers, active,
                   stop_epoch, workers, calls, overtaken>>

StopForMaintenance(m) ==
    /\ pc[m] = "take"
    /\ Take(m)
    /\ UNCHANGED <<want, seen, locks, workers, calls>>

EndMaintenance(m) ==
    /\ pc[m] = "maintaining" /\ Exclusive
    /\ maintenance' = maintenance - 1
    /\ Goto(m, "idle")
    /\ UNCHANGED <<want, held, seen, connect_gate, readers, active,
                   stop_epoch, workers, calls, overtaken>>

OpenWorkspace(r) ==
    /\ pc[r] = "idle" /\ Call /\ HoldGate(r)
    /\ Goto(r, "reading")
    /\ UNCHANGED <<want, held, seen, connect_gate, maintenance, active,
                   stop_epoch, workers, overtaken>>

CloseWorkspace(r) ==
    /\ pc[r] = "reading"
    /\ readers' = readers \ {r}
    /\ Goto(r, "idle")
    /\ UNCHANGED <<want, held, seen, connect_gate, maintenance, active,
                   stop_epoch, workers, calls, overtaken>>

\* A cycle settles authenticationRequired
SessionEnds(w) ==
    /\ w \in alive \ dead
    /\ dead' = dead \cup {w}
    /\ UNCHANGED <<pc, want, held, seen, locks, active, stop_epoch, alive,
                   cancelled, started, session, calls, overtaken>>

WorkerExits(w) ==
    /\ w \in alive \cap cancelled
    /\ alive' = alive \ {w}
    /\ UNCHANGED <<pc, want, held, seen, locks, active, stop_epoch, cancelled,
                   dead, started, session, calls, overtaken>>

Next ==
    \/ \E c \in Connector : Connect(c)
    \/ \E t \in Thread : CancelHeld(t) \/ Join(t)
    \/ \E p \in Pauser : Pause(p)
    \/ \E m \in Maintainer :
         CallSuspend(m) \/ Suspend(m) \/ StopForMaintenance(m)
         \/ EndMaintenance(m)
    \/ \E r \in Reader : OpenWorkspace(r) \/ CloseWorkspace(r)
    \/ \E w \in Worker : SessionEnds(w) \/ WorkerExits(w)

\* Threads that have called in run on, requests end, workers told to stop stop
Advance(t) ==
    \/ CancelHeld(t) \/ Join(t)
    \/ t \in Connector /\ \/ EnterGate(t) \/ RefuseConnect(t)
                          \/ PassMaintenance(t) \/ Reuse(t) \/ StopOld(t)
                          \/ LoadEpoch(t) \/ LinkFails(t) \/ GiveUp(t)
                          \/ Start(t)
    \/ t \in Maintainer /\ \/ Suspend(t) \/ StopForMaintenance(t)
                           \/ EndMaintenance(t)
    \/ t \in Reader /\ CloseWorkspace(t)

Spec == Init /\ [][Next]_vars

-----------------------------------------------------------------------------
(* A live worker is the active one or one that a call is stopping: connects, *)
(* pauses and restores in any order never leave a second worker behind       *)
(* ("a startup resume and a shell connect can never start two coordinators", *)
(* runtime.rs:259).                                                          *)
NoStrayWorker == alive \subseteq {active} \cup {held[t] : t \in Thread}

(* While a restore or import has the database, nothing else has it open and  *)
(* sync is neither active nor being started; a worker that still runs was    *)
(* taken by another call, which is stopping it.                              *)
MaintenanceKeepsOut ==
    \A m \in Maintainer :
        pc[m] = "maintaining" =>
            /\ readers = {} /\ active = None
            /\ alive \subseteq {held[t] : t \in (Pauser \cup Maintainer) \ {m}}

(* A connect that a pause passes while it provisions or links never starts   *)
(* sync (runtime.rs:261, "one overtaken by a pause or shutdown stops without *)
(* starting sync").                                                          *)
OvertakenStops ==
    [][\A c \in Connector : Start(c) => overtaken[c] # "late"]_vars

(* "Keeps sync stopped and `connect` refused until dropped" (runtime.rs:169):*)
(* no worker runs while a restore or import has the database.  A pause takes *)
(* the coordinator out before it joins the worker, and a suspension that     *)
(* finds none to stop does not wait for that join (runtime.rs:637-654).      *)
MaintenanceAlone ==
    \A m \in Maintainer : pc[m] = "maintaining" => alive = {}

(* "one overtaken by a pause or shutdown stops without starting sync"        *)
(* (runtime.rs:261), also when the pause comes while the connect is stopping *)
(* the old worker.  The epoch is read after that stop (runtime.rs:281), so a *)
(* pause made during it goes unnoticed.                                      *)
OvertakenEarlyStops ==
    [][\A c \in Connector : Start(c) => overtaken[c] = "no"]_vars
=============================================================================
