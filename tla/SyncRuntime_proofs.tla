------------------------- MODULE SyncRuntime_proofs -------------------------
(***************************************************************************)
(* Connects, pauses and restores never leave a second worker behind, and    *)
(* never one on a database that is being replaced; the database is swapped  *)
(* with nobody in it, no answered save is lost, and what a command reports  *)
(* of the workspace is so: for any number of threads, calls, saves,         *)
(* operations and failures.                                                 *)
(***************************************************************************)
EXTENDS WorkspaceMaintenance, FiniteSetTheorems, TLAPS

\* Where a thread can be, by the one kind of call it makes.
ConnectPlace  == {"idle", "gate", "entered", "guarded", "stopping", "joining",
                  "stopped", "linking"}
PausePlace    == {"idle", "stopping", "joining"}
MaintainPlace == {"idle", "locking", "take", "stopping", "joining", "maintaining"}
ReadPlace     == {"idle", "reading"}
Place         == ConnectPlace \cup PausePlace \cup MaintainPlace \cup ReadPlace

Placed ==
    /\ pc \in [Thread -> Place]
    /\ \A c \in Connector : pc[c] \in ConnectPlace
    /\ \A p \in Pauser : pc[p] \in PausePlace
    /\ \A m \in Maintainer : pc[m] \in MaintainPlace
    /\ \A r \in Reader : pc[r] \in ReadPlace

Valued ==
    /\ held \in [Thread -> Nat \cup {None}]
    /\ seen \in [Connector -> Nat]
    /\ overtaken \in [Connector -> {"no", "early", "late"}]
    /\ readers \subseteq Connector \cup Reader
    /\ active \in Nat \cup {None}
    /\ stop_epoch \in Nat /\ alive \subseteq Nat /\ started \in Nat

Typed == Placed /\ Valued

\* A step of a thread is one of these.
LEMMA Steps ==
    ASSUME Next
    PROVE  \/ \E c \in Connector, s \in Session : CallConnect(c, s)
           \/ \E c \in Connector :
                 \/ EnterGate(c) \/ RefuseConnect(c) \/ PassMaintenance(c)
                 \/ Reuse(c) \/ StopOld(c) \/ LoadEpoch(c) \/ LinkFails(c)
                 \/ GiveUp(c) \/ Start(c)
           \/ \E t \in Thread : CancelHeld(t) \/ Join(t)
           \/ \E p \in Pauser : Pause(p)
           \/ \E m \in Maintainer :
                 \/ CallSuspend(m) \/ Suspend(m) \/ StopForMaintenance(m)
                 \/ EndMaintenance(m)
           \/ \E r \in Reader : OpenWorkspace(r) \/ CloseWorkspace(r)
           \/ \E w \in Worker : SessionEnds(w) \/ WorkerExits(w)
BY DEF Next, Connect

\* Every reachable state is well typed, and each thread where its call goes.
THEOREM TypeCorrect == Spec => []Typed
<1>1. Init => Typed
  BY DEF Init, Typed, Placed, Valued, Thread, Place, ConnectPlace, PausePlace, MaintainPlace, ReadPlace
<1>2. Typed /\ [Next]_vars => Typed'
  <2> SUFFICES ASSUME Typed, [Next]_vars
               PROVE  Typed'
    OBVIOUS
  <2> USE DEF Typed, Placed, Thread, Place, ConnectPlace, PausePlace, MaintainPlace, ReadPlace, Goto
  <2>a. /\ \A c \in Connector : c \notin Pauser /\ c \notin Maintainer /\ c \notin Reader
        /\ \A p \in Pauser : p \notin Maintainer /\ p \notin Reader
        /\ \A m \in Maintainer : m \notin Reader
    BY ThreadAssumption
  <2>b. ASSUME NEW t \in Thread, Take(t), Valued
        PROVE  /\ held' \in [Thread -> Nat \cup {None}] /\ active' = None
               /\ stop_epoch' \in Nat
               /\ overtaken' \in [Connector -> {"no", "early", "late"}]
    BY <2>b DEF Take, Overtake, Valued
  <2>1. ASSUME NEW c \in Connector, NEW s \in Session, CallConnect(c, s)
        PROVE  Typed'
    BY <2>1, <2>a DEF CallConnect, Valued, locks, workers
  <2>2. ASSUME NEW c \in Connector, EnterGate(c)
        PROVE  Typed'
    BY <2>2, <2>a DEF EnterGate, Valued, workers
  <2>3. ASSUME NEW c \in Connector, RefuseConnect(c)
        PROVE  Typed'
    BY <2>3, <2>a DEF RefuseConnect, Return, Valued, workers
  <2>4. ASSUME NEW c \in Connector, PassMaintenance(c)
        PROVE  Typed'
    BY <2>4, <2>a DEF PassMaintenance, HoldGate, Valued, workers
  <2>5. ASSUME NEW c \in Connector, Reuse(c)
        PROVE  Typed'
    BY <2>5, <2>a DEF Reuse, Return, Valued, workers
  <2>6. ASSUME NEW c \in Connector, StopOld(c)
        PROVE  Typed'
    <3>1. Valued'
      BY <2>6, <2>b DEF StopOld, Valued, workers, locks
    <3> QED  BY <2>6, <2>a, <3>1 DEF StopOld, Take
  <2>7. ASSUME NEW c \in Connector, LoadEpoch(c)
        PROVE  Typed'
    BY <2>7, <2>a DEF LoadEpoch, Valued, workers, locks
  <2>8. ASSUME NEW c \in Connector, LinkFails(c)
        PROVE  Typed'
    BY <2>8, <2>a DEF LinkFails, Return, Valued, workers
  <2>9. ASSUME NEW c \in Connector, GiveUp(c)
        PROVE  Typed'
    BY <2>9, <2>a DEF GiveUp, Return, Valued, workers
  <2>10. ASSUME NEW c \in Connector, Start(c)
         PROVE  Typed'
    BY <2>10, <2>a DEF Start, Return, Valued
  <2>11. ASSUME NEW t \in Thread, CancelHeld(t)
         PROVE  Typed'
    <3>1. t \notin Reader
      BY <2>11 DEF CancelHeld
    <3> QED  BY <2>11, <2>a, <3>1 DEF CancelHeld, Valued, locks
  <2>12. ASSUME NEW t \in Thread, Join(t)
         PROVE  Typed'
    <3>1. t \notin Reader
      BY <2>12 DEF Join
    <3>2. Valued'
      BY <2>12 DEF Join, Valued, locks, workers
    <3> QED  BY <2>12, <2>a, <3>1, <3>2 DEF Join
  <2>13. ASSUME NEW p \in Pauser, Pause(p)
         PROVE  Typed'
    <3>1. Valued'
      BY <2>13, <2>b DEF Pause, Valued, workers, locks
    <3> QED  BY <2>13, <2>a, <3>1 DEF Pause, Take
  <2>14. ASSUME NEW m \in Maintainer, CallSuspend(m)
         PROVE  Typed'
    BY <2>14, <2>a DEF CallSuspend, Valued, workers, locks
  <2>15. ASSUME NEW m \in Maintainer, Suspend(m)
         PROVE  Typed'
    BY <2>15, <2>a DEF Suspend, Valued, workers
  <2>16. ASSUME NEW m \in Maintainer, StopForMaintenance(m)
         PROVE  Typed'
    <3>1. Valued'
      BY <2>16, <2>b DEF StopForMaintenance, Valued, workers, locks
    <3> QED  BY <2>16, <2>a, <3>1 DEF StopForMaintenance, Take
  <2>17. ASSUME NEW m \in Maintainer, EndMaintenance(m)
         PROVE  Typed'
    BY <2>17, <2>a DEF EndMaintenance, Valued, workers
  <2>18. ASSUME NEW r \in Reader, OpenWorkspace(r)
         PROVE  Typed'
    BY <2>18, <2>a DEF OpenWorkspace, HoldGate, Valued, workers
  <2>19. ASSUME NEW r \in Reader, CloseWorkspace(r)
         PROVE  Typed'
    BY <2>19, <2>a DEF CloseWorkspace, Valued, workers
  <2>20. ASSUME NEW w \in Worker, SessionEnds(w)
         PROVE  Typed'
    BY <2>20 DEF SessionEnds, Valued, locks
  <2>21. ASSUME NEW w \in Worker, WorkerExits(w)
         PROVE  Typed'
    BY <2>21 DEF WorkerExits, Valued, locks
  <2>22. CASE UNCHANGED vars
    BY <2>22 DEF vars, Valued, workers, locks
  <2> QED  BY Steps, <2>1, <2>2, <2>3, <2>4, <2>5, <2>6, <2>7, <2>8, <2>9, <2>10,
              <2>11, <2>12, <2>13, <2>14, <2>15, <2>16, <2>17, <2>18, <2>19, <2>20, <2>21, <2>22
<1> QED  BY <1>1, <1>2, PTL DEF Spec

-----------------------------------------------------------------------------
(* One worker at a time                                                      *)

PastReuse == {"stopping", "joining", "stopped", "linking"}

\* Who has taken a worker is stopping it; one connect is past the gate; and
\* from its stop on no worker is active.
Serial ==
    /\ \A t \in Thread : pc[t] \notin {"stopping", "joining"} => held[t] = None
    /\ \A c \in Connector : pc[c] \in PastReuse \cup {"entered", "guarded"} => connect_gate = c
    /\ \A c \in Connector : pc[c] \in PastReuse => active = None

\* The gate and the stop before the start keep a second worker out, whatever
\* the order of connects, pauses and restores.
LEMMA SerialHolds == Spec => [](Serial /\ NoStrayWorker)
<1>1. Init => Serial /\ NoStrayWorker
  BY DEF Init, Serial, NoStrayWorker, Thread, PastReuse
<1>2. Typed /\ Serial /\ NoStrayWorker /\ [Next]_vars => (Serial /\ NoStrayWorker)'
  <2> SUFFICES ASSUME Typed, Serial, NoStrayWorker, [Next]_vars
               PROVE  (Serial /\ NoStrayWorker)'
    OBVIOUS
  <2> USE DEF Typed, Placed, Valued, Thread, Goto, Serial, NoStrayWorker, PastReuse
  <2>a. /\ \A c \in Connector : c \notin Pauser /\ c \notin Maintainer /\ c \notin Reader
        /\ \A p \in Pauser : p \notin Maintainer /\ p \notin Reader
        /\ \A m \in Maintainer : m \notin Reader
    BY ThreadAssumption
  <2>1. ASSUME NEW c \in Connector, NEW s \in Session, CallConnect(c, s)
        PROVE  (Serial /\ NoStrayWorker)'
    BY <2>1, <2>a DEF CallConnect, workers, locks
  <2>2. ASSUME NEW c \in Connector, EnterGate(c)
        PROVE  (Serial /\ NoStrayWorker)'
    BY <2>2, <2>a, RuntimeAssumption DEF EnterGate, GateFree, workers, locks
  <2>3. ASSUME NEW c \in Connector, RefuseConnect(c)
        PROVE  (Serial /\ NoStrayWorker)'
    BY <2>3, <2>a DEF RefuseConnect, Return, workers, locks
  <2>4. ASSUME NEW c \in Connector, PassMaintenance(c)
        PROVE  (Serial /\ NoStrayWorker)'
    BY <2>4, <2>a DEF PassMaintenance, HoldGate, workers, locks
  <2>5. ASSUME NEW c \in Connector, Reuse(c)
        PROVE  (Serial /\ NoStrayWorker)'
    BY <2>5, <2>a DEF Reuse, Return, workers, locks
  <2>6. ASSUME NEW c \in Connector, StopOld(c)
        PROVE  (Serial /\ NoStrayWorker)'
    BY <2>6, <2>a DEF StopOld, Take, workers, locks
  <2>7. ASSUME NEW c \in Connector, LoadEpoch(c)
        PROVE  (Serial /\ NoStrayWorker)'
    BY <2>7, <2>a DEF LoadEpoch, workers, locks
  <2>8. ASSUME NEW c \in Connector, LinkFails(c)
        PROVE  (Serial /\ NoStrayWorker)'
    BY <2>8, <2>a DEF LinkFails, Return, workers, locks
  <2>9. ASSUME NEW c \in Connector, GiveUp(c)
        PROVE  (Serial /\ NoStrayWorker)'
    BY <2>9, <2>a DEF GiveUp, Return, workers, locks
  <2>10. ASSUME NEW c \in Connector, Start(c)
         PROVE  (Serial /\ NoStrayWorker)'
    BY <2>10, <2>a DEF Start, Return, workers, locks
  <2>11. ASSUME NEW t \in Thread, CancelHeld(t)
         PROVE  (Serial /\ NoStrayWorker)'
    BY <2>11, <2>a DEF CancelHeld, workers, locks
  <2>12. ASSUME NEW t \in Thread, Join(t)
         PROVE  (Serial /\ NoStrayWorker)'
    BY <2>12, <2>a DEF Join, workers, locks
  <2>13. ASSUME NEW p \in Pauser, Pause(p)
         PROVE  (Serial /\ NoStrayWorker)'
    BY <2>13, <2>a DEF Pause, Take, workers, locks
  <2>14. ASSUME NEW m \in Maintainer, CallSuspend(m)
         PROVE  (Serial /\ NoStrayWorker)'
    BY <2>14, <2>a DEF CallSuspend, workers, locks
  <2>15. ASSUME NEW m \in Maintainer, Suspend(m)
         PROVE  (Serial /\ NoStrayWorker)'
    BY <2>15, <2>a DEF Suspend, Exclusive, workers, locks
  <2>16. ASSUME NEW m \in Maintainer, StopForMaintenance(m)
         PROVE  (Serial /\ NoStrayWorker)'
    BY <2>16, <2>a DEF StopForMaintenance, Take, workers, locks
  <2>17. ASSUME NEW m \in Maintainer, EndMaintenance(m)
         PROVE  (Serial /\ NoStrayWorker)'
    BY <2>17, <2>a DEF EndMaintenance, Exclusive, workers, locks
  <2>18. ASSUME NEW r \in Reader, OpenWorkspace(r)
         PROVE  (Serial /\ NoStrayWorker)'
    BY <2>18, <2>a DEF OpenWorkspace, HoldGate, workers, locks
  <2>19. ASSUME NEW r \in Reader, CloseWorkspace(r)
         PROVE  (Serial /\ NoStrayWorker)'
    BY <2>19, <2>a DEF CloseWorkspace, workers, locks
  <2>20. ASSUME NEW w \in Worker, SessionEnds(w)
         PROVE  (Serial /\ NoStrayWorker)'
    BY <2>20, <2>a DEF SessionEnds, workers, locks
  <2>21. ASSUME NEW w \in Worker, WorkerExits(w)
         PROVE  (Serial /\ NoStrayWorker)'
    BY <2>21, <2>a DEF WorkerExits, workers, locks
  <2>22. CASE UNCHANGED vars
    BY <2>22 DEF vars, workers, locks
  <2> QED  BY Steps, <2>1, <2>2, <2>3, <2>4, <2>5, <2>6, <2>7, <2>8, <2>9, <2>10, <2>11,
              <2>12, <2>13, <2>14, <2>15, <2>16, <2>17, <2>18, <2>19, <2>20, <2>21, <2>22
<1> QED  BY <1>1, <1>2, TypeCorrect, PTL DEF Spec

\* A live worker is the active one or one that a call is stopping
\* (connect_gate, take_coordinator and stop_coordinator).
THEOREM NoStrayWorkerHolds == Spec => []NoStrayWorker
BY SerialHolds, PTL

-----------------------------------------------------------------------------
(* The maintenance lock                                                      *)

Closing == {"take", "stopping", "joining", "maintaining"}
Closers == {m \in Maintainer : pc[m] \in Closing}

\* The number under the lock counts the restores inside; a connect past the
\* lock has a read guard; and nobody has one, nor is sync active, when a
\* restore is inside and has taken the coordinator out.
Counted == maintenance = Cardinality(Closers)
Shut ==
    /\ \A c \in Connector : pc[c] \in PastReuse \cup {"guarded"} => c \in readers
    /\ \A r \in Reader : pc[r] = "reading" => r \in readers
    /\ \A m \in Maintainer : pc[m] \in Closing => readers = {}
    /\ \A m \in Maintainer : pc[m] \in Closing \ {"take"} => active = None

\* A restore inside is counted, and only one that goes in or out changes it.
LEMMA CountHolds == Spec => []Counted
<1>1. Init => Counted
  <2> SUFFICES ASSUME Init
               PROVE  Counted
    OBVIOUS
  <2>1. Closers = {}
    BY DEF Init, Closers, Closing, Thread
  <2> QED  BY <2>1, FS_EmptySet DEF Init, Counted
<1>2. Typed /\ Counted /\ [Next]_vars => Counted'
  <2> SUFFICES ASSUME Typed, Counted, [Next]_vars
               PROVE  Counted'
    OBVIOUS
  <2> USE DEF Typed, Placed, Thread, Goto, Closing
  <2>a. /\ \A c \in Connector : c \notin Pauser /\ c \notin Maintainer /\ c \notin Reader
        /\ \A p \in Pauser : p \notin Maintainer /\ p \notin Reader
        /\ \A m \in Maintainer : m \notin Reader
    BY ThreadAssumption
  <2>f. IsFiniteSet(Closers)
    BY ThreadAssumption, FS_Subset DEF Closers
  <2>s. ASSUME Closers' = Closers, maintenance' = maintenance
        PROVE  Counted'
    BY <2>s DEF Counted
  <2>1. ASSUME NEW c \in Connector, NEW s \in Session, CallConnect(c, s)
        PROVE  Counted'
    <3>1. Closers' = Closers
      BY <2>1, <2>a DEF CallConnect, Closers
    <3> QED  BY <2>1, <2>s, <3>1 DEF CallConnect, locks
  <2>2. ASSUME NEW c \in Connector, EnterGate(c)
        PROVE  Counted'
    <3>1. Closers' = Closers
      BY <2>2, <2>a DEF EnterGate, Closers
    <3> QED  BY <2>2, <2>s, <3>1 DEF EnterGate, locks
  <2>3. ASSUME NEW c \in Connector, RefuseConnect(c)
        PROVE  Counted'
    <3>1. Closers' = Closers
      BY <2>3, <2>a DEF RefuseConnect, Return, Closers
    <3> QED  BY <2>3, <2>s, <3>1 DEF RefuseConnect, Return, locks
  <2>4. ASSUME NEW c \in Connector, PassMaintenance(c)
        PROVE  Counted'
    <3>1. Closers' = Closers
      BY <2>4, <2>a DEF PassMaintenance, HoldGate, Closers
    <3> QED  BY <2>4, <2>s, <3>1 DEF PassMaintenance, HoldGate, locks
  <2>5. ASSUME NEW c \in Connector, Reuse(c)
        PROVE  Counted'
    <3>1. Closers' = Closers
      BY <2>5, <2>a DEF Reuse, Return, Closers
    <3> QED  BY <2>5, <2>s, <3>1 DEF Reuse, Return, locks
  <2>6. ASSUME NEW c \in Connector, StopOld(c)
        PROVE  Counted'
    <3>1. Closers' = Closers
      BY <2>6, <2>a DEF StopOld, Take, Closers
    <3> QED  BY <2>6, <2>s, <3>1 DEF StopOld, Take, locks
  <2>7. ASSUME NEW c \in Connector, LoadEpoch(c)
        PROVE  Counted'
    <3>1. Closers' = Closers
      BY <2>7, <2>a DEF LoadEpoch, Closers
    <3> QED  BY <2>7, <2>s, <3>1 DEF LoadEpoch, locks
  <2>8. ASSUME NEW c \in Connector, LinkFails(c)
        PROVE  Counted'
    <3>1. Closers' = Closers
      BY <2>8, <2>a DEF LinkFails, Return, Closers
    <3> QED  BY <2>8, <2>s, <3>1 DEF LinkFails, Return, locks
  <2>9. ASSUME NEW c \in Connector, GiveUp(c)
        PROVE  Counted'
    <3>1. Closers' = Closers
      BY <2>9, <2>a DEF GiveUp, Return, Closers
    <3> QED  BY <2>9, <2>s, <3>1 DEF GiveUp, Return, locks
  <2>10. ASSUME NEW c \in Connector, Start(c)
         PROVE  Counted'
    <3>1. Closers' = Closers
      BY <2>10, <2>a DEF Start, Return, Closers
    <3> QED  BY <2>10, <2>s, <3>1 DEF Start, Return, locks
  <2>11. ASSUME NEW t \in Thread, CancelHeld(t)
         PROVE  Counted'
    <3>1. Closers' = Closers
      BY <2>11, <2>a DEF CancelHeld, Closers
    <3> QED  BY <2>11, <2>s, <3>1 DEF CancelHeld, locks
  <2>12. ASSUME NEW t \in Thread, Join(t)
         PROVE  Counted'
    <3>1. Closers' = Closers
      BY <2>12, <2>a DEF Join, Closers
    <3> QED  BY <2>12, <2>s, <3>1 DEF Join, locks
  <2>13. ASSUME NEW p \in Pauser, Pause(p)
         PROVE  Counted'
    <3>1. Closers' = Closers
      BY <2>13, <2>a DEF Pause, Take, Closers
    <3> QED  BY <2>13, <2>s, <3>1 DEF Pause, Take, locks
  <2>14. ASSUME NEW m \in Maintainer, CallSuspend(m)
         PROVE  Counted'
    <3>1. Closers' = Closers
      BY <2>14, <2>a DEF CallSuspend, Closers
    <3> QED  BY <2>14, <2>s, <3>1 DEF CallSuspend, locks
  <2>15. ASSUME NEW m \in Maintainer, Suspend(m)
         PROVE  Counted'
    <3>1. Closers' = Closers \cup {m} /\ m \notin Closers
      BY <2>15, <2>a DEF Suspend, Closers
    <3>2. Cardinality(Closers') = Cardinality(Closers) + 1
      BY <2>f, <3>1, FS_AddElement
    <3> QED  BY <2>15, <3>2 DEF Suspend, Counted
  <2>16. ASSUME NEW m \in Maintainer, StopForMaintenance(m)
         PROVE  Counted'
    <3>1. Closers' = Closers
      BY <2>16, <2>a DEF StopForMaintenance, Take, Closers
    <3> QED  BY <2>16, <2>s, <3>1 DEF StopForMaintenance, Take, locks
  <2>17. ASSUME NEW m \in Maintainer, EndMaintenance(m)
         PROVE  Counted'
    <3>1. Closers' = Closers \ {m} /\ m \in Closers
      BY <2>17, <2>a DEF EndMaintenance, Closers
    <3>2. Cardinality(Closers') = Cardinality(Closers) - 1
      BY <2>f, <3>1, FS_RemoveElement
    <3> QED  BY <2>17, <3>2 DEF EndMaintenance, Counted
  <2>18. ASSUME NEW r \in Reader, OpenWorkspace(r)
         PROVE  Counted'
    <3>1. Closers' = Closers
      BY <2>18, <2>a DEF OpenWorkspace, HoldGate, Closers
    <3> QED  BY <2>18, <2>s, <3>1 DEF OpenWorkspace, HoldGate, locks
  <2>19. ASSUME NEW r \in Reader, CloseWorkspace(r)
         PROVE  Counted'
    <3>1. Closers' = Closers
      BY <2>19, <2>a DEF CloseWorkspace, Closers
    <3> QED  BY <2>19, <2>s, <3>1 DEF CloseWorkspace, locks
  <2>20. ASSUME NEW w \in Worker, SessionEnds(w)
         PROVE  Counted'
    BY <2>20, <2>s DEF SessionEnds, Closers, locks
  <2>21. ASSUME NEW w \in Worker, WorkerExits(w)
         PROVE  Counted'
    BY <2>21, <2>s DEF WorkerExits, Closers, locks
  <2>22. CASE UNCHANGED vars
    BY <2>22, <2>s DEF vars, Closers, locks
  <2> QED  BY Steps, <2>1, <2>2, <2>3, <2>4, <2>5, <2>6, <2>7, <2>8, <2>9, <2>10, <2>11,
              <2>12, <2>13, <2>14, <2>15, <2>16, <2>17, <2>18, <2>19, <2>20, <2>21, <2>22
<1> QED  BY <1>1, <1>2, TypeCorrect, PTL DEF Spec

\* A read guard is given only when no restore is inside.
LEMMA NobodyInside ==
    ASSUME Counted, maintenance = 0
    PROVE  Closers = {}
<1>1. IsFiniteSet(Closers)
  BY ThreadAssumption, FS_Subset DEF Closers
<1> QED  BY <1>1, FS_EmptySet DEF Counted

\* A restore inside keeps every connect and every reader out.
LEMMA ShutHolds == Spec => []Shut
<1>1. Init => Shut
  BY DEF Init, Shut, Thread, PastReuse, Closing
<1>2. Typed /\ Counted /\ Shut /\ [Next]_vars => Shut'
  <2> SUFFICES ASSUME Typed, Counted, Shut, [Next]_vars
               PROVE  Shut'
    OBVIOUS
  <2> USE DEF Typed, Placed, Valued, Thread, Goto, Shut, PastReuse, Closing
  <2>a. /\ \A c \in Connector : c \notin Pauser /\ c \notin Maintainer /\ c \notin Reader
        /\ \A p \in Pauser : p \notin Maintainer /\ p \notin Reader
        /\ \A m \in Maintainer : m \notin Reader
    BY ThreadAssumption
  <2>1. ASSUME NEW c \in Connector, NEW s \in Session, CallConnect(c, s)
        PROVE  Shut'
    BY <2>1, <2>a DEF CallConnect, workers, locks
  <2>2. ASSUME NEW c \in Connector, EnterGate(c)
        PROVE  Shut'
    BY <2>2, <2>a DEF EnterGate, workers, locks
  <2>3. ASSUME NEW c \in Connector, RefuseConnect(c)
        PROVE  Shut'
    BY <2>3, <2>a DEF RefuseConnect, Return, workers, locks
  <2>4. ASSUME NEW c \in Connector, PassMaintenance(c)
        PROVE  Shut'
    BY <2>4, <2>a, NobodyInside DEF PassMaintenance, HoldGate, Closers, workers, locks
  <2>5. ASSUME NEW c \in Connector, Reuse(c)
        PROVE  Shut'
    BY <2>5, <2>a DEF Reuse, Return, workers, locks
  <2>6. ASSUME NEW c \in Connector, StopOld(c)
        PROVE  Shut'
    BY <2>6, <2>a DEF StopOld, Take, workers, locks
  <2>7. ASSUME NEW c \in Connector, LoadEpoch(c)
        PROVE  Shut'
    BY <2>7, <2>a DEF LoadEpoch, workers, locks
  <2>8. ASSUME NEW c \in Connector, LinkFails(c)
        PROVE  Shut'
    BY <2>8, <2>a DEF LinkFails, Return, workers, locks
  <2>9. ASSUME NEW c \in Connector, GiveUp(c)
        PROVE  Shut'
    BY <2>9, <2>a DEF GiveUp, Return, workers, locks
  <2>10. ASSUME NEW c \in Connector, Start(c)
         PROVE  Shut'
    BY <2>10, <2>a DEF Start, Return, workers, locks
  <2>11. ASSUME NEW t \in Thread, CancelHeld(t)
         PROVE  Shut'
    BY <2>11, <2>a DEF CancelHeld, workers, locks
  <2>12. ASSUME NEW t \in Thread, Join(t)
         PROVE  Shut'
    BY <2>12, <2>a DEF Join, workers, locks
  <2>13. ASSUME NEW p \in Pauser, Pause(p)
         PROVE  Shut'
    BY <2>13, <2>a DEF Pause, Take, workers, locks
  <2>14. ASSUME NEW m \in Maintainer, CallSuspend(m)
         PROVE  Shut'
    BY <2>14, <2>a DEF CallSuspend, workers, locks
  <2>15. ASSUME NEW m \in Maintainer, Suspend(m)
         PROVE  Shut'
    BY <2>15, <2>a DEF Suspend, Exclusive, workers, locks
  <2>16. ASSUME NEW m \in Maintainer, StopForMaintenance(m)
         PROVE  Shut'
    BY <2>16, <2>a DEF StopForMaintenance, Take, workers, locks
  <2>17. ASSUME NEW m \in Maintainer, EndMaintenance(m)
         PROVE  Shut'
    BY <2>17, <2>a DEF EndMaintenance, Exclusive, workers, locks
  <2>18. ASSUME NEW r \in Reader, OpenWorkspace(r)
         PROVE  Shut'
    BY <2>18, <2>a, NobodyInside DEF OpenWorkspace, HoldGate, Closers, workers, locks
  <2>19. ASSUME NEW r \in Reader, CloseWorkspace(r)
         PROVE  Shut'
    BY <2>19, <2>a DEF CloseWorkspace, workers, locks
  <2>20. ASSUME NEW w \in Worker, SessionEnds(w)
         PROVE  Shut'
    BY <2>20, <2>a DEF SessionEnds, workers, locks
  <2>21. ASSUME NEW w \in Worker, WorkerExits(w)
         PROVE  Shut'
    BY <2>21, <2>a DEF WorkerExits, workers, locks
  <2>22. CASE UNCHANGED vars
    BY <2>22 DEF vars, workers, locks
  <2> QED  BY Steps, <2>1, <2>2, <2>3, <2>4, <2>5, <2>6, <2>7, <2>8, <2>9, <2>10, <2>11,
              <2>12, <2>13, <2>14, <2>15, <2>16, <2>17, <2>18, <2>19, <2>20, <2>21, <2>22
<1> QED  BY <1>1, <1>2, TypeCorrect, CountHolds, PTL DEF Spec

\* While a restore or an import has the database, nobody reads it, sync is not
\* active, and a worker that still runs is one another call is stopping
\* (suspend_for_maintenance, maintenance_gate).
THEOREM MaintenanceKeepsOutHolds == Spec => []MaintenanceKeepsOut
<1>1. Typed /\ Serial /\ Shut /\ NoStrayWorker => MaintenanceKeepsOut
  <2> SUFFICES ASSUME Typed, Serial, Shut, NoStrayWorker,
                      NEW m \in Maintainer, pc[m] = "maintaining"
               PROVE  /\ readers = {} /\ active = None
                      /\ alive \subseteq {held[t] : t \in (Pauser \cup Maintainer) \ {m}}
    BY DEF MaintenanceKeepsOut
  <2>1. readers = {} /\ active = None
    BY DEF Shut, Closing
  <2>2. ASSUME NEW w \in alive
        PROVE  \E t \in (Pauser \cup Maintainer) \ {m} : w = held[t]
    <3>1. w # None
      BY RuntimeAssumption DEF Typed, Valued
    <3>2. PICK t \in Thread : w = held[t]
      BY <2>1, <3>1 DEF NoStrayWorker
    <3>3. pc[t] \in {"stopping", "joining"}
      BY <3>1, <3>2 DEF Serial
    <3>4. t \notin Connector
      BY <2>1, <3>3 DEF Shut, PastReuse
    <3>5. t \notin Reader /\ t # m
      BY <3>3 DEF Typed, Placed, ReadPlace
    <3> QED  BY <3>2, <3>4, <3>5 DEF Thread
  <2> QED  BY <2>1, <2>2
<1> QED  BY <1>1, TypeCorrect, SerialHolds, ShutHolds, PTL

-----------------------------------------------------------------------------
(* The epoch of the stops                                                    *)

\* A pause that passes a connect in its link moved the epoch past the one the
\* connect has read.
Behind ==
    \A c \in Connector :
        /\ pc[c] = "linking" => seen[c] =< stop_epoch
        /\ overtaken[c] = "late" =>
              \/ pc[c] = "idle"
              \/ pc[c] = "linking" /\ seen[c] < stop_epoch

\* The epoch only grows, and each stop moves it.
LEMMA BehindHolds == Spec => []Behind
<1>1. Init => Behind
  BY DEF Init, Behind, Thread
<1>2. Typed /\ Behind /\ [Next]_vars => Behind'
  <2> SUFFICES ASSUME Typed, Behind, [Next]_vars
               PROVE  Behind'
    OBVIOUS
  <2> USE DEF Typed, Placed, Valued, Thread, Goto, Behind
  <2>a. /\ \A c \in Connector : c \notin Pauser /\ c \notin Maintainer /\ c \notin Reader
        /\ \A p \in Pauser : p \notin Maintainer /\ p \notin Reader
        /\ \A m \in Maintainer : m \notin Reader
    BY ThreadAssumption
  <2>1. ASSUME NEW c \in Connector, NEW s \in Session, CallConnect(c, s)
        PROVE  Behind'
    BY <2>1, <2>a DEF CallConnect, workers, locks
  <2>2. ASSUME NEW c \in Connector, EnterGate(c)
        PROVE  Behind'
    BY <2>2, <2>a DEF EnterGate, workers, locks
  <2>3. ASSUME NEW c \in Connector, RefuseConnect(c)
        PROVE  Behind'
    BY <2>3, <2>a DEF RefuseConnect, Return, workers, locks
  <2>4. ASSUME NEW c \in Connector, PassMaintenance(c)
        PROVE  Behind'
    BY <2>4, <2>a DEF PassMaintenance, HoldGate, workers, locks
  <2>5. ASSUME NEW c \in Connector, Reuse(c)
        PROVE  Behind'
    BY <2>5, <2>a DEF Reuse, Return, workers, locks
  <2>6. ASSUME NEW c \in Connector, StopOld(c)
        PROVE  Behind'
    BY <2>6, <2>a DEF StopOld, Take, Overtake, workers, locks
  <2>7. ASSUME NEW c \in Connector, LoadEpoch(c)
        PROVE  Behind'
    BY <2>7, <2>a DEF LoadEpoch, workers, locks
  <2>8. ASSUME NEW c \in Connector, LinkFails(c)
        PROVE  Behind'
    BY <2>8, <2>a DEF LinkFails, Return, workers, locks
  <2>9. ASSUME NEW c \in Connector, GiveUp(c)
        PROVE  Behind'
    BY <2>9, <2>a DEF GiveUp, Return, workers, locks
  <2>10. ASSUME NEW c \in Connector, Start(c)
         PROVE  Behind'
    BY <2>10, <2>a DEF Start, Return, workers, locks
  <2>11. ASSUME NEW t \in Thread, CancelHeld(t)
         PROVE  Behind'
    BY <2>11, <2>a DEF CancelHeld, workers, locks
  <2>12. ASSUME NEW t \in Thread, Join(t)
         PROVE  Behind'
    BY <2>12, <2>a DEF Join, workers, locks
  <2>13. ASSUME NEW p \in Pauser, Pause(p)
         PROVE  Behind'
    BY <2>13, <2>a DEF Pause, Take, Overtake, workers, locks
  <2>14. ASSUME NEW m \in Maintainer, CallSuspend(m)
         PROVE  Behind'
    BY <2>14, <2>a DEF CallSuspend, workers, locks
  <2>15. ASSUME NEW m \in Maintainer, Suspend(m)
         PROVE  Behind'
    BY <2>15, <2>a DEF Suspend, Exclusive, workers, locks
  <2>16. ASSUME NEW m \in Maintainer, StopForMaintenance(m)
         PROVE  Behind'
    BY <2>16, <2>a DEF StopForMaintenance, Take, Overtake, workers, locks
  <2>17. ASSUME NEW m \in Maintainer, EndMaintenance(m)
         PROVE  Behind'
    BY <2>17, <2>a DEF EndMaintenance, Exclusive, workers, locks
  <2>18. ASSUME NEW r \in Reader, OpenWorkspace(r)
         PROVE  Behind'
    BY <2>18, <2>a DEF OpenWorkspace, HoldGate, workers, locks
  <2>19. ASSUME NEW r \in Reader, CloseWorkspace(r)
         PROVE  Behind'
    BY <2>19, <2>a DEF CloseWorkspace, workers, locks
  <2>20. ASSUME NEW w \in Worker, SessionEnds(w)
         PROVE  Behind'
    BY <2>20, <2>a DEF SessionEnds, workers, locks
  <2>21. ASSUME NEW w \in Worker, WorkerExits(w)
         PROVE  Behind'
    BY <2>21, <2>a DEF WorkerExits, workers, locks
  <2>22. CASE UNCHANGED vars
    BY <2>22 DEF vars, workers, locks
  <2> QED  BY Steps, <2>1, <2>2, <2>3, <2>4, <2>5, <2>6, <2>7, <2>8, <2>9, <2>10, <2>11,
              <2>12, <2>13, <2>14, <2>15, <2>16, <2>17, <2>18, <2>19, <2>20, <2>21, <2>22
<1> QED  BY <1>1, <1>2, TypeCorrect, PTL DEF Spec

\* A connect that a pause passes while it provisions or links never starts
\* sync (the check of stop_epoch under the lock on `active`).
THEOREM OvertakenStopsHolds == Spec => OvertakenStops
<1>1. Typed /\ Behind /\ [Next]_vars =>
        [\A c \in Connector : Start(c) => overtaken[c] # "late"]_vars
  BY DEF Behind, Start, Stopped, Typed, Valued, Placed
<1> QED  BY <1>1, TypeCorrect, BehindHolds, PTL DEF Spec, OvertakenStops

-----------------------------------------------------------------------------
(* Restores and imports with the shell around them (WorkspaceMaintenance)    *)

Files(m) ==
    \/ Preflight(m) \/ PreflightFails(m) \/ CheckOriginal(m)
    \/ MoveOriginal(m) \/ MoveReplacement(m) \/ StageFails(m)
    \/ UndoReplacement(m) \/ UndoOriginal(m) \/ RollbackFails(m)
    \/ BackUpFirst(m) \/ CancelImport(m)
Serving(m) ==
    \/ StopActive(m) \/ Drained(m) \/ Publish(m) \/ PublishFails(m)
    \/ Salvage(m) \/ SalvageFails(m) \/ VerifyReplacement(m)
    \/ ReopenOriginal(m) \/ ReplaceFromArchive(m)
Preparing(m) ==
    \/ CloseHistory(m) \/ RefuseBegin(m) \/ Prepare(m) \/ PrepareFails(m)
    \/ CancelledEarly(m) \/ ClearCancel(m)
Bounding(m) ==
    \/ \E k \in {"restore", "import"} : Quiesce(m, k)
    \/ Begin(m) \/ EndOperation(m) \/ ReleaseHistory(m)
Copying(b) == BeginCopy(b) \/ Copy(b) \/ EndCopy(b) \/ DropCopy(b)
Cancelling(x) == AskCancel(x) \/ StoreCancel(x)

\* A step of the shell is one of these.
LEMMA MSteps ==
    ASSUME MNext
    PROVE  \/ SyncStep
           \/ \E s \in Saver : CallSave(s) \/ Submit(s)
           \/ StorageEnds \/ \E n \in 1..Len(queue) : Answer(n)
           \/ \E b \in Copier : Copying(b)
           \/ \E x \in Canceller : Cancelling(x)
           \/ UseHistory
           \/ \E m \in Maintainer :
                 Files(m) \/ Serving(m) \/ Preparing(m) \/ Bounding(m)
BY DEF MNext, StorageWorks, Copying, Cancelling, Around, Swap, Import, Files, Serving,
       Preparing, Bounding

\* Only the steps of sync move the sync runtime.
LEMMA Aside ==
    ASSUME MNext, ~SyncStep
    PROVE  UNCHANGED vars
<1>1. ASSUME NEW s \in Saver, CallSave(s) \/ Submit(s)
      PROVE  UNCHANGED vars
  BY <1>1 DEF CallSave, Submit
<1>2. ASSUME StorageEnds \/ \E n \in 1..Len(queue) : Answer(n)
      PROVE  UNCHANGED vars
  BY <1>2 DEF StorageEnds, Answer
<1>3. ASSUME NEW b \in Copier, Copying(b)
      PROVE  UNCHANGED vars
  BY <1>3 DEF Copying, BeginCopy, Copy, EndCopy, DropCopy
<1>4. ASSUME NEW x \in Canceller, Cancelling(x)
      PROVE  UNCHANGED vars
  BY <1>4 DEF Cancelling, AskCancel, StoreCancel
<1>5. ASSUME NEW m \in Maintainer, Files(m)
      PROVE  UNCHANGED vars
  BY <1>5 DEF Files, Preflight, PreflightFails, CheckOriginal, MoveOriginal, MoveReplacement,
              StageFails, UndoReplacement, UndoOriginal, RollbackFails, BackUpFirst, CancelImport
<1>6. ASSUME NEW m \in Maintainer, Serving(m)
      PROVE  UNCHANGED vars
  BY <1>6 DEF Serving, StopActive, Drained, Publish, PublishFails, Salvage, SalvageFails,
              VerifyReplacement, ReopenOriginal, ReplaceFromArchive
<1>7. ASSUME NEW m \in Maintainer, Preparing(m) \/ Bounding(m)
      PROVE  UNCHANGED vars
  BY <1>7 DEF Preparing, Bounding, CloseHistory, RefuseBegin, Prepare, PrepareFails,
              CancelledEarly, ClearCancel, Quiesce, Begin, EndOperation, ReleaseHistory
<1>8. UseHistory => UNCHANGED vars
  BY DEF UseHistory
<1> QED  BY MSteps, <1>1, <1>2, <1>3, <1>4, <1>5, <1>6, <1>7, <1>8

\* Whatever the shell does beside it, the sync runtime only takes its own
\* steps: what is proved of it above holds during restores and imports.
THEOREM ImplementsRuntime == MSpec => Spec
<1>1. MInit => Init
  BY DEF MInit
<1>2. [MNext]_mvars => [Next]_vars
  <2>1. UNCHANGED mvars => UNCHANGED vars
    BY DEF mvars
  <2>2. SyncStep => Next
    BY DEF SyncStep
  <2> QED  BY <2>1, <2>2, Aside
<1> QED  BY <1>1, <1>2, PTL DEF MSpec, Spec

\* Where a command runs inside its operation.
Operating ==
    {"begun", "prepared", "stopping", "stopped", "checking", "verified", "moved",
     "placed", "replaced", "undoing", "reopening", "rolledBack", "copied",
     "imported", "failed", "ending"}
StepName  == Operating \cup {"out", "quiescing", "quiet", "dropping", "leaving", "left"}
PlaceName == {"idle", "cloned", "waiting", "copying", "ending", "dropping", "storing"}

\* A command runs inside the suspension of sync, keeps the AI history closed,
\* and is the one operation; a backup is one as well.
Owned ==
    /\ step \in [Maintainer -> StepName] /\ place \in [Shell -> PlaceName]
    /\ \A m \in Maintainer :
          /\ step[m] # "out" => pc[m] = "maintaining"
          /\ step[m] \notin {"out", "left"} => m \in quiesced
          /\ step[m] \in Operating => operation = m
    /\ \A b \in Copier : place[b] \in {"copying", "ending"} => operation = b

\* A step of command m inside its operation, or outside of it.
Moves(m) ==
    /\ step' = [step EXCEPT ![m] = step'[m]]
    /\ UNCHANGED <<place, operation, quiesced>>
    /\ pc[m] = "maintaining"
    /\ \/ step[m] \in Operating /\ step'[m] \in Operating
       \/ step[m] \in StepName \ {"out", "left"} /\ step'[m] \in {"quiet", "leaving", "left"}

LEMMA FilesMove ==
    ASSUME Owned, NEW m \in Maintainer, Files(m)
    PROVE  Moves(m)
<1> USE DEF Owned, Moves, At, Step, Stopping, Operating, StepName, command, shell, mutex
<1>1. CASE Preflight(m) \/ PreflightFails(m) \/ CheckOriginal(m) \/ StageFails(m)
  BY <1>1 DEF Preflight, PreflightFails, CheckOriginal, StageFails
<1>2. CASE MoveOriginal(m) \/ MoveReplacement(m) \/ UndoReplacement(m)
  BY <1>2 DEF MoveOriginal, MoveReplacement, UndoReplacement
<1>3. CASE UndoOriginal(m) \/ RollbackFails(m) \/ BackUpFirst(m) \/ CancelImport(m)
  BY <1>3 DEF UndoOriginal, RollbackFails, BackUpFirst, CancelImport
<1> QED  BY <1>1, <1>2, <1>3 DEF Files

LEMMA ServingMove ==
    ASSUME Owned, NEW m \in Maintainer, Serving(m)
    PROVE  Moves(m)
<1> USE DEF Owned, Moves, At, Step, Report, Operating, StepName, command, shell, mutex
<1>1. CASE StopActive(m) \/ Drained(m) \/ Publish(m) \/ PublishFails(m)
  BY <1>1 DEF StopActive, Drained, Publish, PublishFails
<1>2. CASE Salvage(m) \/ SalvageFails(m) \/ VerifyReplacement(m)
  BY <1>2 DEF Salvage, SalvageFails, VerifyReplacement
<1>3. CASE ReopenOriginal(m) \/ ReplaceFromArchive(m)
  BY <1>3 DEF ReopenOriginal, ReplaceFromArchive
<1> QED  BY <1>1, <1>2, <1>3 DEF Serving

LEMMA PreparingMoves ==
    ASSUME Owned, NEW m \in Maintainer, Preparing(m)
    PROVE  Moves(m)
<1> USE DEF Owned, Moves, At, Step, Report, Operating, StepName, command, shell, mutex
<1>1. CASE CloseHistory(m) \/ RefuseBegin(m) \/ Prepare(m)
  BY <1>1 DEF CloseHistory, RefuseBegin, Prepare
<1>2. CASE PrepareFails(m) \/ CancelledEarly(m) \/ ClearCancel(m)
  BY <1>2 DEF PrepareFails, CancelledEarly, ClearCancel
<1> QED  BY <1>1, <1>2 DEF Preparing

\* The lock on the operation lets one in at a time.
LEMMA OwnedHolds == MSpec => []Owned
<1>1. MInit => Owned
  <2>1. MInit => /\ step = [m \in Maintainer |-> "out"]
                 /\ place = [t \in Shell |-> "idle"]
    BY DEF MInit
  <2> QED  BY <2>1, MaintenanceAssumption DEF Owned, StepName, PlaceName, Operating, Shell
<1>2. Owned /\ [MNext]_mvars => Owned'
  <2> SUFFICES ASSUME Owned, [MNext]_mvars
               PROVE  Owned'
    OBVIOUS
  <2>1. CASE SyncStep
    <3>1. /\ \A m \in Maintainer : Unsuspend(m) => step[m] = "left"
          /\ step' = [m \in Maintainer |-> IF Unsuspend(m) THEN "out" ELSE step[m]]
          /\ UNCHANGED <<place, operation, quiesced>>
      BY <2>1 DEF SyncStep, Beside, shell, mutex
    <3>2. ASSUME NEW m \in Maintainer, step'[m] # "out"
          PROVE  step'[m] = step[m] /\ pc'[m] = "maintaining"
      BY <3>1, <3>2 DEF Owned, Unsuspend
    <3> QED  BY <3>1, <3>2 DEF Owned, StepName, Operating
  <2>2. CASE UNCHANGED mvars
    BY <2>2 DEF mvars, vars, command, shell, mutex, Owned
  <2> SUFFICES ASSUME MNext, ~SyncStep
               PROVE  Owned'
    BY <2>1, <2>2
  <2>3. pc' = pc
    BY Aside DEF vars
  <2>4. ASSUME NEW m \in Maintainer, Moves(m)
        PROVE  Owned'
    BY <2>3, <2>4 DEF Owned, Moves, Operating, StepName
  <2>5. ASSUME NEW m \in Maintainer, Bounding(m)
        PROVE  Owned'
    <3> USE <2>3, MaintenanceAssumption, RuntimeAssumption
        DEF Owned, At, Step, command, shell, mutex, Thread, Shell, StepName, Operating
    <3>1. CASE \E k \in {"restore", "import"} : Quiesce(m, k)
      BY <3>1 DEF Quiesce
    <3>2. CASE Begin(m)
      BY <3>2 DEF Begin
    <3>3. CASE EndOperation(m)
      BY <3>3 DEF EndOperation
    <3>4. CASE ReleaseHistory(m)
      BY <3>4 DEF ReleaseHistory
    <3> QED  BY <2>5, <3>1, <3>2, <3>3, <3>4 DEF Bounding
  <2>6. ASSUME NEW b \in Copier, Copying(b)
        PROVE  Owned'
    <3> USE <2>3, MaintenanceAssumption, RuntimeAssumption
        DEF Owned, Enter, Ask, command, storage, mutex, Thread, Shell, PlaceName
    <3>1. CASE BeginCopy(b)
      BY <3>1 DEF BeginCopy
    <3>2. CASE Copy(b)
      BY <3>2 DEF Copy
    <3>3. CASE EndCopy(b)
      BY <3>3 DEF EndCopy
    <3>4. CASE DropCopy(b)
      BY <3>4 DEF DropCopy
    <3> QED  BY <2>6, <3>1, <3>2, <3>3, <3>4 DEF Copying
  <2>7. ASSUME NEW s \in Saver, CallSave(s) \/ Submit(s)
        PROVE  Owned'
    BY <2>3, <2>7, MaintenanceAssumption DEF CallSave, Submit, Enter, Owned, command, mutex, Shell, PlaceName
  <2>8. ASSUME NEW x \in Canceller, Cancelling(x)
        PROVE  Owned'
    BY <2>3, <2>8, MaintenanceAssumption DEF Cancelling, AskCancel, StoreCancel, Enter, Owned, command, mutex, Shell, PlaceName
  <2>9. ASSUME StorageEnds \/ UseHistory
        PROVE  Owned'
    BY <2>3, <2>9 DEF StorageEnds, UseHistory, Owned, command, shell, mutex
  <2>10. ASSUME NEW n \in 1..Len(queue), Answer(n)
         PROVE  Owned'
    <3>1. /\ place' = [t \in Shell |-> place'[t]]
          /\ \A t \in Shell : place'[t] \in {"idle", place[t]}
          /\ \A t \in Shell \ Saver : place'[t] = place[t]
      BY <2>10 DEF Answer
    <3>2. UNCHANGED <<step, operation, quiesced>>
      BY <2>10 DEF Answer, command, mutex
    <3> QED  BY <2>3, <3>1, <3>2, MaintenanceAssumption DEF Owned, Shell, PlaceName
  <2> QED  BY MSteps, <2>4, <2>5, <2>6, <2>7, <2>8, <2>9, <2>10, FilesMove, ServingMove, PreparingMoves
<1> QED  BY <1>1, <1>2, PTL DEF MSpec

-----------------------------------------------------------------------------
(* The swap has the file for itself                                          *)

\* From the join of its thread until a database is open again no storage
\* runtime runs.
Vacant ==
    \A m \in Maintainer :
        step[m] \in {"stopped", "checking", "verified", "moved", "placed",
                     "undoing", "reopening", "copied", "failed"}
            => "runtime" \notin open

\* No worker starts while a restore or an import has the database.
LEMMA NobodyStarts ==
    ASSUME Typed, Shut, Next, NEW m \in Maintainer, pc[m] = "maintaining"
    PROVE  alive' \subseteq alive
<1>1. ASSUME NEW c \in Connector, Start(c)
      PROVE  FALSE
  BY <1>1 DEF Start, Shut, Closing, PastReuse
<1>2. ASSUME NEW c \in Connector,
             \/ \E s \in Session : CallConnect(c, s)
             \/ EnterGate(c) \/ RefuseConnect(c) \/ PassMaintenance(c)
             \/ Reuse(c) \/ StopOld(c) \/ LoadEpoch(c) \/ LinkFails(c) \/ GiveUp(c)
      PROVE  alive' = alive
  BY <1>2 DEF CallConnect, EnterGate, RefuseConnect, PassMaintenance, Reuse, StopOld,
              LoadEpoch, LinkFails, GiveUp, workers
<1>3. ASSUME NEW t \in Thread, CancelHeld(t) \/ Join(t)
      PROVE  alive' = alive
  BY <1>3 DEF CancelHeld, Join, workers
<1>4. ASSUME NEW t, \/ Pause(t) \/ CallSuspend(t) \/ Suspend(t) \/ StopForMaintenance(t)
                    \/ EndMaintenance(t) \/ OpenWorkspace(t) \/ CloseWorkspace(t)
      PROVE  alive' = alive
  BY <1>4 DEF Pause, CallSuspend, Suspend, StopForMaintenance, EndMaintenance,
              OpenWorkspace, CloseWorkspace, workers
<1>5. ASSUME NEW w \in Worker, SessionEnds(w) \/ WorkerExits(w)
      PROVE  alive' \subseteq alive
  BY <1>5 DEF SessionEnds, WorkerExits
<1> QED  BY Steps, <1>1, <1>2, <1>3, <1>4, <1>5

\* Two commands are never both inside their operation.
LEMMA OneOperates ==
    ASSUME Owned, NEW m \in Maintainer, NEW n \in Maintainer,
           step[m] \in Operating, step[n] \in Operating
    PROVE  m = n
BY DEF Owned

LEMMA AtWork ==
    ASSUME NEW m \in Maintainer, Files(m) \/ Serving(m)
    PROVE  step[m] \in Operating
BY DEF Files, Serving, At, Stopping, Operating, Preflight, PreflightFails, CheckOriginal,
       MoveOriginal, MoveReplacement, StageFails, UndoReplacement, UndoOriginal, RollbackFails,
       BackUpFirst, CancelImport, StopActive, Drained, Publish, PublishFails, Salvage,
       SalvageFails, VerifyReplacement, ReopenOriginal, ReplaceFromArchive

\* Nobody else opens the database while a command is inside its operation.
LEMMA OthersStayOut ==
    ASSUME Owned, MNext, ~SyncStep, NEW m \in Maintainer, step[m] \in Operating,
           ~Files(m), ~Serving(m)
    PROVE  open' \subseteq open
<1>1. ASSUME NEW s \in Saver, CallSave(s) \/ Submit(s)
      PROVE  open' \subseteq open
  BY <1>1 DEF CallSave, Submit
<1>2. ASSUME StorageEnds \/ \E n \in 1..Len(queue) : Answer(n)
      PROVE  open' \subseteq open
  BY <1>2 DEF StorageEnds, Answer
<1>3. ASSUME NEW b \in Copier, Copying(b)
      PROVE  open' \subseteq open
  <2>1. operation # None
    BY MaintenanceAssumption, RuntimeAssumption DEF Owned, Thread
  <2> QED  BY <1>3, <2>1 DEF Copying, BeginCopy, Copy, EndCopy, DropCopy
<1>4. ASSUME NEW x \in Canceller, Cancelling(x)
      PROVE  open' \subseteq open
  BY <1>4 DEF Cancelling, AskCancel, StoreCancel
<1>5. ~UseHistory
  BY DEF UseHistory, Owned, Operating
<1>6. ASSUME NEW n \in Maintainer, Files(n) \/ Serving(n)
      PROVE  n = m
  BY <1>6, AtWork, OneOperates
<1>7. ASSUME NEW n \in Maintainer, Preparing(n) \/ Bounding(n)
      PROVE  open' \subseteq open
  BY <1>7 DEF Preparing, Bounding, CloseHistory, RefuseBegin, Prepare, PrepareFails,
              CancelledEarly, ClearCancel, Quiesce, Begin, EndOperation, ReleaseHistory
<1> QED  BY MSteps, <1>1, <1>2, <1>3, <1>4, <1>5, <1>6, <1>7

\* A command that is not at work on the files does not get to them.
LEMMA OthersStayOff ==
    ASSUME Owned, MNext, ~SyncStep, NEW m \in Maintainer, ~Files(m), ~Serving(m),
           step'[m] \in Operating \ {"begun", "prepared", "ending"}
    PROVE  step[m] = step'[m]
<1>1. ASSUME NEW n \in Maintainer, Files(n) \/ Serving(n)
      PROVE  step[m] = step'[m]
  <2>1. Moves(n)
    BY <1>1, FilesMove, ServingMove
  <2> QED  BY <1>1, <2>1 DEF Moves, Owned
<1>2. ASSUME NEW n \in Maintainer, Preparing(n) \/ Bounding(n)
      PROVE  step[m] = step'[m]
  BY <1>2 DEF Owned, Step, Operating, Preparing, Bounding, CloseHistory, RefuseBegin, Prepare,
              PrepareFails, CancelledEarly, ClearCancel, Quiesce, Begin, EndOperation, ReleaseHistory
<1>3. ASSUME \/ \E s \in Saver : CallSave(s) \/ Submit(s)
             \/ StorageEnds \/ \E n \in 1..Len(queue) : Answer(n)
             \/ \E b \in Copier : Copying(b)
             \/ \E x \in Canceller : Cancelling(x)
             \/ UseHistory
      PROVE  step' = step
  BY <1>3 DEF CallSave, Submit, StorageEnds, Answer, Copying, BeginCopy, Copy, EndCopy, DropCopy,
              Cancelling, AskCancel, StoreCancel, UseHistory, command
<1> QED  BY MSteps, <1>1, <1>2, <1>3

\* The database is renamed with nobody in it: who stops its users waits for
\* them, the look for sidecars finds the others, and nobody comes in after it.
LEMMA SwapSound == MSpec => [](SwapAlone /\ Vacant)
<1>1. MInit => SwapAlone /\ Vacant
  <2>1. MInit => \A m \in Maintainer : step[m] = "out"
    BY DEF MInit
  <2> QED  BY <2>1 DEF SwapAlone, Vacant
<1>2. Typed /\ Shut /\ Shut' /\ Owned /\ SwapAlone /\ Vacant /\ [MNext]_mvars
        => (SwapAlone /\ Vacant)'
  <2> SUFFICES ASSUME Typed, Shut, Shut', Owned, SwapAlone, Vacant, [MNext]_mvars
               PROVE  (SwapAlone /\ Vacant)'
    OBVIOUS
  <2>1. CASE SyncStep
    <3>1. /\ open' = open
          /\ \A m \in Maintainer : step'[m] # "out" => step'[m] = step[m] /\ pc'[m] = "maintaining"
      BY <2>1 DEF SyncStep, Beside, Owned, Unsuspend
    <3>2. ASSUME NEW m \in Maintainer,
                 step'[m] \in {"verified", "moved", "placed", "undoing"}
          PROVE  ~InUse'
      <4>1. /\ step[m] = step'[m] /\ pc[m] = "maintaining" /\ pc'[m] = "maintaining"
        BY <3>1, <3>2 DEF Owned
      <4>2. alive = {} /\ open = {}
        BY <3>2, <4>1 DEF SwapAlone, InUse
      <4>3. alive' = {}
        BY <2>1, <4>1, <4>2, NobodyStarts DEF SyncStep
      <4> QED  BY <3>1, <4>1, <4>2, <4>3 DEF InUse, Shut, Closing, PastReuse
    <3> QED  BY <3>1, <3>2 DEF SwapAlone, Vacant
  <2>2. CASE UNCHANGED mvars
    BY <2>2 DEF mvars, vars, workers, command, SwapAlone, Vacant, InUse
  <2> SUFFICES ASSUME MNext, ~SyncStep
               PROVE  (SwapAlone /\ Vacant)'
    BY <2>1, <2>2
  <2>3. /\ pc' = pc /\ alive' = alive
        /\ open' \subseteq open /\ ~InUse => ~InUse'
    BY Aside DEF vars, workers, InUse
  <2>4. ASSUME NEW m \in Maintainer, Files(m)
        PROVE  /\ step'[m] \in {"verified", "moved", "placed", "undoing"} => ~InUse'
               /\ "runtime" \notin open'
    <3> USE DEF At, Step, Stopping, Owned, SwapAlone, Vacant
    <3>1. CASE Preflight(m) \/ PreflightFails(m) \/ CheckOriginal(m) \/ StageFails(m)
      BY <2>3, <3>1 DEF Preflight, PreflightFails, CheckOriginal, StageFails, SidecarsAbsent
    <3>2. CASE MoveOriginal(m) \/ MoveReplacement(m) \/ UndoReplacement(m)
      BY <2>3, <3>2 DEF MoveOriginal, MoveReplacement, UndoReplacement
    <3>3. CASE UndoOriginal(m) \/ RollbackFails(m) \/ BackUpFirst(m) \/ CancelImport(m)
      BY <2>3, <3>3 DEF UndoOriginal, RollbackFails, BackUpFirst, CancelImport
    <3> QED  BY <2>4, <3>1, <3>2, <3>3 DEF Files
  <2>5. ASSUME NEW m \in Maintainer, Serving(m)
        PROVE  /\ step'[m] \notin {"verified", "moved", "placed", "undoing"}
               /\ step'[m] \in {"stopped", "checking", "reopening", "copied", "failed"}
                    => "runtime" \notin open'
    <3> USE DEF At, Step, Report, Owned, Vacant
    <3>1. CASE StopActive(m) \/ Drained(m) \/ Publish(m) \/ PublishFails(m)
      BY <3>1 DEF StopActive, Drained, Publish, PublishFails
    <3>2. CASE Salvage(m) \/ SalvageFails(m) \/ VerifyReplacement(m)
      BY <3>2 DEF Salvage, SalvageFails, VerifyReplacement
    <3>3. CASE ReopenOriginal(m) \/ ReplaceFromArchive(m)
      BY <3>3 DEF ReopenOriginal, ReplaceFromArchive
    <3> QED  BY <2>5, <3>1, <3>2, <3>3 DEF Serving
  <2>6. ASSUME NEW m \in Maintainer, ~Files(m), ~Serving(m),
               step'[m] \in Operating \ {"begun", "prepared", "ending"}
        PROVE  step[m] = step'[m] /\ open' \subseteq open
    BY <2>6, OthersStayOff, OthersStayOut
  <2>7. SwapAlone'
    BY <2>3, <2>4, <2>5, <2>6 DEF SwapAlone, Operating
  <2>8. Vacant'
    BY <2>4, <2>5, <2>6 DEF Vacant, Operating
  <2> QED  BY <2>7, <2>8
<1> QED  BY <1>1, <1>2, ImplementsRuntime, TypeCorrect, ShutHolds, OwnedHolds, PTL DEF MSpec

\* From the check of the original until a database is open again nobody has
\* one open at the path that is renamed (replace_live_database), for any
\* number of threads, saves, faults and operations.
THEOREM SwapAloneHolds == MSpec => []SwapAlone
BY SwapSound, PTL
-----------------------------------------------------------------------------
(* No answered save is lost                                                  *)

Filed ==
    /\ canonical \in File /\ candidate \in File /\ backup \in File
    /\ copies \in [Stamp -> File]
    /\ stamp \in Nat /\ asked \in Nat
    /\ operation \in Maintainer => stamp \in Stamp
    /\ queue \in Seq(Save)
    /\ save \in [Saver -> Nat]
    /\ \A s \in Saver : place[s] = "cloned" => save[s] \in Save

LEMMA FileFacts ==
    /\ None \in File /\ {} \in File /\ {0} \in File /\ {Archived} \in File
    /\ \A F \in File : Opened(F) \in File /\ Opened(F) # None
    /\ \A F \in File, stored \in SUBSET Save :
          Opened(F) \cup stored \in File /\ Opened(F) \cup stored # None
<1>1. MaxAsked \in Nat /\ \A F \in SUBSET (0..Archived) : F # None
  BY MaintenanceAssumption
<1>2. 0 \in 0..Archived /\ Archived \in 0..Archived /\ Save \subseteq 0..Archived
  BY <1>1 DEF Archived, Save
<1>3. \A F \in SUBSET (0..Archived) : F \in File /\ F # None
  BY <1>1 DEF File
<1>4. None \in File /\ {} \in File /\ {0} \in File /\ {Archived} \in File
  BY <1>2, <1>3 DEF File
<1>5. \A F \in File : Opened(F) \in SUBSET (0..Archived)
  BY <1>3 DEF File, Opened
<1> QED  BY <1>2, <1>3, <1>4, <1>5

LEMMA FilesFiled ==
    ASSUME Owned, Filed, NEW m \in Maintainer, Files(m)
    PROVE  Filed'
<1> USE FileFacts DEF Filed, storage, shell, mutex
<1>1. CASE Preflight(m) \/ PreflightFails(m) \/ CheckOriginal(m) \/ StageFails(m)
  BY <1>1 DEF Preflight, PreflightFails, CheckOriginal, StageFails, files
<1>2. CASE MoveOriginal(m)
  BY <1>2 DEF MoveOriginal
<1>3. CASE MoveReplacement(m) \/ UndoReplacement(m)
  BY <1>3 DEF MoveReplacement, UndoReplacement
<1>4. CASE UndoOriginal(m)
  <2>1. /\ canonical' = copies[stamp] /\ copies' = [copies EXCEPT ![stamp] = None]
        /\ UNCHANGED <<candidate, backup, stamp, operation, asked, queue, save, place>>
    BY <1>4 DEF UndoOriginal, BackInPlace
  <2>2. stamp \in Stamp /\ operation' = operation
    BY <1>4, AtWork DEF UndoOriginal, Owned
  <2> QED  BY <2>1, <2>2
<1>5. CASE RollbackFails(m)
  BY <1>5 DEF RollbackFails, files
<1>6. CASE BackUpFirst(m) \/ CancelImport(m)
  BY <1>6 DEF BackUpFirst, CancelImport
<1> QED  BY <1>1, <1>2, <1>3, <1>4, <1>5, <1>6 DEF Files

LEMMA ServingFiled ==
    ASSUME Filed, NEW m \in Maintainer, Serving(m)
    PROVE  Filed'
<1> USE FileFacts DEF Filed, shell, mutex
<1>1. CASE StopActive(m) \/ Drained(m) \/ VerifyReplacement(m) \/ ReopenOriginal(m)
  BY <1>1 DEF StopActive, Drained, VerifyReplacement, ReopenOriginal, files, storage
<1>2. CASE Publish(m) \/ PublishFails(m)
  BY <1>2 DEF Publish, PublishFails
<1>3. CASE Salvage(m) \/ SalvageFails(m)
  BY <1>3 DEF Salvage, SalvageFails, KeptCopies, storage
<1>4. CASE ReplaceFromArchive(m)
  <2>1. /\ canonical' = canonical \/ canonical' = {Archived}
        /\ UNCHANGED <<candidate, copies, backup, stamp, operation, asked, queue, save, place>>
    BY <1>4 DEF ReplaceFromArchive
  <2> QED  BY <2>1
<1> QED  BY <1>1, <1>2, <1>3, <1>4 DEF Serving

LEMMA FiledHolds == MSpec => []Filed
<1>1. MInit => Filed
  <2> SUFFICES ASSUME MInit
               PROVE  Filed
    OBVIOUS
  <2>1. canonical \in File /\ candidate \in File /\ backup \in File
    BY FileFacts DEF MInit
  <2>2. copies \in [Stamp -> File]
    <3>1. copies = [n \in Stamp |-> None]
      BY DEF MInit
    <3> QED  BY <3>1, FileFacts
  <2>3. stamp \in Nat /\ asked \in Nat /\ queue \in Seq(Save)
    BY DEF MInit
  <2>4. operation \notin Maintainer
    BY RuntimeAssumption DEF MInit, Thread
  <2>5. save \in [Saver -> Nat]
    <3>1. save = [s \in Saver |-> 0]
      BY DEF MInit
    <3> QED  BY <3>1
  <2>6. \A s \in Saver : place[s] # "cloned"
    <3>1. place = [t \in Shell |-> "idle"]
      BY DEF MInit
    <3> QED  BY <3>1 DEF Shell
  <2> QED  BY <2>1, <2>2, <2>3, <2>4, <2>5, <2>6 DEF Filed
<1>2. Owned /\ Filed /\ [MNext]_mvars => Filed'
  <2> SUFFICES ASSUME Owned, Filed, [MNext]_mvars
               PROVE  Filed'
    OBVIOUS
  <2> USE FileFacts, MaintenanceAssumption
  <2>0. None \notin Maintainer /\ Copier \cap Maintainer = {}
    BY MaintenanceAssumption, RuntimeAssumption DEF Thread
  <2>1. CASE SyncStep
    BY <2>1 DEF SyncStep, Beside, Filed, storage, shell, mutex
  <2>2. CASE UNCHANGED mvars
    BY <2>2 DEF mvars, files, storage, shell, mutex, Filed
  <2>3. ASSUME NEW s \in Saver, CallSave(s)
        PROVE  Filed'
    <3>1. /\ asked' = asked + 1 /\ asked' \in Save
          /\ save' = [save EXCEPT ![s] = asked']
          /\ place' = [place EXCEPT ![s] = "cloned"]
          /\ UNCHANGED <<canonical, candidate, copies, backup, stamp, operation, queue>>
      BY <2>3 DEF CallSave, Ask, Enter, Filed, files, storage, mutex, Save
    <3>2. asked' \in Nat
      BY <3>1 DEF Filed
    <3>3. save' \in [Saver -> Nat]
      BY <3>1, <3>2 DEF Filed
    <3>4. \A t \in Saver : place'[t] = "cloned" => save'[t] \in Save
      BY <3>1 DEF Filed, Owned, Shell
    <3> QED  BY <3>1, <3>2, <3>3, <3>4 DEF Filed
  <2>4. ASSUME NEW s \in Saver, Submit(s)
        PROVE  Filed'
    <3>1. /\ \/ queue' = Append(queue, save[s]) /\ save[s] \in Save
             \/ queue' = queue
          /\ \A t \in Saver : place'[t] = "cloned" => place[t] = "cloned"
          /\ UNCHANGED <<canonical, candidate, copies, backup, stamp, operation, asked, save>>
      BY <2>4 DEF Submit, Enter, Filed, files, mutex, Owned, Shell
    <3>2. queue' \in Seq(Save)
      BY <3>1 DEF Filed
    <3> QED  BY <3>1, <3>2 DEF Filed
  <2>5. ASSUME NEW n \in 1..Len(queue), Answer(n)
        PROVE  Filed'
    <3>1. SubSeq(queue, n + 1, Len(queue)) \in Seq(Save)
      BY DEF Filed
    <3>2. {queue[i] : i \in 1..n} \subseteq Save
      BY DEF Filed
    <3>3. PICK stored \in SUBSET Save : canonical' = Opened(canonical) \cup stored
      BY <2>5, <3>2 DEF Answer
    <3>4. /\ queue' = SubSeq(queue, n + 1, Len(queue))
          /\ \A t \in Saver : place'[t] = "cloned" => place[t] = "cloned"
          /\ UNCHANGED <<candidate, copies, backup, stamp, operation, asked, save>>
      BY <2>5 DEF Answer, mutex, Shell
    <3> QED  BY <3>1, <3>3, <3>4 DEF Filed
  <2>6. ASSUME NEW b \in Copier, Copying(b)
        PROVE  Filed'
    <3>1. b \notin Saver /\ b \in Shell
      BY DEF Shell
    <3> QED  BY <2>0, <2>6, <3>1 DEF Copying, BeginCopy, Copy, EndCopy, DropCopy, Ask, Enter, Filed, files,
                storage, mutex, Owned, Shell
  <2>7. ASSUME NEW x \in Canceller, Cancelling(x)
        PROVE  Filed'
    <3>1. x \notin Saver /\ x \in Shell
      BY DEF Shell
    <3> QED  BY <2>7, <3>1 DEF Cancelling, AskCancel, StoreCancel, Ask, Enter, Filed, files,
                storage, mutex, Owned, Shell
  <2>8. ASSUME StorageEnds \/ UseHistory
        PROVE  Filed'
    BY <2>8 DEF StorageEnds, UseHistory, Filed, files, storage, shell, mutex
  <2>9. ASSUME NEW m \in Maintainer, Preparing(m) \/ Bounding(m)
        PROVE  Filed'
    <3>1. CASE Preparing(m)
      BY <3>1 DEF Preparing, CloseHistory, RefuseBegin, Prepare, PrepareFails,
         CancelledEarly, ClearCancel, Filed, files, storage, shell, mutex
    <3>2. CASE Bounding(m)
      BY <2>0, <3>2 DEF Bounding, Quiesce, Begin, EndOperation, ReleaseHistory, Filed, files, storage, shell, mutex
    <3> QED  BY <2>9, <3>1, <3>2
  <2> QED  BY MSteps, FilesFiled, ServingFiled, <2>1, <2>2, <2>3, <2>4, <2>5, <2>6, <2>7, <2>8, <2>9
<1> QED  BY <1>1, <1>2, OwnedHolds, PTL DEF MSpec

Fresh    == {"begun", "prepared", "stopping", "stopped", "checking", "verified"}
Intact   == {"checking", "verified"}
Swapping == {"moved", "placed", "undoing"}

InCopies(s) == \E n \in Stamp : copies[n] # None /\ s \in copies[n]

\* The name of the operation's copy is free until it is made; then the copy
\* holds what the database held, and every answered save is in some copy
\* while the database is being exchanged.
Kept ==
    /\ AnsweredIsKept
    /\ \A n \in Stamp : n > stamp => copies[n] = None
    /\ \A m \in Maintainer :
          /\ step[m] \in Fresh => copies[stamp] = None
          /\ step[m] \in Intact => canonical # None
          /\ step[m] \in Swapping =>
               copies[stamp] # None /\ \A s \in answered : InCopies(s)
          /\ step[m] = "copied" => canonical # None /\ copies[stamp] = canonical

\* Nothing is answered or copied and nobody gets to the exchange.
Quietly ==
    /\ UNCHANGED <<copies, stamp, answered>>
    /\ canonical' = canonical \/ canonical' = Opened(canonical)
    /\ \A m \in Maintainer :
          /\ step'[m] \in Fresh => step[m] \in Fresh
          /\ step'[m] \in Intact => step[m] \in Intact
          /\ step'[m] \in Swapping => step[m] \in Swapping
          /\ step'[m] = "copied" => step[m] = "copied"

LEMMA QuietKeeps ==
    ASSUME Kept, Quietly, Filed
    PROVE  Kept'
<1>1. /\ UNCHANGED <<copies, stamp, answered>>
      /\ canonical # None => canonical' = canonical
  BY DEF Quietly, Opened
<1>2. AnsweredIsKept'
  BY <1>1 DEF Kept, AnsweredIsKept
<1>3. \A n \in Stamp : n > stamp' => copies'[n] = None
  BY <1>1 DEF Kept
<1>4. ASSUME NEW m \in Maintainer
      PROVE  /\ step'[m] \in Fresh => copies'[stamp'] = None
             /\ step'[m] \in Intact => canonical' # None
             /\ step'[m] \in Swapping =>
                  copies'[stamp'] # None /\ \A s \in answered' : InCopies(s)'
             /\ step'[m] = "copied" => canonical' # None /\ copies'[stamp'] = canonical'
  BY <1>1 DEF Kept, Quietly, InCopies
<1> QED  BY <1>2, <1>3, <1>4 DEF Kept

\* What goes on besides the exchange is quiet, except an answer and the begin
\* of an operation.
LEMMA QuietSync ==
    ASSUME Owned, SyncStep
    PROVE  Quietly
<1>1. \A m \in Maintainer : step'[m] = "out" \/ step'[m] = step[m]
  BY DEF SyncStep, Beside
<1>2. /\ UNCHANGED <<copies, stamp, answered>>
      /\ canonical' = canonical \/ canonical' = Opened(canonical)
  BY DEF SyncStep, Beside, mutex, told
<1> QED  BY <1>1, <1>2 DEF Quietly, Fresh, Intact, Swapping

LEMMA QuietShell ==
    ASSUME MNext, ~SyncStep, \A n \in 1..Len(queue) : ~Answer(n),
           \A m \in Maintainer : ~Files(m) /\ ~Serving(m) /\ ~Preparing(m) /\ ~Bounding(m)
    PROVE  Quietly
<1> USE DEF Quietly, files, told, command, mutex
<1>1. ASSUME NEW s \in Saver, CallSave(s) \/ Submit(s)
      PROVE  Quietly
  BY <1>1 DEF CallSave, Submit
<1>2. ASSUME NEW b \in Copier, Copying(b)
      PROVE  Quietly
  BY <1>2 DEF Copying, BeginCopy, Copy, EndCopy, DropCopy
<1>3. ASSUME NEW x \in Canceller, Cancelling(x)
      PROVE  Quietly
  BY <1>3 DEF Cancelling, AskCancel, StoreCancel
<1>4. CASE StorageEnds \/ UseHistory
  BY <1>4 DEF StorageEnds, UseHistory
<1> QED  BY MSteps, <1>1, <1>2, <1>3, <1>4

LEMMA QuietCommand ==
    ASSUME Owned, NEW m \in Maintainer,
           \/ Preparing(m) \/ (Bounding(m) /\ ~Begin(m))
           \/ Serving(m) /\ ~ReplaceFromArchive(m)
           \/ PreflightFails(m) \/ CheckOriginal(m) \/ StageFails(m) \/ RollbackFails(m)
    PROVE  Quietly
<1> USE DEF Quietly, Owned, At, Step, Fresh, Intact, Swapping, files, told, mutex
<1>1. CASE Preparing(m)
  BY <1>1 DEF Preparing, CloseHistory, RefuseBegin, Prepare, PrepareFails, CancelledEarly, ClearCancel
<1>2. CASE Bounding(m) /\ ~Begin(m)
  BY <1>2 DEF Bounding, Quiesce, EndOperation, ReleaseHistory
<1>3. CASE StopActive(m) \/ Drained(m) \/ Publish(m) \/ PublishFails(m)
  BY <1>3 DEF StopActive, Drained, Publish, PublishFails
<1>4. CASE Salvage(m) \/ SalvageFails(m)
  BY <1>4 DEF Salvage, SalvageFails, KeptCopies
<1>5. CASE VerifyReplacement(m) \/ ReopenOriginal(m)
  BY <1>5 DEF VerifyReplacement, ReopenOriginal
<1>6. CASE PreflightFails(m) \/ CheckOriginal(m)
  BY <1>6 DEF PreflightFails, CheckOriginal, Stopping
<1>7. CASE StageFails(m) \/ RollbackFails(m)
  BY <1>7 DEF StageFails, RollbackFails
<1> QED  BY <1>1, <1>2, <1>3, <1>4, <1>5, <1>6, <1>7 DEF Serving

LEMMA KeptHolds == MSpec => []Kept
<1>1. MInit => Kept
  <2> SUFFICES ASSUME MInit
               PROVE  Kept
    OBVIOUS
  <2>1. \A n \in Stamp : copies[n] = None
    <3>1. copies = [n \in Stamp |-> None]
      BY DEF MInit
    <3> QED  BY <3>1
  <2>2. \A m \in Maintainer : step[m] = "out"
    BY DEF MInit
  <2>3. answered = {0} /\ canonical = {0} /\ {0} # None
    <3>1. {0} \in SUBSET (0..Archived)
      BY MaintenanceAssumption DEF Archived
    <3> QED  BY <3>1, MaintenanceAssumption DEF MInit
  <2> QED  BY <2>1, <2>2, <2>3 DEF Kept, AnsweredIsKept, Fresh, Intact, Swapping
<1>2. Owned /\ Filed /\ Filed' /\ SwapAlone /\ Vacant /\ Kept /\ [MNext]_mvars => Kept'
  <2> SUFFICES ASSUME Owned, Filed, Filed', SwapAlone, Vacant, Kept, [MNext]_mvars
               PROVE  Kept'
    OBVIOUS
  <2>1. CASE SyncStep
    BY <2>1, QuietSync, QuietKeeps
  <2>2. CASE UNCHANGED mvars
    BY <2>2, QuietKeeps DEF mvars, files, mutex, command, told, Quietly
  <2> SUFFICES ASSUME MNext, ~SyncStep
               PROVE  Kept'
    BY <2>1, <2>2
  \* The storage runtime answers only where nobody exchanges its database.
  <2>3. ASSUME NEW n \in 1..Len(queue), Answer(n)
        PROVE  Kept'
    <3>1. PICK stored \in SUBSET {queue[i] : i \in 1..n} :
            /\ "runtime" \in open
            /\ canonical' = Opened(canonical) \cup stored
            /\ answered' = answered \cup stored
      BY <2>3 DEF Answer
    <3>2. UNCHANGED <<copies, stamp, step>>
      BY <2>3 DEF Answer, mutex, command
    <3>3. stored \in SUBSET Save
      BY DEF Filed
    <3>4. canonical' # None
      BY <3>1, <3>3, FileFacts DEF Filed
    <3>5. \A m \in Maintainer : step[m] \notin Swapping \cup {"copied"}
      BY <3>1 DEF SwapAlone, Vacant, InUse, Swapping
    <3>6. AnsweredIsKept'
      BY <3>1, <3>2, <3>4 DEF Kept, AnsweredIsKept, Opened
    <3> QED  BY <3>2, <3>4, <3>5, <3>6 DEF Kept
  <2>4. ASSUME NEW m \in Maintainer, Begin(m)
        PROVE  Kept'
    <3>1. /\ stamp' = stamp + 1 /\ stamp' \in Stamp
          /\ step' = [step EXCEPT ![m] = "begun"]
          /\ UNCHANGED <<canonical, copies, answered>>
      BY <2>4 DEF Begin, Step, files, told
    <3>2. \A n \in Maintainer : n # m => step[n] \notin Operating
      BY <2>4, RuntimeAssumption DEF Begin, Owned, Thread
    <3>3. \A n \in Stamp : n > stamp' => copies'[n] = None
      BY <3>1 DEF Kept, Filed, Stamp
    <3>4. copies'[stamp'] = None
      BY <3>1 DEF Kept, Filed, Stamp
    <3>5. \A n \in Maintainer : step'[n] = "begun" \/ step'[n] \notin Operating
      BY <3>1, <3>2 DEF Owned
    <3>6. AnsweredIsKept'
      BY <3>1 DEF Kept, AnsweredIsKept
    <3> QED  BY <3>3, <3>4, <3>5, <3>6 DEF Kept, Fresh, Intact, Swapping, Operating
  \* The steps of the exchange
  <2>5. ASSUME NEW m \in Maintainer, Files(m) \/ Serving(m),
               UNCHANGED <<stamp, answered>>,
               AnsweredIsKept',
               \A n \in Stamp : n > stamp => copies'[n] = copies[n],
               /\ step'[m] \in Fresh => copies'[stamp] = None
               /\ step'[m] \in Intact => canonical' # None
               /\ step'[m] \in Swapping =>
                    copies'[stamp] # None /\ \A s \in answered : InCopies(s)'
               /\ step'[m] = "copied" => canonical' # None /\ copies'[stamp] = canonical'
        PROVE  Kept'
    <3>1. \A n \in Maintainer : n = m \/ step'[n] \notin Operating
      BY <2>5, AtWork, FilesMove, ServingMove DEF Moves, Owned
    <3>2. ASSUME NEW n \in Maintainer
          PROVE  /\ step'[n] \in Fresh => copies'[stamp'] = None
                 /\ step'[n] \in Intact => canonical' # None
                 /\ step'[n] \in Swapping =>
                      copies'[stamp'] # None /\ \A s \in answered' : InCopies(s)'
                 /\ step'[n] = "copied" => canonical' # None /\ copies'[stamp'] = canonical'
      BY <2>5, <3>1 DEF Fresh, Intact, Swapping, Operating
    <3>3. \A n \in Stamp : n > stamp' => copies'[n] = None
      BY <2>5 DEF Kept
    <3> QED  BY <2>5, <3>2, <3>3 DEF Kept
  <2>6. ASSUME NEW m \in Maintainer, Files(m) \/ ReplaceFromArchive(m)
        PROVE  stamp \in Stamp /\ UNCHANGED <<stamp, answered>>
    <3>1. stamp \in Stamp
      BY <2>6, AtWork DEF Serving, Owned, Filed
    <3>2. CASE Files(m)
      BY <3>1, <3>2 DEF Files, Preflight, PreflightFails, CheckOriginal, MoveOriginal,
             MoveReplacement, StageFails, UndoReplacement, UndoOriginal, RollbackFails,
             BackUpFirst, CancelImport, mutex, told
    <3>3. CASE ReplaceFromArchive(m)
      BY <3>1, <3>3 DEF ReplaceFromArchive, mutex, told
    <3> QED  BY <2>6, <3>2, <3>3
  <2>7. ASSUME NEW m \in Maintainer, Preflight(m)
        PROVE  Kept'
    <3>1. /\ canonical # None /\ step[m] = "stopped" /\ step'[m] = "checking"
          /\ UNCHANGED <<canonical, copies, answered>>
      BY <2>7 DEF Preflight, Stopping, At, Step, files, told, Owned
    <3>2. AnsweredIsKept' /\ copies[stamp] = None
      BY <3>1 DEF Kept, AnsweredIsKept, Fresh
    <3> QED  BY <2>5, <2>6, <2>7, <3>1, <3>2 DEF Files, Fresh, Intact, Swapping
  \* The database takes the free name.
  <2>8. ASSUME NEW m \in Maintainer, MoveOriginal(m)
        PROVE  Kept'
    <3>1. /\ step[m] = "verified" /\ step'[m] \in {"moved", "undoing"}
          /\ copies' = [copies EXCEPT ![stamp] = canonical]
          /\ canonical' = None
      BY <2>8 DEF MoveOriginal, At, Step, Owned
    <3>2. stamp \in Stamp /\ UNCHANGED <<stamp, answered>>
      BY <2>6, <2>8 DEF Files
    <3>3. copies[stamp] = None /\ canonical # None
      BY <3>1 DEF Kept, Fresh, Intact
    <3>4. copies'[stamp] = canonical /\ \A n \in Stamp : n # stamp => copies'[n] = copies[n]
      BY <3>1, <3>2 DEF Filed
    <3>5. \A s \in answered : InCopies(s)'
      BY <3>2, <3>3, <3>4 DEF Kept, AnsweredIsKept, InCopies
    <3>6. AnsweredIsKept'
      BY <3>2, <3>5 DEF AnsweredIsKept, InCopies
    <3>7. \A n \in Stamp : n > stamp => copies'[n] = copies[n]
      BY <3>4 DEF Filed, Stamp
    <3> QED  BY <2>5, <2>8, <3>1, <3>2, <3>3, <3>4, <3>5, <3>6, <3>7
             DEF Files, Fresh, Intact, Swapping
  <2>9. ASSUME NEW m \in Maintainer, MoveReplacement(m) \/ UndoReplacement(m)
        PROVE  Kept'
    <3>1. /\ step[m] \in Swapping /\ step'[m] \in Swapping
          /\ copies' = copies
      BY <2>9 DEF MoveReplacement, UndoReplacement, At, Step, Owned, Swapping, command
    <3>2. stamp \in Stamp /\ UNCHANGED <<stamp, answered>>
      BY <2>6, <2>9 DEF Files
    <3>3. copies'[stamp] # None /\ \A s \in answered : InCopies(s)'
      BY <3>1 DEF Kept, InCopies
    <3>4. AnsweredIsKept'
      BY <3>2, <3>3 DEF AnsweredIsKept, InCopies
    <3> QED  BY <2>5, <2>9, <3>1, <3>2, <3>3, <3>4 DEF Files, Fresh, Intact, Swapping
  \* What was moved is moved back; the other copies stay.
  <2>10. ASSUME NEW m \in Maintainer, UndoOriginal(m)
         PROVE  Kept'
    <3>1. /\ step[m] = "undoing" /\ step'[m] \in {"reopening", "failed"}
          /\ canonical' = copies[stamp]
          /\ copies' = [copies EXCEPT ![stamp] = None]
      BY <2>10 DEF UndoOriginal, BackInPlace, At, Step, Owned
    <3>2. stamp \in Stamp /\ UNCHANGED <<stamp, answered>>
      BY <2>6, <2>10 DEF Files
    <3>3. copies[stamp] # None /\ \A s \in answered : InCopies(s)
      BY <3>1 DEF Kept, Swapping
    <3>4. copies'[stamp] = None /\ \A n \in Stamp : n # stamp => copies'[n] = copies[n]
      BY <3>1, <3>2 DEF Filed
    <3>5. AnsweredIsKept'
      BY <3>1, <3>2, <3>3, <3>4 DEF AnsweredIsKept, InCopies
    <3>6. \A n \in Stamp : n > stamp => copies'[n] = copies[n]
      BY <3>4 DEF Filed, Stamp
    <3> QED  BY <2>5, <2>10, <3>1, <3>2, <3>4, <3>5, <3>6 DEF Files, Fresh, Intact, Swapping
  \* An import copies the workspace before it replaces it.
  <2>11. ASSUME NEW m \in Maintainer, BackUpFirst(m)
         PROVE  Kept'
    <3>1. /\ step[m] = "stopped" /\ canonical' = Opened(canonical)
          /\ \/ step'[m] = "copied" /\ copies' = [copies EXCEPT ![stamp] = canonical']
             \/ step'[m] = "failed" /\ copies' = copies
      BY <2>11 DEF BackUpFirst, At, Step, Owned
    <3>2. stamp \in Stamp /\ UNCHANGED <<stamp, answered>>
      BY <2>6, <2>11 DEF Files
    <3>3. copies[stamp] = None /\ canonical' # None /\ (canonical # None => canonical' = canonical)
      BY <3>1, FileFacts DEF Kept, Fresh, Filed, Opened
    <3>4. \A n \in Stamp : n # stamp => copies'[n] = copies[n]
      BY <3>1, <3>2 DEF Filed
    <3>5. AnsweredIsKept'
      BY <3>2, <3>3, <3>4 DEF Kept, AnsweredIsKept
    <3>6. \A n \in Stamp : n > stamp => copies'[n] = copies[n]
      BY <3>4 DEF Filed, Stamp
    <3>7. step'[m] = "copied" => copies'[stamp] = canonical'
      BY <3>1, <3>2 DEF Filed
    <3> QED  BY <2>5, <2>11, <3>1, <3>2, <3>3, <3>5, <3>6, <3>7 DEF Files, Fresh, Intact, Swapping
  <2>12. ASSUME NEW m \in Maintainer, CancelImport(m) \/ ReplaceFromArchive(m)
         PROVE  Kept'
    <3>1. /\ step[m] = "copied" /\ step'[m] \in {"failed", "imported"}
          /\ \/ canonical' = canonical /\ copies' = [copies EXCEPT ![stamp] = None]
             \/ canonical' \in {canonical, {Archived}} /\ copies' = copies
      BY <2>12 DEF CancelImport, ReplaceFromArchive, At, Step, Owned
    <3>2. stamp \in Stamp /\ UNCHANGED <<stamp, answered>>
      BY <2>6, <2>12 DEF Files
    <3>3. canonical # None /\ copies[stamp] = canonical
      BY <3>1 DEF Kept
    <3>4. \A n \in Stamp : n # stamp => copies'[n] = copies[n]
      BY <3>1, <3>2 DEF Filed
    <3>5. AnsweredIsKept'
      BY <3>1, <3>2, <3>3, <3>4 DEF Kept, AnsweredIsKept
    <3>6. \A n \in Stamp : n > stamp => copies'[n] = copies[n]
      BY <3>4 DEF Filed, Stamp
    <3> QED  BY <2>5, <2>12, <3>1, <3>2, <3>5, <3>6 DEF Files, Serving, Fresh, Intact, Swapping
  <2>13. ASSUME NEW m \in Maintainer, Files(m) \/ Serving(m) \/ Preparing(m) \/ Bounding(m)
         PROVE  Kept'
    BY <2>4, <2>7, <2>8, <2>9, <2>10, <2>11, <2>12, <2>13, QuietCommand, QuietKeeps DEF Files
  <2> QED  BY <2>3, <2>13, QuietShell, QuietKeeps
<1> QED  BY <1>1, <1>2, OwnedHolds, FiledHolds, SwapSound, PTL DEF MSpec

\* A save whose caller was told that it is stored is in the database or in a
\* kept copy in every state (replace_live_database, import_into_stopped_workspace),
\* for any number of threads, saves, operations and failures.
THEOREM AnsweredIsKeptHolds == MSpec => []AnsweredIsKept
<1>1. Kept => AnsweredIsKept
  BY DEF Kept
<1> QED  BY <1>1, KeptHolds, PTL

-----------------------------------------------------------------------------
(* What a command reports is so                                              *)

Whole      == {"begun", "prepared", "stopping", "stopped", "checking", "verified",
               "reopening", "rolledBack", "copied"}
Exchanged  == {"replaced", "imported"}
Delivered  == Exchanged \cup {"rolledBack"}
ResultName == Delivered \cup {"refused", "failed"}

\* What stands behind the report of command m.
Claims(m) ==
    /\ result[m] \in ResultName
    /\ result[m] = "refused" => expected \subseteq Opened(canonical)
    /\ result[m] \in Delivered => accepting /\ served = runtime /\ canonical # None
    /\ result[m] \in Exchanged =>
         copies[stamp] # None /\ expected \subseteq canonical \cup copies[stamp]
    /\ result[m] = "rolledBack" => copies[stamp] = None /\ expected \subseteq canonical
    /\ result[m] = "imported" => Archived \in canonical

\* Where everything is that callers were told of, at each step of command m: in
\* the workspace, in the copy, or in both together; and that there is a candidate
\* to replace the workspace by.
Told(m) ==
    /\ step[m] \in Whole => expected \subseteq Opened(canonical)
    /\ step[m] \in Swapping => expected \subseteq copies[stamp]
    /\ step[m] \in {"reopening", "rolledBack"} => canonical # None /\ copies[stamp] = None
    /\ step[m] \in Exchanged =>
         /\ copies[stamp] # None /\ canonical # None
         /\ expected \subseteq canonical \cup copies[stamp]
    /\ step[m] = "imported" => Archived \in canonical
    /\ step[m] \in Delivered => accepting
    /\ step[m] = "placed" => canonical # None
    /\ step[m] \in {"checking", "verified", "moved"} => candidate # None
    /\ step[m] \in {"prepared", "stopping", "stopped"} /\ kind[m] = "restore" => candidate # None
    /\ step[m] = "ending" => Claims(m)

\* With no command inside its operation the workspace holds all of it.
AtRest == (\A m \in Maintainer : step[m] \notin Operating) => expected \subseteq Opened(canonical)

\* There is a backup, and a database while one is made of it.
Backed == backup # None /\ \A b \in Copier : place[b] = "copying" => canonical # None

Named ==
    /\ kind \in [Maintainer -> {"restore", "import"}]
    /\ result \in [Maintainer -> ResultName \cup {"none"}]

Reported == Named /\ Backed /\ AtRest /\ \A m \in Maintainer : Told(m)

\* The command's records keep their type.
LEMMA NamedStays ==
    ASSUME Named, Owned, [MNext]_mvars
    PROVE  Named'
<1> USE DEF Named
<1>1. ASSUME NEW m \in Maintainer, Files(m)
      PROVE  Named'
  BY <1>1 DEF Files, Preflight, PreflightFails, CheckOriginal, MoveOriginal, MoveReplacement,
              StageFails, UndoReplacement, UndoOriginal, RollbackFails, BackUpFirst, CancelImport,
              command
<1>2. ASSUME NEW m \in Maintainer, NEW r \in ResultName, Report(m, r)
      PROVE  result' \in [Maintainer -> ResultName \cup {"none"}]
  BY <1>2 DEF Report
<1>3. ASSUME NEW m \in Maintainer, Serving(m)
      PROVE  Named'
  <2>1. CASE Publish(m)
    <3>1. step[m] \in ResultName
      BY <2>1 DEF Publish, At, ResultName, Delivered, Exchanged
    <3> QED  BY <1>2, <2>1, <3>1 DEF Publish
  <2>2. CASE PublishFails(m) \/ Salvage(m) \/ SalvageFails(m)
    BY <1>2, <2>2 DEF PublishFails, Salvage, SalvageFails, ResultName
  <2> QED  BY <1>3, <2>1, <2>2 DEF Serving, StopActive, Drained, VerifyReplacement,
              ReopenOriginal, ReplaceFromArchive, command
<1>4. ASSUME NEW m \in Maintainer, Preparing(m)
      PROVE  Named'
  BY <1>2, <1>4 DEF Preparing, CloseHistory, RefuseBegin, Prepare, PrepareFails, CancelledEarly,
              ClearCancel, ResultName, command
<1>5. ASSUME NEW m \in Maintainer, Bounding(m)
      PROVE  Named'
  BY <1>5 DEF Bounding, Quiesce, Begin, EndOperation, ReleaseHistory, command
<1>6. ASSUME UNCHANGED <<kind, result>>
      PROVE  Named'
  BY <1>6
<1>7. CASE SyncStep \/ UNCHANGED mvars
  BY <1>6, <1>7 DEF SyncStep, Beside, mvars, command
<1>8. ASSUME NEW s \in Saver, CallSave(s) \/ Submit(s)
      PROVE  Named'
  BY <1>6, <1>8 DEF CallSave, Submit, command
<1>9. ASSUME NEW b \in Copier, Copying(b)
      PROVE  Named'
  BY <1>6, <1>9 DEF Copying, BeginCopy, Copy, EndCopy, DropCopy, command
<1>10. ASSUME NEW x \in Canceller, Cancelling(x)
       PROVE  Named'
  BY <1>6, <1>10 DEF Cancelling, AskCancel, StoreCancel, command
<1>11. CASE StorageEnds \/ UseHistory \/ \E n \in 1..Len(queue) : Answer(n)
  BY <1>6, <1>11 DEF StorageEnds, UseHistory, Answer, command
<1> QED  BY MSteps, <1>1, <1>3, <1>4, <1>5, <1>7, <1>8, <1>9, <1>10, <1>11

\* The backup is replaced by a database, which no command takes away meanwhile.
LEMMA BackedStays ==
    ASSUME Filed, Owned, Backed, [MNext]_mvars
    PROVE  Backed'
<1>1. ASSUME backup' = backup, canonical # None => canonical' # None,
             \A b \in Copier : place'[b] = "copying" => place[b] = "copying"
      PROVE  Backed'
  BY <1>1 DEF Backed
<1>2. Opened(canonical) # None
  BY FileFacts DEF Filed
<1>3. ASSUME NEW m \in Maintainer, Files(m) \/ Serving(m)
      PROVE  Backed'
  <2>1. operation = m /\ \A b \in Copier : b # m
    BY <1>3, AtWork, MaintenanceAssumption DEF Owned, Thread
  <2>2. \A b \in Copier : place[b] # "copying"
    BY <2>1 DEF Owned
  <2>3. place' = place
    BY <1>3, FilesMove, ServingMove DEF Moves
  <2>4. backup' = backup
    <3>1. CASE Files(m)
      BY <3>1 DEF Files, Preflight, PreflightFails, CheckOriginal, MoveOriginal, MoveReplacement,
              StageFails, UndoReplacement, UndoOriginal, RollbackFails, BackUpFirst, CancelImport,
              files
    <3>2. CASE Serving(m)
      BY <3>2 DEF Serving, StopActive, Drained, Publish, PublishFails, Salvage, SalvageFails,
              VerifyReplacement, ReopenOriginal, ReplaceFromArchive, files
    <3> QED  BY <1>3, <3>1, <3>2
  <2> QED  BY <2>2, <2>3, <2>4 DEF Backed
<1>4. ASSUME NEW m \in Maintainer, Preparing(m) \/ Bounding(m)
      PROVE  Backed'
  <2>1. UNCHANGED <<backup, canonical, place>>
    BY <1>4 DEF Preparing, Bounding, CloseHistory, RefuseBegin, Prepare, PrepareFails,
       CancelledEarly, ClearCancel, Quiesce, Begin, EndOperation, ReleaseHistory, files, shell
  <2> QED  BY <1>1, <2>1
<1>5. CASE SyncStep \/ UNCHANGED mvars
  <2>1. UNCHANGED <<backup, place>> /\ canonical' \in {canonical, Opened(canonical)}
    BY <1>5 DEF SyncStep, Beside, mvars, files, shell
  <2> QED  BY <1>1, <1>2, <2>1
<1>6. ASSUME NEW s \in Saver, CallSave(s) \/ Submit(s)
      PROVE  Backed'
  <2>1. UNCHANGED <<backup, canonical>> /\ \A b \in Copier : place'[b] = place[b]
    BY <1>6, MaintenanceAssumption DEF CallSave, Submit, Enter, files, Owned, Shell
  <2> QED  BY <1>1, <2>1
<1>7. ASSUME NEW x \in Canceller, Cancelling(x)
      PROVE  Backed'
  <2>1. UNCHANGED <<backup, canonical>> /\ \A b \in Copier : place'[b] = place[b]
    BY <1>7, MaintenanceAssumption DEF Cancelling, AskCancel, StoreCancel, Enter, files, Owned, Shell
  <2> QED  BY <1>1, <2>1
<1>8. ASSUME NEW b \in Copier, Copying(b)
      PROVE  Backed'
  <2>1. CASE BeginCopy(b)
    <3>1. canonical' # None /\ backup' = backup
      BY <1>2, <2>1 DEF BeginCopy
    <3> QED  BY <3>1 DEF Backed
  <2>2. CASE Copy(b)
    <3>1. backup' \in {backup, canonical} /\ canonical' = canonical /\ canonical # None
      BY <2>2 DEF Copy, Backed
    <3> QED  BY <3>1 DEF Backed
  <2>3. CASE EndCopy(b) \/ DropCopy(b)
    <3>1. /\ UNCHANGED <<backup, canonical>>
          /\ \A c \in Copier : place'[c] = "copying" => place[c] = "copying"
      BY <2>3 DEF EndCopy, DropCopy, Enter, files, Owned, Shell
    <3> QED  BY <1>1, <3>1
  <2> QED  BY <1>8, <2>1, <2>2, <2>3 DEF Copying
<1>9. CASE StorageEnds \/ UseHistory
  <2>1. UNCHANGED <<backup, place>> /\ canonical' \in {canonical, Opened(canonical)}
    BY <1>9 DEF StorageEnds, UseHistory, files, shell
  <2> QED  BY <1>1, <1>2, <2>1
<1>10. ASSUME NEW n \in 1..Len(queue), Answer(n)
       PROVE  Backed'
  <2>1. PICK stored \in SUBSET {queue[i] : i \in 1..n} :
          canonical' = Opened(canonical) \cup stored /\ backup' = backup
    BY <1>10 DEF Answer
  <2>2. stored \in SUBSET Save
    BY DEF Filed
  <2>3. canonical' # None
    BY <2>1, <2>2, FileFacts DEF Filed
  <2> QED  BY <2>1, <2>3 DEF Backed
<1> QED  BY MSteps, <1>3, <1>4, <1>5, <1>6, <1>7, <1>8, <1>9, <1>10

\* A step beside the commands: it may open the database, and store what callers
\* are told of where nobody exchanges it.
Grown ==
    /\ UNCHANGED <<copies, stamp, candidate, accepting, runtime, served>>
    /\ \/ expected' = expected /\ canonical' \in {canonical, Opened(canonical)}
       \/ \E stored \in SUBSET Save :
            /\ expected' = expected \cup stored
            /\ canonical' = Opened(canonical) \cup stored
            /\ \A m \in Maintainer : step[m] \notin Swapping
    /\ \A m \in Maintainer :
          /\ step'[m] \in Operating =>
               step'[m] = step[m] /\ result'[m] = result[m] /\ kind'[m] = kind[m]
          /\ step[m] \in Operating => step'[m] \in Operating

LEMMA GrownKeeps ==
    ASSUME Filed, AtRest, \A m \in Maintainer : Told(m), Grown
    PROVE  AtRest' /\ \A m \in Maintainer : Told(m)'
<1>1. /\ UNCHANGED <<copies, stamp, candidate, accepting, runtime, served>>
      /\ \/ expected' = expected
         \/ \A m \in Maintainer : step[m] \notin Swapping
  BY DEF Grown
<1>2. /\ canonical # None => Opened(canonical) = canonical
      /\ canonical # None => canonical \subseteq canonical' /\ canonical' # None
      /\ expected \subseteq Opened(canonical) => expected' \subseteq Opened(canonical')
      /\ canonical # None => \A F : expected \subseteq canonical \cup F =>
                                      expected' \subseteq canonical' \cup F
      /\ canonical # None => (expected \subseteq canonical => expected' \subseteq canonical')
  <2>1. Opened(canonical) # None /\ (canonical # None => Opened(canonical) = canonical)
    BY FileFacts DEF Filed, Opened
  <2>2. CASE expected' = expected /\ canonical' = canonical
    BY <2>1, <2>2
  <2>3. CASE expected' = expected /\ canonical' = Opened(canonical)
    BY <2>1, <2>3 DEF Opened
  <2>4. ASSUME NEW stored \in SUBSET Save, expected' = expected \cup stored,
               canonical' = Opened(canonical) \cup stored
        PROVE  /\ canonical # None => canonical \subseteq canonical' /\ canonical' # None
               /\ expected \subseteq Opened(canonical) => expected' \subseteq Opened(canonical')
               /\ canonical # None => \A F : expected \subseteq canonical \cup F =>
                                               expected' \subseteq canonical' \cup F
               /\ canonical # None => (expected \subseteq canonical => expected' \subseteq canonical')
    <3>1. canonical' # None
      BY <2>4, FileFacts DEF Filed
    <3>2. Opened(canonical') = canonical'
      BY <3>1 DEF Opened
    <3> QED  BY <2>1, <2>4, <3>1, <3>2
  <2> QED  BY <2>1, <2>2, <2>3, <2>4 DEF Grown
<1>3. ASSUME NEW m \in Maintainer
      PROVE  Told(m)'
  <2>1. CASE step'[m] \notin Operating
    BY <2>1 DEF Told, Operating, Whole, Swapping, Delivered, Exchanged
  <2>2. CASE step'[m] \in Operating
    <3>1. step'[m] = step[m] /\ result'[m] = result[m] /\ kind'[m] = kind[m]
      BY <2>2 DEF Grown
    <3>2. Claims(m) => Claims(m)'
      BY <1>1, <1>2, <3>1 DEF Claims, Delivered, Exchanged
    <3>3. step[m] \in Swapping => expected' = expected
      BY <1>1
    <3>4. canonical # None /\ expected \subseteq canonical \cup copies[stamp]
            => expected' \subseteq canonical' \cup copies'[stamp']
      BY <1>1, <1>2
    <3>5. /\ step[m] \in Whole => expected \subseteq Opened(canonical)
          /\ step[m] = "ending" => Claims(m)
      BY DEF Told
    <3>6. /\ step'[m] \in Whole => expected' \subseteq Opened(canonical')
          /\ step'[m] = "ending" => Claims(m)'
      BY <1>2, <3>1, <3>2, <3>5
    <3>7. step'[m] \in Swapping => expected' \subseteq copies'[stamp']
      BY <1>1, <3>1, <3>3 DEF Told
    <3>8. /\ step'[m] \in {"reopening", "rolledBack"} => canonical' # None /\ copies'[stamp'] = None
          /\ step'[m] \in Exchanged =>
               /\ copies'[stamp'] # None /\ canonical' # None
               /\ expected' \subseteq canonical' \cup copies'[stamp']
          /\ step'[m] = "imported" => Archived \in canonical'
          /\ step'[m] = "placed" => canonical' # None
      BY <1>1, <1>2, <3>1, <3>4 DEF Told, Exchanged
    <3> HIDE DEF Claims
    <3> QED  BY <1>1, <3>1, <3>6, <3>7, <3>8 DEF Told
  <2> QED  BY <2>1, <2>2
<1>4. AtRest'
  BY <1>2 DEF Grown, AtRest
<1> QED  BY <1>3, <1>4

\* What sync, the callers of the storage runtime, backups and cancels do is no
\* more than that.
LEMMA GrownSync ==
    ASSUME Owned, SyncStep
    PROVE  Grown
<1>1. \A m \in Maintainer :
        /\ step[m] = "left" \/ step'[m] = step[m]
        /\ step'[m] = "out" \/ step'[m] = step[m]
  BY DEF SyncStep, Beside, Unsuspend
<1>2. /\ UNCHANGED <<copies, stamp, candidate, accepting, runtime, served, expected, result, kind>>
      /\ canonical' \in {canonical, Opened(canonical)}
  BY DEF SyncStep, Beside, mutex, told, storage
<1> QED  BY <1>1, <1>2 DEF Grown, Operating

LEMMA GrownShell ==
    ASSUME Filed, Owned, SwapAlone, MNext, ~SyncStep,
           \A m \in Maintainer : ~Files(m) /\ ~Serving(m) /\ ~Preparing(m) /\ ~Bounding(m)
    PROVE  Grown
<1>1. ASSUME UNCHANGED <<copies, stamp, candidate, accepting, runtime, served, expected, command>>,
             canonical' \in {canonical, Opened(canonical)}
      PROVE  Grown
  BY <1>1 DEF Grown, command
<1> USE DEF files, told, storage, mutex
<1>2. ASSUME NEW s \in Saver, CallSave(s) \/ Submit(s)
      PROVE  Grown
  BY <1>1, <1>2 DEF CallSave, Submit
<1>3. ASSUME NEW b \in Copier, Copying(b)
      PROVE  Grown
  BY <1>1, <1>3 DEF Copying, BeginCopy, Copy, EndCopy, DropCopy
<1>4. ASSUME NEW x \in Canceller, Cancelling(x)
      PROVE  Grown
  BY <1>1, <1>4 DEF Cancelling, AskCancel, StoreCancel
<1>5. CASE StorageEnds \/ UseHistory
  BY <1>1, <1>5 DEF StorageEnds, UseHistory
<1>6. ASSUME NEW n \in 1..Len(queue), Answer(n)
      PROVE  Grown
  <2>1. PICK stored \in SUBSET {queue[i] : i \in 1..n} :
          /\ "runtime" \in open
          /\ canonical' = Opened(canonical) \cup stored
          /\ expected' = expected \cup stored
    BY <1>6 DEF Answer
  <2>2. UNCHANGED <<copies, stamp, candidate, accepting, runtime, served, step, kind, result>>
    BY <1>6 DEF Answer, command
  <2>3. stored \in SUBSET Save
    BY DEF Filed
  <2>4. \A m \in Maintainer : step[m] \notin Swapping
    BY <2>1 DEF SwapAlone, InUse, Swapping
  <2> QED  BY <2>1, <2>2, <2>3, <2>4 DEF Grown
<1> QED  BY MSteps, <1>2, <1>3, <1>4, <1>5, <1>6

\* So is what a command does outside of its operation.
LEMMA GrownOutside ==
    ASSUME Owned, Named, NEW m \in Maintainer,
           \/ CloseHistory(m) \/ RefuseBegin(m) \/ ClearCancel(m)
           \/ (\E k \in {"restore", "import"} : Quiesce(m, k)) \/ ReleaseHistory(m)
    PROVE  Grown
<1>1. /\ UNCHANGED <<copies, stamp, candidate, accepting, runtime, served, expected, canonical>>
      /\ step' = [step EXCEPT ![m] = step'[m]]
      /\ step[m] \notin Operating /\ step'[m] \notin Operating
      /\ \A n \in Maintainer : n # m => result'[n] = result[n] /\ kind'[n] = kind[n]
  BY DEF Owned, Named, CloseHistory, RefuseBegin, ClearCancel, Quiesce, ReleaseHistory, At, Step,
         Report, Operating, files, storage, mutex, told
<1> QED  BY <1>1 DEF Grown, Owned

\* The command inside its operation is the only one.
LEMMA OnlyOneTold ==
    ASSUME Owned', NEW m \in Maintainer, step'[m] \in Operating, Told(m)'
    PROVE  AtRest' /\ \A n \in Maintainer : Told(n)'
<1>1. ASSUME NEW n \in Maintainer, n # m
      PROVE  Told(n)'
  <2>1. step'[n] \notin Operating
    BY <1>1 DEF Owned
  <2> QED  BY <2>1 DEF Told, Operating, Whole, Swapping, Delivered, Exchanged
<1>2. AtRest'
  BY DEF AtRest
<1> QED  BY <1>1, <1>2

\* Up to the exchange the workspace is whole; a command that is refused leaves
\* it so.
LEMMA ToldBefore ==
    ASSUME Owned, Named, Filed, Kept, Backed, NEW m \in Maintainer, Told(m),
           \/ Prepare(m) \/ PrepareFails(m) \/ CancelledEarly(m) \/ StopActive(m) \/ Drained(m)
           \/ Preflight(m) \/ CheckOriginal(m)
    PROVE  step'[m] \in Operating /\ Told(m)'
<1>0. step \in [Maintainer -> StepName] /\ result \in [Maintainer -> ResultName \cup {"none"}]
  BY DEF Owned, Named
<1> USE DEF At, Step, Stopping, Report, Told, Whole, Swapping, Delivered, Exchanged, Operating
<1>1. CASE Prepare(m)
  <2>1. /\ step[m] = "begun" /\ step'[m] = "prepared" /\ UNCHANGED <<expected, canonical, kind>>
        /\ kind[m] = "restore" => candidate' = backup
    BY <1>0, <1>1 DEF Prepare, told, command
  <2> QED  BY <2>1 DEF Backed
<1>2. CASE PrepareFails(m)
  <2>1. /\ step[m] = "begun" /\ step'[m] = "ending" /\ result'[m] = "refused"
        /\ UNCHANGED <<expected, canonical>>
    BY <1>0, <1>2 DEF PrepareFails, told, files
  <2> QED  BY <2>1 DEF Claims, ResultName
<1>3. CASE CancelledEarly(m)
  <2>1. /\ step[m] = "prepared" /\ step'[m] = "ending" /\ result'[m] = "refused"
        /\ UNCHANGED <<expected, canonical>>
    BY <1>0, <1>3 DEF CancelledEarly, told
  <2> QED  BY <2>1 DEF Claims, ResultName
<1>4. CASE StopActive(m) \/ Drained(m)
  <2>1. /\ \/ step[m] = "prepared" /\ step'[m] = "stopping"
           \/ step[m] = "stopping" /\ step'[m] = "stopped"
        /\ UNCHANGED <<expected, canonical, kind, candidate>>
    BY <1>0, <1>4 DEF StopActive, Drained, told, files
  <2> QED  BY <2>1
<1>5. CASE Preflight(m) \/ CheckOriginal(m)
  <2>1. /\ \/ step[m] = "stopped" /\ kind[m] = "restore" /\ step'[m] = "checking"
           \/ step[m] = "checking" /\ step'[m] = "verified"
        /\ UNCHANGED <<expected, canonical, candidate>>
    BY <1>0, <1>5 DEF Preflight, CheckOriginal, told, files
  <2> QED  BY <2>1
<1> QED  BY <1>1, <1>2, <1>3, <1>4, <1>5

\* While the files are exchanged it is in the copy, and afterwards back in place
\* or beside the replacement.
LEMMA ToldDuring ==
    ASSUME Owned, Filed, Kept, NEW m \in Maintainer, Told(m), stamp \in Stamp,
           \/ MoveOriginal(m) \/ MoveReplacement(m) \/ VerifyReplacement(m) \/ StageFails(m)
           \/ UndoReplacement(m) \/ UndoOriginal(m) \/ ReopenOriginal(m)
    PROVE  step'[m] \in Operating /\ Told(m)'
<1>0. /\ step \in [Maintainer -> StepName] /\ copies \in [Stamp -> File]
      /\ stamp' = stamp /\ expected' = expected
  BY DEF Owned, Filed, MoveOriginal, MoveReplacement, VerifyReplacement, StageFails,
         UndoReplacement, UndoOriginal, ReopenOriginal, mutex, told
<1>k. /\ step[m] \in {"checking", "verified"} => copies[stamp] = None /\ canonical # None
      /\ step[m] \in {"moved", "placed", "undoing"} => copies[stamp] # None
  BY DEF Kept, Fresh, Intact, Swapping
<1>o. canonical # None => Opened(canonical) = canonical
  BY DEF Opened
<1> USE DEF At, Step, Told, Whole, Swapping, Delivered, Exchanged, Operating
<1>1. CASE MoveOriginal(m)
  <2>1. /\ step[m] = "verified" /\ step'[m] \in {"moved", "undoing"}
        /\ copies'[stamp] = canonical /\ candidate' = candidate
    BY <1>0, <1>1 DEF MoveOriginal
  <2> QED  BY <1>0, <1>k, <1>o, <2>1
<1>2. CASE MoveReplacement(m)
  <2>1. /\ step[m] = "moved" /\ step'[m] \in {"placed", "undoing"}
        /\ canonical' = candidate /\ copies' = copies
    BY <1>0, <1>2 DEF MoveReplacement
  <2> QED  BY <1>0, <1>k, <2>1
<1>3. CASE VerifyReplacement(m)
  <2>1. /\ step[m] = "placed" /\ step'[m] = "replaced" /\ accepting'
        /\ UNCHANGED <<canonical, copies>>
    BY <1>0, <1>3 DEF VerifyReplacement, Spawn, files
  <2> QED  BY <1>0, <1>k, <2>1
<1>4. CASE StageFails(m)
  <2>1. /\ \/ step[m] \in {"checking", "verified"} /\ step'[m] = "reopening"
           \/ step[m] \in {"moved", "placed"} /\ step'[m] = "undoing"
        /\ UNCHANGED <<canonical, copies>>
    BY <1>0, <1>4 DEF StageFails, files
  <2> QED  BY <1>0, <1>k, <2>1
<1>5. CASE UndoReplacement(m)
  <2>1. step[m] = "undoing" /\ step' = step /\ copies' = copies
    BY <1>0, <1>5 DEF UndoReplacement, command
  <2> QED  BY <1>0, <1>k, <2>1
<1>6. CASE UndoOriginal(m)
  <2>1. /\ step[m] = "undoing" /\ step'[m] \in {"reopening", "failed"}
        /\ canonical' = copies[stamp] /\ copies'[stamp] = None
    BY <1>0, <1>6 DEF UndoOriginal, BackInPlace
  <2>2. canonical' # None /\ Opened(canonical') = canonical'
    BY <1>k, <2>1 DEF Opened
  <2> QED  BY <1>0, <1>k, <2>1, <2>2
<1>7. CASE ReopenOriginal(m)
  <2>1. /\ step[m] = "reopening" /\ step'[m] = "rolledBack" /\ accepting'
        /\ UNCHANGED <<canonical, copies>>
    BY <1>0, <1>7 DEF ReopenOriginal, Spawn, files
  <2> QED  BY <1>0, <2>1
<1> QED  BY <1>1, <1>2, <1>3, <1>4, <1>5, <1>6, <1>7

\* An import copies the workspace before it replaces it; an error claims nothing.
LEMMA ToldByImport ==
    ASSUME Owned, Filed, Kept, NEW m \in Maintainer, Told(m), stamp \in Stamp,
           \/ BackUpFirst(m) \/ CancelImport(m) \/ ReplaceFromArchive(m)
           \/ PreflightFails(m) \/ RollbackFails(m)
    PROVE  step'[m] \in Operating /\ Told(m)'
<1>0. /\ step \in [Maintainer -> StepName] /\ copies \in [Stamp -> File]
      /\ stamp' = stamp /\ expected' = expected
  BY DEF Owned, Filed, BackUpFirst, CancelImport, ReplaceFromArchive, PreflightFails,
         RollbackFails, mutex, told
<1> USE DEF At, Step, Stopping, Told, Whole, Swapping, Delivered, Exchanged, Operating
<1>1. ASSUME step'[m] = "failed"
      PROVE  step'[m] \in Operating /\ Told(m)'
  BY <1>1
<1>2. CASE BackUpFirst(m)
  <2>1. /\ step[m] = "stopped" /\ step'[m] \in {"copied", "failed"}
        /\ canonical' = Opened(canonical)
    BY <1>0, <1>2 DEF BackUpFirst
  <2>2. Opened(canonical') = Opened(canonical)
    BY <2>1, FileFacts DEF Filed, Opened
  <2> QED  BY <1>0, <1>1, <2>1, <2>2
<1>3. CASE ReplaceFromArchive(m)
  <2>1. step[m] = "copied" /\ step'[m] \in {"imported", "failed"} /\ copies' = copies
    BY <1>0, <1>3 DEF ReplaceFromArchive
  <2>2. step'[m] = "imported" => canonical' = {Archived} /\ accepting'
    BY <1>0, <1>3 DEF ReplaceFromArchive, Spawn
  <2>3. {Archived} # None
    <3>1. Archived \in 0..Archived
      BY MaintenanceAssumption DEF Archived
    <3> QED  BY <3>1, MaintenanceAssumption
  <2>4. canonical # None /\ copies[stamp] = canonical /\ Opened(canonical) = canonical
    BY <2>1 DEF Kept, Opened
  <2> QED  BY <1>0, <1>1, <2>1, <2>2, <2>3, <2>4
<1>4. CASE CancelImport(m) \/ PreflightFails(m) \/ RollbackFails(m)
  <2>1. step'[m] = "failed"
    BY <1>0, <1>4 DEF CancelImport, PreflightFails, RollbackFails
  <2> QED  BY <1>1, <2>1
<1> QED  BY <1>2, <1>3, <1>4

\* The command serves what it reports; after an error it reports no more than
\* that.
LEMMA ToldByServing ==
    ASSUME Owned, Named, Filed, Kept, NEW m \in Maintainer, Told(m), stamp \in Stamp,
           Publish(m) \/ PublishFails(m) \/ Salvage(m) \/ SalvageFails(m)
    PROVE  step'[m] \in Operating /\ Told(m)'
<1>0. /\ step \in [Maintainer -> StepName]
      /\ result \in [Maintainer -> ResultName \cup {"none"}]
      /\ stamp' = stamp /\ expected' = expected
  BY DEF Owned, Named, Publish, PublishFails, Salvage, SalvageFails, mutex, told
<1> USE DEF At, Step, Report, Told, Whole, Swapping, Delivered, Exchanged, Operating
<1>1. CASE Publish(m)
  <2>1. /\ step[m] \in {"replaced", "rolledBack", "imported"} /\ step'[m] = "ending"
        /\ result'[m] = step[m] /\ served' = runtime
        /\ UNCHANGED <<canonical, copies, accepting, runtime>>
    BY <1>0, <1>1 DEF Publish
  <2>2. canonical # None => Opened(canonical) = canonical
    BY DEF Opened
  <2>3. Claims(m)'
    BY <1>0, <2>1, <2>2 DEF Claims, ResultName
  <2> QED  BY <2>1, <2>3
<1>2. CASE PublishFails(m) \/ Salvage(m) \/ SalvageFails(m)
  <2>1. result'[m] = "failed" /\ step'[m] \in {"ending", "failed"}
    BY <1>0, <1>2 DEF PublishFails, Salvage, SalvageFails
  <2>2. Claims(m)'
    BY <2>1 DEF Claims, ResultName
  <2> QED  BY <2>1, <2>2
<1> QED  BY <1>1, <1>2

\* At its end callers are told of what is there, if it is not what they knew.
LEMMA ToldAtEnds ==
    ASSUME Owned, Owned', Filed, AtRest, NEW m \in Maintainer, Told(m),
           Begin(m) \/ EndOperation(m)
    PROVE  AtRest' /\ \A n \in Maintainer : Told(n)'
<1>0. step \in [Maintainer -> StepName]
  BY DEF Owned
<1>1. CASE Begin(m)
  <2>1. /\ step'[m] = "begun" /\ UNCHANGED <<expected, canonical>>
        /\ operation = None
    BY <1>0, <1>1 DEF Begin, Step, told, files
  <2>2. expected \subseteq Opened(canonical)
    BY <2>1, RuntimeAssumption DEF Owned, AtRest, Thread
  <2>3. Told(m)' /\ step'[m] \in Operating
    BY <2>1, <2>2 DEF Told, Whole, Swapping, Delivered, Exchanged, Operating
  <2> QED  BY <2>3, OnlyOneTold
<1>2. CASE EndOperation(m)
  <2>1. /\ step[m] = "ending" /\ operation' = None /\ canonical' = canonical
        /\ expected' = IF result[m] \in {"replaced", "imported", "failed"}
                         THEN Opened(canonical) ELSE expected
    BY <1>2 DEF EndOperation, At, files
  <2>2. \A n \in Maintainer : step'[n] \notin Operating
    BY <2>1, RuntimeAssumption DEF Owned, Thread
  <2>3. Claims(m)
    BY <2>1 DEF Told
  <2>4. expected' \subseteq Opened(canonical')
    BY <2>1, <2>3 DEF Claims, ResultName, Delivered, Exchanged, Opened
  <2> QED  BY <2>2, <2>4 DEF AtRest, Told, Operating, Whole, Swapping, Delivered, Exchanged
<1> QED  BY <1>1, <1>2

\* Whatever a command reports, and wherever it fails or is cancelled, nothing that
\* callers were told of is missing where the report says it is.
LEMMA ReportedHolds == MSpec => []Reported
<1>1. MInit => Reported
  <2> SUFFICES ASSUME MInit
               PROVE  Reported
    OBVIOUS
  <2>1. {0} # None
    BY MaintenanceAssumption DEF Archived
  <2>2. /\ \A m \in Maintainer : step[m] = "out"
        /\ \A b \in Copier : place[b] = "idle"
        /\ kind = [m \in Maintainer |-> "restore"] /\ result = [m \in Maintainer |-> "none"]
        /\ backup = {0} /\ canonical = {0} /\ expected = {0}
    BY DEF MInit, Shell
  <2>3. Named
    BY <2>2 DEF Named
  <2> QED  BY <2>1, <2>2, <2>3 DEF Reported, Backed, AtRest, Told, Opened, Whole, Swapping,
                  Delivered, Exchanged
<1>2. Owned /\ Owned' /\ Filed /\ Kept /\ SwapAlone /\ Reported /\ [MNext]_mvars => Reported'
  <2> SUFFICES ASSUME Owned, Owned', Filed, Kept, SwapAlone, Reported, [MNext]_mvars
               PROVE  Reported'
    OBVIOUS
  <2>1. Named' /\ Backed'
    BY NamedStays, BackedStays DEF Reported
  <2> SUFFICES AtRest' /\ \A m \in Maintainer : Told(m)'
    BY <2>1 DEF Reported
  <2>2. Grown => AtRest' /\ \A m \in Maintainer : Told(m)'
    BY GrownKeeps DEF Reported
  <2>3. CASE SyncStep
    BY <2>2, <2>3, GrownSync
  <2>4. CASE UNCHANGED mvars
    BY <2>2, <2>4 DEF mvars, files, storage, mutex, command, told, Grown
  <2> SUFFICES ASSUME MNext, ~SyncStep
               PROVE  AtRest' /\ \A m \in Maintainer : Told(m)'
    BY <2>3, <2>4
  <2>5. ASSUME NEW m \in Maintainer, Files(m) \/ Serving(m)
        PROVE  stamp \in Stamp
    BY <2>5, AtWork DEF Owned, Filed
  <2>6. ASSUME NEW m \in Maintainer, Files(m) \/ Serving(m) \/ Preparing(m) \/ Bounding(m)
        PROVE  AtRest' /\ \A n \in Maintainer : Told(n)'
    <3>1. Named /\ Backed /\ AtRest /\ Told(m)
      BY DEF Reported
    <3>2. CASE Files(m)
      BY <2>5, <3>1, <3>2, ToldBefore, ToldDuring, ToldByImport, OnlyOneTold DEF Files
    <3>3. CASE Serving(m)
      BY <2>5, <3>1, <3>3, ToldBefore, ToldDuring, ToldByImport, ToldByServing, OnlyOneTold
         DEF Serving
    <3>4. CASE Preparing(m)
      BY <2>2, <3>1, <3>4, ToldBefore, OnlyOneTold, GrownOutside DEF Preparing
    <3>5. CASE Bounding(m)
      BY <2>2, <3>1, <3>5, ToldAtEnds, GrownOutside DEF Bounding
    <3> QED  BY <2>6, <3>2, <3>3, <3>4, <3>5
  <2> QED  BY <2>2, <2>6, GrownShell
<1> QED  BY <1>1, <1>2, OwnedHolds, FiledHolds, KeptHolds, SwapSound, PTL DEF MSpec

\* What a restore or an import reports is so, for any number of threads, saves,
\* operations and failures (restore_workspace_backup, import_workspace_archive).
THEOREM ReportIsTrueHolds == MSpec => []ReportIsTrue
<1>1. Reported => ReportIsTrue
  BY DEF Reported, Told, Claims, ReportIsTrue, Delivered, Exchanged
<1> QED  BY <1>1, ReportedHolds, PTL
=============================================================================
