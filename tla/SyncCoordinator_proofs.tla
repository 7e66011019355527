----------------------- MODULE SyncCoordinator_proofs -----------------------
(***************************************************************************)
(* No wake-up of the coordinator is lost and no cycle starts in a session  *)
(* it knows to be over, for any number of calls.                           *)
(***************************************************************************)
EXTENDS SyncCoordinator, TLAPS

\* The two-valued variables, the worker's copy of four of them, the counters
\* and the rest of the worker.
ControlOK ==
    /\ shutdown \in BOOLEAN /\ wake_requested \in BOOLEAN
    /\ offline_notice \in BOOLEAN /\ reset_requested \in BOOLEAN
    /\ online \in BOOLEAN /\ session_valid \in BOOLEAN
    /\ cancelled \in BOOLEAN /\ interrupt \in BOOLEAN /\ owed \in BOOLEAN
PromisesOK ==
    /\ resuming \in BOOLEAN /\ unserved \in BOOLEAN
    /\ signedIn \in BOOLEAN /\ quiet \in BOOLEAN /\ asked \in BOOLEAN
SnapOK == snap \in Snapshots
CountersOK ==
    /\ calls \in 0..MaxCalls /\ token \in 0..MaxCalls /\ expired \subseteq 0..MaxCalls
    /\ token <= calls
WorkerOK ==
    /\ pc \in {"check", "asleep", "taken", "ready", "cycle", "settle",
               "publish", "exited"}
    /\ deadline \in {"none", "set"}
    /\ status \in Statuses
    /\ outcome \in Statuses
    /\ hint \in {"none", "given", "shown"}

\* A flag is set, cleared or combined with what the worker saw.
LEMMA ControlStaysTyped == ControlOK /\ SnapOK /\ [Next]_vars => ControlOK'
<1> SUFFICES ASSUME ControlOK, SnapOK, [Next]_vars
             PROVE  ControlOK'
  OBVIOUS
<1> USE DEF ControlOK, control, session, worker, promises
<1>1. CASE CommitLocally
  BY <1>1 DEF CommitLocally, Update
<1>2. CASE RequestRefresh
  BY <1>2 DEF RequestRefresh, Update
<1>3. CASE SetOffline
  BY <1>3 DEF SetOffline
<1>4. CASE PauseForLogout
  BY <1>4 DEF PauseForLogout
<1>5. CASE InstallToken
  BY <1>5 DEF InstallToken
<1>6. CASE ResumeWithSession
  BY <1>6 DEF ResumeWithSession, Update
<1>7. CASE Shutdown
  BY <1>7 DEF Shutdown
<1>8. CASE NotifyAll
  BY <1>8 DEF NotifyAll
<1>9. CASE ExpireToken
  BY <1>9 DEF ExpireToken
<1>10. CASE Exit
  BY <1>10 DEF Exit
<1>11. CASE Sleep
  BY <1>11 DEF Sleep
<1>12. CASE Woken
  BY <1>12 DEF Woken, TakeFlags
<1>13. CASE DeadlinePasses
  BY <1>13 DEF DeadlinePasses, TakeFlags
<1>14. CASE ShowPaused
  BY <1>14 DEF ShowPaused
<1>15. CASE ShowOffline
  BY <1>15 DEF ShowOffline
<1>16. CASE Proceed
  BY <1>16 DEF Proceed
<1>17. CASE ClearInterrupt
  BY <1>17 DEF ClearInterrupt
<1>18. CASE RunCycle
  BY <1>18 DEF RunCycle
<1>19. CASE Settle
  BY <1>19 DEF Settle, SessionAfter, OnlineAfter, SnapOK, Snapshots
<1>20. CASE Publish
  BY <1>20 DEF Publish
<1>21. CASE UNCHANGED vars
  BY <1>21 DEF vars
<1> QED  BY <1>1, <1>2, <1>3, <1>4, <1>5, <1>6, <1>7, <1>8, <1>9, <1>10, <1>11, <1>12, <1>13, <1>14, <1>15, <1>16, <1>17, <1>18, <1>19, <1>20, <1>21 DEF Next, Signal, Work

\* So are the promises to the shells.
LEMMA PromisesStayTyped == ControlOK /\ SnapOK /\ PromisesOK /\ [Next]_vars => PromisesOK'
<1> SUFFICES ASSUME ControlOK, SnapOK, PromisesOK, [Next]_vars
             PROVE  PromisesOK'
  OBVIOUS
<1> USE DEF PromisesOK, control, session, worker, promises
<1>1. CASE CommitLocally
  BY <1>1 DEF CommitLocally, Update
<1>2. CASE RequestRefresh
  BY <1>2 DEF RequestRefresh, Update
<1>3. CASE SetOffline
  BY <1>3 DEF SetOffline
<1>4. CASE PauseForLogout
  BY <1>4 DEF PauseForLogout
<1>5. CASE InstallToken
  BY <1>5 DEF InstallToken
<1>6. CASE ResumeWithSession
  BY <1>6 DEF ResumeWithSession, Update
<1>7. CASE Shutdown
  BY <1>7 DEF Shutdown
<1>8. CASE NotifyAll
  BY <1>8 DEF NotifyAll
<1>9. CASE ExpireToken
  BY <1>9 DEF ExpireToken
<1>10. CASE Exit
  BY <1>10 DEF Exit
<1>11. CASE Sleep
  BY <1>11 DEF Sleep
<1>12. CASE Woken
  BY <1>12 DEF Woken, TakeFlags
<1>13. CASE DeadlinePasses
  BY <1>13 DEF DeadlinePasses, TakeFlags
<1>14. CASE ShowPaused
  BY <1>14 DEF ShowPaused, ControlOK
<1>15. CASE ShowOffline
  BY <1>15 DEF ShowOffline
<1>16. CASE Proceed
  BY <1>16 DEF Proceed, SnapOK, Snapshots
<1>17. CASE ClearInterrupt
  BY <1>17 DEF ClearInterrupt
<1>18. CASE RunCycle
  BY <1>18 DEF RunCycle, CycleCancelled, CycleAnswered
<1>19. CASE Settle
  BY <1>19 DEF Settle
<1>20. CASE Publish
  BY <1>20 DEF Publish
<1>21. CASE UNCHANGED vars
  BY <1>21 DEF vars
<1> QED  BY <1>1, <1>2, <1>3, <1>4, <1>5, <1>6, <1>7, <1>8, <1>9, <1>10, <1>11, <1>12, <1>13, <1>14, <1>15, <1>16, <1>17, <1>18, <1>19, <1>20, <1>21 DEF Next, Signal, Work

\* The worker's copy is taken of the flags as they are.
LEMMA SnapStaysTyped == ControlOK /\ SnapOK /\ [Next]_vars => SnapOK'
<1> SUFFICES ASSUME ControlOK, SnapOK, [Next]_vars
             PROVE  SnapOK'
  OBVIOUS
<1>1. CASE Woken \/ DeadlinePasses
  BY <1>1 DEF Woken, DeadlinePasses, TakeFlags, SnapOK, Snapshots, ControlOK
<1>2. ASSUME snap' = snap
      PROVE  SnapOK'
  BY <1>2 DEF SnapOK
<1>3. CASE Signal
  BY <1>2, <1>3 DEF Signal, CommitLocally, RequestRefresh, SetOffline, PauseForLogout, InstallToken,
     ResumeWithSession, Shutdown, NotifyAll, ExpireToken, worker
<1>4. CASE Exit \/ Sleep \/ ShowPaused \/ ShowOffline \/ Proceed \/ ClearInterrupt \/ RunCycle \/ Settle \/ Publish
  BY <1>2, <1>4 DEF Exit, Sleep, ShowPaused, ShowOffline, Proceed, ClearInterrupt, RunCycle, Settle, Publish
<1>5. CASE UNCHANGED vars
  BY <1>2, <1>5 DEF vars, worker
<1> QED  BY <1>1, <1>3, <1>4, <1>5 DEF Next, Work

\* Credentials are counted by the calls that install them.
LEMMA CountersStayTyped == CountersOK /\ [Next]_vars => CountersOK'
<1> SUFFICES ASSUME CountersOK, [Next]_vars
             PROVE  CountersOK'
  OBVIOUS
<1> USE MaxCallsAssumption DEF CountersOK, control, session, worker, promises
<1>1. CASE CommitLocally
  BY <1>1 DEF CommitLocally, Calls
<1>2. CASE RequestRefresh
  BY <1>2 DEF RequestRefresh, Calls
<1>3. CASE SetOffline
  BY <1>3 DEF SetOffline, Calls
<1>4. CASE PauseForLogout
  BY <1>4 DEF PauseForLogout, Calls
<1>5. CASE InstallToken
  BY <1>5 DEF InstallToken, Calls
<1>6. CASE ResumeWithSession
  BY <1>6 DEF ResumeWithSession
<1>7. CASE Shutdown
  BY <1>7 DEF Shutdown
<1>8. CASE NotifyAll
  BY <1>8 DEF NotifyAll
<1>9. CASE ExpireToken
  BY <1>9 DEF ExpireToken, Calls
<1>10. CASE Exit
  BY <1>10 DEF Exit
<1>11. CASE Sleep
  BY <1>11 DEF Sleep
<1>12. CASE Woken
  BY <1>12 DEF Woken, TakeFlags
<1>13. CASE DeadlinePasses
  BY <1>13 DEF DeadlinePasses, TakeFlags
<1>14. CASE ShowPaused
  BY <1>14 DEF ShowPaused
<1>15. CASE ShowOffline
  BY <1>15 DEF ShowOffline
<1>16. CASE Proceed
  BY <1>16 DEF Proceed
<1>17. CASE ClearInterrupt
  BY <1>17 DEF ClearInterrupt
<1>18. CASE RunCycle
  BY <1>18 DEF RunCycle
<1>19. CASE Settle
  BY <1>19 DEF Settle
<1>20. CASE Publish
  BY <1>20 DEF Publish
<1>21. CASE UNCHANGED vars
  BY <1>21 DEF vars
<1> QED  BY <1>1, <1>2, <1>3, <1>4, <1>5, <1>6, <1>7, <1>8, <1>9, <1>10, <1>11, <1>12, <1>13, <1>14, <1>15, <1>16, <1>17, <1>18, <1>19, <1>20, <1>21 DEF Next, Signal, Work

\* The worker moves between its places and shows one of its statuses.
LEMMA WorkerStaysTyped == WorkerOK /\ [Next]_vars => WorkerOK'
<1> SUFFICES ASSUME WorkerOK, [Next]_vars
             PROVE  WorkerOK'
  OBVIOUS
<1> USE DEF WorkerOK, Statuses, Outcomes, control, session, worker, promises
<1>1. CASE CommitLocally
  BY <1>1 DEF CommitLocally, Update
<1>2. CASE RequestRefresh
  BY <1>2 DEF RequestRefresh, Update
<1>3. CASE SetOffline
  BY <1>3 DEF SetOffline
<1>4. CASE PauseForLogout
  BY <1>4 DEF PauseForLogout
<1>5. CASE InstallToken
  BY <1>5 DEF InstallToken
<1>6. CASE ResumeWithSession
  BY <1>6 DEF ResumeWithSession, Update
<1>7. CASE Shutdown
  BY <1>7 DEF Shutdown
<1>8. CASE NotifyAll
  BY <1>8 DEF NotifyAll
<1>9. CASE ExpireToken
  BY <1>9 DEF ExpireToken
<1>10. CASE Exit
  BY <1>10 DEF Exit
<1>11. CASE Sleep
  BY <1>11 DEF Sleep
<1>12. CASE Woken
  BY <1>12 DEF Woken, TakeFlags
<1>13. CASE DeadlinePasses
  BY <1>13 DEF DeadlinePasses, TakeFlags
<1>14. CASE ShowPaused
  BY <1>14 DEF ShowPaused
<1>15. CASE ShowOffline
  BY <1>15 DEF ShowOffline
<1>16. CASE Proceed
  BY <1>16 DEF Proceed
<1>17. CASE ClearInterrupt
  BY <1>17 DEF ClearInterrupt
<1>18. CASE RunCycle
  BY <1>18 DEF RunCycle, CycleCancelled, CycleAnswered
<1>19. CASE Settle
  BY <1>19 DEF Settle
<1>20. CASE Publish
  BY <1>20 DEF Publish
<1>21. CASE UNCHANGED vars
  BY <1>21 DEF vars
<1> QED  BY <1>1, <1>2, <1>3, <1>4, <1>5, <1>6, <1>7, <1>8, <1>9, <1>10, <1>11, <1>12, <1>13, <1>14, <1>15, <1>16, <1>17, <1>18, <1>19, <1>20, <1>21 DEF Next, Signal, Work

\* Every reachable state is well typed.
THEOREM TypeCorrect == Spec => []TypeOK
<1>1. Init => ControlOK /\ PromisesOK
  BY DEF Init, ControlOK, PromisesOK
<1>2. Init => SnapOK
  BY DEF Init, SnapOK, Snapshots
<1>3. Init => CountersOK
  BY MaxCallsAssumption DEF Init, CountersOK
<1>4. Init => WorkerOK
  BY DEF Init, WorkerOK, Statuses, Outcomes
<1>5. ControlOK /\ PromisesOK /\ SnapOK /\ CountersOK /\ WorkerOK => TypeOK
  BY DEF ControlOK, PromisesOK, SnapOK, CountersOK, WorkerOK, TypeOK
<1> QED  BY <1>1, <1>2, <1>3, <1>4, <1>5, ControlStaysTyped, PromisesStayTyped, SnapStaysTyped, CountersStayTyped, WorkerStaysTyped, PTL
            DEF Spec

\* A worker about to look or asleep has a deadline for a commit nobody asks it
\* to serve, and where it will drop the deadline the session is over or a
\* resume has asked for another round.
WakeKept ==
    /\ NoLostWake
    /\ pc = "check" /\ unserved /\ session_valid /\ ~wake_requested => deadline = "set"
    /\ pc = "taken" /\ ~snap.session_valid /\ session_valid => wake_requested
    /\ pc = "publish" /\ outcome = "authenticationRequired" /\ session_valid => wake_requested

\* A worker that sleeps over a raised flag is about to be notified, and never
\* sleeps without a deadline on a commit (coordinator.rs:339-375).
THEOREM NoLostWakeHolds == Spec => []NoLostWake
<1>1. Init => WakeKept
  BY DEF Init, WakeKept, NoLostWake
<1>2. WakeKept /\ [Next]_vars => WakeKept'
  <2> SUFFICES ASSUME WakeKept, [Next]_vars
               PROVE  WakeKept'
    OBVIOUS
  <2> USE DEF WakeKept, NoLostWake, control, session, worker, promises
  <2>1. CASE CommitLocally \/ RequestRefresh
    BY <2>1 DEF CommitLocally, RequestRefresh, Update
  <2>2. CASE SetOffline \/ PauseForLogout
    BY <2>2 DEF SetOffline, PauseForLogout
  <2>3. CASE InstallToken \/ ResumeWithSession
    BY <2>3 DEF InstallToken, ResumeWithSession, Update
  <2>4. CASE Shutdown \/ NotifyAll \/ ExpireToken
    BY <2>4 DEF Shutdown, NotifyAll, ExpireToken
  <2>5. CASE Exit \/ Sleep \/ Proceed \/ ClearInterrupt
    BY <2>5 DEF Exit, Sleep, Proceed, ClearInterrupt
  <2>6. CASE Woken \/ DeadlinePasses
    BY <2>6 DEF Woken, DeadlinePasses, TakeFlags
  <2>7. CASE ShowPaused \/ ShowOffline
    BY <2>7 DEF ShowPaused, ShowOffline
  <2>8. CASE RunCycle
    BY <2>8 DEF RunCycle
  <2>9. CASE Settle
    BY <2>9 DEF Settle, SessionAfter
  <2>10. CASE Publish
    BY <2>10 DEF Publish
  <2>11. CASE UNCHANGED vars
    BY <2>11 DEF vars
  <2> QED  BY <2>1, <2>2, <2>3, <2>4, <2>5, <2>6, <2>7, <2>8, <2>9, <2>10, <2>11 DEF Next, Signal, Work
<1>3. WakeKept => NoLostWake
  BY DEF WakeKept
<1> QED  BY <1>1, <1>2, <1>3, PTL DEF Spec

\* A session known to be over is over, and a worker that has read the flags
\* since has seen it.
SessionOver ==
    quiet => /\ ~session_valid
             /\ pc \notin {"ready", "cycle"}
             /\ pc = "taken" => ~snap.session_valid

\* Once a cycle has found the credential dead or the pause was shown, no
\* further cycle starts before a resume (coordinator.rs:390-403, 446-450).
THEOREM NoCycleWithoutSessionHolds == Spec => []NoCycleWithoutSession
<1>1. Init => SessionOver
  BY DEF Init, SessionOver
<1>2. TypeOK /\ SessionOver /\ [Next]_vars => SessionOver'
  <2> SUFFICES ASSUME TypeOK, SessionOver, [Next]_vars
               PROVE  SessionOver'
    OBVIOUS
  <2> USE DEF SessionOver, control, session, worker, promises
  <2>1. CASE CommitLocally \/ RequestRefresh
    BY <2>1 DEF CommitLocally, RequestRefresh, Update
  <2>2. CASE SetOffline \/ PauseForLogout
    BY <2>2 DEF SetOffline, PauseForLogout
  <2>3. CASE InstallToken \/ ResumeWithSession
    BY <2>3 DEF InstallToken, ResumeWithSession, Update
  <2>4. CASE Shutdown \/ NotifyAll \/ ExpireToken
    BY <2>4 DEF Shutdown, NotifyAll, ExpireToken
  <2>5. CASE Exit \/ Sleep \/ Proceed \/ ClearInterrupt
    BY <2>5 DEF Exit, Sleep, Proceed, ClearInterrupt
  <2>6. CASE Woken \/ DeadlinePasses
    <3>1. TakeFlags
      BY <2>6 DEF Woken, DeadlinePasses
    <3>2. snap'.session_valid = session_valid
      BY <3>1 DEF TakeFlags
    <3>3. pc' = "taken" /\ quiet' = quiet /\ session_valid' = session_valid
      BY <3>1 DEF TakeFlags
    <3> QED  BY <3>2, <3>3
  <2>7. CASE ShowPaused \/ ShowOffline
    BY <2>7 DEF ShowPaused, ShowOffline
  <2>8. CASE RunCycle
    BY <2>8 DEF RunCycle
  <2>9. CASE Settle
    BY <2>9 DEF Settle, SessionAfter, TypeOK
  <2>10. CASE Publish
    BY <2>10 DEF Publish
  <2>11. CASE UNCHANGED vars
    BY <2>11 DEF vars
  <2> QED  BY <2>1, <2>2, <2>3, <2>4, <2>5, <2>6, <2>7, <2>8, <2>9, <2>10, <2>11 DEF Next, Signal, Work
<1>3. SessionOver => NoCycleWithoutSession
  BY DEF SessionOver, NoCycleWithoutSession
<1> QED  BY <1>1, <1>2, <1>3, TypeCorrect, PTL DEF Spec
=============================================================================
