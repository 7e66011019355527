------------------------- MODULE BrowserSync_proofs -------------------------
(***************************************************************************)
(* The driver of a browser tab never stops silently, for any number of     *)
(* sign-ins and faults.                                                    *)
(***************************************************************************)
EXTENDS BrowserSync, TLAPS

Message == [kind : Kind, from : Starter]

\* A request is a message.
LEMMA RequestType ==
    ASSUME NEW kind \in Kind, NEW k \in Starter
    PROVE  Request(kind, k) \in Message
BY DEF Request, Message

\* What the head of the mail is, and what is left without it.
LEMMA MailShrinks ==
    ASSUME NEW m \in Seq(Message), m # <<>>
    PROVE  /\ Head(m) \in Message /\ Head(m) = m[1]
           /\ Tail(m) \in Seq(Message)
           /\ Len(Tail(m)) = Len(m) - 1
           /\ \A i \in DOMAIN Tail(m) : i + 1 \in DOMAIN m /\ Tail(m)[i] = m[i + 1]
           /\ \A i \in DOMAIN m : i # 1 => i - 1 \in DOMAIN Tail(m) /\ Tail(m)[i - 1] = m[i]
OBVIOUS

\* What a request is added to stays.
LEMMA MailGrows ==
    ASSUME NEW m \in Seq(Message), NEW r \in Message
    PROVE  /\ Append(m, r) \in Seq(Message)
           /\ \A i \in DOMAIN Append(m, r) :
                 \/ i \in DOMAIN m /\ Append(m, r)[i] = m[i]
                 \/ i = Len(m) + 1 /\ Append(m, r)[i] = r
           /\ \A i \in DOMAIN m : i \in DOMAIN Append(m, r) /\ Append(m, r)[i] = m[i]
           /\ Len(m) + 1 \in DOMAIN Append(m, r) /\ Append(m, r)[Len(m) + 1] = r
OBVIOUS

\* The first mail of a page is well typed, with its attempts.
LEMMA FirstTypes ==
    ASSUME NEW token \in Token \cup {NoToken}
    PROVE  /\ FirstMail(token) \in Seq(Message)
           /\ FirstStage(token) \in [Starter -> Stage]
           /\ FirstBearer(token) \in [Starter -> Token \cup {NoToken}]
<1>1. Request("connection", "page") \in Message
  BY RequestType DEF Kind, Starter
<1>2. <<>> \in Seq(Message)
  OBVIOUS
<1>3. <<Request("connection", "page")>> \in Seq(Message)
  BY <1>1
<1> QED  BY <1>2, <1>3 DEF FirstMail, FirstStage, FirstBearer, Stage

\* An answer comes from somebody.
LEMMA AnswerType ==
    ASSUME TypeOK, mail # <<>>
    PROVE  From \in Starter /\ Tail(mail) \in Seq(Message)
BY MailShrinks DEF TypeOK, Message, From

\* A caller that gives up leaves a well typed state.
LEMMA GiveUpType ==
    ASSUME TypeOK, NEW k \in Starter, NEW rest \in Seq(Message), NEW why, GiveUp(k, rest, why)
    PROVE  /\ stage' \in [Starter -> Stage] /\ mail' \in Seq(Message)
           /\ bearer' = bearer /\ standing' = standing /\ leaving' = leaving
           /\ stored' \in Token \cup {NoToken} /\ told' \in BOOLEAN
<1>1. Append(rest, Request("status", k)) \in Seq(Message)
  BY RequestType, MailGrows DEF Kind
<1>2. CASE k = "wake"
  BY <1>1, <1>2 DEF GiveUp, Reach, TypeOK, Stage
<1>3. CASE k # "wake"
  BY <1>3 DEF GiveUp, Reach, TypeOK, Stage
<1> QED  BY <1>2, <1>3

\* So does a wake.
LEMMA WokenType ==
    ASSUME TypeOK, NEW rest \in Seq(Message), Woken(rest)
    PROVE  /\ stage' \in [Starter -> Stage] /\ mail' \in Seq(Message)
           /\ bearer' \in [Starter -> Token \cup {NoToken}] /\ timer' \in Timer
<1>1. /\ Append(rest, Request("status", "wake")) \in Seq(Message)
      /\ Append(rest, Request("connection", "wake")) \in Seq(Message)
  BY RequestType, MailGrows DEF Kind, Starter
<1>2. CASE Reestablish(rest) /\ UNCHANGED timer
  BY <1>1, <1>2 DEF Reestablish, Reach, TypeOK, Stage, Starter
<1>3. CASE ~Lost /\ timer' = Scheduled("immediate") /\ mail' = rest /\ UNCHANGED attemptVars
  BY <1>3 DEF TypeOK, Scheduled, Timer, attemptVars
<1> QED  BY <1>2, <1>3 DEF Woken

\* Every reachable state is well typed.
THEOREM TypeCorrect == Spec => []TypeOK
<1>1. Init => TypeOK
  <2> SUFFICES ASSUME Init
               PROVE  TypeOK
    OBVIOUS
  <2>1. /\ stage \in [Starter -> Stage] /\ mail \in Seq(Message)
        /\ bearer \in [Starter -> Token \cup {NoToken}]
    BY FirstTypes DEF Init
  <2>2. standing \in [Token -> Standing] /\ faults \in 0 .. MaxFaults
    BY FaultsAssumption DEF Init, Standing
  <2> QED  BY <2>1, <2>2 DEF Init, TypeOK, Message, Timer
<1>2. TypeOK /\ [Next]_vars => TypeOK'
  <2> SUFFICES ASSUME TypeOK, [Next]_vars
               PROVE  TypeOK'
    OBVIOUS
  <2>0. mail \in Seq(Message)
    BY DEF TypeOK, Message
  <2>f. ASSUME Fault
        PROVE  faults' \in 0 .. MaxFaults
    BY <2>f, FaultsAssumption DEF Fault, TypeOK
  <2>1. CASE TimerFires
    <3>1. Append(mail, Request("cycle", "page")) \in Seq(Message)
      BY <2>0, RequestType, MailGrows DEF Kind, Starter
    <3> QED  BY <2>0, <2>1, <3>1 DEF TimerFires, TypeOK, Message, Timer, attemptVars, workerVars, cloudVars
  <2>2. CASE ServeConnection
    <3>1. From \in Starter /\ Tail(mail) \in Seq(Message)
      BY <2>2, AnswerType DEF ServeConnection, Served, Answered
    <3>2. Append(Tail(mail), Request("connection", From)) \in Seq(Message)
      BY <3>1, RequestType, MailGrows DEF Kind
    <3>3. /\ stage' \in [Starter -> Stage] /\ mail' \in Seq(Message)
          /\ bearer' = bearer /\ standing' = standing /\ leaving' = leaving
          /\ stored' \in Token \cup {NoToken} /\ told' \in BOOLEAN
      <4>1. CASE stage[From] = "planning"
        BY <2>2, <3>1, <4>1 DEF ServeConnection, Reach, TypeOK, Stage, cloudVars
      <4>2. CASE stage[From] # "planning" /\ linked
        BY <2>2, <3>1, <3>2, <4>2 DEF ServeConnection, Reach, TypeOK, Stage, cloudVars
      <4>3. CASE stage[From] # "planning" /\ ~linked
        <5>1. GiveUp(From, Tail(mail), "unlinked")
          BY <2>2, <4>3 DEF ServeConnection
        <5> QED  BY <3>1, <5>1, GiveUpType
      <4> QED  BY <4>1, <4>2, <4>3
    <3> QED  BY <2>2, <3>3 DEF ServeConnection, TypeOK, Message, flagVars, cycleVars, workerVars
  <2>3. ASSUME NEW k \in Starter, Provisioned(k)
        PROVE  TypeOK'
    <3>1. Append(mail, Request("connect", k)) \in Seq(Message)
      BY <2>0, RequestType, MailGrows DEF Kind
    <3> QED  BY <2>3, <3>1 DEF Provisioned, Reach, TypeOK, Message, Stage, flagVars, cycleVars, workerVars, cloudVars
  <2>4. ASSUME NEW k \in Starter, SessionRejected(k)
        PROVE  TypeOK'
    <3>1. GiveUp(k, mail, "rejected")
      BY <2>4 DEF SessionRejected
    <3> QED  BY <2>0, <2>4, <3>1, GiveUpType DEF SessionRejected, TypeOK, Message, flagVars, cycleVars, workerVars
  <2>5. ASSUME NEW k \in Starter, ProvisioningFails(k)
        PROVE  TypeOK'
    <3>1. GiveUp(k, mail, "failed")
      BY <2>5 DEF ProvisioningFails
    <3> QED  BY <2>0, <2>5, <2>f, <3>1, GiveUpType DEF ProvisioningFails, TypeOK, Message, flagVars, cycleVars, workerVars
  <2>6. CASE ServeConnect
    <3>1. From \in Starter /\ Tail(mail) \in Seq(Message)
      BY <2>6, AnswerType DEF ServeConnect, Served, Answered
    <3> QED  BY <2>6, <3>1 DEF ServeConnect, Reach, TypeOK, Message, Stage, Timer, cycleVars
  <2>7. CASE RequestFails
    <3>1. From \in Starter /\ Tail(mail) \in Seq(Message)
      BY <2>7, AnswerType DEF RequestFails, Answered
    <3>2. GiveUp(From, Tail(mail), "failed")
      BY <2>7 DEF RequestFails
    <3>3. faults' \in 0 .. MaxFaults
      BY <2>7, <2>f DEF RequestFails, TypeOK
    <3> QED  BY <2>7, <3>1, <3>2, <3>3, GiveUpType DEF RequestFails, TypeOK, Message, flagVars, cycleVars
  <2>8. CASE ServeStatus
    <3>1. From \in Starter /\ Tail(mail) \in Seq(Message)
      BY <2>8, AnswerType DEF ServeStatus, Answered
    <3> QED  BY <2>8, <3>1 DEF ServeStatus, Reach, TypeOK, Message, Stage, flagVars, cycleVars, workerVars, cloudVars
  <2>9. CASE CycleSyncs
    <3>1. Tail(mail) \in Seq(Message)
      BY <2>9, AnswerType DEF CycleSyncs, Cycles, Served, Answered
    <3> QED  BY <2>9, <3>1 DEF CycleSyncs, CycleEnds, Scheduled, TypeOK, Message, Timer, attemptVars, cloudVars
  <2>10. CASE CycleDenied
    <3>1. Tail(mail) \in Seq(Message)
      BY <2>10, AnswerType DEF CycleDenied, Cycles, Served, Answered
    <3> QED  BY <2>10, <3>1 DEF CycleDenied, DriverStops, LoseSession, TypeOK, Message, Timer, attemptVars, workerVars
  <2>11. CASE CycleLosesSession
    <3>1. Tail(mail) \in Seq(Message)
      BY <2>11, AnswerType DEF CycleLosesSession, Answered
    <3> QED  BY <2>11, <3>1 DEF CycleLosesSession, DriverStops, LoseSession, TypeOK, Message, Timer, attemptVars, workerVars, cloudVars
  <2>12. ASSUME NEW kind \in {"immediate", "retry", "poll"}, CycleFallsShort(kind)
         PROVE  TypeOK'
    <3>1. Tail(mail) \in Seq(Message)
      BY <2>12, AnswerType DEF CycleFallsShort, Cycles, Served, Answered
    <3> QED  BY <2>12, <2>f, <3>1 DEF CycleFallsShort, CycleEnds, Scheduled, TypeOK, Message, Timer, attemptVars, workerVars, cloudVars
  <2>13. CASE ServeApply
    <3>1. Tail(mail) \in Seq(Message)
      BY <2>13, AnswerType DEF ServeApply, Served, Answered
    <3>2. Woken(Tail(mail))
      BY <2>13 DEF ServeApply
    <3>3. /\ stage' \in [Starter -> Stage] /\ mail' \in Seq(Message)
          /\ bearer' \in [Starter -> Token \cup {NoToken}] /\ timer' \in Timer
      BY <3>1, <3>2, WokenType, Zenon
    <3> QED  BY <2>13, <3>3 DEF ServeApply, TypeOK, Message, cycleVars, cloudVars
  <2>14. CASE ApplyRefused
    <3>1. Tail(mail) \in Seq(Message)
      BY <2>14, AnswerType DEF ApplyRefused, Answered
    <3> QED  BY <2>14, <3>1 DEF ApplyRefused, TypeOK, Message, flagVars, cycleVars, attemptVars, workerVars, cloudVars
  <2>15. CASE ServeRefresh
    <3>1. Tail(mail) \in Seq(Message)
      BY <2>15, AnswerType DEF ServeRefresh, Answered
    <3> QED  BY <2>15, <3>1 DEF ServeRefresh, Scheduled, TypeOK, Message, Timer, cycleVars, attemptVars, workerVars, cloudVars
  <2>16. CASE SignOut
    <3>1. Tail(mail) \in Seq(Message)
      BY <2>16, AnswerType DEF SignOut, Answered
    <3>2. standing' \in [Token -> Standing]
      BY <2>16 DEF SignOut, TypeOK, Standing
    <3> QED  BY <2>16, <3>1, <3>2 DEF SignOut, TypeOK, Message, flagVars, cycleVars, attemptVars
  <2>17. CASE Wake
    <3>1. Woken(mail)
      BY <2>17 DEF Wake
    <3>3. /\ stage' \in [Starter -> Stage] /\ mail' \in Seq(Message)
          /\ bearer' \in [Starter -> Token \cup {NoToken}] /\ timer' \in Timer
      BY <2>0, <3>1, WokenType, Zenon
    <3> QED  BY <2>17, <3>3 DEF Wake, TypeOK, Message, cycleVars, workerVars, cloudVars
  <2>18. CASE OfflineNotice
    BY <2>18 DEF OfflineNotice, TypeOK, Timer, cycleVars, attemptVars, workerVars, cloudVars
  <2>19. CASE Commit \/ Refresh
    <3>1. /\ Append(mail, Request("apply", "page")) \in Seq(Message)
          /\ Append(mail, Request("refresh", "page")) \in Seq(Message)
      BY <2>0, RequestType, MailGrows DEF Kind, Starter
    <3> QED  BY <2>19, <3>1 DEF Commit, Refresh, TypeOK, Message, flagVars, cycleVars, attemptVars, workerVars, cloudVars
  <2>20. CASE Pause
    <3>1. Append(mail, Request("disconnect", "user")) \in Seq(Message)
      BY <2>0, RequestType, MailGrows DEF Kind, Starter
    <3> QED  BY <2>20, <3>1 DEF Pause, LoseSession, TypeOK, Message, Timer, cycleVars, attemptVars, workerVars
  <2>21. ASSUME NEW t \in Token, SignIn(t)
         PROVE  TypeOK'
    <3>1. Append(mail, Request("connection", "user")) \in Seq(Message)
      BY <2>0, RequestType, MailGrows DEF Kind, Starter
    <3> QED  BY <2>21, <3>1 DEF SignIn, Reach, TypeOK, Message, Stage, Standing, Starter, flagVars, cycleVars, workerVars
  <2>22. ASSUME NEW t \in Token, Revoke(t)
         PROVE  TypeOK'
    BY <2>22, <2>f DEF Revoke, TypeOK, Standing, flagVars, cycleVars, attemptVars, workerVars
  <2>23. CASE WorkerDies
    BY <2>23, <2>f DEF WorkerDies, TypeOK, Answered, flagVars, cycleVars, attemptVars, cloudVars
  <2>24. CASE Reload
    <3>1. /\ stage' \in [Starter -> Stage] /\ mail' \in Seq(Message)
          /\ bearer' \in [Starter -> Token \cup {NoToken}]
      BY <2>24, FirstTypes DEF Reload, TypeOK
    <3> QED  BY <2>24, <2>f, <3>1 DEF Reload, TypeOK, Message, Timer
  <2>25. CASE UNCHANGED vars
    BY <2>25 DEF vars, TypeOK, flagVars, cycleVars, attemptVars, workerVars, cloudVars
  <2> QED
    BY <2>1, <2>2, <2>3, <2>4, <2>5, <2>6, <2>7, <2>8, <2>9, <2>10, <2>11, <2>12, <2>13, <2>14,
       <2>15, <2>16, <2>17, <2>18, <2>19, <2>20, <2>21, <2>22, <2>23, <2>24, <2>25
       DEF Next, Worker, Service
<1> QED  BY <1>1, <1>2, PTL DEF Spec

\* "Without ever silently stopping" (platform/browser/sync.ts, header): a
\* driver that runs has a cycle ahead of it or under way.
THEOREM RunningDriverCyclesHolds == Spec => []RunningDriverCycles
<1>1. Init => RunningDriverCycles
  BY DEF Init, RunningDriverCycles
<1>2. RunningDriverCycles /\ [Next]_vars => RunningDriverCycles'
  <2> SUFFICES ASSUME RunningDriverCycles, [Next]_vars
               PROVE  RunningDriverCycles'
    OBVIOUS
  <2> USE DEF RunningDriverCycles, flagVars, cycleVars
  <2>1. CASE TimerFires
    BY <2>1 DEF TimerFires
  <2>2. CASE ServeConnection \/ RequestFails \/ ServeStatus \/ ApplyRefused \/ SignOut
    BY <2>2 DEF ServeConnection, RequestFails, ServeStatus, ApplyRefused, SignOut
  <2>3. ASSUME NEW k \in Starter, Provisioned(k) \/ SessionRejected(k) \/ ProvisioningFails(k)
        PROVE  RunningDriverCycles'
    BY <2>3 DEF Provisioned, SessionRejected, ProvisioningFails
  <2>4. CASE ServeConnect
    BY <2>4 DEF ServeConnect
  <2>5. CASE CycleSyncs
    BY <2>5 DEF CycleSyncs, CycleEnds, Scheduled
  <2>6. ASSUME NEW kind \in {"immediate", "retry", "poll"}, CycleFallsShort(kind)
        PROVE  RunningDriverCycles'
    BY <2>6 DEF CycleFallsShort, CycleEnds, Scheduled
  <2>7. CASE CycleDenied \/ CycleLosesSession \/ Pause
    BY <2>7 DEF CycleDenied, CycleLosesSession, Pause, DriverStops, LoseSession
  <2>8. CASE ServeApply \/ Wake
    BY <2>8 DEF ServeApply, Wake, Woken, Reestablish, Scheduled
  <2>9. CASE ServeRefresh \/ OfflineNotice
    BY <2>9 DEF ServeRefresh, OfflineNotice, Scheduled
  <2>10. CASE Commit \/ Refresh \/ WorkerDies
    BY <2>10 DEF Commit, Refresh, WorkerDies
  <2>11. ASSUME NEW t \in Token, SignIn(t) \/ Revoke(t)
         PROVE  RunningDriverCycles'
    BY <2>11 DEF SignIn, Revoke
  <2>12. CASE Reload
    BY <2>12 DEF Reload
  <2>13. CASE UNCHANGED vars
    BY <2>13 DEF vars
  <2> QED  BY <2>1, <2>2, <2>3, <2>4, <2>5, <2>6, <2>7, <2>8, <2>9, <2>10, <2>11, <2>12, <2>13
              DEF Next, Worker, Service
<1> QED  BY <1>1, <1>2, PTL DEF Spec

\* The requests of the attempts to establish a session, and what an attempt
\* waits for while its request is in the mail.
Asking(r) == r.kind \in {"connection", "connect", "status"}
Awaits(st, r) ==
    /\ r.kind = "connection" => st[r.from] \in {"resuming", "planning"}
    /\ r.kind = "connect" => st[r.from] = "connecting"
    /\ r.kind = "status" => st[r.from] = "reporting"
NoneAsks(m, k) == \A i \in DOMAIN m : ~(Asking(m[i]) /\ m[i].from = k)
Fits(m, st) ==
    /\ \A i \in DOMAIN m : Awaits(st, m[i])
    /\ \A i, j \in DOMAIN m : Asking(m[i]) /\ Asking(m[j]) /\ m[i].from = m[j].from => i = j

\* An attempt that waits for nothing in the mail has no request in it.
LEMMA NothingAsked ==
    ASSUME NEW m \in Seq(Message), NEW st, NEW k, Fits(m, st), st[k] \in {"idle", "provisioning"}
    PROVE  NoneAsks(m, k)
BY DEF Fits, Awaits, NoneAsks, Asking

\* Serving a request leaves fitting mail, and its sender has no other one.
LEMMA FitsServed ==
    ASSUME NEW m \in Seq(Message), m # <<>>, NEW st, Fits(m, st)
    PROVE  Fits(Tail(m), st) /\ (Asking(Head(m)) => NoneAsks(Tail(m), Head(m).from))
<1>1. /\ Head(m) = m[1] /\ 1 \in DOMAIN m
      /\ \A i \in DOMAIN Tail(m) : i \in Nat /\ i # 0 /\ i + 1 \in DOMAIN m /\ Tail(m)[i] = m[i + 1]
  BY MailShrinks
<1>2. Fits(Tail(m), st)
  <2>1. \A i \in DOMAIN Tail(m) : Awaits(st, Tail(m)[i])
    BY <1>1 DEF Fits
  <2>2. ASSUME NEW i \in DOMAIN Tail(m), NEW j \in DOMAIN Tail(m), Asking(Tail(m)[i]), Asking(Tail(m)[j]),
               Tail(m)[i].from = Tail(m)[j].from
        PROVE  i = j
    <3>1. i + 1 = j + 1
      BY <1>1, <2>2 DEF Fits
    <3> QED  BY <1>1, <3>1
  <2> QED  BY <2>1, <2>2 DEF Fits
<1>3. ASSUME Asking(Head(m))
      PROVE  NoneAsks(Tail(m), Head(m).from)
  <2> SUFFICES ASSUME NEW i \in DOMAIN Tail(m), Asking(Tail(m)[i]), Tail(m)[i].from = Head(m).from
               PROVE  FALSE
    BY DEF NoneAsks
  <2>1. i + 1 = 1
    BY <1>1, <1>3 DEF Fits
  <2> QED  BY <1>1, <2>1
<1> QED  BY <1>2, <1>3

\* An attempt without a request may move on.
LEMMA FitsMoved ==
    ASSUME NEW m \in Seq(Message), NEW st, NEW st2, NEW k, Fits(m, st), NoneAsks(m, k),
           \A o \in Starter : o # k => st2[o] = st[o]
    PROVE  Fits(m, st2)
<1>1. ASSUME NEW i \in DOMAIN m
      PROVE  Awaits(st2, m[i])
  <2>0. m[i] \in Message
    OBVIOUS
  <2>1. m[i].from \in Starter /\ Awaits(st, m[i])
    BY <2>0 DEF Message, Fits
  <2>2. CASE Asking(m[i])
    <3>1. st2[m[i].from] = st[m[i].from]
      BY <2>1, <2>2 DEF NoneAsks
    <3> QED  BY <2>1, <3>1 DEF Awaits
  <2>3. CASE ~Asking(m[i])
    BY <2>3 DEF Awaits, Asking
  <2> QED  BY <2>2, <2>3
<1> QED  BY <1>1 DEF Fits

\* A new request fits when its sender has no other one and awaits it.
LEMMA FitsSent ==
    ASSUME NEW m \in Seq(Message), NEW st, NEW r \in Message, Fits(m, st),
           Asking(r) => NoneAsks(m, r.from), Awaits(st, r)
    PROVE  Fits(Append(m, r), st)
<1>1. \A i \in DOMAIN Append(m, r) :
           \/ i \in DOMAIN m /\ Append(m, r)[i] = m[i]
           \/ i = Len(m) + 1 /\ Append(m, r)[i] = r
  BY MailGrows
<1>2. \A i \in DOMAIN Append(m, r) : Awaits(st, Append(m, r)[i])
  BY <1>1 DEF Fits
<1>3. ASSUME NEW i \in DOMAIN Append(m, r), NEW j \in DOMAIN Append(m, r),
             Asking(Append(m, r)[i]), Asking(Append(m, r)[j]), Append(m, r)[i].from = Append(m, r)[j].from
      PROVE  i = j
  BY <1>1, <1>3 DEF Fits, NoneAsks
<1> QED  BY <1>2, <1>3 DEF Fits

\* Moving on and asking for the next thing at once.
LEMMA FitsAsked ==
    ASSUME NEW m \in Seq(Message), NEW st, NEW st2, NEW r \in Message, Fits(m, st),
           NoneAsks(m, r.from), \A o \in Starter : o # r.from => st2[o] = st[o], Awaits(st2, r)
    PROVE  Fits(Append(m, r), st2)
<1>1. Fits(m, st2)
  BY FitsMoved
<1> QED  BY <1>1, FitsSent

\* A caller that gives up leaves fitting mail.
LEMMA GiveUpFits ==
    ASSUME TypeOK, NEW k \in Starter, NEW rest \in Seq(Message), NEW why, GiveUp(k, rest, why),
           Fits(rest, stage), NoneAsks(rest, k)
    PROVE  Fits(mail', stage')
<1>1. \A o \in Starter : o # k => stage'[o] = stage[o]
  BY DEF GiveUp, Reach, TypeOK
<1>2. CASE k = "wake"
  <2>1. /\ mail' = Append(rest, Request("status", k)) /\ stage'[k] = "reporting"
    BY <1>2 DEF GiveUp, Reach, TypeOK
  <2>2. /\ Request("status", k) \in Message /\ Request("status", k).from = k
        /\ Awaits(stage', Request("status", k))
    BY <2>1, RequestType DEF Request, Awaits, Kind
  <2> QED  BY <1>1, <2>1, <2>2, FitsAsked
<1>3. CASE k # "wake"
  BY <1>1, <1>3, FitsMoved DEF GiveUp
<1> QED  BY <1>2, <1>3

\* So does a wake.
LEMMA WokenFits ==
    ASSUME TypeOK, NEW rest \in Seq(Message), Woken(rest), Fits(rest, stage)
    PROVE  Fits(mail', stage')
<1>1. CASE Reestablish(rest) /\ UNCHANGED timer
  <2>1. "wake" \in Starter /\ stage["wake"] = "idle" /\ NoneAsks(rest, "wake")
    BY <1>1, NothingAsked DEF Reestablish, Lost, Idle, Starter
  <2>2. \A o \in Starter : o # "wake" => stage'[o] = stage[o]
    BY <1>1 DEF Reestablish, Reach, TypeOK
  <2>3. CASE stored = NoToken
    <3>1. /\ mail' = Append(rest, Request("status", "wake")) /\ stage'["wake"] = "reporting"
      BY <1>1, <2>1, <2>3 DEF Reestablish, Reach, TypeOK
    <3>2. /\ Request("status", "wake") \in Message /\ Request("status", "wake").from = "wake"
          /\ Awaits(stage', Request("status", "wake"))
      BY <2>1, <3>1, RequestType DEF Request, Awaits, Kind
    <3> QED  BY <2>1, <2>2, <3>1, <3>2, FitsAsked
  <2>4. CASE stored # NoToken
    <3>1. /\ mail' = Append(rest, Request("connection", "wake")) /\ stage'["wake"] = "resuming"
      BY <1>1, <2>1, <2>4 DEF Reestablish, Reach, TypeOK
    <3>2. /\ Request("connection", "wake") \in Message /\ Request("connection", "wake").from = "wake"
          /\ Awaits(stage', Request("connection", "wake"))
      BY <2>1, <3>1, RequestType DEF Request, Awaits, Kind
    <3> QED  BY <2>1, <2>2, <3>1, <3>2, FitsAsked
  <2> QED  BY <2>3, <2>4
<1>2. CASE ~Lost /\ timer' = Scheduled("immediate") /\ mail' = rest /\ UNCHANGED attemptVars
  BY <1>2 DEF attemptVars
<1> QED  BY <1>1, <1>2 DEF Woken

\* The page's own requests and the worker's answers to them leave fitting mail.
LEMMA FitsServedElse ==
    ASSUME TypeOK, Fits(mail, stage), mail # <<>>, mail' = Tail(mail), stage' = stage
    PROVE  Fits(mail', stage')
BY FitsServed DEF TypeOK, Message

LEMMA FitsSentElse ==
    ASSUME TypeOK, Fits(mail, stage), NEW kind \in {"cycle", "disconnect", "refresh", "apply"}, NEW k \in Starter,
           mail' = Append(mail, Request(kind, k)), stage' = stage
    PROVE  Fits(mail', stage')
<1>1. Request(kind, k) \in Message /\ ~Asking(Request(kind, k)) /\ Awaits(stage, Request(kind, k))
  BY RequestType DEF Kind, Asking, Request, Awaits
<1> QED  BY <1>1, FitsSent DEF TypeOK, Message

\* Every attempt has at most one request in the mail, the one it waits for.
THEOREM MailFits == Spec => []Fits(mail, stage)
<1>1. Init => Fits(mail, stage)
  <2> SUFFICES ASSUME Init
               PROVE  Fits(mail, stage)
    OBVIOUS
  <2>1. CASE stored = NoToken
    BY <2>1 DEF Init, FirstMail, Fits
  <2>2. CASE stored # NoToken
    <3>1. mail = <<Request("connection", "page")>> /\ stage["page"] = "resuming"
      BY <2>2 DEF Init, FirstMail, FirstStage, Starter
    <3> QED  BY <3>1 DEF Fits, Awaits, Request
  <2> QED  BY <2>1, <2>2
<1>2. TypeOK /\ Fits(mail, stage) /\ [Next]_vars => Fits(mail, stage)'
  <2> SUFFICES ASSUME TypeOK, Fits(mail, stage), [Next]_vars
               PROVE  Fits(mail', stage')
    OBVIOUS
  <2>0. mail \in Seq(Message)
    BY DEF TypeOK, Message
  <2>s. ASSUME mail # <<>>
        PROVE  /\ From \in Starter /\ Tail(mail) \in Seq(Message) /\ Fits(Tail(mail), stage)
               /\ Head(mail).kind \in {"connection", "connect", "status"} => NoneAsks(Tail(mail), From)
    BY <2>0, <2>s, AnswerType, FitsServed DEF From, Asking
  <2>1. CASE TimerFires
    BY <2>1, FitsSentElse DEF TimerFires, attemptVars, Starter
  <2>2. CASE ServeConnection
    <3>1. /\ From \in Starter /\ Tail(mail) \in Seq(Message) /\ Fits(Tail(mail), stage)
          /\ NoneAsks(Tail(mail), From)
      BY <2>2, <2>s DEF ServeConnection, Served, Answered
    <3>2. CASE stage[From] = "planning"
      <4>1. mail' = Tail(mail) /\ \A o \in Starter : o # From => stage'[o] = stage[o]
        BY <2>2, <3>2 DEF ServeConnection, Reach, TypeOK
      <4> QED  BY <3>1, <4>1, FitsMoved
    <3>3. CASE stage[From] # "planning" /\ linked
      <4> DEFINE r == Request("connection", From)
                 m == Tail(mail)
      <4>1. /\ mail' = Append(m, r)
            /\ stage'[From] = "planning" /\ \A o \in Starter : o # From => stage'[o] = stage[o]
        BY <2>2, <3>1, <3>3 DEF ServeConnection, Reach, TypeOK
      <4>2. r \in Message /\ r.from = From /\ Awaits(stage', r)
        BY <3>1, <4>1, RequestType DEF Request, Awaits, Kind
      <4>3. m \in Seq(Message) /\ Fits(m, stage) /\ NoneAsks(m, r.from)
        BY <3>1, <4>2
      <4>4. \A o \in Starter : o # r.from => stage'[o] = stage[o]
        BY <4>1, <4>2
      <4> HIDE DEF r, m
      <4> QED  BY <4>1, <4>2, <4>3, <4>4, FitsAsked
    <3>4. CASE stage[From] # "planning" /\ ~linked
      <4>1. GiveUp(From, Tail(mail), "unlinked")
        BY <2>2, <3>4 DEF ServeConnection
      <4> QED  BY <3>1, <4>1, GiveUpFits
    <3> QED  BY <3>2, <3>3, <3>4
  <2>3. ASSUME NEW k \in Starter, Provisioned(k)
        PROVE  Fits(mail', stage')
    <3>1. /\ mail' = Append(mail, Request("connect", k))
          /\ stage'[k] = "connecting" /\ \A o \in Starter : o # k => stage'[o] = stage[o]
      BY <2>3 DEF Provisioned, Reach, TypeOK
    <3>2. /\ Request("connect", k) \in Message /\ Request("connect", k).from = k
          /\ Awaits(stage', Request("connect", k))
      BY <3>1, RequestType DEF Request, Awaits, Kind
    <3>3. NoneAsks(mail, k)
      BY <2>0, <2>3, NothingAsked DEF Provisioned
    <3> QED  BY <2>0, <3>1, <3>2, <3>3, FitsAsked
  <2>4. ASSUME NEW k \in Starter, SessionRejected(k) \/ ProvisioningFails(k)
        PROVE  Fits(mail', stage')
    <3>1. NoneAsks(mail, k)
      BY <2>0, <2>4, NothingAsked DEF SessionRejected, ProvisioningFails
    <3>2. \E why \in {"rejected", "failed"} : GiveUp(k, mail, why)
      BY <2>4 DEF SessionRejected, ProvisioningFails
    <3> QED  BY <2>0, <3>1, <3>2, GiveUpFits
  <2>5. CASE ServeConnect \/ ServeStatus
    <3>1. /\ From \in Starter /\ Tail(mail) \in Seq(Message) /\ Fits(Tail(mail), stage)
          /\ NoneAsks(Tail(mail), From)
      BY <2>5, <2>s DEF ServeConnect, ServeStatus, Served, Answered
    <3>2. mail' = Tail(mail) /\ \A o \in Starter : o # From => stage'[o] = stage[o]
      BY <2>5 DEF ServeConnect, ServeStatus, Reach, TypeOK
    <3> QED  BY <3>1, <3>2, FitsMoved
  <2>6. CASE RequestFails
    <3>1. /\ From \in Starter /\ Tail(mail) \in Seq(Message) /\ Fits(Tail(mail), stage)
          /\ NoneAsks(Tail(mail), From)
      BY <2>6, <2>s DEF RequestFails, Answered
    <3>2. GiveUp(From, Tail(mail), "failed")
      BY <2>6 DEF RequestFails
    <3> QED  BY <3>1, <3>2, GiveUpFits
  <2>7. CASE CycleSyncs
    BY <2>7, FitsServedElse DEF CycleSyncs, CycleEnds, Cycles, Served, Answered, attemptVars
  <2>8. CASE CycleDenied \/ CycleLosesSession
    BY <2>8, FitsServedElse DEF CycleDenied, CycleLosesSession, DriverStops, Cycles, Served, Answered, attemptVars
  <2>9. ASSUME NEW kind \in {"immediate", "retry", "poll"}, CycleFallsShort(kind)
        PROVE  Fits(mail', stage')
    BY <2>9, FitsServedElse DEF CycleFallsShort, CycleEnds, Cycles, Served, Answered, attemptVars
  <2>10. CASE ServeApply
    <3>1. Tail(mail) \in Seq(Message) /\ Fits(Tail(mail), stage)
      BY <2>10, <2>s DEF ServeApply, Served, Answered
    <3>2. Woken(Tail(mail))
      BY <2>10 DEF ServeApply
    <3> QED  BY <3>1, <3>2, WokenFits
  <2>11. CASE ApplyRefused \/ ServeRefresh \/ SignOut
    BY <2>11, FitsServedElse DEF ApplyRefused, ServeRefresh, SignOut, Answered, attemptVars
  <2>12. CASE Wake
    <3>1. Woken(mail)
      BY <2>12 DEF Wake
    <3> QED  BY <2>0, <3>1, WokenFits
  <2>13. CASE Commit \/ Refresh \/ Pause
    BY <2>13, FitsSentElse DEF Commit, Refresh, Pause, attemptVars, Starter
  <2>14. ASSUME NEW t \in Token, SignIn(t)
         PROVE  Fits(mail', stage')
    <3>1. /\ mail' = Append(mail, Request("connection", "user")) /\ "user" \in Starter
          /\ stage'["user"] = "planning" /\ \A o \in Starter : o # "user" => stage'[o] = stage[o]
      BY <2>14 DEF SignIn, Reach, TypeOK, Starter
    <3>2. /\ Request("connection", "user") \in Message /\ Request("connection", "user").from = "user"
          /\ Awaits(stage', Request("connection", "user"))
      BY <3>1, RequestType DEF Request, Awaits, Kind
    <3>3. NoneAsks(mail, "user")
      BY <2>0, <2>14, NothingAsked DEF SignIn, Idle
    <3> QED  BY <2>0, <3>1, <3>2, <3>3, FitsAsked
  <2>15. ASSUME NEW t \in Token, Revoke(t)
         PROVE  Fits(mail', stage')
    BY <2>15 DEF Revoke, attemptVars
  <2>16. CASE OfflineNotice \/ WorkerDies \/ UNCHANGED vars
    BY <2>16 DEF OfflineNotice, WorkerDies, vars, attemptVars
  <2>17. CASE Reload
    <3>1. CASE stored = NoToken
      BY <2>17, <3>1 DEF Reload, FirstMail, Fits
    <3>2. CASE stored # NoToken
      <4>1. mail' = <<Request("connection", "page")>> /\ stage'["page"] = "resuming"
        BY <2>17, <3>2 DEF Reload, FirstMail, FirstStage, Starter
      <4> QED  BY <4>1 DEF Fits, Awaits, Request
    <3> QED  BY <3>1, <3>2
  <2> QED
    BY <2>1, <2>2, <2>3, <2>4, <2>5, <2>6, <2>7, <2>8, <2>9, <2>10, <2>11, <2>12, <2>13, <2>14,
       <2>15, <2>16, <2>17 DEF Next, Worker, Service
<1> QED  BY <1>1, <1>2, TypeCorrect, PTL DEF Spec

\* Every credential in use is one the service has issued, so that no later
\* sign-in makes an old one valid.
Issued ==
    /\ session # NoToken => standing[session] # "unissued"
    /\ stored # NoToken => standing[stored] # "unissued"
    /\ \A k \in Starter : bearer[k] # NoToken => standing[bearer[k]] # "unissued"

LEMMA IssuedHolds == Spec => []Issued
<1>1. Init => Issued
  BY DEF Init, Issued, FirstBearer, Starter
<1>2. TypeOK /\ Issued /\ [Next]_vars => Issued'
  <2> SUFFICES ASSUME TypeOK, Issued, [Next]_vars
               PROVE  Issued'
    OBVIOUS
  <2> USE DEF Issued, flagVars, cycleVars, attemptVars, workerVars, cloudVars
  <2>g. ASSUME NEW k \in Starter, NEW rest, NEW why, GiveUp(k, rest, why), session' \in {session, NoToken}
        PROVE  Issued'
    BY <2>g DEF GiveUp
  <2>w. ASSUME NEW rest, Woken(rest), UNCHANGED <<session, stored, standing>>
        PROVE  Issued'
    <3>1. CASE Reestablish(rest)
      <4>1. UNCHANGED <<session, stored, standing>> /\ bearer' = [bearer EXCEPT !["wake"] = stored]
        BY <2>w, <3>1 DEF Reestablish
      <4> QED  BY <4>1 DEF TypeOK
    <3>2. CASE UNCHANGED attemptVars
      BY <2>w, <3>2
    <3> QED  BY <2>w, <3>1, <3>2 DEF Woken
  <2>f. ASSUME mail # <<>>
        PROVE  From \in Starter
    BY <2>f, AnswerType
  <2>1. CASE TimerFires \/ ServeStatus
    BY <2>1 DEF TimerFires, ServeStatus
  <2>2. CASE ServeConnection
    <3>1. CASE GiveUp(From, Tail(mail), "unlinked")
      BY <2>2, <2>f, <2>g, <3>1 DEF ServeConnection, Served, Answered
    <3> QED  BY <2>2, <3>1 DEF ServeConnection
  <2>3. ASSUME NEW k \in Starter, Provisioned(k) \/ SessionRejected(k) \/ ProvisioningFails(k)
        PROVE  Issued'
    <3>1. CASE GiveUp(k, mail, "rejected") \/ GiveUp(k, mail, "failed")
      BY <2>3, <2>g, <3>1 DEF Provisioned, SessionRejected, ProvisioningFails
    <3> QED  BY <2>3, <3>1 DEF Provisioned, SessionRejected, ProvisioningFails
  <2>4. CASE ServeConnect
    BY <2>4, <2>f DEF ServeConnect, Served, Answered
  <2>5. CASE RequestFails
    BY <2>5, <2>f, <2>g DEF RequestFails, Answered
  <2>6. CASE CycleSyncs
    BY <2>6 DEF CycleSyncs, CycleEnds
  <2>7. CASE CycleDenied \/ CycleLosesSession
    BY <2>7 DEF CycleDenied, CycleLosesSession, DriverStops
  <2>8. ASSUME NEW kind \in {"immediate", "retry", "poll"}, CycleFallsShort(kind)
        PROVE  Issued'
    BY <2>8 DEF CycleFallsShort, CycleEnds
  <2>9. CASE ServeApply \/ Wake
    BY <2>9, <2>w DEF ServeApply, Wake
  <2>10. CASE ApplyRefused \/ ServeRefresh \/ Commit \/ Refresh \/ Pause \/ OfflineNotice
    BY <2>10 DEF ApplyRefused, ServeRefresh, Commit, Refresh, Pause, OfflineNotice
  <2>11. CASE SignOut
    BY <2>11 DEF SignOut, TypeOK
  <2>12. ASSUME NEW t \in Token, SignIn(t)
         PROVE  Issued'
    <3>1. /\ stored' = t /\ session' = session /\ standing' = [standing EXCEPT ![t] = "valid"]
          /\ bearer' = [bearer EXCEPT !["user"] = t]
      BY <2>12 DEF SignIn
    <3> QED  BY <3>1, TokenAssumption DEF TypeOK
  <2>13. ASSUME NEW t \in Token, Revoke(t)
         PROVE  Issued'
    BY <2>13, TokenAssumption DEF Revoke, TypeOK
  <2>14. CASE WorkerDies \/ UNCHANGED vars
    BY <2>14 DEF WorkerDies, vars
  <2>15. CASE Reload
    BY <2>15 DEF Reload, FirstBearer, Starter
  <2> QED
    BY <2>1, <2>2, <2>3, <2>4, <2>5, <2>6, <2>7, <2>8, <2>9, <2>10, <2>11, <2>12, <2>13, <2>14, <2>15
       DEF Next, Worker, Service
<1> QED  BY <1>1, <1>2, TypeCorrect, PTL DEF Spec

\* A request stays in the mail until it is served.
LEMMA AskedUntilServed ==
    ASSUME TypeOK, mail # <<>>, NEW kind, Head(mail).kind # kind, NEW rest,
           rest = Tail(mail) \/ (\E r \in Message : rest = Append(Tail(mail), r)), Asks(kind)
    PROVE  \E i \in DOMAIN rest : rest[i].kind = kind
<1>1. mail \in Seq(Message)
  BY DEF TypeOK, Message
<1>2. \E i \in DOMAIN Tail(mail) : Tail(mail)[i].kind = kind
  <2>1. PICK i \in DOMAIN mail : mail[i].kind = kind
    BY DEF Asks
  <2>2. i # 1 /\ i - 1 \in DOMAIN Tail(mail) /\ Tail(mail)[i - 1] = mail[i]
    BY <1>1, <2>1, MailShrinks
  <2> QED  BY <2>1, <2>2
<1>3. Tail(mail) \in Seq(Message)
  BY <1>1, MailShrinks
<1> QED  BY <1>2, <1>3, MailGrows

LEMMA AskedWhenSent ==
    ASSUME TypeOK, NEW r \in Message, NEW kind, Asks(kind) \/ r.kind = kind
    PROVE  \E i \in DOMAIN Append(mail, r) : Append(mail, r)[i].kind = kind
<1>1. mail \in Seq(Message)
  BY DEF TypeOK, Message
<1>2. CASE Asks(kind)
  BY <1>1, <1>2, MailGrows DEF Asks
<1>3. CASE r.kind = kind
  BY <1>1, <1>3, MailGrows
<1> QED  BY <1>2, <1>3

\* A driver that does not run leaves no usable session behind (wake, pause,
\* loseSession): a session it no longer drives is refused by the service or is
\* about to be disconnected.
THEOREM StoppedIsShownHolds == Spec => []StoppedIsShown
<1>1. Init => StoppedIsShown
  BY DEF Init, StoppedIsShown
<1>2. TypeOK /\ Issued /\ StoppedIsShown /\ [Next]_vars => StoppedIsShown'
  <2> SUFFICES ASSUME TypeOK, Issued, StoppedIsShown, [Next]_vars
               PROVE  StoppedIsShown'
    OBVIOUS
  <2> USE DEF flagVars, cycleVars, attemptVars, workerVars, cloudVars
  <2>0. mail \in Seq(Message)
    BY DEF TypeOK, Message
  \* what keeps the driver, the session and the service's view of it as they are
  <2>k. ASSUME UNCHANGED <<active, standing>>, session' \in {session, NoToken},
               Asks("disconnect") => Asks("disconnect")'
        PROVE  StoppedIsShown'
    BY <2>k DEF StoppedIsShown
  \* what answers another request, and may send one
  <2>a. ASSUME mail # <<>>, Head(mail).kind # "disconnect",
               mail' = Tail(mail) \/ (\E r \in Message : mail' = Append(Tail(mail), r))
        PROVE  Asks("disconnect") => Asks("disconnect")'
    BY <2>a, AskedUntilServed DEF Asks
  <2>s. ASSUME mail' = mail \/ (\E r \in Message : mail' = Append(mail, r))
        PROVE  Asks("disconnect") => Asks("disconnect")'
    BY <2>s, AskedWhenSent DEF Asks
  <2>g. ASSUME NEW k \in Starter, NEW rest, NEW why, GiveUp(k, rest, why)
        PROVE  standing' = standing /\ (mail' = rest \/ (\E r \in Message : mail' = Append(rest, r)))
    BY <2>g, RequestType DEF GiveUp, Kind
  <2>w. ASSUME NEW rest, Woken(rest)
        PROVE  mail' = rest \/ (\E r \in Message : mail' = Append(rest, r))
    <3>1. Request("status", "wake") \in Message /\ Request("connection", "wake") \in Message
      BY RequestType DEF Kind, Starter
    <3> QED  BY <2>w, <3>1 DEF Woken, Reestablish
  <2>f. ASSUME mail # <<>>
        PROVE  From \in Starter
    BY <2>f, AnswerType
  <2>1. CASE TimerFires
    <3>1. Request("cycle", "page") \in Message
      BY RequestType DEF Kind, Starter
    <3> QED  BY <2>1, <2>k, <2>s, <3>1 DEF TimerFires
  <2>2. CASE ServeConnection
    <3>1. From \in Starter /\ mail # <<>> /\ Head(mail).kind # "disconnect"
      BY <2>2, <2>f DEF ServeConnection, Served, Answered
    <3>2. Request("connection", From) \in Message
      BY <3>1, RequestType DEF Kind
    <3>3. UNCHANGED <<active, session, standing>>
      BY <2>2, <2>g, <3>1 DEF ServeConnection
    <3>4. mail' = Tail(mail) \/ (\E r \in Message : mail' = Append(Tail(mail), r))
      BY <2>2, <2>g, <3>1, <3>2 DEF ServeConnection
    <3> QED  BY <2>k, <2>a, <3>1, <3>3, <3>4
  <2>3. ASSUME NEW k \in Starter, Provisioned(k) \/ SessionRejected(k) \/ ProvisioningFails(k)
        PROVE  StoppedIsShown'
    <3>1. Request("connect", k) \in Message
      BY RequestType DEF Kind
    <3>2. UNCHANGED <<active, session, standing>>
      BY <2>3, <2>g DEF Provisioned, SessionRejected, ProvisioningFails
    <3>3. mail' = mail \/ (\E r \in Message : mail' = Append(mail, r))
      BY <2>3, <2>g, <3>1 DEF Provisioned, SessionRejected, ProvisioningFails
    <3> QED  BY <2>k, <2>s, <3>2, <3>3
  <2>4. CASE ServeConnect
    BY <2>4 DEF ServeConnect, StoppedIsShown
  <2>5. CASE RequestFails
    <3>1. From \in Starter /\ mail # <<>> /\ Head(mail).kind # "disconnect"
      BY <2>5, <2>f DEF RequestFails, Answered
    <3>2. GiveUp(From, Tail(mail), "failed")
      BY <2>5 DEF RequestFails
    <3>3. UNCHANGED <<active, standing>> /\ session' \in {session, NoToken}
      BY <2>5, <2>g, <3>1, <3>2 DEF RequestFails
    <3> QED  BY <2>k, <2>a, <2>g, <3>1, <3>2, <3>3
  <2>6. CASE ServeStatus \/ ApplyRefused \/ ServeRefresh
    BY <2>6, <2>k, <2>a DEF ServeStatus, ApplyRefused, ServeRefresh, Answered
  <2>7. CASE CycleSyncs
    BY <2>7, <2>k, <2>a DEF CycleSyncs, CycleEnds, Cycles, Served, Answered
  <2>8. CASE CycleDenied
    BY <2>8 DEF CycleDenied, Cycles, StoppedIsShown
  <2>9. CASE CycleLosesSession
    BY <2>9 DEF CycleLosesSession, StoppedIsShown
  <2>10. ASSUME NEW kind \in {"immediate", "retry", "poll"}, CycleFallsShort(kind)
         PROVE  StoppedIsShown'
    BY <2>10, <2>k, <2>a DEF CycleFallsShort, CycleEnds, Cycles, Served, Answered
  <2>11. CASE ServeApply
    BY <2>11, <2>k, <2>a, <2>w DEF ServeApply, Served, Answered
  <2>12. CASE Wake
    BY <2>12, <2>k, <2>s, <2>w DEF Wake
  <2>13. CASE OfflineNotice
    BY <2>13, <2>k, <2>s DEF OfflineNotice
  <2>14. CASE Commit \/ Refresh
    <3>1. Request("apply", "page") \in Message /\ Request("refresh", "page") \in Message
      BY RequestType DEF Kind, Starter
    <3> QED  BY <2>14, <2>k, <2>s, <3>1 DEF Commit, Refresh
  <2>15. CASE Pause
    <3>1. /\ Request("disconnect", "user") \in Message /\ Request("disconnect", "user").kind = "disconnect"
          /\ mail' = Append(mail, Request("disconnect", "user"))
      BY <2>15, RequestType DEF Pause, Kind, Starter, Request
    <3>2. Asks("disconnect")'
      BY <3>1, AskedWhenSent DEF Asks
    <3> QED  BY <3>2 DEF StoppedIsShown
  <2>16. CASE SignOut
    BY <2>16 DEF SignOut, StoppedIsShown
  <2>17. ASSUME NEW t \in Token, SignIn(t)
         PROVE  StoppedIsShown'
    <3>1. Asks("disconnect") => Asks("disconnect")'
      <4>1. Request("connection", "user") \in Message
        BY RequestType DEF Kind, Starter
      <4> QED  BY <2>17, <2>s, <4>1 DEF SignIn
    <3>2. /\ UNCHANGED <<active, session>> /\ standing' = [standing EXCEPT ![t] = "valid"]
          /\ standing[t] = "unissued"
      BY <2>17 DEF SignIn
    <3>3. session # NoToken => session \in Token /\ standing'[session] = standing[session]
      BY <3>2 DEF TypeOK, Issued
    <3> QED  BY <3>1, <3>2, <3>3 DEF StoppedIsShown
  <2>18. ASSUME NEW t \in Token, Revoke(t)
         PROVE  StoppedIsShown'
    BY <2>18 DEF Revoke, StoppedIsShown, Asks, TypeOK
  <2>19. CASE WorkerDies \/ Reload
    BY <2>19 DEF WorkerDies, Reload, StoppedIsShown
  <2>20. CASE UNCHANGED vars
    BY <2>20, <2>k, <2>s DEF vars
  <2> QED
    BY <2>1, <2>2, <2>3, <2>4, <2>5, <2>6, <2>7, <2>8, <2>9, <2>10, <2>11, <2>12, <2>13, <2>14, <2>15,
       <2>16, <2>17, <2>18, <2>19, <2>20 DEF Next, Worker, Service
<1> QED  BY <1>1, <1>2, TypeCorrect, IssuedHolds, PTL DEF Spec

\* An attempt that only reports why it failed is no undertaking any more.
Trying == \E k \in Starter : stage[k] \notin {"idle", "reporting"}
Retried == linked /\ stored # NoToken /\ ~active => Trying \/ leaving \/ sessionLost \/ told

\* A linked workspace with a persisted credential is not given up without a
\* word (connect, resume): its driver runs, is about to, waits for a wake, or
\* the user was told.
THEOREM RetriedOrToldHolds == Spec => []RetriedOrTold
<1>1. Init => Retried
  BY DEF Init, Retried, Trying, FirstStage, Starter
<1>2. TypeOK /\ Fits(mail, stage) /\ Retried /\ [Next]_vars => Retried'
  <2> SUFFICES ASSUME TypeOK, Fits(mail, stage), Retried, [Next]_vars
               PROVE  Retried'
    OBVIOUS
  <2> USE DEF flagVars, cycleVars, attemptVars, workerVars, cloudVars
  <2>r. ASSUME mail # <<>>
        PROVE  /\ From \in Starter
               /\ Head(mail).kind = "connection" => stage[From] \in {"resuming", "planning"}
               /\ Head(mail).kind = "connect" => stage[From] = "connecting"
               /\ Head(mail).kind = "status" => stage[From] = "reporting"
    <3>1. 1 \in DOMAIN mail /\ Head(mail) = mail[1] /\ From \in Starter
      BY <2>r, AnswerType, MailShrinks DEF TypeOK, Message
    <3> QED  BY <3>1 DEF Fits, Awaits, From
  <2>g. ASSUME NEW k \in Starter, NEW rest, NEW why, GiveUp(k, rest, why), UNCHANGED <<active, linked>>,
               why = "unlinked" => ~linked, why \in {"unlinked", "rejected", "failed"}
        PROVE  Retried'
    <3>1. CASE why = "unlinked"
      BY <2>g, <3>1 DEF Retried
    <3>2. CASE why = "rejected"
      BY <2>g, <3>2 DEF GiveUp, Retried
    <3>3. CASE why = "failed"
      BY <2>g, <3>3 DEF GiveUp, Retried
    <3> QED  BY <2>g, <3>1, <3>2, <3>3
  <2>w. ASSUME NEW rest, Woken(rest), UNCHANGED <<active, sessionLost, linked, cloudVars>>
        PROVE  Retried'
    <3>1. CASE Reestablish(rest)
      BY <2>w, <3>1 DEF Reestablish, Lost, Retried
    <3>2. CASE UNCHANGED attemptVars
      BY <2>w, <3>2 DEF Retried, Trying
    <3> QED  BY <2>w, <3>1, <3>2 DEF Woken
  <2>1. CASE TimerFires \/ OfflineNotice \/ Commit \/ Refresh \/ ApplyRefused \/ ServeRefresh \/ UNCHANGED vars
    BY <2>1 DEF TimerFires, OfflineNotice, Commit, Refresh, ApplyRefused, ServeRefresh, vars, Retried, Trying
  <2>2. CASE ServeConnection
    <3>1. From \in Starter /\ UNCHANGED <<active, sessionLost, linked>>
      BY <2>2, <2>r DEF ServeConnection, Served, Answered
    <3>2. CASE stage[From] = "planning"
      <4>1. stage'[From] = "provisioning" /\ UNCHANGED cloudVars
        BY <2>2, <3>1, <3>2 DEF ServeConnection, Reach, TypeOK
      <4> QED  BY <3>1, <4>1 DEF Retried, Trying
    <3>3. CASE stage[From] # "planning" /\ linked
      <4>1. stage'[From] = "planning" /\ UNCHANGED cloudVars
        BY <2>2, <3>1, <3>3 DEF ServeConnection, Reach, TypeOK
      <4> QED  BY <3>1, <4>1 DEF Retried, Trying
    <3>4. CASE stage[From] # "planning" /\ ~linked
      BY <3>1, <3>4 DEF Retried
    <3> QED  BY <3>2, <3>3, <3>4
  <2>3. ASSUME NEW k \in Starter, Provisioned(k)
        PROVE  Retried'
    <3>1. stage'[k] = "connecting" /\ UNCHANGED <<cloudVars, active, sessionLost, linked>>
      BY <2>3 DEF Provisioned, Reach, TypeOK
    <3> QED  BY <3>1 DEF Retried, Trying
  <2>4. ASSUME NEW k \in Starter, SessionRejected(k) \/ ProvisioningFails(k)
        PROVE  Retried'
    BY <2>4, <2>g DEF SessionRejected, ProvisioningFails
  <2>5. CASE ServeConnect
    BY <2>5 DEF ServeConnect, Retried
  <2>6. CASE RequestFails
    <3>1. From \in Starter
      BY <2>6, <2>r DEF RequestFails, Answered
    <3> QED  BY <2>6, <2>g, <3>1 DEF RequestFails
  <2>7. CASE ServeStatus
    <3>1. From \in Starter /\ stage[From] = "reporting" /\ stage' = [stage EXCEPT ![From] = "idle"]
      BY <2>7, <2>r DEF ServeStatus, Answered, Reach
    <3>2. Trying => Trying'
      BY <3>1 DEF Trying, TypeOK
    <3> QED  BY <2>7, <3>2 DEF ServeStatus, Retried
  <2>8. CASE CycleSyncs
    BY <2>8 DEF CycleSyncs, CycleEnds, Retried, Trying
  <2>9. CASE CycleDenied \/ CycleLosesSession
    BY <2>9 DEF CycleDenied, CycleLosesSession, Retried
  <2>10. ASSUME NEW kind \in {"immediate", "retry", "poll"}, CycleFallsShort(kind)
         PROVE  Retried'
    BY <2>10 DEF CycleFallsShort, CycleEnds, Retried, Trying
  <2>11. CASE ServeApply \/ Wake
    BY <2>11, <2>w DEF ServeApply, Wake
  <2>12. CASE Pause \/ SignOut
    BY <2>12 DEF Pause, SignOut, Retried
  <2>13. ASSUME NEW t \in Token, SignIn(t)
         PROVE  Retried'
    <3>1. "user" \in Starter /\ stage'["user"] = "planning"
      BY <2>13 DEF SignIn, Reach, TypeOK, Starter
    <3> QED  BY <3>1 DEF Retried, Trying
  <2>14. ASSUME NEW t \in Token, Revoke(t)
         PROVE  Retried'
    BY <2>14 DEF Revoke, Retried, Trying
  <2>15. CASE WorkerDies
    <3>1. CASE linked' = linked
      BY <2>15, <3>1 DEF WorkerDies, Retried, Trying
    <3>2. CASE linked' # linked
      <4>1. Answered("connect")
        BY <2>15, <3>2 DEF WorkerDies, TypeOK
      <4>2. From \in Starter /\ stage'[From] = "connecting"
        BY <2>15, <2>r, <4>1 DEF WorkerDies, Answered
      <4> QED  BY <4>2 DEF Retried, Trying
    <3> QED  BY <3>1, <3>2
  <2>16. CASE Reload
    BY <2>16 DEF Reload, Retried, Trying, FirstStage, Starter
  <2> QED
    BY <2>1, <2>2, <2>3, <2>4, <2>5, <2>6, <2>7, <2>8, <2>9, <2>10, <2>11, <2>12, <2>13, <2>14, <2>15, <2>16
       DEF Next, Worker, Service
<1>3. Retried => RetriedOrTold
  BY DEF Retried, RetriedOrTold, Trying, Undertaken, Idle
<1> QED  BY <1>1, <1>2, <1>3, TypeCorrect, MailFits, PTL DEF Spec
=============================================================================
