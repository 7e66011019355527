---------------------------- MODULE SyncProgress ----------------------------
(***************************************************************************)
(* What the workers of SyncReplica bring about in the end.  However often  *)
(* requests fail, workers are interrupted and processes die, there comes a *)
(* time from which they do not: the service is reachable, the session is   *)
(* valid and the process lives.  Nothing bounds the trouble before that.   *)
(*                                                                         *)
(* From then on the coordinator's loop (coordinator.rs) starts cycle after *)
(* cycle, and a row whose retry time has not come is claimed eventually.   *)
(***************************************************************************)
EXTENDS SyncReplica

VARIABLE calm   \* no trouble from here on

liveVars == <<vars, calm>>

LiveInit == Init /\ calm = FALSE

CalmDown == ~calm /\ calm' = TRUE /\ UNCHANGED vars

Works(d) == Cycle(d) /\ UNCHANGED calm
Claims(d) == (\E k \in 1 .. Len(outbox[d]) : Claim(d, k)) /\ UNCHANGED calm

LiveNext ==
  \/ \E d \in Device : Works(d)
  \/ \E d \in Device : User(d) /\ UNCHANGED calm
  \/ \E d \in Device : ~calm /\ Trouble(d) /\ UNCHANGED calm
  \/ \E r \in stray : StrayArrives(r) /\ UNCHANGED calm
  \/ \E f \in 1 .. ckpt.seq : Compact(f) /\ UNCHANGED calm
  \/ CalmDown

LiveSpec ==
  /\ LiveInit /\ [][LiveNext]_liveVars
  /\ WF_liveVars(CalmDown)
  /\ \A d \in Device : WF_liveVars(Works(d)) /\ SF_liveVars(Claims(d))

\* Every write reaches every device and all of them settle on one body, with
\* compaction running ahead of a device that was away: it is rebuilt, and only
\* after its own queue was acknowledged.
EventuallyConverged == Order!EventuallyConverged

\* "The cycle keeps pushing everything else": a queued write of a note does
\* not wait for ever, whatever happens to the images around it.
WritesReachService ==
  \A d \in Device, n \in Note :
    (\E i \in DOMAIN outbox[d] : WritesTo(outbox[d][i].op, n))
      ~> (\A i \in DOMAIN outbox[d] : ~WritesTo(outbox[d][i].op, n))
=============================================================================
