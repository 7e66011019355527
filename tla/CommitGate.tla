---------------------------- MODULE CommitGate ----------------------------
(***************************************************************************)
(* The gate between durable commits and reconciles of the renderer store   *)
(* (commit-gate.ts).  Commits run side by side; a reconcile waits for the  *)
(* ones in flight and keeps new ones out until its read and its apply are  *)
(* done.  A step is what runs between two awaits.                          *)
(***************************************************************************)
EXTENDS Sequences

CONSTANTS Commit,   \* callers of enterCommit
          Holder,   \* callers of holdForReconcile
          NoHold

ASSUME NoHoldAssumption == NoHold \notin Holder

VARIABLES
    hold,       \* the reconcile that holds the gate
    reading,    \* it has seen the commits in flight settle and runs
    holdQueue,  \* reconciles that asked, in the order they asked
    inFlight,   \* commits between enterCommit's loop and its finally
    waiting,    \* commits that await the promise of the hold
    woken       \* commits a release woke up, before they look at the gate again

gateVars == <<hold, reading, holdQueue, inFlight, waiting, woken>>

GateInit ==
    /\ hold = NoHold
    /\ reading = FALSE
    /\ holdQueue = <<>>
    /\ inFlight = {}
    /\ waiting = {}
    /\ woken = {}

InGate(c) == c \in inFlight \cup waiting \cup woken
Asked(h) == hold = h \/ \E i \in DOMAIN holdQueue : holdQueue[i] = h

\* The loop of enterCommit, on the way in and after a wake-up
Admit(c) ==
    \/ /\ hold = NoHold
       /\ inFlight' = inFlight \cup {c}
       /\ UNCHANGED waiting
    \/ /\ hold # NoHold
       /\ waiting' = waiting \cup {c}
       /\ UNCHANGED inFlight

EnterCommit(c) ==
    /\ ~InGate(c)
    /\ Admit(c)
    /\ UNCHANGED <<hold, reading, holdQueue, woken>>

ResumeCommit(c) ==
    /\ c \in woken
    /\ woken' = woken \ {c}
    /\ Admit(c)
    /\ UNCHANGED <<hold, reading, holdQueue>>

LeaveCommit(c) ==
    /\ c \in inFlight
    /\ inFlight' = inFlight \ {c}
    /\ UNCHANGED <<hold, reading, holdQueue, waiting, woken>>

HoldForReconcile(h) ==
    /\ ~Asked(h)
    /\ holdQueue' = Append(holdQueue, h)
    /\ UNCHANGED <<hold, reading, inFlight, waiting, woken>>

\* Variant: the next reconcile does not wait for those a release woke up.
AcquireAtOnce ==
    /\ holdQueue # <<>>
    /\ hold = NoHold
    /\ hold' = Head(holdQueue)
    /\ holdQueue' = Tail(holdQueue)
    /\ reading' = (inFlight = {})
    /\ UNCHANGED <<inFlight, waiting, woken>>

\* The first in the queue takes the gate once it is free and the commits the
\* last release woke up have entered; with nothing in flight it runs at once.
Acquire ==
    /\ holdQueue # <<>>
    /\ hold = NoHold
    /\ woken = {}
    /\ hold' = Head(holdQueue)
    /\ holdQueue' = Tail(holdQueue)
    /\ reading' = (inFlight = {})
    /\ UNCHANGED <<inFlight, waiting, woken>>

Drained ==
    /\ hold # NoHold
    /\ ~reading
    /\ inFlight = {}
    /\ reading' = TRUE
    /\ UNCHANGED <<hold, holdQueue, inFlight, waiting, woken>>

\* Variant: the commits that wait are not woken up.
ReleaseSilently(h) ==
    /\ hold = h
    /\ reading
    /\ hold' = NoHold
    /\ reading' = FALSE
    /\ UNCHANGED <<holdQueue, inFlight, waiting, woken>>

Release(h) ==
    /\ hold = h
    /\ reading
    /\ hold' = NoHold
    /\ reading' = FALSE
    /\ woken' = woken \cup waiting
    /\ waiting' = {}
    /\ UNCHANGED <<holdQueue, inFlight>>

GateNext ==
    \/ \E c \in Commit : EnterCommit(c) \/ ResumeCommit(c) \/ LeaveCommit(c)
    \/ \E h \in Holder : HoldForReconcile(h) \/ Release(h)
    \/ Acquire
    \/ Drained

GateSpec == GateInit /\ [][GateNext]_gateVars
-----------------------------------------------------------------------------
GateTypeOK ==
    /\ hold \in Holder \cup {NoHold}
    /\ reading \in BOOLEAN
    /\ holdQueue \in Seq(Holder)
    /\ inFlight \subseteq Commit
    /\ waiting \subseteq Commit
    /\ woken \subseteq Commit

\* A reconcile reads and applies only while no commit is in flight
HoldKeepsOut == reading => hold # NoHold /\ inFlight = {}

\* Back-to-back reconciles cannot starve commits: nobody takes the gate while
\* a commit that the last release woke up has not entered
WokenEnterFirst == woken # {} => hold = NoHold

\* No commit awaits a hold that is gone
NoneForgotten == waiting # {} => hold # NoHold

\* A commit is in one place, and nobody is let in past a hold or overtaken.
GateSound ==
    /\ inFlight \cap waiting = {}
    /\ inFlight \cap woken = {}
    /\ HoldKeepsOut
    /\ WokenEnterFirst
    /\ NoneForgotten
=============================================================================
