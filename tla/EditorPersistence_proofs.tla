---------------------- MODULE EditorPersistence_proofs ----------------------
(***************************************************************************)
(* The gate keeps commits and reconciles apart and forgets nobody, whoever *)
(* calls it.  Saves, renames, refreshes and reconciles use it as           *)
(* CommitGate allows: every step of EditorPersistence is a step of the     *)
(* gate or leaves it alone, so what is proved of the gate holds here.      *)
(* Typed text is never lost and always on its way to storage, remote text  *)
(* is not overwritten, and what other devices wrote is heard of.           *)
(***************************************************************************)
EXTENDS EditorPersistence, TLAPS

\* The state of the gate is well typed, whoever calls it.
THEOREM GateTypeCorrect == GateSpec => []GateTypeOK
<1>1. GateInit => GateTypeOK
  <2>1. <<>> \in Seq(Holder)
    OBVIOUS
  <2> QED  BY <2>1 DEF GateInit, GateTypeOK
<1>2. GateTypeOK /\ [GateNext]_gateVars => GateTypeOK'
  <2> SUFFICES ASSUME GateTypeOK, [GateNext]_gateVars
               PROVE  GateTypeOK'
    OBVIOUS
  <2> USE DEF GateTypeOK
  <2>1. ASSUME NEW c \in Commit, EnterCommit(c)
        PROVE  GateTypeOK'
    BY <2>1 DEF EnterCommit, Admit
  <2>2. ASSUME NEW c \in Commit, ResumeCommit(c)
        PROVE  GateTypeOK'
    BY <2>2 DEF ResumeCommit, Admit
  <2>3. ASSUME NEW c \in Commit, LeaveCommit(c)
        PROVE  GateTypeOK'
    BY <2>3 DEF LeaveCommit
  <2>4. ASSUME NEW h \in Holder, HoldForReconcile(h)
        PROVE  GateTypeOK'
    BY <2>4 DEF HoldForReconcile
  <2>5. ASSUME NEW h \in Holder, Release(h)
        PROVE  GateTypeOK'
    BY <2>5 DEF Release
  <2>6. CASE Acquire
    <3>1. holdQueue \in Seq(Holder) /\ holdQueue # <<>>
      BY <2>6 DEF Acquire
    <3>2. Head(holdQueue) \in Holder /\ Tail(holdQueue) \in Seq(Holder)
      BY <3>1
    <3> QED  BY <2>6, <3>2 DEF Acquire
  <2>7. CASE Drained
    BY <2>7 DEF Drained
  <2>8. CASE UNCHANGED gateVars
    BY <2>8 DEF gateVars
  <2> QED  BY <2>1, <2>2, <2>3, <2>4, <2>5, <2>6, <2>7, <2>8 DEF GateNext
<1> QED  BY <1>1, <1>2, PTL DEF GateSpec

\* A reconcile reads and applies only while no commit is in flight, takes the
\* gate only when everybody the last release woke up has entered, and nobody
\* awaits a hold that is gone.
THEOREM GateSoundHolds == GateSpec => []GateSound
<1>1. GateInit => GateSound
  BY DEF GateInit, GateSound, HoldKeepsOut, WokenEnterFirst, NoneForgotten
<1>2. GateTypeOK /\ GateSound /\ [GateNext]_gateVars => GateSound'
  <2> SUFFICES ASSUME GateTypeOK, GateSound, [GateNext]_gateVars
               PROVE  GateSound'
    OBVIOUS
  <2> USE DEF GateSound, HoldKeepsOut, WokenEnterFirst, NoneForgotten
  <2>1. ASSUME NEW c \in Commit, EnterCommit(c)
        PROVE  GateSound'
    BY <2>1 DEF EnterCommit, Admit, InGate
  <2>2. ASSUME NEW c \in Commit, ResumeCommit(c)
        PROVE  GateSound'
    BY <2>2 DEF ResumeCommit, Admit
  <2>3. ASSUME NEW c \in Commit, LeaveCommit(c)
        PROVE  GateSound'
    BY <2>3 DEF LeaveCommit
  <2>4. ASSUME NEW h \in Holder, HoldForReconcile(h)
        PROVE  GateSound'
    BY <2>4 DEF HoldForReconcile
  <2>5. ASSUME NEW h \in Holder, Release(h)
        PROVE  GateSound'
    BY <2>5 DEF Release
  <2>6. CASE Acquire
    <3>1. Head(holdQueue) \in Holder
      BY <2>6 DEF Acquire, GateTypeOK
    <3>2. hold' # NoHold
      BY <2>6, <3>1, NoHoldAssumption DEF Acquire
    <3> QED  BY <2>6, <3>2 DEF Acquire
  <2>7. CASE Drained
    BY <2>7 DEF Drained
  <2>8. CASE UNCHANGED gateVars
    BY <2>8 DEF gateVars
  <2> QED  BY <2>1, <2>2, <2>3, <2>4, <2>5, <2>6, <2>7, <2>8 DEF GateNext
<1> QED  BY <1>1, <1>2, GateTypeCorrect, PTL DEF GateSpec

-----------------------------------------------------------------------------
(* The callers of the gate *)

LEMMA SaveUsesGate ==
  ASSUME Persist \/ WriteSave \/ AckSave \/ RejectSave \/ AskForSave
  PROVE  [GateNext]_gateVars
<1>1. CASE Persist
  BY <1>1, CallersAssumption DEF Persist, GateNext, gateVars
<1>2. CASE WriteSave
  BY <1>2 DEF WriteSave
<1>3. CASE AckSave
  BY <1>3, CallersAssumption DEF AckSave, GateNext
<1>4. CASE RejectSave
  BY <1>4, CallersAssumption DEF RejectSave, GateNext
<1>5. CASE AskForSave
  BY <1>5, CallersAssumption DEF AskForSave, GateNext
<1> QED  BY <1>1, <1>2, <1>3, <1>4, <1>5

LEMMA RenameUsesGate ==
  ASSUME (\E n \in Name : Rename(n)) \/ WriteRename \/ AckRename \/ RejectRename
  PROVE  [GateNext]_gateVars
<1>1. CASE \E n \in Name : Rename(n)
  BY <1>1, CallersAssumption DEF Rename, GateNext
<1>2. CASE WriteRename
  BY <1>2 DEF WriteRename
<1>3. CASE AckRename
  BY <1>3, CallersAssumption DEF AckRename, GateNext
<1>4. CASE RejectRename
  BY <1>4, CallersAssumption DEF RejectRename, GateNext
<1> QED  BY <1>1, <1>2, <1>3, <1>4

LEMMA HolderUsesGate ==
  ASSUME GateTurn \/ ReadStorage \/ FinishRefresh \/ FailRefresh
  PROVE  [GateNext]_gateVars
<1>1. CASE GateTurn
  BY <1>1, CallersAssumption DEF GateTurn, GateNext
<1>2. CASE ReadStorage
  BY <1>2 DEF ReadStorage
<1>3. CASE FinishRefresh
  BY <1>3, CallersAssumption DEF FinishRefresh, GateNext
<1>4. CASE FailRefresh
  BY <1>4, CallersAssumption DEF FailRefresh, GateNext
<1> QED  BY <1>1, <1>2, <1>3, <1>4

LEMMA ReconcilerUsesGate ==
  ASSUME Report \/ Reconcile \/ ApplyReconcile \/ FailReconcile \/ DelayOver
           \/ RetryReconcile
  PROVE  [GateNext]_gateVars
<1>1. CASE Report
  BY <1>1 DEF Report
<1>2. CASE Reconcile
  BY <1>2, CallersAssumption DEF Reconcile, GateNext
<1>3. CASE ApplyReconcile
  BY <1>3, CallersAssumption DEF ApplyReconcile, GateNext
<1>4. CASE FailReconcile
  BY <1>4, CallersAssumption DEF FailReconcile, GateNext
<1>5. CASE DelayOver
  BY <1>5 DEF DelayOver
<1>6. CASE RetryReconcile
  BY <1>6 DEF RetryReconcile
<1> QED  BY <1>1, <1>2, <1>3, <1>4, <1>5, <1>6

LEMMA EditorLeavesGate ==
  ASSUME (\E e \in Typed : Type(e)) \/ SaveNow \/ RetrySave \/ SwitchAway
           \/ SwitchBack \/ Evict
  PROVE  UNCHANGED gateVars
<1> USE DEF EditorStep
<1>1. CASE \E e \in Typed : Type(e)
  BY <1>1 DEF Type
<1>2. CASE SaveNow
  BY <1>2 DEF SaveNow
<1>3. CASE RetrySave
  BY <1>3 DEF RetrySave
<1>4. CASE SwitchAway
  BY <1>4 DEF SwitchAway
<1>5. CASE SwitchBack
  BY <1>5 DEF SwitchBack
<1>6. CASE Evict
  BY <1>6 DEF Evict
<1> QED  BY <1>1, <1>2, <1>3, <1>4, <1>5, <1>6

LEMMA StepUsesGate == [Next]_vars => [GateNext]_gateVars
<1> SUFFICES ASSUME [Next]_vars
             PROVE  [GateNext]_gateVars
  OBVIOUS
<1>1. CASE System
  BY <1>1, SaveUsesGate, RenameUsesGate, HolderUsesGate, ReconcilerUsesGate DEF System
<1>2. CASE SaveNow
  BY <1>2, EditorLeavesGate
<1>3. CASE User
  BY <1>3, EditorLeavesGate, RenameUsesGate, ReconcilerUsesGate DEF User
<1>4. CASE Worker
  BY <1>4 DEF Worker, WorkerStep, RemoteWrite, RemoteRename
<1>5. CASE UNCHANGED vars
  BY <1>5 DEF vars
<1> QED  BY <1>1, <1>2, <1>3, <1>4, <1>5 DEF Next

\* The editor, the committer and the reconciler, whatever they do to the store,
\* use the gate as it is meant to be used.
THEOREM ImplementsGate == Spec => GateSpec
<1>1. Init => GateInit
  BY DEF Init
<1> QED  BY <1>1, StepUsesGate, PTL DEF Spec, GateSpec

\* So no reconcile of theirs reads or applies while a commit is in flight, and no
\* save or rename waits for a hold that is gone.
THEOREM GateSoundInEditor == Spec => []GateSound
BY ImplementsGate, GateSoundHolds, PTL

-----------------------------------------------------------------------------
(* What the editor, the store and storage hold                               *)

Labels == Name \cup {FirstName}
DiskType == [text : SUBSET Edit, revision : Nat, name : Labels]
StoreType == [text : SUBSET Edit, revision : Nat, name : Labels, staged : BOOLEAN]
ReadType == [kind : Change, text : SUBSET Edit, revision : Nat, name : Labels]
EntryType == [cached : BOOLEAN, text : SUBSET Edit, base : SUBSET Edit,
              seen : BOOLEAN, dirty : BOOLEAN]
SaveType == [pc : {"commit", "written", "conflict", "failed", "again"},
             text : SUBSET Edit, expected : Nat, attempt : Nat]
ReconcilerType == [pc : {"idle", "held", "delay"}, pending : Change, change : Change,
                   failures : Nat, exhausted : BOOLEAN]
RenameType == [pc : {"commit", "written", "failed"}, name : Labels]

\* Every record has its type; without an input method at work nothing composes.
Recorded ==
  /\ disk \in DiskType
  /\ store \in StoreType
  /\ read = NothingRead \/ read \in ReadType
  /\ entry \in EntryType
  /\ save = Idle \/ save \in SaveType
  /\ rename = Idle \/ rename \in RenameType
  /\ reconciler \in ReconcilerType /\ announced \in Change
  /\ landed \subseteq Edit
  /\ composing = FALSE

\* Who writes storage, the store, what was read, the entry and the save.
LEMMA DiskSteps ==
  [Next]_vars => \/ UNCHANGED <<disk, landed>>
                 \/ WriteSave \/ WriteRename \/ Worker
BY DEF Next, System, User, vars, Persist, AckSave, RejectSave, AskForSave, AckRename,
       RejectRename, GateTurn, ReadStorage, FinishRefresh, FailRefresh, Report, Reconcile,
       ApplyReconcile, FailReconcile, DelayOver, Type, RetrySave, RetryReconcile, SwitchAway,
       SwitchBack, Evict, Rename, SaveNow, EditorStep, ReconcilerStep, boundVars

LEMMA ReadSteps ==
  [Next]_vars => UNCHANGED read \/ ReadStorage \/ read' = NothingRead
BY DEF Next, System, User, Worker, vars, Persist, WriteSave, AckSave, RejectSave, AskForSave,
       AckRename, WriteRename, RejectRename, GateTurn, FinishRefresh, FailRefresh, Report,
       Reconcile, ApplyReconcile, FailReconcile, DelayOver, Type, RetrySave, RetryReconcile,
       SwitchAway, SwitchBack, Evict, Rename, SaveNow, EditorStep, ReconcilerStep, WorkerStep,
       RemoteWrite, RemoteRename

LEMMA StoreSteps ==
  [Next]_vars => \/ UNCHANGED <<store, entry>>
                 \/ \E e \in Typed : Type(e)
                 \/ SwitchBack \/ Evict \/ Persist \/ AckSave
                 \/ \E n \in Name : Rename(n)
                 \/ FinishRefresh \/ ApplyReconcile
BY DEF Next, System, User, Worker, vars, WriteSave, RejectSave, AskForSave, AckRename,
       WriteRename, RejectRename, GateTurn, ReadStorage, FailRefresh, Report, Reconcile,
       FailReconcile, DelayOver, RetrySave, RetryReconcile, SwitchAway, SaveNow, EditorStep,
       ReconcilerStep, WorkerStep, RemoteWrite, RemoteRename, editorVars

LEMMA SaveSteps ==
  [Next]_vars => \/ UNCHANGED save
                 \/ Persist \/ WriteSave \/ AckSave \/ FinishRefresh \/ FailRefresh
BY DEF Next, System, User, Worker, vars, RejectSave, AskForSave, AckRename, WriteRename,
       RejectRename, GateTurn, ReadStorage, Report, Reconcile, ApplyReconcile, FailReconcile,
       DelayOver, RetrySave, RetryReconcile, SwitchAway, SwitchBack, Evict, Type, Rename, SaveNow,
       EditorStep, ReconcilerStep, WorkerStep, RemoteWrite, RemoteRename, saveVars

LEMMA RenameSteps ==
  [Next]_vars => \/ UNCHANGED rename
                 \/ \E n \in Name : Rename(n)
                 \/ WriteRename \/ AckRename \/ FinishRefresh \/ FailRefresh
BY DEF Next, System, User, Worker, vars, Persist, WriteSave, AckSave, RejectSave, AskForSave,
       RejectRename, GateTurn, ReadStorage, Report, Reconcile, ApplyReconcile, FailReconcile,
       DelayOver, RetrySave, RetryReconcile, SwitchAway, SwitchBack, Evict, Type, SaveNow,
       EditorStep, ReconcilerStep, WorkerStep, RemoteWrite, RemoteRename

LEMMA SyncSteps ==
  [Next]_vars => \/ UNCHANGED syncVars
                 \/ Report \/ Reconcile \/ ApplyReconcile \/ FailReconcile \/ DelayOver
                 \/ RetryReconcile \/ Worker
BY DEF Next, System, User, vars, Persist, WriteSave, AckSave, RejectSave, AskForSave,
       WriteRename, AckRename, RejectRename, GateTurn, ReadStorage, FinishRefresh, FailRefresh,
       RetrySave, SwitchAway, SwitchBack, Evict, Type, Rename, SaveNow, EditorStep

LEMMA ComposingSteps == [Next]_vars => UNCHANGED composing
BY DEF Next, System, User, Worker, vars, Persist, WriteSave, AckSave, RejectSave, AskForSave,
       WriteRename, AckRename, RejectRename, GateTurn, ReadStorage, FinishRefresh, FailRefresh,
       Report, Reconcile, ApplyReconcile, FailReconcile, DelayOver, RetrySave, RetryReconcile,
       SwitchAway, SwitchBack, Evict, Type, Rename, SaveNow, EditorStep, ReconcilerStep,
       WorkerStep, RemoteWrite, RemoteRename, editorVars

\* A text, and the revision it comes with, is kept or replaced by what was read.
Took ==
  /\ store'.text = read.text /\ store'.revision = read.revision
  /\ store.revision =< read.revision
  /\ \/ ~entry.cached /\ entry' = entry
     \/ /\ entry.cached /\ entry.dirty /\ entry'.cached /\ entry'.dirty /\ entry'.seen
        /\ entry'.text = Merged(entry.base, entry.text, read.text)
        /\ entry'.base = read.text
     \/ entry.cached /\ ~entry.dirty /\ entry' \in {Uncached, Showing(read.text)}

\* With nothing composing the store and the editor keep what they have, or both
\* take over what was read: the editor merges unsaved text into it.
LEMMA StoreTaken ==
  ASSUME Recorded, read # NothingRead, StoreTakes(read)
  PROVE  /\ store' \in StoreType /\ entry' \in EntryType
         /\ \/ entry' = entry /\ store'.text = store.text /\ store'.revision = store.revision
            \/ Took
<1>1. read \in ReadType /\ composing = FALSE /\ store \in StoreType /\ entry \in EntryType
  BY DEF Recorded
<1>2. store' \in StoreType
  BY <1>1 DEF StoreTakes, StoreType, ReadType
<1>3. CASE Retained(read)
  BY <1>1, <1>2, <1>3 DEF StoreTakes, StoreType, ReadType
<1>4. CASE ~Retained(read)
  <2>1. /\ store'.text = read.text /\ store'.revision = read.revision
        /\ store.revision =< read.revision /\ AdoptRecord(read.text)
    BY <1>1, <1>4 DEF StoreTakes, Retained, StoreType, ReadType
  <2>2. CASE ~entry.cached
    BY <1>1, <1>2, <2>1, <2>2 DEF AdoptRecord, Took
  <2>3. CASE entry.cached
    <3>1. TakeOver(read.text)
      BY <1>1, <2>1, <2>3 DEF AdoptRecord
    <3>2. CASE entry.dirty
      <4>1. Merged(entry.base, entry.text, read.text) \in SUBSET Edit
        BY <1>1 DEF Merged, EntryType, ReadType
      <4>2. /\ entry' \in EntryType
            /\ entry'.cached /\ entry'.dirty /\ entry'.seen
            /\ entry'.text = Merged(entry.base, entry.text, read.text)
            /\ entry'.base = read.text
        <5> HIDE DEF Merged
        <5> QED  BY <1>1, <2>3, <3>1, <3>2, <4>1 DEF TakeOver, EntryType, ReadType
      <4> QED  BY <1>2, <2>1, <2>3, <3>2, <4>2 DEF Took
    <3>3. CASE ~entry.dirty
      <4>1. entry' \in {Uncached, Showing(read.text)}
        BY <3>1, <3>3 DEF TakeOver
      <4>2. entry' \in EntryType
        <5>1. Uncached \in EntryType
          BY DEF Uncached, EntryType
        <5>2. Showing(read.text) \in EntryType
          BY <1>1 DEF Showing, EntryType, ReadType
        <5> QED  BY <4>1, <5>1, <5>2
      <4> QED  BY <1>2, <2>1, <2>3, <3>3, <4>1, <4>2 DEF Took
    <3> QED  BY <3>2, <3>3
  <2> QED  BY <2>2, <2>3
<1> QED  BY <1>3, <1>4

\* A step that touches the store takes what was read, or is one of these.
LEMMA TakesSteps ==
  ASSUME FinishRefresh \/ ApplyReconcile
  PROVE  \/ UNCHANGED <<store, entry>>
         \/ read # NothingRead /\ reading /\ StoreTakes(read)
BY DEF FinishRefresh, ApplyReconcile, Release

\* Two changes merge into a change.
LEMMA ChangesMerge ==
  ASSUME NEW a \in Change, NEW b \in Change
  PROVE  MergeChanges(a, b) \in Change
BY DEF MergeChanges, Change

\* The records keep their types.
LEMMA RecordedHolds == Spec => []Recorded
<1>1. Init => Recorded
  BY DEF Init, Recorded, DiskType, StoreType, EntryType, ReconcilerType, Labels, Change
<1>2. Recorded /\ [Next]_vars => Recorded'
  <2> SUFFICES ASSUME Recorded, [Next]_vars
               PROVE  Recorded'
    OBVIOUS
  <2>0. /\ disk \in DiskType /\ store \in StoreType /\ entry \in EntryType /\ landed \subseteq Edit
        /\ read = NothingRead \/ read \in ReadType
        /\ save = Idle \/ save \in SaveType
        /\ rename = Idle \/ rename \in RenameType
        /\ reconciler \in ReconcilerType /\ announced \in Change
    BY DEF Recorded
  <2>1. disk' \in DiskType /\ landed' \subseteq Edit
    <3>1. CASE WriteSave
      <4>1. save \in SaveType
        BY <2>0, <3>1 DEF WriteSave, Idle
      <4>2. /\ disk.revision + 1 \in Nat /\ disk.text \in SUBSET Edit /\ disk.name \in Labels
            /\ save.text \in SUBSET Edit
        BY <2>0, <4>1 DEF DiskType, SaveType
      <4>3. \/ disk' = [disk EXCEPT !.text = save.text, !.revision = @ + 1]
            \/ disk' = disk
        BY <3>1 DEF WriteSave
      <4>4. disk' \in DiskType
        BY <2>0, <4>2, <4>3 DEF DiskType
      <4>5. landed' \in {landed, landed \cup save.text}
        BY <3>1 DEF WriteSave
      <4> QED  BY <2>0, <4>2, <4>4, <4>5
    <3>2. CASE WriteRename
      <4>1. rename \in RenameType
        BY <2>0, <3>2 DEF WriteRename, Idle
      <4> QED  BY <2>0, <3>2, <4>1 DEF WriteRename, DiskType, RenameType
    <3>3. ASSUME NEW e \in Remote, RemoteWrite(e)
          PROVE  disk' \in DiskType /\ landed' \subseteq Edit
      <4>1. PICK gone \in SUBSET (disk.text \cap Typed) :
              disk' = [disk EXCEPT !.text = (@ \ gone) \cup {e}, !.revision = @ + 1]
        BY <3>3 DEF RemoteWrite
      <4>2. (disk.text \ gone) \cup {e} \in SUBSET Edit /\ disk.revision + 1 \in Nat
        BY <2>0 DEF DiskType, Edit
      <4>3. disk' \in DiskType
        BY <2>0, <4>1, <4>2 DEF DiskType
      <4>4. landed' = landed \cup {e}
        BY <3>3 DEF RemoteWrite
      <4> QED  BY <2>0, <4>3, <4>4 DEF Edit
    <3>4. ASSUME NEW n \in Name, RemoteRename(n)
          PROVE  disk' \in DiskType /\ landed' \subseteq Edit
      BY <2>0, <3>4 DEF RemoteRename, DiskType, Labels
    <3> QED  BY <2>0, <3>1, <3>2, <3>3, <3>4, DiskSteps DEF Worker
  <2>2. read' = NothingRead \/ read' \in ReadType
    <3>1. CASE ReadStorage
      <4>1. ReadKinds \subseteq Change
        BY <2>0 DEF ReadKinds, ReconcilerType, Change
      <4> QED  BY <2>0, <3>1, <4>1 DEF ReadStorage, ReadType, DiskType
    <3> QED  BY <2>0, <3>1, ReadSteps
  <2>3. store' \in StoreType /\ entry' \in EntryType
    <3>1. ASSUME NEW e \in Typed, Type(e)
          PROVE  store' \in StoreType /\ entry' \in EntryType
      BY <2>0, <3>1 DEF Type, EditorStep, EntryType, Edit
    <3>2. CASE SwitchBack
      BY <2>0, <3>2 DEF SwitchBack, EditorStep, Showing, EntryType, StoreType
    <3>3. CASE Evict
      BY <2>0, <3>3 DEF Evict, EditorStep, Uncached, EntryType
    <3>4. CASE Persist
      BY <2>0, <3>4 DEF Persist, editorVars, EntryType, StoreType
    <3>5. CASE AckSave
      <4>1. save \in SaveType
        BY <2>0, <3>5 DEF AckSave, Idle
      <4>2. store' \in StoreType
        BY <2>0, <3>5, <4>1 DEF AckSave, StoreType, SaveType
      <4>3. (entry.dirty /\ ~SavedAsShown) \in BOOLEAN /\ save.text \in SUBSET Edit
        BY <4>1 DEF SaveType
      <4>4. \/ entry' = [entry EXCEPT !.base = save.text, !.dirty = entry.dirty /\ ~SavedAsShown]
            \/ entry' = entry
        BY <3>5 DEF AckSave
      <4>5. entry' \in EntryType
        <5> HIDE DEF SavedAsShown
        <5> QED  BY <2>0, <4>3, <4>4 DEF EntryType
      <4> QED  BY <4>2, <4>5
    <3>6. ASSUME NEW n \in Name, Rename(n)
          PROVE  store' \in StoreType /\ entry' \in EntryType
      BY <2>0, <3>6 DEF Rename, editorVars, StoreType, Labels
    <3>7. CASE FinishRefresh \/ ApplyReconcile
      BY <2>0, <3>7, TakesSteps, StoreTaken
    <3> QED  BY <2>0, <3>1, <3>2, <3>3, <3>4, <3>5, <3>6, <3>7, StoreSteps
  <2>4. save' = Idle \/ save' \in SaveType
    <3>1. CASE Persist
      <4>1. CASE UNCHANGED save
        BY <2>0, <4>1
      <4>2. ASSUME save' = [pc |-> "commit", text |-> entry.text, expected |-> store.revision,
                            attempt |-> IF save.pc = "again" THEN save.attempt + 1 ELSE 0],
                   save.pc \in {"idle", "again"}
            PROVE  save' \in SaveType
        <5>1. save.pc = "again" => save.attempt \in Nat
          BY <2>0 DEF Idle, SaveType
        <5> QED  BY <2>0, <4>2, <5>1 DEF SaveType, EntryType, StoreType
      <4> QED  BY <3>1, <4>1, <4>2 DEF Persist
    <3>2. CASE WriteSave
      <4>1. save \in SaveType
        BY <2>0, <3>2 DEF WriteSave, Idle
      <4> QED  BY <3>2, <4>1 DEF WriteSave, SaveType
    <3>3. CASE AckSave
      BY <3>3 DEF AckSave
    <3>4. CASE SaveRejected
      <4>1. save.pc = "conflict" => save \in SaveType
        BY <2>0 DEF Idle
      <4> QED  BY <3>4, <4>1 DEF SaveRejected, SaveType
    <3> QED  BY <2>0, <3>1, <3>2, <3>3, <3>4, SaveSteps DEF FinishRefresh, FailRefresh
  <2>5. rename' = Idle \/ rename' \in RenameType
    <3>1. ASSUME NEW n \in Name, Rename(n)
          PROVE  rename' \in RenameType
      BY <3>1 DEF Rename, RenameType, Labels
    <3>2. CASE WriteRename
      <4>1. rename \in RenameType
        BY <2>0, <3>2 DEF WriteRename, Idle
      <4> QED  BY <3>2, <4>1 DEF WriteRename, RenameType
    <3> QED  BY <2>0, <3>1, <3>2, RenameSteps DEF AckRename, FinishRefresh, FailRefresh
  <2>6. reconciler' \in ReconcilerType /\ announced' \in Change
    <3>1. /\ MergeChanges(reconciler.pending, announced) \in Change /\ PendingAgain \in Change
          /\ MergeChanges(announced, "document") \in Change /\ "none" \in Change
          /\ "structure" \in Change
      BY <2>0, ChangesMerge DEF PendingAgain, ReconcilerType, Change
    <3> HIDE DEF MergeChanges, PendingAgain, Change
    <3>2. CASE Report
      BY <2>0, <3>1, <3>2 DEF Report, ReconcilerType
    <3>3. CASE Reconcile
      BY <2>0, <3>1, <3>3 DEF Reconcile, ReconcilerType
    <3>4. CASE ApplyReconcile
      <4>1. PICK pending \in {PendingAgain, reconciler.pending} :
              reconciler' = [pc |-> "idle", change |-> "none", failures |-> 0,
                             exhausted |-> reconciler.exhausted, pending |-> pending]
        BY <3>4 DEF ApplyReconcile
      <4> QED  BY <2>0, <3>1, <3>4, <4>1 DEF ApplyReconcile, ReconcilerType
    <3>5. CASE FailReconcile
      <4>1. /\ reconciler.failures + 1 \in Nat /\ (Spent \/ reconciler.exhausted) \in BOOLEAN
            /\ announced' = announced
        BY <2>0, <3>5 DEF FailReconcile, ReconcilerType
      <4>2. PICK pc \in {"idle", "delay"}, failures \in {0, reconciler.failures + 1},
                 exhausted \in BOOLEAN :
              reconciler' = [pc |-> pc, change |-> "none", pending |-> PendingAgain,
                             failures |-> failures, exhausted |-> exhausted]
        BY <3>5, <4>1 DEF FailReconcile
      <4> QED  BY <2>0, <3>1, <4>1, <4>2 DEF ReconcilerType
    <3>6. CASE DelayOver
      BY <2>0, <3>6 DEF DelayOver, ReconcilerType
    <3>7. CASE RetryReconcile
      BY <2>0, <3>7 DEF RetryReconcile, ReconcilerType
    <3>8. CASE Worker
      BY <2>0, <3>1, <3>8 DEF Worker, WorkerStep, RemoteWrite, RemoteRename
    <3> QED  BY <2>0, <3>2, <3>3, <3>4, <3>5, <3>6, <3>7, <3>8, SyncSteps DEF syncVars
  <2>7. composing' = FALSE
    BY ComposingSteps DEF Recorded
  <2> QED  BY <2>1, <2>2, <2>3, <2>4, <2>5, <2>6, <2>7 DEF Recorded
<1> QED  BY <1>1, <1>2, PTL DEF Spec

-----------------------------------------------------------------------------
(* What is typed is not lost                                                 *)

\* What is read was in storage; so was what the editor takes for common ground,
\* and what an answered save holds.
Landed ==
  /\ disk.text \subseteq landed
  /\ read # NothingRead => read.text \subseteq landed
  /\ entry.base \cap Typed \subseteq landed
  /\ save.pc = "written" => save.text \subseteq landed

\* Every text holds edits that were made.
Written ==
  /\ landed \cap Typed \subseteq made
  /\ store.text \cap Typed \subseteq made
  /\ entry.text \cap Typed \subseteq made
  /\ save # Idle => save.text \cap Typed \subseteq made

LEMMA MadeSteps ==
  [Next]_vars => made \subseteq made'
BY DEF Next, System, User, Worker, vars, Persist, WriteSave, AckSave, RejectSave, AskForSave,
       WriteRename, AckRename, RejectRename, GateTurn, ReadStorage, FinishRefresh, FailRefresh,
       Report, Reconcile, ApplyReconcile, FailReconcile, DelayOver, RetrySave, RetryReconcile,
       SwitchAway, SwitchBack, Evict, Type, Rename, SaveNow, EditorStep, ReconcilerStep,
       WorkerStep, RemoteWrite, RemoteRename, boundVars

LEMMA LandedSteps ==
  [Next]_vars => landed \subseteq landed'
BY DiskSteps DEF WriteSave, WriteRename, Worker, RemoteWrite, RemoteRename, boundVars

\* The edits that were made grow by what is typed, by one edit of another
\* device, or by names.
LEMMA TypedSteps ==
  [Next]_vars => made' \cap Typed = made \cap Typed \/ \E e \in Typed : Type(e)
<1>1. \A e \in Remote \cup Name : e \notin Typed
  BY EditsAssumption
<1> QED
  BY <1>1
  DEF Next, System, User, Worker, vars, Persist, WriteSave, AckSave, RejectSave, AskForSave,
      WriteRename, AckRename, RejectRename, GateTurn, ReadStorage, FinishRefresh, FailRefresh,
      Report, Reconcile, ApplyReconcile, FailReconcile, DelayOver, RetrySave, RetryReconcile,
      SwitchAway, SwitchBack, Evict, Rename, SaveNow, EditorStep, ReconcilerStep,
      WorkerStep, RemoteWrite, RemoteRename, boundVars

\* What the editor types, adopts, saves and drops keeps every edit that has not
\* reached storage in a dirty entry (adoptRecord, persistOnce,
\* pruneEditorWorkingSet).
LEMMA KeepsHold == Spec => [](Landed /\ Written /\ NothingTypedIsLost)
<1>1. Init => Landed /\ Written /\ NothingTypedIsLost
  BY DEF Init, Landed, Written, NothingTypedIsLost, Unsaved, Idle
<1>2. Recorded /\ Landed /\ Written /\ NothingTypedIsLost /\ [Next]_vars =>
        (Landed /\ Written /\ NothingTypedIsLost)'
  <2> SUFFICES ASSUME Recorded, Landed, Written, NothingTypedIsLost, [Next]_vars
               PROVE  (Landed /\ Written /\ NothingTypedIsLost)'
    OBVIOUS
  <2>0. /\ disk \in DiskType /\ store \in StoreType /\ entry \in EntryType
        /\ save = Idle \/ save \in SaveType
        /\ read = NothingRead \/ read \in ReadType
    BY DEF Recorded
  <2>1. /\ \A e \in Remote : e \notin Typed
        /\ made \subseteq made' /\ landed \subseteq landed'
    BY EditsAssumption, MadeSteps, LandedSteps
  <2>2. disk'.text \subseteq landed'
    <3>1. CASE WriteSave
      <4>1. save \in SaveType
        BY <2>0, <3>1 DEF WriteSave, Idle
      <4> QED  BY <2>0, <3>1, <4>1 DEF WriteSave, DiskType, SaveType, Landed
    <3>2. CASE WriteRename
      BY <2>0, <2>1, <3>2 DEF WriteRename, DiskType, Landed
    <3>3. ASSUME NEW e \in Remote, RemoteWrite(e)
          PROVE  disk'.text \subseteq landed'
      BY <2>0, <3>3 DEF RemoteWrite, DiskType, Landed
    <3>4. ASSUME NEW n \in Name, RemoteRename(n)
          PROVE  disk'.text \subseteq landed'
      BY <2>0, <2>1, <3>4 DEF RemoteRename, DiskType, Landed
    <3> QED  BY <3>1, <3>2, <3>3, <3>4, DiskSteps DEF Worker, Landed
  <2>3. read' # NothingRead => read'.text \subseteq landed'
    <3>1. CASE ReadStorage
      BY <2>1, <3>1 DEF ReadStorage, Landed
    <3> QED  BY <2>1, <3>1, ReadSteps DEF Landed
  <2>4. save'.pc = "written" => save'.text \subseteq landed'
    <3>1. CASE WriteSave
      <4>1. save \in SaveType
        BY <2>0, <3>1 DEF WriteSave, Idle
      <4> QED  BY <2>1, <3>1, <4>1 DEF WriteSave, SaveType, Landed
    <3>2. CASE Persist
      BY <2>1, <3>2 DEF Persist, Landed
    <3>3. CASE SaveRejected
      BY <2>0, <3>3 DEF SaveRejected, SaveType, Idle
    <3>4. CASE AckSave
      BY <3>4 DEF AckSave, Idle
    <3> QED  BY <2>1, <3>1, <3>2, <3>3, <3>4, SaveSteps DEF FinishRefresh, FailRefresh, Landed
  <2>5. save' # Idle => save'.text \cap Typed \subseteq made'
    <3>1. CASE WriteSave
      <4>1. save \in SaveType
        BY <2>0, <3>1 DEF WriteSave, Idle
      <4>2. save'.text = save.text /\ save # Idle
        BY <3>1, <4>1 DEF WriteSave, SaveType, Idle
      <4> QED  BY <2>1, <4>2 DEF Written
    <3>2. CASE Persist
      BY <2>1, <3>2 DEF Persist, Written
    <3>3. CASE SaveRejected
      BY <2>0, <2>1, <3>3 DEF SaveRejected, SaveType, Idle, Written
    <3>4. CASE AckSave
      BY <3>4 DEF AckSave
    <3> QED  BY <2>1, <3>1, <3>2, <3>3, <3>4, SaveSteps DEF FinishRefresh, FailRefresh, Written
  <2>6. landed' \cap Typed \subseteq made'
    <3>1. CASE WriteSave
      BY <2>0, <2>1, <3>1 DEF WriteSave, Written, Idle
    <3> QED  BY <2>1, <3>1, DiskSteps DEF WriteRename, Worker, RemoteWrite, RemoteRename, boundVars, Written
  <2> DEFINE Staged ==
        /\ store'.text \cap Typed \subseteq made' /\ entry'.text \cap Typed \subseteq made'
        /\ entry'.base \cap Typed \subseteq landed'
        /\ NothingTypedIsLost'
  <2>7. ASSUME made' \cap Typed = made \cap Typed
        PROVE  Unsaved' \subseteq Unsaved
    BY <2>1, <2>7 DEF Unsaved
  <2>8. ASSUME NEW e \in Typed, Type(e)
        PROVE  Staged
    <3>1. /\ entry' = [entry EXCEPT !.text = @ \cup {e}, !.dirty = TRUE] /\ entry.cached
          /\ made' = made \cup {e} /\ store' = store /\ landed' = landed
      BY <2>8 DEF Type, EditorStep
    <3>2. /\ entry'.text = entry.text \cup {e} /\ entry'.dirty /\ entry'.cached
          /\ entry'.base = entry.base
      BY <2>0, <3>1 DEF EntryType
    <3>3. Unsaved' \subseteq Unsaved \cup {e}
      BY <3>1 DEF Unsaved
    <3> QED  BY <3>1, <3>2, <3>3 DEF Written, Landed, NothingTypedIsLost
  <2>9. ASSUME made' \cap Typed = made \cap Typed
        PROVE  Staged
    <3>1. Unsaved' \subseteq Unsaved
      BY <2>7, <2>9
    <3>2. CASE UNCHANGED <<store, entry>>
      BY <2>1, <3>1, <3>2 DEF Written, Landed, NothingTypedIsLost
    <3>3. CASE SwitchBack
      <4>1. CASE entry.cached
        BY <2>1, <3>1, <3>3, <4>1 DEF SwitchBack, EditorStep, Written, Landed, NothingTypedIsLost
      <4>2. CASE ~entry.cached
        <5>1. Unsaved = {} /\ Unsaved' = {}
          BY <3>1, <4>2 DEF NothingTypedIsLost
        <5>2. entry' = Showing(store.text) /\ store' = store
          BY <3>3, <4>2 DEF SwitchBack, EditorStep
        <5>3. entry'.text = store.text /\ entry'.base = store.text
          BY <5>2 DEF Showing
        <5>4. store.text \cap Typed \subseteq landed
          BY <5>1 DEF Written, Unsaved
        <5> QED  BY <2>1, <5>1, <5>2, <5>3, <5>4 DEF Written, NothingTypedIsLost
      <4> QED  BY <4>1, <4>2
    <3>4. CASE Evict
      <4>1. Unsaved = {} /\ Unsaved' = {}
        BY <3>1, <3>4 DEF Evict, NothingTypedIsLost
      <4>2. entry' = Uncached /\ store' = store
        BY <3>4 DEF Evict, EditorStep
      <4> QED  BY <2>1, <4>1, <4>2 DEF Uncached, Written, NothingTypedIsLost
    <3>5. CASE Persist
      <4>1. CASE UNCHANGED <<store, entry>>
        BY <3>2, <4>1
      <4>2. CASE /\ store' = [store EXCEPT !.text = entry.text, !.staged = TRUE]
                 /\ entry' = [entry EXCEPT !.seen = TRUE]
        <5>1. /\ store'.text = entry.text /\ entry'.text = entry.text /\ entry'.base = entry.base
              /\ entry'.cached = entry.cached /\ entry'.dirty = entry.dirty
          BY <2>0, <4>2 DEF StoreType, EntryType
        <5> QED  BY <2>1, <3>1, <5>1 DEF Written, Landed, NothingTypedIsLost
      <4> QED  BY <3>5, <4>1, <4>2 DEF Persist, editorVars
    <3>6. CASE AckSave
      <4>1. save \in SaveType /\ save.pc = "written" /\ save.text \subseteq landed
        BY <2>0, <3>6 DEF AckSave, Idle, Landed
      <4>2. store'.text = store.text
        BY <2>0, <3>6 DEF AckSave, StoreType
      <4>3. CASE ~entry.cached
        BY <2>1, <3>1, <3>6, <4>2, <4>3 DEF AckSave, Written, Landed, NothingTypedIsLost
      <4>4. CASE entry.cached
        <5> DEFINE still == entry.dirty /\ ~SavedAsShown
        <5>1. entry' = [entry EXCEPT !.base = save.text, !.dirty = still]
          BY <3>6, <4>4 DEF AckSave
        <5>2. still \in BOOLEAN
          OBVIOUS
        <5>3. ~still /\ Unsaved # {} => Unsaved \subseteq save.text
          BY DEF SavedAsShown, NothingTypedIsLost
        <5>4. Unsaved \cap landed = {}
          BY DEF Unsaved
        <5> HIDE DEF still
        <5>5. /\ entry'.text = entry.text /\ entry'.base = save.text /\ entry'.cached
              /\ entry'.dirty = still
          BY <2>0, <4>4, <5>1, <5>2 DEF EntryType
        <5>6. Unsaved # {} => still
          BY <4>1, <5>2, <5>3, <5>4
        <5>7. NothingTypedIsLost'
          BY <3>1, <5>5, <5>6 DEF NothingTypedIsLost
        <5> QED  BY <2>1, <4>1, <4>2, <5>5, <5>7 DEF Written
      <4> QED  BY <4>3, <4>4
    <3>7. ASSUME NEW n \in Name, Rename(n)
          PROVE  Staged
      <4>1. store'.text = store.text /\ entry' = entry
        BY <2>0, <3>7 DEF Rename, editorVars, StoreType
      <4> QED  BY <2>1, <3>1, <4>1 DEF Written, Landed, NothingTypedIsLost
    <3>8. CASE read # NothingRead /\ StoreTakes(read)
      <4>1. read \in ReadType /\ read.text \subseteq landed /\ read.text \cap Typed \subseteq made
        BY <2>0, <3>8 DEF Landed, Written
      <4>2. CASE entry' = entry /\ store'.text = store.text
        BY <2>1, <3>1, <4>2 DEF Written, Landed, NothingTypedIsLost
      <4>3. CASE Took /\ ~entry.cached
        BY <2>1, <3>1, <4>1, <4>3 DEF Took, Written, Landed, NothingTypedIsLost
      <4>4. CASE Took /\ entry.cached /\ entry.dirty
        <5>1. /\ store'.text = read.text /\ entry'.cached /\ entry'.dirty
              /\ entry'.text = Merged(entry.base, entry.text, read.text)
              /\ entry'.base = read.text
          BY <4>4 DEF Took
        <5>2. Unsaved \subseteq Merged(entry.base, entry.text, read.text)
          <6>1. Unsaved \subseteq entry.text /\ Unsaved \subseteq Typed /\ Unsaved \cap landed = {}
            BY DEF NothingTypedIsLost, Unsaved
          <6> QED  BY <6>1 DEF Merged, Landed
        <5>3. Merged(entry.base, entry.text, read.text) \subseteq entry.text \cup read.text
          BY DEF Merged
        <5> QED  BY <2>1, <3>1, <4>1, <5>1, <5>2, <5>3 DEF Written, NothingTypedIsLost
      <4>5. CASE Took /\ entry.cached /\ ~entry.dirty
        <5>1. Unsaved = {} /\ Unsaved' = {}
          BY <3>1, <4>5 DEF NothingTypedIsLost
        <5>2. store'.text = read.text /\ entry' \in {Uncached, Showing(read.text)}
          BY <4>5 DEF Took
        <5>3. entry'.text \subseteq read.text /\ entry'.base \subseteq read.text
          BY <5>2 DEF Uncached, Showing
        <5> QED  BY <2>1, <4>1, <5>1, <5>2, <5>3 DEF NothingTypedIsLost
      <4> QED  BY <3>8, <4>2, <4>3, <4>4, <4>5, StoreTaken DEF Took
    <3> HIDE DEF Staged
    <3> QED  BY <2>8, <3>2, <3>3, <3>4, <3>5, <3>6, <3>7, <3>8, StoreSteps, TakesSteps
  <2>10. Staged
    <3> HIDE DEF Staged
    <3> QED  BY <2>8, <2>9, TypedSteps
  <2> QED  BY <2>2, <2>3, <2>4, <2>5, <2>6, <2>10 DEF Landed, Written
<1> QED  BY <1>1, <1>2, RecordedHolds, PTL DEF Spec

\* What was typed and never reached storage is still in the editor, through
\* every conflict, failed save, adopted record, switch and eviction.
THEOREM NothingTypedIsLostHolds == Spec => []NothingTypedIsLost
BY KeepsHold, PTL

-----------------------------------------------------------------------------
(* What others wrote is kept                                                 *)

\* Storage keeps what others wrote, and every text holds of it only what has
\* landed.
Foreign == landed \cap Remote
FromStorage ==
  /\ Foreign \subseteq disk.text
  /\ store.text \cap Remote \subseteq landed
  /\ entry.text \cap Remote \subseteq landed
  /\ save # Idle => save.text \cap Remote \subseteq landed

\* A revision is never ahead of storage, and who holds the revision of storage
\* holds everything others wrote.
Current ==
  /\ read # NothingRead =>
       /\ read.revision =< disk.revision
       /\ read.revision = disk.revision => Foreign \subseteq read.text
  /\ store.revision =< disk.revision
  /\ store.revision = disk.revision =>
       /\ Foreign \subseteq store.text
       /\ entry.cached => Foreign \subseteq entry.text
  /\ save.pc = "commit" =>
       /\ save.expected =< store.revision
       /\ save.expected = disk.revision => Foreign \subseteq save.text

\* The editor shows all of the common ground that others wrote; an answered
\* save is what the store and the editor hold of it, until its commit leaves
\* the gate.
Common ==
  /\ entry.cached => entry.base \cap Remote = entry.text \cap Remote
  /\ save.pc = "written" =>
       /\ "save" \in inFlight /\ save.expected + 1 =< disk.revision
       /\ save.expected + 1 = disk.revision => Foreign \subseteq save.text
       /\ save.text \cap Remote = store.text \cap Remote
       /\ entry.cached => save.text \cap Remote = entry.text \cap Remote

Kept == FromStorage /\ Current /\ Common

\* A step that is none of these leaves the texts, the save and storage alone,
\* and a commit that has left the gate is not one that was answered.
LEMMA OtherSteps ==
  ASSUME [Next]_vars
  PROVE  \/ /\ UNCHANGED <<disk, landed, store, entry, save>>
            /\ read' = read \/ read' = NothingRead
            /\ "save" \in inFlight => "save" \in inFlight' \/ save.pc \in {"conflict", "failed"}
         \/ \E e \in Typed : Type(e)
         \/ \E n \in Name : Rename(n) \/ RemoteRename(n)
         \/ \E e \in Remote : RemoteWrite(e)
         \/ SwitchBack \/ Evict \/ Persist \/ WriteSave \/ AckSave \/ WriteRename
         \/ ReadStorage \/ FinishRefresh \/ FailRefresh \/ ApplyReconcile
BY CallersAssumption
   DEF Next, System, User, Worker, vars, RejectSave, AskForSave, Admit, LeaveCommit,
       HoldForReconcile, ResumeCommit, Acquire, Drained, Release, AckRename, RejectRename,
       GateTurn, Report, Reconcile, FailReconcile, DelayOver, RetrySave, RetryReconcile,
       SwitchAway, SaveNow, EditorStep, ReconcilerStep, gateVars, saveVars, editorVars, boundVars

LEMMA KeptByOthers ==
  ASSUME Kept, UNCHANGED <<disk, landed, store, entry, save>>,
         read' = read \/ read' = NothingRead,
         "save" \in inFlight => "save" \in inFlight' \/ save.pc \in {"conflict", "failed"}
  PROVE  Kept'
BY DEF Kept, FromStorage, Current, Common, Foreign

\* The editor's own steps.
LEMMA KeptByEditor ==
  ASSUME Recorded, Kept,
         (\E e \in Typed : Type(e)) \/ SwitchBack \/ Evict \/ \E n \in Name : Rename(n)
  PROVE  Kept'
<1>0. store \in StoreType /\ entry \in EntryType /\ \A e \in Remote : e \notin Typed
  BY EditsAssumption DEF Recorded
<1>1. CASE \E e \in Typed : Type(e)
  <2>1. PICK e \in Typed : Type(e)
    BY <1>1
  <2>2. /\ entry'.text = entry.text \cup {e} /\ entry'.base = entry.base
        /\ entry'.cached = entry.cached
        /\ UNCHANGED <<disk, landed, store, read, save, inFlight>>
    BY <1>0, <2>1 DEF Type, EditorStep, EntryType, gateVars
  <2>3. entry'.text \cap Remote = entry.text \cap Remote
    BY <1>0, <2>2
  <2> QED  BY <2>2, <2>3 DEF Kept, FromStorage, Current, Common, Foreign
<1>2. CASE SwitchBack
  <2>1. /\ UNCHANGED <<disk, landed, store, read, save, inFlight>>
        /\ \/ entry' = entry
           \/ entry'.text = store.text /\ entry'.base = store.text
    BY <1>2 DEF SwitchBack, EditorStep, Showing, gateVars
  <2> QED  BY <2>1 DEF Kept, FromStorage, Current, Common, Foreign
<1>3. CASE Evict
  <2>1. /\ UNCHANGED <<disk, landed, store, read, save, inFlight>>
        /\ ~entry'.cached /\ entry'.text = {}
    BY <1>3 DEF Evict, EditorStep, Uncached, gateVars
  <2> QED  BY <2>1 DEF Kept, FromStorage, Current, Common, Foreign
<1>4. CASE \E n \in Name : Rename(n)
  <2>1. PICK n \in Name : Rename(n)
    BY <1>4
  <2>2. /\ UNCHANGED <<disk, landed, entry, read, save>>
        /\ store'.text = store.text /\ store'.revision = store.revision
        /\ "save" \in inFlight => "save" \in inFlight'
    BY <1>0, <2>1 DEF Rename, EnterCommit, Admit, editorVars, saveVars, StoreType
  <2> QED  BY <2>2 DEF Kept, FromStorage, Current, Common, Foreign
<1> QED  BY <1>1, <1>2, <1>3, <1>4

\* What other devices and renames do to storage.
LEMMA KeptByStorage ==
  ASSUME Recorded, Kept,
         WriteRename \/ (\E n \in Name : RemoteRename(n)) \/ \E e \in Remote : RemoteWrite(e)
  PROVE  Kept'
<1>0. /\ disk \in DiskType /\ store \in StoreType /\ (read = NothingRead \/ read \in ReadType)
      /\ save = Idle \/ save \in SaveType
      /\ \A e \in Remote : e \notin Typed
  BY EditsAssumption DEF Recorded
<1>1. CASE WriteRename \/ \E n \in Name : RemoteRename(n)
  <2>1. /\ UNCHANGED <<landed, entry, store, read, save, inFlight>>
        /\ disk'.text = disk.text /\ disk'.revision = disk.revision
    BY <1>0, <1>1
    DEF WriteRename, RemoteRename, WorkerStep, gateVars, editorVars, saveVars, DiskType
  <2> QED  BY <2>1 DEF Kept, FromStorage, Current, Common, Foreign
<1>2. CASE \E e \in Remote : RemoteWrite(e)
  <2>1. PICK e \in Remote, gone \in SUBSET (disk.text \cap Typed) :
          /\ disk' = [disk EXCEPT !.text = (@ \ gone) \cup {e}, !.revision = @ + 1]
          /\ landed' = landed \cup {e}
          /\ UNCHANGED <<entry, store, read, save, inFlight>>
    BY <1>2 DEF RemoteWrite, WorkerStep, gateVars, editorVars, saveVars
  <2>2. /\ disk'.text = (disk.text \ gone) \cup {e} /\ disk'.revision = disk.revision + 1
        /\ disk.revision \in Nat
    BY <1>0, <2>1 DEF DiskType
  <2>3. FromStorage'
    BY <1>0, <2>1, <2>2 DEF Kept, FromStorage, Foreign
  <2>4. Current'
    <3>1. store.revision \in Nat /\ (read # NothingRead => read.revision \in Nat)
      BY <1>0 DEF StoreType, ReadType
    <3>2. save.pc = "commit" => save.expected \in Nat
      BY <1>0 DEF SaveType, Idle
    <3> QED  BY <2>1, <2>2, <3>1, <3>2 DEF Kept, Current
  <2>5. Common'
    <3>1. save.pc = "written" => save.expected \in Nat
      BY <1>0 DEF SaveType, Idle
    <3> QED  BY <2>1, <2>2, <3>1 DEF Kept, Common
  <2> QED  BY <2>3, <2>4, <2>5 DEF Kept
<1> QED  BY <1>1, <1>2

\* The stages of a save.
LEMMA KeptBySave ==
  ASSUME Recorded, Kept, Persist \/ WriteSave \/ AckSave
  PROVE  Kept'
<1>0. /\ disk \in DiskType /\ store \in StoreType /\ (read = NothingRead \/ read \in ReadType)
      /\ entry \in EntryType /\ (save = Idle \/ save \in SaveType)
      /\ disk.revision \in Nat /\ store.revision \in Nat
  BY DEF Recorded, DiskType, StoreType
<1>r. read # NothingRead => read.revision \in Nat
  BY <1>0 DEF ReadType
<1>1. CASE Persist
  <2>1. CASE UNCHANGED <<disk, landed, store, entry, save, read, gateVars>>
    BY <2>1, KeptByOthers DEF gateVars
  <2>2. CASE ~UNCHANGED <<disk, landed, store, entry, save, read, gateVars>>
    <3>1. /\ save' = [pc |-> "commit", text |-> entry.text, expected |-> store.revision,
                      attempt |-> IF save.pc = "again" THEN save.attempt + 1 ELSE 0]
          /\ store' = [store EXCEPT !.text = entry.text, !.staged = TRUE]
          /\ entry' = [entry EXCEPT !.seen = TRUE]
          /\ entry.cached /\ UNCHANGED <<disk, landed, read>>
      BY <1>1, <2>2 DEF Persist, editorVars, boundVars, gateVars
    <3>2. /\ store'.text = entry.text /\ store'.revision = store.revision
          /\ entry'.text = entry.text /\ entry'.base = entry.base /\ entry'.cached = entry.cached
          /\ save'.pc = "commit" /\ save'.text = entry.text /\ save'.expected = store.revision
      BY <1>0, <3>1 DEF StoreType, EntryType
    <3>3. FromStorage' /\ Common'
      BY <3>1, <3>2 DEF Kept, FromStorage, Common, Foreign
    <3>4. Current'
      BY <1>0, <3>1, <3>2 DEF Kept, Current, Foreign
    <3> QED  BY <3>3, <3>4 DEF Kept
  <2> QED  BY <2>1, <2>2
<1>2. CASE WriteSave
  <2>1. save \in SaveType /\ save.pc = "commit" /\ "save" \in inFlight /\ save.expected \in Nat
    BY <1>0, <1>2 DEF WriteSave, Idle, SaveType
  <2>2. UNCHANGED <<store, read, entry, inFlight>>
    BY <1>2 DEF WriteSave, gateVars, editorVars
  <2>3. CASE UNCHANGED <<disk, landed>> /\ save'.pc \in {"conflict", "failed"} /\ save'.text = save.text
    BY <2>1, <2>2, <2>3 DEF Kept, FromStorage, Current, Common, Foreign, Idle
  <2>4. CASE /\ save.expected = disk.revision /\ landed' = landed \cup save.text
             /\ disk' = [disk EXCEPT !.text = save.text, !.revision = @ + 1]
             /\ save' = [save EXCEPT !.pc = "written"]
    <3>1. /\ disk'.text = save.text /\ disk'.revision = disk.revision + 1
          /\ save'.pc = "written" /\ save'.text = save.text /\ save'.expected = save.expected
      BY <1>0, <2>1, <2>4 DEF DiskType, SaveType
    <3>2. Foreign \subseteq save.text /\ Foreign' = Foreign
      BY <2>1, <2>4 DEF Kept, Current, FromStorage, Foreign, Idle
    <3>3. store.revision = disk.revision
      BY <1>0, <2>1, <2>4 DEF Kept, Current
    <3>4. FromStorage'
      BY <2>1, <2>2, <2>4, <3>1, <3>2 DEF Kept, FromStorage, Foreign, Idle
    <3>5. Current'
      BY <1>0, <1>r, <2>2, <3>1 DEF Kept, Current
    <3>6. /\ save.text \cap Remote = store.text \cap Remote
          /\ entry.cached => save.text \cap Remote = entry.text \cap Remote
      BY <2>1, <3>2, <3>3 DEF Kept, Current, FromStorage, Foreign, Idle
    <3>7. Common'
      BY <2>1, <2>2, <2>4, <3>1, <3>2, <3>6 DEF Kept, Common
    <3> QED  BY <3>4, <3>5, <3>7 DEF Kept
  <2> QED
    <3>1. ASSUME UNCHANGED <<disk, landed>>, NEW step \in {"conflict", "failed"},
                 save' = [save EXCEPT !.pc = step]
          PROVE  Kept'
      <4>1. save'.pc = step /\ save'.text = save.text
        BY <2>1, <3>1 DEF SaveType
      <4> QED  BY <2>3, <3>1, <4>1
    <3> QED  BY <1>2, <2>4, <3>1 DEF WriteSave
<1>3. CASE AckSave
  <2>1. /\ save \in SaveType /\ save.pc = "written" /\ save.expected \in Nat
        /\ store' = [store EXCEPT !.revision = save.expected + 1]
        /\ save' = Idle /\ UNCHANGED <<disk, landed, read>>
    BY <1>0, <1>3 DEF AckSave, Idle, SaveType, boundVars
  <2>2. store'.text = store.text /\ store'.revision = save.expected + 1
    BY <1>0, <2>1 DEF StoreType
  <2>3. /\ entry'.text = entry.text /\ entry'.cached = entry.cached
        /\ entry.cached => entry'.base = save.text
    <3>1. CASE ~entry.cached
      BY <1>3, <3>1 DEF AckSave
    <3>2. CASE entry.cached
      <4> DEFINE still == entry.dirty /\ ~SavedAsShown
      <4>1. entry' = [entry EXCEPT !.base = save.text, !.dirty = still]
        BY <1>3, <3>2 DEF AckSave
      <4> HIDE DEF still
      <4> QED  BY <1>0, <4>1 DEF EntryType
    <3> QED  BY <3>1, <3>2
  <2>4. FromStorage'
    BY <2>1, <2>2, <2>3 DEF Kept, FromStorage, Foreign
  <2>5. Current'
    BY <1>0, <2>1, <2>2, <2>3 DEF Kept, Current, Common, Foreign, Idle
  <2>6. Common'
    BY <2>1, <2>2, <2>3 DEF Kept, Common, Idle
  <2> QED  BY <2>4, <2>5, <2>6 DEF Kept
<1> QED  BY <1>1, <1>2, <1>3

\* What was read, and what a refresh or a reconcile does with it.
LEMMA KeptByRead ==
  ASSUME Recorded, Landed, Kept, GateSound,
         ReadStorage \/ FinishRefresh \/ FailRefresh \/ ApplyReconcile
  PROVE  Kept'
<1>0. /\ disk \in DiskType /\ store \in StoreType /\ (read = NothingRead \/ read \in ReadType)
      /\ entry \in EntryType /\ (save = Idle \/ save \in SaveType)
  BY DEF Recorded
<1>1. CASE ReadStorage
  <2>1. /\ UNCHANGED <<disk, landed, store, entry, save, inFlight>>
        /\ read'.text = disk.text /\ read'.revision = disk.revision
    BY <1>1 DEF ReadStorage, gateVars, editorVars, saveVars, boundVars
  <2>2. FromStorage' /\ Common'
    BY <2>1 DEF Kept, FromStorage, Common, Foreign
  <2>3. Current'
    BY <1>0, <2>1 DEF Kept, Current, FromStorage, Foreign, DiskType
  <2> QED  BY <2>2, <2>3 DEF Kept
<1>2. ASSUME FinishRefresh \/ FailRefresh \/ ApplyReconcile
      PROVE  Kept'
  <2>1. /\ reading /\ inFlight = {} /\ UNCHANGED <<disk, landed>>
        /\ read' = read \/ read' = NothingRead
    BY <1>2 DEF GateSound, HoldKeepsOut, FinishRefresh, FailRefresh, ApplyReconcile, Release,
                ReconcilerStep, boundVars
  <2>2. save.pc # "written"
    BY <2>1 DEF Kept, Common
  <2>3. \/ save' = save \/ save' = Idle
        \/ save'.pc = "again" /\ save'.text = save.text /\ save # Idle
    <3>1. CASE SaveRejected
      <4>1. save.pc = "conflict" => save \in SaveType
        BY <1>0 DEF Idle
      <4> QED  BY <3>1, <4>1 DEF SaveRejected, SaveType, Idle
    <3> QED
      BY <1>2, <3>1
      DEF FinishRefresh, FailRefresh, ApplyReconcile, ReconcilerStep, saveVars
  <2>4. CASE /\ entry' = entry
             /\ store'.text = store.text /\ store'.revision = store.revision
    <3>1. FromStorage'
      BY <2>1, <2>3, <2>4 DEF Kept, FromStorage, Foreign
    <3>2. Common'
      BY <2>2, <2>3, <2>4 DEF Kept, Common, Idle
    <3>3. Current'
      BY <2>1, <2>3, <2>4 DEF Kept, Current, Foreign, Idle
    <3> QED  BY <3>1, <3>2, <3>3 DEF Kept
  <2>5. ASSUME Took, read # NothingRead
        PROVE  Kept'
    <3>1. /\ read \in ReadType /\ read.text \subseteq landed
          /\ read.revision \in Nat /\ store.revision \in Nat
      BY <1>0, <2>5 DEF Landed, ReadType, StoreType
    <3>2. /\ store'.text = read.text /\ store'.revision = read.revision
          /\ store.revision =< read.revision
      BY <2>5 DEF Took
    <3>3. \/ entry' = entry /\ ~entry.cached
          \/ entry'.base \cap Remote = read.text \cap Remote
             /\ entry'.text \cap Remote = read.text \cap Remote
          \/ ~entry'.cached /\ entry'.text = {}
      <4>1. CASE entry.cached /\ entry.dirty
        <5>1. /\ entry'.text = Merged(entry.base, entry.text, read.text)
              /\ entry'.base = read.text
          BY <2>5, <4>1 DEF Took
        <5>2. entry.base \cap Remote = entry.text \cap Remote
          BY <4>1 DEF Kept, Common
        <5>3. Merged(entry.base, entry.text, read.text) \cap Remote = read.text \cap Remote
          BY <5>2 DEF Merged
        <5> QED  BY <5>1, <5>3
      <4>2. CASE entry.cached /\ ~entry.dirty
        BY <2>5, <4>2 DEF Took, Uncached, Showing
      <4> QED  BY <2>5, <4>1, <4>2 DEF Took
    <3>4. FromStorage'
      BY <2>1, <2>3, <3>1, <3>2, <3>3 DEF Kept, FromStorage, Foreign
    <3>5. Common'
      BY <2>2, <2>3, <3>3 DEF Kept, Common, Idle
    <3>6. Current'
      <4>1. /\ read.revision =< disk.revision
            /\ read.revision = disk.revision => Foreign \subseteq read.text
        BY <2>5 DEF Kept, Current
      <4>2. save'.pc = "commit" => save' = save /\ save.expected \in Nat
        BY <1>0, <2>3 DEF Idle, SaveType
      <4>3. save.pc = "commit" =>
              /\ save.expected =< store.revision
              /\ save.expected = disk.revision => Foreign \subseteq save.text
        BY DEF Kept, Current
      <4>4. read' # NothingRead => read' = read
        BY <2>1
      <4> QED  BY <2>1, <3>1, <3>2, <3>3, <4>1, <4>2, <4>3, <4>4 DEF Current, Foreign
    <3> QED  BY <3>4, <3>5, <3>6 DEF Kept
  <2>6. \/ UNCHANGED <<store, entry>>
        \/ read # NothingRead /\ StoreTakes(read)
    BY <1>2, TakesSteps DEF FailRefresh, editorVars
  <2> QED  BY <2>4, <2>5, <2>6, StoreTaken
<1> QED  BY <1>1, <1>2

\* Of what other devices wrote, every text on the way knows what its revision
\* says it knows.
LEMMA KeptHolds == Spec => []Kept
<1>1. Init => Kept
  BY DEF Init, Kept, FromStorage, Current, Common, Foreign, Idle
<1>2. Recorded /\ Landed /\ GateSound /\ Kept /\ [Next]_vars => Kept'
  <2> SUFFICES ASSUME Recorded, Landed, GateSound, Kept, [Next]_vars
               PROVE  Kept'
    OBVIOUS
  <2> QED  BY OtherSteps, KeptByOthers, KeptByEditor, KeptByStorage, KeptBySave, KeptByRead
<1> QED  BY <1>1, <1>2, RecordedHolds, KeepsHold, GateSoundInEditor, PTL DEF Spec

\* A save that goes through holds everything other devices have written to the
\* note: the revision it was made for is that of a text the editor has merged.
THEOREM RemoteTextKeptHolds == Spec => RemoteTextKept
<1>1. Recorded /\ Landed /\ Kept /\ [Next]_vars =>
        [(save.pc = "commit" /\ save'.pc = "written")
           => disk.text \cap Remote \subseteq disk'.text]_vars
  <2> SUFFICES ASSUME Recorded, Landed, Kept, [Next]_vars,
                      save.pc = "commit", save'.pc = "written"
               PROVE  disk.text \cap Remote \subseteq disk'.text
    OBVIOUS
  <2>1. save \in SaveType /\ disk \in DiskType
    BY DEF Recorded, Idle
  <2>2. save' # save /\ save' # Idle
    BY DEF Idle
  <2>3. WriteSave
    <3>1. ~Persist
      BY DEF Persist
    <3>2. ~AckSave
      BY <2>2 DEF AckSave
    <3>3. ~SaveRejected
      BY <2>1 DEF SaveRejected, Idle
    <3> QED  BY <2>2, <3>1, <3>2, <3>3, SaveSteps DEF FinishRefresh, FailRefresh
  <2>4. /\ save.expected = disk.revision
        /\ disk' = [disk EXCEPT !.text = save.text, !.revision = @ + 1]
    BY <2>1, <2>3 DEF WriteSave, SaveType
  <2>5. disk'.text = save.text
    BY <2>1, <2>4 DEF DiskType
  <2> QED  BY <2>4, <2>5 DEF Kept, Current, Foreign, Landed
<1> QED  BY <1>1, RecordedHolds, KeepsHold, KeptHolds, PTL DEF Spec, RemoteTextKept

-----------------------------------------------------------------------------
(* What is typed is on its way                                               *)

\* What was typed and is not in storage waits for a save, is in the save that
\* runs, or the last save failed and no other runs.
Due ==
  \/ Unsaved = {} \/ timer \/ queued > 0
  \/ save # Idle /\ Unsaved \subseteq save.text
  \/ save = Idle /\ failure

\* A record that is taken over never stops the timer of a save.
LEMMA TimerRuns ==
  ASSUME StoreTakes(read), timer
  PROVE  timer'
<1>1. UNCHANGED timer \/ AdoptRecord(read.text)
  BY DEF StoreTakes
<1>2. ASSUME TakeOver(read.text)
      PROVE  timer'
  BY <1>2 DEF TakeOver
<1> QED  BY <1>1, <1>2 DEF AdoptRecord

\* Who starts and stops saves; a step that is none of these leaves them alone.
LEMMA DueSteps ==
  ASSUME [Next]_vars
  PROVE  \/ (timer => timer') /\ UNCHANGED <<queued, save, failure>>
         \/ \E e \in Typed : Type(e)
         \/ SaveNow \/ RetrySave \/ SwitchAway
         \/ Persist \/ WriteSave \/ AckSave \/ FinishRefresh \/ FailRefresh
<1>1. CASE ApplyReconcile
  BY <1>1, TimerRuns DEF ApplyReconcile, ReconcilerStep, saveVars
<1> QED
  BY <1>1
  DEF Next, System, User, Worker, vars, RejectSave, AskForSave, AckRename, WriteRename,
      RejectRename, GateTurn, ReadStorage, Report, Reconcile, FailReconcile,
      DelayOver, RetryReconcile, SwitchBack, Evict, Rename, EditorStep,
      ReconcilerStep, WorkerStep, RemoteWrite, RemoteRename, saveVars, editorVars

\* A refresh, whether it succeeds or not, leaves the save as it is or decides
\* on it, and stops no timer.
LEMMA RefreshSteps ==
  ASSUME FinishRefresh \/ FailRefresh
  PROVE  /\ timer => timer'
         /\ UNCHANGED queued
         /\ UNCHANGED <<save, failure>> \/ SaveRejected
BY TimerRuns DEF FinishRefresh, FailRefresh, editorVars

\* No switch, adopted record or failed attempt leaves typed text in the editor
\* with nobody to save it and nobody told (SaveSequencer, flushPendingSave).
LEMMA DueHolds == Spec => [](queued \in Nat /\ Due)
<1>1. Init => queued \in Nat /\ Due
  BY DEF Init, Due, Unsaved
<1>2. Recorded /\ Landed /\ NothingTypedIsLost /\ queued \in Nat /\ Due /\ [Next]_vars =>
        (queued \in Nat /\ Due)'
  <2> SUFFICES ASSUME Recorded, Landed, NothingTypedIsLost, queued \in Nat, Due, [Next]_vars
               PROVE  queued' \in Nat /\ Due'
    OBVIOUS
  <2>0. (save = Idle \/ save \in SaveType) /\ entry \in EntryType
    BY DEF Recorded
  <2>1. CASE \E e \in Typed : Type(e)
    BY <2>1 DEF Type, Due
  <2>2. Unsaved' \subseteq Unsaved \/ \E e \in Typed : Type(e)
    BY TypedSteps, LandedSteps DEF Unsaved
  <2>3. CASE SaveNow \/ RetrySave
    BY <2>3 DEF SaveNow, RetrySave, Due
  <2>4. ASSUME SwitchAway, Unsaved' \subseteq Unsaved
        PROVE  queued' \in Nat /\ Due'
    <3>1. /\ queued' = IF timer THEN queued + 1 ELSE queued
          /\ UNCHANGED <<save, failure>>
      BY <2>4 DEF SwitchAway, FlushedQueue, EditorStep
    <3>2. CASE timer
      BY <3>1, <3>2 DEF Due
    <3>3. CASE ~timer
      BY <2>4, <3>1, <3>3 DEF Due
    <3> QED  BY <3>2, <3>3
  <2>5. ASSUME Persist, Unsaved' \subseteq Unsaved
        PROVE  queued' \in Nat /\ Due'
    <3>1. CASE ~entry.cached
      <4>1. Unsaved' = {}
        BY <2>5, <3>1 DEF NothingTypedIsLost
      <4>2. queued' \in Nat
        BY <2>5, <3>1 DEF Persist
      <4> QED  BY <4>1, <4>2 DEF Due
    <3>2. CASE entry.cached
      <4>1. /\ save'.text = entry.text /\ save'.pc = "commit"
            /\ (queued > 0 /\ queued' = queued - 1) \/ queued' = queued
        BY <2>5, <3>2 DEF Persist
      <4>2. Unsaved' \subseteq save'.text
        BY <2>5, <4>1 DEF NothingTypedIsLost
      <4>3. save' # Idle
        BY <4>1 DEF Idle
      <4> QED  BY <4>1, <4>2, <4>3 DEF Due
    <3> QED  BY <2>0, <3>1, <3>2
  <2>6. ASSUME WriteSave, Unsaved' \subseteq Unsaved
        PROVE  queued' \in Nat /\ Due'
    <3>1. save \in SaveType
      BY <2>0, <2>6 DEF WriteSave, Idle
    <3>2. /\ save'.text = save.text /\ save'.pc \in {"written", "conflict", "failed"}
          /\ timer' = timer /\ queued' = queued
      BY <2>6, <3>1 DEF WriteSave, SaveType, editorVars
    <3>3. save' # Idle /\ save # Idle
      BY <2>6, <3>2 DEF WriteSave, Idle
    <3> QED  BY <2>6, <3>2, <3>3 DEF Due
  <2>7. ASSUME AckSave, Unsaved' \subseteq Unsaved
        PROVE  queued' \in Nat /\ Due'
    <3>1. save.pc = "written" /\ save.text \subseteq landed
      BY <2>7 DEF AckSave, Landed
    <3>2. UNCHANGED <<timer, queued>> /\ save # Idle
      BY <2>7, <3>1 DEF AckSave, Idle
    <3>3. Unsaved \subseteq save.text => Unsaved = {}
      BY <3>1 DEF Unsaved
    <3> QED  BY <2>7, <3>2, <3>3 DEF Due
  <2>8. ASSUME SaveRejected, Unsaved' \subseteq Unsaved, timer => timer', UNCHANGED queued
        PROVE  queued' \in Nat /\ Due'
    <3>1. CASE save' = Idle /\ failure'
      BY <2>8, <3>1 DEF Due
    <3>2. CASE save' = [save EXCEPT !.pc = "again"] /\ save.pc = "conflict"
      <4>1. save \in SaveType
        BY <2>0, <3>2 DEF Idle
      <4>2. save'.text = save.text /\ save' # Idle /\ save # Idle
        BY <3>2, <4>1 DEF SaveType, Idle
      <4> QED  BY <2>8, <4>2 DEF Due
    <3> QED  BY <2>8, <3>1, <3>2 DEF SaveRejected
  <2>9. ASSUME timer => timer', UNCHANGED <<queued, save, failure>>, Unsaved' \subseteq Unsaved
        PROVE  queued' \in Nat /\ Due'
    BY <2>9 DEF Due
  <2> QED
    BY <2>1, <2>2, <2>3, <2>4, <2>5, <2>6, <2>7, <2>8, <2>9, DueSteps, RefreshSteps
<1> QED  BY <1>1, <1>2, RecordedHolds, KeepsHold, PTL DEF Spec

\* Typed text that never reached storage has a save due, queued or under way, or
\* the user is told that the last one failed.
THEOREM UnsavedIsScheduledHolds == Spec => []UnsavedIsScheduled
<1>1. Due => UnsavedIsScheduled
  BY DEF Due, UnsavedIsScheduled
<1> QED  BY <1>1, DueHolds, PTL

-----------------------------------------------------------------------------
(* What another device wrote is heard of                                     *)

\* A reconcile or refresh is in the queue once, and not while it has the gate.
AskedOnce ==
  /\ \A i, j \in DOMAIN holdQueue : holdQueue[i] = holdQueue[j] => i = j
  /\ \A i \in DOMAIN holdQueue : holdQueue[i] # hold

\* Whoever calls the gate asks for it once at a time (holdForReconcile).
LEMMA AskedOnceHolds == GateSpec => []AskedOnce
<1>1. GateInit => AskedOnce
  BY DEF GateInit, AskedOnce
<1>2. GateTypeOK /\ AskedOnce /\ [GateNext]_gateVars => AskedOnce'
  <2> SUFFICES ASSUME GateTypeOK, AskedOnce, [GateNext]_gateVars
               PROVE  AskedOnce'
    OBVIOUS
  <2>0. holdQueue \in Seq(Holder) /\ DOMAIN holdQueue = 1..Len(holdQueue)
    BY DEF GateTypeOK
  <2>1. CASE UNCHANGED <<hold, holdQueue>>
    BY <2>1 DEF AskedOnce
  <2>2. ASSUME NEW h \in Holder, HoldForReconcile(h)
        PROVE  AskedOnce'
    <3>1. /\ holdQueue' = Append(holdQueue, h) /\ hold' = hold /\ hold # h
          /\ \A i \in DOMAIN holdQueue : holdQueue[i] # h
      BY <2>2 DEF HoldForReconcile, Asked
    <3>2. /\ DOMAIN holdQueue' = 1..(Len(holdQueue) + 1)
          /\ \A i \in 1..Len(holdQueue) : holdQueue'[i] = holdQueue[i]
          /\ holdQueue'[Len(holdQueue) + 1] = h
      BY <2>0, <3>1
    <3> QED  BY <2>0, <3>1, <3>2 DEF AskedOnce
  <2>3. ASSUME NEW h \in Holder, Release(h)
        PROVE  AskedOnce'
    <3>1. \A i \in DOMAIN holdQueue : holdQueue[i] # NoHold
      BY <2>0, NoHoldAssumption
    <3> QED  BY <2>3, <3>1 DEF Release, AskedOnce
  <2>4. CASE Acquire
    <3>1. /\ holdQueue # <<>> /\ hold' = Head(holdQueue) /\ holdQueue' = Tail(holdQueue)
      BY <2>4 DEF Acquire
    <3>2. /\ Len(holdQueue) \in Nat /\ Len(holdQueue) > 0 /\ hold' = holdQueue[1]
          /\ DOMAIN holdQueue' = 1..(Len(holdQueue) - 1)
          /\ \A i \in 1..(Len(holdQueue) - 1) : holdQueue'[i] = holdQueue[i + 1]
      BY <2>0, <3>1
    <3>3. ASSUME NEW i \in DOMAIN holdQueue'
          PROVE  /\ i \in 1..(Len(holdQueue) - 1) /\ i + 1 \in DOMAIN holdQueue
                 /\ 1 \in DOMAIN holdQueue /\ i + 1 # 1
      BY <2>0, <3>2
    <3>4. \A i, j \in DOMAIN holdQueue' : i + 1 = j + 1 => i = j
      BY <3>2
    <3> QED  BY <3>2, <3>3, <3>4 DEF AskedOnce
  <2> QED
    BY <2>1, <2>2, <2>3, <2>4
    DEF GateNext, EnterCommit, ResumeCommit, LeaveCommit, Drained, gateVars
<1> QED  BY <1>1, <1>2, GateTypeCorrect, PTL DEF GateSpec

\* The renderer will still read storage, for a change it was or will be told of.
ToRead ==
  \/ announced # "none" \/ reconciler.pending # "none"
  \/ reconciler.pc = "held" /\ ~(hold = "reconcile" /\ read # NothingRead)

\* The revision the renderer stands at once the answer to its save is in.
Known == IF save.pc = "written" THEN save.expected + 1 ELSE store.revision

\* Who has the gate, or waits for it, to reconcile does so for a change; what was
\* read and what the renderer knows is the revision of storage, unless a read is
\* still to come.
Heard ==
  /\ reconciler.pc = "held" => reconciler.change # "none"
  /\ Asked("reconcile") => reconciler.pc = "held"
  /\ read # NothingRead => reading /\ (read.revision = disk.revision \/ ToRead)
  /\ ToRead \/ Known = disk.revision \/ (hold = "reconcile" /\ read # NothingRead)

\* Changes do not merge into none.
LEMMA MergedIsSome ==
  ASSUME NEW a, NEW b, a # "none" \/ b # "none"
  PROVE  MergeChanges(a, b) # "none"
BY DEF MergeChanges

\* The store ends at the revision that was read, or was there or further.
LEMMA StoreReaches ==
  ASSUME Recorded, read # NothingRead, StoreTakes(read)
  PROVE  \/ store'.revision = read.revision
         \/ store'.revision = store.revision /\ store.revision >= read.revision
<1>1. read \in ReadType /\ store \in StoreType
  BY DEF Recorded
<1>2. /\ store'.revision = IF Retained(read) THEN store.revision ELSE read.revision
      /\ Retained(read) => store.revision >= read.revision
  BY <1>1 DEF StoreTakes, StoreType, ReadType, Retained
<1> QED  BY <1>2

\* Who takes part in hearing of changes; a step that is none of these leaves
\* everything alone that it rests on.
LEMMA HearingSteps ==
  ASSUME [Next]_vars
  PROVE  \/ UNCHANGED <<disk, store, save, read, hold, holdQueue, reading, syncVars>>
         \/ \E n \in Name : Rename(n)
         \/ WriteRename \/ AskForSave \/ RejectRename \/ GateTurn
         \/ Persist \/ WriteSave \/ AckSave
         \/ Worker \/ Report \/ Reconcile \/ DelayOver \/ RetryReconcile
         \/ ReadStorage \/ FinishRefresh \/ FailRefresh \/ ApplyReconcile \/ FailReconcile
BY DEF Next, System, User, vars, RejectSave, AckRename, LeaveCommit, RetrySave,
       SwitchAway, SwitchBack, Evict, Type, SaveNow, EditorStep, gateVars, saveVars

\* What other devices write and rename is announced.
LEMMA HeardFromWorker ==
  ASSUME Recorded, Heard, Worker
  PROVE  Heard'
<1>1. /\ UNCHANGED <<store, save, read, hold, holdQueue, reading, reconciler>>
      /\ announced' # "none"
  BY MergedIsSome DEF Worker, WorkerStep, RemoteWrite, RemoteRename, gateVars, saveVars
<1> QED  BY <1>1 DEF Heard, ToRead, Asked

\* The worker's event, and what a reconcile that failed leaves to do, stay to be
\* read; so does what a reconcile takes up.
LEMMA HeardByReconciler ==
  ASSUME Recorded, Heard, AskedOnce,
         Report \/ Reconcile \/ FailReconcile \/ DelayOver \/ RetryReconcile
  PROVE  Heard'
<1>0. reconciler \in ReconcilerType
  BY DEF Recorded
<1>1. CASE Report
  <2>1. /\ UNCHANGED <<disk, store, save, read, hold, holdQueue, reading>>
        /\ reconciler' = [reconciler EXCEPT
               !.pending = MergeChanges(@, announced), !.exhausted = FALSE]
        /\ announced # "none"
    BY <1>1 DEF Report, ReconcilerStep, gateVars, saveVars
  <2>2. /\ reconciler'.pending # "none" /\ reconciler'.pc = reconciler.pc
        /\ reconciler'.change = reconciler.change
    BY <1>0, <2>1, MergedIsSome DEF ReconcilerType
  <2> QED  BY <2>1, <2>2 DEF Heard, ToRead, Asked
<1>2. CASE Reconcile
  <2>1. /\ UNCHANGED <<disk, store, save, read, hold, reading>>
        /\ hold # "reconcile" /\ reconciler.pending # "none"
    BY <1>2 DEF Reconcile, ReconcilerStep, saveVars, HoldForReconcile, Asked
  <2>2. reconciler'.pc = "held" /\ reconciler'.change = reconciler.pending
    BY <1>0, <1>2 DEF Reconcile, ReconcilerType
  <2> QED  BY <2>1, <2>2 DEF Heard, ToRead
<1>3. CASE FailReconcile
  <2>1. /\ UNCHANGED <<disk, store, save, read, holdQueue>>
        /\ hold = "reconcile" /\ read = NothingRead /\ hold' # "reconcile"
    BY <1>3, NoHoldAssumption, CallersAssumption
    DEF FailReconcile, ReconcilerStep, saveVars, Release
  <2>2. reconciler.change # "none"
    BY <2>1 DEF Heard, Asked
  <2>3. reconciler'.pc # "held" /\ reconciler'.pending # "none"
    BY <1>3, <2>2, MergedIsSome DEF FailReconcile, PendingAgain
  <2>4. ~Asked("reconcile")'
    BY <2>1 DEF AskedOnce, Asked
  <2> QED  BY <2>1, <2>3, <2>4 DEF Heard, ToRead
<1>4. CASE DelayOver \/ RetryReconcile
  <2>1. /\ UNCHANGED <<disk, store, save, read, hold, holdQueue, reading, announced>>
        /\ \/ reconciler' = [reconciler EXCEPT !.pc = "idle"] /\ reconciler.pc = "delay"
           \/ reconciler' = [reconciler EXCEPT !.exhausted = FALSE]
    BY <1>4 DEF DelayOver, RetryReconcile, ReconcilerStep, gateVars, saveVars
  <2>2. /\ reconciler'.pending = reconciler.pending /\ reconciler'.change = reconciler.change
        /\ \/ reconciler'.pc = reconciler.pc
           \/ reconciler.pc = "delay" /\ reconciler'.pc = "idle"
    BY <1>0, <2>1 DEF ReconcilerType
  <2> QED  BY <2>1, <2>2 DEF Heard, ToRead, Known, Asked
<1> QED  BY <1>1, <1>2, <1>3, <1>4

\* The gate's turns, and the commits that ask for it: a read belongs to the
\* holder it was made for.
LEMMA HeardInGate ==
  ASSUME Heard, GateSound, GateTypeOK, GateTurn \/ AskForSave \/ RejectRename
  PROVE  Heard'
<1>1. UNCHANGED <<disk, store, save, read, announced, reconciler>>
  BY DEF GateTurn, AskForSave, RejectRename, saveVars, syncVars
<1>2. hold = NoHold => ~reading
  BY DEF GateSound, HoldKeepsOut
<1>3. /\ Asked("reconcile")' => Asked("reconcile")
      /\ reading => reading'
      /\ hold' = hold \/ hold = NoHold
  <2>1. CASE GateTurn
    <3>1. CASE Acquire
      <4>1. /\ holdQueue \in Seq(Holder) /\ holdQueue # <<>>
            /\ hold' = Head(holdQueue) /\ holdQueue' = Tail(holdQueue) /\ hold = NoHold
        BY <3>1 DEF Acquire, GateTypeOK
      <4>2. /\ Len(holdQueue) \in Nat /\ Len(holdQueue) > 0
            /\ DOMAIN holdQueue = 1..Len(holdQueue)
            /\ hold' = holdQueue[1]
            /\ DOMAIN holdQueue' = 1..(Len(holdQueue) - 1)
            /\ \A i \in 1..(Len(holdQueue) - 1) : holdQueue'[i] = holdQueue[i + 1]
        BY <4>1
      <4>3. 1 \in DOMAIN holdQueue /\ \A i \in DOMAIN holdQueue' : i + 1 \in DOMAIN holdQueue
        BY <4>2
      <4> QED  BY <1>2, <4>1, <4>2, <4>3 DEF Asked
    <3> QED  BY <2>1, <3>1 DEF GateTurn, ResumeCommit, Drained, Asked
  <2>2. CASE AskForSave \/ RejectRename
    <3>1. /\ UNCHANGED <<hold, reading>>
          /\ \/ holdQueue' = holdQueue
             \/ holdQueue' = Append(holdQueue, "save") \/ holdQueue' = Append(holdQueue, "rename")
      BY <2>2 DEF AskForSave, RejectRename, HoldForReconcile, LeaveCommit
    <3>2. ASSUME NEW h \in {"save", "rename"}, holdQueue' = Append(holdQueue, h)
          PROVE  Asked("reconcile")' => Asked("reconcile")
      <4>1. /\ Len(holdQueue) \in Nat /\ DOMAIN holdQueue = 1..Len(holdQueue)
            /\ DOMAIN holdQueue' = 1..(Len(holdQueue) + 1)
            /\ \A i \in 1..Len(holdQueue) : holdQueue'[i] = holdQueue[i]
            /\ holdQueue'[Len(holdQueue) + 1] = h
        BY <3>2 DEF GateTypeOK
      <4>2. \A i \in DOMAIN holdQueue' : i \in DOMAIN holdQueue \/ holdQueue'[i] = h
        BY <4>1
      <4> QED  BY <3>1, <4>1, <4>2 DEF Asked
    <3> QED  BY <3>1, <3>2 DEF Asked
  <2> QED  BY <2>1, <2>2
<1>4. read # NothingRead => hold' = hold
  BY <1>2, <1>3 DEF Heard
<1>5. ToRead => ToRead'
  BY <1>1, <1>4 DEF ToRead
<1>6. Known' = Known
  BY <1>1 DEF Known
<1> QED  BY <1>1, <1>3, <1>4, <1>5, <1>6 DEF Heard

\* A save that goes through leaves the renderer at the revision it made; what
\* is staged, renamed or acknowledged moves no revision.
LEMMA HeardBySave ==
  ASSUME Recorded, Heard, GateSound,
         Persist \/ WriteSave \/ AckSave \/ WriteRename \/ \E n \in Name : Rename(n)
  PROVE  Heard'
<1>0. /\ disk \in DiskType /\ store \in StoreType /\ (save = Idle \/ save \in SaveType)
  BY DEF Recorded
<1>1. UNCHANGED <<hold, holdQueue, reading, read, announced, reconciler>>
  BY DEF Persist, WriteSave, AckSave, WriteRename, Rename, EnterCommit, LeaveCommit, gateVars,
         syncVars
<1>2. ToRead' = ToRead /\ Asked("reconcile")' = Asked("reconcile")
  BY <1>1 DEF ToRead, Asked
<1>3. CASE Persist
  <2>1. disk' = disk
    BY <1>3 DEF Persist
  <2>2. save.pc # "written" /\ save'.pc # "written" /\ store'.revision = store.revision
    <3>1. save.pc # "written"
      BY <1>3 DEF Persist
    <3>2. CASE save' = save /\ store' = store
      BY <3>1, <3>2
    <3>3. CASE /\ save' = [pc |-> "commit", text |-> entry.text, expected |-> store.revision,
                          attempt |-> IF save.pc = "again" THEN save.attempt + 1 ELSE 0]
               /\ store' = [store EXCEPT !.text = entry.text, !.staged = TRUE]
      BY <1>0, <3>1, <3>3 DEF StoreType
    <3> QED  BY <1>3, <3>2, <3>3 DEF Persist
  <2> QED  BY <1>1, <1>2, <2>1, <2>2 DEF Heard, Known
<1>4. CASE WriteSave
  <2>1. save \in SaveType /\ save.pc = "commit" /\ store' = store
    BY <1>0, <1>4 DEF WriteSave, Idle
  <2>2. read = NothingRead
    BY <1>4 DEF WriteSave, Heard, GateSound, HoldKeepsOut
  <2>3. CASE disk' = disk /\ save'.pc \in {"conflict", "failed"}
    BY <1>1, <1>2, <2>1, <2>3 DEF Heard, Known
  <2>4. CASE /\ save.expected = disk.revision /\ save' = [save EXCEPT !.pc = "written"]
             /\ disk' = [disk EXCEPT !.text = save.text, !.revision = @ + 1]
    <3>1. disk'.revision = disk.revision + 1 /\ save'.pc = "written" /\ save'.expected = save.expected
      BY <1>0, <2>1, <2>4 DEF DiskType, SaveType
    <3> QED  BY <1>1, <1>2, <2>2, <2>4, <3>1 DEF Heard, Known
  <2> QED
    <3>1. ASSUME NEW step \in {"conflict", "failed"}, save' = [save EXCEPT !.pc = step]
          PROVE  save'.pc = step
      BY <2>1, <3>1 DEF SaveType
    <3> QED  BY <1>4, <2>3, <2>4, <3>1 DEF WriteSave
<1>5. CASE AckSave
  <2>1. save \in SaveType /\ save.pc = "written" /\ disk' = disk
    BY <1>0, <1>5 DEF AckSave, Idle
  <2>2. save'.pc # "written" /\ store'.revision = save.expected + 1
    BY <1>0, <1>5, <2>1 DEF AckSave, Idle, StoreType, SaveType
  <2> QED  BY <1>1, <1>2, <2>1, <2>2 DEF Heard, Known
<1>6. CASE WriteRename \/ \E n \in Name : Rename(n)
  <2>1. disk'.revision = disk.revision /\ store'.revision = store.revision /\ save' = save
    BY <1>0, <1>6 DEF WriteRename, Rename, saveVars, DiskType, StoreType
  <2> QED  BY <1>1, <1>2, <2>1 DEF Heard, Known
<1> QED  BY <1>3, <1>4, <1>5, <1>6

\* What is taken over leaves the store at the revision that was read, which is
\* that of storage unless a read is still to come.
LEMMA StoreHears ==
  ASSUME Recorded, Heard, Kept, read # NothingRead, StoreTakes(read), ~ToRead
  PROVE  store'.revision = disk.revision
<1>1. /\ store.revision \in Nat /\ disk.revision \in Nat /\ store.revision =< disk.revision
      /\ read.revision = disk.revision
  BY DEF Recorded, StoreType, DiskType, Kept, Current, Heard
<1> QED  BY <1>1, StoreReaches

\* What was read is applied, or read again.
LEMMA HeardByRead ==
  ASSUME Recorded, Heard, AskedOnce, Kept, GateSound,
         ReadStorage \/ FinishRefresh \/ FailRefresh \/ ApplyReconcile
  PROVE  Heard'
<1>0. save = Idle \/ save \in SaveType
  BY DEF Recorded
<1>1. CASE ReadStorage
  <2>1. /\ UNCHANGED <<disk, store, save, hold, holdQueue, reading, announced, reconciler>>
        /\ reading /\ read'.revision = disk.revision
    BY <1>1 DEF ReadStorage, gateVars, saveVars, syncVars
  <2>2. read = NothingRead
    BY <1>1 DEF ReadStorage
  <2>3. read' # NothingRead
    BY <1>1 DEF ReadStorage, NothingRead
  <2>4. Known' = Known /\ (Asked("reconcile")' = Asked("reconcile"))
    BY <2>1 DEF Known, Asked
  <2>5. ToRead => ToRead' \/ hold' = "reconcile"
    BY <2>1 DEF ToRead
  <2> QED  BY <2>1, <2>2, <2>3, <2>4, <2>5 DEF Heard
<1>2. ASSUME FinishRefresh \/ FailRefresh \/ ApplyReconcile
      PROVE  /\ reading /\ inFlight = {} /\ UNCHANGED <<disk, holdQueue, announced>>
             /\ hold' = NoHold /\ read' = NothingRead /\ NoHold # "reconcile"
             /\ save.pc # "written" /\ save'.pc # "written"
  <2>1. /\ reading /\ UNCHANGED <<disk, holdQueue, announced>>
        /\ hold' = NoHold /\ read' = NothingRead
    BY <1>2 DEF FinishRefresh, FailRefresh, ApplyReconcile, Release, ReconcilerStep, syncVars
  <2>2. inFlight = {}
    BY <2>1 DEF GateSound, HoldKeepsOut
  <2>3. save.pc # "written"
    BY <2>2 DEF Kept, Common
  <2>4. save'.pc # "written"
    <3>1. CASE SaveRejected
      BY <1>0, <3>1 DEF SaveRejected, SaveType, Idle
    <3> QED
      BY <1>2, <2>3, <3>1 DEF FinishRefresh, FailRefresh, ApplyReconcile, ReconcilerStep, saveVars
  <2> QED  BY <2>1, <2>2, <2>3, <2>4, NoHoldAssumption, CallersAssumption
<1>3. CASE FinishRefresh \/ FailRefresh
  <2>1. reconciler' = reconciler /\ hold # "reconcile"
    BY <1>3 DEF FinishRefresh, FailRefresh, syncVars
  <2>2. ToRead' = ToRead /\ (Asked("reconcile")' => Asked("reconcile"))
    BY <1>2, <1>3, <2>1 DEF ToRead, Asked
  <2>3. ToRead \/ store'.revision = disk.revision
    <3>1. CASE store' = store
      BY <1>2, <1>3, <2>1, <3>1 DEF Heard, Known
    <3>2. CASE read # NothingRead /\ StoreTakes(read)
      BY <3>2, StoreHears
    <3> QED  BY <1>3, <3>1, <3>2 DEF FinishRefresh, FailRefresh
  <2> QED  BY <1>2, <1>3, <2>1, <2>2, <2>3 DEF Heard, Known
<1>4. CASE ApplyReconcile
  <2>1. /\ hold = "reconcile" /\ read # NothingRead /\ StoreTakes(read)
        /\ reconciler'.pc = "idle"
        /\ reconciler'.pending \in {PendingAgain, reconciler.pending}
    BY <1>4 DEF ApplyReconcile
  <2>2. ~Asked("reconcile")'
    BY <1>2, <1>4, <2>1 DEF AskedOnce, Asked
  <2>3. ToRead => ToRead'
    <3>1. reconciler.pending # "none" => reconciler'.pending # "none"
      BY <2>1, MergedIsSome DEF PendingAgain
    <3> QED  BY <1>2, <1>4, <2>1, <3>1 DEF ToRead
  <2>4. ToRead \/ store'.revision = disk.revision
    BY <2>1, StoreHears
  <2> QED  BY <1>2, <1>4, <2>1, <2>2, <2>3, <2>4 DEF Heard, Known
<1> QED  BY <1>1, <1>3, <1>4

\* Every revision the renderer does not know it is told of, and reads.
LEMMA HeardHolds == Spec => []Heard
<1>1. Init => Heard
  BY NoHoldAssumption, CallersAssumption
  DEF Init, GateInit, Heard, ToRead, Known, Asked, Idle
<1>2. Recorded /\ Kept /\ GateSound /\ GateTypeOK /\ AskedOnce /\ Heard /\ [Next]_vars => Heard'
  <2> SUFFICES ASSUME Recorded, Kept, GateSound, GateTypeOK, AskedOnce, Heard, [Next]_vars
               PROVE  Heard'
    OBVIOUS
  <2>1. CASE UNCHANGED <<disk, store, save, read, hold, holdQueue, reading, syncVars>>
    BY <2>1 DEF Heard, ToRead, Known, Asked, syncVars
  <2> QED
    BY <2>1, HearingSteps, HeardFromWorker, HeardByReconciler, HeardInGate, HeardBySave,
       HeardByRead
<1> QED
  BY <1>1, <1>2, RecordedHolds, KeptHolds, GateSoundInEditor, ImplementsGate, GateTypeCorrect,
     AskedOnceHolds, PTL DEF Spec

\* With nothing under way the renderer knows the revision of storage, so its next
\* save is not refused for a change nobody will announce again (reconcile.ts,
\* commit.ts).
THEOREM CaughtUpHolds == Spec => []CaughtUp
<1>1. Heard => CaughtUp
  BY DEF Heard, CaughtUp, Quiet, ToRead, Known, Asked, Idle
<1> QED  BY <1>1, HeardHolds, PTL
=============================================================================
