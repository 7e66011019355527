------------------------- MODULE EditorPersistence -------------------------
(***************************************************************************)
(* How one note's text and the name of one folder travel between the       *)
(* editor, the renderer store and storage, while the sync worker writes    *)
(* remote changes into storage and announces them afterwards.              *)
(*                                                                         *)
(*   editor      note-editor.tsx: the cached note, its base, the debounced *)
(*               save, adoptRecord; save-sequencer.ts, save-retry.ts       *)
(*   committer   commit.ts: optimistic apply, commit, refresh on rejection *)
(*   reconciler  reconcile.ts                                              *)
(*   gate        commit-gate.ts, module CommitGate                         *)
(*                                                                         *)
(* A text is the set of edits it holds: every edit is made in a block of   *)
(* its own.  A step is what runs between two awaits.                       *)
(***************************************************************************)
EXTENDS CommitGate, Naturals, FiniteSets

CONSTANTS Typed,          \* edits made in this editor
          Remote,         \* edits other devices make
          Name,           \* names of the folder; renames of this user and others
          FirstName,
          Retries,        \* SAVE_CONFLICT_RETRIES
          Delays,         \* Len(retryDelaysMs) of the reconciler
          MaxFaults       \* calls into storage that fail without effect; a failing
                          \* reconcile may go on failing

ASSUME CallersAssumption ==
    /\ Commit = {"save", "rename"}
    /\ Holder = {"save", "rename", "reconcile"}
ASSUME EditsAssumption ==
    /\ Typed \cap Remote = {} /\ Name \cap (Typed \cup Remote) = {}
    /\ FirstName \notin Name
ASSUME LimitsAssumption == {Retries, Delays, MaxFaults} \subseteq Nat

VARIABLES
    disk,        \* storage: text and revision of the note, name of the folder
    store,       \* the same as the renderer shows it; staged: the record's
                 \* document is the one the save in progress put there
    read,        \* what the current holder of the gate read, or NothingRead
    moved,       \* an optimistic apply came since that holder started to run
    entry,       \* the editor's cached note
    onScreen,    \* the note is the active one
    timer,       \* the debounce timer of the save runs
    composing,   \* an input method composes text
    queued,      \* saves behind the one that runs
    save,        \* the save that runs
    failure,     \* the sequencer recorded that the note is not durable
    rename,      \* the rename of the folder in progress
    announced,   \* the worker's change the renderer has not heard of
    reconciler,
    made,        \* edits and names used up
    faults,
    landed       \* edits storage ever held

editorVars == <<entry, onScreen, timer, composing>>
saveVars == <<queued, save, failure>>
syncVars == <<announced, reconciler>>
boundVars == <<made, faults, landed>>
vars == <<gateVars, disk, store, read, moved, editorVars, saveVars, rename, syncVars,
          boundVars>>

Edit == Typed \cup Remote
Change == {"none", "document", "structure"}
NothingRead == [kind |-> "nothing"]
Idle == [pc |-> "idle"]

\* mergeWorkspaceChanges: structure stands for a full refresh
MergeChanges(a, b) ==
    IF "structure" \in {a, b} THEN "structure"
    ELSE IF a = "none" THEN b ELSE a

Init ==
    /\ GateInit
    /\ disk = [text |-> {}, revision |-> 1, name |-> FirstName]
    /\ store = [text |-> {}, revision |-> 1, name |-> FirstName, staged |-> FALSE]
    /\ read = NothingRead
    /\ moved = FALSE
    /\ entry = [cached |-> TRUE, text |-> {}, base |-> {}, seen |-> TRUE,
                dirty |-> FALSE]
    /\ onScreen = TRUE
    /\ timer = FALSE
    /\ composing = FALSE
    /\ queued = 0
    /\ save = Idle
    /\ failure = FALSE
    /\ rename = Idle
    /\ announced = "none"
    /\ reconciler = [pc |-> "idle", pending |-> "none", change |-> "none",
                     failures |-> 0, exhausted |-> FALSE]
    /\ made = {}
    /\ faults = 0
    /\ landed = {}
-----------------------------------------------------------------------------
(* The store takes a record read from storage, and the editor follows.     *)

\* Variant: what the editor holds replaces the remote change.
LocalText(base, current, incoming) == current

\* mergeDocuments: the editor's own changes since the base win
Merged(base, current, incoming) ==
    (current \ base) \cup (incoming \ (base \ current))

Uncached == [cached |-> FALSE, text |-> {}, base |-> {}, seen |-> TRUE,
             dirty |-> FALSE]
Showing(text) == [cached |-> TRUE, text |-> text, base |-> text, seen |-> TRUE,
                  dirty |-> FALSE]

\* adoptRecord with a record the entry did not produce, and nothing composing
TakeOver(incoming) ==
    \/ /\ entry.dirty
       /\ entry' = [entry EXCEPT !.text = Merged(entry.base, @, incoming),
                                 !.base = incoming, !.seen = TRUE]
       /\ timer' = (timer \/ onScreen)
    \/ /\ ~entry.dirty
       /\ entry' = IF onScreen \/ entry.text = incoming THEN Showing(incoming)
                   ELSE Uncached
       /\ UNCHANGED timer

AdoptRecord(incoming) ==
    CASE ~entry.cached -> UNCHANGED <<entry, timer>>
      [] entry.cached /\ onScreen /\ composing ->
           entry' = [entry EXCEPT !.seen = FALSE] /\ UNCHANGED timer
      [] OTHER -> TakeOver(incoming)

\* retainedDocument: the store never goes back to an older revision
Retained(record) ==
    \/ store.revision > record.revision
    \/ store.revision = record.revision /\ store.text = record.text

\* applyRemoteDocuments for a document, replaceFromSnapshot for the structure
StoreTakes(record) ==
    LET kept == Retained(record) IN
    /\ store' = [text |-> IF kept THEN store.text ELSE record.text,
                 revision |-> IF kept THEN store.revision ELSE record.revision,
                 name |-> IF record.kind = "structure" THEN record.name ELSE store.name,
                 staged |-> store.staged /\ kept]
    /\ IF kept THEN UNCHANGED <<entry, timer>> ELSE AdoptRecord(record.text)
-----------------------------------------------------------------------------
(* The editor                                                              *)

EditorStep ==
    UNCHANGED <<gateVars, disk, store, read, moved, save, failure, rename, syncVars,
                faults, landed>>

\* Edits are made in a fixed order, which is no restriction
Type(e) ==
    /\ Typed \ made # {} /\ e = CHOOSE t \in Typed \ made : TRUE
    /\ onScreen /\ entry.cached
    /\ made' = made \cup {e}
    /\ entry' = [entry EXCEPT !.text = @ \cup {e}, !.dirty = TRUE]
    /\ timer' = TRUE
    /\ EditorStep /\ UNCHANGED <<onScreen, composing, queued>>

\* The debounce ends, or flushPendingSave and :write do not wait for it
SaveNow ==
    /\ timer
    /\ timer' = FALSE
    /\ queued' = queued + 1
    /\ EditorStep /\ UNCHANGED <<entry, onScreen, composing, made>>

\* The banner of the notes that are not durable
RetrySave ==
    /\ failure
    /\ queued = 0
    /\ queued' = 1
    /\ EditorStep /\ UNCHANGED <<editorVars, made>>

\* Variant: the debounced save is dropped instead.
UnflushedQueue == queued

\* flushPendingSave: the debounced save does not wait for its timer
FlushedQueue == IF timer THEN queued + 1 ELSE queued

\* Another note becomes the active one; the pending save is flushed first
SwitchAway ==
    /\ onScreen
    /\ ~composing
    /\ onScreen' = FALSE
    /\ timer' = FALSE
    /\ queued' = FlushedQueue
    /\ EditorStep /\ UNCHANGED <<entry, composing, made>>

SwitchBack ==
    /\ ~onScreen
    /\ onScreen' = TRUE
    /\ entry' = IF entry.cached THEN entry ELSE Showing(store.text)
    /\ EditorStep /\ UNCHANGED <<timer, composing, queued, made>>

\* pruneEditorWorkingSet: dirty notes and the active one are protected
Evict ==
    /\ entry.cached
    /\ ~entry.dirty /\ ~onScreen
    /\ entry' = Uncached
    /\ EditorStep /\ UNCHANGED <<onScreen, timer, composing, queued, made>>

StartComposing ==
    /\ onScreen /\ ~composing
    /\ composing' = TRUE
    /\ EditorStep /\ UNCHANGED <<entry, onScreen, timer, queued, made>>

\* A record that came meanwhile is adopted now, unless a save staged since
EndComposing ==
    /\ composing
    /\ composing' = FALSE
    /\ IF ~entry.seen THEN TakeOver(store.text)
       ELSE UNCHANGED <<entry, timer>>
    /\ EditorStep /\ UNCHANGED <<onScreen, queued, made>>
-----------------------------------------------------------------------------
(* A save: SaveSequencer runs one at a time, saveWithConflictRetry repeats *)
(* it, persistOnce stages it and commitOperations commits it.              *)

\* Runs the next save or the next attempt up to the gate; a note that left the
\* cache has nothing to save
Persist ==
    \/ /\ save.pc = "idle" /\ queued > 0
       /\ ~entry.cached
       /\ queued' = queued - 1
       /\ failure' = FALSE
       /\ UNCHANGED <<gateVars, disk, store, read, moved, editorVars, save, rename,
                      syncVars, boundVars>>
    \/ /\ entry.cached
       /\ \/ save.pc = "idle" /\ queued > 0 /\ queued' = queued - 1
          \/ save.pc = "again" /\ UNCHANGED queued
       /\ save' = [pc |-> "commit", text |-> entry.text, expected |-> store.revision,
                   attempt |-> IF save.pc = "again" THEN save.attempt + 1 ELSE 0]
       /\ store' = [store EXCEPT !.text = entry.text, !.staged = TRUE]
       /\ moved' = TRUE
       /\ entry' = [entry EXCEPT !.seen = TRUE]
       /\ EnterCommit("save")
       /\ UNCHANGED <<disk, read, onScreen, timer, composing, failure, rename, syncVars,
                      boundVars>>

\* The backend's answer to save_document; a call may fail without effect
WriteSave ==
    /\ save.pc = "commit" /\ "save" \in inFlight
    /\ \/ /\ save.expected = disk.revision
          /\ disk' = [disk EXCEPT !.text = save.text, !.revision = @ + 1]
          /\ landed' = landed \cup save.text
          /\ save' = [save EXCEPT !.pc = "written"]
          /\ UNCHANGED faults
       \/ /\ save.expected # disk.revision
          /\ save' = [save EXCEPT !.pc = "conflict"]
          /\ UNCHANGED <<disk, landed, faults>>
       \/ /\ faults < MaxFaults
          /\ faults' = faults + 1
          /\ save' = [save EXCEPT !.pc = "failed"]
          /\ UNCHANGED <<disk, landed>>
    /\ UNCHANGED <<gateVars, store, read, moved, editorVars, queued, failure, rename,
                   syncVars, made>>

\* Variant: the text on screen is not compared.
StillStaged == store.staged

SavedAsShown == store.staged /\ entry.text = save.text

\* applyAck, and the note is clean when nothing changed since it was staged
AckSave ==
    /\ save.pc = "written"
    /\ LeaveCommit("save")
    /\ store' = [store EXCEPT !.revision = save.expected + 1]
    /\ entry' = IF entry.cached
                THEN [entry EXCEPT !.base = save.text,
                                   !.dirty = @ /\ ~SavedAsShown]
                ELSE entry
    /\ failure' = FALSE
    /\ save' = Idle
    /\ UNCHANGED <<disk, read, moved, onScreen, timer, composing, queued, rename, syncVars,
                   boundVars>>

\* A rejected commit asks for the gate to refresh the store
RejectSave ==
    /\ save.pc \in {"conflict", "failed"}
    /\ "save" \in inFlight
    /\ LeaveCommit("save")
    /\ UNCHANGED <<disk, store, read, moved, editorVars, saveVars, rename, syncVars, boundVars>>

AskForSave ==
    /\ save.pc \in {"conflict", "failed"}
    /\ "save" \notin inFlight
    /\ HoldForReconcile("save")
    /\ UNCHANGED <<disk, store, read, moved, editorVars, saveVars, rename, syncVars, boundVars>>

\* After the refresh: another attempt when a newer record came, or a failure
SaveRejected ==
    LET retries == save.pc = "conflict" /\ save.attempt < Retries
                   /\ store'.revision # save.expected
    IN  /\ save' = IF retries THEN [save EXCEPT !.pc = "again"] ELSE Idle
        /\ failure' = (failure \/ ~retries)
-----------------------------------------------------------------------------
(* A rename of the folder: an operation that carries no revision           *)

Rename(n) ==
    /\ rename.pc = "idle"
    /\ n \notin made
    /\ made' = made \cup {n}
    /\ rename' = [pc |-> "commit", name |-> n]
    /\ store' = [store EXCEPT !.name = n]
    /\ moved' = TRUE
    /\ EnterCommit("rename")
    /\ UNCHANGED <<disk, read, editorVars, saveVars, syncVars, faults, landed>>

WriteRename ==
    /\ rename.pc = "commit" /\ "rename" \in inFlight
    /\ \/ /\ disk' = [disk EXCEPT !.name = rename.name]
          /\ rename' = [rename EXCEPT !.pc = "written"]
          /\ UNCHANGED faults
       \/ /\ faults < MaxFaults
          /\ faults' = faults + 1
          /\ rename' = [rename EXCEPT !.pc = "failed"]
          /\ UNCHANGED disk
    /\ UNCHANGED <<gateVars, store, read, moved, editorVars, saveVars, syncVars, made, landed>>

AckRename ==
    /\ rename.pc = "written"
    /\ LeaveCommit("rename")
    /\ rename' = Idle
    /\ UNCHANGED <<disk, store, read, moved, editorVars, saveVars, syncVars, boundVars>>

RejectRename ==
    /\ rename.pc = "failed"
    /\ IF "rename" \in inFlight THEN LeaveCommit("rename") ELSE HoldForReconcile("rename")
    /\ UNCHANGED <<disk, store, read, moved, editorVars, saveVars, rename, syncVars, boundVars>>
-----------------------------------------------------------------------------
(* The gate's turns.  The holder takes `sequenceBefore` when it starts to  *)
(* run, so an apply made while it still waits for the commits in flight is *)
(* not noticed.                                                            *)

GateTurn ==
    /\ \/ ResumeCommit("save") \/ ResumeCommit("rename")
       \/ Acquire
       \/ Drained
    /\ moved' = (moved /\ (reading \/ ~reading'))
    /\ UNCHANGED <<disk, store, read, editorVars, saveVars, rename, syncVars, boundVars>>

\* bootstrap reads the whole workspace, readDelta the changed notes
ReadKinds ==
    CASE hold = "reconcile" -> {reconciler.change}
      [] hold = "save" -> IF save.pc = "conflict" THEN {"document", "structure"}
                          ELSE {"structure"}
      [] OTHER -> {"structure"}

ReadStorage ==
    /\ reading /\ read = NothingRead
    /\ \E kind \in ReadKinds :
          read' = [kind |-> kind, text |-> disk.text, revision |-> disk.revision,
                   name |-> disk.name]
    /\ UNCHANGED <<gateVars, disk, store, moved, editorVars, saveVars, rename, syncVars,
                   boundVars>>

\* The refresh of a rejected commit; one that an optimistic apply overlapped
\* is thrown away and repeated
FinishRefresh ==
    /\ hold \in {"save", "rename"}
    /\ read # NothingRead
    /\ read' = NothingRead
    /\ Release(hold)
    /\ \/ /\ moved
          /\ UNCHANGED <<store, entry, timer, save, failure, rename>>
       \/ /\ ~moved
          /\ StoreTakes(read)
          /\ IF hold = "save" THEN SaveRejected /\ UNCHANGED rename
             ELSE rename' = Idle /\ UNCHANGED <<save, failure>>
    /\ UNCHANGED <<disk, moved, onScreen, composing, queued, syncVars, boundVars>>

\* The read fails: the refresh is given up, the commit's error surfaces
FailRefresh ==
    /\ hold \in {"save", "rename"}
    /\ reading /\ read = NothingRead
    /\ faults < MaxFaults
    /\ faults' = faults + 1
    /\ Release(hold)
    /\ UNCHANGED store
    /\ IF hold = "save" THEN SaveRejected /\ UNCHANGED rename
       ELSE rename' = Idle /\ UNCHANGED <<save, failure>>
    /\ UNCHANGED <<disk, read, moved, editorVars, queued, syncVars, made, landed>>
-----------------------------------------------------------------------------
(* The reconciler                                                          *)

ReconcilerStep ==
    UNCHANGED <<disk, moved, onScreen, composing, saveVars, rename, made, landed>>

\* report, once the worker's event arrives
Report ==
    /\ announced # "none"
    /\ announced' = "none"
    /\ reconciler' = [reconciler EXCEPT
           !.pending = MergeChanges(@, announced), !.exhausted = FALSE]
    /\ ReconcilerStep /\ UNCHANGED <<gateVars, store, read, entry, timer, faults>>

\* drain takes what is pending and asks for the gate
Reconcile ==
    /\ reconciler.pc = "idle" /\ ~reconciler.exhausted
    /\ reconciler.pending # "none"
    /\ HoldForReconcile("reconcile")
    /\ reconciler' = [reconciler EXCEPT !.pc = "held", !.change = reconciler.pending,
                                        !.pending = "none"]
    /\ ReconcilerStep /\ UNCHANGED <<store, read, entry, timer, announced, faults>>

\* Variant: the change that could not be read is forgotten.
PendingOnly == reconciler.pending

\* What a run that failed, or was overlapped by an apply, leaves to do
PendingAgain == MergeChanges(reconciler.pending, reconciler.change)

\* Variant: one delay too many.
SpentLate == reconciler.failures > Delays

Spent == reconciler.failures >= Delays

\* What was read is applied whatever happened meanwhile; an apply that
\* overlapped the read makes it run once more
ApplyReconcile ==
    /\ hold = "reconcile"
    /\ read # NothingRead
    /\ StoreTakes(read)
    /\ read' = NothingRead
    /\ Release("reconcile")
    /\ reconciler' = [pc |-> "idle", change |-> "none", failures |-> 0,
          exhausted |-> reconciler.exhausted,
          pending |-> IF moved THEN PendingAgain ELSE reconciler.pending]
    /\ ReconcilerStep /\ UNCHANGED <<announced, faults>>

\* One fault may last for every attempt there is
FailReconcile ==
    /\ hold = "reconcile"
    /\ reading /\ read = NothingRead
    /\ \/ reconciler.failures = 0 /\ faults < MaxFaults /\ faults' = faults + 1
       \/ reconciler.failures > 0 /\ UNCHANGED faults
    /\ Release("reconcile")
    /\ reconciler' = [pc |-> IF Spent THEN "idle" ELSE "delay", change |-> "none",
          pending |-> PendingAgain,
          failures |-> IF Spent THEN 0 ELSE reconciler.failures + 1,
          exhausted |-> Spent \/ reconciler.exhausted]
    /\ ReconcilerStep /\ UNCHANGED <<store, read, entry, timer, announced>>

DelayOver ==
    /\ reconciler.pc = "delay"
    /\ reconciler' = [reconciler EXCEPT !.pc = "idle"]
    /\ ReconcilerStep /\ UNCHANGED <<gateVars, store, read, entry, timer, announced, faults>>

\* The user asks for a retry of a reconcile that was given up
RetryReconcile ==
    /\ reconciler.exhausted
    /\ reconciler' = [reconciler EXCEPT !.exhausted = FALSE]
    /\ ReconcilerStep /\ UNCHANGED <<gateVars, store, read, entry, timer, announced, faults>>
-----------------------------------------------------------------------------
(* The sync worker writes what other devices did, then announces it.       *)

WorkerStep ==
    UNCHANGED <<gateVars, store, read, moved, editorVars, saveVars, rename, reconciler, faults>>

RemoteWrite(e) ==
    /\ e \notin made
    /\ made' = made \cup {e}
    /\ \E gone \in SUBSET (disk.text \cap Typed) :
          disk' = [disk EXCEPT !.text = (@ \ gone) \cup {e}, !.revision = @ + 1]
    /\ landed' = landed \cup {e}
    /\ announced' = MergeChanges(announced, "document")
    /\ WorkerStep

RemoteRename(n) ==
    /\ n \notin made
    /\ made' = made \cup {n}
    /\ disk' = [disk EXCEPT !.name = n]
    /\ announced' = "structure"
    /\ WorkerStep /\ UNCHANGED landed
-----------------------------------------------------------------------------
System ==
    \/ Persist \/ WriteSave \/ AckSave \/ RejectSave \/ AskForSave
    \/ WriteRename \/ AckRename \/ RejectRename
    \/ GateTurn \/ ReadStorage \/ FinishRefresh \/ FailRefresh
    \/ Report \/ Reconcile \/ ApplyReconcile \/ FailReconcile \/ DelayOver

User ==
    \/ \E e \in Typed : Type(e)
    \/ RetrySave \/ RetryReconcile \/ SwitchAway \/ SwitchBack \/ Evict
    \/ \E n \in Name : Rename(n)

Worker ==
    \/ \E e \in Remote : RemoteWrite(e)
    \/ \E n \in Name : RemoteRename(n)

Next == System \/ SaveNow \/ User \/ Worker

Spec == Init /\ [][Next]_vars
\* Promises settle, calls are answered and the debounce timer runs out
FairSpec == Spec /\ WF_vars(System) /\ WF_vars(SaveNow)
\* The same with an input method that composes text
ComposingSpec == Init /\ [][Next \/ StartComposing \/ EndComposing]_vars
-----------------------------------------------------------------------------
TypeOK ==
    /\ GateTypeOK
    /\ disk \in [text : SUBSET Edit, revision : Nat, name : Name \cup {FirstName}]
    /\ store \in [text : SUBSET Edit, revision : Nat, name : Name \cup {FirstName},
                  staged : BOOLEAN]
    /\ read = NothingRead \/ read \in [kind : Change \ {"none"}, text : SUBSET Edit,
          revision : Nat, name : Name \cup {FirstName}]
    /\ entry \in [cached : BOOLEAN, text : SUBSET Edit, base : SUBSET Edit,
                  seen : BOOLEAN, dirty : BOOLEAN]
    /\ {moved, onScreen, timer, composing, failure} \subseteq BOOLEAN
    /\ queued \in Nat
    /\ save = Idle \/ save \in [pc : {"commit", "written", "conflict", "failed", "again"},
          text : SUBSET Edit, expected : Nat, attempt : 0..Retries]
    /\ rename = Idle \/ rename \in [pc : {"commit", "written", "failed"}, name : Name]
    /\ announced \in Change
    /\ reconciler \in [pc : {"idle", "held", "delay"}, pending : Change, change : Change,
                       failures : 0..Delays, exhausted : BOOLEAN]
    /\ made \subseteq Edit \cup Name
    /\ faults \in 0..MaxFaults
    /\ landed \subseteq Edit

Unsaved == (made \cap Typed) \ landed

\* What was typed and never reached storage is still in the editor, which may
\* neither evict the note nor replace its text by what storage holds.
NothingTypedIsLost ==
    Unsaved # {} => entry.cached /\ entry.dirty /\ Unsaved \subseteq entry.text

\* What was typed and never reached storage is on its way there, or the user
\* is told it is not: no switch, no adopted record and no failed attempt leaves
\* it in the editor alone.
UnsavedIsScheduled ==
    \/ Unsaved = {} \/ timer \/ queued > 0 \/ failure
    \/ save # Idle /\ Unsaved \subseteq save.text

\* A save never overwrites what another device wrote: it goes through only with
\* a text the remote change was merged into.
RemoteTextKept ==
    [][(save.pc = "commit" /\ save'.pc = "written")
         => disk.text \cap Remote \subseteq disk'.text]_vars

\* Nothing is on the way between the editor, the store and storage.
Quiet ==
    /\ announced = "none"
    /\ reconciler.pc = "idle" /\ reconciler.pending = "none"
    /\ save = Idle /\ queued = 0 /\ ~timer
    /\ rename = Idle

\* When everything settled the store stands at the revision of storage, so the
\* next save is not refused for a change nobody will announce again.
CaughtUp == Quiet => store.revision = disk.revision

\* When everything settled without a failure the renderer shows what storage
\* holds: an optimistic change is never overwritten by a read that missed it.
StoreFollowsStorage ==
    Quiet /\ ~failure => store.text = disk.text /\ store.name = disk.name

\* Whatever is typed reaches storage, or the user is told that it did not.
EveryEditSettles == (Unsaved # {}) ~> (Unsaved = {} \/ failure)
=============================================================================
