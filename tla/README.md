# Skriuw: a verification project for replication

Skriuw is a local-first workspace for notes. Every device holds the whole
workspace in SQLite, works on it without a network, and replicates it through a
small service that does one thing: it gives the operations of all devices one
order. This directory holds TLA+ models of that replication, the TLC
configurations that check them on small instances, and TLAPS proofs of what the
parts promise for any number of devices, notes, threads, requests and faults. It
also covers the places where replication meets the rest of the application: the
editor and store of the renderer, the sync driver of a browser tab, and the
restores and imports of the desktop, which replace the database beneath all of it.

- [The system](#the-system): parts, state, interactions, what is hard
- [The models](#the-models): which module stands for which code
- [The runs](#the-runs): what is checked, with which bounds and fairness
- [The proofs](#the-proofs)
- [Where the code and its documents disagree](#where-the-code-and-its-documents-disagree)
- [What is not modelled](#what-is-not-modelled)
- [Plan](#plan)

Paths below are relative to `src/`. `PROJECT.json` maps every definition to the
lines it stands for, and lists the hazards with the properties aimed at them.

## The system

```
 shell (Tauri, browser) ──commit──► storage runtime ──► SQLite: workspace, outbox
        │ connect, pause, resume,           ▲             ▲
        │ restore, went offline             │             │ claim, acknowledge,
        ▼                                   │             │ apply, park, rebuild
   sync runtime ──starts, stops──► coordinator ──runs──► cycle ──HTTP──► service
   (runtime.rs)                   (coordinator.rs)      (cycle.rs)     (Durable Object
                                                                        + object store)
```

### Parts that are modelled

**Sync queue and remote apply** (`crates/skriuw-sqlite/src/sync.rs`). *State:*
the outbox with client sequences, attempts and claims; blocked operations;
received server sequences; the head of every document; tombstones; the cursor
(`observed_server_sequence`). *Operations:* enqueue with coalescing, claim,
release, acknowledge, park, retry, discard, apply pulled operations, rebuild
from a checkpoint. *Hard:* three ways an operation can come back to its maker
(acknowledgement, echo, duplicate), in any order with other devices' writes and
with the user typing. *Correct when:* the queue and the log agree, nothing is
lost or sent in two versions, and devices that read the same log show the same
workspace.

**Cycle and checkpoints** (`crates/skriuw-sync/src/cycle.rs`, `checkpoint.rs`).
*State:* the cycle's position, the fetched or exported checkpoint, the tracker
of consecutive rejections. *Operations:* rebuild, requeue, claim, push, park,
acknowledge, pull, publish. *Hard:* every step is a transaction of its own;
between any two the process may die, the user may type, a request may be lost
or arrive after its sender gave up. *Correct when:* a published checkpoint is
what the log says, and every write reaches every device once trouble ends.

**Coordinator** (`crates/skriuw-sync/src/coordinator.rs`). *State:* flags under
a mutex and a condition variable, the cancellation flags, the credential, a
deadline. *Operations:* commit, wake, refresh, offline notice, pause, resume,
shut down; the worker snapshots the flags, leaves the lock, runs a cycle, writes
the outcome back. *Hard:* every snapshot is stale when it is used. *Correct
when:* no wake-up is lost, no cycle starts in a dead session, shutdown ends.

**Runtime** (`crates/skriuw-sync/src/runtime.rs`). *State:* the connect gate, the
maintenance read-write lock, the active coordinator, the stop epoch.
*Operations:* connect, pause, suspend for a restore or import, open the
workspace. *Hard:* four locks and two joins. *Correct when:* one worker per
database, nobody in it during a restore, every call returns.

**Service** (`apps/sync/src/workspace-sync-object.ts`, `content-store.ts`,
`public-api.ts`). *State:* the log, an index of accepted operations that
survives compaction, the cursors of devices, checkpoints, content references,
the encryption marker; chunks in an object store. *Operations:* push,
acknowledge, claim encryption, publish a checkpoint, compact and sweep, upload.
*Hard:* requests interleave wherever the object awaits the store. *Correct
when:* every device can be brought up to date from log or checkpoint, a retried
operation is recorded once, referenced content is stored.

**Reconciliation** (`crates/skriuw-domain/src/reconcile.rs`, `sync_policy/`).
Pure rules: what a pulled operation does to the workspace, which operations
coalesce, when a row parks. *Correct when:* the rules make devices converge.

**The tree** (`crates/skriuw-sqlite/src/operations.rs`). *State:* parent, title
and trash marker of every node, tombstones. *Operations:* create, rename, move,
trash, restore, purge, each made locally or replayed from another device on top
of a different tree. *Correct when:* the nodes stay a tree and work on
different parts of it commutes.

**Renderer: editor, store, reconciler** (`apps/workspace/src/features/editor/note-editor.tsx`,
`features/sync/reconcile.ts`, `features/store/commit.ts`, `packages/renderer-core/src/store/`).
*State:* the cached note with the base it was read at, the debounce timer, the
save in flight, what the store shows, the gate between commits and reconciles.
*Operations:* type, save, merge after a conflict, retry, report, switch the note,
evict, rename, announce a remote change, reconcile. *Hard:* the worker changes
storage beneath the renderer; every read is stale after the next await. *Correct
when:* typed text reaches storage or the user is told, a save never overwrites
what other devices wrote, and the store catches up with storage.

**Browser sync driver** (`apps/workspace/src/platform/browser/sync.ts`,
`crates/skriuw-sqlite-wasm`). *State:* the driver's flags and timer, the
attempts to establish a session, the mailbox of the storage worker, the session
in it, the persisted credential. *Operations:* resume, reestablish, connect,
cycle, wake, pause, sign out, reload. *Hard:* three callers establish sessions
and every one awaits a worker that may die; sign-out overtakes all of them.
*Correct when:* a running driver goes on cycling, a stopped one leaves no session,
nobody is disconnected without being told.

**Storage runtime, database lifecycle, desktop shell** (`crates/skriuw-runtime`,
`crates/skriuw-lifecycle`, `apps/workspace/src-tauri/src/commands/maintenance.rs`,
`maintenance.rs`). *State:* the runtime's queue and sender, which runtime callers
are handed, who has the database open, the running operation with its cancel flag,
the database file, the candidate, the rollback files and safety backups.
*Operations:* save, drain, back up, cancel, restore a backup (a gated swap of the
file, undone when a stage fails), import an archive (a copy first, then one
transaction). *Hard:* six parties open the file, three locks and two joins keep
them out of it, and every rename, open and sync may fail or be the last thing
the process does. *Correct when:* the file is renamed with nobody in it, no
answered save is lost, what a command reports is so, every call returns.

### Parts that are not

Version history, tab handover and workspace
slots of the browser, device links and hydration, the transport, note locks, and
the rest of the user interface. See [What is not modelled](#what-is-not-modelled)
and the plan.

## The models

| module | stands for | actions |
|---|---|---|
| `DocumentOrder` | the promise about note bodies: no worker, no network | save, coalesce, sequence, acknowledge, pull a duplicate, an echo, a remote write, rebuild |
| `SyncReplica` | `sync.rs` + `cycle.rs` + `checkpoint.rs` against the service | each worker step, each user step, loss, crash, storage failure, late request, compaction |
| `SyncProgress` | `SyncReplica` with an end of trouble | the same, and `CalmDown` |
| `SyncCoordinator` | `coordinator.rs` | each signal in its two halves (set the flag, notify), each worker step |
| `SyncRuntime` | `runtime.rs` of sync | each step of a call between two locks |
| `WorkspaceMaintenance` | the desktop's maintenance commands, `skriuw-lifecycle` and `skriuw-runtime`, around `SyncRuntime` | each step of a restore or import between two effects, each with its failures; saves and their batches, backups, cancels, the AI history |
| `WorkspaceSyncObject` | the durable object | each transaction, and each request step around an await |
| `NodeReplica` | `operations.rs` + `reconcile.rs` for nodes | each tree operation, sequence, acknowledge, the three pulls |
| `CommitGate` | `commit-gate.ts` | enter and leave as a commit, ask, wait, read and release as a reconcile |
| `EditorPersistence` | editor, committer and reconciler over that gate, with the sync worker beside them | each stretch between two awaits of a save, a rename and a reconcile; typing, switching, composing; remote writes; failing calls |
| `BrowserSync` | `sync.ts` of the browser with its storage worker | each call of the page, each request the worker serves with the handler of its reply; revocation, death of the worker, reload |
| `*_proofs` | theorems about `DocumentOrder`, `SyncReplica`, `SyncCoordinator`, `SyncRuntime` with `WorkspaceMaintenance`, `WorkspaceSyncObject`, `NodeReplica`, `EditorPersistence` with its `CommitGate`, `BrowserSync` | |

`MC*` modules only name instances: symmetries, definitions for constants. A
configuration that needs neither names the module itself.

**How they compose.** `DocumentOrder` is the abstract specification.
`SyncReplica` implements it: `ImplementsOrder` is `DocumentOrder!Spec` under a
refinement mapping in which a queued row has a sequence as soon as the service
has accepted it, whether or not its device knows. `SyncProgress` extends
`SyncReplica` with the time after which no more requests fail.
`WorkspaceSyncObject` refines the service part that `SyncReplica` keeps coarse
(there push, publish and compact are single steps). `SyncCoordinator` is what
decides that a `SyncReplica` cycle runs at all, and `SyncRuntime` that a
`SyncCoordinator` exists. These last three relations are by construction, not by
a checked refinement. `EditorPersistence` extends `CommitGate` and drives it with
the callers that really use it; that it only takes steps of the gate is a theorem
(`ImplementsGate`), so what is proved of the gate for any callers holds in it.
`WorkspaceMaintenance` extends `SyncRuntime`: what was one step there, the stay of
a maintainer inside its suspension, is the whole of a restore or import here, and
every step of sync is taken with what it does to the files. `ImplementsRuntime`
is the theorem that sync keeps to its own specification in this composition.

**How state corresponds.** A device's tables become functions of the device
(`outbox`, `blocked`, `received`, `heads`, `cursor`); a claim is the length of
the claimed prefix, because rows are claimed from the head; `attempts`
saturates at two because the code only asks whether there was more than one.
A body, a title, a digest and a key are model values. Retry times, leases and
poll intervals are nondeterministic: whatever is not due now is a step not taken.
The comments of each module name its own abstractions.

**`DocumentOrder`'s rules** are those of `reconcile_document_body`: an equal body
changes nothing; a local write without a sequence wins over what is pulled;
otherwise the greatest incorporated sequence wins. The received sequences of a
device are a prefix (the cursor) and its own acknowledged writes above it.

**`SyncReplica`'s worker** moves `idle → push → claimed → accepted → pull →
settled → exported`, or to `fetch → fetched → rebuilt` when the service answers
that the log was compacted past the cursor. Everything the code does between two
awaits is one step, and after each step other actors move.

**`EditorPersistence`'s texts** are sets of edits: every edit is made in a block
of its own, so a merge that keeps both sides is a union, and an overwritten edit
is one that is missing. Edits are typed in a fixed order. Storage accepts a save
only at the revision it was made from; the worker of the device may write between
any two steps and announces what it wrote later. A fault may last for every
attempt of a call or pass after one.

**`BrowserSync`'s mailbox** holds at most one request per caller. The worker serves
one request at a time; serving and the handler of the reply are one step.

**`WorkspaceMaintenance`'s files** are the sets of saves they hold; 0 stands for
what was there before, `Archived` for an imported workspace, `None` for no file,
and the empty set for the database that `SqliteWorkspace::open` creates where none
is. A kept file bears the time of its operation in its name (`stamp`). `open` lists
the connections to the canonical path; a connection means -wal and -shm files
beside it. Nothing here is reset by the end of the process except who is inside, so
a property of files in every state is a property of every crash; what the next
start does with the files is not modelled.

**`NodeReplica`** has no cycle: sequencing, acknowledging and pulling happen in
any order `SyncReplica` shows possible. `scope` is carried by an operation for
the properties only; it says which part of the tree the operation was about
where it was made.

## The runs

`tlc -workers 2 -config X.cfg M` in this directory. Every run takes less than five
minutes on two workers.

| run | configuration | question |
|---|---|---|
| `document_order` | `MCDocumentOrder.cfg` | do the rules converge, in any order of acknowledgements, echoes, pulls, rebuilds? |
| `replica` | `MCSyncReplica.cfg` | do queue, worker, checkpoints and service implement those rules under loss, crash and late requests? |
| `replica_parking` | `MCSyncReplica_parking.cfg` | do parking, retry, discard and renumbering lose or duplicate anything? |
| `progress` | `SyncProgress_liveness.cfg` | does every write arrive everywhere once trouble stops, also past a compaction? |
| `coordinator` | `SyncCoordinator.cfg` | are signals lost, sessions and pauses respected, shutdowns obeyed? |
| `runtime` | `MCSyncRuntime.cfg` | one worker and no start behind a pause, also while a restore or import runs; is the file swapped alone, does every answered save stay somewhere, is the report true, does every call return? |
| `service` | `MCWorkspaceSyncObject.cfg` | are log, checkpoints, chunks and encryption sound under interleaved requests and evictions, and does a compaction wait for the devices that are behind? |
| `nodes` | `MCNodeReplica.cfg` | does the tree stay a tree, and does disjoint work commute? |
| `editor` | `MCEditorPersistence.cfg` | does typed text survive saves, conflicts, failures, switches and remote text, and does the store catch up? |
| `browser` | `BrowserSync.cfg` | does a tab go on syncing, stop when told to, and never give up silently? |
| `service_content`, `titles` | see below | counterexamples |

What each property says stands above its definition. The ones to read first:

- `Converged`, `DocIsHead`, `PendingWins`, `QueueFollowsLog` (`DocumentOrder`)
- `QueueLogCursorAgree`, `NothingLost`, `OutboxAligned`, `ParkedNeverAccepted`,
  `CheckpointIsLog`, `ImplementsOrder` (`SyncReplica`), `EventuallyConverged`
  (`SyncProgress`)
- `NoLostWake`, `NoCycleWithoutSession`, `SignalsServed` (`SyncCoordinator`)
- `NoStrayWorker`, `MaintenanceKeepsOut`, `OvertakenStops` (`SyncRuntime`)
- `SwapAlone`, `AnsweredIsKept`, `ReportIsTrue`, `EveryCallReturns`
  (`WorkspaceMaintenance`)
- `LogServesEveryDevice`, `DoomedIsUnreferenced`, `SealedSinceMarker`,
  `CompactionKeepsOrder` (`WorkspaceSyncObject`)
- `TreeSound`, `DisjointWorkConverges` (`NodeReplica`)
- `NothingTypedIsLost`, `RemoteTextKept`, `CaughtUp`, `EveryEditSettles`
  (`EditorPersistence`), `GateSound` (`CommitGate`)
- `RetriedOrTold`, `StoppedIsShown`, `EveryCommitSyncs` (`BrowserSync`)

### Bounds

All bounds are constants in guards, never a truncation of what a step does.
Deadlock checking is off because every model ends when its bounded inputs are
used up; where "everyone waits" is a real question it is a liveness property
(`EveryCallReturns`, `ShutdownStops`, `EventuallyConverged`).

- `document_order`: two devices, two notes, two bodies, two writes in the log or
  queued on a device. Two writes are enough for an own and a remote write in both
  orders, two notes for a rule that mixes them up. The proofs cover the rest.
- `replica`: two devices, one note, three writes, batches of two, at most one
  fault (crash, storage failure, late request) and three writes and faults
  together. Three writes is the first size at which a batch is partly
  acknowledged while a third row is queued. Lost answers are not counted: any
  number may be lost.
- `replica_parking`: batches of one, three bodies of which one is refused by the
  service and one is too large, one image. A refused row is retried alone before
  it parks, so batches of one reach every reason for parking; batches of two are
  the counterexample below.
- `progress`: two devices, two writes, one fault counted as `replica` counts;
  lost requests and interrupted cycles are unbounded until `CalmDown`.
- `coordinator`: four calls. Each hazard in the list needs at most three.
- `runtime`: two connects, a pauser, a maintainer, a reader, a saver, a copier and a
  canceller: one thread for every role and two for the one that excludes itself.
  Four calls of sync and maintenance, two of the others, two failures, and four of
  all these together: a restore, something that disturbs it, a failure and a
  failure of its undoing. A maintainer restores and imports again, so a second
  operation finds the files of the first. One credential: a session that
  has ended takes the branches that another credential takes. About 510,000
  states.
- `service`: three instances in one state graph, selected by the state constraint
  `Scope`: (1) three operations of two devices and checkpoints at every
  sequence, one compaction at a time; (2) two chunks shared by operations and
  checkpoints, two compactions at once; (3) operations plain or sealed under two
  keys. `Scope` holds of every prefix of a behaviour inside it, so no behaviour
  of an instance is cut short.
- `nodes`: a folder in a folder and a node not yet created, two titles, two
  clock values, three operations. Two folders are the least for a cycle of
  parents, two clock values the least for a purge whose cutoff spares a trash.

- `editor`: two typed edits, so that one is typed while the other is saved; one
  remote edit; a rename here and the announcement of a rename elsewhere; one
  conflict retry and one delay, each the least at which "tried again" and "gave
  up" differ; one fault. A fault may last for every attempt. Compositions are
  left to `MCEditorPersistence_composing.cfg`, where they break `RemoteTextKept`.
- `browser`: two sign-ins and two faults among failed requests, revocations, a
  dead worker and a reload: one fault to lose a session and one while it is
  being established again. The page has one timer and one cycle at a time.

Symmetry is used for devices, notes, bodies, titles and compactions where the
run has no liveness property and no definition names one of them.

### Fairness

- `SyncProgress`: weak fairness of each device's worker, because the coordinator
  starts another cycle after each one (`coordinator.rs`) and a cycle has no step
  that waits for another device. Strong fairness of claiming, because a retry
  time that has not come makes a claim unavailable now but not for ever. Weak
  fairness of `CalmDown`: there is *a* time after which requests succeed,
  and processes live; nothing bounds the
  trouble before. No fairness of users, of compaction, or of a late request.
- `SyncCoordinator`: the worker thread runs; its timed wait returns; a request
  ends by its timeout; a call that has set a flag under the lock reaches its
  `notify_all`; a resume that has installed its token
  reaches the coordinator. Nothing obliges a shell to call.
- `WorkspaceMaintenance`: a thread inside a call takes its next step when no lock
  stops it; a worker told to stop exits (what `ShutdownStops` shows of the
  coordinator); the storage thread takes what is queued. Locks are not assumed fair;
  nobody is obliged to call or to cancel, and nothing to fail. `SyncRuntime` by
  itself has no liveness property and no fairness.
- `EditorPersistence`: weak fairness of `System`, the continuations of promises
  that can run and the timers that are set, and of `SaveNow`, the debounced save.
  A call into storage ends, with an answer or with an error. No fairness of the
  user or of other devices.
- `BrowserSync`: a timer that is set fires, the worker serves the request at the
  head of its mailbox or is dead, the service answers, and a user who works on wakes the driver
  now and then (`EveryCommitSyncs` speaks of a user who goes on working). No
  fairness of sign-ins, revocations or faults.

## The proofs

Every theorem holds for all values of the constants that satisfy the named
assumptions of the modules; these only say that bounds are natural numbers, that
constants which stand for "none" are none of the values, and which callers or
threads play which part. Where a theorem of `SyncReplica` assumes more, the
table says so.

| theorem | states, for every behaviour |
|---|---|
| `DocumentOrder_proofs`: `TypeCorrect`, `QueueFollowsLogHolds`, `HeadIsGreatestHolds`, `PendingWinsHolds`, `DocIsHeadHolds` | types, and the four facts about one device |
| `Convergence`, `NothingUnlearnedHolds` | devices that read the same log show the same bodies; what a device incorporated stays incorporated |
| `SyncReplica_proofs`: `TypeCorrect`, `NothingLostHolds`, `QueueLogCursorAgreeHolds` | types; every write of a user is queued, parked, accepted or discarded; queue, log and cursor agree, with any batch size, any refusals and any faults |
| `OutboxAlignedHolds`, `ParkedNeverAcceptedHolds`, `QueueShowsDocHolds` | what the device knows of its queue is what the service recorded, nothing parked was accepted, the last queued write is what the user sees; where a batch is one row or the service refuses nothing |
| `CheckpointIsLogHolds`, `CaughtUpDevicesAgree` | every checkpoint is what the log says up to its sequence, and a device that read the whole log shows its last writes; where nothing is refused or too large |
| `CursorNeverBack` | no pull, rebuild or restart moves a cursor back |
| `ReplicaImplementsOrder` | `SyncReplica` implements `DocumentOrder`, step by step; without images and refusals |
| `SyncCoordinator_proofs`: `NoLostWakeHolds`, `NoCycleWithoutSessionHolds` | no wake-up is lost; a dead session starts no cycle |
| `SyncRuntime_proofs`: `TypeCorrect`, `NoStrayWorkerHolds`, `MaintenanceKeepsOutHolds`, `OvertakenStopsHolds` | one worker per database, none started during a restore, none started behind a pause |
| `ImplementsRuntime`, `SwapAloneHolds`, `AnsweredIsKeptHolds`, `ReportIsTrueHolds` | the three before hold whatever a restore or import does; the file is renamed with nobody in it; an answered save is in the database or a kept copy; what a command reports of the workspace is so |
| `WorkspaceSyncObject_proofs`: `TypeCorrect`, `LogServesEveryDeviceHolds`, `DoomedIsUnreferencedHolds`, `CompactionKeepsOrderHolds`, `SealedSinceMarkerHolds` | log and checkpoints serve every device; what is marked for deletion is referenced by nothing; a row goes only when every device has it and a checkpoint covers it, and no number is given twice; nothing plain after the marker |
| `NodeReplica_proofs`: `TypeCorrect`, `TreeSoundHolds`, `DisjointWorkConvergesHolds` | types; every device holds a tree; devices that read the whole log hold the same one unless two changed the same part without knowing of each other: for any nodes, devices and operations |
| `EditorPersistence_proofs`: `GateSoundHolds` | commits and reconciles exclude each other, for any callers |
| `ImplementsGate`, `GateSoundInEditor`, `NothingTypedIsLostHolds`, `UnsavedIsScheduledHolds`, `RemoteTextKeptHolds`, `CaughtUpHolds` | the renderer only takes steps of that gate; typed text that never reached storage stays in the editor, with a save due for it or a failure on record; a save removes nothing of another device; a quiet renderer stands at the revision of storage |
| `BrowserSync_proofs`: `RunningDriverCyclesHolds`, `StoppedIsShownHolds`, `RetriedOrToldHolds` | a running driver cycles or has its timer set; a stopped one leaves the worker no usable session; nobody stays disconnected untold |

### The arguments

**`DocumentOrder`.** Convergence is not inductive: that two devices which have
read everything agree says nothing about a device that has not. The invariant is
`IInv == TypeOK /\ \A d \in Device : Safe(d)`, where `Safe(d)` says of one device
that its cursor fits the log, its sequenced rows follow the log and lie above
everything it has incorporated, the head of each note is the greatest
incorporated write of it, the last queued write of a note is the body shown,
and with nothing queued the body shown is the write at the head. The middle
fact carries the weight: because a row's sequence lies above all that is
incorporated, an acknowledgement or an echo can only raise a head, and raises it
to the row whose body is already shown. The proof has one lemma per action
(`SaveSafe` ... `RebuildSafe`), the `Bystander` lemma for the devices an action
leaves alone, and `RowsLeave` for the two ways a prefix of the queue goes away.
Two devices that have read the whole log then have the same heads
(both are the greatest write in the whole log), hence the same bodies.

**`SyncReplica`.** Three layers, each inductive with the ones before it. `Plain`
is the types, in five groups so that each action disturbs few. `Placed` is
`NothingLost` with the two facts it rests on: the ids in a queue and in a late
request are distinct, so that a row is found in one place, and a claim covers
the prefix of the queue that the worker holds. The laborious step is
`Renumbered`, by which a requeued batch gets new client sequences: it keeps ids
and order. `Followed` says what a device has read: everything up to its cursor is
received, what is received is in the log, and no checkpoint, published or being
imported, is ahead of the log. `QueueLogCursorAgree` is read off the last two.

On these rest four more. `Aligned` is about sequences: the rows the service has
recorded are a prefix of the queue (`KnownTo`), recorded as they were sent
(`Recorded`) and in the order of the queue (`InOrder`), nothing is recorded that
was not attempted (`Attempted`), and a request that is still on its way carries
what is recorded, queued or to be refused (`StraysSound`). The theorems assume
`BatchLimit = 1 \/ Refused = {}`, because with larger batches *and* a service
that refuses they are false: `MCSyncReplica_parked_accepted.cfg` is the
counterexample, and the code sends batches of many. The theorem
says what the fault needs, both conditions together. `AllShow` compares the queue
with what the user sees: the last queued write of each note (`Final`), since an
earlier one may be shadowed. `OnLog` gives the heads of notes (the greatest
received write), bodies (the last write the device knows of, once nothing is
queued), and checkpoints and archives (`Faithful`) their meaning in the log; it
assumes `Refused = Oversized = {}`, since a discarded write stays in the workspace
it was made in (`MCSyncReplica_discard_checkpoint.cfg`). `Behind` needs no
assumption: what the service dropped is covered by its checkpoint, so a rebuild
leads forward.

**The refinement.** `ReplicaImplementsOrder` puts these together as `Ordered`.
`SaveDocument` is a save of `DocumentOrder`, `SaveIntoTail` its coalescing, a push
that is accepted (at once, or by a request that arrives late) sequences rows,
acknowledgements, the three kinds of pull and the rebuild are their namesakes, and
every other step, of workers, retries, claims, compaction, checkpoints, crashes,
is unseen. `MaxWrites` of `DocumentOrder` is a bound for its own run; the
refinement is to the unbounded specification. The theorems of
`DocumentOrder` thus hold of the replica by proof and not only on an instance.

**`SyncCoordinator`.** `WakeKept` extends `NoLostWake` to the moments around the
sleep: what the worker has checked but not acted on, and what the outcome of a
cycle is about to write. `SessionOver` says that once the end of a session was
shown no place of the worker leads into a cycle.

**`SyncRuntime`.** `Serial` (one connect at a time, and a taken worker is held by
the thread that stops it), `Counted` (the maintenance count is the number of
threads inside), `Shut` (a reader keeps a maintainer out and the reverse) and
`Behind` (what a connect saw of the stop epoch is never ahead of it, and it is
smaller once a pause has overtaken it).

**`WorkspaceMaintenance`.** `SwapAlone` says nothing of the time before the original is
checked, and is not inductive for that: the storage runtime has to be gone from the
end of its drain, which is `Vacant`. Who comes in later is a question of who may:
`Owned` says where each command is, that one operation runs, and that the AI
history is shut out as long as any command is under way; `OthersStayOut` and
`NobodyStarts` draw the conclusion for the shell and, with `Shut`, for sync.
`AnsweredIsKept` needs to know where the saves are while they are on the move.
`Kept` says that the name of an operation's copy is free until the copy is made
(so it overwrites none), that there is a database when the swap begins, that while
the files are being exchanged every answered save is in some *copy*, and that an
import's copy is what the database holds until the archive goes in. With `Vacant`
no save is answered meanwhile. Most actions are `Quietly`; the other ten
are taken one by one. `Filed` is the types of files. `ReportIsTrue` speaks of the
end of a command only. `Told` says for each step before it where everything
is that callers were told of (in the workspace, in the copy, or in both together),
`Claims` what stands behind each result, and `AtRest` that with no command inside
its operation the workspace holds all of it, which the next command
starts from. `Grown` describes the steps beside the commands: they open the
database, and store what is told where nobody exchanges it.

**`WorkspaceSyncObject`.** `LogKept` (the retained rows are what lies above the
floor, a floor has a checkpoint, an operation is accepted once), `SealKept` (what
the marker says of every accepted operation and checkpoint) and types. The log
is bounded because operations are finite and accepted once (`LogBounded`); this
is the only place where finiteness is used.

**`NodeReplica`.** That the nodes form a tree is a statement about reachability, but
needs no induction: a subtree is *defined* as the least set that holds its root
and is closed downwards (`SubtreeIsLeast`), so a node is shown to be outside of
one by exhibiting a closed set without it. A node placed under a parent outside
its own subtree makes no loop (`PlacingKeepsLoopFree`); a purge takes the whole
subtree, so nothing that stays loses its parent (`RemovingKeepsLoopFree`,
`PurgingKeepsSound`). `Sound(t)`, the inductive form, says of one tree that
it has no loop, that parents are there, that nothing purged is, and that only
what is there carries a trash marker; `AfterIsSound` goes through the six
operations, and the actions only choose which operation is applied to which tree.
That the first trees have no loop is part of `TreeAssumption`.

`DisjointWorkConverges` is about whole histories, but its invariant is local.
`Fits(t, op)` says that an operation can be applied to a tree and is about the
same nodes there as where it was made. What fits is written over the tree
(`AfterIsWritten`): which nodes it touches depends on the operation alone. So two
operations that fit one tree and do not clash write different fields, each still
fits after the other (`FitsStays`: subtrees, places and availability around its
nodes are untouched), and their order does not matter (`Commute`). `Heading` then
says that every device has two ways to one tree: forward from its own tree
through what it has not pulled, and forward from the tree of the whole log through
what it still has to send (`Meets`). Making an operation lengthens both ways, which
takes one induction along the first (`FitsAlong`); sequencing one moves its maker
along the second, and lengthens it for all others; a pull or an acknowledgement
walks the first. A device that has nothing to pull and nothing to send is at the
end of both, so its tree is that of the log. `Crowded` is `Contended` with the
operations that are not sequenced yet; it never becomes false again (`CrowdedStays`).

**`CommitGate` and `EditorPersistence`.** `GateSound` is inductive with its types.
`ImplementsGate` maps every action of the renderer to one of the gate or a
stutter; `GateSoundInEditor` is then the gate's theorem. `NothingTypedIsLost`
needs `Landed` and `Written`: whatever the cache calls its base, a read has
fetched or a save has written did reach storage once, and nothing is shown that
nobody made. `RemoteTextKept` needs `Kept`: remote text comes from storage
(`FromStorage`), whoever stands at the revision of storage has all foreign text
(`Current`), and the cached text has the foreign text of its base (`Common`), so
that a save accepted by its revision carries all of it. `UnsavedIsScheduled` needs
`Due`: a failure on record counts only while no save runs, or else a record taken
over during the next save could hide it; and that no record taken over stops
the timer (`TimerRuns`). `CaughtUp` needs `Heard`: the renderer stands at the
revision of storage once its save is answered (`Known`), unless a read of storage
is still to come (`ToRead`: a change is announced, pending, or held by a
reconcile that has not read yet) or is in hand. A reconcile waits for the gate
once (`AskedOnce`), so a read is never made for a change that another one took.

**`BrowserSync`.** `MailFits` (who has a request in the mailbox, and that a caller
has one at most), `Issued` (every credential anyone holds was issued) and `Retried`.

### Only model-checked

- All liveness: `EventuallyConverged` (and so `SyncProgress`), `SignalsServed`,
  `ShutdownStops`, `EveryCallReturns`, `EveryEditSettles`, `EveryCommitSyncs`.
  Neither fairness nor `ENABLED` is in the prover's reach.
- `SyncReplica` with refusals in batches of more than one row, and with images or
  discards in the refinement: there `OutboxAligned`, `QueueShowsDoc`,
  `CheckpointIsLog` and `ImplementsOrder` have counterexamples or are not
  claimed (see the arguments). Every safety invariant of a passing run is proved.

## Where the code and its documents disagree

Two runs are expected to end in a counterexample; each checks a sentence of the
repository against what the code does.

- **`titles`** (`crates/skriuw-sqlite/src/sync.rs:1183`). Two devices rename one
  node. Each applies the other's rename over its own and never applies its own
  again: the titles stay different. `docs/specs/sync-convergence-v1.md:150` says
  "Later server sequence wins". Two renames, two pushes, two pulls; no fault. The
  same rule serves every operation that is not a document body.
- **`service_content`** (`apps/sync/src/workspace-sync-object.ts:215`). A push
  checks that its chunks are stored, awaits, and is accepted in a transaction
  that looks only at deletion marks that still stand. A whole deletion fits
  between: the operation is accepted without its content.

These configurations reproduce further counterexamples, with the same command;
the comment above the property says what they show.

| configuration | property | what happens |
|---|---|---|
| `SyncProgress_image_blocks.cfg` | `WritesReachService` | a row that was claimed twice is released and never parked; if its image is gone, everything behind it waits for ever (`sync_policy/blocked.rs:59`) |
| `MCSyncReplica_stale_parked.cfg` | `KeepsGreater` | a parked write hides later remote writes, also after a newer own one was accepted |
| `MCSyncReplica_parked_accepted.cfg` | `ParkedNeverAccepted` | with batches of two, a batch is parked whole though its first row was accepted alone before |
| `MCSyncReplica_discard_checkpoint.cfg` | `CheckpointIsLog` | a discarded write stays in the workspace and gets into a checkpoint |
| `SyncCoordinator_resume.cfg` | `ResumeHolds` | a cycle that fails on an old credential overwrites the `session_valid` that a resume set while it ran (`coordinator.rs:449`) |
| `SyncCoordinator_pause.cfg` | `PauseInterrupts` | `clear_interrupt` takes back a pause made after the snapshot |
| `SyncCoordinator_refresh.cfg` | `RefreshHolds` | an offline notice that arrived with a refresh drops it |
| `SyncCoordinator_offline.cfg` | `OfflineHolds` | a cycle cancelled by the notice marks the network reachable |
| `MCSyncRuntime_maintenance.cfg` | `MaintenanceAlone` | a restore does not wait for the worker a pause is joining |
| `MCSyncRuntime_overtaken.cfg` | `OvertakenEarlyStops` | a pause during a connect's stop of the old worker goes unnoticed |
| `MCSyncRuntime_serves.cfg` | `ServesAgain` | the history drain does not start again after a restore: the command returns early and nobody serves (`maintenance.rs:689`) |
| `MCSyncRuntime_emptied.cfg` | `NothingEmptied` | a rollback fails with the database moved away; the shell opens a new, empty one at its path (`maintenance.rs:712`), the saves stay in the rollback file |
| `MCSyncRuntime_cancel.cfg` | `CancelStays` | the guard of one operation clears the cancel flag after the next one has begun and was cancelled (`maintenance.rs:307`) |
| `MCWorkspaceSyncObject_quota.cfg` | `WithinQuota` | two uploads pass the quota check together |
| `MCNodeReplica_purges.cfg` | `PurgesConverge` | a concurrent restore makes a purge invalid everywhere but at its maker |
| `MCNodeReplica_trashed.cfg` | `RenamesReachTrash` | a rename of a node trashed elsewhere is kept only by its maker |
| `MCEditorPersistence_drift.cfg` | `StoreFollowsStorage` | an optimistic change made while a reconcile waits for commits to drain is not counted as made during the read (`reconcile.ts:60`) and is overwritten; `reconcile.ts:31` promises one more pass, `commit.ts:135` that the renderer "never drifts from durable state" |
| `MCEditorPersistence_composing.cfg` | `RemoteTextKept` | "While the user is composing text the change waits" (`note-editor.tsx:1043`), but the save of the timer does not, and it takes the revision of what waits: the remote text is overwritten |
| `BrowserSync_resume.cfg` | `KeptForNextWake` | `sync.ts:381` promises that a session is kept "for the next wake"; a resume that fails is not tried again by one |
| `BrowserSync_wake.cfg` | `WakeKept` | a cycle that ends while a wake is due sets the slow poll over it |
| `BrowserSync_rejection.cfg` | `OnlyRejectedIsDiscarded` | the answer to an old credential discards the new one that was persisted meanwhile (`sync.ts:333`) |

Which of these a user would notice differs. `MCSyncReplica_parked_accepted` needs
a lost answer and a refusal in one session; `titles` needs nothing but two people.

## What is not modelled

- **Within the modelled parts:** sibling ranks, tags, people, properties, tasks,
  annotations and covers (their rules repeat the three shapes of the node
  rules); the encryption marker on the device; page limits of a pull; status
  text; account slots; the alarm and deletion of a workspace object.
- **The transport, sealing, the wake socket** (`http.rs`, `seal.rs`, `content.rs`,
  `wake.rs`): what they answer is an outcome of a push or pull. Cryptography is
  not a matter for a model checker.
- **Device links and first-connect hydration** (`link.rs`): devices start linked
  and converged. Planned.
- **Around maintenance:** what verification looks at inside a file (one outcome),
  relocating and clearing the storage, the rotation schedule of backups, what the
  next start of the process finds after a crash, and
  the runtime's reads and searches, which pass through the same queue and change
  nothing.
- **Version history, tab handover and workspace slots:** independent of
  replication, with hazards of their own. Planned.
- **The rest of the renderer:** tree rows, panes, trash view and recent commands
  of the store, and all of `note-editor.tsx` that is not persistence, are view
  state without another actor.
- **Search, AI, images, import, editor plugins, site, mobile shell, the legacy
  `v1-final` tree:** user interface, pure functions over text and pixels, or no
  longer shipped. They are most of the repository's TypeScript. What they
  keep is the state of a view, without a second actor.

Time is nowhere a number, so nothing is shown about delays, back-off growth or
poll intervals; a property such as "visible again within a minute" is out of
scope. Durability of SQLite and of the object store is assumed: a committed
transaction survives a crash.

## Plan

In place: `DocumentOrder`, `SyncReplica` and `SyncProgress`, `SyncCoordinator`,
`SyncRuntime` with `WorkspaceMaintenance`, `WorkspaceSyncObject`, `NodeReplica`,
`CommitGate` with `EditorPersistence`, `BrowserSync`, and proofs for all of them
but `SyncProgress`. In the order of their worth, next would be:

1. `WorkspaceLog`: the abstract service (an append-only log with a floor, every
   operation once, a checkpoint above the floor), refined by `WorkspaceSyncObject`
   and by the service part of `SyncReplica`, so that the two agree by a check.
2. Device links, first-connect hydration, disconnect and reconnect, beside
   `SyncReplica`: what was edited while disconnected is sent or replaced, never
   half of each.
3. The start of the desktop after a crash inside a swap, and the relocation of the
   storage, on top of `WorkspaceMaintenance`: which of the files it opens.
4. The history outbox (coalescing, provenance, retried claims), and the handover
   of the storage worker between browser tabs.

Every safety invariant of a passing run is a theorem now. Left are weaker
forms for refusals in larger batches (which rows of a batch that is parked whole
may have been accepted before), the refinement of
`SyncReplica` with images (their rows are no writes and would map to stutters), and
the refinement into `WorkspaceLog` once it is written.
