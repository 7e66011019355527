------------------------ MODULE WorkspaceMaintenance ------------------------
(***************************************************************************)
(* Restoring a backup and importing an archive on the desktop: the shell's  *)
(* maintenance commands (src-tauri commands/maintenance.rs, maintenance.rs, *)
(* ai_history.rs) drive the verified swap of the database file              *)
(* (skriuw-lifecycle) around a storage runtime that drains (skriuw-runtime),*)
(* while the sync runtime is suspended (SyncRuntime, whose maintainers are  *)
(* the threads that run these commands).                                    *)
(*                                                                          *)
(* A database file is the set of saves it holds; 0 stands for what was in   *)
(* the workspace before.  A committed save survives the process, so what is *)
(* shown of every state is shown of a crash in it.                          *)
(***************************************************************************)
EXTENDS SyncRuntime, Sequences

CONSTANTS
    Saver,         \* threads that save through the storage runtime
    Copier,        \* threads that rotate backups or export
    Canceller,     \* threads that cancel the active operation
    MaxAsked,      \* bound on the calls of these threads
    MaxTogether,   \* bound on calls and failures together
    MaxFaults      \* bound on the calls into files and SQLite that fail

Save == 1..MaxAsked
Archived == MaxAsked + 1            \* what an imported archive holds
File == {None} \cup SUBSET (0..Archived)
Stamp == 1..MaxCalls                \* the times in the names of kept files
Shell == Saver \cup Copier \cup Canceller

ASSUME MaintenanceAssumption ==
    /\ MaxAsked \in Nat /\ MaxFaults \in Nat /\ MaxTogether \in Nat
    /\ None \notin Shell /\ \A F \in SUBSET (0..Archived) : F # None
    /\ Copier \cap (Thread \cup Saver \cup Canceller) = {}
    /\ Saver \cap Canceller = {}

VARIABLES
    canonical, candidate,   \* the database and the copy that is to replace it
    copies,                 \* rollback files and safety backups
    backup,                 \* the newest backup of the recovery directory
    runtime, accepting,     \* the newest storage runtime, and its sender
    served,                 \* the runtime whose clones callers get
    queue,                  \* requests accepted and not answered
    open,                   \* connections to canonical, except those of sync
    quiesced,               \* commands that keep the AI history closed
    operation, cancel,      \* the running operation and its cancel flag
    stamp,                  \* operations so far: the time in file names
    step, kind, result,     \* per maintenance command
    place, save, clone,     \* per thread of the shell
    asked, faults,          \* calls and failures so far
    answered,               \* saves whose caller was told they are stored
    expected                \* what callers were told the workspace holds

files   == <<canonical, candidate, copies, backup>>
storage == <<runtime, accepting, served, queue>>
mutex   == <<operation, cancel, stamp>>
command == <<step, kind, result>>
shell   == <<place, save, clone, asked>>
told    == <<answered, expected>>
mvars   == <<vars, files, storage, open, quiesced, mutex, command, shell,
             faults, told>>

MInit ==
    /\ Init
    /\ canonical = {0} /\ candidate = None
    /\ copies = [n \in Stamp |-> None] /\ backup = {0}
    /\ runtime = 1 /\ accepting = TRUE /\ served = 1 /\ queue = <<>>
    /\ open = {"runtime", "drain"} /\ quiesced = {}
    /\ operation = None /\ cancel = FALSE /\ stamp = 0
    /\ step = [m \in Maintainer |-> "out"]
    /\ kind = [m \in Maintainer |-> "restore"]
    /\ result = [m \in Maintainer |-> "none"]
    /\ place = [t \in Shell |-> "idle"]
    /\ save = [s \in Saver |-> 0] /\ clone = [s \in Saver |-> 0]
    /\ asked = 0 /\ faults = 0
    /\ answered = {0} /\ expected = {0}

Together == calls + asked + faults < MaxTogether

Ask == asked < MaxAsked /\ Together /\ asked' = asked + 1
Enter(t, where) == place' = [place EXCEPT ![t] = where]

Works == UNCHANGED faults
Fails == faults < MaxFaults /\ Together /\ faults' = faults + 1

\* SqliteWorkspace::open creates a database where there is none
Opened(file) == IF file = None THEN {} ELSE file

\* Whoever has the database open has its -wal and -shm files beside it
InUse ==
    \/ open # {} \/ alive # {}
    \/ \E c \in Connector : pc[c] = "linking"
    \/ \E r \in Reader : pc[r] = "reading"

-----------------------------------------------------------------------------
(* The sync runtime moves as it does; a suspension lasts until its command   *)
(* has returned.                                                             *)

Unsuspend(m) == pc[m] = "maintaining" /\ pc'[m] # "maintaining"

OpensForSync ==
    \/ \E c \in Connector : pc'[c] = "linking" /\ pc[c] # "linking"
    \/ \E r \in Reader : pc'[r] = "reading" /\ pc[r] # "reading"

Beside ==
    /\ calls' + asked + faults <= MaxTogether
    /\ \A m \in Maintainer : Unsuspend(m) => step[m] = "left"
    /\ step' = [m \in Maintainer |->
                  IF Unsuspend(m) THEN "out" ELSE step[m]]
    /\ canonical' = IF OpensForSync THEN Opened(canonical) ELSE canonical
    /\ UNCHANGED <<candidate, copies, backup, storage, open, quiesced, mutex,
                   kind, result, shell, faults, told>>

SyncStep == Next /\ Beside

-----------------------------------------------------------------------------
(* The storage runtime and those who call it                                 *)

\* The lock on the active workspace is held until its runtime has stopped
ActiveLocked == \E m \in Maintainer : step[m] = "stopping"

CallSave(s) ==
    /\ place[s] = "idle" /\ Ask /\ ~ActiveLocked
    /\ save' = [save EXCEPT ![s] = asked']
    /\ clone' = [clone EXCEPT ![s] = served]
    /\ Enter(s, "cloned")
    /\ UNCHANGED <<vars, files, storage, open, quiesced, mutex, command,
                   faults, told>>

Submit(s) ==
    /\ place[s] = "cloned"
    /\ IF accepting /\ clone[s] = runtime
         THEN queue' = Append(queue, save[s]) /\ Enter(s, "waiting")
         ELSE queue' = queue /\ Enter(s, "idle")
    /\ UNCHANGED <<vars, files, runtime, accepting, served, open, quiesced,
                   mutex, command, save, clone, asked, faults, told>>

\* One transaction for the first n saves, of which some may be refused
Answer(n) ==
    \E stored \in SUBSET {queue[i] : i \in 1..n} :
        /\ "runtime" \in open
        /\ IF stored = {queue[i] : i \in 1..n} THEN Works ELSE Fails
        /\ canonical' = Opened(canonical) \cup stored
        /\ answered' = answered \cup stored
        /\ expected' = expected \cup stored
        /\ queue' = SubSeq(queue, n + 1, Len(queue))
        /\ place' = [t \in Shell |->
                       IF t \in Saver /\ place[t] = "waiting"
                          /\ \E i \in 1..n : save[t] = queue[i]
                         THEN "idle" ELSE place[t]]
        /\ UNCHANGED <<vars, candidate, copies, backup, runtime, accepting,
                       served, open, quiesced, mutex, command, save, clone,
                       asked>>

\* `recv` fails only once the sender is gone and the queue is empty
Finished == ~accepting /\ queue = <<>>

StorageEnds ==
    /\ "runtime" \in open /\ Finished
    /\ open' = open \ {"runtime"}
    /\ UNCHANGED <<vars, files, storage, quiesced, mutex, command, shell,
                   faults, told>>

\* `WorkspaceRuntime::spawn` on an open database
Spawn == runtime' = runtime + 1 /\ accepting' = TRUE

-----------------------------------------------------------------------------
(* Backups, exports, cancelling and the AI history                           *)

BeginCopy(b) ==
    /\ place[b] = "idle" /\ Ask /\ operation = None
    /\ operation' = b /\ cancel' = FALSE
    /\ open' = open \cup {"copy"} /\ canonical' = Opened(canonical)
    /\ Enter(b, "copying")
    /\ UNCHANGED <<vars, candidate, copies, backup, storage, quiesced, stamp,
                   command, save, clone, faults, told>>

\* An export writes elsewhere, a rotation may not be due, and both may fail
Copy(b) ==
    /\ place[b] = "copying"
    /\ backup' \in {backup, canonical}
    /\ open' = open \ {"copy"}
    /\ Enter(b, "ending")
    /\ UNCHANGED <<vars, canonical, candidate, copies, storage, quiesced,
                   mutex, command, save, clone, asked, faults, told>>

\* OperationGuard::drop clears the operation under its lock, then the flag
EndCopy(b) ==
    /\ place[b] = "ending"
    /\ operation' = None
    /\ Enter(b, "dropping")
    /\ UNCHANGED <<vars, files, storage, open, quiesced, cancel, stamp,
                   command, save, clone, asked, faults, told>>

DropCopy(b) ==
    /\ place[b] = "dropping"
    /\ cancel' = FALSE
    /\ Enter(b, "idle")
    /\ UNCHANGED <<vars, files, storage, open, quiesced, operation, stamp,
                   command, save, clone, asked, faults, told>>

AskCancel(x) ==
    /\ place[x] = "idle" /\ Ask /\ operation # None
    /\ Enter(x, "storing")
    /\ UNCHANGED <<vars, files, storage, open, quiesced, mutex, command, save,
                   clone, faults, told>>

StoreCancel(x) ==
    /\ place[x] = "storing"
    /\ cancel' = TRUE
    /\ Enter(x, "idle")
    /\ UNCHANGED <<vars, files, storage, open, quiesced, operation, stamp,
                   command, save, clone, asked, faults, told>>

UseHistory ==
    /\ quiesced = {} /\ "history" \notin open
    /\ open' = open \cup {"history"} /\ canonical' = Opened(canonical)
    /\ UNCHANGED <<vars, candidate, copies, backup, storage, quiesced, mutex,
                   command, shell, faults, told>>

-----------------------------------------------------------------------------
(* A maintenance command: around the swap                                    *)

At(m, s) == pc[m] = "maintaining" /\ step[m] = s
Step(m, s) == step' = [step EXCEPT ![m] = s]
Report(m, r) == result' = [result EXCEPT ![m] = r]

\* AiHistoryRecorder::quiesce counts, then joins the writer and closes
Quiesce(m, k) ==
    /\ At(m, "out")
    /\ quiesced' = quiesced \cup {m}
    /\ kind' = [kind EXCEPT ![m] = k]
    /\ Step(m, "quiescing")
    /\ UNCHANGED <<vars, files, storage, open, mutex, result, shell, faults,
                   told>>

CloseHistory(m) ==
    /\ At(m, "quiescing")
    /\ open' = open \ {"history"}
    /\ Step(m, "quiet")
    /\ UNCHANGED <<vars, files, storage, quiesced, mutex, kind, result, shell,
                   faults, told>>

Begin(m) ==
    /\ At(m, "quiet") /\ operation = None
    /\ operation' = m /\ cancel' = FALSE
    /\ stamp' = stamp + 1 /\ stamp' \in Stamp
    /\ Step(m, "begun")
    /\ UNCHANGED <<vars, files, storage, open, quiesced, kind, result, shell,
                   faults, told>>

RefuseBegin(m) ==
    /\ At(m, "quiet") /\ operation # None
    /\ Report(m, "refused") /\ Step(m, "leaving")
    /\ UNCHANGED <<vars, files, storage, open, quiesced, mutex, kind, shell,
                   faults, told>>

\* The backup is copied to the candidate; an archive is read and checked
Prepare(m) ==
    /\ At(m, "begun")
    /\ \/ /\ kind[m] = "restore" /\ ~cancel /\ candidate' = backup
       \/ /\ kind[m] = "import" /\ candidate' = candidate
    /\ Step(m, "prepared")
    /\ UNCHANGED <<vars, canonical, copies, backup, storage, open, quiesced,
                   mutex, kind, result, shell, faults, told>>

PrepareFails(m) ==
    /\ At(m, "begun")
    /\ (kind[m] = "restore" /\ cancel /\ Works) \/ Fails
    /\ Report(m, "refused") /\ Step(m, "ending")
    /\ UNCHANGED <<vars, files, storage, open, quiesced, mutex, kind, shell,
                   told>>

CancelledEarly(m) ==
    /\ At(m, "prepared") /\ cancel
    /\ candidate' = None
    /\ Report(m, "refused") /\ Step(m, "ending")
    /\ UNCHANGED <<vars, canonical, copies, backup, storage, open, quiesced,
                   mutex, kind, shell, faults, told>>

\* stop_active_workspace: the history drain, then the sender of the runtime
StopActive(m) ==
    /\ At(m, "prepared") /\ ~cancel
    /\ accepting' = FALSE /\ open' = open \ {"drain"}
    /\ Step(m, "stopping")
    /\ UNCHANGED <<vars, files, runtime, served, queue, quiesced, mutex, kind,
                   result, shell, faults, told>>

\* ... and the join of its thread
Drained(m) ==
    /\ At(m, "stopping") /\ "runtime" \notin open
    /\ Step(m, "stopped")
    /\ UNCHANGED <<vars, files, storage, open, quiesced, mutex, kind, result,
                   shell, faults, told>>

\* publish_workspace: the drain opens the database, the handle changes
Publish(m) ==
    /\ At(m, "replaced") \/ At(m, "rolledBack") \/ At(m, "imported")
    /\ served' = runtime /\ open' = open \cup {"drain"}
    /\ candidate' = None
    /\ Report(m, step[m]) /\ Step(m, "ending")
    /\ UNCHANGED <<vars, canonical, copies, backup, runtime, accepting, queue,
                   quiesced, mutex, kind, shell, faults, told>>

\* The unpublished runtime is dropped; only an import opens another one
PublishFails(m) ==
    /\ At(m, "replaced") \/ At(m, "rolledBack") \/ At(m, "imported")
    /\ Fails
    /\ accepting' = FALSE /\ open' = open \ {"runtime"}
    /\ candidate' = None
    /\ Report(m, "failed")
    /\ Step(m, IF step[m] = "imported" THEN "failed" ELSE "ending")
    /\ UNCHANGED <<vars, canonical, copies, backup, runtime, served, queue,
                   quiesced, mutex, kind, shell, told>>

\* A plausible slip: the rollback file is tidied up with the candidate
SweptCopies == [copies EXCEPT ![stamp] = None]

KeptCopies == copies

\* An error of the swap or the import: the shell deletes the candidate and
\* opens what is at the canonical path
Salvage(m) ==
    /\ At(m, "failed")
    /\ candidate' = None /\ copies' = KeptCopies
    /\ canonical' = Opened(canonical)
    /\ Spawn /\ served' = runtime'
    /\ open' = open \cup {"runtime", "drain"}
    /\ Report(m, "failed") /\ Step(m, "ending")
    /\ UNCHANGED <<vars, backup, queue, quiesced, mutex, kind, shell, faults,
                   told>>

SalvageFails(m) ==
    /\ At(m, "failed") /\ Fails
    /\ candidate' = None /\ copies' = KeptCopies
    /\ canonical' \in {canonical, Opened(canonical)}
    /\ Report(m, "failed") /\ Step(m, "ending")
    /\ UNCHANGED <<vars, backup, storage, open, quiesced, mutex, kind, shell,
                   told>>

EndOperation(m) ==
    /\ At(m, "ending")
    /\ operation' = None
    /\ expected' = IF result[m] \in {"replaced", "imported", "failed"}
                     THEN Opened(canonical) ELSE expected
    /\ Step(m, "dropping")
    /\ UNCHANGED <<vars, files, storage, open, quiesced, cancel, stamp, kind,
                   result, shell, faults, answered>>

ClearCancel(m) ==
    /\ At(m, "dropping")
    /\ cancel' = FALSE
    /\ Step(m, "leaving")
    /\ UNCHANGED <<vars, files, storage, open, quiesced, operation, stamp,
                   kind, result, shell, faults, told>>

ReleaseHistory(m) ==
    /\ At(m, "leaving")
    /\ quiesced' = quiesced \ {m}
    /\ Step(m, "left")
    /\ UNCHANGED <<vars, files, storage, open, mutex, kind, result, shell,
                   faults, told>>

Around(m) ==
    \/ \E k \in {"restore", "import"} : Quiesce(m, k)
    \/ CloseHistory(m) \/ Begin(m) \/ RefuseBegin(m) \/ Prepare(m)
    \/ PrepareFails(m) \/ CancelledEarly(m) \/ StopActive(m) \/ Drained(m)
    \/ Publish(m) \/ PublishFails(m) \/ Salvage(m) \/ SalvageFails(m)
    \/ EndOperation(m) \/ ClearCancel(m) \/ ReleaseHistory(m)

-----------------------------------------------------------------------------
(* replace_live_database_gated.  The gate lets a cancel in before each stage *)

Stopping(m) == At(m, "stopped") /\ kind[m] = "restore"

Preflight(m) ==
    /\ Stopping(m) /\ canonical # None
    /\ Step(m, "checking")
    /\ UNCHANGED <<vars, files, storage, open, quiesced, mutex, kind, result,
                   shell, faults, told>>

PreflightFails(m) ==
    /\ Stopping(m)
    /\ (canonical = None /\ Works) \/ Fails
    /\ Step(m, "failed")
    /\ UNCHANGED <<vars, files, storage, open, quiesced, mutex, kind, result,
                   shell, told>>

\* A plausible slip: nobody looks for sidecars after the shutdown
NotLookedAt == TRUE

SidecarsAbsent == ~InUse

CheckOriginal(m) ==
    /\ At(m, "checking") /\ ~cancel /\ SidecarsAbsent
    /\ Step(m, "verified")
    /\ UNCHANGED <<vars, files, storage, open, quiesced, mutex, kind, result,
                   shell, faults, told>>

\* The directory may fail to sync after a rename
MoveOriginal(m) ==
    /\ At(m, "verified") /\ ~cancel
    /\ copies' = [copies EXCEPT ![stamp] = canonical] /\ canonical' = None
    /\ (Works /\ Step(m, "moved")) \/ (Fails /\ Step(m, "undoing"))
    /\ UNCHANGED <<vars, candidate, backup, storage, open, quiesced, mutex,
                   kind, result, shell, told>>

MoveReplacement(m) ==
    /\ At(m, "moved") /\ ~cancel
    /\ canonical' = candidate /\ candidate' = None
    /\ (Works /\ Step(m, "placed")) \/ (Fails /\ Step(m, "undoing"))
    /\ UNCHANGED <<vars, copies, backup, storage, open, quiesced, mutex, kind,
                   result, shell, told>>

VerifyReplacement(m) ==
    /\ At(m, "placed") /\ ~cancel
    /\ Spawn /\ open' = open \cup {"runtime"}
    /\ Step(m, "replaced")
    /\ UNCHANGED <<vars, files, served, queue, quiesced, mutex, kind, result,
                   shell, faults, told>>

\* A stage is cancelled or fails: what was moved is moved back
StageFails(m) ==
    /\ \E s \in {"checking", "verified", "moved", "placed"} : At(m, s)
    /\ \/ Works /\ (cancel \/ (step[m] = "checking" /\ InUse))
       \/ Fails
    /\ Step(m, IF step[m] \in {"checking", "verified"} THEN "reopening"
               ELSE "undoing")
    /\ UNCHANGED <<vars, files, storage, open, quiesced, mutex, kind, result,
                   shell, told>>

UndoReplacement(m) ==
    /\ At(m, "undoing") /\ candidate = None
    /\ candidate' = canonical /\ canonical' = None
    /\ UNCHANGED <<vars, copies, backup, storage, open, quiesced, mutex,
                   command, shell, faults, told>>

\* A plausible slip: the replacement is left where it was moved
LeftInPlace == canonical' = canonical /\ copies' = copies

BackInPlace ==
    canonical' = copies[stamp] /\ copies' = [copies EXCEPT ![stamp] = None]

UndoOriginal(m) ==
    /\ At(m, "undoing") /\ candidate # None
    /\ BackInPlace
    /\ (Works /\ Step(m, "reopening")) \/ (Fails /\ Step(m, "failed"))
    /\ UNCHANGED <<vars, candidate, backup, storage, open, quiesced, mutex,
                   kind, result, shell, told>>

\* A rename back fails; or the original does not open
RollbackFails(m) ==
    /\ At(m, "undoing") \/ At(m, "reopening")
    /\ Fails /\ Step(m, "failed")
    /\ UNCHANGED <<vars, files, storage, open, quiesced, mutex, kind, result,
                   shell, told>>

ReopenOriginal(m) ==
    /\ At(m, "reopening")
    /\ Spawn /\ open' = open \cup {"runtime"}
    /\ Step(m, "rolledBack")
    /\ UNCHANGED <<vars, files, served, queue, quiesced, mutex, kind, result,
                   shell, faults, told>>

Swap(m) ==
    \/ Preflight(m) \/ PreflightFails(m) \/ CheckOriginal(m)
    \/ MoveOriginal(m) \/ MoveReplacement(m) \/ VerifyReplacement(m)
    \/ StageFails(m) \/ UndoReplacement(m) \/ UndoOriginal(m)
    \/ RollbackFails(m) \/ ReopenOriginal(m)

-----------------------------------------------------------------------------
(* import_into_stopped_workspace                                             *)

BackUpFirst(m) ==
    /\ At(m, "stopped") /\ kind[m] = "import"
    /\ canonical' = Opened(canonical)
    /\ \/ /\ Works /\ Step(m, "copied")
          /\ copies' = [copies EXCEPT ![stamp] = canonical']
          /\ open' = open \cup {"import"}
       \/ /\ Fails /\ Step(m, "failed")
          /\ UNCHANGED <<copies, open>>
    /\ UNCHANGED <<vars, candidate, backup, storage, quiesced, mutex, kind,
                   result, shell, told>>

CancelImport(m) ==
    /\ At(m, "copied") /\ cancel
    /\ copies' = [copies EXCEPT ![stamp] = None]
    /\ open' = open \ {"import"}
    /\ Step(m, "failed")
    /\ UNCHANGED <<vars, canonical, candidate, backup, storage, quiesced,
                   mutex, kind, result, shell, faults, told>>

\* The archive in one transaction, its images in another
ReplaceFromArchive(m) ==
    /\ At(m, "copied") /\ ~cancel
    /\ \/ /\ Works /\ canonical' = {Archived}
          /\ Spawn /\ open' = (open \ {"import"}) \cup {"runtime"}
          /\ Step(m, "imported")
       \/ /\ Fails /\ canonical' \in {canonical, {Archived}}
          /\ open' = open \ {"import"}
          /\ Step(m, "failed")
          /\ UNCHANGED <<runtime, accepting>>
    /\ UNCHANGED <<vars, candidate, copies, backup, served, queue, quiesced,
                   mutex, kind, result, shell, told>>

Import(m) == BackUpFirst(m) \/ CancelImport(m) \/ ReplaceFromArchive(m)

-----------------------------------------------------------------------------
StorageWorks == StorageEnds \/ \E n \in 1..Len(queue) : Answer(n)

MNext ==
    \/ SyncStep
    \/ \E s \in Saver : CallSave(s) \/ Submit(s)
    \/ StorageWorks
    \/ \E b \in Copier : BeginCopy(b) \/ Copy(b) \/ EndCopy(b) \/ DropCopy(b)
    \/ \E x \in Canceller : AskCancel(x) \/ StoreCancel(x)
    \/ UseHistory
    \/ \E m \in Maintainer : Around(m) \/ Swap(m) \/ Import(m)

\* Calls run on and end; nothing obliges anyone to call or anything to fail
MFairness ==
    /\ \A t \in Thread : WF_mvars(Advance(t) /\ Beside)
    /\ WF_mvars((\E w \in Worker : WorkerExits(w)) /\ Beside)
    /\ \A m \in Maintainer : WF_mvars(Around(m) \/ Swap(m) \/ Import(m))
    /\ WF_mvars(StorageWorks)
    /\ \A s \in Saver : WF_mvars(Submit(s))
    /\ \A b \in Copier : WF_mvars(Copy(b) \/ EndCopy(b) \/ DropCopy(b))
    /\ \A x \in Canceller : WF_mvars(StoreCancel(x))

MSpec == MInit /\ [][MNext]_mvars /\ MFairness

-----------------------------------------------------------------------------
MTypeOK ==
    /\ canonical \in File /\ candidate \in File /\ backup \in File
    /\ copies \in [Stamp -> File]
    /\ runtime \in Nat /\ accepting \in BOOLEAN /\ served \in 1..runtime
    /\ queue \in Seq(Save)
    /\ open \subseteq {"runtime", "drain", "copy", "history", "import"}
    /\ quiesced \subseteq Maintainer
    /\ operation \in Maintainer \cup Copier \cup {None}
    /\ cancel \in BOOLEAN /\ stamp \in 0..MaxCalls
    /\ step \in [Maintainer ->
         {"out", "quiescing", "quiet", "begun", "prepared", "stopping",
          "stopped", "checking", "verified", "moved", "placed", "replaced",
          "undoing", "reopening", "rolledBack", "copied", "imported",
          "failed", "ending", "dropping", "leaving", "left"}]
    /\ kind \in [Maintainer -> {"restore", "import"}]
    /\ result \in [Maintainer -> {"none", "refused", "replaced",
                                  "rolledBack", "imported", "failed"}]
    /\ place \in [Shell -> {"idle", "cloned", "waiting", "copying", "ending",
                            "dropping", "storing"}]
    /\ save \in [Saver -> 0..MaxAsked] /\ clone \in [Saver -> Nat]
    /\ asked \in 0..MaxAsked /\ faults \in 0..MaxFaults
    /\ answered \subseteq 0..MaxAsked /\ expected \subseteq 0..Archived

(* From the check of the original until a database is open again nobody has  *)
(* one open at the path that is renamed: neither the storage runtime, its    *)
(* drain, a backup, the AI history, nor the sync worker that a pause may     *)
(* still be joining ("the canonical database must have no remaining WAL or   *)
(* shared-memory sidecar", ADR-0017:19).                                     *)
SwapAlone ==
    \A m \in Maintainer :
        step[m] \in {"verified", "moved", "placed", "undoing"} => ~InUse

(* A save whose caller was told that it is stored is in the database, or in  *)
(* a rollback file or safety backup that nothing deletes, in every state, so *)
(* also if the process ends there, and whatever fails ("Accepted saves       *)
(* cannot be omitted from the rollback artifact", ADR-0017:35).              *)
AnsweredIsKept ==
    \A s \in answered :
        \/ canonical # None /\ s \in canonical
        \/ \E n \in Stamp : copies[n] # None /\ s \in copies[n]

(* What a command reports is so: after "replaced" and "imported" all that    *)
(* callers were told is in the kept copy or, if they were told it since, in  *)
(* the new workspace; after "rolledBack" all of it is in the workspace and   *)
(* no rollback file is left over; each time callers are served.              *)
ReportIsTrue ==
    \A m \in Maintainer : step[m] = "ending" =>
        /\ result[m] \in {"replaced", "imported", "rolledBack"} =>
             accepting /\ served = runtime /\ canonical # None
        /\ result[m] \in {"replaced", "imported"} =>
             copies[stamp] # None /\ expected \subseteq canonical \cup copies[stamp]
        /\ result[m] = "rolledBack" =>
             copies[stamp] = None /\ expected \subseteq canonical
        /\ result[m] = "imported" => Archived \in canonical

Idle == (\A t \in Thread : pc[t] = "idle") /\ (\A t \in Shell : place[t] = "idle")

(* Every call returns, of the sync runtime and of the shell: a save accepted *)
(* before a shutdown is answered, and the gate, the locks, the joins and the *)
(* drain of a maintenance command never wait for each other in a circle.     *)
(* Stated of all calls together, which is the same as of each while finitely *)
(* many are made.                                                            *)
EveryCallReturns == ~Idle ~> Idle

(* Once a restore is over callers are served again, unless two things failed *)
(* (ADR-0017:8 counts "an unusable process after rollback" among the risks). *)
(* A restore whose history drain does not start again                        *)
(* returns early and leaves nobody serving (maintenance.rs:689, 703).        *)
ServesAgain ==
    \A m \in Maintainer :
        step[m] = "left" /\ kind[m] = "restore" /\ faults < 2 => accepting

(* Nobody works in an empty database where there was a workspace.  A failed  *)
(* rollback leaves the canonical path empty; the shell then deletes the      *)
(* candidate and opens a new database there (maintenance.rs:712, 1076), where*)
(* ADR-0017:39 has a failed rollback "preserves remaining paths for manual   *)
(* recovery".                                                                *)
NothingEmptied == canonical # {}

(* A cancel that was stored while an operation runs stays until that         *)
(* operation ends.  The guard of the one before clears the flag after it has *)
(* cleared the operation (maintenance.rs:307-312).                           *)
CancelStays ==
    [][cancel /\ operation # None /\ operation' = operation => cancel']_mvars
=============================================================================
