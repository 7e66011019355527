---------------------------- MODULE SyncReplica ----------------------------
(***************************************************************************)
(* One workspace replicated between devices: the durable queue of each     *)
(* device (skriuw-sqlite/src/sync.rs), the worker that drives it           *)
(* (skriuw-sync/src/cycle.rs, checkpoint.rs) and the part of the service   *)
(* they talk to (apps/sync/src/workspace-sync-object.ts).                  *)
(*                                                                         *)
(* A worker runs cycles: requeue what can be uploaded again, claim and     *)
(* push batches, pull, and when nothing is pending publish a checkpoint.   *)
(* Between any two steps of a worker the user may type, attach an image or *)
(* resolve a parked change, the process may die, a request may be lost, or *)
(* a request the worker gave up on may still reach the service.            *)
(*                                                                         *)
(* Time is abstracted: a row whose retry time has not come, a lease that   *)
(* has not run out and a publication that is not due are choices.  Every   *)
(* device starts linked and converged; sequences are counted from there.   *)
(***************************************************************************)
EXTENDS Integers, Sequences, FiniteSets, SequencesExt

CONSTANTS
  Device,      \* replicas of the workspace
  Note,        \* notes every replica holds
  Body,        \* bodies a user may type
  Origin,      \* the body every replica starts from
  Asset,       \* images a user may attach
  Refused,     \* bodies the service answers with a validation failure
  Oversized,   \* bodies that fit into no batch
  NoArchive,   \* no checkpoint in the worker's hands
  BatchLimit,  \* push_batch_limit
  MaxMade,     \* bound on the operations all users together make or retry
  MaxFaults,   \* bound on crashes, storage failures, strays and lost images
  MaxEvents    \* bound on both together

ASSUME OriginAssumption == Origin \notin Body
ASSUME RefusedAssumption == Refused \subseteq Body /\ Oversized \subseteq Body
ASSUME BoundsAssumption == BatchLimit \in Nat \ {0} /\ {MaxMade, MaxFaults, MaxEvents} \subseteq Nat

VARIABLES
  \* durable state of a device
  doc,         \* doc[d][n]: the canonical body
  outbox,      \* sync_outbox in client-sequence order
  nextSeq,     \* sync_connection.next_client_sequence
  claimed,     \* how many rows at the head of the outbox carry a claim
  blocked,     \* unresolved sync_blocked_operations
  received,    \* server sequences in sync_received_operations
  heads,       \* sync_document_heads
  cursor,      \* observed_server_sequence
  through,     \* rehydrated_through
  present,     \* images whose bytes are on the device
  \* the worker's memory
  pc,          \* where the cycle stands
  want,        \* rehydration_requested
  archive,     \* a checkpoint fetched, or exported and not yet published
  rejection,   \* RejectionTracker
  \* the service
  log,         \* sync_operations and their index: log[s] has sequence s
  floor,       \* compacted_through
  ckpt,        \* the latest checkpoint
  stray,       \* requests whose sender has given up on them
  \* history, for the properties and the bounds
  made,        \* operation ids a device has used
  resolved,    \* ids a device's user retried under another id or discarded
  faults       \* faults so far

durable == <<doc, outbox, nextSeq, claimed, blocked, received, heads, cursor, through, present>>
worker == <<pc, want, archive, rejection>>
service == <<log, floor, ckpt, stray>>
history == <<made, resolved, faults>>
vars == <<durable, worker, service, history>>

canonical == <<doc, received, heads, cursor, through>>

RejectionsBeforeParking == 3   \* CONSECUTIVE_REJECTIONS_BEFORE_PARKING
Bodies == Body \cup {Origin}

\* An operation writes a note's body or attaches an image.
Write(n, b) == [kind |-> "save", target |-> n, body |-> b]
Attach(a) == [kind |-> "attach", target |-> a, body |-> Origin]
Operation == {Write(n, b) : n \in Note, b \in Bodies} \cup {Attach(a) : a \in Asset}
WritesTo(op, n) == op.kind = "save" /\ op.target = n

\* attempts saturates at 2: the code only asks whether it exceeds 1.
Row == [id: Nat, cseq: Nat, op: Operation, attempts: 0 .. 2]
Entry == [dev: Device, id: Nat, cseq: Nat, op: Operation]
Parked == [id: Nat, op: Operation, reason: {"asset_missing", "cloud_rejected", "too_large"}]
Checkpoint == [seq: Nat, docs: [Note -> Bodies]]
Step == {"idle", "push", "claimed", "accepted", "pull", "settled", "exported", "fetch",
         "fetched", "rebuilt"}

NewRow(d, op) == [id |-> made[d] + 1, cseq |-> nextSeq[d], op |-> op, attempts |-> 0]
EntryOf(d, row) == [dev |-> d, id |-> row.id, cseq |-> row.cseq, op |-> row.op]
NoRejection == [ids |-> << >>, count |-> 0]
StartCheckpoint == [seq |-> 0, docs |-> [n \in Note |-> Origin]]

TypeOK ==
  /\ doc \in [Device -> [Note -> Bodies]]
  /\ outbox \in [Device -> Seq(Row)]
  /\ nextSeq \in [Device -> Nat]
  /\ claimed \in [Device -> Nat]
  /\ blocked \in [Device -> SUBSET Parked]
  /\ received \in [Device -> SUBSET Nat]
  /\ heads \in [Device -> [Note -> Nat]]
  /\ cursor \in [Device -> Nat]
  /\ through \in [Device -> Nat]
  /\ present \in [Device -> SUBSET Asset]
  /\ pc \in [Device -> Step]
  /\ want \in [Device -> BOOLEAN]
  /\ archive \in [Device -> Checkpoint \cup {NoArchive}]
  /\ rejection \in [Device -> [ids: Seq(Nat), count: 0 .. RejectionsBeforeParking]]
  /\ log \in Seq(Entry)
  /\ floor \in Nat
  /\ ckpt \in Checkpoint
  /\ stray \in SUBSET [dev: Device, rows: Seq(Row)]
  /\ made \in [Device -> Nat]
  /\ resolved \in [Device -> SUBSET Nat]
  /\ faults \in 0 .. MaxFaults

Init ==
  /\ doc = [d \in Device |-> [n \in Note |-> Origin]]
  /\ outbox = [d \in Device |-> << >>]
  /\ nextSeq = [d \in Device |-> 1]
  /\ claimed = [d \in Device |-> 0]
  /\ blocked = [d \in Device |-> {}]
  /\ received = [d \in Device |-> {}]
  /\ heads = [d \in Device |-> [n \in Note |-> 0]]
  /\ cursor = [d \in Device |-> 0]
  /\ through = [d \in Device |-> 0]
  /\ present = [d \in Device |-> {}]
  /\ pc = [d \in Device |-> "idle"]
  /\ want = [d \in Device |-> FALSE]
  /\ archive = [d \in Device |-> NoArchive]
  /\ rejection = [d \in Device |-> NoRejection]
  /\ log = << >>
  /\ floor = 0
  /\ ckpt = StartCheckpoint
  /\ stray = {}
  /\ made = [d \in Device |-> 0]
  /\ resolved = [d \in Device |-> {}]
  /\ faults = 0

Lesser(x, y) == IF x < y THEN x ELSE y
Greater(x, y) == IF x > y THEN x ELSE y

\* Variant: only parked operations count.
HasParked(d) == blocked[d] /= {}

HasPending(d) == outbox[d] /= << >> \/ blocked[d] /= {}

\* Variant: no local write is seen as pending.
WritePendingUnseen(d, n) == FALSE

\* local_document_write_pending: queued, or parked and unresolved.
WritePending(d, n) ==
  \/ \E i \in DOMAIN outbox[d] : WritesTo(outbox[d][i].op, n)
  \/ \E p \in blocked[d] : WritesTo(p.op, n)

-----------------------------------------------------------------------------
(***************************************************************************)
(* The user                                                                *)
(***************************************************************************)

\* coalesces_into_tail: the last row is an unclaimed save of n that was never
\* sent.
Coalesces(d, n) ==
  /\ Len(outbox[d]) > claimed[d]
  /\ LET tail == Last(outbox[d])
     IN  WritesTo(tail.op, n) /\ tail.attempts = 0

Made == FoldFunction(+, 0, made)
MayMake == Made < MaxMade /\ Made + faults < MaxEvents
Fault == faults < MaxFaults /\ Made + faults < MaxEvents /\ faults' = faults + 1

Enqueue(d, op) ==
  /\ MayMake
  /\ outbox' = [outbox EXCEPT ![d] = Append(@, NewRow(d, op))]
  /\ nextSeq' = [nextSeq EXCEPT ![d] = @ + 1]
  /\ made' = [made EXCEPT ![d] = @ + 1]

\* outbox_admission: what fits into no batch is parked at once.
SaveOversized(d, n, b) ==
  /\ b \in Oversized
  /\ MayMake
  /\ made' = [made EXCEPT ![d] = @ + 1]
  /\ blocked' = [blocked EXCEPT ![d] =
                   @ \cup {[id |-> made'[d], op |-> Write(n, b), reason |-> "too_large"]}]
  /\ doc' = [doc EXCEPT ![d][n] = b]
  /\ UNCHANGED <<outbox, nextSeq, claimed, received, heads, cursor, through, present, worker,
                 service, resolved, faults>>

SaveDocument(d, n, b) ==
  /\ b \notin Oversized /\ ~Coalesces(d, n)
  /\ Enqueue(d, Write(n, b))
  /\ doc' = [doc EXCEPT ![d][n] = b]
  /\ UNCHANGED <<claimed, blocked, received, heads, cursor, through, present, worker, service,
                 resolved, faults>>

SaveIntoTail(d, n, b) ==
  /\ b \notin Oversized /\ Coalesces(d, n)
  /\ outbox' = [outbox EXCEPT ![d][Len(outbox[d])].op = Write(n, b)]
  /\ doc' = [doc EXCEPT ![d][n] = b]
  /\ UNCHANGED <<nextSeq, claimed, blocked, received, heads, cursor, through, present, worker,
                 service, history>>

AttachImage(d, a) ==
  /\ Enqueue(d, Attach(a))
  /\ present' = [present EXCEPT ![d] = @ \cup {a}]
  /\ UNCHANGED <<claimed, blocked, canonical, worker, service, resolved, faults>>

\* Variant: a parked write goes back with the body it had.
RequeuedAsParked(d, p) == p.op

\* requeued_operation: a parked write goes back as a write of the body the
\* device shows now.
Requeued(d, p) == IF p.op.kind = "save" THEN Write(p.op.target, doc[d][p.op.target]) ELSE p.op

\* blocked_reason_is_retryable; nor can a body be queued that has become
\* oversized since.
RetryBlocked(d, p) ==
  /\ p.reason /= "too_large" /\ Requeued(d, p).body \notin Oversized
  /\ Enqueue(d, Requeued(d, p))
  /\ blocked' = [blocked EXCEPT ![d] = @ \ {p}]
  /\ resolved' = [resolved EXCEPT ![d] = @ \cup {p.id}]
  /\ UNCHANGED <<claimed, canonical, present, worker, service, faults>>

\* The record goes; the canonical workspace keeps what the change did.
DiscardBlocked(d, p) ==
  /\ blocked' = [blocked EXCEPT ![d] = @ \ {p}]
  /\ resolved' = [resolved EXCEPT ![d] = @ \cup {p.id}]
  /\ UNCHANGED <<outbox, nextSeq, claimed, canonical, present, worker, service, made, faults>>

-----------------------------------------------------------------------------
(***************************************************************************)
(* The cycle: beginning and rebuilding                                     *)
(***************************************************************************)

\* A new cycle rebuilds first when an earlier one found the log truncated.
StartRebuild(d) ==
  /\ pc[d] = "idle" /\ want[d]
  /\ want' = [want EXCEPT ![d] = FALSE]
  /\ pc' = [pc EXCEPT ![d] = "fetch"]
  /\ UNCHANGED <<durable, archive, rejection, service, history>>

FetchCheckpoint(d) ==
  /\ pc[d] = "fetch" /\ ckpt.seq > 0
  /\ archive' = [archive EXCEPT ![d] = ckpt]
  /\ pc' = [pc EXCEPT ![d] = "fetched"]
  /\ UNCHANGED <<durable, want, rejection, service, history>>

\* rehydrate_from_checkpoint replaces the workspace and forgets what was
\* received, unless a local change arrived since the log was found truncated.
Rebuild(d) ==
  /\ pc[d] = "fetched" /\ outbox[d] = << >>
  /\ doc' = [doc EXCEPT ![d] = archive[d].docs]
  /\ received' = [received EXCEPT ![d] = {}]
  /\ heads' = [heads EXCEPT ![d] = [n \in Note |-> 0]]
  /\ cursor' = [cursor EXCEPT ![d] = archive[d].seq]
  /\ through' = [through EXCEPT ![d] = archive[d].seq]
  /\ archive' = [archive EXCEPT ![d] = NoArchive]
  /\ pc' = [pc EXCEPT ![d] = "rebuilt"]
  /\ UNCHANGED <<outbox, nextSeq, claimed, blocked, present, want, rejection, service, history>>

RefuseRebuild(d) ==
  /\ pc[d] = "fetched" /\ outbox[d] /= << >>
  /\ archive' = [archive EXCEPT ![d] = NoArchive]
  /\ pc' = [pc EXCEPT ![d] = "idle"]
  /\ UNCHANGED <<durable, want, rejection, service, history>>

\* Parked images whose bytes are back on the device.
Back(d) == {p \in blocked[d] : p.reason = "asset_missing" /\ p.op.target \in present[d]}

RequeuedRows(d, order) ==
  [i \in DOMAIN order |-> [id |-> made[d] + i, cseq |-> nextSeq[d] + i - 1,
                           op |-> order[i].op, attempts |-> 0]]

\* The push phase starts by requeueing them in the order they were made.
BeginPush(d) ==
  /\ pc[d] = "rebuilt" \/ (pc[d] = "idle" /\ ~want[d])
  /\ \E order \in SetToSeqs(Back(d)) :
       /\ \A i, j \in DOMAIN order : i < j => order[i].id < order[j].id
       /\ outbox' = [outbox EXCEPT ![d] = @ \o RequeuedRows(d, order)]
       /\ nextSeq' = [nextSeq EXCEPT ![d] = @ + Len(order)]
       /\ made' = [made EXCEPT ![d] = @ + Len(order)]
  /\ blocked' = [blocked EXCEPT ![d] = @ \ Back(d)]
  /\ resolved' = [resolved EXCEPT ![d] = @ \cup {p.id : p \in Back(d)}]
  /\ pc' = [pc EXCEPT ![d] = "push"]
  /\ UNCHANGED <<claimed, canonical, present, want, archive, rejection, service, faults>>

-----------------------------------------------------------------------------
(***************************************************************************)
(* The cycle: pushing                                                      *)
(***************************************************************************)

Tried(row) == [row EXCEPT !.attempts = Lesser(2, @ + 1)]

\* claim_sync_operations takes rows from the head.  Fewer than the limit are
\* taken when the next row is too large to travel with them; rows claimed
\* earlier are taken again once their lease has run out.
Claim(d, k) ==
  /\ pc[d] = "push"
  /\ claimed[d] <= k /\ k <= BatchLimit
  /\ claimed' = [claimed EXCEPT ![d] = k]
  /\ outbox' = [outbox EXCEPT ![d] =
                  [i \in DOMAIN @ |-> IF i <= k THEN Tried(@[i]) ELSE @[i]]]
  /\ pc' = [pc EXCEPT ![d] = "claimed"]
  /\ UNCHANGED <<nextSeq, blocked, canonical, present, want, archive, rejection, service,
                 history>>

Batch(d) == SubSeq(outbox[d], 1, claimed[d])

\* Rows whose declared image bytes are not on the device.
Missing(d) ==
  {i \in 1 .. claimed[d] :
     outbox[d][i].op.kind = "attach" /\ outbox[d][i].op.target \notin present[d]}

\* release_sync_operations: the claim is given up, the rows stay.
Release(d, step) ==
  /\ claimed' = [claimed EXCEPT ![d] = 0]
  /\ pc' = [pc EXCEPT ![d] = step]
  /\ UNCHANGED <<outbox, nextSeq, blocked, canonical, present, want, archive>>

\* block_claimed_sync_operations moves rows out of the queue and renumbers
\* what is left from the number the head had.
\* Variant: what is left keeps its numbers.
NumberedAsBefore(rows, head) == rows

Renumbered(rows, head) == [i \in DOMAIN rows |-> [rows[i] EXCEPT !.cseq = head + i - 1]]

ParkedRow(row, reason) == [id |-> row.id, op |-> row.op, reason |-> reason]

Park(d, gone, reason) ==
  /\ \E kept \in SetToSeqs(DOMAIN outbox[d] \ gone) :
       /\ \A i, j \in DOMAIN kept : i < j => kept[i] < kept[j]
       /\ outbox' = [outbox EXCEPT ![d] =
                       Renumbered([i \in DOMAIN kept |-> @[kept[i]]], @[1].cseq)]
       /\ nextSeq' = [nextSeq EXCEPT ![d] = outbox[d][1].cseq + Len(kept)]
  /\ blocked' = [blocked EXCEPT ![d] = @ \cup {ParkedRow(outbox[d][i], reason) : i \in gone}]
  /\ claimed' = [claimed EXCEPT ![d] = 0]
  /\ pc' = [pc EXCEPT ![d] = "push"]
  /\ UNCHANGED <<canonical, present, want, archive>>

\* Variant: a row is parked whatever became of its earlier attempts.
NeverTriedBefore(d) == FALSE

\* blocking_requires_release: a row tried before may be in the log already.
TriedBefore(d) == \E i \in 1 .. claimed[d] : outbox[d][i].attempts > 1

ParkMissing(d) ==
  /\ pc[d] = "claimed" /\ Missing(d) /= {}
  /\ ~TriedBefore(d)
  /\ Park(d, Missing(d), "asset_missing")
  /\ UNCHANGED <<rejection, service, history>>

ReleaseMissing(d) ==
  /\ pc[d] = "claimed" /\ Missing(d) /= {}
  /\ TriedBefore(d)
  /\ Release(d, "pull")
  /\ UNCHANGED <<rejection, service, history>>

\* The service knows an operation id it accepted, also after compaction.
Known(d, row) == \E s \in DOMAIN log : log[s].dev = d /\ log[s].id = row.id
SequenceOf(d, row) == CHOOSE s \in DOMAIN log : log[s].dev = d /\ log[s].id = row.id
DeviceHead(d) == Cardinality({s \in DOMAIN log : log[s].dev = d})

\* pushTransaction accepts a batch whole or not at all: rows it knows must be
\* what it recorded, new rows must continue the device's numbering and pass
\* validation.  The rows it knows lead, since it took them in queue order.
Admits(d, rows, known) ==
  /\ \A i \in 1 .. known : Known(d, rows[i]) /\ log[SequenceOf(d, rows[i])] = EntryOf(d, rows[i])
  /\ \A i \in known + 1 .. Len(rows) :
       /\ ~Known(d, rows[i])
       /\ rows[i].cseq = DeviceHead(d) + i - known
       /\ rows[i].op.body \notin Refused

Accept(d, rows, known) ==
  log' = [s \in 1 .. Len(log) + Len(rows) - known |->
            IF s <= Len(log) THEN log[s] ELSE EntryOf(d, rows[known + s - Len(log)])]

Push(d) ==
  /\ pc[d] = "claimed" /\ Missing(d) = {}
  /\ \E known \in 0 .. claimed[d] :
       Admits(d, Batch(d), known) /\ Accept(d, Batch(d), known)
  /\ pc' = [pc EXCEPT ![d] = "accepted"]
  /\ UNCHANGED <<durable, want, archive, rejection, floor, ckpt, stray, history>>

\* Variant: the cursor moves past what other devices wrote in between.
AllClaimed(d) == claimed[d]

\* How far the sequences of the claimed rows continue the cursor.
Contiguous(d) ==
  Max({k \in 0 .. claimed[d] : \A i \in 1 .. k : SequenceOf(d, outbox[d][i]) = cursor[d] + i})

\* Variant: the rows queued behind the claim go as well.
NoneUnclaimed(d) == << >>

Unclaimed(d) == SubSeq(outbox[d], claimed[d] + 1, Len(outbox[d]))

SequencesOf(d, places) == {SequenceOf(d, outbox[d][i]) : i \in places}
ClaimedWrites(d, n) == {i \in 1 .. claimed[d] : WritesTo(outbox[d][i].op, n)}

\* acknowledge_sync_operations: the claimed rows become part of the device's
\* history.
Acknowledge(d) ==
  /\ pc[d] = "accepted"
  /\ received' = [received EXCEPT ![d] = @ \cup SequencesOf(d, 1 .. claimed[d])]
  /\ heads' = [heads EXCEPT ![d] =
                 [n \in Note |-> Max({@[n]} \cup SequencesOf(d, ClaimedWrites(d, n)))]]
  /\ cursor' = [cursor EXCEPT ![d] = @ + Contiguous(d)]
  /\ outbox' = [outbox EXCEPT ![d] = Unclaimed(d)]
  /\ claimed' = [claimed EXCEPT ![d] = 0]
  /\ rejection' = [rejection EXCEPT ![d] = NoRejection]
  /\ pc' = [pc EXCEPT ![d] = "push"]
  /\ UNCHANGED <<doc, nextSeq, blocked, through, present, want, archive, service, history>>

\* The request or its answer is lost, or the acknowledgement cannot be
\* written: the claim is released and the cycle goes on to pull, or ends when
\* it was cancelled or signed out.
PushFails(d, step) ==
  /\ pc[d] = "accepted" \/ (pc[d] = "claimed" /\ Missing(d) = {})
  /\ Release(d, step)
  /\ UNCHANGED <<rejection, service, history>>

\* The worker gives up on a request that is still on its way.
PushTimesOut(d, step) ==
  /\ pc[d] = "claimed" /\ Missing(d) = {}
  /\ Fault
  /\ stray' = stray \cup {[dev |-> d, rows |-> Batch(d)]}
  /\ Release(d, step)
  /\ UNCHANGED <<rejection, log, floor, ckpt, made, resolved>>

StrayArrives(r) ==
  /\ stray' = stray \ {r}
  /\ \/ \E known \in 0 .. Len(r.rows) :
          Admits(r.dev, r.rows, known) /\ Accept(r.dev, r.rows, known)
     \/ /\ \A known \in 0 .. Len(r.rows) : ~Admits(r.dev, r.rows, known)
        /\ UNCHANGED log
  /\ UNCHANGED <<durable, worker, floor, ckpt, history>>

\* A batch the service refuses is tried again by later cycles; the third
\* refusal of the same batch in a row parks it.
Refusals(d) ==
  LET ids == [i \in 1 .. claimed[d] |-> outbox[d][i].id]
  IN  [ids |-> ids, count |-> IF rejection[d].ids = ids THEN rejection[d].count + 1 ELSE 1]

PushRefused(d) ==
  /\ pc[d] = "claimed" /\ Missing(d) = {}
  /\ \A known \in 0 .. claimed[d] : ~Admits(d, Batch(d), known)
  /\ \/ /\ Refusals(d).count < RejectionsBeforeParking
        /\ rejection' = [rejection EXCEPT ![d] = Refusals(d)]
        /\ Release(d, "pull")
     \/ /\ Refusals(d).count = RejectionsBeforeParking
        /\ rejection' = [rejection EXCEPT ![d] = NoRejection]
        /\ Park(d, 1 .. claimed[d], "cloud_rejected")
  /\ UNCHANGED <<service, history>>

\* Nothing is left to claim, what is left is not due, or the cycle has pushed
\* its share of batches.
EndPush(d) ==
  /\ pc[d] = "push"
  /\ pc' = [pc EXCEPT ![d] = "pull"]
  /\ UNCHANGED <<durable, want, archive, rejection, service, history>>

-----------------------------------------------------------------------------
(***************************************************************************)
(* The cycle: pulling                                                      *)
(***************************************************************************)

InLog(d) == pc[d] = "pull" /\ floor <= cursor[d] /\ cursor[d] < Len(log)

\* An operation received before only moves the cursor.
PullDuplicate(d) ==
  /\ InLog(d)
  /\ cursor[d] + 1 \in received[d]
  /\ cursor' = [cursor EXCEPT ![d] = @ + 1]
  /\ UNCHANGED <<doc, outbox, nextSeq, claimed, blocked, received, heads, through, present,
                 worker, service, history>>

Incorporate(d, s) ==
  /\ received' = [received EXCEPT ![d] = @ \cup {s}]
  /\ cursor' = [cursor EXCEPT ![d] = s]
  /\ heads' = [heads EXCEPT ![d] =
                 [n \in Note |-> IF WritesTo(log[s].op, n) THEN Greater(@[n], s) ELSE @[n]]]

\* The queued rows the operation at sequence s is the echo of: one at most.
Echoed(d, s) == {i \in DOMAIN outbox[d] : log[s].dev = d /\ log[s].id = outbox[d][i].id}

\* Variant: an echo always takes a claim with it.
ClaimLosesOne(d, i) == claimed[d] - 1

\* The row goes, and with it its claim if it has one.
ClaimAfterEcho(d, i) == IF i <= claimed[d] THEN claimed[d] - 1 ELSE claimed[d]

PullEcho(d) ==
  /\ InLog(d)
  /\ cursor[d] + 1 \notin received[d]
  /\ Incorporate(d, cursor[d] + 1)
  /\ \E i \in Echoed(d, cursor[d] + 1) :
       /\ outbox' = [outbox EXCEPT ![d] = RemoveAt(@, i)]
       /\ claimed' = [claimed EXCEPT ![d] = ClaimAfterEcho(d, i)]
  /\ UNCHANGED <<doc, nextSeq, blocked, through, present, worker, service, history>>

\* Anything else goes through reconcile_document_body: an equal body is a
\* no-op, a pending local write or a newer head supersedes it, otherwise it
\* is applied.  An image's bytes are fetched with it.
PullRemote(d) ==
  LET s == cursor[d] + 1
      op == log[s].op
  IN  /\ InLog(d)
      /\ s \notin received[d]
      /\ Echoed(d, s) = {}
      /\ doc' = IF op.kind = "save" /\ ~WritePending(d, op.target) /\ s > heads[d][op.target]
                THEN [doc EXCEPT ![d][op.target] = op.body]
                ELSE doc
      /\ present' = IF op.kind = "attach"
                    THEN [present EXCEPT ![d] = @ \cup {op.target}]
                    ELSE present
      /\ Incorporate(d, s)
      /\ UNCHANGED <<outbox, nextSeq, claimed, blocked, through, worker, service, history>>

\* Variant: a stranded device does not ask for a rebuild.
PullTruncatedIdly(d) ==
  /\ pc[d] = "pull" /\ cursor[d] < floor
  /\ pc' = [pc EXCEPT ![d] = "idle"]
  /\ UNCHANGED <<durable, want, archive, rejection, service, history>>

\* The service no longer serves what follows the cursor.  The worker asks for
\* a rebuild only when no unclaimed row waits to be uploaded.
PullTruncated(d) ==
  /\ pc[d] = "pull" /\ cursor[d] < floor
  /\ want' = [want EXCEPT ![d] = (Len(outbox[d]) = claimed[d])]
  /\ pc' = [pc EXCEPT ![d] = "idle"]
  /\ UNCHANGED <<durable, archive, rejection, service, history>>

\* The log is read to its end: with nothing pending the device is up to date.
PullDrained(d) ==
  /\ pc[d] = "pull" /\ floor <= cursor[d] /\ cursor[d] = Len(log)
  /\ pc' = [pc EXCEPT ![d] = IF HasPending(d) THEN "idle" ELSE "settled"]
  /\ UNCHANGED <<durable, want, archive, rejection, service, history>>

-----------------------------------------------------------------------------
(***************************************************************************)
(* Checkpoints and compaction                                              *)
(***************************************************************************)

\* The archive is exported after the cursor was read; a local change that
\* slipped in is noticed by looking for pending operations afterwards.
ExportArchive(d) ==
  /\ pc[d] = "settled" /\ cursor[d] > 0 /\ ~HasPending(d)
  /\ archive' = [archive EXCEPT ![d] = [seq |-> cursor[d], docs |-> doc[d]]]
  /\ pc' = [pc EXCEPT ![d] = "exported"]
  /\ UNCHANGED <<durable, want, rejection, service, history>>

\* No checkpoint is due, or a local change came in the meantime.
SkipPublication(d) ==
  /\ pc[d] = "settled"
  /\ pc' = [pc EXCEPT ![d] = "idle"]
  /\ UNCHANGED <<durable, want, archive, rejection, service, history>>

\* The service keeps the checkpoint unless it lies below the floor; a device
\* that asks for the latest is given the one with the greatest sequence.
PublishCheckpoint(d) ==
  /\ pc[d] = "exported"
  /\ ckpt' = IF archive[d].seq >= ckpt.seq THEN archive[d] ELSE ckpt
  /\ archive' = [archive EXCEPT ![d] = NoArchive]
  /\ pc' = [pc EXCEPT ![d] = "idle"]
  /\ UNCHANGED <<durable, want, rejection, log, floor, stray, history>>

\* The log below a checkpoint may go, whoever has not read it: devices that
\* stay away too long are not waited for.
Compact(f) ==
  /\ floor < f /\ f <= ckpt.seq
  /\ floor' = f
  /\ UNCHANGED <<durable, worker, log, ckpt, stray, history>>

-----------------------------------------------------------------------------
(***************************************************************************)
(* Interruptions and faults                                                *)
(***************************************************************************)

\* A failed request, a pause or a sign-out ends a cycle that holds no claim at
\* any point.
EndCycle(d) ==
  /\ pc[d] \in {"push", "pull", "settled", "exported", "fetch", "fetched"}
  /\ pc' = [pc EXCEPT ![d] = "idle"]
  /\ archive' = [archive EXCEPT ![d] = NoArchive]
  /\ UNCHANGED <<durable, want, rejection, service, history>>

\* A storage failure ends the cycle and leaves the claim standing.
StorageFailure(d) ==
  /\ Fault
  /\ pc[d] \in {"claimed", "accepted"}
  /\ pc' = [pc EXCEPT ![d] = "idle"]
  /\ UNCHANGED <<durable, want, archive, rejection, service, made, resolved>>

\* The process dies; the next one releases the claims and remembers nothing.
Crash(d) ==
  /\ Fault
  /\ pc[d] /= "idle"
  /\ claimed' = [claimed EXCEPT ![d] = 0]
  /\ pc' = [pc EXCEPT ![d] = "idle"]
  /\ want' = [want EXCEPT ![d] = FALSE]
  /\ archive' = [archive EXCEPT ![d] = NoArchive]
  /\ rejection' = [rejection EXCEPT ![d] = NoRejection]
  /\ UNCHANGED <<outbox, nextSeq, blocked, canonical, present, service, made, resolved>>

LoseAsset(d, a) ==
  /\ Fault
  /\ a \in present[d]
  /\ present' = [present EXCEPT ![d] = @ \ {a}]
  /\ UNCHANGED <<doc, outbox, nextSeq, claimed, blocked, received, heads, cursor, through,
                 worker, service, made, resolved>>

RestoreAsset(d, p) ==
  /\ p.reason = "asset_missing"
  /\ present' = [present EXCEPT ![d] = @ \cup {p.op.target}]
  /\ present' /= present
  /\ UNCHANGED <<doc, outbox, nextSeq, claimed, blocked, received, heads, cursor, through,
                 worker, service, history>>

-----------------------------------------------------------------------------

User(d) ==
  \/ \E n \in Note, b \in Body : SaveDocument(d, n, b)
  \/ \E n \in Note, b \in Body : SaveIntoTail(d, n, b)
  \/ \E n \in Note, b \in Body : SaveOversized(d, n, b)
  \/ \E a \in Asset : AttachImage(d, a)
  \/ \E p \in blocked[d] : RetryBlocked(d, p)
  \/ \E p \in blocked[d] : DiscardBlocked(d, p)
  \/ \E p \in blocked[d] : RestoreAsset(d, p)

Cycle(d) ==
  \/ StartRebuild(d)
  \/ FetchCheckpoint(d)
  \/ Rebuild(d)
  \/ RefuseRebuild(d)
  \/ BeginPush(d)
  \/ \E k \in 1 .. Len(outbox[d]) : Claim(d, k)
  \/ ParkMissing(d)
  \/ ReleaseMissing(d)
  \/ Push(d)
  \/ Acknowledge(d)
  \/ PushRefused(d)
  \/ EndPush(d)
  \/ PullDuplicate(d)
  \/ PullEcho(d)
  \/ PullRemote(d)
  \/ PullTruncated(d)
  \/ PullDrained(d)
  \/ ExportArchive(d)
  \/ SkipPublication(d)
  \/ PublishCheckpoint(d)

Trouble(d) ==
  \/ \E step \in {"pull", "idle"} : PushFails(d, step)
  \/ \E step \in {"pull", "idle"} : PushTimesOut(d, step)
  \/ EndCycle(d)
  \/ StorageFailure(d)
  \/ Crash(d)
  \/ \E a \in Asset : LoseAsset(d, a)

Next ==
  \/ \E d \in Device : User(d) \/ Cycle(d) \/ Trouble(d)
  \/ \E r \in stray : StrayArrives(r)
  \/ \E f \in 1 .. ckpt.seq : Compact(f)

Spec == Init /\ [][Next]_vars

-----------------------------------------------------------------------------
(***************************************************************************)
(* Properties                                                              *)
(***************************************************************************)

IdsIn(rows) == {rows[i].id : i \in DOMAIN rows}
IdsInLog(d) == {log[s].id : s \in {t \in DOMAIN log : log[t].dev = d}}
IdsParked(d) == {p.id : p \in blocked[d]}

\* The rows of a queue are numbered without a gap up to the next number; those
\* the service has accepted are the oldest, hold exactly what it recorded, and
\* the first one it has not is the one it expects next.  Then no batch is ever
\* refused for its numbers, whatever was lost, late, parked or renumbered.
OutboxAligned ==
  \A d \in Device :
    \A i \in DOMAIN outbox[d] :
      LET row == outbox[d][i]
      IN  /\ row.cseq = nextSeq[d] - Len(outbox[d]) + i - 1
          /\ Known(d, row) => log[SequenceOf(d, row)] = EntryOf(d, row)
          /\ ~Known(d, row) /\ (i = 1 \/ Known(d, outbox[d][i - 1])) =>
               row.cseq = DeviceHead(d) + 1

\* What the worker holds of the queue while a push is under way is what it
\* claimed: neither the user's edits nor an echo change it, and after an
\* acceptance every claimed row has its sequence.
ClaimHolds ==
  \A d \in Device :
    /\ claimed[d] <= Len(outbox[d])
    /\ pc[d] \in {"claimed", "accepted"} => claimed[d] > 0
    /\ pc[d] = "accepted" => \A i \in 1 .. claimed[d] : Known(d, outbox[d][i])
    /\ \A i \in 1 .. claimed[d] : outbox[d][i].attempts > 0

\* The service records an operation once, however often it was sent.
AcceptedOnce ==
  \A s, t \in DOMAIN log : log[s].dev = log[t].dev /\ log[s].id = log[t].id => s = t

\* No operation the user made is lost: it is queued, accepted, parked for the
\* user to see, or was retried or discarded by the user.
NothingLost ==
  \A d \in Device :
    1 .. made[d] = IdsIn(outbox[d]) \cup IdsInLog(d) \cup IdsParked(d) \cup resolved[d]

\* A row leaves the queue only when it is accepted or parked, and a parked row
\* was never accepted: what the user is offered to retry or discard is not
\* already on the other devices.
ParkedNeverAccepted ==
  \A d \in Device : IdsParked(d) \cap (IdsInLog(d) \cup IdsIn(outbox[d])) = {}

\* Everything up to the cursor was received or came with a checkpoint, and
\* what was received above the cursor is the device's own.
CursorCovers ==
  \A d \in Device :
    /\ cursor[d] <= Len(log)
    /\ \A s \in 1 .. cursor[d] : s <= through[d] \/ s \in received[d]
    /\ \A s \in received[d] : s <= cursor[d] \/ log[s].dev = d

\* What the three places know of one row agrees: the worker's claim with the
\* queue under the user's edits, the log with the one acceptance of an operation
\* sent again, and the cursor with what was pulled, pushed or rebuilt.
QueueLogCursorAgree == ClaimHolds /\ AcceptedOnce /\ CursorCovers

\* The last queued write of a note is the body the device shows: a device
\* never publishes a body it has already moved past, unless what it moved on to
\* fits into no batch.
QueueShowsDoc ==
  \A d \in Device, n \in Note :
    LET writes == {i \in DOMAIN outbox[d] : WritesTo(outbox[d][i].op, n)}
    IN  writes /= {} => outbox[d][Max(writes)].op.body = doc[d][n] \/ doc[d][n] \in Oversized

LastWrite(n, s) == Max({0} \cup {t \in 1 .. s : WritesTo(log[t].op, n)})
BodyAt(s) == IF s = 0 THEN Origin ELSE log[s].op.body

\* A checkpoint at sequence s is what the log says up to s, also when it was
\* published by a device whose own writes were acknowledged out of order or
\* that was itself rebuilt from a checkpoint.
CheckpointIsLog ==
  /\ ckpt.seq <= Len(log)
  /\ \A n \in Note : ckpt.docs[n] = BodyAt(LastWrite(n, ckpt.seq))

\* A device with nothing pending that read the whole log.
CaughtUp(d) == outbox[d] = << >> /\ cursor[d] = Len(log)

\* "for every concurrent pair of writes, both devices keep the write with the
\* greater server sequence": a device that read the whole log and has nothing
\* queued or parked shows the last write, unless it was rebuilt or its user
\* discarded a write made after every one the service accepted from it.
KeepsGreater ==
  \A d \in Device, n \in Note :
    /\ CaughtUp(d) /\ blocked[d] = {} /\ through[d] = 0
    /\ \E s \in DOMAIN log :
         log[s].dev = d /\ WritesTo(log[s].op, n) /\ \A id \in resolved[d] : id < log[s].id
    => doc[d][n] = BodyAt(LastWrite(n, Len(log)))

(***************************************************************************)
(* The order of note bodies that all of this implements.  A queued row has *)
(* a sequence as soon as the service accepted it; a note's head is the one *)
(* recorded, or the last write the checkpoint stands for.                  *)
(***************************************************************************)
OrderRow(d, row) ==
  [note |-> row.op.target, body |-> row.op.body,
   seq |-> IF Known(d, row) THEN SequenceOf(d, row) ELSE 0]
OrderQueue == [d \in Device |-> [i \in DOMAIN outbox[d] |-> OrderRow(d, outbox[d][i])]]
OrderLog ==
  [s \in DOMAIN log |-> [dev |-> log[s].dev, note |-> log[s].op.target, body |-> log[s].op.body]]
OrderAhead == [d \in Device |-> {s \in received[d] : s > cursor[d]}]
OrderHead == [d \in Device |-> [n \in Note |-> Greater(heads[d][n], LastWrite(n, through[d]))]]

Order == INSTANCE DocumentOrder WITH
  MaxWrites <- -1, log <- OrderLog, queue <- OrderQueue, ahead <- OrderAhead, head <- OrderHead

\* Without images and refusals, the workers, the queue, the checkpoints and
\* the service together do nothing but what DocumentOrder allows.
ImplementsOrder == Order!Spec
=============================================================================
