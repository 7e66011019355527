------------------------- MODULE WorkspaceSyncObject -------------------------
(***************************************************************************)
(* The workspace service (apps/sync workspace-sync-object.ts): one durable  *)
(* object per workspace that orders pushes, keeps checkpoints and reclaims  *)
(* what no device needs.  Every transaction is one action; the object       *)
(* awaits the object store between them, so requests interleave there.      *)
(***************************************************************************)
EXTENDS Naturals, Sequences, FiniteSets, SequencesExt, FiniteSetsExt

CONSTANTS
    Device, Digest, Key,
    Operation,      \* [device, client, digest, seal]; same device and client:
                    \* the same place in the device's sequence, other content
    Checkpoint,     \* [seq, digest, seal]
    Compaction,     \* requests that may compact at the same time
    Quota,          \* chunks a workspace may store, all of one size
    MaxRequests,    \* requests between two of their steps
    NoKey           \* no seal, no marker

MaxRetained == 2    \* MAX_RETAINED_CHECKPOINTS

ASSUME ServiceAssumption ==
    /\ IsFiniteSet(Operation) /\ NoKey \notin Key /\ Quota \in Nat /\ MaxRequests \in Nat
    /\ Operation \subseteq [device : Device, client : Nat \ {0},
                            digest : Digest, seal : Key \cup {NoKey}]
    /\ Checkpoint \subseteq [seq : Nat \ {0}, digest : Digest,
                             seal : Key \cup {NoKey}]

VARIABLES
    accepted,       \* sync_operation_index: every operation, in order
    rows,           \* sync_operations: the sequences still stored
    floor,          \* sync_log_floor.compacted_through
    checkpoints,    \* sync_checkpoints
    cursors,        \* sync_device_cursors: device -> sequence or NoCursor
    marker,         \* sync_encryption: the key, and the sequence it came at
    refs,           \* sync_chunk_refs: owner (sequence or checkpoint) and digest
    marked,         \* sync_chunk_deleting
    sized,          \* sync_chunk_sizes, and with it sync_storage_usage
    stored,         \* the object store
    pushing,        \* pushes verified and not yet committed
    publishing,     \* publications verified and not yet committed
    uploading,      \* per digest: no upload, one admitted, one put
    pc, deleting    \* per compaction: its next step, the digests it deletes

log     == <<accepted, rows, floor>>
chunks  == <<marked, sized>>
flight  == <<pushing, publishing, uploading>>
compact == <<pc, deleting>>
vars    == <<log, checkpoints, cursors, marker, refs, chunks, stored, flight,
             compact>>

Sequence == 0..Cardinality(Operation)
NoCursor == Cardinality(Operation) + 1

TypeOK ==
    /\ accepted \in Seq(Operation)
    /\ rows \subseteq DOMAIN accepted
    /\ floor \in Sequence
    /\ checkpoints \subseteq {c \in Checkpoint : c.seq <= Len(accepted)}
    /\ cursors \in [Device -> Sequence \cup {NoCursor}]
    /\ marker \in [key : Key \cup {NoKey}, from : Sequence]
    /\ refs \subseteq ({"operation", "checkpoint"} \X Sequence) \X Digest
    /\ marked \subseteq Digest /\ sized \subseteq Digest
    /\ stored \subseteq Digest
    /\ pushing \subseteq Operation /\ publishing \subseteq Checkpoint
    /\ uploading \in [Digest -> {"none", "admitted", "put"}]
    /\ pc \in [Compaction -> {"idle", "plan", "delete", "finish", "list", "mark",
                              "sweepDelete", "sweepFinish"}]
    /\ deleting \in [Compaction -> SUBSET Digest]

Init ==
    /\ accepted = <<>> /\ rows = {} /\ floor = 0
    /\ checkpoints = {}
    /\ cursors = [d \in Device |-> NoCursor]
    /\ marker = [key |-> NoKey, from |-> 0]
    /\ refs = {} /\ marked = {} /\ sized = {}
    /\ stored = {}
    /\ pushing = {} /\ publishing = {}
    /\ uploading = [g \in Digest |-> "none"]
    /\ pc = [k \in Compaction |-> "idle"]
    /\ deleting = [k \in Compaction |-> {}]

-----------------------------------------------------------------------------
(* What the transactions read.                                               *)

\* `latestServerSequence`: the mark survives the removal of every row
Latest == Len(accepted)

Referenced(g) == \E r \in refs : r[2] = g

\* The identical operation was accepted, also when compaction removed its row
Seen(o) == \E s \in DOMAIN accepted : accepted[s] = o

\* Another operation holds the device's place
Conflicts(o) ==
    \E s \in DOMAIN accepted :
        /\ accepted[s] # o
        /\ accepted[s].device = o.device /\ accepted[s].client = o.client

LastClient(d) ==
    Max({0} \cup {accepted[s].client :
                    s \in {t \in DOMAIN accepted : accepted[t].device = d}})

\* A plausible slip: unsealed content is let in after the workspace is sealed
AdmitsAnything(seal) == seal = NoKey \/ marker.key \in {NoKey, seal}

\* `admitSealState`: no plain content after a key, no other key than the first
Admits(seal) == IF seal = NoKey THEN marker.key = NoKey
                ELSE marker.key \in {NoKey, seal}

\* The first sealed content, or the first claim, writes the marker
Mark(seal) ==
    marker' = IF marker.key = NoKey /\ seal # NoKey
              THEN [key |-> seal, from |-> Latest] ELSE marker

-----------------------------------------------------------------------------
(* Push.                                                                     *)

InFlight == Cardinality(pushing) + Cardinality(publishing)
                + Cardinality({g \in Digest : uploading[g] # "none"})

MayStart == InFlight < MaxRequests

\* `missingPushContent` awaits the object store before the transaction; only
\* what is not yet accepted is looked up
PushVerify(o) ==
    /\ o \notin pushing /\ MayStart
    /\ Seen(o) \/ o.digest \in stored
    /\ pushing' = pushing \cup {o}
    /\ UNCHANGED <<log, checkpoints, cursors, marker, refs, chunks, stored,
                   publishing, uploading, compact>>

\* A plausible slip: chunks being deleted are not looked at again
NeverDoomed(g) == FALSE

\* `digestsMarkedForDeletion`, inside the transaction
Doomed(g) == g \in marked

PushAccept(o) ==
    /\ o \in pushing
    /\ ~Seen(o) /\ ~Conflicts(o)
    /\ Admits(o.seal) /\ Mark(o.seal)
    /\ o.client = LastClient(o.device) + 1
    /\ ~Doomed(o.digest)
    /\ accepted' = Append(accepted, o)
    /\ rows' = rows \cup {Len(accepted')}
    /\ refs' = refs \cup {<<<<"operation", Len(accepted')>>, o.digest>>}
    /\ pushing' = pushing \ {o}
    /\ UNCHANGED <<floor, checkpoints, cursors, chunks, stored, publishing,
                   uploading, compact>>

\* Answered from the log or the index, or refused: nothing is written
PushAnswer(o) ==
    /\ o \in pushing
    /\ \/ Seen(o) \/ Conflicts(o) \/ ~Admits(o.seal)
       \/ o.client # LastClient(o.device) + 1 \/ Doomed(o.digest)
    /\ pushing' = pushing \ {o}
    /\ UNCHANGED <<log, checkpoints, cursors, marker, refs, chunks, stored,
                   publishing, uploading, compact>>

Acknowledge(d, s) ==
    /\ s <= Latest
    /\ cursors' = [cursors EXCEPT
                     ![d] = IF @ = NoCursor THEN s ELSE Max({@, s})]
    /\ UNCHANGED <<log, checkpoints, marker, refs, chunks, stored, flight,
                   compact>>

ClaimEncryption(key) ==
    /\ Mark(key)
    /\ UNCHANGED <<log, checkpoints, cursors, refs, chunks, stored, flight,
                   compact>>

-----------------------------------------------------------------------------
(* Checkpoints.  Whoever publishes one also asks for a compaction.           *)

\* A plausible slip: a checkpoint from ahead of the log is taken
AheadToo(c) == TRUE

NotAhead(c) == c.seq <= Latest

PublishVerify(c) ==
    /\ c \notin publishing /\ MayStart
    /\ NotAhead(c) /\ c.digest \in stored
    /\ publishing' = publishing \cup {c}
    /\ UNCHANGED <<log, checkpoints, cursors, marker, refs, chunks, stored,
                   pushing, uploading, compact>>

\* A plausible slip: the floor is checked before the await only
AboveAnyFloor(c) == TRUE

AboveFloor(c) == c.seq >= floor

Publishable(c) == AboveFloor(c) /\ ~Doomed(c.digest) /\ Admits(c.seal)

PublishCheckpoint(c, k) ==
    /\ c \in publishing /\ Publishable(c)
    /\ Mark(c.seal)
    /\ checkpoints' = {x \in checkpoints : x.seq # c.seq} \cup {c}
    /\ refs' = refs \cup {<<<<"checkpoint", c.seq>>, c.digest>>}
    /\ publishing' = publishing \ {c}
    /\ pc[k] = "idle"
    /\ pc' = [pc EXCEPT ![k] = "plan"]
    /\ UNCHANGED <<log, cursors, chunks, stored, pushing, uploading, deleting>>

RefuseCheckpoint(c) ==
    /\ c \in publishing /\ ~Publishable(c)
    /\ publishing' = publishing \ {c}
    /\ UNCHANGED <<log, checkpoints, cursors, marker, refs, chunks, stored,
                   pushing, uploading, compact>>

-----------------------------------------------------------------------------
(* compact: plan, delete, finish; then sweep what was never referenced.      *)

Retained ==
    {c \in checkpoints :
        Cardinality({x \in checkpoints : x.seq > c.seq}) < MaxRetained}

\* The cursors of the devices that acknowledged within the idle window
Active(gone) == [d \in Device |-> IF d \in gone THEN NoCursor ELSE cursors[d]]

\* A plausible slip: a device that lags does not hold the log back
AcknowledgedByAny(gone) == Max({0} \cup (Range(Active(gone)) \ {NoCursor}))

AcknowledgedEverywhere(gone) ==
    LET known == Range(Active(gone)) \ {NoCursor}
    IN  IF known = {} THEN 0 ELSE Min(known)

HydratableFrom ==
    IF Retained = {} THEN 0 ELSE Min({c.seq : c \in Retained})

CompactBelow(gone) == Min({HydratableFrom, AcknowledgedEverywhere(gone)})

\* A plausible slip: the floor is set, and may come down again
FloorAsPlanned(gone) ==
    IF CompactBelow(gone) = 0 THEN floor ELSE CompactBelow(gone)

\* `raiseLogFloor`: the floor only ever rises
RaisedFloor(gone) == Max({floor, CompactBelow(gone)})

Owns(owner, kept, remaining) ==
    \/ owner[1] = "operation" /\ owner[2] \in remaining
    \/ owner[1] = "checkpoint" /\ \E c \in kept : c.seq = owner[2]

\* `planCompaction`: one transaction, which also takes over every mark an
\* earlier compaction left.  `raiseLogFloor` throws when the floor would pass a
\* retained checkpoint; LogServesEveryDevice says that it never does.
Plan(k, gone) ==
    LET remaining == {s \in rows : s > CompactBelow(gone)}
        dropped   == {r \in refs : ~Owns(r[1], Retained, remaining)}
        orphaned  == {r[2] : r \in dropped} \ {r[2] : r \in refs \ dropped}
    IN  /\ pc[k] = "plan"
        /\ cursors' = Active(gone)
        /\ checkpoints' = Retained
        /\ rows' = remaining
        /\ floor' = RaisedFloor(gone)
        /\ refs' = refs \ dropped
        /\ marked' = marked \cup orphaned
        /\ deleting' = [deleting EXCEPT ![k] = marked']
        /\ pc' = [pc EXCEPT ![k] = "delete"]
        /\ UNCHANGED <<accepted, marker, sized, stored, flight>>

\* `deleteChunks`: awaited, so it takes effect while other requests run
DeleteChunks(k) ==
    /\ pc[k] \in {"delete", "sweepDelete"}
    /\ stored' = stored \ deleting[k]
    /\ pc' = [pc EXCEPT ![k] = IF @ = "delete" THEN "finish"
                               ELSE "sweepFinish"]
    /\ UNCHANGED <<log, checkpoints, cursors, marker, refs, chunks, flight,
                   deleting>>

FinishDeletion(k) ==
    /\ pc[k] \in {"finish", "sweepFinish"}
    /\ marked' = marked \ deleting[k]
    /\ sized' = sized \ deleting[k]
    /\ deleting' = [deleting EXCEPT ![k] = {}]
    /\ pc' = [pc EXCEPT ![k] = IF @ = "finish" THEN "list" ELSE "idle"]
    /\ UNCHANGED <<log, checkpoints, cursors, marker, refs, stored, flight>>

\* `sweepUnreferencedChunks` lists the store, and marks from that list later.
\* Which chunks are past the grace time is a choice.
ListStale(k) ==
    /\ pc[k] = "list"
    /\ \E stale \in SUBSET stored :
         /\ deleting' = [deleting EXCEPT ![k] = stale]
         /\ pc' = [pc EXCEPT ![k] = IF stale = {} THEN "idle" ELSE "mark"]
    /\ UNCHANGED <<log, checkpoints, cursors, marker, refs, chunks, stored,
                   flight>>

\* A plausible slip: the list is trusted, references made since are not seen
StaleAsListed(g) == g \notin marked

Reclaimable(g) == ~Referenced(g) /\ g \notin marked

MarkStale(k) ==
    LET swept == {g \in deleting[k] : Reclaimable(g)}
    IN  /\ pc[k] = "mark"
        /\ marked' = marked \cup swept
        /\ deleting' = [deleting EXCEPT ![k] = swept]
        /\ pc' = [pc EXCEPT ![k] = IF swept = {} THEN "idle"
                                   ELSE "sweepDelete"]
        /\ UNCHANGED <<log, checkpoints, cursors, marker, refs, sized, stored,
                       flight>>

Compact(k) ==
    \/ \E gone \in SUBSET Device : Plan(k, gone)
    \/ DeleteChunks(k) \/ FinishDeletion(k) \/ ListStale(k)
    \/ MarkStale(k)

-----------------------------------------------------------------------------
(* Uploads go through the worker, beside the object: it asks for the usage,  *)
(* stores the chunk, and reports it.                                         *)

AdmitUpload(g) ==
    /\ uploading[g] = "none" /\ MayStart
    /\ Cardinality(sized) + 1 <= Quota
    /\ uploading' = [uploading EXCEPT ![g] = "admitted"]
    /\ UNCHANGED <<log, checkpoints, cursors, marker, refs, chunks, stored,
                   pushing, publishing, compact>>

PutChunk(g) ==
    /\ uploading[g] = "admitted"
    /\ stored' = stored \cup {g}
    /\ uploading' = [uploading EXCEPT ![g] = "put"]
    /\ UNCHANGED <<log, checkpoints, cursors, marker, refs, chunks, pushing,
                   publishing, compact>>

RecordUpload(g) ==
    /\ uploading[g] = "put"
    /\ sized' = sized \cup {g}
    /\ uploading' = [uploading EXCEPT ![g] = "none"]
    /\ UNCHANGED <<log, checkpoints, cursors, marker, refs, marked, stored,
                   pushing, publishing, compact>>

\* The request goes away between two of its steps
AbandonUpload(g) ==
    /\ uploading[g] # "none"
    /\ uploading' = [uploading EXCEPT ![g] = "none"]
    /\ UNCHANGED <<log, checkpoints, cursors, marker, refs, chunks, stored,
                   pushing, publishing, compact>>

-----------------------------------------------------------------------------
(* The end of the object's process.                                          *)

\* Evicted or crashed: requests in flight are lost, transactions are not
Restart ==
    /\ pushing' = {} /\ publishing' = {}
    /\ pc' = [k \in Compaction |-> "idle"]
    /\ deleting' = [k \in Compaction |-> {}]
    /\ UNCHANGED <<log, checkpoints, cursors, marker, refs, chunks, stored,
                   uploading>>

Next ==
    \/ \E o \in Operation : PushVerify(o) \/ PushAccept(o) \/ PushAnswer(o)
    \/ \E d \in Device, s \in Sequence : Acknowledge(d, s)
    \/ \E key \in Key : ClaimEncryption(key)
    \/ \E c \in Checkpoint :
         \/ PublishVerify(c) \/ RefuseCheckpoint(c)
         \/ \E k \in Compaction : PublishCheckpoint(c, k)
    \/ \E k \in Compaction : Compact(k)
    \/ \E g \in Digest : AdmitUpload(g) \/ PutChunk(g) \/ RecordUpload(g)
                         \/ AbandonUpload(g)
    \/ Restart

Spec == Init /\ [][Next]_vars

-----------------------------------------------------------------------------
(* A pull from the floor or above finds every operation after its cursor, a  *)
(* device below the floor finds a checkpoint at or above it, and no retried  *)
(* push, however late, is given a second place in the log                    *)
(* (workspace-sync-object.ts:199, 894, 1196).                                *)
LogServesEveryDevice ==
    /\ rows = (floor + 1)..Len(accepted)
    /\ floor > 0 => checkpoints # {}
    /\ \A c \in checkpoints : c.seq >= floor
    /\ \A s, t \in DOMAIN accepted : accepted[s] = accepted[t] => s = t

(* A digest on its way out is referenced by nothing that could be read, so a *)
(* deletion that is announced never takes content the log or a checkpoint    *)
(* names (workspace-sync-object.ts:795).                                     *)
DoomedIsUnreferenced == \A g \in marked : ~Referenced(g)

(* The first key to reach the service is the workspace's for good, and after *)
(* it came nothing plain and nothing under another key is accepted           *)
(* (workspace-sync-object.ts:394, 470).                                      *)
SealedSinceMarker ==
    /\ \A s \in DOMAIN accepted :
         accepted[s].seal = IF marker.key # NoKey /\ s > marker.from
                            THEN marker.key ELSE NoKey
    /\ \A c \in checkpoints :
         c.seal # NoKey \/ (marker.key # NoKey /\ c.seq > marker.from)
             => c.seal = marker.key

(* A row is removed only when every active device has acknowledged it and a  *)
(* retained checkpoint covers it (docs/specs/sync-content-operations.md:87), *)
(* and with the rows gone the high-water mark still does not fall, so that   *)
(* an acknowledgement of what a device has pulled stays acceptable and no    *)
(* sequence is given twice (workspace-sync-object.ts:1196).                  *)
CompactionKeepsOrder ==
    [][/\ \A s \in rows \ rows' :
            /\ \E c \in checkpoints' : c.seq >= s
            /\ \A d \in Device : cursors'[d] # NoCursor => cursors'[d] >= s
       /\ Latest' >= Latest]_vars

(* "a published log entry always resolves to available content"              *)
(* (workspace-sync-object.ts:622), "compaction never races a push"           *)
(* (docs/specs/sync-content-operations.md:84).  A deletion that starts and   *)
(* finishes between the check of a push and its transaction takes the chunk. *)
ReferencedIsStored == \A g \in Digest : Referenced(g) => g \in stored

(* "a `PUT` that would exceed the quota is rejected before any R2 write"     *)
(* (docs/specs/sync-content-operations.md:67): what is stored stays within   *)
(* the quota.  The usage is read before the write and recorded after it.     *)
WithinQuota == Cardinality(stored) <= Quota
=============================================================================
