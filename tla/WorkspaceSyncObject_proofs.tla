--------------------- MODULE WorkspaceSyncObject_proofs ---------------------
(***************************************************************************)
(* The service never loses what a device needs and never takes a chunk that *)
(* is referenced, for any devices, operations, checkpoints and compactions. *)
(***************************************************************************)
EXTENDS WorkspaceSyncObject, FiniteSetTheorems, WellFoundedInduction, TLAPS

-----------------------------------------------------------------------------
(* Least and greatest numbers                                                *)

\* A set of numbers that is not empty has a least one.
LEMMA LeastNumber ==
    ASSUME NEW S \in SUBSET Nat, S # {}
    PROVE  \E x \in S : \A y \in S : x =< y
<1>1. PICK x \in S : \A y \in S : ~(<<y, x>> \in OpToRel(<, Nat))
  BY NatLessThanWellFounded, WFMin
<1>2. \A y \in S : ~(y < x)
  BY <1>1 DEF OpToRel
<1> QED  BY <1>2

\* It is the Min.
LEMMA MinLeast ==
    ASSUME NEW S \in SUBSET Nat, S # {}
    PROVE  Min(S) \in S /\ \A x \in S : Min(S) =< x
BY LeastNumber DEF Min

\* The Max of two numbers is one of them.
LEMMA MaxOfTwo ==
    ASSUME NEW a \in Nat, NEW b \in Nat
    PROVE  /\ Max({a, b}) \in {a, b}
           /\ Max({a, b}) >= a /\ Max({a, b}) >= b
<1>1. \E x \in {a, b} : \A y \in {a, b} : x >= y
  OBVIOUS
<1> QED  BY <1>1 DEF Max

\* A checkpoint that no other is above is retained, so a compaction leaves one.
LEMMA NewestRetained ==
    ASSUME NEW bound \in Nat, checkpoints # {},
           \A c \in checkpoints : c.seq \in Nat /\ c.seq =< bound
    PROVE  Retained # {}
<1> DEFINE S == {bound - c.seq : c \in checkpoints}
<1>1. S \in SUBSET Nat /\ S # {}
  OBVIOUS
<1>2. PICK n \in S : \A m \in S : n =< m
  BY <1>1, LeastNumber
<1>3. PICK c \in checkpoints : n = bound - c.seq
  BY <1>2
<1>4. {x \in checkpoints : x.seq > c.seq} = {}
  <2> SUFFICES ASSUME NEW x \in checkpoints, x.seq > c.seq
               PROVE  FALSE
    OBVIOUS
  <2>1. n =< bound - x.seq
    BY <1>2
  <2> QED  BY <1>3, <2>1
<1> QED  BY <1>3, <1>4, FS_EmptySet DEF Retained, MaxRetained

-----------------------------------------------------------------------------
(* Content on its way out                                                    *)

\* A digest that is marked for deletion is referenced by nothing: a push and a
\* publication look at the marks inside their transaction, a plan and a sweep
\* mark only what nothing references.
THEOREM DoomedIsUnreferencedHolds == Spec => []DoomedIsUnreferenced
<1> USE DEF DoomedIsUnreferenced, Referenced
<1>1. Init => DoomedIsUnreferenced
  BY DEF Init
<1>2. DoomedIsUnreferenced /\ [Next]_vars => DoomedIsUnreferenced'
  <2> SUFFICES ASSUME DoomedIsUnreferenced, [Next]_vars
               PROVE  DoomedIsUnreferenced'
    OBVIOUS
  <2>0. ASSUME UNCHANGED <<refs, marked>>
        PROVE  DoomedIsUnreferenced'
    BY <2>0
  <2>1. ASSUME NEW o \in Operation, PushAccept(o)
        PROVE  DoomedIsUnreferenced'
    BY <2>1 DEF PushAccept, Doomed, chunks
  <2>2. ASSUME NEW c \in Checkpoint, NEW k \in Compaction, PublishCheckpoint(c, k)
        PROVE  DoomedIsUnreferenced'
    BY <2>2 DEF PublishCheckpoint, Publishable, Doomed, chunks
  <2>3. ASSUME NEW k \in Compaction, NEW gone \in SUBSET Device, Plan(k, gone)
        PROVE  DoomedIsUnreferenced'
    <3> DEFINE remaining == {s \in rows : s > CompactBelow(gone)}
               dropped   == {r \in refs : ~Owns(r[1], Retained, remaining)}
               orphaned  == {r[2] : r \in dropped} \ {r[2] : r \in refs \ dropped}
    <3>1. refs' = refs \ dropped /\ marked' = marked \cup orphaned
      BY <2>3 DEF Plan
    <3> HIDE DEF dropped
    <3> QED  BY <3>1
  <2>4. ASSUME NEW k \in Compaction, FinishDeletion(k)
        PROVE  DoomedIsUnreferenced'
    BY <2>4 DEF FinishDeletion
  <2>5. ASSUME NEW k \in Compaction, MarkStale(k)
        PROVE  DoomedIsUnreferenced'
    BY <2>5 DEF MarkStale, Reclaimable
  <2> QED
    BY <2>0, <2>1, <2>2, <2>3, <2>4, <2>5
    DEF Next, Compact, vars, log, chunks, flight, compact, PushVerify, PushAnswer, Acknowledge,
        ClaimEncryption, PublishVerify, RefuseCheckpoint, DeleteChunks, ListStale, AdmitUpload,
        PutChunk, RecordUpload, AbandonUpload, Restart
<1> QED  BY <1>1, <1>2, PTL DEF Spec

-----------------------------------------------------------------------------
(* The log, its floor and the checkpoints                                    *)

\* What is stored of the log is what lies above the floor; the checkpoints lie
\* between the floor and the end, and so did those in flight when they were
\* verified; no operation has two places.
LogKept ==
    /\ accepted \in Seq(Operation)
    /\ floor \in 0..Len(accepted)
    /\ rows = (floor + 1)..Len(accepted)
    /\ floor > 0 => checkpoints # {}
    /\ \A c \in checkpoints : c.seq \in Nat \ {0} /\ c.seq >= floor /\ c.seq =< Len(accepted)
    /\ \A c \in publishing : c \in Checkpoint /\ c.seq =< Len(accepted)
    /\ \A s, t \in DOMAIN accepted : accepted[s] = accepted[t] => s = t

\* The cursors are sequences of the log.
CursorsKept == cursors \in [Device -> Sequence \cup {NoCursor}]

\* A bound on the operations is a number.
LEMMA OperationsCounted == Cardinality(Operation) \in Nat
BY ServiceAssumption, FS_CardinalityType

\* Cursors stay sequences of the log, also when idle devices are dropped.
LEMMA CursorsHold == Spec => []CursorsKept
<1>1. Init => CursorsKept
  BY DEF Init, CursorsKept
<1>2. CursorsKept /\ [Next]_vars => CursorsKept'
  <2> SUFFICES ASSUME CursorsKept, [Next]_vars
               PROVE  CursorsKept'
    OBVIOUS
  <2>0. ASSUME UNCHANGED cursors
        PROVE  CursorsKept'
    BY <2>0 DEF CursorsKept, Sequence, NoCursor
  <2>1. ASSUME NEW d \in Device, NEW s \in Sequence, Acknowledge(d, s)
        PROVE  CursorsKept'
    <3> DEFINE after == IF cursors[d] = NoCursor THEN s ELSE Max({cursors[d], s})
    <3>1. after \in Sequence \cup {NoCursor}
      <4>1. CASE cursors[d] = NoCursor
        BY <4>1
      <4>2. CASE cursors[d] # NoCursor
        <5>1. cursors[d] \in Nat /\ s \in Nat /\ cursors[d] \in Sequence
          BY <4>2, OperationsCounted DEF CursorsKept, Sequence
        <5> QED  BY <4>2, <5>1, MaxOfTwo
      <4> QED  BY <4>1, <4>2
    <3>2. cursors' = [cursors EXCEPT ![d] = after]
      BY <2>1 DEF Acknowledge
    <3> HIDE DEF after
    <3> QED  BY <3>1, <3>2 DEF CursorsKept, Sequence, NoCursor
  <2>2. ASSUME NEW k \in Compaction, NEW gone \in SUBSET Device, Plan(k, gone)
        PROVE  CursorsKept'
    BY <2>2 DEF Plan, Active, CursorsKept, Sequence, NoCursor
  <2> QED
    BY <2>0, <2>1, <2>2
    DEF Next, Compact, vars, PushVerify, PushAccept, PushAnswer, ClaimEncryption, PublishVerify,
        PublishCheckpoint, RefuseCheckpoint, DeleteChunks, FinishDeletion, ListStale, MarkStale,
        AdmitUpload, PutChunk, RecordUpload, AbandonUpload, Restart
<1> QED  BY <1>1, <1>2, PTL DEF Spec

\* A compaction goes no further than the retained checkpoints and the cursors
\* of the devices it keeps, and it retains a checkpoint when there is one.
LEMMA CompactionBounded ==
    ASSUME LogKept, CursorsKept, NEW gone \in SUBSET Device
    PROVE  /\ CompactBelow(gone) \in Nat
           /\ CompactBelow(gone) =< Len(accepted)
           /\ CompactBelow(gone) > 0 => Retained # {}
           /\ \A c \in Retained : c.seq >= CompactBelow(gone)
           /\ \A d \in Device : Active(gone)[d] # NoCursor => Active(gone)[d] >= CompactBelow(gone)
<1> DEFINE known == Range(Active(gone)) \ {NoCursor}
           seqs  == {c.seq : c \in Retained}
<1>1. Retained \subseteq checkpoints
  BY DEF Retained
<1>2. seqs \in SUBSET Nat
  BY <1>1 DEF LogKept
<1>3. /\ known \in SUBSET Nat
      /\ \A d \in Device : Active(gone)[d] # NoCursor => Active(gone)[d] \in known
  BY OperationsCounted DEF CursorsKept, Active, Range, Sequence, NoCursor
<1>4. /\ HydratableFrom \in Nat /\ HydratableFrom =< Len(accepted)
      /\ HydratableFrom > 0 => Retained # {}
      /\ \A c \in Retained : c.seq >= HydratableFrom
  <2>1. CASE Retained = {}
    BY <2>1 DEF HydratableFrom, LogKept
  <2>2. CASE Retained # {}
    <3>1. seqs # {}
      BY <2>2
    <3>2. Min(seqs) \in seqs /\ \A x \in seqs : Min(seqs) =< x
      BY <1>2, <3>1, MinLeast
    <3>3. HydratableFrom = Min(seqs)
      BY <2>2 DEF HydratableFrom
    <3>4. PICK c \in Retained : HydratableFrom = c.seq
      BY <3>2, <3>3
    <3> QED  BY <1>1, <2>2, <3>2, <3>3, <3>4 DEF LogKept
  <2> QED  BY <2>1, <2>2
<1>5. /\ AcknowledgedEverywhere(gone) \in Nat
      /\ \A x \in known : AcknowledgedEverywhere(gone) =< x
  <2>1. CASE known = {}
    BY <2>1 DEF AcknowledgedEverywhere
  <2>2. CASE known # {}
    BY <1>3, <2>2, MinLeast DEF AcknowledgedEverywhere
  <2> QED  BY <2>1, <2>2
<1>6. /\ CompactBelow(gone) \in {HydratableFrom, AcknowledgedEverywhere(gone)}
      /\ CompactBelow(gone) =< HydratableFrom
      /\ CompactBelow(gone) =< AcknowledgedEverywhere(gone)
  <2>1. {HydratableFrom, AcknowledgedEverywhere(gone)} \in SUBSET Nat
    BY <1>4, <1>5
  <2> QED  BY <2>1, MinLeast DEF CompactBelow
<1>7. \A c \in Retained : c.seq \in Nat
  BY <1>1 DEF LogKept
<1>8. Len(accepted) \in Nat
  BY DEF LogKept
<1> HIDE DEF known, seqs
<1>9. ASSUME NEW d \in Device, Active(gone)[d] # NoCursor
      PROVE  Active(gone)[d] >= CompactBelow(gone)
  <2>1. Active(gone)[d] \in known
    BY <1>3, <1>9
  <2>2. AcknowledgedEverywhere(gone) =< Active(gone)[d] /\ Active(gone)[d] \in Nat
    BY <1>3, <1>5, <2>1
  <2>3. CompactBelow(gone) \in Nat
    BY <1>4, <1>5, <1>6
  <2> QED  BY <1>5, <1>6, <2>2, <2>3
<1> QED  BY <1>4, <1>5, <1>6, <1>7, <1>8, <1>9

\* What a plan leaves of the log.
LEMMA PlanKeepsLog ==
    ASSUME LogKept, CursorsKept, NEW k \in Compaction, NEW gone \in SUBSET Device, Plan(k, gone)
    PROVE  LogKept'
<1>1. /\ accepted' = accepted /\ checkpoints' = Retained /\ publishing' = publishing
      /\ rows' = {s \in rows : s > CompactBelow(gone)}
      /\ floor' = Max({floor, CompactBelow(gone)})
  BY DEF Plan, RaisedFloor, flight
<1>2. /\ floor' \in {floor, CompactBelow(gone)}
      /\ floor' >= floor /\ floor' >= CompactBelow(gone)
  BY <1>1, CompactionBounded, MaxOfTwo DEF LogKept
<1>3. Len(accepted) \in Nat /\ floor \in Nat /\ CompactBelow(gone) \in Nat
  BY CompactionBounded DEF LogKept
<1>4. floor' \in 0..Len(accepted)
  BY <1>2, <1>3, CompactionBounded DEF LogKept
<1>5. rows' = (floor' + 1)..Len(accepted)
  <2>1. ASSUME NEW s \in rows'
        PROVE  s \in (floor' + 1)..Len(accepted)
    BY <1>1, <1>2, <1>3, <2>1 DEF LogKept
  <2>2. ASSUME NEW s \in (floor' + 1)..Len(accepted)
        PROVE  s \in rows'
    BY <1>1, <1>2, <1>3, <2>2 DEF LogKept
  <2> QED  BY <2>1, <2>2
<1>6. Retained \subseteq checkpoints
  BY DEF Retained
<1>7. floor' > 0 => Retained # {}
  <2>1. CASE CompactBelow(gone) > 0
    BY <2>1, CompactionBounded
  <2>2. CASE floor > 0
    <3>1. \A c \in checkpoints : c.seq \in Nat /\ c.seq =< Len(accepted)
      BY DEF LogKept
    <3> QED  BY <1>3, <2>2, <3>1, NewestRetained DEF LogKept
  <2> QED  BY <1>2, <1>3, <2>1, <2>2
<1>8. \A c \in Retained : c.seq \in Nat \ {0} /\ c.seq >= floor' /\ c.seq =< Len(accepted)
  BY <1>2, <1>3, <1>6, CompactionBounded DEF LogKept
<1> QED  BY <1>1, <1>4, <1>5, <1>7, <1>8 DEF LogKept

\* Pushes, publications, compactions and crashes keep it so.
LEMMA LogHolds == Spec => []LogKept
<1>1. Init => LogKept
  <2> SUFFICES ASSUME Init
               PROVE  LogKept
    OBVIOUS
  <2>1. accepted \in Seq(Operation) /\ Len(accepted) = 0
    BY DEF Init
  <2> QED  BY <2>1 DEF Init, LogKept
<1>2. LogKept /\ CursorsKept /\ [Next]_vars => LogKept'
  <2> SUFFICES ASSUME LogKept, CursorsKept, [Next]_vars
               PROVE  LogKept'
    OBVIOUS
  <2>0. ASSUME UNCHANGED <<log, checkpoints>>, publishing' \subseteq publishing
        PROVE  LogKept'
    BY <2>0 DEF LogKept, log
  <2>1. ASSUME NEW o \in Operation, PushAccept(o)
        PROVE  LogKept'
    <3>1. /\ accepted' = Append(accepted, o) /\ rows' = rows \cup {Len(accepted')}
          /\ floor' = floor /\ checkpoints' = checkpoints /\ publishing' = publishing
      BY <2>1 DEF PushAccept
    <3>2. /\ accepted' \in Seq(Operation) /\ Len(accepted') = Len(accepted) + 1
          /\ \A s \in DOMAIN accepted : accepted'[s] = accepted[s]
          /\ accepted'[Len(accepted')] = o
          /\ DOMAIN accepted = 1..Len(accepted) /\ DOMAIN accepted' = 1..Len(accepted')
      BY <3>1 DEF LogKept
    <3>3. \A s \in DOMAIN accepted : accepted[s] # o
      BY <2>1 DEF PushAccept, Seen
    <3>4. \A s, t \in DOMAIN accepted' : accepted'[s] = accepted'[t] => s = t
      <4>1. Len(accepted) \in Nat
        BY DEF LogKept
      <4>2. \A s \in DOMAIN accepted' : s \in DOMAIN accepted \/ s = Len(accepted')
        BY <3>2, <4>1
      <4> QED  BY <3>2, <3>3, <4>2 DEF LogKept
    <3>5. rows' = (floor' + 1)..Len(accepted')
      BY <3>1, <3>2 DEF LogKept
    <3>6. floor' \in 0..Len(accepted')
      BY <3>1, <3>2 DEF LogKept
    <3>7. \A c \in checkpoints : c.seq =< Len(accepted')
      BY <3>2 DEF LogKept
    <3>8. \A c \in publishing : c \in Checkpoint /\ c.seq =< Len(accepted')
      <4>1. \A c \in publishing : c.seq \in Nat
        BY ServiceAssumption DEF LogKept
      <4> QED  BY <3>2, <4>1 DEF LogKept
    <3> QED  BY <3>1, <3>2, <3>4, <3>5, <3>6, <3>7, <3>8 DEF LogKept
  <2>2. ASSUME NEW c \in Checkpoint, PublishVerify(c)
        PROVE  LogKept'
    BY <2>2 DEF PublishVerify, NotAhead, Latest, LogKept, log
  <2>3. ASSUME NEW c \in Checkpoint, NEW k \in Compaction, PublishCheckpoint(c, k)
        PROVE  LogKept'
    <3>1. c.seq \in Nat \ {0}
      BY ServiceAssumption
    <3> QED  BY <2>3, <3>1 DEF PublishCheckpoint, Publishable, AboveFloor, LogKept, log
  <2>4. ASSUME NEW k \in Compaction, NEW gone \in SUBSET Device, Plan(k, gone)
        PROVE  LogKept'
    BY <2>4, PlanKeepsLog
  <2> QED
    BY <2>0, <2>1, <2>2, <2>3, <2>4
    DEF Next, Compact, vars, log, flight, PushVerify, PushAnswer, Acknowledge, ClaimEncryption,
        RefuseCheckpoint, DeleteChunks, FinishDeletion, ListStale, MarkStale, AdmitUpload, PutChunk,
        RecordUpload, AbandonUpload, Restart
<1> QED  BY <1>1, <1>2, CursorsHold, PTL DEF Spec

\* The stored rows reach from the floor to the end, a checkpoint lies at or
\* above a floor that has risen, and no operation has two places (acceptBatch,
\* planCompaction, raiseLogFloor, putCheckpoint).
THEOREM LogServesEveryDeviceHolds == Spec => []LogServesEveryDevice
<1>1. LogKept => LogServesEveryDevice
  BY DEF LogKept, LogServesEveryDevice
<1> QED  BY <1>1, LogHolds, PTL

\* A row that goes is covered by a retained checkpoint and acknowledged by
\* every device the plan keeps, and the log never gets shorter.
THEOREM CompactionKeepsOrderHolds == Spec => CompactionKeepsOrder
<1> DEFINE Orderly ==
      /\ \A s \in rows \ rows' :
            /\ \E c \in checkpoints' : c.seq >= s
            /\ \A d \in Device : cursors'[d] # NoCursor => cursors'[d] >= s
      /\ Latest' >= Latest
<1>1. LogKept /\ CursorsKept /\ [Next]_vars => [Orderly]_vars
  <2> SUFFICES ASSUME LogKept, CursorsKept, Next
               PROVE  Orderly
    OBVIOUS
  <2>0. ASSUME rows \subseteq rows', accepted' = accepted
        PROVE  Orderly
    BY <2>0 DEF LogKept, Latest
  <2>1. ASSUME NEW o \in Operation, PushAccept(o)
        PROVE  Orderly
    BY <2>1 DEF PushAccept, LogKept, Latest
  <2>2. ASSUME NEW k \in Compaction, NEW gone \in SUBSET Device, Plan(k, gone)
        PROVE  Orderly
    <3>1. /\ accepted' = accepted /\ checkpoints' = Retained /\ cursors' = Active(gone)
          /\ rows' = {s \in rows : s > CompactBelow(gone)}
      BY <2>2 DEF Plan
    <3>2. ASSUME NEW s \in rows \ rows'
          PROVE  /\ \E c \in checkpoints' : c.seq >= s
                 /\ \A d \in Device : cursors'[d] # NoCursor => cursors'[d] >= s
      <4>1. s \in Nat \ {0} /\ s =< CompactBelow(gone) /\ CompactBelow(gone) \in Nat
        BY <3>1, CompactionBounded DEF LogKept
      <4>2. PICK c \in Retained : c.seq >= CompactBelow(gone)
        BY <4>1, CompactionBounded
      <4>3. c.seq \in Nat /\ c.seq >= s
        BY <4>1, <4>2 DEF Retained, LogKept
      <4>4. ASSUME NEW d \in Device, cursors'[d] # NoCursor
            PROVE  cursors'[d] >= s
        <5>1. cursors'[d] \in Nat
          BY <3>1, OperationsCounted DEF Active, CursorsKept, Sequence, NoCursor
        <5>2. cursors'[d] >= CompactBelow(gone)
          BY <3>1, <4>4, CompactionBounded
        <5> QED  BY <4>1, <5>1, <5>2
      <4> QED  BY <3>1, <4>3, <4>4
    <3> QED  BY <3>1, <3>2 DEF Latest, LogKept
  <2> HIDE DEF Orderly
  <2> QED
    BY <2>0, <2>1, <2>2
    DEF Next, Compact, log, PushVerify, PushAnswer, Acknowledge, ClaimEncryption, PublishVerify,
        PublishCheckpoint, RefuseCheckpoint, DeleteChunks, FinishDeletion, ListStale, MarkStale,
        AdmitUpload, PutChunk, RecordUpload, AbandonUpload, Restart
<1> QED  BY <1>1, LogHolds, CursorsHold, PTL DEF Spec, CompactionKeepsOrder

-----------------------------------------------------------------------------
(* The seal marker                                                           *)

Sealed(seal, at) ==
    seal = IF marker.key # NoKey /\ at > marker.from THEN marker.key ELSE NoKey

\* The marker lies in the log, what came after it carries its key and what came
\* before carries none; a checkpoint of a sealed workspace carries its key,
\* unless it is an old one, or an old one that was published again.
SealKept ==
    /\ \E key \in Key \cup {NoKey}, from \in 0..Len(accepted) :
         marker = [key |-> key, from |-> from]
    /\ \A s \in DOMAIN accepted : Sealed(accepted[s].seal, s)
    /\ \A c \in checkpoints :
         \/ c.seal = NoKey /\ (marker.key = NoKey \/ c.seq =< marker.from)
         \/ c.seal = marker.key

\* Marking writes the marker once, at the end of the log.
LEMMA MarkWrites ==
    ASSUME LogKept, SealKept, NEW seal \in Key \cup {NoKey}, Mark(seal)
    PROVE  \/ marker' = marker /\ (marker.key # NoKey \/ seal = NoKey)
           \/ /\ marker.key = NoKey /\ seal # NoKey
              /\ marker'.key = seal /\ marker'.from = Len(accepted)
              /\ marker' = [key |-> seal, from |-> Len(accepted)]
BY DEF Mark, Latest

\* The first key is the workspace's for good (admitSealState,
\* recordSealMarker).
LEMMA SealHolds == Spec => []SealKept
<1>1. Init => SealKept
  <2> SUFFICES ASSUME Init
               PROVE  SealKept
    OBVIOUS
  <2>1. marker = [key |-> NoKey, from |-> 0] /\ 0 \in 0..Len(accepted)
    BY DEF Init
  <2>2. accepted = <<>> /\ checkpoints = {}
    BY DEF Init
  <2> QED  BY <2>1, <2>2 DEF SealKept
<1>2. LogKept /\ SealKept /\ [Next]_vars => SealKept'
  <2> SUFFICES ASSUME LogKept, SealKept, [Next]_vars
               PROVE  SealKept'
    OBVIOUS
  <2>n. Len(accepted) \in Nat /\ DOMAIN accepted = 1..Len(accepted)
    BY DEF LogKept
  <2>m. marker.from \in 0..Len(accepted) /\ marker.key \in Key \cup {NoKey}
    BY DEF SealKept
  <2>0. ASSUME UNCHANGED <<accepted, marker>>, checkpoints' \subseteq checkpoints
        PROVE  SealKept'
    BY <2>0 DEF SealKept, Sealed
  <2>1. ASSUME NEW seal \in Key \cup {NoKey}, Mark(seal), UNCHANGED <<accepted, checkpoints>>
        PROVE  SealKept'
    <3>1. CASE marker' = marker
      BY <2>1, <3>1 DEF SealKept, Sealed
    <3>2. CASE /\ marker.key = NoKey /\ seal # NoKey
               /\ marker'.key = seal /\ marker'.from = Len(accepted)
               /\ marker' = [key |-> seal, from |-> Len(accepted)]
      <4>1. \A s \in DOMAIN accepted : accepted[s].seal = NoKey /\ s =< Len(accepted)
        BY <2>n, <3>2 DEF SealKept, Sealed
      <4>2. \A s \in DOMAIN accepted' : Sealed(accepted[s].seal, s)'
        BY <2>n, <2>1, <3>2, <4>1 DEF Sealed
      <4>3. \A c \in checkpoints : c.seal = NoKey /\ c.seq =< Len(accepted)
        BY <3>2 DEF SealKept, LogKept
      <4> QED  BY <2>n, <2>1, <3>2, <4>2, <4>3 DEF SealKept
    <3> QED  BY <2>1, <3>1, <3>2, MarkWrites
  <2>2. ASSUME NEW o \in Operation, PushAccept(o)
        PROVE  SealKept'
    <3>1. /\ accepted' = Append(accepted, o) /\ checkpoints' = checkpoints
          /\ Admits(o.seal) /\ Mark(o.seal) /\ o.seal \in Key \cup {NoKey}
      BY <2>2, ServiceAssumption DEF PushAccept
    <3>2. /\ Len(accepted') = Len(accepted) + 1
          /\ \A s \in DOMAIN accepted : accepted'[s] = accepted[s]
          /\ accepted'[Len(accepted')] = o
          /\ \A s \in DOMAIN accepted' : s \in DOMAIN accepted \/ s = Len(accepted')
      BY <3>1 DEF LogKept
    <3>3. CASE marker' = marker /\ (marker.key # NoKey \/ o.seal = NoKey)
      <4>1. o.seal = IF marker.key # NoKey THEN marker.key ELSE NoKey
        BY <3>1, <3>3 DEF Admits
      <4>2. Len(accepted') > marker.from
        BY <2>n, <2>m, <3>2
      <4>3. \A s \in DOMAIN accepted' : Sealed(accepted[s].seal, s)' 
        BY <3>2, <3>3, <4>1, <4>2 DEF SealKept, Sealed
      <4>4. \E key \in Key \cup {NoKey}, from \in 0..Len(accepted') :
               marker' = [key |-> key, from |-> from]
        BY <2>n, <3>2, <3>3 DEF SealKept
      <4> QED  BY <3>1, <3>3, <4>3, <4>4 DEF SealKept
    <3>4. CASE /\ marker.key = NoKey /\ o.seal # NoKey
               /\ marker'.key = o.seal /\ marker'.from = Len(accepted)
               /\ marker' = [key |-> o.seal, from |-> Len(accepted)]
      <4>1. \A s \in DOMAIN accepted : accepted[s].seal = NoKey /\ s =< Len(accepted)
        BY <2>n, <3>4 DEF SealKept, Sealed
      <4>2. \A s \in DOMAIN accepted' : Sealed(accepted[s].seal, s)'
        BY <2>n, <3>2, <3>4, <4>1 DEF Sealed
      <4>3. \A c \in checkpoints : c.seal = NoKey /\ c.seq =< Len(accepted)
        BY <3>4 DEF SealKept, LogKept
      <4>4. Len(accepted) \in 0..Len(accepted')
        BY <2>n, <3>2
      <4> QED  BY <3>1, <3>4, <4>2, <4>3, <4>4 DEF SealKept
    <3> QED  BY <3>1, <3>3, <3>4, MarkWrites
  <2>3. ASSUME NEW c \in Checkpoint, NEW k \in Compaction, PublishCheckpoint(c, k)
        PROVE  SealKept'
    <3>1. /\ accepted' = accepted /\ checkpoints' \subseteq checkpoints \cup {c}
          /\ Admits(c.seal) /\ Mark(c.seal) /\ c.seal \in Key \cup {NoKey}
          /\ c.seq =< Len(accepted)
      BY <2>3, ServiceAssumption DEF PublishCheckpoint, Publishable, LogKept, log
    <3>2. CASE marker' = marker /\ (marker.key # NoKey \/ c.seal = NoKey)
      <4>1. c.seal = marker.key
        BY <3>1, <3>2 DEF Admits
      <4> QED  BY <3>1, <3>2, <4>1 DEF SealKept, Sealed
    <3>3. CASE /\ marker.key = NoKey /\ c.seal # NoKey
               /\ marker'.key = c.seal /\ marker'.from = Len(accepted)
               /\ marker' = [key |-> c.seal, from |-> Len(accepted)]
      <4>1. \A s \in DOMAIN accepted : accepted[s].seal = NoKey /\ s =< Len(accepted)
        BY <2>n, <3>3 DEF SealKept, Sealed
      <4>2. \A s \in DOMAIN accepted' : Sealed(accepted[s].seal, s)'
        BY <2>n, <3>1, <3>3, <4>1 DEF Sealed
      <4>3. \A x \in checkpoints : x.seal = NoKey /\ x.seq =< Len(accepted)
        BY <3>3 DEF SealKept, LogKept
      <4> QED  BY <2>n, <3>1, <3>3, <4>2, <4>3 DEF SealKept
    <3> QED  BY <3>1, <3>2, <3>3, MarkWrites
  <2>4. ASSUME NEW key \in Key, ClaimEncryption(key)
        PROVE  SealKept'
    BY <2>1, <2>4 DEF ClaimEncryption, log
  <2>5. ASSUME NEW k \in Compaction, NEW gone \in SUBSET Device, Plan(k, gone)
        PROVE  SealKept'
    BY <2>0, <2>5 DEF Plan, Retained
  <2> QED
    BY <2>0, <2>2, <2>3, <2>4, <2>5
    DEF Next, Compact, vars, log, PushVerify, PushAnswer, Acknowledge, PublishVerify,
        RefuseCheckpoint, DeleteChunks, FinishDeletion, ListStale, MarkStale, AdmitUpload, PutChunk,
        RecordUpload, AbandonUpload, Restart
<1> QED  BY <1>1, <1>2, LogHolds, PTL DEF Spec

\* After the first key nothing plain and nothing under another key is accepted.
THEOREM SealedSinceMarkerHolds == Spec => []SealedSinceMarker
<1>1. LogKept /\ SealKept => SealedSinceMarker
  <2> SUFFICES ASSUME LogKept, SealKept
               PROVE  SealedSinceMarker
    OBVIOUS
  <2>1. \A s \in DOMAIN accepted :
          accepted[s].seal = IF marker.key # NoKey /\ s > marker.from THEN marker.key ELSE NoKey
    BY DEF SealKept, Sealed
  <2>2. ASSUME NEW c \in checkpoints,
               c.seal # NoKey \/ (marker.key # NoKey /\ c.seq > marker.from)
        PROVE  c.seal = marker.key
    <3>1. c.seq \in Nat /\ marker.from \in Nat
      BY DEF LogKept, SealKept
    <3> QED  BY <2>2, <3>1 DEF SealKept
  <2> QED  BY <2>1, <2>2 DEF SealedSinceMarker
<1> QED  BY <1>1, LogHolds, SealHolds, PTL

-----------------------------------------------------------------------------
(* Types                                                                     *)

LogBounded == Len(accepted) \in Sequence

\* No operation has two places, so the log is no longer than there are
\* operations.
LEMMA LogIsBounded == LogKept => LogBounded
<1> SUFFICES ASSUME LogKept
             PROVE  LogBounded
  OBVIOUS
<1>1. Len(accepted) \in Nat
  BY DEF LogKept
<1>2. accepted \in Injection(1..Len(accepted), Operation)
  BY DEF LogKept, Injection, IsInjective
<1>3. Cardinality(1..Len(accepted)) =< Cardinality(Operation)
  BY <1>2, FS_Injection, ServiceAssumption
<1>4. Cardinality(1..Len(accepted)) = Len(accepted)
  <2>1. 1 \in Int /\ Len(accepted) \in Int
    BY <1>1
  <2>2. Cardinality(1..Len(accepted)) = IF 1 > Len(accepted) THEN 0 ELSE Len(accepted) - 1 + 1
    BY <2>1, FS_Interval, Zenon
  <2> QED  BY <1>1, <2>2
<1> QED  BY <1>1, <1>3, <1>4, OperationsCounted DEF Sequence, LogBounded

Plain ==
    /\ checkpoints \subseteq Checkpoint
    /\ refs \subseteq ({"operation", "checkpoint"} \X Sequence) \X Digest
    /\ marked \subseteq Digest /\ sized \subseteq Digest /\ stored \subseteq Digest
    /\ pushing \subseteq Operation
    /\ uploading \in [Digest -> {"none", "admitted", "put"}]
    /\ pc \in [Compaction -> {"idle", "plan", "delete", "finish", "list", "mark",
                              "sweepDelete", "sweepFinish"}]
    /\ deleting \in [Compaction -> SUBSET Digest]

\* The variables beside the log are well typed.
LEMMA PlainHolds == Spec => []Plain
<1>1. Init => Plain
  BY DEF Init, Plain
<1>2. LogKept /\ LogBounded' /\ Plain /\ [Next]_vars => Plain'
  <2> SUFFICES ASSUME LogKept, LogBounded', Plain, [Next]_vars
               PROVE  Plain'
    OBVIOUS
  <2>e. Len(accepted) \in Nat /\ \A c \in publishing : c.seq =< Len(accepted)
    BY DEF LogKept
  <2>f. Len(accepted) \in Sequence /\ Len(accepted') \in Sequence /\ Cardinality(Operation) \in Nat
    <3>1. Sequence' = Sequence
      BY DEF Sequence
    <3> QED  BY <3>1, LogIsBounded, OperationsCounted DEF LogBounded
  <2> USE DEF Plain, log, chunks, flight, compact
  <2>1. ASSUME NEW o \in Operation, PushVerify(o)
        PROVE  Plain'
    BY <2>1, ServiceAssumption DEF PushVerify
  <2>2. ASSUME NEW o \in Operation, PushAccept(o)
        PROVE  Plain'
    <3>1. o.digest \in Digest /\ Len(accepted') \in Sequence
      BY <2>f, ServiceAssumption
    <3> QED  BY <2>2, <3>1 DEF PushAccept
  <2>3. ASSUME NEW o \in Operation, PushAnswer(o)
        PROVE  Plain'
    BY <2>3, ServiceAssumption DEF PushAnswer
  <2>4. ASSUME NEW d \in Device, NEW s \in Sequence, Acknowledge(d, s)
        PROVE  Plain'
    BY <2>4, ServiceAssumption DEF Acknowledge
  <2>5. ASSUME NEW key \in Key, ClaimEncryption(key)
        PROVE  Plain'
    BY <2>5, ServiceAssumption DEF ClaimEncryption
  <2>6. ASSUME NEW c \in Checkpoint, PublishVerify(c)
        PROVE  Plain'
    BY <2>6, ServiceAssumption DEF PublishVerify
  <2>7. ASSUME NEW c \in Checkpoint, RefuseCheckpoint(c)
        PROVE  Plain'
    BY <2>7, ServiceAssumption DEF RefuseCheckpoint
  <2>8. ASSUME NEW c \in Checkpoint, NEW k \in Compaction, PublishCheckpoint(c, k)
        PROVE  Plain'
    <3>1. c.digest \in Digest /\ c.seq \in Sequence
      <4>1. c \in publishing
        BY <2>8 DEF PublishCheckpoint
      <4> QED  BY <2>e, <2>f, <4>1, ServiceAssumption DEF LogKept, Sequence
    <3> QED  BY <2>8, <3>1 DEF PublishCheckpoint
  <2>9. ASSUME NEW k \in Compaction, NEW gone \in SUBSET Device, Plan(k, gone)
        PROVE  Plain'
    <3> DEFINE remaining == {s \in rows : s > CompactBelow(gone)}
               dropped   == {r \in refs : ~Owns(r[1], Retained, remaining)}
               orphaned  == {r[2] : r \in dropped} \ {r[2] : r \in refs \ dropped}
    <3>1. orphaned \subseteq Digest
      OBVIOUS
    <3>2. Retained \subseteq checkpoints
      BY DEF Retained
    <3>3. /\ refs' \subseteq refs /\ marked' = marked \cup orphaned
          /\ deleting' = [deleting EXCEPT ![k] = marked']
          /\ pc' = [pc EXCEPT ![k] = "delete"] /\ checkpoints' \subseteq checkpoints
          /\ UNCHANGED <<sized, stored, flight>>
      BY <2>9, <3>2 DEF Plan
    <3> HIDE DEF orphaned
    <3> QED  BY <3>1, <3>3
  <2>10. ASSUME NEW k \in Compaction, DeleteChunks(k)
         PROVE  Plain'
    BY <2>10, ServiceAssumption DEF DeleteChunks
  <2>11. ASSUME NEW k \in Compaction, FinishDeletion(k)
         PROVE  Plain'
    BY <2>11, ServiceAssumption DEF FinishDeletion
  <2>12. ASSUME NEW k \in Compaction, ListStale(k)
         PROVE  Plain'
    BY <2>12, ServiceAssumption DEF ListStale
  <2>13. ASSUME NEW k \in Compaction, MarkStale(k)
         PROVE  Plain'
    BY <2>13, ServiceAssumption DEF MarkStale
  <2>14. ASSUME NEW g \in Digest, AdmitUpload(g)
         PROVE  Plain'
    BY <2>14, ServiceAssumption DEF AdmitUpload
  <2>15. ASSUME NEW g \in Digest, PutChunk(g)
         PROVE  Plain'
    BY <2>15, ServiceAssumption DEF PutChunk
  <2>16. ASSUME NEW g \in Digest, RecordUpload(g)
         PROVE  Plain'
    BY <2>16, ServiceAssumption DEF RecordUpload
  <2>17. ASSUME NEW g \in Digest, AbandonUpload(g)
         PROVE  Plain'
    BY <2>17, ServiceAssumption DEF AbandonUpload
  <2>18. CASE Restart
    BY <2>18 DEF Restart
  <2>19. CASE UNCHANGED vars
    BY <2>19 DEF vars
  <2> HIDE DEF Plain
  <2> QED
    BY <2>1, <2>2, <2>3, <2>4, <2>5, <2>6, <2>7, <2>8, <2>9, <2>10, <2>11,
       <2>12, <2>13, <2>14, <2>15, <2>16, <2>17, <2>18, <2>19 DEF Next, Compact
<1> QED  BY <1>1, <1>2, LogHolds, LogIsBounded, PTL DEF Spec

\* Every reachable state is well typed; the sequences it holds are places in a
\* log that is no longer than there are operations.
THEOREM TypeCorrect == Spec => []TypeOK
<1>1. LogKept /\ CursorsKept /\ SealKept /\ Plain => TypeOK
  <2> SUFFICES ASSUME LogKept, CursorsKept, SealKept, Plain
               PROVE  TypeOK
    OBVIOUS
  <2>1. Len(accepted) \in Sequence /\ Len(accepted) \in Nat /\ Cardinality(Operation) \in Nat
    BY LogIsBounded, OperationsCounted DEF LogKept, LogBounded
  <2>2. rows \subseteq DOMAIN accepted /\ floor \in Sequence /\ accepted \in Seq(Operation)
    BY <2>1 DEF LogKept, Sequence
  <2>3. checkpoints \subseteq {c \in Checkpoint : c.seq =< Len(accepted)} /\ publishing \subseteq Checkpoint
    BY DEF LogKept, Plain
  <2>4. marker \in [key : Key \cup {NoKey}, from : Sequence]
    BY <2>1 DEF SealKept, Sequence
  <2> QED  BY <2>2, <2>3, <2>4 DEF TypeOK, CursorsKept, Plain
<1> QED  BY <1>1, LogHolds, CursorsHold, SealHolds, PlainHolds, PTL
=============================================================================
