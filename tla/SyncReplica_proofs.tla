-------------------------- MODULE SyncReplica_proofs --------------------------
(***************************************************************************)
(* Whatever is lost, late, parked or restarted, every operation the users  *)
(* make is in one of the places it may be in, the service records it once, *)
(* and the cursor passes nothing that did not reach the device.  Queue,    *)
(* log and bodies stay aligned, devices that read the whole log agree, and *)
(* the replica implements DocumentOrder.                                   *)
(***************************************************************************)
EXTENDS SyncReplica, FiniteSetTheorems, WellFoundedInduction, TLAPS

-----------------------------------------------------------------------------
(* Numbers and sequences                                                     *)

\* A set of numbers with a bound has a greatest one, and Max is it.
LEMMA MaxGreatest ==
  ASSUME NEW bound \in Nat, NEW S \in SUBSET (0 .. bound), S # {}
  PROVE  Max(S) \in S /\ \A x \in S : Max(S) >= x
<1> DEFINE T == {bound - x : x \in S}
<1>1. T \in SUBSET Nat /\ T # {}
  <2>1. \A x \in S : bound - x \in Nat
    OBVIOUS
  <2> QED  BY <2>1
<1>2. PICK m \in T : \A y \in T : ~(<<y, m>> \in OpToRel(<, Nat))
  BY <1>1, NatLessThanWellFounded, WFMin
<1>3. \A y \in T : ~(y < m)
  BY <1>1, <1>2 DEF OpToRel
<1>4. PICK x \in S : m = bound - x
  BY <1>2
<1>5. \A y \in S : x >= y
  <2> SUFFICES ASSUME NEW y \in S
               PROVE  x >= y
    OBVIOUS
  <2>1. ~(bound - y < m)
    BY <1>3
  <2> QED  BY <1>4, <2>1
<1> QED  BY <1>5 DEF Max

\* A sequence of the elements of a finite set, each of them once, has them all.
LEMMA SeqOfSet ==
  ASSUME NEW S, IsFiniteSet(S), NEW s \in SetToSeqs(S)
  PROVE  /\ Len(s) = Cardinality(S) /\ s \in Seq(S)
         /\ \A i, j \in DOMAIN s : s[i] = s[j] => i = j
         /\ \A x \in S : \E i \in DOMAIN s : x = s[i]
<1> DEFINE n == Cardinality(S)
           T == {s[i] : i \in DOMAIN s}
<1>1. n \in Nat
  BY FS_CardinalityType
<1>2. s \in [1 .. n -> S] /\ \A i, j \in 1 .. n : i # j => s[i] # s[j]
  BY DEF SetToSeqs
<1>3. s \in Seq(S) /\ Len(s) = n /\ DOMAIN s = 1 .. n
  BY <1>1, <1>2
<1>4. T \subseteq S
  BY <1>2
<1>5. Cardinality(T) = n
  <2>1. s \in [1 .. n -> T] /\ \A x \in T : \E i \in 1 .. n : s[i] = x
    BY <1>2
  <2>2. s \in Bijection(1 .. n, T)
    BY <1>2, <2>1 DEF Bijection, Injection, Surjection, IsInjective
  <2> QED  BY <1>1, <2>2, FS_CountingElements DEF ExistsBijection
<1>6. T = S
  BY <1>4, <1>5, FS_Subset
<1> QED  BY <1>2, <1>3, <1>6

-----------------------------------------------------------------------------
(* Types                                                                     *)

\* Only an image is parked for its missing bytes.
Held == {p \in Parked : p.reason = "asset_missing" => p.op.kind = "attach"}

\* The queue of a device, and what became of its rows.
Queues ==
  /\ outbox \in [Device -> Seq(Row)]
  /\ nextSeq \in [Device -> Nat]
  /\ claimed \in [Device -> Nat]
  /\ blocked \in [Device -> SUBSET Held]
  /\ \A d \in Device : IsFiniteSet(blocked[d])
  /\ made \in [Device -> Nat]
  /\ resolved \in [Device -> SUBSET Nat]

\* A claim is one of rows that are there.
Claims ==
  \A d \in Device :
    /\ claimed[d] =< Len(outbox[d])
    /\ pc[d] \in {"claimed", "accepted"} => claimed[d] > 0

\* The workspace as the device shows it, and how far it has read.
Shown ==
  /\ doc \in [Device -> [Note -> Bodies]]
  /\ cursor \in [Device -> Nat]
  /\ through \in [Device -> Nat]
  /\ present \in [Device -> SUBSET Asset]

\* The worker: what it carries when its step says that it carries something.
Workers ==
  /\ pc \in [Device -> Step]
  /\ want \in [Device -> BOOLEAN]
  /\ archive \in [Device -> Checkpoint \cup {NoArchive}]
  /\ rejection \in [Device -> [ids: Seq(Nat), count: 0 .. RejectionsBeforeParking]]
  /\ \A d \in Device : pc[d] \in {"fetched", "exported"} => archive[d] \in Checkpoint

Services ==
  /\ log \in Seq(Entry)
  /\ floor \in Nat
  /\ ckpt \in Checkpoint
  /\ stray \in SUBSET [dev: Device, rows: Seq(Row)]
  /\ faults \in 0 .. MaxFaults

Plain == Queues /\ Claims /\ Shown /\ Workers /\ Services

\* An operation is a write of a note or an image.
LEMMA Operations ==
  /\ \A n \in Note, b \in Bodies : Write(n, b) \in Operation
  /\ \A a \in Asset : Attach(a) \in Operation
  /\ \A op \in Operation :
       /\ op.kind = "save" => op.target \in Note /\ op.body \in Bodies
       /\ op.kind # "save" => op.kind = "attach" /\ op.target \in Asset
BY DEF Operation, Write, Attach

\* A row that is queued.
LEMMA NewRowType ==
  ASSUME Queues, NEW d \in Device, NEW op \in Operation
  PROVE  NewRow(d, op) \in Row
BY DEF Queues, NewRow, Row

\* What a user's step does to the queue: one row more at its end, or another
\* write in its last row, which is not claimed.
LEMMA EnqueueQueues ==
  ASSUME Queues, Claims, NEW d \in Device, NEW op \in Operation, Enqueue(d, op),
         UNCHANGED <<claimed, pc>>
  PROVE  /\ outbox' \in [Device -> Seq(Row)] /\ nextSeq' \in [Device -> Nat]
         /\ made' \in [Device -> Nat] /\ Claims'
<1>1. NewRow(d, op) \in Row
  BY NewRowType
<1>2. outbox' = [outbox EXCEPT ![d] = Append(outbox[d], NewRow(d, op))]
  BY DEF Enqueue
<1>3. Append(outbox[d], NewRow(d, op)) \in Seq(Row) /\ outbox[d] \in Seq(Row)
      /\ Len(Append(outbox[d], NewRow(d, op))) = Len(outbox[d]) + 1
  BY <1>1 DEF Queues
<1>4. outbox' \in [Device -> Seq(Row)] /\ Claims'
  BY <1>2, <1>3 DEF Queues, Claims
<1> QED  BY <1>4 DEF Enqueue, Queues

\* The user keeps the types.
LEMMA PlainByUser ==
  ASSUME Plain, NEW d \in Device, User(d)
  PROVE  Plain'
<1> USE DEF Plain
<1>0. /\ outbox[d] \in Seq(Row) /\ nextSeq[d] \in Nat /\ claimed[d] \in Nat
      /\ blocked[d] \subseteq Held /\ IsFiniteSet(blocked[d])
      /\ made[d] \in Nat /\ resolved[d] \subseteq Nat /\ doc[d] \in [Note -> Bodies]
      /\ claimed[d] =< Len(outbox[d])
  BY DEF Queues, Shown, Claims
<1>1. ASSUME NEW n \in Note, NEW b \in Body, SaveDocument(d, n, b)
      PROVE  Plain'
  <2>1. Write(n, b) \in Operation /\ Enqueue(d, Write(n, b)) /\ b \in Bodies
    BY <1>1, Operations DEF SaveDocument, Bodies
  <2>2. UNCHANGED <<claimed, blocked, cursor, through, present, pc, worker, service,
                    resolved, faults>>
    BY <1>1 DEF SaveDocument, worker
  <2>3. Queues' /\ Claims'
    BY <2>1, <2>2, EnqueueQueues DEF Queues
  <2>4. doc' \in [Device -> [Note -> Bodies]]
    BY <1>0, <1>1, <2>1 DEF SaveDocument, Shown
  <2>5. Workers' /\ Services'
    BY <2>2 DEF Workers, Services, worker, service
  <2> QED  BY <2>2, <2>3, <2>4, <2>5 DEF Shown
<1>2. ASSUME NEW n \in Note, NEW b \in Body, SaveIntoTail(d, n, b)
      PROVE  Plain'
  <2>1. Write(n, b) \in Operation /\ b \in Bodies
    BY Operations DEF Bodies
  <2>2. UNCHANGED <<nextSeq, claimed, blocked, cursor, through, present, worker, service,
                    made, resolved, faults>>
    BY <1>2 DEF SaveIntoTail, history
  <2> DEFINE k == Len(outbox[d])
             tail == [outbox[d][k] EXCEPT !.op = Write(n, b)]
             rows == [outbox[d] EXCEPT ![k] = tail]
  <2>3. k \in 1 .. Len(outbox[d]) /\ outbox[d][k] \in Row
    BY <1>0, <1>2 DEF SaveIntoTail, Coalesces
  <2>4. tail \in Row
    BY <2>1, <2>3 DEF Row
  <2>5. rows \in Seq(Row) /\ Len(rows) = Len(outbox[d])
    BY <1>0, <2>3, <2>4
  <2>6. outbox' = [outbox EXCEPT ![d] = rows]
    BY <1>2 DEF SaveIntoTail
  <2> HIDE DEF rows
  <2>7. Queues'
    BY <2>2, <2>5, <2>6 DEF Queues
  <2>8. Claims'
    BY <2>2, <2>5, <2>6 DEF Queues, Claims, worker
  <2>9. Shown'
    BY <1>0, <1>2, <2>1, <2>2 DEF SaveIntoTail, Shown
  <2> QED  BY <2>2, <2>7, <2>8, <2>9 DEF Workers, Services, worker, service
<1>3. ASSUME NEW n \in Note, NEW b \in Body, SaveOversized(d, n, b)
      PROVE  Plain'
  <2>1. Write(n, b) \in Operation /\ b \in Bodies
    BY Operations DEF Bodies
  <2>2. UNCHANGED <<outbox, nextSeq, claimed, cursor, through, present, worker, service,
                    resolved, faults>>
    BY <1>3 DEF SaveOversized
  <2>3. /\ made' \in [Device -> Nat] /\ made'[d] \in Nat
    BY <1>0, <1>3 DEF SaveOversized, Queues
  <2> DEFINE parked == [id |-> made'[d], op |-> Write(n, b), reason |-> "too_large"]
  <2>4. parked \in Held /\ blocked' = [blocked EXCEPT ![d] = @ \cup {parked}]
    BY <1>3, <2>1, <2>3 DEF SaveOversized, Held, Parked
  <2>5. IsFiniteSet(blocked[d] \cup {parked})
    BY <1>0, FS_AddElement
  <2> HIDE DEF parked
  <2>6. /\ blocked' \in [Device -> SUBSET Held]
        /\ \A e \in Device : IsFiniteSet(blocked'[e])
    BY <1>0, <2>4, <2>5 DEF Queues
  <2>7. Queues' /\ Claims'
    BY <2>2, <2>3, <2>6 DEF Queues, Claims, worker
  <2>8. Shown'
    BY <1>0, <1>3, <2>1, <2>2 DEF SaveOversized, Shown
  <2> QED  BY <2>2, <2>7, <2>8 DEF Workers, Services, worker, service
<1>4. ASSUME NEW a \in Asset, AttachImage(d, a)
      PROVE  Plain'
  <2>1. Attach(a) \in Operation /\ Enqueue(d, Attach(a))
    BY <1>4, Operations DEF AttachImage
  <2>2. UNCHANGED <<claimed, blocked, doc, cursor, through, pc, worker, service, resolved, faults>>
    BY <1>4 DEF AttachImage, worker, canonical
  <2>3. Queues' /\ Claims'
    BY <2>1, <2>2, EnqueueQueues DEF Queues
  <2>4. Shown'
    BY <1>4, <2>2 DEF AttachImage, Shown
  <2> QED  BY <2>2, <2>3, <2>4 DEF Workers, Services, worker, service
<1>5. ASSUME NEW p \in blocked[d], RetryBlocked(d, p) \/ DiscardBlocked(d, p)
      PROVE  Plain'
  <2>1. p \in Parked /\ p.op \in Operation /\ p.id \in Nat /\ IsFiniteSet(blocked[d] \ {p})
    BY <1>0, FS_RemoveElement DEF Held, Parked
  <2>2. /\ blocked' = [blocked EXCEPT ![d] = @ \ {p}]
        /\ resolved' = [resolved EXCEPT ![d] = @ \cup {p.id}]
        /\ UNCHANGED <<claimed, doc, cursor, through, present, pc, worker, service, faults>>
    BY <1>5 DEF RetryBlocked, DiscardBlocked, canonical, worker
  <2>3. /\ blocked' \in [Device -> SUBSET Held] /\ resolved' \in [Device -> SUBSET Nat]
        /\ \A e \in Device : IsFiniteSet(blocked'[e])
    BY <1>0, <2>1, <2>2 DEF Queues
  <2>4. /\ outbox' \in [Device -> Seq(Row)] /\ nextSeq' \in [Device -> Nat]
        /\ made' \in [Device -> Nat] /\ Claims'
    <3>1. CASE RetryBlocked(d, p)
      <4>1. Requeued(d, p) \in Operation
        BY <1>0, <2>1, Operations DEF Requeued
      <4> QED  BY <2>2, <3>1, <4>1, EnqueueQueues DEF RetryBlocked
    <3>2. CASE DiscardBlocked(d, p)
      BY <2>2, <3>2 DEF DiscardBlocked, Queues, Claims
    <3> QED  BY <1>5, <3>1, <3>2
  <2>5. Queues'
    BY <2>2, <2>3, <2>4 DEF Queues
  <2> QED  BY <2>2, <2>4, <2>5 DEF Shown, Workers, Services, worker, service
<1>6. ASSUME NEW p \in blocked[d], RestoreAsset(d, p)
      PROVE  Plain'
  <2>1. UNCHANGED <<doc, outbox, nextSeq, claimed, blocked, cursor, through, worker, service,
                    made, resolved, faults>>
    BY <1>6 DEF RestoreAsset, history
  <2>2. present' \in [Device -> SUBSET Asset]
    <3>1. p.op.target \in Asset
      BY <1>0, <1>6, Operations DEF RestoreAsset, Held, Parked
    <3> QED  BY <1>6, <3>1 DEF RestoreAsset, Shown
  <2> QED  BY <2>1, <2>2 DEF Queues, Claims, Shown, Workers, Services, worker, service
<1> QED  BY <1>1, <1>2, <1>3, <1>4, <1>5, <1>6 DEF User

-----------------------------------------------------------------------------
(* What the steps of a cycle do to the queue                                 *)

KeptAs(rows, kept, head) == Renumbered([i \in DOMAIN kept |-> rows[kept[i]]], head)

\* Parking keeps the other rows, each once, under new numbers.
LEMMA KeptRows ==
  ASSUME NEW rows \in Seq(Row), NEW S \in SUBSET (DOMAIN rows), NEW kept \in SetToSeqs(S),
         NEW head \in Nat, NEW new, new = KeptAs(rows, kept, head)
  PROVE  /\ kept \in Seq(S) /\ new \in Seq(Row) /\ Len(new) = Len(kept)
         /\ \A i, j \in DOMAIN kept : kept[i] = kept[j] => i = j
         /\ \A x \in S : \E i \in DOMAIN kept : x = kept[i]
         /\ \A i \in DOMAIN kept : new[i].id = rows[kept[i]].id /\ new[i].op = rows[kept[i]].op
<1>1. IsFiniteSet(DOMAIN rows)
  BY FS_Interval
<1>2. IsFiniteSet(S)
  BY <1>1, FS_Subset
<1>3. /\ kept \in Seq(S)
      /\ \A i, j \in DOMAIN kept : kept[i] = kept[j] => i = j
      /\ \A x \in S : \E i \in DOMAIN kept : x = kept[i]
  BY <1>2, SeqOfSet
<1>4. new = [i \in DOMAIN kept |-> [rows[kept[i]] EXCEPT !.cseq = head + i - 1]]
  BY DEF KeptAs, Renumbered
<1>5. ASSUME NEW i \in DOMAIN kept
      PROVE  /\ rows[kept[i]] \in Row /\ new[i] = [rows[kept[i]] EXCEPT !.cseq = head + i - 1]
             /\ new[i] \in Row
             /\ new[i].id = rows[kept[i]].id /\ new[i].op = rows[kept[i]].op
  <2>1. rows[kept[i]] \in Row
    BY <1>3
  <2>2. i \in Nat /\ i >= 1
    BY <1>3
  <2>3. new[i] = [rows[kept[i]] EXCEPT !.cseq = head + i - 1] /\ head + i - 1 \in Nat
    BY <1>4, <2>2
  <2> QED  BY <2>1, <2>3 DEF Row
<1>6. new \in Seq(Row) /\ Len(new) = Len(kept)
  <2>1. DOMAIN kept = 1 .. Len(kept) /\ Len(kept) \in Nat /\ DOMAIN new = DOMAIN kept
    BY <1>3, <1>4
  <2>2. new \in [1 .. Len(kept) -> Row]
    BY <1>4, <1>5, <2>1
  <2> QED  BY <2>1, <2>2
<1> QED  BY <1>3, <1>5, <1>6

\* Rows leave the queue for the user to look at.
LEMMA ParkQueues ==
  ASSUME Plain, NEW d \in Device, NEW gone \in SUBSET (DOMAIN outbox[d]), gone # {},
         NEW reason \in {"asset_missing", "cloud_rejected"},
         reason = "asset_missing" => \A i \in gone : outbox[d][i].op.kind = "attach",
         Park(d, gone, reason), UNCHANGED history
  PROVE  Queues' /\ Claims' /\ Shown'
<1> USE DEF Plain
<1>0. /\ outbox[d] \in Seq(Row) /\ blocked[d] \subseteq Held /\ IsFiniteSet(blocked[d])
      /\ outbox[d][1] \in Row
  <2>1. outbox[d] \in Seq(Row) /\ Len(outbox[d]) > 0
    BY DEF Queues
  <2> QED  BY <2>1 DEF Queues
<1>1. PICK kept \in SetToSeqs(DOMAIN outbox[d] \ gone) :
        /\ outbox' = [outbox EXCEPT ![d] =
             KeptAs(outbox[d], kept, outbox[d][1].cseq)]
        /\ nextSeq' = [nextSeq EXCEPT ![d] = outbox[d][1].cseq + Len(kept)]
  BY DEF Park, KeptAs
<1> DEFINE new == KeptAs(outbox[d], kept, outbox[d][1].cseq)
           parked == {ParkedRow(outbox[d][i], reason) : i \in gone}
<1>2. outbox[d][1].cseq \in Nat
  BY <1>0 DEF Row
<1>3. kept \in Seq(DOMAIN outbox[d] \ gone) /\ new \in Seq(Row) /\ Len(new) = Len(kept)
  <2> DEFINE rows == outbox[d]
             S == DOMAIN outbox[d] \ gone
             head == outbox[d][1].cseq
  <2>1. /\ rows \in Seq(Row) /\ S \in SUBSET (DOMAIN rows) /\ kept \in SetToSeqs(S)
        /\ head \in Nat /\ new = KeptAs(rows, kept, head)
    BY <1>0, <1>1, <1>2
  <2> HIDE DEF rows, S, head, new
  <2>2. kept \in Seq(S) /\ new \in Seq(Row) /\ Len(new) = Len(kept)
    BY <2>1, KeptRows
  <2> QED  BY <2>2 DEF S
<1>4. parked \subseteq Held
  <2> SUFFICES ASSUME NEW i \in gone
               PROVE  ParkedRow(outbox[d][i], reason) \in Held
    OBVIOUS
  <2>1. outbox[d][i] \in Row
    BY <1>0
  <2> QED  BY <2>1 DEF ParkedRow, Held, Parked, Row
<1>5. IsFiniteSet(blocked[d] \cup parked)
  <2>1. IsFiniteSet(gone)
    BY <1>0, FS_Interval, FS_Subset
  <2>2. [i \in gone |-> ParkedRow(outbox[d][i], reason)] \in Surjection(gone, parked)
    BY DEF Surjection
  <2>3. IsFiniteSet(parked)
    BY <2>1, <2>2, FS_Surjection DEF ExistsSurjection
  <2> QED  BY <1>0, <2>3, FS_Union
<1> HIDE DEF new, parked
<1>6. /\ outbox' = [outbox EXCEPT ![d] = new]
      /\ blocked' = [blocked EXCEPT ![d] = @ \cup parked]
      /\ claimed' = [claimed EXCEPT ![d] = 0] /\ pc' = [pc EXCEPT ![d] = "push"]
      /\ UNCHANGED <<made, resolved, doc, cursor, through, present>>
  BY <1>1 DEF Park, new, parked, history, canonical
<1>7. nextSeq' \in [Device -> Nat]
  <2>1. outbox[d][1].cseq + Len(kept) \in Nat
    BY <1>2, <1>3
  <2> QED  BY <1>1, <2>1 DEF Queues
<1>8. Queues'
  <2>1. outbox' \in [Device -> Seq(Row)]
    BY <1>3, <1>6 DEF Queues
  <2>2. blocked' \in [Device -> SUBSET Held] /\ \A e \in Device : IsFiniteSet(blocked'[e])
    BY <1>0, <1>4, <1>5, <1>6 DEF Queues
  <2> QED  BY <1>6, <1>7, <2>1, <2>2 DEF Queues
<1>9. Claims'
  BY <1>3, <1>6, <1>8 DEF Queues, Claims, Workers
<1> QED  BY <1>6, <1>8, <1>9 DEF Shown

\* A batch that is accepted goes to the end of the log without the rows that
\* were there already.
LEMMA Accepted ==
  ASSUME log \in Seq(Entry), NEW d \in Device, NEW rows \in Seq(Row),
         NEW known \in 0 .. Len(rows), Accept(d, rows, known)
  PROVE  /\ log' \in Seq(Entry) /\ Len(log') = Len(log) + Len(rows) - known
         /\ \A s \in DOMAIN log : s \in DOMAIN log' /\ log'[s] = log[s]
         /\ \A i \in known + 1 .. Len(rows) :
              /\ Len(log) + i - known \in DOMAIN log'
              /\ log'[Len(log) + i - known] = EntryOf(d, rows[i])
         /\ \A s \in DOMAIN log' :
              s \in DOMAIN log \/ \E i \in known + 1 .. Len(rows) : s = Len(log) + i - known
<1> DEFINE n == Len(log) + Len(rows) - known
<1>1. n \in Nat /\ DOMAIN log = 1 .. Len(log) /\ Len(log) \in Nat /\ known \in Nat
      /\ Len(rows) \in Nat
  OBVIOUS
<1>2. log' = [s \in 1 .. n |->
                IF s =< Len(log) THEN log[s] ELSE EntryOf(d, rows[known + s - Len(log)])]
  BY DEF Accept
<1>3. ASSUME NEW i \in 1 .. Len(rows)
      PROVE  EntryOf(d, rows[i]) \in Entry
  <2>1. rows[i] \in Row
    OBVIOUS
  <2> QED  BY <2>1 DEF EntryOf, Entry, Row
<1>4. ASSUME NEW s \in 1 .. n, ~(s =< Len(log))
      PROVE  known + s - Len(log) \in known + 1 .. Len(rows)
  BY <1>1, <1>4
<1>5. \A s \in 1 .. n : log'[s] \in Entry
  <2> SUFFICES ASSUME NEW s \in 1 .. n
               PROVE  log'[s] \in Entry
    OBVIOUS
  <2>1. CASE s =< Len(log)
    BY <1>1, <1>2, <2>1
  <2>2. CASE ~(s =< Len(log))
    <3>1. known + s - Len(log) \in 1 .. Len(rows)
      BY <1>1, <1>4, <2>2
    <3> QED  BY <1>2, <1>3, <2>2, <3>1
  <2> QED  BY <2>1, <2>2
<1> HIDE DEF n
<1>6. log' \in Seq(Entry) /\ Len(log') = n /\ DOMAIN log' = 1 .. n
  <2>1. log' \in [1 .. n -> Entry]
    BY <1>2, <1>5
  <2> QED  BY <1>1, <2>1
<1>7. \A s \in DOMAIN log : s \in DOMAIN log' /\ log'[s] = log[s]
  BY <1>1, <1>2, <1>6 DEF n
<1>8. ASSUME NEW i \in known + 1 .. Len(rows)
      PROVE  /\ Len(log) + i - known \in DOMAIN log'
             /\ log'[Len(log) + i - known] = EntryOf(d, rows[i])
  <2> DEFINE s == Len(log) + i - known
  <2>1. i \in Nat /\ s \in 1 .. n /\ ~(s =< Len(log)) /\ known + s - Len(log) = i
    BY <1>1 DEF n
  <2> HIDE DEF s
  <2>2. log'[s] = EntryOf(d, rows[i])
    BY <1>2, <2>1
  <2> QED  BY <1>6, <2>1, <2>2 DEF s
<1>9. ASSUME NEW s \in DOMAIN log', s \notin DOMAIN log
      PROVE  \E i \in known + 1 .. Len(rows) : s = Len(log) + i - known
  <2>1. s \in 1 .. n /\ ~(s =< Len(log)) /\ s \in Nat
    BY <1>1, <1>6, <1>9
  <2>2. known + s - Len(log) \in known + 1 .. Len(rows)
    BY <1>4, <2>1
  <2> QED  BY <1>1, <2>1, <2>2
<1> QED  BY <1>6, <1>7, <1>8, <1>9 DEF n

\* The batch of a claim.
LEMMA BatchRows ==
  ASSUME Plain, NEW d \in Device
  PROVE  /\ outbox[d] \in Seq(Row) /\ claimed[d] \in 0 .. Len(outbox[d])
         /\ Batch(d) \in Seq(Row) /\ Len(Batch(d)) = claimed[d]
         /\ \A i \in 1 .. claimed[d] : Batch(d)[i] = outbox[d][i]
<1>1. /\ outbox[d] \in Seq(Row) /\ claimed[d] \in Nat /\ claimed[d] =< Len(outbox[d])
  BY DEF Plain, Queues, Claims
<1> QED  BY <1>1 DEF Batch

\* What is left when the service accepted the claimed rows.
LEMMA UnclaimedRows ==
  ASSUME Plain, NEW d \in Device
  PROVE  /\ Unclaimed(d) \in Seq(Row) /\ Len(Unclaimed(d)) = Len(outbox[d]) - claimed[d]
         /\ \A i \in DOMAIN Unclaimed(d) : /\ i + claimed[d] \in DOMAIN outbox[d]
                                           /\ Unclaimed(d)[i] = outbox[d][i + claimed[d]]
         /\ \A j \in DOMAIN outbox[d] : j =< claimed[d] \/ j - claimed[d] \in DOMAIN Unclaimed(d)
<1>1. outbox[d] \in Seq(Row) /\ claimed[d] \in Nat /\ claimed[d] =< Len(outbox[d])
  BY DEF Plain, Queues, Claims
<1> DEFINE rows == SubSeq(outbox[d], claimed[d] + 1, Len(outbox[d]))
<1>2. rows \in Seq(Row)
  BY <1>1
<1>3. Len(rows) = Len(outbox[d]) - claimed[d]
  BY <1>1
<1>4. \A i \in 1 .. Len(rows) : rows[i] = outbox[d][i + claimed[d]]
  BY <1>1
<1> HIDE DEF rows
<1>5. /\ DOMAIN rows = 1 .. Len(rows) /\ DOMAIN outbox[d] = 1 .. Len(outbox[d])
      /\ Len(outbox[d]) \in Nat
  BY <1>1, <1>2
<1>6. \A i \in DOMAIN rows : i + claimed[d] \in DOMAIN outbox[d]
  BY <1>1, <1>3, <1>5
<1>7. \A j \in DOMAIN outbox[d] : j =< claimed[d] \/ j - claimed[d] \in DOMAIN rows
  BY <1>1, <1>3, <1>5
<1> QED  BY <1>2, <1>3, <1>4, <1>5, <1>6, <1>7 DEF Unclaimed, rows

\* Rows put behind others.
LEMMA RowsAndMore ==
  ASSUME NEW rows \in Seq(Row), NEW more \in Seq(Row)
  PROVE  /\ rows \o more \in Seq(Row)
         /\ DOMAIN (rows \o more) = 1 .. Len(rows) + Len(more)
         /\ \A i \in 1 .. Len(rows) : (rows \o more)[i] = rows[i]
         /\ \A i \in 1 .. Len(more) : (rows \o more)[Len(rows) + i] = more[i]
<1>1. rows \o more \in Seq(Row) /\ Len(rows \o more) = Len(rows) + Len(more)
  OBVIOUS
<1>2. Len(rows) \in Nat /\ Len(more) \in Nat
  OBVIOUS
<1>3. \A i \in 1 .. Len(rows) : (rows \o more)[i] = rows[i]
  OBVIOUS
<1>4. ASSUME NEW i \in 1 .. Len(more)
      PROVE  (rows \o more)[Len(rows) + i] = more[i]
  <2>1. Len(rows) + i \in Len(rows) + 1 .. Len(rows) + Len(more) /\ Len(rows) + i - Len(rows) = i
    BY <1>2
  <2> QED  BY <1>2, <2>1
<1> QED  BY <1>1, <1>3, <1>4

\* What is left when a row's echo came.
LEMMA RowsWithout ==
  ASSUME NEW rows \in Seq(Row), NEW i \in DOMAIN rows
  PROVE  /\ RemoveAt(rows, i) \in Seq(Row) /\ Len(RemoveAt(rows, i)) = Len(rows) - 1
         /\ \A j \in 1 .. Len(rows) - 1 :
              RemoveAt(rows, i)[j] = IF j < i THEN rows[j] ELSE rows[j + 1]
<1> DEFINE front == SubSeq(rows, 1, i - 1)
           back == SubSeq(rows, i + 1, Len(rows))
<1>1. i \in 1 .. Len(rows) /\ Len(rows) \in Nat
  OBVIOUS
<1>2. front \in Seq(Row) /\ Len(front) = i - 1 /\ \A j \in 1 .. i - 1 : front[j] = rows[j]
  BY <1>1
<1>3. back \in Seq(Row) /\ Len(back) = Len(rows) - i
      /\ \A j \in 1 .. Len(rows) - i : back[j] = rows[i + j]
  BY <1>1
<1> HIDE DEF front, back
<1>4. front \o back \in Seq(Row) /\ Len(front \o back) = Len(rows) - 1
  BY <1>1, <1>2, <1>3
<1>5. ASSUME NEW j \in 1 .. Len(rows) - 1
      PROVE  (front \o back)[j] = IF j < i THEN rows[j] ELSE rows[j + 1]
  <2>1. CASE j < i
    BY <1>1, <1>2, <1>3, <2>1
  <2>2. CASE ~(j < i)
    <3>1. j - (i - 1) \in 1 .. Len(rows) - i /\ i + (j - (i - 1)) = j + 1
      BY <1>1, <2>2
    <3>2. (front \o back)[j] = back[j - (i - 1)]
      <4>1. j - (i - 1) \in 1 .. Len(back) /\ Len(front) + (j - (i - 1)) = j
        BY <1>1, <1>2, <1>3, <2>2, <3>1
      <4>2. \A x \in 1 .. Len(back) : (front \o back)[Len(front) + x] = back[x]
        BY <1>2, <1>3, RowsAndMore
      <4> QED  BY <4>1, <4>2
    <3> QED  BY <1>3, <2>2, <3>1, <3>2
  <2> QED  BY <2>1, <2>2
<1> QED  BY <1>4, <1>5 DEF RemoveAt, front, back

-----------------------------------------------------------------------------
(* The steps of a cycle keep the types                                       *)

\* The steps of a cycle, of a fault and of the service that leave the queue alone.
LEMMA PlainByWorker ==
  ASSUME Plain, NEW d \in Device,
         \/ StartRebuild(d) \/ FetchCheckpoint(d) \/ Rebuild(d) \/ RefuseRebuild(d) \/ EndPush(d)
         \/ PullTruncated(d) \/ PullDrained(d) \/ ExportArchive(d) \/ SkipPublication(d)
         \/ PublishCheckpoint(d) \/ EndCycle(d) \/ StorageFailure(d)
  PROVE  Plain'
<1> USE DEF Plain
<1>1. UNCHANGED <<outbox, nextSeq, claimed, blocked, made, resolved, log, floor, stray, present,
                  rejection>>
  BY DEF StartRebuild, FetchCheckpoint, Rebuild, RefuseRebuild, EndPush, PullTruncated,
         PullDrained, ExportArchive, SkipPublication, PublishCheckpoint, EndCycle, StorageFailure,
         durable, service, history
<1>2. Queues'
  BY <1>1 DEF Queues
<1>3. \/ pc' = pc
      \/ \E step \in {"idle", "fetch", "fetched", "rebuilt", "pull", "settled", "exported"} :
           pc' = [pc EXCEPT ![d] = step]
  BY DEF StartRebuild, FetchCheckpoint, Rebuild, RefuseRebuild, EndPush, PullTruncated,
         PullDrained, ExportArchive, SkipPublication, PublishCheckpoint, EndCycle, StorageFailure
<1>4. Claims'
  BY <1>1, <1>3 DEF Claims, Workers
<1>5. faults' \in 0 .. MaxFaults /\ ckpt' \in Checkpoint
  <2>1. CASE StorageFailure(d)
    BY <2>1, BoundsAssumption DEF StorageFailure, Fault, Services, service
  <2>2. CASE PublishCheckpoint(d)
    BY <2>2 DEF PublishCheckpoint, Services, Workers, history
  <2> QED
    BY <2>1, <2>2
    DEF StartRebuild, FetchCheckpoint, Rebuild, RefuseRebuild, EndPush, PullTruncated,
        PullDrained, ExportArchive, SkipPublication, EndCycle, service, history, Services
<1>6. Shown'
  <2>1. CASE Rebuild(d)
    <3>1. archive[d] \in Checkpoint
      BY <2>1 DEF Rebuild, Workers
    <3>2. archive[d].seq \in Nat /\ archive[d].docs \in [Note -> Bodies]
      BY <3>1 DEF Checkpoint
    <3> QED  BY <1>1, <2>1, <3>2 DEF Rebuild, Shown
  <2> QED
    BY <1>1, <2>1
    DEF StartRebuild, FetchCheckpoint, RefuseRebuild, EndPush, PullTruncated, PullDrained,
        ExportArchive, SkipPublication, PublishCheckpoint, EndCycle, StorageFailure, durable, Shown
<1>7. Workers'
  <2>1. pc' \in [Device -> Step] /\ \A e \in Device : e # d => pc'[e] = pc[e]
    BY <1>3 DEF Workers, Step
  <2>2. want' \in [Device -> BOOLEAN]
    <3>1. want' = want \/ \E w \in BOOLEAN : want' = [want EXCEPT ![d] = w]
      BY DEF StartRebuild, FetchCheckpoint, Rebuild, RefuseRebuild, EndPush, PullTruncated,
             PullDrained, ExportArchive, SkipPublication, PublishCheckpoint, EndCycle,
             StorageFailure
    <3> QED  BY <3>1 DEF Workers
  <2>3. /\ archive' \in [Device -> Checkpoint \cup {NoArchive}]
        /\ \A e \in Device : e # d => archive'[e] = archive[e]
        /\ pc'[d] \in {"fetched", "exported"} => archive'[d] \in Checkpoint
    <3>1. CASE FetchCheckpoint(d)
      BY <3>1 DEF FetchCheckpoint, Workers, Services
    <3>2. CASE ExportArchive(d)
      <4>1. [seq |-> cursor[d], docs |-> doc[d]] \in Checkpoint
        BY DEF Shown, Checkpoint
      <4> QED  BY <3>2, <4>1 DEF ExportArchive, Workers
    <3>3. CASE Rebuild(d) \/ RefuseRebuild(d) \/ PublishCheckpoint(d) \/ EndCycle(d)
      BY <3>3 DEF Rebuild, RefuseRebuild, PublishCheckpoint, EndCycle, Workers
    <3>4. CASE StartRebuild(d) \/ EndPush(d) \/ PullTruncated(d) \/ PullDrained(d)
                 \/ SkipPublication(d) \/ StorageFailure(d)
      BY <3>4 DEF StartRebuild, EndPush, PullTruncated, PullDrained, SkipPublication,
                  StorageFailure, Workers
    <3> QED  BY <3>1, <3>2, <3>3, <3>4
  <2> QED  BY <1>1, <2>1, <2>2, <2>3 DEF Workers
<1>8. Services'
  BY <1>1, <1>5 DEF Services
<1> QED  BY <1>2, <1>4, <1>6, <1>7, <1>8

\* A crash, a lost image, and what is pulled without an echo.
LEMMA PlainByPull ==
  ASSUME Plain, NEW d \in Device,
         \/ Crash(d) \/ (\E a \in Asset : LoseAsset(d, a)) \/ PullDuplicate(d) \/ PullRemote(d)
  PROVE  Plain'
<1> USE DEF Plain
<1>1. CASE Crash(d)
  <2>1. /\ claimed' = [claimed EXCEPT ![d] = 0] /\ pc' = [pc EXCEPT ![d] = "idle"]
        /\ want' = [want EXCEPT ![d] = FALSE] /\ archive' = [archive EXCEPT ![d] = NoArchive]
        /\ rejection' = [rejection EXCEPT ![d] = NoRejection] /\ faults' = faults + 1
        /\ faults < MaxFaults
        /\ UNCHANGED <<outbox, nextSeq, blocked, made, resolved, doc, cursor, through, present,
                       log, floor, ckpt, stray>>
    BY <1>1 DEF Crash, Fault, canonical, service
  <2>2. Queues' /\ Claims' /\ Shown'
    BY <2>1 DEF Queues, Claims, Shown, Workers
  <2>3. NoRejection \in [ids: Seq(Nat), count: 0 .. RejectionsBeforeParking]
    <3>1. << >> \in Seq(Nat)
      OBVIOUS
    <3> QED  BY <3>1 DEF NoRejection, RejectionsBeforeParking
  <2>4. Workers'
    BY <2>1, <2>3 DEF Workers, Step
  <2>5. Services'
    BY <2>1, BoundsAssumption DEF Services
  <2> QED  BY <2>2, <2>4, <2>5
<1>2. ASSUME NEW a \in Asset, LoseAsset(d, a)
      PROVE  Plain'
  <2>1. /\ UNCHANGED <<outbox, nextSeq, claimed, blocked, made, resolved, doc, cursor, through,
                       worker, service>>
        /\ present' = [present EXCEPT ![d] = @ \ {a}]
        /\ faults' = faults + 1 /\ faults < MaxFaults
    BY <1>2 DEF LoseAsset, Fault
  <2>2. Queues' /\ Claims' /\ Shown'
    BY <2>1 DEF Queues, Claims, Shown, worker
  <2>3. Workers' /\ Services'
    BY <2>1, BoundsAssumption DEF Workers, Services, worker, service
  <2> QED  BY <2>2, <2>3
<1>3. CASE PullDuplicate(d)
  <2>1. /\ cursor' = [cursor EXCEPT ![d] = @ + 1]
        /\ UNCHANGED <<outbox, nextSeq, claimed, blocked, made, resolved, doc, through, present,
                       worker, service, faults>>
    BY <1>3 DEF PullDuplicate, history
  <2>2. cursor' \in [Device -> Nat]
    BY <2>1 DEF Shown
  <2>3. Queues' /\ Claims'
    BY <2>1 DEF Queues, Claims, worker
  <2> QED  BY <2>1, <2>2, <2>3 DEF Shown, Workers, Services, worker, service
<1>4. CASE PullRemote(d)
  <2>1. /\ cursor' = [cursor EXCEPT ![d] = cursor[d] + 1]
        /\ UNCHANGED <<outbox, nextSeq, claimed, blocked, made, resolved, through, worker, service,
                       faults>>
    BY <1>4 DEF PullRemote, Incorporate, history
  <2>2. log[cursor[d] + 1].op \in Operation
    <3>1. cursor[d] + 1 \in DOMAIN log
      BY <1>4 DEF PullRemote, InLog, Shown, Services
    <3>2. log[cursor[d] + 1] \in Entry
      BY <3>1 DEF Services
    <3> QED  BY <3>2 DEF Entry
  <2>3. doc' \in [Device -> [Note -> Bodies]]
    <3>1. \/ doc' = doc
          \/ /\ log[cursor[d] + 1].op.kind = "save"
             /\ doc' = [doc EXCEPT ![d][log[cursor[d] + 1].op.target] = log[cursor[d] + 1].op.body]
      BY <1>4 DEF PullRemote
    <3>2. doc[d] \in [Note -> Bodies]
      BY DEF Shown
    <3> DEFINE op == log[cursor[d] + 1].op
    <3>3. op.kind = "save" => op.target \in Note /\ op.body \in Bodies
      BY <2>2, Operations
    <3> HIDE DEF op
    <3>4. CASE op.kind = "save" /\ doc' = [doc EXCEPT ![d][op.target] = op.body]
      BY <3>2, <3>3, <3>4 DEF Shown
    <3> QED  BY <3>1, <3>4 DEF op, Shown
  <2>4. present' \in [Device -> SUBSET Asset]
    <3>1. \/ present' = present
          \/ /\ log[cursor[d] + 1].op.kind = "attach"
             /\ present' = [present EXCEPT ![d] = @ \cup {log[cursor[d] + 1].op.target}]
      BY <1>4 DEF PullRemote
    <3> QED  BY <2>2, <3>1, Operations DEF Shown
  <2>5. Shown'
    <3>1. cursor' \in [Device -> Nat]
      BY <2>1 DEF Shown
    <3> QED  BY <2>1, <2>3, <2>4, <3>1 DEF Shown
  <2> QED  BY <2>1, <2>5 DEF Queues, Claims, Workers, Services, worker, service
<1> QED  BY <1>1, <1>2, <1>3, <1>4

\* Rows that are claimed carry one more attempt.
LEMMA ClaimedRows ==
  ASSUME Plain, NEW d \in Device, NEW k \in 1 .. Len(outbox[d]), Claim(d, k)
  PROVE  /\ claimed' = [claimed EXCEPT ![d] = k]
         /\ outbox' \in [Device -> Seq(Row)] /\ Len(outbox'[d]) = Len(outbox[d])
         /\ \A e \in Device : e # d => outbox'[e] = outbox[e]
         /\ \A i \in DOMAIN outbox[d] : outbox'[d][i].id = outbox[d][i].id
         /\ \A i \in 1 .. k : outbox'[d][i].attempts > 0
<1> DEFINE rows == [i \in DOMAIN outbox[d] |->
                      IF i =< k THEN Tried(outbox[d][i]) ELSE outbox[d][i]]
<1>1. outbox[d] \in Seq(Row)
  BY DEF Plain, Queues
<1>2. ASSUME NEW i \in DOMAIN outbox[d]
      PROVE  rows[i] \in Row /\ rows[i].id = outbox[d][i].id /\ (i =< k => rows[i].attempts > 0)
  <2>1. outbox[d][i] \in Row
    BY <1>1
  <2>2. /\ Lesser(2, outbox[d][i].attempts + 1) \in 0 .. 2
        /\ Lesser(2, outbox[d][i].attempts + 1) > 0
    BY <2>1 DEF Row, Lesser
  <2> HIDE DEF Lesser
  <2>3. CASE i =< k
    BY <2>1, <2>2, <2>3 DEF Row, Tried
  <2>4. CASE ~(i =< k)
    BY <2>1, <2>4 DEF Row
  <2> QED  BY <2>3, <2>4
<1>3. rows \in Seq(Row) /\ Len(rows) = Len(outbox[d]) /\ DOMAIN rows = DOMAIN outbox[d]
  <2>1. DOMAIN outbox[d] = 1 .. Len(outbox[d]) /\ Len(outbox[d]) \in Nat
    BY <1>1
  <2>2. rows = [i \in DOMAIN outbox[d] |-> rows[i]]
    OBVIOUS
  <2> HIDE DEF rows
  <2>3. rows \in [1 .. Len(outbox[d]) -> Row]
    BY <1>2, <2>1, <2>2
  <2> QED  BY <2>1, <2>3
<1>4. claimed' = [claimed EXCEPT ![d] = k]
  BY DEF Claim
<1>r. outbox' = [outbox EXCEPT ![d] = rows]
  BY DEF Claim
<1> HIDE DEF rows
<1>5. outbox' \in [Device -> Seq(Row)] /\ outbox'[d] = rows
  BY <1>3, <1>r DEF Plain, Queues
<1>6. \A i \in 1 .. k : i \in DOMAIN outbox[d] /\ i =< k
  BY <1>1
<1> QED  BY <1>2, <1>3, <1>4, <1>r, <1>5, <1>6 DEF Plain, Queues

\* The rows that go back into the queue when their images are there again.
LEMMA RequeuedType ==
  ASSUME Plain, NEW d \in Device, NEW order \in SetToSeqs(Back(d))
  PROVE  /\ order \in Seq(Back(d)) /\ RequeuedRows(d, order) \in Seq(Row)
         /\ Len(RequeuedRows(d, order)) = Len(order)
         /\ \A i \in DOMAIN order : RequeuedRows(d, order)[i].id = made[d] + i
<1>1. /\ blocked[d] \subseteq Held /\ IsFiniteSet(blocked[d]) /\ made[d] \in Nat /\ nextSeq[d] \in Nat
  BY DEF Plain, Queues
<1>2. IsFiniteSet(Back(d)) /\ Back(d) \subseteq Held
  BY <1>1, FS_Subset DEF Back
<1>3. order \in Seq(Back(d))
  BY <1>2, SeqOfSet
<1>4. DOMAIN order = 1 .. Len(order) /\ Len(order) \in Nat
  BY <1>3
<1>5. ASSUME NEW i \in DOMAIN order
      PROVE  [id |-> made[d] + i, cseq |-> nextSeq[d] + i - 1, op |-> order[i].op,
              attempts |-> 0] \in Row
  <2>1. order[i] \in Held /\ order[i].op \in Operation
    BY <1>2, <1>3 DEF Held, Parked
  <2>2. i \in Nat /\ i >= 1
    BY <1>4
  <2> QED  BY <1>1, <2>1, <2>2 DEF Row
<1>6. RequeuedRows(d, order) \in [1 .. Len(order) -> Row]
  BY <1>4, <1>5 DEF RequeuedRows
<1>7. \A i \in DOMAIN order : RequeuedRows(d, order)[i].id = made[d] + i
  BY DEF RequeuedRows
<1> QED  BY <1>3, <1>4, <1>6, <1>7

\* A batch that was lost on the way leaves a claim given up.
LEMMA PlainByRelease ==
  ASSUME Plain, NEW d \in Device, NEW step \in {"pull", "idle"}, Release(d, step)
  PROVE  /\ Queues' \/ ~UNCHANGED <<made, resolved>>
         /\ Claims' /\ (Shown' \/ ~UNCHANGED <<cursor>>)
         /\ Workers' \/ ~(rejection' \in [Device -> [ids: Seq(Nat), count: 0 .. RejectionsBeforeParking]])
<1>1. /\ claimed' = [claimed EXCEPT ![d] = 0] /\ pc' = [pc EXCEPT ![d] = step]
      /\ UNCHANGED <<outbox, nextSeq, blocked, doc, cursor, through, present, want, archive>>
  BY DEF Release, canonical
<1>2. Claims'
  BY <1>1 DEF Plain, Queues, Claims, Workers
<1> QED  BY <1>1, <1>2 DEF Plain, Queues, Shown, Workers, Step

\* The requests of a worker and their answers keep the types.
LEMMA PlainByPush ==
  ASSUME Plain, NEW d \in Device,
         \/ BeginPush(d) \/ (\E k \in 1 .. Len(outbox[d]) : Claim(d, k))
         \/ ParkMissing(d) \/ ReleaseMissing(d) \/ Push(d) \/ Acknowledge(d) \/ PushRefused(d)
         \/ \E step \in {"pull", "idle"} : PushFails(d, step) \/ PushTimesOut(d, step)
         \/ PullEcho(d)
  PROVE  Plain'
<1>0. /\ outbox[d] \in Seq(Row) /\ nextSeq[d] \in Nat /\ claimed[d] \in 0 .. Len(outbox[d])
      /\ blocked[d] \subseteq Held /\ IsFiniteSet(blocked[d])
      /\ made[d] \in Nat /\ resolved[d] \subseteq Nat
      /\ pc[d] \in {"claimed", "accepted"} => claimed[d] > 0
  BY DEF Plain, Queues, Claims
<1>r. NoRejection \in [ids: Seq(Nat), count: 0 .. RejectionsBeforeParking]
  <2>1. << >> \in Seq(Nat)
    OBVIOUS
  <2> QED  BY <2>1 DEF NoRejection, RejectionsBeforeParking
<1>1. CASE BeginPush(d)
  <2>1. PICK order \in SetToSeqs(Back(d)) :
          /\ outbox' = [outbox EXCEPT ![d] = @ \o RequeuedRows(d, order)]
          /\ nextSeq' = [nextSeq EXCEPT ![d] = @ + Len(order)]
          /\ made' = [made EXCEPT ![d] = @ + Len(order)]
    BY <1>1 DEF BeginPush
  <2>2. /\ blocked' = [blocked EXCEPT ![d] = @ \ Back(d)]
        /\ resolved' = [resolved EXCEPT ![d] = @ \cup {p.id : p \in Back(d)}]
        /\ pc' = [pc EXCEPT ![d] = "push"]
        /\ UNCHANGED <<claimed, doc, cursor, through, present, want, archive, rejection, service,
                       faults>>
    BY <1>1 DEF BeginPush, canonical
  <2>3. /\ order \in Seq(Back(d)) /\ RequeuedRows(d, order) \in Seq(Row)
        /\ Len(RequeuedRows(d, order)) = Len(order)
    BY RequeuedType
  <2>4. /\ outbox[d] \o RequeuedRows(d, order) \in Seq(Row)
        /\ Len(outbox[d] \o RequeuedRows(d, order)) = Len(outbox[d]) + Len(order)
        /\ Len(order) \in Nat
    <3> DEFINE more == RequeuedRows(d, order)
    <3>1. more \in Seq(Row) /\ Len(more) = Len(order)
      BY <2>3
    <3> HIDE DEF more
    <3>2. outbox[d] \o more \in Seq(Row)
      BY <1>0, <3>1
    <3>3. Len(outbox[d] \o more) = Len(outbox[d]) + Len(more)
      BY <1>0, <3>1
    <3>4. Len(order) \in Nat
      BY <2>3
    <3> QED  BY <3>1, <3>2, <3>3, <3>4 DEF more
  <2>5. outbox' \in [Device -> Seq(Row)] /\ Claims'
    BY <2>1, <2>2, <2>4 DEF Plain, Queues, Claims, Workers
  <2>6. nextSeq' \in [Device -> Nat] /\ made' \in [Device -> Nat]
    BY <2>1, <2>4 DEF Plain, Queues
  <2>7. blocked' \in [Device -> SUBSET Held] /\ \A e \in Device : IsFiniteSet(blocked'[e])
    <3>1. IsFiniteSet(blocked[d] \ Back(d))
      BY <1>0, FS_Subset
    <3> QED  BY <1>0, <2>2, <3>1 DEF Plain, Queues
  <2>8. resolved' \in [Device -> SUBSET Nat]
    <3>1. {p.id : p \in Back(d)} \subseteq Nat
      BY <1>0 DEF Back, Held, Parked
    <3> QED  BY <1>0, <2>2, <3>1 DEF Plain, Queues
  <2>9. Queues' /\ Shown'
    BY <2>2, <2>5, <2>6, <2>7, <2>8 DEF Plain, Queues, Shown
  <2>10. Workers' /\ Services'
    BY <2>2 DEF Plain, Workers, Services, service, Step
  <2> QED  BY <2>5, <2>9, <2>10 DEF Plain
<1>2. ASSUME NEW k \in 1 .. Len(outbox[d]), Claim(d, k)
      PROVE  Plain'
  <2>1. /\ outbox' \in [Device -> Seq(Row)] /\ Len(outbox'[d]) = Len(outbox[d])
        /\ \A e \in Device : e # d => outbox'[e] = outbox[e]
        /\ claimed' = [claimed EXCEPT ![d] = k]
    BY <1>2, ClaimedRows
  <2>2. /\ pc' = [pc EXCEPT ![d] = "claimed"]
        /\ UNCHANGED <<nextSeq, blocked, doc, cursor, through, present, want, archive, rejection,
                       service, made, resolved, faults>>
    BY <1>2 DEF Claim, canonical, history
  <2>3. k \in Nat /\ k > 0 /\ k =< Len(outbox[d])
    BY <1>0
  <2>4. Queues' /\ Claims' /\ Shown'
    BY <2>1, <2>2, <2>3 DEF Plain, Queues, Claims, Shown, Workers
  <2>5. Workers' /\ Services'
    BY <2>2 DEF Plain, Workers, Services, service, Step
  <2> QED  BY <2>4, <2>5 DEF Plain
<1>3. ASSUME NEW gone \in SUBSET (DOMAIN outbox[d]), gone # {},
             NEW reason \in {"asset_missing", "cloud_rejected"},
             reason = "asset_missing" => \A i \in gone : outbox[d][i].op.kind = "attach",
             Park(d, gone, reason), UNCHANGED <<service, history>>,
             rejection' \in [Device -> [ids: Seq(Nat), count: 0 .. RejectionsBeforeParking]]
      PROVE  Plain'
  <2>1. Queues' /\ Claims' /\ Shown'
    BY <1>3, ParkQueues
  <2>2. pc' = [pc EXCEPT ![d] = "push"] /\ UNCHANGED <<want, archive>>
    BY <1>3 DEF Park
  <2>3. Workers' /\ Services'
    BY <1>3, <2>2 DEF Plain, Workers, Services, service, history, Step
  <2> QED  BY <2>1, <2>3 DEF Plain
<1>4. CASE ParkMissing(d)
  <2>1. Missing(d) \in SUBSET (DOMAIN outbox[d]) /\ Missing(d) # {}
        /\ \A i \in Missing(d) : outbox[d][i].op.kind = "attach"
    BY <1>0, <1>4 DEF ParkMissing, Missing
  <2> QED  BY <1>3, <1>4, <2>1 DEF ParkMissing, Plain, Workers
<1>5. ASSUME NEW step \in {"pull", "idle"}, Release(d, step), Services',
             UNCHANGED <<made, resolved>>,
             rejection' \in [Device -> [ids: Seq(Nat), count: 0 .. RejectionsBeforeParking]]
      PROVE  Plain'
  <2>1. UNCHANGED cursor
    BY <1>5 DEF Release, canonical
  <2> QED  BY <1>5, <2>1, PlainByRelease DEF Plain
<1>6. CASE ReleaseMissing(d) \/ \E step \in {"pull", "idle"} : PushFails(d, step)
  <2>1. UNCHANGED <<rejection, service, history>> /\ \E step \in {"pull", "idle"} : Release(d, step)
    BY <1>6 DEF ReleaseMissing, PushFails
  <2>2. Services'
    BY <2>1 DEF Plain, Services, service, history
  <2> QED  BY <1>5, <2>1, <2>2 DEF Plain, Workers, history
<1>7. ASSUME NEW step \in {"pull", "idle"}, PushTimesOut(d, step)
      PROVE  Plain'
  <2>1. /\ stray' = stray \cup {[dev |-> d, rows |-> Batch(d)]}
        /\ faults' = faults + 1 /\ faults < MaxFaults
        /\ UNCHANGED <<rejection, log, floor, ckpt, made, resolved>>
    BY <1>7 DEF PushTimesOut, Fault
  <2>2. Batch(d) \in Seq(Row)
    BY BatchRows
  <2>3. Services'
    BY <2>1, <2>2, BoundsAssumption DEF Plain, Services
  <2> QED  BY <1>5, <1>7, <2>1, <2>3 DEF PushTimesOut, Plain, Workers
<1>8. CASE PushRefused(d)
  <2>1. pc[d] = "claimed" /\ UNCHANGED <<service, history>>
    BY <1>8 DEF PushRefused
  <2>2. CASE /\ Refusals(d).count < RejectionsBeforeParking
             /\ rejection' = [rejection EXCEPT ![d] = Refusals(d)]
             /\ Release(d, "pull")
    <3>1. [i \in 1 .. claimed[d] |-> outbox[d][i].id] \in Seq(Nat)
      <4>1. \A i \in 1 .. claimed[d] : outbox[d][i] \in Row
        BY <1>0
      <4>2. \A i \in 1 .. claimed[d] : outbox[d][i].id \in Nat
        BY <4>1 DEF Row
      <4> DEFINE ids == [i \in 1 .. claimed[d] |-> outbox[d][i].id]
      <4>3. ids \in [1 .. claimed[d] -> Nat] /\ claimed[d] \in Nat
        BY <1>0, <4>2
      <4> HIDE DEF ids
      <4>4. ids \in Seq(Nat)
        BY <4>3
      <4> QED  BY <4>4 DEF ids
    <3>2. rejection[d].count \in Nat
      BY DEF Plain, Workers
    <3> DEFINE ids == [i \in 1 .. claimed[d] |-> outbox[d][i].id]
               count == IF rejection[d].ids = ids THEN rejection[d].count + 1 ELSE 1
    <3>r. Refusals(d) = [ids |-> ids, count |-> count] /\ count \in Nat
      BY <3>2 DEF Refusals
    <3> HIDE DEF ids, count
    <3>3. Refusals(d) \in [ids: Seq(Nat), count: 0 .. RejectionsBeforeParking]
      BY <2>2, <3>1, <3>r DEF RejectionsBeforeParking, ids
    <3>4. rejection' \in [Device -> [ids: Seq(Nat), count: 0 .. RejectionsBeforeParking]]
      BY <2>2, <3>3 DEF Plain, Workers
    <3> QED  BY <1>5, <2>1, <2>2, <3>4 DEF Plain, Services, service, history
  <2>3. CASE /\ rejection' = [rejection EXCEPT ![d] = NoRejection]
             /\ Park(d, 1 .. claimed[d], "cloud_rejected")
    <3>1. 1 .. claimed[d] \in SUBSET (DOMAIN outbox[d]) /\ 1 .. claimed[d] # {}
      BY <1>0, <2>1
    <3>2. rejection' \in [Device -> [ids: Seq(Nat), count: 0 .. RejectionsBeforeParking]]
      BY <1>r, <2>3 DEF Plain, Workers
    <3> QED  BY <1>3, <2>1, <2>3, <3>1, <3>2
  <2> QED  BY <1>8, <2>2, <2>3 DEF PushRefused
<1>9. CASE Push(d)
  <2>1. PICK known \in 0 .. claimed[d] : Accept(d, Batch(d), known)
    BY <1>9 DEF Push
  <2>2. /\ pc' = [pc EXCEPT ![d] = "accepted"] /\ pc[d] = "claimed"
        /\ UNCHANGED <<outbox, nextSeq, claimed, blocked, made, resolved, doc, cursor, through,
                       present, want, archive, rejection, floor, ckpt, stray, faults>>
    BY <1>9 DEF Push, durable, history
  <2>3. log' \in Seq(Entry)
    BY <2>1, BatchRows, Accepted DEF Plain, Services
  <2>4. Queues' /\ Claims' /\ Shown'
    BY <1>0, <2>2 DEF Plain, Queues, Claims, Shown, Workers
  <2>5. Workers' /\ Services'
    BY <2>2, <2>3 DEF Plain, Workers, Services, Step
  <2> QED  BY <2>4, <2>5 DEF Plain
<1>10. CASE Acknowledge(d)
  <2>1. /\ outbox' = [outbox EXCEPT ![d] = Unclaimed(d)]
        /\ claimed' = [claimed EXCEPT ![d] = 0]
        /\ cursor' = [cursor EXCEPT ![d] = @ + Contiguous(d)]
        /\ rejection' = [rejection EXCEPT ![d] = NoRejection]
        /\ pc' = [pc EXCEPT ![d] = "push"]
        /\ UNCHANGED <<nextSeq, blocked, made, resolved, doc, through, present, want, archive,
                       service, faults>>
    BY <1>10 DEF Acknowledge, history
  <2>2. Unclaimed(d) \in Seq(Row)
    BY UnclaimedRows
  <2>3. Contiguous(d) \in Nat
    <3> DEFINE S == {k \in 0 .. claimed[d] :
                       \A i \in 1 .. k : SequenceOf(d, outbox[d][i]) = cursor[d] + i}
    <3>1. 0 \in S /\ S \in SUBSET (0 .. claimed[d]) /\ claimed[d] \in Nat
      BY <1>0
    <3> HIDE DEF S
    <3>2. Max(S) \in S
      BY <3>1, MaxGreatest
    <3>3. Max(S) \in 0 .. claimed[d]
      BY <3>1, <3>2 DEF S
    <3> QED  BY <3>3 DEF Contiguous, S
  <2>4. Queues' /\ Claims'
    BY <2>1, <2>2 DEF Plain, Queues, Claims, Workers
  <2>5. Shown'
    <3>1. cursor' \in [Device -> Nat]
      BY <2>1, <2>3 DEF Plain, Shown
    <3> QED  BY <2>1, <3>1 DEF Plain, Shown
  <2>6. Workers' /\ Services'
    BY <1>r, <2>1 DEF Plain, Workers, Services, service, Step
  <2> QED  BY <2>4, <2>5, <2>6 DEF Plain
<1>11. CASE PullEcho(d)
  <2>1. PICK i \in DOMAIN outbox[d] :
          /\ outbox' = [outbox EXCEPT ![d] = RemoveAt(@, i)]
          /\ claimed' = [claimed EXCEPT ![d] = ClaimAfterEcho(d, i)]
    BY <1>11 DEF PullEcho, Echoed
  <2>2. /\ cursor' = [cursor EXCEPT ![d] = cursor[d] + 1] /\ pc[d] = "pull"
        /\ UNCHANGED <<nextSeq, blocked, made, resolved, doc, through, present, worker, service,
                       faults>>
    BY <1>11 DEF PullEcho, InLog, Incorporate, history
  <2>3. RemoveAt(outbox[d], i) \in Seq(Row) /\ Len(RemoveAt(outbox[d], i)) = Len(outbox[d]) - 1
    BY <1>0, RowsWithout
  <2>4. ClaimAfterEcho(d, i) \in Nat /\ ClaimAfterEcho(d, i) =< Len(outbox[d]) - 1
    <3>1. i \in 1 .. Len(outbox[d]) /\ Len(outbox[d]) \in Nat
      BY <1>0
    <3> QED  BY <1>0, <3>1 DEF ClaimAfterEcho
  <2>5. Queues'
    BY <2>1, <2>2, <2>3, <2>4 DEF Plain, Queues
  <2>6. Claims'
    BY <2>1, <2>2, <2>3, <2>4 DEF Plain, Queues, Claims, worker
  <2>7. Shown'
    <3>1. cursor' \in [Device -> Nat]
      BY <2>2 DEF Plain, Shown
    <3> QED  BY <2>2, <3>1 DEF Plain, Shown
  <2> QED  BY <2>2, <2>5, <2>6, <2>7 DEF Plain, Workers, Services, worker, service
<1> QED  BY <1>1, <1>2, <1>4, <1>6, <1>7, <1>8, <1>9, <1>10, <1>11

\* So does a request that arrives after its worker gave up on it.
LEMMA PlainByStray ==
  ASSUME Plain, NEW r \in stray, StrayArrives(r)
  PROVE  Plain'
<1>1. r.dev \in Device /\ r.rows \in Seq(Row)
  BY DEF Plain, Services
<1>2. /\ stray' = stray \ {r}
      /\ UNCHANGED <<durable, worker, floor, ckpt, history>>
      /\ UNCHANGED log \/ \E known \in 0 .. Len(r.rows) : Accept(r.dev, r.rows, known)
  BY DEF StrayArrives
<1>3. log' \in Seq(Entry)
  BY <1>1, <1>2, Accepted DEF Plain, Services
<1>4. Services'
  BY <1>2, <1>3 DEF Plain, Services, history
<1> QED  BY <1>2, <1>4 DEF Plain, Queues, Claims, Shown, Workers, durable, worker, history

\* And a compaction.
LEMMA PlainByCompact ==
  ASSUME Plain, NEW f \in 1 .. ckpt.seq, Compact(f)
  PROVE  Plain'
<1>1. ckpt.seq \in Nat
  BY DEF Plain, Services, Checkpoint
<1>2. UNCHANGED <<durable, worker, log, ckpt, stray, history>> /\ floor' \in Nat
  BY <1>1 DEF Compact
<1> QED
  BY <1>2 DEF Plain, Queues, Claims, Shown, Workers, Services, durable, worker, history

\* The records of the devices, the workers and the service keep their types.
LEMMA PlainHolds == Spec => []Plain
<1>1. Init => Plain
  <2> SUFFICES ASSUME Init
               PROVE  Plain
    OBVIOUS
  <2>1. << >> \in Seq(Row) /\ << >> \in Seq(Entry) /\ << >> \in Seq(Nat)
    OBVIOUS
  <2>2. Queues
    BY <2>1, FS_EmptySet DEF Init, Queues
  <2>3. Claims
    BY DEF Init, Claims
  <2>4. Shown
    BY DEF Init, Shown, Bodies
  <2>5. Workers
    BY <2>1 DEF Init, Workers, Step, NoRejection, RejectionsBeforeParking
  <2>6. Services
    BY <2>1, BoundsAssumption DEF Init, Services, StartCheckpoint, Checkpoint, Bodies
  <2> QED  BY <2>2, <2>3, <2>4, <2>5, <2>6 DEF Plain
<1>2. Plain /\ [Next]_vars => Plain'
  <2> SUFFICES ASSUME Plain, [Next]_vars
               PROVE  Plain'
    OBVIOUS
  <2>1. ASSUME NEW d \in Device, User(d) \/ Cycle(d) \/ Trouble(d)
        PROVE  Plain'
    BY <2>1, PlainByUser, PlainByWorker, PlainByPull, PlainByPush DEF Cycle, Trouble
  <2>3. CASE UNCHANGED vars
    BY <2>3 DEF Plain, Queues, Claims, Shown, Workers, Services, vars, durable, worker, service,
                history
  <2> QED  BY <2>1, <2>3, PlainByStray, PlainByCompact DEF Next
<1> QED  BY <1>1, <1>2, PTL DEF Spec

-----------------------------------------------------------------------------
(* Where an operation is                                                     *)

\* No two rows of a queue, or of a request on its way, are of one operation.
DistinctIds(rows) == \A i, j \in DOMAIN rows : rows[i].id = rows[j].id => i = j
Distinct ==
  /\ \A d \in Device : DistinctIds(outbox[d])
  /\ \A r \in stray : DistinctIds(r.rows) /\ IdsIn(r.rows) \subseteq 1 .. made[r.dev]

Places(d) == IdsIn(outbox[d]) \cup IdsInLog(d) \cup IdsParked(d) \cup resolved[d]

\* A batch that is accepted is recorded once, and nothing of it is lost.
LEMMA AcceptedPlaces ==
  ASSUME Plain, NothingLost, AcceptedOnce, NEW d \in Device, NEW rows \in Seq(Row),
         DistinctIds(rows), IdsIn(rows) \subseteq 1 .. made[d],
         NEW known \in 0 .. Len(rows), Admits(d, rows, known), Accept(d, rows, known),
         UNCHANGED <<outbox, blocked, resolved, made>>
  PROVE  /\ NothingLost' /\ AcceptedOnce'
         /\ \A i \in DOMAIN rows : \E s \in DOMAIN log' :
              log'[s].dev = d /\ log'[s].id = rows[i].id
<1>1. /\ log' \in Seq(Entry) /\ Len(log') = Len(log) + Len(rows) - known
      /\ \A s \in DOMAIN log : s \in DOMAIN log' /\ log'[s] = log[s]
      /\ \A i \in known + 1 .. Len(rows) :
           /\ Len(log) + i - known \in DOMAIN log'
           /\ log'[Len(log) + i - known] = EntryOf(d, rows[i])
      /\ \A s \in DOMAIN log' :
           s \in DOMAIN log \/ \E i \in known + 1 .. Len(rows) : s = Len(log) + i - known
  BY Accepted DEF Plain, Services
<1>2. known \in Nat /\ DOMAIN rows = 1 .. Len(rows) /\ Len(rows) \in Nat
  OBVIOUS
<1>3. ASSUME NEW s \in DOMAIN log', s \notin DOMAIN log
      PROVE  \E i \in DOMAIN rows : /\ i > known /\ s = Len(log) + i - known
                                    /\ log'[s].dev = d /\ log'[s].id = rows[i].id
                                    /\ ~Known(d, rows[i])
  <2>1. PICK i \in known + 1 .. Len(rows) : s = Len(log) + i - known
    BY <1>1, <1>3
  <2>2. log'[s] = EntryOf(d, rows[i]) /\ ~Known(d, rows[i])
    BY <1>1, <2>1 DEF Admits
  <2>3. i \in DOMAIN rows /\ i > known
    BY <1>2, <2>1
  <2> QED  BY <2>1, <2>2, <2>3 DEF EntryOf
<1>4. AcceptedOnce'
  <2> SUFFICES ASSUME NEW s \in DOMAIN log', NEW t \in DOMAIN log',
                      log'[s].dev = log'[t].dev, log'[s].id = log'[t].id
               PROVE  s = t
    BY DEF AcceptedOnce
  <2>1. CASE s \in DOMAIN log /\ t \in DOMAIN log
    BY <1>1, <2>1 DEF AcceptedOnce
  <2>2. CASE s \in DOMAIN log /\ t \notin DOMAIN log
    BY <1>1, <1>3, <2>2 DEF Known
  <2>3. CASE s \notin DOMAIN log /\ t \in DOMAIN log
    BY <1>1, <1>3, <2>3 DEF Known
  <2>4. CASE s \notin DOMAIN log /\ t \notin DOMAIN log
    BY <1>3, <2>4 DEF DistinctIds
  <2> QED  BY <2>1, <2>2, <2>3, <2>4
<1>5. NothingLost'
  <2> SUFFICES ASSUME NEW e \in Device
               PROVE  1 .. made'[e] = IdsIn(outbox'[e]) \cup IdsInLog(e)'
                                        \cup {p.id : p \in blocked'[e]} \cup resolved'[e]
    BY DEF NothingLost, IdsParked
  <2>1. IdsInLog(e) \subseteq IdsInLog(e)'
    BY <1>1 DEF IdsInLog
  <2>2. IdsInLog(e)' \subseteq IdsInLog(e) \cup 1 .. made[e]
    <3> SUFFICES ASSUME NEW s \in DOMAIN log', log'[s].dev = e
                 PROVE  log'[s].id \in IdsInLog(e) \cup 1 .. made[e]
      BY DEF IdsInLog
    <3>1. CASE s \in DOMAIN log
      BY <1>1, <3>1 DEF IdsInLog
    <3>2. CASE s \notin DOMAIN log
      BY <1>3, <3>2 DEF IdsIn
    <3> QED  BY <3>1, <3>2
  <2>3. 1 .. made[e] = IdsIn(outbox[e]) \cup IdsInLog(e) \cup IdsParked(e) \cup resolved[e]
    BY DEF NothingLost
  <2> QED  BY <2>1, <2>2, <2>3 DEF IdsParked
<1>6. ASSUME NEW i \in DOMAIN rows
      PROVE  \E s \in DOMAIN log' : log'[s].dev = d /\ log'[s].id = rows[i].id
  <2>1. CASE i > known
    <3>1. i \in known + 1 .. Len(rows)
      BY <1>2, <2>1
    <3>2. /\ Len(log) + i - known \in DOMAIN log'
          /\ log'[Len(log) + i - known] = EntryOf(d, rows[i])
      BY <1>1, <3>1
    <3>3. EntryOf(d, rows[i]).dev = d /\ EntryOf(d, rows[i]).id = rows[i].id
      BY DEF EntryOf
    <3> QED  BY <3>2, <3>3
  <2>2. CASE ~(i > known)
    <3>1. i \in 1 .. known
      BY <1>2, <2>2
    <3>2. Known(d, rows[i])
      BY <3>1 DEF Admits
    <3> QED  BY <1>1, <3>2 DEF Known
  <2> QED  BY <2>1, <2>2
<1> QED  BY <1>4, <1>5, <1>6

\* A step that changes the places of one device, and neither the log nor the
\* requests on their way, is judged by that device.
LEMMA PlacesOfOne ==
  ASSUME Plain, NothingLost, Distinct, NEW d \in Device, UNCHANGED <<log, stray>>,
         \A e \in Device : e # d => /\ outbox'[e] = outbox[e] /\ blocked'[e] = blocked[e]
                                    /\ resolved'[e] = resolved[e] /\ made'[e] = made[e],
         made'[d] \in Nat, made'[d] >= made[d], DistinctIds(outbox'[d]),
         Places(d)' = 1 .. made'[d]
  PROVE  NothingLost' /\ Distinct'
<1>1. NothingLost'
  BY DEF NothingLost, Places, IdsInLog, IdsParked
<1>2. ASSUME NEW r \in stray
      PROVE  DistinctIds(r.rows) /\ IdsIn(r.rows) \subseteq 1 .. made'[r.dev]
  <2>1. r.dev \in Device /\ made \in [Device -> Nat]
    BY DEF Plain, Services, Queues
  <2>2. /\ made[r.dev] \in Nat /\ made'[r.dev] >= made[r.dev] /\ made'[r.dev] \in Nat
    <3>1. CASE r.dev = d
      BY <2>1, <3>1
    <3>2. CASE r.dev # d
      BY <2>1, <3>2
    <3> QED  BY <3>1, <3>2
  <2>3. 1 .. made[r.dev] \subseteq 1 .. made'[r.dev]
    BY <2>2
  <2> QED  BY <2>3 DEF Distinct
<1> QED  BY <1>1, <1>2 DEF Distinct

\* A claim that is kept still holds as the log grows.
LEMMA ClaimKept ==
  ASSUME ClaimHolds, Claims', \A s \in DOMAIN log : s \in DOMAIN log' /\ log'[s] = log[s],
         \A d \in Device :
           \/ claimed'[d] = 0
           \/ /\ claimed'[d] = claimed[d]
              /\ pc'[d] = "accepted" => pc[d] = "accepted"
              /\ \A i \in 1 .. claimed[d] : /\ outbox'[d][i].id = outbox[d][i].id
                                            /\ outbox'[d][i].attempts = outbox[d][i].attempts
  PROVE  ClaimHolds'
<1> SUFFICES ASSUME NEW d \in Device
             PROVE  /\ pc'[d] = "accepted" => \A i \in 1 .. claimed'[d] : \E s \in DOMAIN log' :
                         log'[s].dev = d /\ log'[s].id = outbox'[d][i].id
                    /\ \A i \in 1 .. claimed'[d] : outbox'[d][i].attempts > 0
  BY DEF ClaimHolds, Claims, Known
<1>1. CASE claimed'[d] = 0
  BY <1>1
<1>2. CASE claimed'[d] # 0
  BY <1>2 DEF ClaimHolds, Known
<1> QED  BY <1>1, <1>2

Placed == NothingLost /\ Distinct /\ AcceptedOnce /\ ClaimHolds

\* The places of a device are those of the operations it has made.
LEMMA PlacesKnown ==
  ASSUME Plain, NothingLost, NEW d \in Device
  PROVE  Places(d) = 1 .. made[d] /\ made[d] \in Nat
BY DEF Plain, Queues, NothingLost, Places

\* A new row is of a new operation.
LEMMA EnqueuePlaces ==
  ASSUME Plain, NothingLost, Distinct, NEW d \in Device, NEW op \in Operation, Enqueue(d, op)
  PROVE  /\ DistinctIds(outbox'[d]) /\ IdsIn(outbox'[d]) = IdsIn(outbox[d]) \cup {made[d] + 1}
         /\ made'[d] = made[d] + 1 /\ made[d] \in Nat
         /\ \A i \in DOMAIN outbox[d] : outbox'[d][i] = outbox[d][i]
         /\ \A e \in Device : e # d => outbox'[e] = outbox[e] /\ made'[e] = made[e]
<1>1. /\ outbox[d] \in Seq(Row) /\ made[d] \in Nat
      /\ outbox' = [outbox EXCEPT ![d] = Append(outbox[d], NewRow(d, op))]
      /\ made' = [made EXCEPT ![d] = @ + 1]
  BY DEF Plain, Queues, Enqueue
<1>2. /\ \A e \in Device : e # d => outbox'[e] = outbox[e] /\ made'[e] = made[e]
      /\ made'[d] = made[d] + 1 /\ outbox'[d] = Append(outbox[d], NewRow(d, op))
  BY <1>1 DEF Plain, Queues
<1>3. NewRow(d, op).id = made[d] + 1
  BY DEF NewRow
<1> DEFINE n == Len(outbox[d])
<1>4. n \in Nat /\ DOMAIN outbox[d] = 1 .. n /\ DOMAIN outbox'[d] = 1 .. n + 1
  BY <1>1, <1>2
<1>5. /\ \A i \in 1 .. n : outbox'[d][i] = outbox[d][i]
      /\ outbox'[d][n + 1] = NewRow(d, op)
  BY <1>1, <1>2
<1> HIDE DEF n
<1>6. IdsIn(outbox[d]) \subseteq 1 .. made[d]
  BY DEF NothingLost
<1>7. IdsIn(outbox'[d]) = IdsIn(outbox[d]) \cup {made[d] + 1}
  <2>1. 1 .. n + 1 = (1 .. n) \cup {n + 1}
    BY <1>4
  <2> QED  BY <1>3, <1>4, <1>5, <2>1 DEF IdsIn
<1>8. \A i \in 1 .. n : outbox[d][i].id # made[d] + 1
  <2> SUFFICES ASSUME NEW i \in 1 .. n
               PROVE  outbox[d][i].id # made[d] + 1
    OBVIOUS
  <2>1. outbox[d][i].id \in 1 .. made[d]
    BY <1>4, <1>6 DEF IdsIn
  <2> QED  BY <1>1, <2>1
<1>9. DistinctIds(outbox'[d])
  <2> SUFFICES ASSUME NEW i \in 1 .. n + 1, NEW j \in 1 .. n + 1,
                      outbox'[d][i].id = outbox'[d][j].id
               PROVE  i = j
    BY <1>4 DEF DistinctIds
  <2>1. (i \in 1 .. n \/ i = n + 1) /\ (j \in 1 .. n \/ j = n + 1)
    BY <1>4
  <2> QED  BY <1>3, <1>4, <1>5, <1>8, <2>1 DEF Distinct, DistinctIds
<1> QED  BY <1>1, <1>2, <1>4, <1>5, <1>7, <1>9

\* Whatever the user does, every operation stays in a place.
LEMMA PlacedByUser ==
  ASSUME Plain, Plain', Placed, NEW d \in Device, User(d)
  PROVE  Placed'
<1>0. /\ outbox[d] \in Seq(Row) /\ made[d] \in Nat /\ claimed[d] \in 0 .. Len(outbox[d])
      /\ Places(d) = 1 .. made[d] /\ DistinctIds(outbox[d]) /\ Claims'
      /\ blocked[d] \subseteq Held
  BY PlacesKnown DEF Plain, Queues, Claims, Placed, Distinct
<1>1. UNCHANGED <<log, stray, claimed, pc>>
  BY DEF User, SaveDocument, SaveIntoTail, SaveOversized, AttachImage, RetryBlocked,
         DiscardBlocked, RestoreAsset, service, worker
<1>2. ASSUME \A e \in Device : \A i \in 1 .. claimed[e] :
                outbox'[e][i].id = outbox[e][i].id /\ outbox'[e][i].attempts = outbox[e][i].attempts
      PROVE  AcceptedOnce' /\ ClaimHolds'
  BY <1>0, <1>1, <1>2, ClaimKept DEF Placed, AcceptedOnce
<1>3. ASSUME UNCHANGED <<outbox, made>>, Places(d)' = 1 .. made[d],
             \A e \in Device : e # d => blocked'[e] = blocked[e] /\ resolved'[e] = resolved[e]
      PROVE  Placed'
  <2>1. DistinctIds(outbox'[d]) /\ made'[d] \in Nat /\ made'[d] >= made[d]
    BY <1>0, <1>3
  <2>2. NothingLost' /\ Distinct'
    BY <1>1, <1>3, <2>1, PlacesOfOne DEF Placed
  <2> QED  BY <1>2, <1>3, <2>2 DEF Placed
<1>4. ASSUME NEW op \in Operation, Enqueue(d, op), UNCHANGED log,
             IdsParked(d) \cup resolved[d] = IdsParked(d)' \cup resolved'[d],
             \A e \in Device : e # d => blocked'[e] = blocked[e] /\ resolved'[e] = resolved[e]
      PROVE  Placed'
  <2>1. /\ DistinctIds(outbox'[d]) /\ IdsIn(outbox'[d]) = IdsIn(outbox[d]) \cup {made[d] + 1}
        /\ made'[d] = made[d] + 1
        /\ \A i \in DOMAIN outbox[d] : outbox'[d][i] = outbox[d][i]
        /\ \A e \in Device : e # d => outbox'[e] = outbox[e] /\ made'[e] = made[e]
    BY <1>4, EnqueuePlaces DEF Placed
  <2>2. Places(d)' = Places(d) \cup {made[d] + 1}
    BY <1>4, <2>1 DEF Places, IdsInLog
  <2>3. Places(d)' = 1 .. made'[d] /\ made'[d] \in Nat /\ made'[d] >= made[d]
    BY <1>0, <2>1, <2>2
  <2>4. NothingLost' /\ Distinct'
    BY <1>1, <1>4, <2>1, <2>3, PlacesOfOne DEF Placed
  <2>5. \A i \in 1 .. claimed[d] : outbox'[d][i] = outbox[d][i]
    BY <1>0, <2>1
  <2> QED  BY <1>2, <2>1, <2>4, <2>5 DEF Placed
<1>5. ASSUME NEW n \in Note, NEW b \in Body, SaveDocument(d, n, b)
      PROVE  Placed'
  BY <1>1, <1>4, <1>5, Operations DEF SaveDocument, Bodies, IdsParked
<1>6. ASSUME NEW n \in Note, NEW b \in Body, SaveIntoTail(d, n, b)
      PROVE  Placed'
  <2> DEFINE k == Len(outbox[d])
             tail == [outbox[d][k] EXCEPT !.op = Write(n, b)]
             rows == [outbox[d] EXCEPT ![k] = tail]
  <2>1. k \in 1 .. Len(outbox[d]) /\ outbox[d][k] \in Row /\ k > claimed[d]
    BY <1>0, <1>6 DEF SaveIntoTail, Coalesces
  <2>2. tail.id = outbox[d][k].id
    BY <2>1 DEF Row
  <2>3. /\ DOMAIN rows = DOMAIN outbox[d]
        /\ \A i \in DOMAIN rows : /\ rows[i].id = outbox[d][i].id
                                  /\ i =< claimed[d] => rows[i] = outbox[d][i]
    BY <1>0, <2>1, <2>2
  <2>4. outbox' = [outbox EXCEPT ![d] = rows] /\ UNCHANGED <<blocked, made, resolved>>
    BY <1>6 DEF SaveIntoTail, history
  <2> HIDE DEF rows
  <2>5. outbox'[d] = rows /\ \A e \in Device : e # d => outbox'[e] = outbox[e]
    BY <2>4 DEF Plain, Queues
  <2>6. IdsIn(outbox'[d]) = IdsIn(outbox[d]) /\ DistinctIds(outbox'[d])
    BY <1>0, <2>3, <2>5 DEF IdsIn, DistinctIds
  <2>7. Places(d)' = 1 .. made'[d]
    BY <1>0, <1>1, <2>4, <2>6 DEF Places, IdsInLog, IdsParked
  <2>8. NothingLost' /\ Distinct'
    <3>1. made'[d] \in Nat /\ made'[d] >= made[d]
      BY <1>0, <2>4
    <3> QED  BY <1>1, <2>4, <2>5, <2>6, <2>7, <3>1, PlacesOfOne DEF Placed
  <2>9. \A i \in 1 .. claimed[d] : outbox'[d][i] = outbox[d][i]
    BY <1>0, <2>3, <2>5
  <2> QED  BY <1>2, <2>5, <2>8, <2>9 DEF Placed
<1>7. ASSUME NEW n \in Note, NEW b \in Body, SaveOversized(d, n, b)
      PROVE  Placed'
  <2> DEFINE parked == [id |-> made'[d], op |-> Write(n, b), reason |-> "too_large"]
  <2>1. /\ made' = [made EXCEPT ![d] = @ + 1] /\ UNCHANGED <<outbox, resolved>>
        /\ blocked' = [blocked EXCEPT ![d] = @ \cup {parked}]
    BY <1>7 DEF SaveOversized
  <2>2. /\ made'[d] = made[d] + 1 /\ parked.id = made[d] + 1
        /\ blocked'[d] = blocked[d] \cup {parked}
        /\ \A e \in Device : e # d => blocked'[e] = blocked[e] /\ made'[e] = made[e]
    BY <2>1 DEF Plain, Queues
  <2> HIDE DEF parked
  <2>3. IdsParked(d)' = IdsParked(d) \cup {made[d] + 1}
    BY <2>2 DEF IdsParked
  <2>4. Places(d)' = Places(d) \cup {made[d] + 1}
    BY <1>1, <2>1, <2>3 DEF Places, IdsInLog
  <2>5. Places(d)' = 1 .. made'[d] /\ made'[d] \in Nat /\ made'[d] >= made[d]
    BY <1>0, <2>2, <2>4
  <2>6. NothingLost' /\ Distinct'
    BY <1>0, <1>1, <2>1, <2>2, <2>5, PlacesOfOne DEF Placed
  <2> QED  BY <1>2, <2>1, <2>6 DEF Placed
<1>8. ASSUME NEW a \in Asset, AttachImage(d, a)
      PROVE  Placed'
  BY <1>1, <1>4, <1>8, Operations DEF AttachImage, IdsParked
<1>9. ASSUME NEW p \in blocked[d], RetryBlocked(d, p) \/ DiscardBlocked(d, p)
      PROVE  Placed'
  <2>1. /\ blocked' = [blocked EXCEPT ![d] = @ \ {p}]
        /\ resolved' = [resolved EXCEPT ![d] = @ \cup {p.id}]
    BY <1>9 DEF RetryBlocked, DiscardBlocked
  <2>2. /\ blocked'[d] = blocked[d] \ {p} /\ resolved'[d] = resolved[d] \cup {p.id}
        /\ \A e \in Device : e # d => blocked'[e] = blocked[e] /\ resolved'[e] = resolved[e]
    BY <2>1 DEF Plain, Queues
  <2>3. IdsParked(d)' \cup resolved'[d] = IdsParked(d) \cup resolved[d]
    BY <2>2 DEF IdsParked
  <2>4. CASE RetryBlocked(d, p)
    <3>1. Requeued(d, p) \in Operation
      <4>1. p.op \in Operation /\ doc[d] \in [Note -> Bodies]
        BY <1>0 DEF Held, Parked, Plain, Shown
      <4> QED  BY <4>1, Operations DEF Requeued
    <3> QED  BY <1>1, <1>4, <2>2, <2>3, <2>4, <3>1 DEF RetryBlocked
  <2>5. CASE DiscardBlocked(d, p)
    <3>1. UNCHANGED <<outbox, made>>
      BY <2>5 DEF DiscardBlocked
    <3>2. Places(d)' = 1 .. made[d]
      BY <1>0, <1>1, <2>3, <3>1 DEF Places, IdsInLog
    <3> QED  BY <1>3, <2>2, <3>1, <3>2
  <2> QED  BY <1>9, <2>4, <2>5
<1>10. ASSUME NEW p \in blocked[d], RestoreAsset(d, p)
       PROVE  Placed'
  <2>1. UNCHANGED <<outbox, blocked, resolved, made>>
    BY <1>10 DEF RestoreAsset, history
  <2>2. Places(d)' = 1 .. made[d]
    BY <1>0, <1>1, <2>1 DEF Places, IdsInLog, IdsParked
  <2> QED  BY <1>3, <2>1, <2>2
<1> QED  BY <1>5, <1>6, <1>7, <1>8, <1>9, <1>10 DEF User

\* Nothing moves, and no claim begins or is accepted.
LEMMA PlacedByFrame ==
  ASSUME Plain, Plain', Placed, UNCHANGED <<outbox, claimed, blocked, made, resolved, log, stray>>,
         \A d \in Device : pc'[d] = "accepted" => pc[d] = "accepted"
  PROVE  Placed'
<1>1. ClaimHolds'
  BY ClaimKept DEF Placed, Plain
<1>2. NothingLost' /\ Distinct' /\ AcceptedOnce'
  BY DEF Placed, NothingLost, Distinct, AcceptedOnce, IdsInLog, IdsParked
<1> QED  BY <1>1, <1>2 DEF Placed

\* A claim is given up; a request may still be on its way.
LEMMA PlacedByRelease ==
  ASSUME Plain, Plain', Placed, NEW d \in Device, claimed' = [claimed EXCEPT ![d] = 0],
         UNCHANGED <<outbox, blocked, made, resolved, log>>,
         stray' = stray \/ stray' = stray \cup {[dev |-> d, rows |-> Batch(d)]},
         \A e \in Device : e # d => pc'[e] = pc[e]
  PROVE  Placed'
<1>1. ClaimHolds'
  BY ClaimKept DEF Placed, Plain, Queues
<1>2. NothingLost' /\ AcceptedOnce'
  BY DEF Placed, NothingLost, AcceptedOnce, IdsInLog, IdsParked
<1>3. DistinctIds(Batch(d)) /\ IdsIn(Batch(d)) \subseteq 1 .. made[d]
  <2>1. /\ DOMAIN Batch(d) = 1 .. claimed[d] /\ 1 .. claimed[d] \subseteq DOMAIN outbox[d]
        /\ \A i \in 1 .. claimed[d] : Batch(d)[i] = outbox[d][i]
    BY BatchRows
  <2>2. DistinctIds(Batch(d))
    BY <2>1 DEF Placed, Distinct, DistinctIds
  <2>3. IdsIn(Batch(d)) \subseteq IdsIn(outbox[d])
    BY <2>1 DEF IdsIn
  <2> QED  BY <2>2, <2>3 DEF Placed, NothingLost
<1>4. Distinct'
  <2> SUFFICES ASSUME NEW r \in stray'
               PROVE  DistinctIds(r.rows) /\ IdsIn(r.rows) \subseteq 1 .. made[r.dev]
    BY DEF Distinct, Placed
  <2>1. CASE r \in stray
    BY <2>1 DEF Placed, Distinct
  <2>2. CASE r = [dev |-> d, rows |-> Batch(d)]
    BY <1>3, <2>2
  <2> QED  BY <2>1, <2>2
<1> QED  BY <1>1, <1>2, <1>4 DEF Placed

\* Rows that leave the queue are parked, accepted or requeued under another
\* number.
LEMMA PlacedByPark ==
  ASSUME Plain, Plain', Placed, NEW d \in Device, NEW gone \in SUBSET (DOMAIN outbox[d]),
         gone # {}, NEW reason, Park(d, gone, reason), UNCHANGED <<log, stray, history>>
  PROVE  Placed'
<1>0. /\ outbox[d] \in Seq(Row) /\ made[d] \in Nat /\ Places(d) = 1 .. made[d]
      /\ DistinctIds(outbox[d])
  BY PlacesKnown DEF Plain, Queues, Placed, Distinct
<1>1. outbox[d][1].cseq \in Nat
  <2>1. Len(outbox[d]) > 0
    BY <1>0
  <2>2. outbox[d][1] \in Row
    BY <1>0, <2>1
  <2> QED  BY <2>2 DEF Row
<1>2. PICK kept \in SetToSeqs(DOMAIN outbox[d] \ gone) :
        outbox' = [outbox EXCEPT ![d] =
             KeptAs(outbox[d], kept, outbox[d][1].cseq)]
  BY DEF Park, KeptAs
<1> DEFINE new == KeptAs(outbox[d], kept, outbox[d][1].cseq)
           parked == {ParkedRow(outbox[d][i], reason) : i \in gone}
<1>n. new = KeptAs(outbox[d], kept, outbox[d][1].cseq)
  OBVIOUS
<1>g. DOMAIN outbox[d] \ gone \in SUBSET (DOMAIN outbox[d])
  OBVIOUS
<1>4. \A x \in parked : \E i \in gone : x.id = outbox[d][i].id
  BY DEF ParkedRow
<1>5. \A i \in gone : \E x \in parked : x.id = outbox[d][i].id
  <2>1. \A i \in gone : /\ ParkedRow(outbox[d][i], reason) \in parked
                        /\ ParkedRow(outbox[d][i], reason).id = outbox[d][i].id
    BY DEF ParkedRow
  <2> QED  BY <2>1
<1> HIDE DEF new, parked
<1>3. /\ kept \in Seq(DOMAIN outbox[d] \ gone) /\ new \in Seq(Row) /\ Len(new) = Len(kept)
      /\ \A i, j \in DOMAIN kept : kept[i] = kept[j] => i = j
      /\ \A x \in DOMAIN outbox[d] \ gone : \E i \in DOMAIN kept : x = kept[i]
      /\ \A i \in DOMAIN kept : new[i].id = outbox[d][kept[i]].id
  <2> DEFINE rows == outbox[d]
             S == DOMAIN outbox[d] \ gone
             head == outbox[d][1].cseq
  <2>1. /\ rows \in Seq(Row) /\ S \in SUBSET (DOMAIN rows) /\ kept \in SetToSeqs(S)
        /\ head \in Nat /\ new = KeptAs(rows, kept, head)
    BY <1>0, <1>1, <1>n, <1>g
  <2> HIDE DEF rows, S, head
  <2>2. /\ kept \in Seq(S) /\ new \in Seq(Row) /\ Len(new) = Len(kept)
        /\ \A i, j \in DOMAIN kept : kept[i] = kept[j] => i = j
        /\ \A x \in S : \E i \in DOMAIN kept : x = kept[i]
        /\ \A i \in DOMAIN kept : new[i].id = rows[kept[i]].id
    BY <2>1, KeptRows
  <2> QED  BY <2>2 DEF rows, S
<1>6. /\ blocked' = [blocked EXCEPT ![d] = @ \cup parked]
      /\ claimed' = [claimed EXCEPT ![d] = 0] /\ pc' = [pc EXCEPT ![d] = "push"]
      /\ UNCHANGED <<made, resolved>> /\ outbox' = [outbox EXCEPT ![d] = new]
  BY <1>2 DEF Park, parked, new, history
<1>7. /\ outbox'[d] = new /\ blocked'[d] = blocked[d] \cup parked
      /\ \A e \in Device : e # d => /\ outbox'[e] = outbox[e] /\ blocked'[e] = blocked[e]
                                    /\ claimed'[e] = claimed[e] /\ pc'[e] = pc[e]
      /\ claimed'[d] = 0
  BY <1>6 DEF Plain, Queues, Workers
<1>8. DOMAIN new = DOMAIN kept /\ \A i \in DOMAIN kept : kept[i] \in DOMAIN outbox[d] \ gone
  BY <1>3
<1>9. DistinctIds(new)
  BY <1>0, <1>3, <1>8 DEF DistinctIds
<1>10. IdsParked(d)' = IdsParked(d) \cup {outbox[d][i].id : i \in gone}
  BY <1>4, <1>5, <1>7 DEF IdsParked
<1>11. IdsIn(new) \cup {outbox[d][i].id : i \in gone} = IdsIn(outbox[d])
  <2>1. IdsIn(new) = {outbox[d][i].id : i \in DOMAIN outbox[d] \ gone}
    BY <1>3, <1>8 DEF IdsIn
  <2> QED  BY <2>1 DEF IdsIn
<1>12. Places(d)' = 1 .. made'[d]
  BY <1>0, <1>6, <1>7, <1>10, <1>11 DEF Places, IdsInLog
<1>13. NothingLost' /\ Distinct'
  <2>1. made'[d] \in Nat /\ made'[d] >= made[d]
    BY <1>0, <1>6
  <2> QED  BY <1>6, <1>7, <1>9, <1>12, <2>1, PlacesOfOne DEF Placed
<1>14. ClaimHolds' /\ AcceptedOnce'
  BY <1>7, ClaimKept DEF Placed, Plain, AcceptedOnce
<1> QED  BY <1>13, <1>14 DEF Placed

\* The places stay what they were, and the log too: only a claim may begin.
LEMMA PlacedByClaim ==
  ASSUME Plain, Plain', Placed, NEW d \in Device, NEW k \in 1 .. Len(outbox[d]), Claim(d, k)
  PROVE  Placed'
<1>1. /\ claimed' = [claimed EXCEPT ![d] = k] /\ pc' = [pc EXCEPT ![d] = "claimed"]
      /\ Len(outbox'[d]) = Len(outbox[d]) /\ outbox'[d] \in Seq(Row) /\ outbox[d] \in Seq(Row)
      /\ \A e \in Device : e # d => outbox'[e] = outbox[e]
      /\ \A i \in DOMAIN outbox[d] : outbox'[d][i].id = outbox[d][i].id
      /\ \A i \in 1 .. k : outbox'[d][i].attempts > 0
      /\ UNCHANGED <<log, stray, blocked, made, resolved>>
  BY ClaimedRows DEF Claim, Plain, Queues, service, history
<1>2. DOMAIN outbox'[d] = DOMAIN outbox[d]
  BY <1>1
<1>3. IdsIn(outbox'[d]) = IdsIn(outbox[d]) /\ DistinctIds(outbox'[d])
  BY <1>1, <1>2 DEF IdsIn, DistinctIds, Placed, Distinct
<1>4. Places(d) = 1 .. made[d] /\ made[d] \in Nat
  BY PlacesKnown DEF Placed
<1>5. Places(d)' = 1 .. made'[d]
  BY <1>1, <1>3, <1>4 DEF Places, IdsInLog, IdsParked
<1>6. NothingLost' /\ Distinct'
  <2>1. made'[d] \in Nat /\ made'[d] >= made[d]
    BY <1>1, <1>4
  <2> QED  BY <1>1, <1>3, <1>5, <2>1, PlacesOfOne DEF Placed
<1>7. AcceptedOnce'
  BY <1>1 DEF Placed, AcceptedOnce
<1>8. ClaimHolds'
  <2> SUFFICES ASSUME NEW e \in Device
               PROVE  /\ pc'[e] = "accepted" => \A i \in 1 .. claimed'[e] : \E s \in DOMAIN log' :
                           log'[s].dev = e /\ log'[s].id = outbox'[e][i].id
                      /\ \A i \in 1 .. claimed'[e] : outbox'[e][i].attempts > 0
    BY DEF ClaimHolds, Plain, Claims, Known
  <2>1. CASE e = d
    BY <1>1, <2>1 DEF Plain, Queues, Workers
  <2>2. CASE e # d
    <3>1. claimed'[e] = claimed[e] /\ pc'[e] = pc[e] /\ outbox'[e] = outbox[e]
      BY <1>1, <2>2 DEF Plain, Queues, Workers
    <3> QED  BY <1>1, <3>1 DEF Placed, ClaimHolds, Known
  <2> QED  BY <2>1, <2>2
<1> QED  BY <1>6, <1>7, <1>8 DEF Placed

\* The images whose bytes are back become new operations.
LEMMA PlacedByRequeue ==
  ASSUME Plain, Plain', Placed, NEW d \in Device, BeginPush(d)
  PROVE  Placed'
<1>1. PICK order \in SetToSeqs(Back(d)) :
        /\ outbox' = [outbox EXCEPT ![d] = @ \o RequeuedRows(d, order)]
        /\ made' = [made EXCEPT ![d] = @ + Len(order)]
  BY DEF BeginPush
<1>2. /\ blocked' = [blocked EXCEPT ![d] = @ \ Back(d)]
      /\ resolved' = [resolved EXCEPT ![d] = @ \cup {p.id : p \in Back(d)}]
      /\ pc' = [pc EXCEPT ![d] = "push"]
      /\ UNCHANGED <<claimed, log, stray>>
  BY DEF BeginPush, service
<1> DEFINE more == RequeuedRows(d, order)
<1>3. /\ more \in Seq(Row) /\ Len(more) = Len(order)
      /\ \A i \in DOMAIN order : more[i].id = made[d] + i
      /\ order \in Seq(Back(d))
  BY RequeuedType
<1>4. /\ outbox[d] \in Seq(Row) /\ made[d] \in Nat /\ Places(d) = 1 .. made[d]
      /\ DistinctIds(outbox[d]) /\ claimed[d] \in 0 .. Len(outbox[d])
  BY PlacesKnown DEF Plain, Queues, Claims, Placed, Distinct
<1> DEFINE n == Len(outbox[d])
           m == Len(order)
<1>5. /\ outbox'[d] = outbox[d] \o more /\ made'[d] = made[d] + m
      /\ blocked'[d] = blocked[d] \ Back(d)
      /\ resolved'[d] = resolved[d] \cup {p.id : p \in Back(d)}
      /\ \A e \in Device : e # d => /\ outbox'[e] = outbox[e] /\ blocked'[e] = blocked[e]
                                    /\ resolved'[e] = resolved[e] /\ made'[e] = made[e]
                                    /\ pc'[e] = pc[e]
      /\ pc'[d] = "push"
  BY <1>1, <1>2 DEF Plain, Queues, Workers
<1> HIDE DEF more
<1>6. /\ n \in Nat /\ m \in Nat /\ DOMAIN outbox[d] = 1 .. n /\ DOMAIN order = 1 .. m
      /\ DOMAIN outbox'[d] = 1 .. n + m
      /\ \A i \in 1 .. n : outbox'[d][i] = outbox[d][i]
      /\ \A i \in 1 .. m : outbox'[d][n + i] = more[i]
  <2>1. n \in Nat /\ m \in Nat /\ DOMAIN outbox[d] = 1 .. n /\ DOMAIN order = 1 .. m
    BY <1>3, <1>4
  <2>2. outbox[d] \in Seq(Row) /\ more \in Seq(Row) /\ m = Len(more) /\ n = Len(outbox[d])
    BY <1>3, <1>4
  <2> HIDE DEF n, m
  <2>3. /\ DOMAIN (outbox[d] \o more) = 1 .. n + m
        /\ \A i \in 1 .. n : (outbox[d] \o more)[i] = outbox[d][i]
        /\ \A i \in 1 .. m : (outbox[d] \o more)[n + i] = more[i]
    BY <2>2, RowsAndMore
  <2> QED  BY <1>5, <2>1, <2>3
<1> HIDE DEF n, m
<1>7. IdsIn(outbox[d]) \subseteq 1 .. made[d]
  BY <1>4 DEF Places
<1>8. \A i \in 1 .. n : outbox'[d][i].id \in 1 .. made[d]
  BY <1>6, <1>7 DEF IdsIn
<1>9. \A i \in 1 .. m : outbox'[d][n + i].id = made[d] + i
  BY <1>3, <1>6
<1>10. ASSUME NEW i \in 1 .. n + m
       PROVE  i \in 1 .. n \/ \E j \in 1 .. m : i = n + j
  <2>1. i \in 1 .. n \/ i - n \in 1 .. m
    BY <1>6
  <2>2. i = n + (i - n)
    BY <1>6
  <2> QED  BY <2>1, <2>2
<1>11. DistinctIds(outbox'[d])
  <2> SUFFICES ASSUME NEW i \in 1 .. n + m, NEW j \in 1 .. n + m,
                      outbox'[d][i].id = outbox'[d][j].id
               PROVE  i = j
    BY <1>6 DEF DistinctIds
  <2>1. CASE i \in 1 .. n /\ j \in 1 .. n
    BY <1>4, <1>6, <2>1 DEF DistinctIds
  <2>2. ASSUME NEW a \in 1 .. m, NEW b \in 1 .. n, outbox'[d][n + a].id = outbox'[d][b].id
        PROVE  FALSE
    <3>1. made[d] + a \in 1 .. made[d]
      BY <1>8, <1>9, <2>2
    <3> QED  BY <1>4, <1>6, <3>1
  <2>3. ASSUME NEW a \in 1 .. m, NEW b \in 1 .. m, outbox'[d][n + a].id = outbox'[d][n + b].id
        PROVE  a = b
    <3>1. made[d] + a = made[d] + b
      BY <1>9, <2>3
    <3> QED  BY <1>4, <1>6, <3>1
  <2> QED  BY <1>10, <2>1, <2>2, <2>3
<1>12. IdsIn(outbox'[d]) = IdsIn(outbox[d]) \cup (made[d] + 1 .. made[d] + m)
  <2>1. IdsIn(outbox'[d]) \subseteq IdsIn(outbox[d]) \cup (made[d] + 1 .. made[d] + m)
    <3> SUFFICES ASSUME NEW i \in 1 .. n + m
                 PROVE  outbox'[d][i].id \in IdsIn(outbox[d]) \cup (made[d] + 1 .. made[d] + m)
      BY <1>6 DEF IdsIn
    <3>1. CASE i \in 1 .. n
      BY <1>6, <3>1 DEF IdsIn
    <3>2. ASSUME NEW j \in 1 .. m, i = n + j
          PROVE  outbox'[d][i].id \in made[d] + 1 .. made[d] + m
      <4>1. outbox'[d][i].id = made[d] + j
        BY <1>9, <3>2
      <4> QED  BY <1>4, <1>6, <4>1
    <3> QED  BY <1>10, <3>1, <3>2
  <2>2. ASSUME NEW i \in 1 .. n
        PROVE  outbox[d][i].id \in IdsIn(outbox'[d])
    <3>1. i \in 1 .. n + m
      BY <1>6
    <3> QED  BY <1>6, <3>1 DEF IdsIn
  <2>3. ASSUME NEW x \in made[d] + 1 .. made[d] + m
        PROVE  x \in IdsIn(outbox'[d])
    <3>1. PICK y \in 1 .. m : x = made[d] + y
      <4>1. x - made[d] \in 1 .. m /\ made[d] + (x - made[d]) = x
        BY <1>4, <1>6
      <4> QED  BY <4>1
    <3>2. n + y \in 1 .. n + m
      BY <1>6
    <3>3. outbox'[d][n + y].id = x
      BY <1>9, <3>1
    <3> QED  BY <1>6, <3>2, <3>3 DEF IdsIn
  <2>4. IdsIn(outbox[d]) \subseteq IdsIn(outbox'[d])
    BY <1>6, <2>2 DEF IdsIn
  <2> QED  BY <2>1, <2>3, <2>4
<1>13. IdsParked(d)' \cup resolved'[d] = IdsParked(d) \cup resolved[d]
  <2>1. Back(d) \subseteq blocked[d]
    BY DEF Back
  <2> QED  BY <1>5, <2>1 DEF IdsParked
<1>14. Places(d)' = 1 .. made'[d] /\ made'[d] \in Nat /\ made'[d] >= made[d]
  <2>1. Places(d)' = (1 .. made[d]) \cup (made[d] + 1 .. made[d] + m)
    BY <1>2, <1>4, <1>12, <1>13 DEF Places, IdsInLog
  <2> QED  BY <1>4, <1>5, <1>6, <2>1
<1>15. NothingLost' /\ Distinct'
  BY <1>2, <1>5, <1>11, <1>14, PlacesOfOne DEF Placed
<1>16. ClaimHolds' /\ AcceptedOnce'
  <2>1. \A i \in 1 .. claimed[d] : outbox'[d][i] = outbox[d][i]
    BY <1>4, <1>6 DEF n
  <2>2. ClaimHolds'
    BY <1>2, <1>5, <2>1, ClaimKept DEF Placed, Plain
  <2> QED  BY <1>2, <2>2 DEF Placed, AcceptedOnce
<1> QED  BY <1>15, <1>16 DEF Placed

\* What the service accepted leaves the queue for the log.
LEMMA PlacedByAcknowledge ==
  ASSUME Plain, Plain', Placed, NEW d \in Device, Acknowledge(d)
  PROVE  Placed'
<1>1. /\ outbox' = [outbox EXCEPT ![d] = Unclaimed(d)]
      /\ claimed' = [claimed EXCEPT ![d] = 0] /\ pc' = [pc EXCEPT ![d] = "push"]
      /\ pc[d] = "accepted"
      /\ UNCHANGED <<log, stray, blocked, made, resolved>>
  BY DEF Acknowledge, service, history
<1>2. /\ outbox[d] \in Seq(Row) /\ claimed[d] \in Nat /\ Places(d) = 1 .. made[d]
      /\ made[d] \in Nat /\ DistinctIds(outbox[d])
  BY PlacesKnown DEF Plain, Queues, Placed, Distinct
<1> DEFINE left == Unclaimed(d)
<1>3. /\ left \in Seq(Row)
      /\ \A i \in DOMAIN left : i + claimed[d] \in DOMAIN outbox[d] /\ left[i] = outbox[d][i + claimed[d]]
      /\ \A j \in DOMAIN outbox[d] : j =< claimed[d] \/ j - claimed[d] \in DOMAIN left
  BY UnclaimedRows
<1>4. /\ outbox'[d] = left /\ claimed'[d] = 0
      /\ \A e \in Device : e # d => /\ outbox'[e] = outbox[e] /\ claimed'[e] = claimed[e]
                                    /\ pc'[e] = pc[e]
  BY <1>1 DEF Plain, Queues, Workers
<1> HIDE DEF left
<1>5. DistinctIds(left)
  <2> SUFFICES ASSUME NEW i \in DOMAIN left, NEW j \in DOMAIN left, left[i].id = left[j].id
               PROVE  i = j
    BY DEF DistinctIds
  <2>1. i + claimed[d] = j + claimed[d]
    BY <1>2, <1>3 DEF DistinctIds
  <2>2. i \in Nat /\ j \in Nat
    BY <1>3
  <2> QED  BY <1>2, <2>1, <2>2
<1>6. ASSUME NEW j \in DOMAIN outbox[d]
      PROVE  outbox[d][j].id \in IdsIn(left) \cup IdsInLog(d)
  <2>1. j \in Nat /\ j >= 1
    BY <1>2
  <2>2. CASE j =< claimed[d]
    <3>1. j \in 1 .. claimed[d]
      BY <1>2, <2>1, <2>2
    <3>2. Known(d, outbox[d][j])
      BY <1>1, <3>1 DEF Placed, ClaimHolds
    <3> QED  BY <3>2 DEF Known, IdsInLog
  <2>3. CASE j - claimed[d] \in DOMAIN left
    <3>1. left[j - claimed[d]] = outbox[d][(j - claimed[d]) + claimed[d]]
      BY <1>3, <2>3
    <3>2. (j - claimed[d]) + claimed[d] = j
      BY <1>2, <2>1
    <3> QED  BY <2>3, <3>1, <3>2 DEF IdsIn
  <2> QED  BY <1>3, <2>2, <2>3
<1>7. IdsIn(left) \subseteq IdsIn(outbox[d])
  BY <1>3 DEF IdsIn
<1>8. IdsIn(left) \cup IdsInLog(d) = IdsIn(outbox[d]) \cup IdsInLog(d)
  <2>1. IdsIn(outbox[d]) \subseteq IdsIn(left) \cup IdsInLog(d)
    BY <1>6 DEF IdsIn
  <2> QED  BY <1>7, <2>1
<1>9. Places(d)' = 1 .. made'[d]
  BY <1>1, <1>2, <1>4, <1>8 DEF Places, IdsInLog, IdsParked
<1>10. NothingLost' /\ Distinct'
  <2>1. made'[d] \in Nat /\ made'[d] >= made[d]
    BY <1>1, <1>2
  <2> QED  BY <1>1, <1>4, <1>5, <1>9, <2>1, PlacesOfOne DEF Placed
<1>11. ClaimHolds' /\ AcceptedOnce'
  BY <1>1, <1>4, ClaimKept DEF Placed, Plain, AcceptedOnce
<1> QED  BY <1>10, <1>11 DEF Placed

\* A row whose echo came is in the log; the rows behind it move up, and with
\* them what is claimed.
LEMMA PlacedByEcho ==
  ASSUME Plain, Plain', Placed, NEW d \in Device, PullEcho(d)
  PROVE  Placed'
<1>1. PICK i \in Echoed(d, cursor[d] + 1) :
        /\ outbox' = [outbox EXCEPT ![d] = RemoveAt(@, i)]
        /\ claimed' = [claimed EXCEPT ![d] = ClaimAfterEcho(d, i)]
  BY DEF PullEcho
<1>2. /\ pc[d] = "pull" /\ cursor[d] + 1 \in DOMAIN log
      /\ UNCHANGED <<pc, log, stray, blocked, made, resolved>>
  BY DEF PullEcho, InLog, Plain, Shown, Services, worker, service, history
<1>3. i \in DOMAIN outbox[d] /\ outbox[d][i].id \in IdsInLog(d)
  BY <1>2 DEF Echoed, IdsInLog
<1>4. /\ outbox[d] \in Seq(Row) /\ claimed[d] \in 0 .. Len(outbox[d]) /\ Places(d) = 1 .. made[d]
      /\ made[d] \in Nat /\ DistinctIds(outbox[d])
  BY PlacesKnown DEF Plain, Queues, Claims, Placed, Distinct
<1> DEFINE left == RemoveAt(outbox[d], i)
           n == Len(outbox[d])
<1>5. /\ left \in Seq(Row) /\ Len(left) = n - 1
      /\ \A j \in 1 .. n - 1 : left[j] = IF j < i THEN outbox[d][j] ELSE outbox[d][j + 1]
  BY <1>3, <1>4, RowsWithout
<1>6. /\ outbox'[d] = left /\ claimed'[d] = ClaimAfterEcho(d, i)
      /\ \A e \in Device : e # d => outbox'[e] = outbox[e] /\ claimed'[e] = claimed[e]
  BY <1>1 DEF Plain, Queues
<1> HIDE DEF left
<1>7. /\ n \in Nat /\ i \in 1 .. n /\ DOMAIN outbox[d] = 1 .. n /\ DOMAIN left = 1 .. n - 1
  <2>1. n \in Nat /\ DOMAIN outbox[d] = 1 .. n
    BY <1>4
  <2> QED  BY <1>3, <1>5, <2>1
<1> HIDE DEF n
<1>8. ASSUME NEW j \in 1 .. n - 1
      PROVE  \/ j < i /\ left[j] = outbox[d][j] /\ j \in 1 .. n
             \/ ~(j < i) /\ left[j] = outbox[d][j + 1] /\ j + 1 \in 1 .. n /\ j + 1 > i
  BY <1>5, <1>7
<1>9. DistinctIds(left)
  <2> SUFFICES ASSUME NEW j \in 1 .. n - 1, NEW k \in 1 .. n - 1, left[j].id = left[k].id
               PROVE  j = k
    BY <1>7 DEF DistinctIds
  <2>1. j \in Nat /\ k \in Nat /\ i \in Nat
    BY <1>7
  <2>2. CASE j < i /\ k < i
    BY <1>4, <1>7, <1>8, <2>2 DEF DistinctIds
  <2>3. CASE ~(j < i) /\ ~(k < i)
    <3>1. /\ left[j] = outbox[d][j + 1] /\ j + 1 \in 1 .. n
          /\ left[k] = outbox[d][k + 1] /\ k + 1 \in 1 .. n
      BY <1>8, <2>3
    <3>2. outbox[d][j + 1].id = outbox[d][k + 1].id
      BY <3>1
    <3>3. j + 1 = k + 1
      BY <1>4, <1>7, <3>1, <3>2 DEF DistinctIds
    <3> QED  BY <2>1, <3>3
  <2>4. CASE j < i /\ ~(k < i)
    <3>1. j = k + 1
      BY <1>4, <1>7, <1>8, <2>4 DEF DistinctIds
    <3> QED  BY <2>1, <2>4, <3>1
  <2>5. CASE ~(j < i) /\ k < i
    <3>1. j + 1 = k
      BY <1>4, <1>7, <1>8, <2>5 DEF DistinctIds
    <3> QED  BY <2>1, <2>5, <3>1
  <2> QED  BY <2>2, <2>3, <2>4, <2>5
<1>10. IdsIn(left) \cup IdsInLog(d) = IdsIn(outbox[d]) \cup IdsInLog(d)
  <2>1. IdsIn(left) \subseteq IdsIn(outbox[d])
    BY <1>7, <1>8 DEF IdsIn
  <2>2. ASSUME NEW j \in 1 .. n
        PROVE  outbox[d][j].id \in IdsIn(left) \cup IdsInLog(d)
    <3>1. CASE j < i
      <4>1. j \in 1 .. n - 1 /\ left[j] = outbox[d][j]
        BY <1>5, <1>7, <3>1
      <4> QED  BY <1>7, <4>1 DEF IdsIn
    <3>2. CASE j = i
      BY <1>3, <3>2
    <3>3. CASE j > i
      <4>1. j - 1 \in 1 .. n - 1 /\ ~(j - 1 < i) /\ (j - 1) + 1 = j
        BY <1>7, <3>3
      <4>2. left[j - 1] = outbox[d][j]
        BY <1>5, <4>1
      <4> QED  BY <1>7, <4>1, <4>2 DEF IdsIn
    <3> QED  BY <1>7, <3>1, <3>2, <3>3
  <2>3. IdsIn(outbox[d]) \subseteq IdsIn(left) \cup IdsInLog(d)
    BY <1>7, <2>2 DEF IdsIn
  <2> QED  BY <2>1, <2>3
<1>11. Places(d)' = 1 .. made'[d]
  BY <1>2, <1>4, <1>6, <1>10 DEF Places, IdsInLog, IdsParked
<1>12. NothingLost' /\ Distinct'
  <2>1. made'[d] \in Nat /\ made'[d] >= made[d]
    BY <1>2, <1>4
  <2> QED  BY <1>2, <1>6, <1>9, <1>11, <2>1, PlacesOfOne DEF Placed
<1>13. ASSUME NEW j \in 1 .. ClaimAfterEcho(d, i)
       PROVE  left[j].attempts > 0
  <2>1. /\ j \in 1 .. n - 1 /\ j \in 1 .. claimed[d]
        /\ ~(j < i) => j + 1 \in 1 .. claimed[d]
    <3>1. claimed[d] \in Nat /\ claimed[d] =< n
      BY <1>4 DEF n
    <3> QED  BY <1>7, <3>1 DEF ClaimAfterEcho
  <2> QED  BY <1>8, <2>1 DEF Placed, ClaimHolds
<1>14. ClaimHolds'
  <2> SUFFICES ASSUME NEW e \in Device
               PROVE  /\ pc'[e] = "accepted" => \A j \in 1 .. claimed'[e] : \E s \in DOMAIN log' :
                           log'[s].dev = e /\ log'[s].id = outbox'[e][j].id
                      /\ \A j \in 1 .. claimed'[e] : outbox'[e][j].attempts > 0
    BY DEF ClaimHolds, Plain, Claims, Known
  <2>1. CASE e = d
    BY <1>2, <1>6, <1>13, <2>1
  <2>2. CASE e # d
    BY <1>2, <1>6, <2>2 DEF Placed, ClaimHolds, Known
  <2> QED  BY <2>1, <2>2
<1>15. AcceptedOnce'
  BY <1>2 DEF Placed, AcceptedOnce
<1> QED  BY <1>12, <1>14, <1>15 DEF Placed

\* A batch that is accepted, while its worker waits or after it gave up.
LEMMA PlacedByAccept ==
  ASSUME Plain, Plain', Placed, NEW d \in Device, Push(d)
  PROVE  Placed'
<1>1. /\ pc' = [pc EXCEPT ![d] = "accepted"]
      /\ UNCHANGED <<outbox, claimed, blocked, made, resolved, stray>>
      /\ \E known \in 0 .. claimed[d] : Admits(d, Batch(d), known) /\ Accept(d, Batch(d), known)
  BY DEF Push, durable, history
<1>2. /\ Batch(d) \in Seq(Row) /\ Len(Batch(d)) = claimed[d]
      /\ \A i \in 1 .. claimed[d] : Batch(d)[i] = outbox[d][i]
      /\ 1 .. claimed[d] \subseteq DOMAIN outbox[d] /\ DOMAIN Batch(d) = 1 .. claimed[d]
  BY BatchRows
<1>3. DistinctIds(Batch(d)) /\ IdsIn(Batch(d)) \subseteq 1 .. made[d]
  <2>1. DistinctIds(Batch(d))
    BY <1>2 DEF Placed, Distinct, DistinctIds
  <2>2. IdsIn(Batch(d)) \subseteq IdsIn(outbox[d])
    BY <1>2 DEF IdsIn
  <2> QED  BY <2>1, <2>2 DEF Placed, NothingLost
<1>4. /\ NothingLost' /\ AcceptedOnce'
      /\ \A i \in DOMAIN Batch(d) : \E s \in DOMAIN log' :
           log'[s].dev = d /\ log'[s].id = Batch(d)[i].id
  BY <1>1, <1>2, <1>3, AcceptedPlaces DEF Placed
<1>5. Distinct'
  BY <1>1 DEF Placed, Distinct
<1>6. \A s \in DOMAIN log : s \in DOMAIN log' /\ log'[s] = log[s]
  BY <1>1, <1>2, Accepted DEF Plain, Services
<1>7. ClaimHolds'
  <2> SUFFICES ASSUME NEW e \in Device
               PROVE  /\ pc'[e] = "accepted" => \A i \in 1 .. claimed'[e] : \E s \in DOMAIN log' :
                           log'[s].dev = e /\ log'[s].id = outbox'[e][i].id
                      /\ \A i \in 1 .. claimed'[e] : outbox'[e][i].attempts > 0
    BY DEF ClaimHolds, Plain, Claims, Known
  <2>1. \A i \in 1 .. claimed'[e] : outbox'[e][i].attempts > 0
    BY <1>1 DEF Placed, ClaimHolds
  <2>2. CASE e = d
    BY <1>1, <1>2, <1>4, <2>1, <2>2
  <2>3. CASE e # d
    <3>1. pc'[e] = pc[e]
      BY <1>1, <2>3 DEF Plain, Workers
    <3> QED  BY <1>1, <1>6, <2>1, <3>1 DEF Placed, ClaimHolds, Known
  <2> QED  BY <2>2, <2>3
<1> QED  BY <1>4, <1>5, <1>7 DEF Placed

\* A request that arrives late is accepted or refused; its worker learns nothing.
LEMMA PlacedByStray ==
  ASSUME Plain, Plain', Placed, NEW r \in stray, StrayArrives(r)
  PROVE  Placed'
<1>1. r.dev \in Device /\ r.rows \in Seq(Row)
  BY DEF Plain, Services
<1>2. /\ stray' = stray \ {r}
      /\ UNCHANGED <<outbox, claimed, blocked, made, resolved, pc>>
      /\ \/ UNCHANGED log
         \/ \E known \in 0 .. Len(r.rows) :
              Admits(r.dev, r.rows, known) /\ Accept(r.dev, r.rows, known)
  BY DEF StrayArrives, durable, worker, history
<1>3. Distinct'
  BY <1>2 DEF Placed, Distinct
<1>4. NothingLost' /\ AcceptedOnce'
  <2>1. CASE UNCHANGED log
    BY <1>2, <2>1 DEF Placed, NothingLost, AcceptedOnce, IdsInLog, IdsParked
  <2>2. CASE \E known \in 0 .. Len(r.rows) :
               Admits(r.dev, r.rows, known) /\ Accept(r.dev, r.rows, known)
    <3>1. DistinctIds(r.rows) /\ IdsIn(r.rows) \subseteq 1 .. made[r.dev]
      BY DEF Placed, Distinct
    <3> QED  BY <1>1, <1>2, <2>2, <3>1, AcceptedPlaces DEF Placed
  <2> QED  BY <1>2, <2>1, <2>2
<1>5. \A s \in DOMAIN log : s \in DOMAIN log' /\ log'[s] = log[s]
  BY <1>1, <1>2, Accepted DEF Plain, Services
<1>6. ClaimHolds'
  BY <1>2, <1>5, ClaimKept DEF Placed, Plain
<1> QED  BY <1>3, <1>4, <1>6 DEF Placed

\* Every step of a worker, of a fault and of the service.
LEMMA PlacedByWorker ==
  ASSUME Plain, Plain', Placed, NEW d \in Device, Cycle(d) \/ Trouble(d)
  PROVE  Placed'
<1>0. /\ outbox[d] \in Seq(Row) /\ claimed[d] \in 0 .. Len(outbox[d])
      /\ pc[d] \in {"claimed", "accepted"} => claimed[d] > 0
  BY DEF Plain, Queues, Claims
<1>1. CASE \/ StartRebuild(d) \/ FetchCheckpoint(d) \/ Rebuild(d) \/ RefuseRebuild(d) \/ EndPush(d)
           \/ PullDuplicate(d) \/ PullRemote(d) \/ PullTruncated(d) \/ PullDrained(d)
           \/ ExportArchive(d) \/ SkipPublication(d) \/ PublishCheckpoint(d) \/ EndCycle(d)
           \/ StorageFailure(d) \/ \E a \in Asset : LoseAsset(d, a)
  <2>1. UNCHANGED <<outbox, claimed, blocked, made, resolved, log, stray>>
    BY <1>1
    DEF StartRebuild, FetchCheckpoint, Rebuild, RefuseRebuild, EndPush, PullDuplicate, PullRemote,
        PullTruncated, PullDrained, ExportArchive, SkipPublication, PublishCheckpoint, EndCycle,
        StorageFailure, LoseAsset, durable, service, history
  <2>2. \/ UNCHANGED pc
        \/ \E step \in {"idle", "fetch", "fetched", "rebuilt", "pull", "settled", "exported"} :
             pc' = [pc EXCEPT ![d] = step]
    BY <1>1
    DEF StartRebuild, FetchCheckpoint, Rebuild, RefuseRebuild, EndPush, PullDuplicate, PullRemote,
        PullTruncated, PullDrained, ExportArchive, SkipPublication, PublishCheckpoint, EndCycle,
        StorageFailure, LoseAsset, worker
  <2>3. \A e \in Device : pc'[e] = "accepted" => pc[e] = "accepted"
    BY <2>2 DEF Plain, Workers
  <2> QED  BY <2>1, <2>3, PlacedByFrame
<1>2. ASSUME NEW step \in {"pull", "idle"}, Release(d, step), UNCHANGED <<made, resolved, log>>,
             stray' = stray \/ stray' = stray \cup {[dev |-> d, rows |-> Batch(d)]}
      PROVE  Placed'
  <2>1. /\ claimed' = [claimed EXCEPT ![d] = 0] /\ UNCHANGED <<outbox, blocked>>
        /\ pc' = [pc EXCEPT ![d] = step]
    BY <1>2 DEF Release
  <2> QED  BY <1>2, <2>1, PlacedByRelease DEF Plain, Workers
<1>3. CASE ReleaseMissing(d) \/ \E step \in {"pull", "idle"} : PushFails(d, step)
  BY <1>2, <1>3 DEF ReleaseMissing, PushFails, service, history
<1>4. CASE \E step \in {"pull", "idle"} : PushTimesOut(d, step)
  BY <1>2, <1>4 DEF PushTimesOut
<1>5. CASE Crash(d)
  <2>1. /\ claimed' = [claimed EXCEPT ![d] = 0] /\ pc' = [pc EXCEPT ![d] = "idle"]
        /\ UNCHANGED <<outbox, blocked, made, resolved, log, stray>>
    BY <1>5 DEF Crash, service
  <2> QED  BY <2>1, PlacedByRelease DEF Plain, Workers
<1>6. CASE ParkMissing(d)
  <2>1. Missing(d) \in SUBSET (DOMAIN outbox[d]) /\ Missing(d) # {}
    BY <1>0, <1>6 DEF ParkMissing, Missing
  <2> QED  BY <1>6, <2>1, PlacedByPark DEF ParkMissing, service
<1>7. CASE PushRefused(d)
  <2>1. pc[d] = "claimed" /\ UNCHANGED <<service, history>>
        /\ (Release(d, "pull") \/ Park(d, 1 .. claimed[d], "cloud_rejected"))
    BY <1>7 DEF PushRefused
  <2>2. CASE Release(d, "pull")
    BY <1>2, <2>1, <2>2 DEF service, history
  <2>3. CASE Park(d, 1 .. claimed[d], "cloud_rejected")
    <3>1. 1 .. claimed[d] \in SUBSET (DOMAIN outbox[d]) /\ 1 .. claimed[d] # {}
      BY <1>0, <2>1
    <3> QED  BY <2>1, <2>3, <3>1, PlacedByPark DEF service
  <2> QED  BY <2>1, <2>2, <2>3
<1> QED
  BY <1>1, <1>3, <1>4, <1>5, <1>6, <1>7, PlacedByRequeue, PlacedByClaim, PlacedByAcknowledge,
     PlacedByEcho, PlacedByAccept
  DEF Cycle, Trouble

\* Every operation is in its place, in every state the devices can reach.
LEMMA PlacedHolds == Spec => []Placed
<1>1. Init => Placed
  <2> SUFFICES ASSUME Init
               PROVE  Placed
    OBVIOUS
  <2>1. \A d \in Device : outbox[d] = << >> /\ claimed[d] = 0 /\ made[d] = 0 /\ blocked[d] = {}
                          /\ resolved[d] = {} /\ pc[d] = "idle"
    BY DEF Init
  <2>2. DOMAIN << >> = {} /\ Len(<< >>) = 0 /\ 1 .. 0 = {}
    OBVIOUS
  <2>3. log = << >> /\ stray = {}
    BY DEF Init
  <2>4. NothingLost
    BY <2>1, <2>2, <2>3 DEF NothingLost, IdsIn, IdsInLog, IdsParked
  <2>5. Distinct /\ AcceptedOnce
    BY <2>1, <2>2, <2>3 DEF Distinct, DistinctIds, AcceptedOnce
  <2>6. ClaimHolds
    BY <2>1, <2>2 DEF ClaimHolds
  <2> QED  BY <2>4, <2>5, <2>6 DEF Placed
<1>2. Plain /\ Plain' /\ Placed /\ [Next]_vars => Placed'
  <2> SUFFICES ASSUME Plain, Plain', Placed, [Next]_vars
               PROVE  Placed'
    OBVIOUS
  <2>1. CASE UNCHANGED vars
    BY <2>1, PlacedByFrame DEF vars, durable, worker, service, history
  <2>2. ASSUME NEW f \in 1 .. ckpt.seq, Compact(f)
        PROVE  Placed'
    BY <2>2, PlacedByFrame DEF Compact, durable, worker, history
  <2> QED  BY <2>1, <2>2, PlacedByUser, PlacedByWorker, PlacedByStray DEF Next
<1> QED  BY <1>1, <1>2, PlainHolds, PTL DEF Spec

\* Whatever is lost, late, parked, retried or restarted, every operation a user
\* made is queued, accepted, parked for the user to see, or was retried or
\* discarded by the user, and nothing else is (sync.rs, cycle.rs).
THEOREM NothingLostHolds == Spec => []NothingLost
BY PlacedHolds, PTL DEF Placed

-----------------------------------------------------------------------------
(* How far a device has read                                                 *)

\* What one device has received, and how far it has read.
Read(d) ==
  /\ received[d] \subseteq DOMAIN log
  /\ cursor[d] =< Len(log)
  /\ \A s \in 1 .. cursor[d] : s =< through[d] \/ s \in received[d]
  /\ \A s \in received[d] : s =< cursor[d] \/ log[s].dev = d

\* What is received is in the log, and nothing stands for more than the log.
Followed ==
  /\ received \in [Device -> SUBSET Nat]
  /\ heads \in [Device -> [Note -> Nat]]
  /\ ckpt.seq =< Len(log)
  /\ \A d \in Device : pc[d] \in {"fetched", "exported"} => archive[d].seq =< Len(log)
  /\ \A d \in Device : Read(d)

\* A step that reads nothing.
LEMMA FollowedByFrame ==
  ASSUME Plain, Plain', Followed, UNCHANGED <<received, heads, cursor, through>>,
         Len(log) =< Len(log'), \A s \in DOMAIN log : log'[s] = log[s],
         ckpt'.seq =< Len(log'),
         \A d \in Device : pc'[d] \in {"fetched", "exported"} => archive'[d].seq =< Len(log')
  PROVE  Followed'
<1>1. /\ Len(log) \in Nat /\ Len(log') \in Nat /\ DOMAIN log = 1 .. Len(log)
      /\ DOMAIN log' = 1 .. Len(log') /\ cursor \in [Device -> Nat]
  BY DEF Plain, Services, Shown
<1>2. \A s \in DOMAIN log : s \in DOMAIN log'
  BY <1>1
<1>3. ASSUME NEW d \in Device
      PROVE  Read(d)'
  <2>1. Read(d) /\ cursor[d] \in Nat
    BY <1>1 DEF Followed
  <2>2. cursor[d] =< Len(log')
    BY <1>1, <2>1 DEF Read
  <2> QED  BY <1>2, <2>1, <2>2 DEF Read
<1> QED  BY <1>3 DEF Followed

\* A step of one device that leaves the log, the checkpoint and the worker's
\* archive as they are.
LEMMA FollowedByOne ==
  ASSUME Plain, Plain', Followed, UNCHANGED <<log, ckpt>>, NEW d \in Device,
         received' \in [Device -> SUBSET Nat], heads' \in [Device -> [Note -> Nat]],
         \A e \in Device : e # d => /\ received'[e] = received[e] /\ cursor'[e] = cursor[e]
                                    /\ through'[e] = through[e] /\ pc'[e] = pc[e]
                                    /\ archive'[e] = archive[e],
         Read(d)', pc'[d] \notin {"fetched", "exported"}
  PROVE  Followed'
<1>1. ASSUME NEW e \in Device
      PROVE  /\ Read(e)'
             /\ pc'[e] \in {"fetched", "exported"} => archive'[e].seq =< Len(log')
  <2>1. CASE e = d
    BY <2>1
  <2>2. CASE e # d
    BY <2>2 DEF Followed, Read
  <2> QED  BY <2>1, <2>2
<1> QED  BY <1>1 DEF Followed

\* What comes after the cursor is received, or was.
LEMMA FollowedByPull ==
  ASSUME Plain, Plain', Followed, NEW d \in Device,
         PullDuplicate(d) \/ PullEcho(d) \/ PullRemote(d)
  PROVE  Followed'
<1> DEFINE s == cursor[d] + 1
<1>1. /\ cursor' = [cursor EXCEPT ![d] = s] /\ pc[d] = "pull" /\ cursor[d] < Len(log)
      /\ UNCHANGED <<through, pc, archive, log, ckpt>>
  BY DEF PullDuplicate, PullEcho, PullRemote, Incorporate, InLog, worker, service
<1>2. /\ cursor[d] \in Nat /\ Len(log) \in Nat /\ DOMAIN log = 1 .. Len(log)
  BY DEF Plain, Shown, Services
<1>3. s \in DOMAIN log /\ s =< Len(log) /\ s \in Nat
  BY <1>1, <1>2
<1>4. \/ received' = received /\ heads' = heads /\ s \in received[d]
      \/ /\ received' = [received EXCEPT ![d] = @ \cup {s}]
         /\ heads' = [heads EXCEPT ![d] =
              [n \in Note |-> IF WritesTo(log[s].op, n) THEN Greater(heads[d][n], s)
                                                        ELSE heads[d][n]]]
  BY DEF PullDuplicate, PullEcho, PullRemote, Incorporate
<1>5. heads' \in [Device -> [Note -> Nat]]
  <2>1. \A n \in Note : heads[d][n] \in Nat /\ Greater(heads[d][n], s) \in Nat
    BY <1>3 DEF Followed, Greater
  <2> DEFINE h == [n \in Note |-> IF WritesTo(log[s].op, n) THEN Greater(heads[d][n], s)
                                                          ELSE heads[d][n]]
  <2>2. h \in [Note -> Nat]
    BY <2>1
  <2>3. heads' = heads \/ heads' = [heads EXCEPT ![d] = h]
    BY <1>4
  <2> HIDE DEF h
  <2> QED  BY <2>2, <2>3 DEF Followed
<1> HIDE DEF s
<1>6. /\ received' \in [Device -> SUBSET Nat] /\ received'[d] = received[d] \cup {s}
      /\ \A e \in Device : e # d => received'[e] = received[e]
  <2>1. received \in [Device -> SUBSET Nat] /\ received[d] \cup {s} \in SUBSET Nat
    BY <1>3 DEF Followed
  <2>2. CASE received' = received /\ s \in received[d]
    BY <2>1, <2>2
  <2>3. CASE received' = [received EXCEPT ![d] = received[d] \cup {s}]
    BY <2>1, <2>3
  <2> QED  BY <1>4, <2>2, <2>3
<1>7. cursor'[d] = s /\ \A e \in Device : e # d => cursor'[e] = cursor[e]
  BY <1>1 DEF Plain, Shown
<1>8. \A t \in 1 .. s : t \in 1 .. cursor[d] \/ t = s
  BY <1>2 DEF s
<1>9. Read(d)'
  <2>1. Read(d)
    BY DEF Followed
  <2>2. \A t \in 1 .. s : t =< through[d] \/ t \in received'[d]
    BY <1>6, <1>8, <2>1 DEF Read
  <2>3. \A t \in received'[d] : t =< s \/ log[t].dev = d
    <3>1. \A t \in received[d] : t =< s \/ log[t].dev = d
      <4> SUFFICES ASSUME NEW t \in received[d], ~(log[t].dev = d)
                   PROVE  t =< s
        OBVIOUS
      <4>1. t =< cursor[d] /\ t \in Nat
        BY <2>1 DEF Read, Followed
      <4> QED  BY <1>2, <4>1 DEF s
    <3> QED  BY <1>3, <1>6, <3>1
  <2>4. received'[d] \subseteq DOMAIN log
    BY <1>3, <1>6, <2>1 DEF Read
  <2> QED  BY <1>1, <1>3, <1>7, <2>2, <2>3, <2>4 DEF Read
<1> QED  BY <1>1, <1>5, <1>6, <1>7, <1>9, FollowedByOne

\* The sequences of the claimed rows are received, and the cursor follows them
\* as far as they continue it.
LEMMA FollowedByAcknowledge ==
  ASSUME Plain, Plain', ClaimHolds, Followed, NEW d \in Device, Acknowledge(d)
  PROVE  Followed'
<1>1. /\ received' = [received EXCEPT ![d] = @ \cup SequencesOf(d, 1 .. claimed[d])]
      /\ heads' = [heads EXCEPT ![d] =
           [n \in Note |-> Max({heads[d][n]} \cup SequencesOf(d, ClaimedWrites(d, n)))]]
      /\ cursor' = [cursor EXCEPT ![d] = @ + Contiguous(d)]
      /\ pc' = [pc EXCEPT ![d] = "push"] /\ pc[d] = "accepted"
      /\ UNCHANGED <<through, archive, log, ckpt>>
  BY DEF Acknowledge, service
<1>2. /\ cursor[d] \in Nat /\ Len(log) \in Nat /\ DOMAIN log = 1 .. Len(log)
      /\ claimed[d] \in Nat /\ received[d] \subseteq Nat /\ Read(d)
  BY DEF Plain, Shown, Services, Queues, Followed
<1>3. \A i \in 1 .. claimed[d] : /\ SequenceOf(d, outbox[d][i]) \in DOMAIN log
                                 /\ log[SequenceOf(d, outbox[d][i])].dev = d
  BY <1>1 DEF ClaimHolds, Known, SequenceOf
<1>4. /\ SequencesOf(d, 1 .. claimed[d]) \subseteq DOMAIN log
      /\ \A s \in SequencesOf(d, 1 .. claimed[d]) : log[s].dev = d
  BY <1>3 DEF SequencesOf
<1> DEFINE new == SequencesOf(d, 1 .. claimed[d])
           k == Contiguous(d)
<1>5. k \in 0 .. claimed[d] /\ \A i \in 1 .. k : SequenceOf(d, outbox[d][i]) = cursor[d] + i
  <2> DEFINE S == {j \in 0 .. claimed[d] :
                     \A i \in 1 .. j : SequenceOf(d, outbox[d][i]) = cursor[d] + i}
  <2>1. 0 \in S /\ S \in SUBSET (0 .. claimed[d])
    BY <1>2
  <2>2. Max(S) = k
    BY DEF Contiguous
  <2> HIDE DEF S, k
  <2>3. Max(S) \in S
    BY <1>2, <2>1, MaxGreatest
  <2> QED  BY <2>2, <2>3 DEF S
<1> HIDE DEF k, new
<1>6. /\ received' \in [Device -> SUBSET Nat] /\ received'[d] = received[d] \cup new
      /\ \A e \in Device : e # d => received'[e] = received[e]
      /\ cursor'[d] = cursor[d] + k /\ \A e \in Device : e # d => cursor'[e] = cursor[e]
      /\ pc'[d] = "push" /\ \A e \in Device : e # d => pc'[e] = pc[e]
  <2>1. new \subseteq Nat
    BY <1>2, <1>4 DEF new
  <2> QED  BY <1>1, <2>1 DEF Followed, Plain, Shown, Workers, new, k
<1>7. heads' \in [Device -> [Note -> Nat]]
  <2>1. ASSUME NEW n \in Note
        PROVE  Max({heads[d][n]} \cup SequencesOf(d, ClaimedWrites(d, n))) \in Nat
    <3> DEFINE S == {heads[d][n]} \cup SequencesOf(d, ClaimedWrites(d, n))
    <3>1. heads[d][n] \in Nat
      BY DEF Followed
    <3>2. SequencesOf(d, ClaimedWrites(d, n)) \subseteq 1 .. Len(log)
      BY <1>2, <1>3 DEF SequencesOf, ClaimedWrites
    <3>3. S \in SUBSET (0 .. heads[d][n] + Len(log)) /\ S # {} /\ heads[d][n] + Len(log) \in Nat
      BY <1>2, <3>1, <3>2
    <3>n. S \subseteq Nat
      BY <1>2, <3>1, <3>2
    <3> HIDE DEF S
    <3>4. Max(S) \in S
      BY <3>3, MaxGreatest
    <3>5. Max(S) \in Nat
      BY <3>n, <3>4
    <3> QED  BY <3>5 DEF S
  <2> QED  BY <1>1, <2>1 DEF Followed
<1>8. ASSUME NEW i \in 1 .. k
      PROVE  cursor[d] + i \in new
  <2>1. i \in 1 .. claimed[d]
    BY <1>2, <1>5
  <2>2. SequenceOf(d, outbox[d][i]) \in new
    BY <2>1 DEF SequencesOf, new
  <2> QED  BY <1>5, <2>2
<1>9. cursor[d] + k =< Len(log) /\ k \in Nat
  <2>1. k \in Nat
    BY <1>2, <1>5
  <2>2. CASE k = 0
    BY <1>2, <2>2 DEF Read
  <2>3. CASE k # 0
    <3>1. k \in 1 .. k
      BY <2>1, <2>3
    <3>2. cursor[d] + k \in DOMAIN log
      BY <1>4, <1>8, <3>1 DEF new
    <3> QED  BY <1>2, <2>1, <3>2
  <2> QED  BY <2>1, <2>2, <2>3
<1>10. ASSUME NEW s \in 1 .. cursor[d] + k
       PROVE  s =< through[d] \/ s \in received'[d]
  <2>1. CASE s \in 1 .. cursor[d]
    BY <1>2, <1>6, <2>1 DEF Read
  <2>2. CASE s \notin 1 .. cursor[d]
    <3>1. s - cursor[d] \in 1 .. k /\ cursor[d] + (s - cursor[d]) = s
      BY <1>2, <1>9, <2>2
    <3>2. s \in new
      BY <1>8, <3>1
    <3> QED  BY <1>6, <3>2
  <2> QED  BY <2>1, <2>2
<1>11. ASSUME NEW s \in received'[d]
       PROVE  s \in DOMAIN log /\ (s =< cursor[d] + k \/ log[s].dev = d)
  <2>1. CASE s \in new
    BY <1>4, <2>1 DEF new
  <2>2. CASE s \in received[d]
    <3>1. s \in DOMAIN log /\ s \in Nat /\ (s =< cursor[d] \/ log[s].dev = d)
      BY <1>2, <2>2 DEF Read
    <3> QED  BY <1>2, <1>9, <3>1
  <2> QED  BY <1>6, <2>1, <2>2
<1>12. Read(d)'
  BY <1>1, <1>6, <1>9, <1>10, <1>11 DEF Read
<1> QED  BY <1>1, <1>6, <1>7, <1>12, FollowedByOne

\* The log grows, and only the worker that waits for it goes on.
LEMMA FollowedAsLogGrows ==
  ASSUME Plain, Plain', Followed, UNCHANGED <<received, heads, cursor, through, ckpt, archive>>,
         Len(log) =< Len(log'), \A s \in DOMAIN log : s \in DOMAIN log' /\ log'[s] = log[s],
         pc' = pc \/ \E d \in Device : pc' = [pc EXCEPT ![d] = "accepted"]
  PROVE  Followed'
<1>1. ckpt.seq \in Nat /\ Len(log) \in Nat /\ Len(log') \in Nat
  BY DEF Plain, Services, Checkpoint
<1>2. ckpt'.seq =< Len(log')
  BY <1>1 DEF Followed
<1>3. ASSUME NEW e \in Device, pc'[e] \in {"fetched", "exported"}
      PROVE  archive'[e].seq =< Len(log')
  <2>1. pc[e] \in {"fetched", "exported"}
    BY <1>3 DEF Plain, Workers
  <2>2. archive[e].seq \in Nat /\ archive[e].seq =< Len(log)
    BY <2>1 DEF Plain, Workers, Checkpoint, Followed
  <2> QED  BY <1>1, <2>2
<1> QED  BY <1>2, <1>3, FollowedByFrame

\* The queue's steps, a rebuild, and the steps that read nothing.
LEMMA FollowedByWorker ==
  ASSUME Plain, Plain', ClaimHolds, Followed, NEW d \in Device, Cycle(d) \/ Trouble(d)
  PROVE  Followed'
<1>0. /\ Len(log) \in Nat /\ DOMAIN log = 1 .. Len(log) /\ cursor[d] \in Nat
      /\ cursor[d] =< Len(log)
  BY DEF Plain, Services, Shown, Followed, Read
<1>1. CASE \/ StartRebuild(d) \/ RefuseRebuild(d) \/ EndPush(d) \/ PullTruncated(d)
           \/ PullDrained(d) \/ SkipPublication(d) \/ EndCycle(d) \/ StorageFailure(d) \/ Crash(d)
           \/ (\E a \in Asset : LoseAsset(d, a)) \/ BeginPush(d)
           \/ (\E k \in 1 .. Len(outbox[d]) : Claim(d, k))
           \/ ParkMissing(d) \/ ReleaseMissing(d) \/ PushRefused(d)
           \/ \E step \in {"pull", "idle"} : PushFails(d, step) \/ PushTimesOut(d, step)
  <2>1. UNCHANGED <<received, heads, cursor, through, log, ckpt>>
    BY <1>1
    DEF StartRebuild, RefuseRebuild, EndPush, PullTruncated, PullDrained, SkipPublication,
        EndCycle, StorageFailure, Crash, LoseAsset, BeginPush, Claim, ParkMissing, ReleaseMissing,
        PushRefused, PushFails, PushTimesOut, Park, Release, durable, canonical, service
  <2>2. \/ UNCHANGED <<pc, archive>>
        \/ \E step \in Step \ {"fetched", "exported"} : pc' = [pc EXCEPT ![d] = step]
    BY <1>1
    DEF StartRebuild, RefuseRebuild, EndPush, PullTruncated, PullDrained, SkipPublication,
        EndCycle, StorageFailure, Crash, LoseAsset, BeginPush, Claim, ParkMissing, ReleaseMissing,
        PushRefused, PushFails, PushTimesOut, Park, Release, worker, Step
  <2>3. archive' = archive \/ archive' = [archive EXCEPT ![d] = NoArchive]
    BY <1>1
    DEF StartRebuild, RefuseRebuild, EndPush, PullTruncated, PullDrained, SkipPublication,
        EndCycle, StorageFailure, Crash, LoseAsset, BeginPush, Claim, ParkMissing, ReleaseMissing,
        PushRefused, PushFails, PushTimesOut, Park, Release, worker
  <2>4. ASSUME NEW e \in Device, pc'[e] \in {"fetched", "exported"}
        PROVE  archive'[e].seq =< Len(log')
    <3>1. pc'[e] = pc[e] /\ archive'[e] = archive[e]
      BY <2>2, <2>3, <2>4 DEF Plain, Workers
    <3> QED  BY <2>1, <2>4, <3>1 DEF Followed
  <2> QED  BY <1>0, <2>1, <2>4, FollowedByFrame DEF Followed
<1>2. CASE FetchCheckpoint(d) \/ ExportArchive(d) \/ PublishCheckpoint(d)
  <2>1. /\ UNCHANGED <<received, heads, cursor, through, log>>
        /\ \A e \in Device : e # d => pc'[e] = pc[e] /\ archive'[e] = archive[e]
    BY <1>2 DEF FetchCheckpoint, ExportArchive, PublishCheckpoint, durable, service, Plain, Workers
  <2>2. ckpt'.seq =< Len(log')
    BY <1>2, <2>1 DEF FetchCheckpoint, ExportArchive, PublishCheckpoint, service, Followed
  <2>3. pc'[d] \in {"fetched", "exported"} => archive'[d].seq =< Len(log')
    BY <1>0, <1>2, <2>1
    DEF FetchCheckpoint, ExportArchive, PublishCheckpoint, Followed, Plain, Workers
  <2>4. ASSUME NEW e \in Device, pc'[e] \in {"fetched", "exported"}
        PROVE  archive'[e].seq =< Len(log')
    BY <2>1, <2>3, <2>4 DEF Followed
  <2> QED  BY <1>0, <2>1, <2>2, <2>4, FollowedByFrame
<1>3. CASE Rebuild(d)
  <2>1. /\ received' = [received EXCEPT ![d] = {}]
        /\ heads' = [heads EXCEPT ![d] = [n \in Note |-> 0]]
        /\ cursor' = [cursor EXCEPT ![d] = archive[d].seq]
        /\ through' = [through EXCEPT ![d] = archive[d].seq]
        /\ archive' = [archive EXCEPT ![d] = NoArchive]
        /\ pc' = [pc EXCEPT ![d] = "rebuilt"] /\ pc[d] = "fetched"
        /\ UNCHANGED <<log, ckpt>>
    BY <1>3 DEF Rebuild, service
  <2>2. archive[d].seq =< Len(log) /\ archive[d].seq \in Nat
    BY <2>1 DEF Followed, Plain, Workers, Checkpoint
  <2>3. /\ received'[d] = {} /\ cursor'[d] = archive[d].seq /\ through'[d] = archive[d].seq
        /\ pc'[d] = "rebuilt"
        /\ \A e \in Device : e # d => /\ received'[e] = received[e] /\ cursor'[e] = cursor[e]
                                      /\ through'[e] = through[e] /\ pc'[e] = pc[e]
                                      /\ archive'[e] = archive[e]
        /\ received' \in [Device -> SUBSET Nat]
    BY <2>1 DEF Plain, Shown, Workers, Followed
  <2>4. heads' \in [Device -> [Note -> Nat]]
    BY <2>1 DEF Followed
  <2>5. Read(d)'
    BY <2>1, <2>2, <2>3 DEF Read
  <2> QED  BY <2>1, <2>3, <2>4, <2>5, FollowedByOne
<1>4. CASE Push(d)
  <2>1. /\ UNCHANGED <<received, heads, cursor, through, ckpt, archive>>
        /\ pc' = [pc EXCEPT ![d] = "accepted"]
        /\ \E known \in 0 .. claimed[d] : Accept(d, Batch(d), known)
    BY <1>4 DEF Push, durable
  <2>2. /\ \A s \in DOMAIN log : s \in DOMAIN log' /\ log'[s] = log[s]
        /\ Len(log) =< Len(log')
    <3>1. PICK known \in 0 .. claimed[d] : Accept(d, Batch(d), known)
      BY <2>1
    <3>2. Len(Batch(d)) \in Nat /\ known \in 0 .. Len(Batch(d)) /\ Batch(d) \in Seq(Row)
      BY BatchRows
    <3>3. /\ Len(log') = Len(log) + Len(Batch(d)) - known
          /\ \A s \in DOMAIN log : s \in DOMAIN log' /\ log'[s] = log[s]
      BY <3>1, <3>2, Accepted DEF Plain, Services
    <3> QED  BY <1>0, <3>2, <3>3
  <2> QED  BY <1>0, <2>1, <2>2, FollowedAsLogGrows
<1> QED
  BY <1>1, <1>2, <1>3, <1>4, FollowedByPull, FollowedByAcknowledge DEF Cycle, Trouble

\* What was read is followed, in every state the devices can reach.
LEMMA FollowedHolds == Spec => []Followed
<1>1. Init => Followed
  <2> SUFFICES ASSUME Init
               PROVE  Followed
    OBVIOUS
  <2>1. /\ received \in [Device -> SUBSET Nat] /\ heads \in [Device -> [Note -> Nat]]
        /\ ckpt.seq = 0 /\ log = << >>
    BY DEF Init, StartCheckpoint
  <2>2. \A d \in Device : pc[d] = "idle" /\ received[d] = {} /\ cursor[d] = 0
    BY DEF Init
  <2>3. Len(<< >>) = 0 /\ 1 .. 0 = {}
    OBVIOUS
  <2>4. \A d \in Device : Read(d)
    BY <2>1, <2>2, <2>3 DEF Read
  <2> QED  BY <2>1, <2>2, <2>3, <2>4 DEF Followed
<1>2. Plain /\ Plain' /\ Placed /\ Followed /\ [Next]_vars => Followed'
  <2> SUFFICES ASSUME Plain, Plain', Placed, Followed, [Next]_vars
               PROVE  Followed'
    OBVIOUS
  <2>0. ClaimHolds /\ Len(log) \in Nat
    BY DEF Placed, Plain, Services
  <2>1. ASSUME UNCHANGED <<received, heads, cursor, through, ckpt, archive, log, pc>>
        PROVE  Followed'
    BY <2>0, <2>1, FollowedByFrame DEF Followed
  <2>2. CASE UNCHANGED vars
    BY <2>1, <2>2 DEF vars, durable, worker, service
  <2>3. ASSUME NEW f \in 1 .. ckpt.seq, Compact(f)
        PROVE  Followed'
    BY <2>1, <2>3 DEF Compact, durable, worker
  <2>4. ASSUME NEW d \in Device, User(d)
        PROVE  Followed'
    <3>1. UNCHANGED <<received, heads, cursor, through, ckpt, archive, log, pc>>
      BY <2>4
      DEF User, SaveDocument, SaveIntoTail, SaveOversized, AttachImage, RetryBlocked,
          DiscardBlocked, RestoreAsset, canonical, service, worker
    <3> QED  BY <2>1, <3>1
  <2>5. ASSUME NEW r \in stray, StrayArrives(r)
        PROVE  Followed'
    <3>1. UNCHANGED <<received, heads, cursor, through, ckpt, archive, pc>>
      BY <2>5 DEF StrayArrives, durable, worker
    <3>2. CASE UNCHANGED log
      BY <2>1, <3>1, <3>2
    <3>3. ASSUME NEW known \in 0 .. Len(r.rows), Accept(r.dev, r.rows, known)
          PROVE  Followed'
      <4>1. r.dev \in Device /\ r.rows \in Seq(Row)
        BY DEF Plain, Services
      <4>2. /\ Len(log') = Len(log) + Len(r.rows) - known
            /\ \A s \in DOMAIN log : s \in DOMAIN log' /\ log'[s] = log[s]
        BY <3>3, <4>1, Accepted DEF Plain, Services
      <4>3. Len(log) =< Len(log')
        <5>1. Len(r.rows) \in Nat
          BY <4>1
        <5> QED  BY <2>0, <4>2, <5>1
      <4> QED  BY <3>1, <4>2, <4>3, FollowedAsLogGrows
    <3> QED  BY <2>5, <3>2, <3>3 DEF StrayArrives
  <2> QED  BY <2>0, <2>2, <2>3, <2>4, <2>5, FollowedByWorker DEF Next
<1> QED  BY <1>1, <1>2, PlainHolds, PlacedHolds, PTL DEF Spec

\* Under the user's edits, lost answers, late requests and crashes the claim of a
\* worker, the log of the service and the cursor of a device agree on every row
\* (sync.rs, cycle.rs, workspace-sync-object.ts).
THEOREM QueueLogCursorAgreeHolds == Spec => []QueueLogCursorAgree
<1>1. Placed /\ Followed => QueueLogCursorAgree
  BY DEF Placed, Followed, Read, CursorCovers, QueueLogCursorAgree
<1> QED  BY <1>1, PlacedHolds, FollowedHolds, PTL

\* Every record of the devices, the workers and the service keeps its type.
THEOREM TypeCorrect == Spec => []TypeOK
<1>1. Plain /\ Followed => TypeOK
  <2> SUFFICES ASSUME Plain, Followed
               PROVE  TypeOK
    OBVIOUS
  <2>1. blocked \in [Device -> SUBSET Parked]
    BY DEF Plain, Queues, Held
  <2> QED  BY <2>1 DEF Plain, Queues, Shown, Workers, Services, Followed, TypeOK
<1> QED  BY <1>1, PlainHolds, FollowedHolds, PTL

-----------------------------------------------------------------------------
(* The queue of a device and what the service has of it                      *)

\* The entry at sequence s is the one of this row.
Holds(d, s, row) == log[s].dev = d /\ log[s].id = row.id

\* The service has the operation, or may yet receive it.
Sent(d, id) ==
  \/ \E s \in DOMAIN log : log[s].dev = d /\ log[s].id = id
  \/ \E r \in stray : r.dev = d /\ id \in IdsIn(r.rows)

\* The rows of a queue are numbered without a gap up to the next number.
Numbered(d) ==
  \A i \in DOMAIN outbox[d] : outbox[d][i].cseq = nextSeq[d] - Len(outbox[d]) + i - 1

\* The first k rows are those the service has, and the next one is the one it expects.
KnownTo(d, k) ==
  /\ k \in 0 .. Len(outbox[d])
  /\ nextSeq[d] = DeviceHead(d) + 1 + Len(outbox[d]) - k
  /\ \A i \in DOMAIN outbox[d] : Known(d, outbox[d][i]) <=> i =< k

\* The service recorded the rows it has as they are queued.
Recorded(d) ==
  \A i \in DOMAIN outbox[d], s \in DOMAIN log :
    Holds(d, s, outbox[d][i]) => log[s] = EntryOf(d, outbox[d][i])

\* It has them in the order of the queue, above all the device has read.
InOrder(d) ==
  \A i \in DOMAIN outbox[d], s \in DOMAIN log :
    Holds(d, s, outbox[d][i]) =>
      /\ s > cursor[d]
      /\ \A t \in received[d] : t < s
      /\ \A j \in DOMAIN outbox[d], t \in DOMAIN log :
           j < i /\ Holds(d, t, outbox[d][j]) => t < s

\* Rows are claimed from the head, a batch at most; a row that was not claimed
\* was not sent, nor was any row when those claimed now are claimed for the
\* first time.
Attempted(d) ==
  /\ claimed[d] =< BatchLimit
  /\ \A i \in DOMAIN outbox[d] :
       /\ outbox[d][i].attempts > 0 =>
            (BatchLimit = 1 => i = 1) /\ \A j \in DOMAIN outbox[d] : j < i => outbox[d][j].attempts > 0
       /\ Sent(d, outbox[d][i].id) => outbox[d][i].attempts > 0
       /\ pc[d] = "claimed" /\ ~TriedBefore(d) => ~Sent(d, outbox[d][i].id)

QueueSound(d) ==
  Numbered(d) /\ (\E k \in Nat : KnownTo(d, k)) /\ Recorded(d) /\ InOrder(d) /\ Attempted(d)

\* A row of a request on its way is recorded as it was sent, or still queued as
\* it was sent, or will be refused.
Queued(d, row) ==
  \E i \in DOMAIN outbox[d] :
    outbox[d][i].id = row.id /\ outbox[d][i].cseq = row.cseq /\ outbox[d][i].op = row.op
Carried(d, row) ==
  \/ Known(d, row) /\ \A s \in DOMAIN log : Holds(d, s, row) => log[s] = EntryOf(d, row)
  \/ Queued(d, row)
  \/ row.op.body \in Refused
StraysSound == \A r \in stray : \A x \in DOMAIN r.rows : Carried(r.dev, r.rows[x])

\* The queues, the log and the requests on their way fit together.
Aligned == (\A d \in Device : QueueSound(d)) /\ StraysSound

\* What was never made was never sent.
LEMMA FreshUnsent ==
  ASSUME Plain, Placed, NEW d \in Device, NEW id \in Nat, id > made[d]
  PROVE  ~Sent(d, id)
<1>1. made[d] \in Nat
  BY DEF Plain, Queues
<1>2. \A s \in DOMAIN log : log[s].dev = d => log[s].id \in 1 .. made[d]
  BY DEF Placed, NothingLost, IdsInLog
<1>3. \A r \in stray : r.dev = d => IdsIn(r.rows) \subseteq 1 .. made[d]
  BY DEF Placed, Distinct
<1>4. id \notin 1 .. made[d]
  BY <1>1
<1> QED  BY <1>2, <1>3, <1>4 DEF Sent

\* An operation the service has is at one sequence.
LEMMA OneSequence ==
  ASSUME AcceptedOnce, NEW d, NEW row, Known(d, row)
  PROVE  /\ SequenceOf(d, row) \in DOMAIN log /\ Holds(d, SequenceOf(d, row), row)
         /\ \A s \in DOMAIN log : Holds(d, s, row) => s = SequenceOf(d, row)
<1>1. SequenceOf(d, row) \in DOMAIN log /\ Holds(d, SequenceOf(d, row), row)
  BY DEF Known, SequenceOf, Holds
<1> QED  BY <1>1 DEF AcceptedOnce, Holds

\* As a batch is accepted its device's part of the log grows by the new rows,
\* and no other device's.
LEMMA HeadGrows ==
  ASSUME Plain, NEW d \in Device, NEW rows \in Seq(Row), NEW known \in 0 .. Len(rows),
         Accept(d, rows, known)
  PROVE  /\ \A e \in Device : DeviceHead(e) \in Nat
         /\ DeviceHead(d)' = DeviceHead(d) + Len(rows) - known
         /\ \A e \in Device : e # d => DeviceHead(e)' = DeviceHead(e)
         /\ \A s \in DOMAIN log' : s \notin DOMAIN log => log'[s].dev = d
<1> DEFINE n == Len(log)
           m == Len(rows) - known
           Of(e) == {s \in DOMAIN log : log[s].dev = e}
<1>1. /\ n \in Nat /\ DOMAIN log = 1 .. n /\ m \in Nat /\ Len(rows) \in Nat /\ known \in Nat
      /\ log \in Seq(Entry)
  BY DEF Plain, Services
<1>2. /\ DOMAIN log' = 1 .. n + m
      /\ \A s \in DOMAIN log : s \in DOMAIN log' /\ log'[s] = log[s]
      /\ \A i \in known + 1 .. Len(rows) : log'[n + i - known] = EntryOf(d, rows[i])
      /\ \A s \in DOMAIN log' : s \in DOMAIN log \/ \E i \in known + 1 .. Len(rows) : s = n + i - known
  <2>1. log' \in Seq(Entry) /\ Len(log') = Len(log) + Len(rows) - known
    BY <1>1, Accepted
  <2>2. Len(log) + Len(rows) - known = n + m
    BY <1>1
  <2>3. DOMAIN log' = 1 .. n + m
    BY <2>1, <2>2
  <2>4. /\ \A s \in DOMAIN log : s \in DOMAIN log' /\ log'[s] = log[s]
        /\ \A i \in known + 1 .. Len(rows) : log'[Len(log) + i - known] = EntryOf(d, rows[i])
        /\ \A s \in DOMAIN log' :
             s \in DOMAIN log \/ \E i \in known + 1 .. Len(rows) : s = Len(log) + i - known
    BY <1>1, Accepted
  <2> QED  BY <2>3, <2>4
<1>m. m = Len(rows) - known /\ n = Len(log)
  OBVIOUS
<1> HIDE DEF n, m
<1>3. \A s \in DOMAIN log' : s \notin DOMAIN log => log'[s].dev = d
  <2>1. \A i \in known + 1 .. Len(rows) : EntryOf(d, rows[i]).dev = d
    BY DEF EntryOf
  <2> QED  BY <1>2, <2>1
<1>4. \A e \in Device : IsFiniteSet(Of(e)) /\ Cardinality(Of(e)) \in Nat
  <2>1. IsFiniteSet(1 .. n)
    BY <1>1, FS_Interval
  <2> SUFFICES ASSUME NEW e \in Device
               PROVE  IsFiniteSet(Of(e)) /\ Cardinality(Of(e)) \in Nat
    OBVIOUS
  <2>2. Of(e) \in SUBSET (1 .. n)
    BY <1>1
  <2>3. IsFiniteSet(Of(e))
    BY <2>1, <2>2, FS_Subset
  <2> QED  BY <2>3, FS_CardinalityType
<1>5. \A e \in Device : e # d => {s \in DOMAIN log' : log'[s].dev = e} = Of(e)
  BY <1>2, <1>3
<1>6. {s \in DOMAIN log' : log'[s].dev = d} = Of(d) \cup (n + 1 .. n + m)
  <2>1. \A s \in n + 1 .. n + m : s \in DOMAIN log' /\ s \notin DOMAIN log
    BY <1>1, <1>2
  <2>2. \A s \in DOMAIN log' : s \notin DOMAIN log => s \in n + 1 .. n + m
    BY <1>1, <1>2
  <2> QED  BY <1>2, <1>3, <2>1, <2>2
<1>7. Cardinality(Of(d) \cup (n + 1 .. n + m)) = Cardinality(Of(d)) + m
  <2>1. IsFiniteSet(n + 1 .. n + m) /\ Cardinality(n + 1 .. n + m) = m
    <3>1. n + 1 \in Int /\ n + m \in Int
      BY <1>1
    <3>2. Cardinality(n + 1 .. n + m) = IF n + 1 > n + m THEN 0 ELSE (n + m) - (n + 1) + 1
      BY <3>1, FS_Interval
    <3>3. (IF n + 1 > n + m THEN 0 ELSE (n + m) - (n + 1) + 1) = m
      BY <1>1
    <3> QED  BY <3>1, <3>2, <3>3, FS_Interval
  <2>2. Of(d) \cap (n + 1 .. n + m) = {}
    BY <1>1
  <2>3. Cardinality({}) = 0
    BY FS_EmptySet
  <2>4. Cardinality(Of(d) \cup (n + 1 .. n + m))
          = Cardinality(Of(d)) + Cardinality(n + 1 .. n + m) - Cardinality(Of(d) \cap (n + 1 .. n + m))
    BY <1>4, <2>1, FS_Union
  <2>5. Cardinality(Of(d)) \in Nat
    BY <1>4
  <2>6. Cardinality(Of(d) \cap (n + 1 .. n + m)) = 0
    BY <2>2, <2>3
  <2> DEFINE a == Cardinality(Of(d))
             b == Cardinality(n + 1 .. n + m)
             c == Cardinality(Of(d) \cap (n + 1 .. n + m))
             u == Cardinality(Of(d) \cup (n + 1 .. n + m))
  <2> SUFFICES u = a + m
    OBVIOUS
  <2>7. u = a + b - c /\ b = m /\ c = 0 /\ a \in Nat
    BY <2>1, <2>4, <2>5, <2>6
  <2> HIDE DEF a, b, c, u
  <2> QED  BY <1>1, <2>7
<1>8. \A e \in Device : DeviceHead(e) = Cardinality(Of(e))
  BY DEF DeviceHead
<1>9. \A e \in Device : DeviceHead(e)' = Cardinality({s \in DOMAIN log' : log'[s].dev = e})
  BY DEF DeviceHead
<1> HIDE DEF Of
<1>10. DeviceHead(d)' = DeviceHead(d) + m
  BY <1>6, <1>7, <1>8, <1>9
<1>11. DeviceHead(d) + m = DeviceHead(d) + Len(rows) - known
  BY <1>1, <1>4, <1>8, <1>m
<1> QED  BY <1>3, <1>4, <1>5, <1>8, <1>9, <1>10, <1>11

\* The log as it grew by rows k + 1 .. k + m of the queue of d.
GrewBy(d, k, m) ==
  /\ m \in Nat /\ k + m =< Len(outbox[d])
  /\ DOMAIN log' = 1 .. Len(log) + m
  /\ \A s \in DOMAIN log : s \in DOMAIN log' /\ log'[s] = log[s]
  /\ \A i \in k + 1 .. k + m : log'[Len(log) + i - k] = EntryOf(d, outbox[d][i])
  /\ DeviceHead(d)' = DeviceHead(d) + m

\* What the service accepts continues its part of the queue: the numbers of the
\* new rows leave no other place for them.
LEMMA AcceptedInOrder ==
  ASSUME Plain, NEW d \in Device, NEW rows \in Seq(Row), NEW known \in 0 .. Len(rows),
         Admits(d, rows, known), Accept(d, rows, known),
         \A x \in known + 1 .. Len(rows) : Queued(d, rows[x]),
         NEW k \in Nat, KnownTo(d, k), Numbered(d)
  PROVE  GrewBy(d, k, Len(rows) - known)
<1> DEFINE m == Len(rows) - known
           n == Len(outbox[d])
           h == DeviceHead(d)
<1>1. /\ Len(log) \in Nat /\ DOMAIN log = 1 .. Len(log) /\ m \in Nat /\ Len(rows) \in Nat
      /\ known \in Nat /\ n \in Nat /\ DOMAIN outbox[d] = 1 .. n /\ h \in Nat
      /\ m = Len(rows) - known /\ nextSeq[d] \in Nat /\ log \in Seq(Entry)
  <2>1. outbox[d] \in Seq(Row) /\ nextSeq[d] \in Nat /\ log \in Seq(Entry)
    BY DEF Plain, Services, Queues
  <2>2. h \in Nat
    BY HeadGrows
  <2> QED  BY <2>1, <2>2
<1>2. /\ \A s \in DOMAIN log : s \in DOMAIN log' /\ log'[s] = log[s]
      /\ \A x \in known + 1 .. Len(rows) : log'[Len(log) + x - known] = EntryOf(d, rows[x])
      /\ log' \in Seq(Entry) /\ Len(log') = Len(log) + Len(rows) - known
  BY <1>1, Accepted
<1>3. DeviceHead(d)' = h + m
  <2>1. DeviceHead(d)' = h + Len(rows) - known
    BY HeadGrows
  <2> HIDE DEF h
  <2> QED  BY <1>1, <2>1
<1>4. nextSeq[d] = h + 1 + n - k /\ k \in 0 .. n
  BY DEF KnownTo
<1>5. ASSUME NEW x \in known + 1 .. Len(rows)
      PROVE  /\ k + x - known \in 1 .. n
             /\ EntryOf(d, rows[x]) = EntryOf(d, outbox[d][k + x - known])
  <2>1. PICK i \in DOMAIN outbox[d] : /\ outbox[d][i].id = rows[x].id
                                      /\ outbox[d][i].cseq = rows[x].cseq
                                      /\ outbox[d][i].op = rows[x].op
    BY DEF Queued
  <2>2. rows[x].cseq = h + x - known
    BY DEF Admits
  <2>3. outbox[d][i].cseq = nextSeq[d] - n + i - 1
    BY DEF Numbered
  <2> HIDE DEF h, n
  <2>4. x \in Nat /\ i \in Nat /\ i \in 1 .. n
    BY <1>1, <2>1
  <2>5. i = k + x - known
    BY <1>1, <1>4, <2>1, <2>2, <2>3, <2>4
  <2> QED  BY <2>1, <2>4, <2>5 DEF EntryOf
<1> HIDE DEF m, n, h
<1>6. k + m =< n
  <2>1. CASE m = 0
    BY <1>1, <1>4, <2>1
  <2>2. CASE m # 0
    <3>1. Len(rows) \in known + 1 .. Len(rows)
      BY <1>1, <2>2
    <3>2. k + Len(rows) - known \in 1 .. n
      BY <1>5, <3>1
    <3> QED  BY <1>1, <3>2
  <2> QED  BY <2>1, <2>2
<1>7. ASSUME NEW i \in k + 1 .. k + m
      PROVE  log'[Len(log) + i - k] = EntryOf(d, outbox[d][i])
  <2> DEFINE x == i - k + known
  <2>1. x \in known + 1 .. Len(rows) /\ Len(log) + x - known = Len(log) + i - k /\ k + x - known = i
    BY <1>1
  <2> HIDE DEF x
  <2>2. log'[Len(log) + x - known] = EntryOf(d, rows[x])
        /\ EntryOf(d, rows[x]) = EntryOf(d, outbox[d][k + x - known])
    BY <1>2, <1>5, <2>1
  <2> QED  BY <2>1, <2>2
<1>8. DOMAIN log' = 1 .. Len(log) + m
  <2>1. Len(log) + Len(rows) - known = Len(log) + m
    BY <1>1
  <2>2. DOMAIN log' = 1 .. Len(log')
    BY <1>2
  <2> QED  BY <1>2, <2>1, <2>2
<1> QED  BY <1>1, <1>2, <1>3, <1>6, <1>7, <1>8 DEF GrewBy, m, n, h

\* What the log holds of rows that stay in the queue as it grows.
LEMMA GrownHolds ==
  ASSUME Plain, NEW d \in Device, DistinctIds(outbox[d]), UNCHANGED outbox,
         NEW k \in Nat, NEW m \in Nat, KnownTo(d, k), GrewBy(d, k, m),
         NEW i \in DOMAIN outbox[d], NEW s \in DOMAIN log',
         log'[s].dev = d, log'[s].id = outbox[d][i].id
  PROVE  \/ s \in DOMAIN log /\ Holds(d, s, outbox[d][i]) /\ i =< k
         \/ /\ k < i /\ i =< k + m /\ s = Len(log) + i - k /\ s > Len(log)
            /\ log'[s] = EntryOf(d, outbox[d][i])
<1>1. /\ Len(log) \in Nat /\ DOMAIN log = 1 .. Len(log) /\ DOMAIN log' = 1 .. Len(log) + m
      /\ DOMAIN outbox[d] = 1 .. Len(outbox[d]) /\ Len(outbox[d]) \in Nat
      /\ k + m =< Len(outbox[d])
  <2>1. outbox[d] \in Seq(Row) /\ log \in Seq(Entry)
    BY DEF Plain, Services, Queues
  <2> QED  BY <2>1 DEF GrewBy
<1>2. CASE s \in DOMAIN log
  <2>1. Holds(d, s, outbox[d][i])
    BY <1>2 DEF GrewBy, Holds
  <2>2. Known(d, outbox[d][i])
    BY <1>2, <2>1 DEF Known, Holds
  <2> QED  BY <1>2, <2>1, <2>2 DEF KnownTo
<1>3. CASE s \notin DOMAIN log
  <2> DEFINE j == s - Len(log) + k
  <2>1. j \in k + 1 .. k + m /\ j \in 1 .. Len(outbox[d]) /\ s = Len(log) + j - k /\ s > Len(log)
        /\ k < j /\ j =< k + m
    BY <1>1, <1>3
  <2> HIDE DEF j
  <2>2. log'[s] = EntryOf(d, outbox[d][j])
    BY <2>1 DEF GrewBy
  <2>3. outbox[d][j].id = outbox[d][i].id
    BY <2>2 DEF EntryOf
  <2>4. j = i
    BY <1>1, <2>1, <2>3 DEF DistinctIds
  <2> QED  BY <2>1, <2>2, <2>4
<1> QED  BY <1>2, <1>3

\* The queue keeps its order as rows of it are accepted.
LEMMA SoundAsAccepted ==
  ASSUME Plain, Placed, Followed, NEW d \in Device, QueueSound(d),
         UNCHANGED <<outbox, nextSeq, cursor, received>>,
         NEW k \in Nat, NEW m \in Nat, KnownTo(d, k), GrewBy(d, k, m)
  PROVE  Numbered(d)' /\ KnownTo(d, k + m)' /\ Recorded(d)' /\ InOrder(d)'
<1>1. /\ Len(log) \in Nat /\ DOMAIN log = 1 .. Len(log) /\ DOMAIN log' = 1 .. Len(log) + m
      /\ DOMAIN outbox[d] = 1 .. Len(outbox[d]) /\ Len(outbox[d]) \in Nat
      /\ k + m =< Len(outbox[d]) /\ DistinctIds(outbox[d])
      /\ cursor[d] \in Nat /\ cursor[d] =< Len(log) /\ received[d] \subseteq 1 .. Len(log)
  <2>1. outbox[d] \in Seq(Row) /\ log \in Seq(Entry) /\ DistinctIds(outbox[d])
    BY DEF Plain, Services, Queues, Placed, Distinct
  <2> QED  BY <2>1 DEF GrewBy, Plain, Shown, Followed, Read
<1>2. Numbered(d)'
  BY DEF Numbered, QueueSound
<1>3. ASSUME NEW i \in DOMAIN outbox[d], NEW s \in DOMAIN log',
             log'[s].dev = d, log'[s].id = outbox[d][i].id
      PROVE  \/ s \in DOMAIN log /\ Holds(d, s, outbox[d][i]) /\ i =< k
             \/ /\ k < i /\ i =< k + m /\ s = Len(log) + i - k /\ s > Len(log)
                /\ log'[s] = EntryOf(d, outbox[d][i])
  BY <1>1, <1>3, GrownHolds
<1>4. Recorded(d)'
  <2> SUFFICES ASSUME NEW i \in DOMAIN outbox[d], NEW s \in DOMAIN log',
                      log'[s].dev = d, log'[s].id = outbox[d][i].id
               PROVE  log'[s] = EntryOf(d, outbox[d][i])
    BY DEF Recorded, Holds
  <2>1. CASE s \in DOMAIN log /\ Holds(d, s, outbox[d][i])
    BY <2>1 DEF QueueSound, Recorded, GrewBy
  <2> QED  BY <1>3, <2>1
<1>5. KnownTo(d, k + m)'
  <2>1. ASSUME NEW i \in DOMAIN outbox[d]
        PROVE  (\E s \in DOMAIN log' : log'[s].dev = d /\ log'[s].id = outbox[d][i].id) <=> i =< k + m
    <3>1. CASE i =< k
      <4>1. PICK s \in DOMAIN log : log[s].dev = d /\ log[s].id = outbox[d][i].id
        BY <3>1 DEF KnownTo, Known
      <4> QED  BY <1>1, <3>1, <4>1 DEF GrewBy
    <3>2. CASE k < i /\ i =< k + m
      <4> DEFINE s == Len(log) + i - k
      <4>1. s \in 1 .. Len(log) + m /\ i \in k + 1 .. k + m
        BY <1>1, <3>2
      <4>2. log'[s] = EntryOf(d, outbox[d][i])
        BY <4>1 DEF GrewBy
      <4> HIDE DEF s
      <4> QED  BY <1>1, <3>2, <4>1, <4>2 DEF EntryOf
    <3>3. CASE i > k + m
      <4>1. ~(i =< k + m) /\ ~(i =< k)
        BY <1>1, <3>3
      <4> QED  BY <1>3, <4>1
    <3> QED  BY <1>1, <3>1, <3>2, <3>3
  <2>2. k + m \in 0 .. Len(outbox[d])
    BY <1>1
  <2>3. nextSeq[d] = DeviceHead(d)' + 1 + Len(outbox[d]) - (k + m)
    <3>1. DeviceHead(d)' = DeviceHead(d) + m /\ nextSeq[d] = DeviceHead(d) + 1 + Len(outbox[d]) - k
      BY DEF GrewBy, KnownTo
    <3>2. nextSeq[d] \in Nat
      BY DEF Plain, Queues
    <3>3. DeviceHead(d) \in Nat
      <4>1. IsFiniteSet(1 .. Len(log)) /\ {s \in DOMAIN log : log[s].dev = d} \in SUBSET (1 .. Len(log))
        BY <1>1, FS_Interval
      <4>2. IsFiniteSet({s \in DOMAIN log : log[s].dev = d})
        BY <4>1, FS_Subset
      <4> QED  BY <4>2, FS_CardinalityType DEF DeviceHead
    <3> DEFINE h == DeviceHead(d)
               g == DeviceHead(d)'
    <3>4. g = h + m /\ nextSeq[d] = h + 1 + Len(outbox[d]) - k /\ h \in Nat
      BY <3>1, <3>3
    <3> SUFFICES nextSeq[d] = g + 1 + Len(outbox[d]) - (k + m)
      OBVIOUS
    <3> DEFINE q == Len(outbox[d])
               x == nextSeq[d]
    <3>5. q \in Nat /\ x = h + 1 + q - k /\ g = h + m /\ h \in Nat
      BY <1>1, <3>4
    <3> HIDE DEF h, g, q, x
    <3>6. x = g + 1 + q - (k + m)
      BY <3>5
    <3> QED  BY <3>6 DEF q, x
  <2> QED  BY <2>1, <2>2, <2>3 DEF KnownTo, Known
<1>6. InOrder(d)'
  <2> SUFFICES ASSUME NEW i \in DOMAIN outbox[d], NEW s \in DOMAIN log',
                      log'[s].dev = d, log'[s].id = outbox[d][i].id
               PROVE  /\ s > cursor[d]
                      /\ \A t \in received[d] : t < s
                      /\ \A j \in DOMAIN outbox[d], t \in DOMAIN log' :
                           j < i /\ log'[t].dev = d /\ log'[t].id = outbox[d][j].id => t < s
    BY DEF InOrder, Holds
  <2>1. CASE s \in DOMAIN log /\ Holds(d, s, outbox[d][i]) /\ i =< k
    <3>1. /\ s > cursor[d] /\ \A t \in received[d] : t < s
          /\ \A j \in DOMAIN outbox[d], t \in DOMAIN log :
               j < i /\ Holds(d, t, outbox[d][j]) => t < s
      BY <2>1 DEF QueueSound, InOrder
    <3>2. ASSUME NEW j \in DOMAIN outbox[d], NEW t \in DOMAIN log', j < i,
                 log'[t].dev = d, log'[t].id = outbox[d][j].id
          PROVE  t < s
      <4>1. ~(k < j)
        BY <1>1, <2>1, <3>2
      <4>2. t \in DOMAIN log /\ Holds(d, t, outbox[d][j])
        BY <1>3, <3>2, <4>1
      <4> QED  BY <3>1, <3>2, <4>2
    <3> QED  BY <3>1, <3>2
  <2>2. CASE k < i /\ s = Len(log) + i - k /\ s > Len(log)
    <3>1. s > cursor[d] /\ \A t \in received[d] : t < s
      BY <1>1, <2>2
    <3>2. ASSUME NEW j \in DOMAIN outbox[d], NEW t \in DOMAIN log', j < i,
                 log'[t].dev = d, log'[t].id = outbox[d][j].id
          PROVE  t < s
      <4>1. t \in DOMAIN log \/ t = Len(log) + j - k
        BY <1>3, <3>2
      <4>2. CASE t \in DOMAIN log
        <5>1. t =< Len(log) /\ t \in Nat /\ s \in Nat
          BY <1>1, <4>2
        <5> QED  BY <1>1, <2>2, <5>1
      <4>3. CASE t = Len(log) + j - k
        <5>1. j \in Nat /\ i \in Nat
          BY <1>1
        <5> QED  BY <1>1, <2>2, <3>2, <4>3, <5>1
      <4> QED  BY <4>1, <4>2, <4>3
    <3> QED  BY <3>1, <3>2
  <2> QED  BY <1>3, <2>1, <2>2
<1> QED  BY <1>2, <1>4, <1>5, <1>6

\* Nothing of the log is lost, and nothing new in it is of device e.
LogKept == \A s \in DOMAIN log : s \in DOMAIN log' /\ log'[s] = log[s]
NoneNewOf(e) ==
  /\ LogKept
  /\ \A s \in DOMAIN log' : s \notin DOMAIN log => log'[s].dev # e
  /\ DeviceHead(e)' = DeviceHead(e)

\* What the service has of an unchanged queue, while nothing of it is accepted.
LEMMA SoundByFrame ==
  ASSUME NEW e \in Device, QueueSound(e), NoneNewOf(e),
         outbox'[e] = outbox[e], nextSeq'[e] = nextSeq[e], cursor'[e] = cursor[e],
         received'[e] = received[e]
  PROVE  Numbered(e)' /\ (\E k \in Nat : KnownTo(e, k)') /\ Recorded(e)' /\ InOrder(e)'
<1>1. \A s \in DOMAIN log' : \A id : log'[s].dev = e /\ log'[s].id = id =>
         s \in DOMAIN log /\ log[s] = log'[s] /\ log[s].dev = e /\ log[s].id = id
  BY DEF NoneNewOf, LogKept
<1>2. Numbered(e)'
  BY DEF QueueSound, Numbered
<1>3. PICK k \in Nat : KnownTo(e, k)
  BY DEF QueueSound
<1>4. \A i \in DOMAIN outbox[e] :
        (\E s \in DOMAIN log' : log'[s].dev = e /\ log'[s].id = outbox[e][i].id)
          <=> (\E s \in DOMAIN log : log[s].dev = e /\ log[s].id = outbox[e][i].id)
  BY <1>1 DEF NoneNewOf, LogKept
<1>5. KnownTo(e, k)'
  BY <1>3, <1>4 DEF KnownTo, Known, NoneNewOf
<1>6. Recorded(e)'
  BY <1>1 DEF QueueSound, Recorded, Holds, EntryOf
<1>7. InOrder(e)'
  BY <1>1 DEF QueueSound, InOrder, Holds
<1> QED  BY <1>2, <1>5, <1>6, <1>7

\* A row may be sent while its device claims nothing, if it was claimed before.
LEMMA AttemptedByFrame ==
  ASSUME NEW e \in Device, Attempted(e), Plain, outbox'[e] = outbox[e],
         claimed'[e] = claimed[e] \/ (claimed'[e] = 0 /\ pc'[e] # "claimed"),
         pc'[e] = "claimed" => pc[e] = "claimed",
         \A i \in DOMAIN outbox[e] :
           Sent(e, outbox[e][i].id)' =>
             \/ Sent(e, outbox[e][i].id)
             \/ pc'[e] # "claimed" /\ outbox[e][i].attempts > 0
  PROVE  Attempted(e)'
<1>1. claimed'[e] =< BatchLimit
  BY BoundsAssumption DEF Attempted
<1>2. pc'[e] = "claimed" /\ ~TriedBefore(e)' => pc[e] = "claimed" /\ ~TriedBefore(e)
  BY DEF TriedBefore
<1>3. \A i \in DOMAIN outbox[e] :
        /\ Sent(e, outbox[e][i].id)' => outbox[e][i].attempts > 0
        /\ pc'[e] = "claimed" /\ ~TriedBefore(e)' => ~Sent(e, outbox[e][i].id)'
  BY <1>2 DEF Attempted
<1>4. \A i \in DOMAIN outbox'[e] : outbox'[e][i].attempts > 0 =>
        (BatchLimit = 1 => i = 1) /\ \A j \in DOMAIN outbox'[e] : j < i => outbox'[e][j].attempts > 0
  BY DEF Attempted
<1> QED  BY <1>1, <1>3, <1>4 DEF Attempted

\* A row of a request on its way stays accounted for as the log grows, if the
\* queue keeps it or the service has it.
LEMMA StraysKept ==
  ASSUME AcceptedOnce', StraysSound, LogKept,
         \A r \in stray' : r \in stray \/ \A x \in DOMAIN r.rows : Carried(r.dev, r.rows[x])',
         \A r \in stray : \A x \in DOMAIN r.rows :
           Queued(r.dev, r.rows[x]) => Carried(r.dev, r.rows[x])'
  PROVE  StraysSound'
<1> SUFFICES ASSUME NEW r \in stray', NEW x \in DOMAIN r.rows
             PROVE  Carried(r.dev, r.rows[x])'
  BY DEF StraysSound
<1>1. CASE r \in stray
  <2> DEFINE d == r.dev
             row == r.rows[x]
  <2>1. Carried(d, row)
    BY <1>1 DEF StraysSound
  <2>2. CASE Known(d, row) /\ \A s \in DOMAIN log : Holds(d, s, row) => log[s] = EntryOf(d, row)
    <3>1. PICK s \in DOMAIN log : log[s].dev = d /\ log[s].id = row.id
      BY <2>2 DEF Known
    <3>2. s \in DOMAIN log' /\ log'[s] = log[s] /\ log[s] = EntryOf(d, row)
      BY <2>2, <3>1 DEF Holds, LogKept
    <3>3. \A t \in DOMAIN log' : log'[t].dev = d /\ log'[t].id = row.id => t = s
      BY <3>1, <3>2 DEF AcceptedOnce
    <3> QED  BY <3>1, <3>2, <3>3 DEF Carried, Known, Holds, EntryOf
  <2>3. CASE Queued(d, row)
    BY <1>1, <2>3
  <2>4. CASE row.op.body \in Refused
    BY <2>4 DEF Carried
  <2> QED  BY <2>1, <2>2, <2>3, <2>4 DEF Carried
<1> QED  BY <1>1

\* Where no queue loses a row, the requests stay accounted for.
LEMMA StraysByFrame ==
  ASSUME AcceptedOnce', StraysSound, LogKept, stray' \subseteq stray, UNCHANGED outbox
  PROVE  StraysSound'
<1>1. \A r \in stray : \A x \in DOMAIN r.rows :
        Queued(r.dev, r.rows[x]) => Carried(r.dev, r.rows[x])'
  BY DEF Queued, Carried
<1> QED  BY <1>1, StraysKept

\* A batch that is accepted, from the worker's claim or from a late request.
LEMMA AlignedAsAccepted ==
  ASSUME Plain, Placed, AcceptedOnce', Followed, Aligned, NEW d \in Device, NEW rows \in Seq(Row),
         NEW known \in 0 .. Len(rows), Admits(d, rows, known), Accept(d, rows, known),
         \A x \in known + 1 .. Len(rows) : Queued(d, rows[x]),
         UNCHANGED <<outbox, nextSeq, cursor, received, claimed>>, stray' \subseteq stray,
         \A e \in Device : pc'[e] = "claimed" => pc[e] = "claimed",
         \A x \in known + 1 .. Len(rows), i \in DOMAIN outbox[d] :
           outbox[d][i].id = rows[x].id =>
             \/ Sent(d, rows[x].id)
             \/ pc'[d] # "claimed" /\ outbox[d][i].attempts > 0
  PROVE  Aligned'
<1>1. /\ LogKept
      /\ \A x \in known + 1 .. Len(rows) : log'[Len(log) + x - known] = EntryOf(d, rows[x])
      /\ \A s \in DOMAIN log' :
           s \in DOMAIN log \/ \E x \in known + 1 .. Len(rows) : s = Len(log) + x - known
  BY Accepted DEF Plain, Services, LogKept
<1>2. StraysSound'
  BY <1>1, StraysByFrame DEF Aligned
<1>3. ASSUME NEW e \in Device, e # d
      PROVE  QueueSound(e)'
  <2>1. NoneNewOf(e)
    BY <1>1, <1>3, HeadGrows DEF NoneNewOf
  <2>2. Numbered(e)' /\ (\E k \in Nat : KnownTo(e, k)') /\ Recorded(e)' /\ InOrder(e)'
    BY <2>1, SoundByFrame DEF Aligned
  <2>3. \A id : Sent(e, id)' => Sent(e, id)
    BY <2>1 DEF Sent, NoneNewOf, LogKept
  <2>4. Attempted(e)'
    BY <2>3, AttemptedByFrame DEF Aligned, QueueSound
  <2> QED  BY <2>2, <2>4 DEF QueueSound
<1>4. QueueSound(d)'
  <2>1. QueueSound(d)
    BY DEF Aligned
  <2>2. PICK k \in Nat : KnownTo(d, k)
    BY <2>1 DEF QueueSound
  <2> DEFINE m == Len(rows) - known
  <2>3. GrewBy(d, k, m)
    BY <2>1, <2>2, AcceptedInOrder DEF QueueSound
  <2>4. m \in Nat
    BY <2>3 DEF GrewBy
  <2> HIDE DEF m
  <2>5. Numbered(d)' /\ KnownTo(d, k + m)' /\ Recorded(d)' /\ InOrder(d)' /\ k + m \in Nat
    BY <2>1, <2>2, <2>3, <2>4, SoundAsAccepted
  <2>6. ASSUME NEW i \in DOMAIN outbox[d], Sent(d, outbox[d][i].id)'
        PROVE  \/ Sent(d, outbox[d][i].id)
               \/ pc'[d] # "claimed" /\ outbox[d][i].attempts > 0
    <3>1. CASE \E r \in stray' : r.dev = d /\ outbox[d][i].id \in IdsIn(r.rows)
      BY <3>1 DEF Sent
    <3>2. CASE \E s \in DOMAIN log' : log'[s].dev = d /\ log'[s].id = outbox[d][i].id
      <4>1. PICK s \in DOMAIN log' : log'[s].dev = d /\ log'[s].id = outbox[d][i].id
        BY <3>2
      <4>2. CASE s \in DOMAIN log
        BY <1>1, <4>1, <4>2 DEF Sent, LogKept
      <4>3. CASE s \notin DOMAIN log
        <5>1. PICK x \in known + 1 .. Len(rows) : log'[s] = EntryOf(d, rows[x])
          BY <1>1, <4>3
        <5>2. outbox[d][i].id = rows[x].id
          BY <4>1, <5>1 DEF EntryOf
        <5> QED  BY <5>2
      <4> QED  BY <4>2, <4>3
    <3> QED  BY <2>6, <3>1, <3>2 DEF Sent
  <2>7. Attempted(d)'
    BY <2>1, <2>6, AttemptedByFrame DEF QueueSound
  <2> QED  BY <2>5, <2>7 DEF QueueSound
<1> QED  BY <1>2, <1>3, <1>4 DEF Aligned

\* The worker's own batch.
LEMMA AlignedByPush ==
  ASSUME Plain, Placed, Placed', Followed, Aligned, NEW d \in Device, Push(d)
  PROVE  Aligned'
<1>1. PICK known \in 0 .. claimed[d] : Admits(d, Batch(d), known) /\ Accept(d, Batch(d), known)
  BY DEF Push
<1>2. /\ Batch(d) \in Seq(Row) /\ Len(Batch(d)) = claimed[d]
      /\ \A x \in 1 .. claimed[d] : x \in DOMAIN outbox[d] /\ Batch(d)[x] = outbox[d][x]
      /\ claimed[d] \in Nat /\ DistinctIds(outbox[d])
  BY BatchRows DEF Placed, Distinct
<1>3. \A x \in known + 1 .. Len(Batch(d)) : x \in 1 .. claimed[d]
  BY <1>2
<1>4. \A x \in known + 1 .. Len(Batch(d)) : Queued(d, Batch(d)[x])
  BY <1>2, <1>3 DEF Queued
<1>5. /\ pc' = [pc EXCEPT ![d] = "accepted"]
      /\ UNCHANGED <<outbox, nextSeq, cursor, received, claimed, stray>>
  BY DEF Push, durable
<1>6. pc'[d] # "claimed" /\ \A e \in Device : pc'[e] = "claimed" => pc[e] = "claimed"
  BY <1>5 DEF Plain, Workers
<1>7. ASSUME NEW x \in known + 1 .. Len(Batch(d)), NEW i \in DOMAIN outbox[d],
             outbox[d][i].id = Batch(d)[x].id
      PROVE  outbox[d][i].attempts > 0
  <2>1. i = x /\ x \in 1 .. claimed[d]
    BY <1>2, <1>3, <1>7 DEF DistinctIds
  <2> QED  BY <2>1 DEF Placed, ClaimHolds
<1> QED
  BY <1>1, <1>2, <1>4, <1>5, <1>6, <1>7, AlignedAsAccepted DEF Placed

\* A late request: what the service takes from it is still queued.
LEMMA AlignedByStray ==
  ASSUME Plain, Placed, Placed', Followed, Aligned, NEW r \in stray, StrayArrives(r)
  PROVE  Aligned'
<1>1. /\ r.dev \in Device /\ r.rows \in Seq(Row) /\ stray' \subseteq stray
      /\ UNCHANGED <<outbox, nextSeq, cursor, received, claimed, pc>>
  BY DEF Plain, Services, StrayArrives, durable, worker
<1>2. CASE UNCHANGED log
  <2>1. \A e \in Device : NoneNewOf(e)
    BY <1>2 DEF NoneNewOf, LogKept, DeviceHead
  <2>2. ASSUME NEW e \in Device
        PROVE  QueueSound(e)'
    <3>1. Numbered(e)' /\ (\E k \in Nat : KnownTo(e, k)') /\ Recorded(e)' /\ InOrder(e)'
      BY <1>1, <2>1, SoundByFrame DEF Aligned
    <3>2. \A id : Sent(e, id)' => Sent(e, id)
      BY <1>1, <1>2 DEF Sent
    <3>3. Attempted(e)'
      BY <1>1, <3>2, AttemptedByFrame DEF Aligned, QueueSound
    <3> QED  BY <3>1, <3>3 DEF QueueSound
  <2>3. StraysSound'
    BY <1>1, <1>2, StraysByFrame DEF Aligned, LogKept, Placed
  <2> QED  BY <2>2, <2>3 DEF Aligned
<1>3. ASSUME NEW known \in 0 .. Len(r.rows), Admits(r.dev, r.rows, known),
             Accept(r.dev, r.rows, known)
      PROVE  Aligned'
  <2>1. ASSUME NEW x \in known + 1 .. Len(r.rows)
        PROVE  x \in DOMAIN r.rows /\ Queued(r.dev, r.rows[x]) /\ Sent(r.dev, r.rows[x].id)
    <3>1. x \in DOMAIN r.rows
      <4>1. known \in Nat /\ Len(r.rows) \in Nat /\ DOMAIN r.rows = 1 .. Len(r.rows)
        BY <1>1
      <4> QED  BY <4>1
    <3>2. ~Known(r.dev, r.rows[x]) /\ r.rows[x].op.body \notin Refused
      BY <1>3 DEF Admits
    <3>3. Queued(r.dev, r.rows[x])
      BY <3>1, <3>2 DEF Aligned, StraysSound, Carried
    <3>4. Sent(r.dev, r.rows[x].id)
      BY <3>1 DEF Sent, IdsIn
    <3> QED  BY <3>1, <3>3, <3>4
  <2> QED  BY <1>1, <1>3, <2>1, AlignedAsAccepted DEF Placed
<1> QED  BY <1>2, <1>3 DEF StrayArrives

\* A step that changes the queue of one device, and neither the log nor the
\* requests on their way, is judged by that device.
LEMMA AlignedByOne ==
  ASSUME Plain, Plain', AcceptedOnce', Aligned, NEW d \in Device, UNCHANGED <<log, stray>>,
         \A e \in Device : e # d => /\ outbox'[e] = outbox[e] /\ nextSeq'[e] = nextSeq[e]
                                    /\ cursor'[e] = cursor[e] /\ received'[e] = received[e]
                                    /\ claimed'[e] = claimed[e] /\ pc'[e] = pc[e],
         QueueSound(d)',
         \A r \in stray : \A x \in DOMAIN r.rows :
           r.dev = d /\ Queued(d, r.rows[x]) => Carried(d, r.rows[x])'
  PROVE  Aligned'
<1>1. \A e \in Device : NoneNewOf(e)
  BY DEF NoneNewOf, LogKept, DeviceHead
<1>2. ASSUME NEW e \in Device, e # d
      PROVE  QueueSound(e)'
  <2>1. Numbered(e)' /\ (\E k \in Nat : KnownTo(e, k)') /\ Recorded(e)' /\ InOrder(e)'
    BY <1>1, <1>2, SoundByFrame DEF Aligned
  <2>2. \A id : Sent(e, id)' => Sent(e, id)
    BY DEF Sent
  <2>3. Attempted(e)'
    BY <1>2, <2>2, AttemptedByFrame DEF Aligned, QueueSound
  <2> QED  BY <2>1, <2>3 DEF QueueSound
<1>3. StraysSound'
  <2>1. ASSUME NEW r \in stray, NEW x \in DOMAIN r.rows, Queued(r.dev, r.rows[x])
        PROVE  Carried(r.dev, r.rows[x])'
    <3>1. CASE r.dev = d
      BY <2>1, <3>1
    <3>2. CASE r.dev # d
      <4>1. outbox'[r.dev] = outbox[r.dev]
        BY <3>2 DEF Plain, Services
      <4> QED  BY <2>1, <4>1 DEF Queued, Carried
    <3> QED  BY <3>1, <3>2
  <2> QED  BY <2>1, StraysKept DEF Aligned, LogKept
<1> QED  BY <1>2, <1>3 DEF Aligned

\* How far the service has a device's numbering is a number.
LEMMA HeadType ==
  ASSUME Plain, NEW d \in Device
  PROVE  DeviceHead(d) \in Nat
<1>1. IsFiniteSet(1 .. Len(log)) /\ {s \in DOMAIN log : log[s].dev = d} \in SUBSET (1 .. Len(log))
  <2>1. log \in Seq(Entry)
    BY DEF Plain, Services
  <2>2. DOMAIN log = 1 .. Len(log) /\ Len(log) \in Nat
    BY <2>1
  <2> QED  BY <2>2, FS_Interval
<1>2. IsFiniteSet({s \in DOMAIN log : log[s].dev = d})
  BY <1>1, FS_Subset
<1> QED  BY <1>2, FS_CardinalityType DEF DeviceHead

\* Rows that were never sent join the queue.
LEMMA SoundByMore ==
  ASSUME Plain, Placed, NEW d \in Device, QueueSound(d), NEW m \in Nat,
         NEW new \in Seq(Row), outbox'[d] = new, Len(new) = Len(outbox[d]) + m,
         \A i \in DOMAIN outbox[d] : new[i] = outbox[d][i],
         \A i \in 1 .. m : /\ new[Len(outbox[d]) + i].cseq = nextSeq[d] + i - 1
                           /\ new[Len(outbox[d]) + i].attempts = 0
                           /\ new[Len(outbox[d]) + i].id > made[d],
         nextSeq'[d] = nextSeq[d] + m, UNCHANGED <<log, stray>>, cursor'[d] = cursor[d],
         received'[d] = received[d], claimed'[d] = claimed[d],
         pc'[d] = "claimed" => pc[d] = "claimed"
  PROVE  QueueSound(d)' /\ \A row : Queued(d, row) => Queued(d, row)'
<1> DEFINE n == Len(outbox[d])
           next == nextSeq[d]
<1>1. /\ n \in Nat /\ DOMAIN outbox[d] = 1 .. n /\ DOMAIN new = 1 .. n + m /\ Len(new) = n + m
      /\ next \in Nat /\ nextSeq'[d] = next + m /\ claimed[d] \in 0 .. n
  <2>1. outbox[d] \in Seq(Row) /\ nextSeq[d] \in Nat /\ claimed[d] \in Nat /\ claimed[d] =< n
    BY DEF Plain, Queues, Claims
  <2> QED  BY <2>1
<1>2. \A i \in 1 .. n : new[i] = outbox[d][i]
  BY <1>1
<1>3. ASSUME NEW i \in DOMAIN new, i \notin DOMAIN outbox[d]
      PROVE  /\ new[i].cseq = next + (i - n) - 1 /\ new[i].attempts = 0 /\ i \in n + 1 .. n + m
             /\ ~Sent(d, new[i].id)
  <2> DEFINE j == i - n
  <2>1. j \in 1 .. m /\ i = n + j /\ i \in n + 1 .. n + m
    BY <1>1, <1>3
  <2>2. new[i].cseq = next + j - 1 /\ new[i].attempts = 0 /\ new[i].id > made[d]
    BY <2>1
  <2>n. new[i].id \in Nat
    <3>1. new[i] \in Row
      OBVIOUS
    <3> QED  BY <3>1 DEF Row
  <2>3. ~Sent(d, new[i].id)
    BY <2>2, <2>n, FreshUnsent
  <2> QED  BY <2>1, <2>2, <2>3
<1>4. \A id : Sent(d, id)' <=> Sent(d, id)
  BY DEF Sent
<1>5. \A row : Known(d, row)' <=> Known(d, row)
  BY DEF Known
<1>6. \A row : Known(d, row) => Sent(d, row.id)
  BY DEF Known, Sent
<1>7. \A row : \A s \in DOMAIN log : Holds(d, s, row) => Known(d, row) /\ Sent(d, row.id)
  BY DEF Known, Sent, Holds
<1>8. DeviceHead(d)' = DeviceHead(d)
  BY DEF DeviceHead
<1> HIDE DEF n, next
<1>9. Numbered(d)'
  <2> SUFFICES ASSUME NEW i \in DOMAIN new
               PROVE  new[i].cseq = (next + m) - (n + m) + i - 1
    BY <1>1 DEF Numbered
  <2>1. CASE i \in DOMAIN outbox[d]
    <3>1. outbox[d][i].cseq = next - n + i - 1
      BY <2>1 DEF QueueSound, Numbered, n, next
    <3>2. i \in Nat
      BY <1>1
    <3> QED  BY <1>1, <1>2, <2>1, <3>1, <3>2
  <2>2. CASE i \notin DOMAIN outbox[d]
    <3>1. i \in Nat /\ new[i].cseq = next + (i - n) - 1
      BY <1>1, <1>3, <2>2
    <3> QED  BY <1>1, <3>1
  <2> QED  BY <2>1, <2>2
<1>10. \E k \in Nat : KnownTo(d, k)'
  <2>1. PICK k \in Nat : KnownTo(d, k)
    BY DEF QueueSound
  <2>2. k \in 0 .. n + m
    BY <1>1, <2>1 DEF KnownTo, n
  <2>3. next + m = DeviceHead(d) + 1 + (n + m) - k
    <3> DEFINE h == DeviceHead(d)
    <3>1. next = h + 1 + n - k
      BY <2>1 DEF KnownTo, n, next
    <3>2. h \in Nat
      BY HeadType
    <3>n. n \in Nat /\ next \in Nat
      BY <1>1
    <3> HIDE DEF h
    <3>3. next + m = h + 1 + (n + m) - k
      BY <3>n, <3>1, <3>2
    <3> QED  BY <3>3 DEF h
  <2>4. ASSUME NEW i \in DOMAIN new
        PROVE  Known(d, new[i]) <=> i =< k
    <3>1. CASE i \in DOMAIN outbox[d]
      BY <1>1, <1>2, <2>1, <3>1 DEF KnownTo
    <3>2. CASE i \notin DOMAIN outbox[d]
      <4>1. ~(i =< k)
        BY <1>1, <1>3, <2>1, <3>2 DEF KnownTo, n
      <4> QED  BY <1>3, <1>6, <3>2, <4>1
    <3> QED  BY <3>1, <3>2
  <2>5. \A i \in DOMAIN new : Known(d, new[i])' <=> i =< k
    BY <1>5, <2>4
  <2> QED  BY <1>1, <1>8, <2>2, <2>3, <2>5 DEF KnownTo
<1>11. Recorded(d)'
  <2> SUFFICES ASSUME NEW i \in DOMAIN new, NEW s \in DOMAIN log, Holds(d, s, new[i])
               PROVE  log[s] = EntryOf(d, new[i])
    BY DEF Recorded, Holds
  <2>1. i \in DOMAIN outbox[d]
    BY <1>3, <1>7
  <2> QED  BY <1>1, <1>2, <2>1 DEF QueueSound, Recorded
<1>12. InOrder(d)'
  <2> SUFFICES ASSUME NEW i \in DOMAIN new, NEW s \in DOMAIN log, Holds(d, s, new[i])
               PROVE  /\ s > cursor[d] /\ \A t \in received[d] : t < s
                      /\ \A j \in DOMAIN new, t \in DOMAIN log :
                           j < i /\ Holds(d, t, new[j]) => t < s
    BY DEF InOrder, Holds
  <2>1. i \in DOMAIN outbox[d]
    BY <1>3, <1>7
  <2>2. ASSUME NEW j \in DOMAIN new, NEW t \in DOMAIN log, j < i, Holds(d, t, new[j])
        PROVE  t < s
    <3>1. j \in DOMAIN outbox[d]
      BY <1>3, <1>7, <2>2
    <3> QED  BY <1>1, <1>2, <2>1, <2>2, <3>1 DEF QueueSound, InOrder
  <2> QED  BY <1>1, <1>2, <2>1, <2>2 DEF QueueSound, InOrder
<1>13. Attempted(d)'
  <2>1. \A i \in 1 .. claimed[d] : i \in DOMAIN outbox[d] /\ new[i] = outbox[d][i]
    BY <1>1, <1>2
  <2>2. pc'[d] = "claimed" /\ ~TriedBefore(d)' => pc[d] = "claimed" /\ ~TriedBefore(d)
    BY <2>1 DEF TriedBefore
  <2>3. ASSUME NEW i \in DOMAIN new
        PROVE  /\ new[i].attempts > 0 =>
                    (BatchLimit = 1 => i = 1) /\ \A j \in DOMAIN new : j < i => new[j].attempts > 0
               /\ Sent(d, new[i].id) => new[i].attempts > 0
               /\ pc'[d] = "claimed" /\ ~TriedBefore(d)' => ~Sent(d, new[i].id)
    <3>1. CASE i \in DOMAIN outbox[d]
      <4>1. \A j \in DOMAIN new : j < i => j \in DOMAIN outbox[d]
        BY <1>1, <3>1
      <4> QED  BY <1>1, <1>2, <2>2, <3>1, <4>1 DEF QueueSound, Attempted
    <3>2. CASE i \notin DOMAIN outbox[d]
      BY <1>3, <3>2
    <3> QED  BY <3>1, <3>2
  <2>4. \A i \in DOMAIN new : Sent(d, new[i].id)' <=> Sent(d, new[i].id)
    BY DEF Sent
  <2> QED  BY <2>3, <2>4 DEF Attempted, QueueSound
<1>14. \A row : Queued(d, row) => Queued(d, row)'
  BY <1>1, <1>2 DEF Queued
<1> QED  BY <1>9, <1>10, <1>11, <1>12, <1>13, <1>14 DEF QueueSound

\* Rows that were not sent take other writes, and any row another attempt.
LEMMA SoundBySame ==
  ASSUME Plain, NEW d \in Device, QueueSound(d), NEW new \in Seq(Row), outbox'[d] = new,
         Len(new) = Len(outbox[d]),
         \A i \in DOMAIN outbox[d] :
           /\ new[i].id = outbox[d][i].id /\ new[i].cseq = outbox[d][i].cseq
           /\ new[i].op = outbox[d][i].op \/ ~Sent(d, outbox[d][i].id),
         UNCHANGED <<log, stray>>, nextSeq'[d] = nextSeq[d], cursor'[d] = cursor[d],
         received'[d] = received[d]
  PROVE  /\ Numbered(d)' /\ (\E k \in Nat : KnownTo(d, k)') /\ Recorded(d)' /\ InOrder(d)'
         /\ \A row : Sent(d, row.id) /\ Queued(d, row) => Queued(d, row)'
<1>1. /\ DOMAIN new = DOMAIN outbox[d] /\ DOMAIN new = 1 .. Len(outbox[d])
  <2>1. outbox[d] \in Seq(Row)
    BY DEF Plain, Queues
  <2> QED  BY <2>1
<1>2. Numbered(d)'
  BY <1>1 DEF QueueSound, Numbered
<1>3. DeviceHead(d)' = DeviceHead(d)
  BY DEF DeviceHead
<1>4. \E k \in Nat : KnownTo(d, k)'
  <2>1. PICK k \in Nat : KnownTo(d, k)
    BY DEF QueueSound
  <2>2. \A i \in DOMAIN new : Known(d, new[i])' <=> i =< k
    BY <1>1, <2>1 DEF KnownTo, Known
  <2>3. KnownTo(d, k)'
    BY <1>1, <1>3, <2>1, <2>2 DEF KnownTo
  <2> QED  BY <2>3
<1>5. Recorded(d)'
  <2> SUFFICES ASSUME NEW i \in DOMAIN new, NEW s \in DOMAIN log, Holds(d, s, new[i])
               PROVE  log[s] = EntryOf(d, new[i])
    BY DEF Recorded, Holds
  <2>1. Holds(d, s, outbox[d][i]) /\ Sent(d, outbox[d][i].id)
    BY <1>1 DEF Holds, Sent
  <2>2. log[s] = EntryOf(d, outbox[d][i])
    BY <1>1, <2>1 DEF QueueSound, Recorded
  <2> QED  BY <1>1, <2>1, <2>2 DEF EntryOf
<1>6. InOrder(d)'
  <2>1. \A i \in DOMAIN new : \A s : Holds(d, s, new[i]) <=> Holds(d, s, outbox[d][i])
    BY <1>1 DEF Holds
  <2> SUFFICES ASSUME NEW i \in DOMAIN new, NEW s \in DOMAIN log, Holds(d, s, new[i])
               PROVE  /\ s > cursor[d] /\ \A t \in received[d] : t < s
                      /\ \A j \in DOMAIN new, t \in DOMAIN log :
                           j < i /\ Holds(d, t, new[j]) => t < s
    BY DEF InOrder, Holds
  <2> QED  BY <1>1, <2>1 DEF QueueSound, InOrder
<1>7. \A row : Sent(d, row.id) /\ Queued(d, row) => Queued(d, row)'
  BY <1>1 DEF Queued
<1> QED  BY <1>2, <1>4, <1>5, <1>6, <1>7

\* Rows that keep their operations, each tried as often as before or once more.
LEMMA AttemptedBySame ==
  ASSUME NEW d \in Device, Attempted(d), NEW new \in Seq(Row), outbox'[d] = new,
         DOMAIN new = DOMAIN outbox[d], UNCHANGED <<log, stray>>, claimed'[d] =< BatchLimit,
         \A i \in DOMAIN outbox[d] :
           /\ new[i].id = outbox[d][i].id
           /\ outbox[d][i].attempts > 0 => new[i].attempts > 0
           /\ new[i].attempts > 0 =>
                (BatchLimit = 1 => i = 1) /\ \A j \in DOMAIN outbox[d] : j < i => new[j].attempts > 0,
         pc'[d] = "claimed" /\ ~(\E i \in 1 .. claimed'[d] : new[i].attempts > 1) =>
           \A i \in DOMAIN outbox[d] : ~Sent(d, outbox[d][i].id)
  PROVE  Attempted(d)'
<1>1. \A id : Sent(d, id)' <=> Sent(d, id)
  BY DEF Sent
<1>2. \A i \in DOMAIN new : Sent(d, new[i].id)' <=> Sent(d, outbox[d][i].id)
  BY <1>1
<1>3. TriedBefore(d)' <=> \E i \in 1 .. claimed'[d] : new[i].attempts > 1
  BY DEF TriedBefore
<1>4. \A i \in DOMAIN new :
        /\ new[i].attempts > 0 =>
             (BatchLimit = 1 => i = 1) /\ \A j \in DOMAIN new : j < i => new[j].attempts > 0
        /\ Sent(d, new[i].id)' => new[i].attempts > 0
        /\ pc'[d] = "claimed" /\ ~TriedBefore(d)' => ~Sent(d, new[i].id)'
  BY <1>2, <1>3 DEF Attempted
<1> QED  BY <1>4 DEF Attempted

\* A step of the user leaves the queue sound: what he adds or changes was not
\* sent.
LEMMA AlignedByUser ==
  ASSUME Plain, Plain', Placed, Placed', Aligned, NEW d \in Device, User(d)
  PROVE  Aligned'
<1>0. /\ outbox[d] \in Seq(Row) /\ claimed[d] \in Nat /\ made[d] \in Nat
      /\ nextSeq[d] \in Nat /\ QueueSound(d)
  BY DEF Plain, Queues, Aligned
<1>1. UNCHANGED <<log, stray, cursor, received, claimed, pc>>
  BY DEF User, SaveDocument, SaveIntoTail, SaveOversized, AttachImage, RetryBlocked, DiscardBlocked,
         RestoreAsset, worker, service, canonical
<1>2. ASSUME NEW op \in Operation, Enqueue(d, op)
      PROVE  Aligned'
  <2> DEFINE new == Append(outbox[d], NewRow(d, op))
             n == Len(outbox[d])
  <2>1. /\ outbox' = [outbox EXCEPT ![d] = new] /\ nextSeq' = [nextSeq EXCEPT ![d] = @ + 1]
        /\ NewRow(d, op) \in Row
    BY <1>2, NewRowType DEF Enqueue, Plain
  <2>2. /\ new \in Seq(Row) /\ Len(new) = n + 1 /\ n \in Nat
        /\ \A i \in DOMAIN outbox[d] : new[i] = outbox[d][i]
        /\ new[n + 1] = NewRow(d, op)
    BY <1>0, <2>1
  <2>3. \A i \in 1 .. 1 : /\ new[n + i].cseq = nextSeq[d] + i - 1 /\ new[n + i].attempts = 0
                          /\ new[n + i].id > made[d]
    <3> SUFFICES /\ new[n + 1].cseq = nextSeq[d] + 1 - 1 /\ new[n + 1].attempts = 0
                 /\ new[n + 1].id > made[d]
      OBVIOUS
    <3>1. /\ NewRow(d, op).cseq = nextSeq[d] /\ NewRow(d, op).attempts = 0
          /\ NewRow(d, op).id = made[d] + 1
      BY DEF NewRow
    <3> QED  BY <1>0, <2>2, <3>1
  <2>4. /\ outbox'[d] = new /\ nextSeq'[d] = nextSeq[d] + 1
        /\ \A e \in Device : e # d => outbox'[e] = outbox[e] /\ nextSeq'[e] = nextSeq[e]
    BY <2>1 DEF Plain, Queues
  <2> HIDE DEF new
  <2>5. QueueSound(d)' /\ \A row : Queued(d, row) => Queued(d, row)'
    BY <1>0, <1>1, <2>2, <2>3, <2>4, SoundByMore
  <2>6. \A r \in stray : \A x \in DOMAIN r.rows :
          r.dev = d /\ Queued(d, r.rows[x]) => Carried(d, r.rows[x])'
    BY <2>5 DEF Carried
  <2> QED  BY <1>1, <2>4, <2>5, <2>6, AlignedByOne DEF Placed
<1>3. CASE UNCHANGED <<outbox, nextSeq>>
  <2>1. NoneNewOf(d) /\ \A id : Sent(d, id)' => Sent(d, id)
    BY <1>1 DEF NoneNewOf, LogKept, DeviceHead, Sent
  <2>2. QueueSound(d)'
    <3>1. Numbered(d)' /\ (\E k \in Nat : KnownTo(d, k)') /\ Recorded(d)' /\ InOrder(d)'
      BY <1>0, <1>1, <1>3, <2>1, SoundByFrame
    <3>2. Attempted(d)'
      BY <1>0, <1>1, <1>3, <2>1, AttemptedByFrame DEF QueueSound
    <3> QED  BY <3>1, <3>2 DEF QueueSound
  <2>3. \A row : Queued(d, row) => Carried(d, row)'
    BY <1>3 DEF Queued, Carried
  <2> QED  BY <1>1, <1>3, <2>2, <2>3, AlignedByOne DEF Placed
<1>4. ASSUME NEW n \in Note, NEW b \in Body, SaveIntoTail(d, n, b)
      PROVE  Aligned'
  <2> DEFINE k == Len(outbox[d])
             tail == [outbox[d][k] EXCEPT !.op = Write(n, b)]
             new == [outbox[d] EXCEPT ![k] = tail]
  <2>1. /\ k \in DOMAIN outbox[d] /\ outbox[d][k] \in Row /\ outbox[d][k].attempts = 0
        /\ k > claimed[d]
    BY <1>0, <1>4 DEF SaveIntoTail, Coalesces, Last
  <2>2. tail \in Row /\ tail.id = outbox[d][k].id /\ tail.cseq = outbox[d][k].cseq
        /\ tail.attempts = 0
    <3>1. Write(n, b) \in Operation
      BY Operations DEF Bodies
    <3> QED  BY <2>1, <3>1 DEF Row
  <2>3. outbox' = [outbox EXCEPT ![d] = new] /\ UNCHANGED nextSeq
    BY <1>4 DEF SaveIntoTail
  <2>4. /\ new \in Seq(Row) /\ Len(new) = k /\ DOMAIN new = DOMAIN outbox[d] /\ new[k] = tail
        /\ \A i \in DOMAIN outbox[d] : i # k => new[i] = outbox[d][i]
    <3> HIDE DEF tail
    <3> QED  BY <1>0, <2>1, <2>2
  <2>5. outbox'[d] = new /\ \A e \in Device : e # d => outbox'[e] = outbox[e]
    BY <2>3 DEF Plain, Queues
  <2>6. ~Sent(d, outbox[d][k].id)
    BY <1>0, <2>1 DEF QueueSound, Attempted
  <2> HIDE DEF new, tail
  <2>7. \A i \in DOMAIN outbox[d] :
          /\ new[i].id = outbox[d][i].id /\ new[i].cseq = outbox[d][i].cseq
          /\ new[i].op = outbox[d][i].op \/ ~Sent(d, outbox[d][i].id)
          /\ new[i].attempts = outbox[d][i].attempts
    BY <2>1, <2>2, <2>4, <2>6
  <2>8. /\ Numbered(d)' /\ (\E j \in Nat : KnownTo(d, j)') /\ Recorded(d)' /\ InOrder(d)'
        /\ \A row : Sent(d, row.id) /\ Queued(d, row) => Queued(d, row)'
    BY <1>0, <1>1, <2>3, <2>4, <2>5, <2>7, SoundBySame
  <2>9. Attempted(d)'
    <3>1. \A i \in 1 .. claimed[d] : new[i].attempts = outbox[d][i].attempts
      BY <1>0, <2>1, <2>7 DEF Plain, Claims
    <3>2. pc'[d] = "claimed" /\ ~(\E i \in 1 .. claimed'[d] : new[i].attempts > 1) =>
            pc[d] = "claimed" /\ ~TriedBefore(d)
      BY <1>1, <3>1 DEF TriedBefore
    <3>3. Attempted(d) /\ claimed'[d] =< BatchLimit
      BY <1>0, <1>1 DEF QueueSound, Attempted
    <3>4. \A i \in DOMAIN outbox[d] :
            /\ new[i].id = outbox[d][i].id
            /\ outbox[d][i].attempts > 0 => new[i].attempts > 0
            /\ new[i].attempts > 0 =>
                 (BatchLimit = 1 => i = 1) /\ \A j \in DOMAIN outbox[d] : j < i => new[j].attempts > 0
      BY <2>7, <3>3 DEF Attempted
    <3>5. pc'[d] = "claimed" /\ ~(\E i \in 1 .. claimed'[d] : new[i].attempts > 1) =>
            \A i \in DOMAIN outbox[d] : ~Sent(d, outbox[d][i].id)
      BY <3>2, <3>3 DEF Attempted
    <3> QED  BY <1>1, <2>4, <2>5, <3>3, <3>4, <3>5, AttemptedBySame
  <2>10. QueueSound(d)'
    BY <2>8, <2>9 DEF QueueSound
  <2>11. ASSUME NEW r \in stray, NEW x \in DOMAIN r.rows, r.dev = d, Queued(d, r.rows[x])
         PROVE  Carried(d, r.rows[x])'
    <3>1. Sent(d, r.rows[x].id)
      BY <2>11 DEF Sent, IdsIn
    <3> QED  BY <2>8, <2>11, <3>1 DEF Carried
  <2> QED  BY <1>1, <2>3, <2>5, <2>10, <2>11, AlignedByOne DEF Placed
<1>5. ASSUME NEW n \in Note, NEW b \in Body, SaveDocument(d, n, b)
      PROVE  Aligned'
  BY <1>2, <1>5, Operations DEF SaveDocument, Bodies
<1>6. ASSUME NEW a \in Asset, AttachImage(d, a)
      PROVE  Aligned'
  BY <1>2, <1>6, Operations DEF AttachImage
<1>7. ASSUME NEW p \in blocked[d], RetryBlocked(d, p)
      PROVE  Aligned'
  <2>1. p.op \in Operation
    BY DEF Plain, Queues, Held, Parked
  <2>2. Requeued(d, p) \in Operation
    BY <2>1, Operations DEF Requeued, Plain, Shown
  <2> QED  BY <1>2, <1>7, <2>2 DEF RetryBlocked
<1>8. CASE \/ \E n \in Note, b \in Body : SaveOversized(d, n, b)
           \/ \E p \in blocked[d] : DiscardBlocked(d, p) \/ RestoreAsset(d, p)
  BY <1>3, <1>8 DEF SaveOversized, DiscardBlocked, RestoreAsset
<1> QED  BY <1>4, <1>5, <1>6, <1>7, <1>8 DEF User

\* The queue after the first k rows of it were claimed.
ClaimedTo(d, k) ==
  [i \in DOMAIN outbox[d] |-> IF i =< k THEN Tried(outbox[d][i]) ELSE outbox[d][i]]

\* A claim tries rows again: when one of them is tried for the first time, no
\* row behind it was tried before.
LEMMA AlignedByClaim ==
  ASSUME Plain, Plain', Placed', Aligned, NEW d \in Device,
         NEW k \in 1 .. Len(outbox[d]), Claim(d, k)
  PROVE  Aligned'
<1> DEFINE new == ClaimedTo(d, k)
<1>0. /\ outbox[d] \in Seq(Row) /\ QueueSound(d) /\ DOMAIN outbox[d] = 1 .. Len(outbox[d])
      /\ Len(outbox[d]) \in Nat /\ k \in Nat /\ k >= 1 /\ k =< Len(outbox[d])
  BY DEF Plain, Queues, Aligned
<1>1. ASSUME NEW i \in DOMAIN outbox[d]
      PROVE  /\ new[i] \in Row
             /\ new[i].id = outbox[d][i].id /\ new[i].cseq = outbox[d][i].cseq
             /\ new[i].op = outbox[d][i].op
             /\ i =< k => new[i].attempts > 0 /\ (outbox[d][i].attempts > 0 => new[i].attempts > 1)
             /\ ~(i =< k) => new[i].attempts = outbox[d][i].attempts
  <2>1. outbox[d][i] \in Row
    BY <1>0
  <2>2. outbox[d][i].attempts \in 0 .. 2
    BY <2>1 DEF Row
  <2>3. CASE i =< k
    <3> DEFINE a == Lesser(2, outbox[d][i].attempts + 1)
    <3>1. a \in 0 .. 2 /\ a > 0 /\ (outbox[d][i].attempts > 0 => a > 1)
      BY <2>2 DEF Lesser
    <3>2. new[i] = [outbox[d][i] EXCEPT !.attempts = a]
      BY <2>3 DEF ClaimedTo, Tried
    <3> HIDE DEF a, new
    <3> QED  BY <2>1, <2>3, <3>1, <3>2 DEF Row
  <2>4. CASE ~(i =< k)
    BY <2>1, <2>4 DEF ClaimedTo
  <2> QED  BY <2>3, <2>4
<1>2. new \in Seq(Row) /\ Len(new) = Len(outbox[d]) /\ DOMAIN new = DOMAIN outbox[d]
  <2>1. new = [i \in DOMAIN outbox[d] |-> new[i]]
    BY DEF ClaimedTo
  <2> HIDE DEF new
  <2>2. new \in [1 .. Len(outbox[d]) -> Row]
    BY <1>0, <1>1, <2>1
  <2> QED  BY <1>0, <2>2
<1>3. /\ outbox' = [outbox EXCEPT ![d] = new] /\ claimed' = [claimed EXCEPT ![d] = k]
      /\ pc' = [pc EXCEPT ![d] = "claimed"] /\ k =< BatchLimit
      /\ UNCHANGED <<nextSeq, cursor, received, log, stray>>
  BY DEF Claim, ClaimedTo, canonical, service
<1> HIDE DEF new
<1>4. /\ outbox'[d] = new /\ claimed'[d] = k /\ pc'[d] = "claimed"
      /\ \A e \in Device : e # d => /\ outbox'[e] = outbox[e] /\ claimed'[e] = claimed[e]
                                    /\ pc'[e] = pc[e]
  BY <1>3 DEF Plain, Queues, Workers
<1>5. /\ Numbered(d)' /\ (\E j \in Nat : KnownTo(d, j)') /\ Recorded(d)' /\ InOrder(d)'
      /\ \A row : Sent(d, row.id) /\ Queued(d, row) => Queued(d, row)'
  BY <1>0, <1>1, <1>2, <1>3, <1>4, SoundBySame
<1>6. Attempted(d)'
  <2>1. Attempted(d)
    BY <1>0 DEF QueueSound
  <2>2. ASSUME NEW i \in DOMAIN outbox[d]
        PROVE  /\ outbox[d][i].attempts > 0 => new[i].attempts > 0
               /\ new[i].attempts > 0 =>
                    (BatchLimit = 1 => i = 1) /\ \A j \in DOMAIN outbox[d] : j < i => new[j].attempts > 0
    <3>1. CASE i =< k
      <4>1. BatchLimit = 1 => i = 1
        BY <1>0, <1>3, <3>1
      <4>2. \A j \in DOMAIN outbox[d] : j < i => j =< k
        BY <1>0, <3>1
      <4> QED  BY <1>1, <3>1, <4>1, <4>2
    <3>2. CASE ~(i =< k)
      BY <1>1, <2>1, <3>2 DEF Attempted
    <3> QED  BY <3>1, <3>2
  <2>3. ASSUME ~(\E i \in 1 .. k : new[i].attempts > 1), NEW i \in DOMAIN outbox[d]
        PROVE  ~Sent(d, outbox[d][i].id)
    <3>1. 1 \in DOMAIN outbox[d] /\ 1 \in 1 .. k /\ 1 =< k
      BY <1>0
    <3>2. ~(outbox[d][1].attempts > 0)
      BY <1>1, <2>3, <3>1
    <3>3. i = 1 \/ 1 < i
      BY <1>0
    <3>4. ~(outbox[d][i].attempts > 0)
      BY <2>1, <3>1, <3>2, <3>3 DEF Attempted
    <3> QED  BY <2>1, <3>4 DEF Attempted
  <2> QED  BY <1>1, <1>2, <1>3, <1>4, <2>1, <2>2, <2>3, AttemptedBySame
<1>7. QueueSound(d)'
  BY <1>5, <1>6 DEF QueueSound
<1>8. ASSUME NEW r \in stray, NEW x \in DOMAIN r.rows, r.dev = d, Queued(d, r.rows[x])
      PROVE  Carried(d, r.rows[x])'
  <2>1. Sent(d, r.rows[x].id)
    BY <1>8 DEF Sent, IdsIn
  <2> QED  BY <1>5, <1>8, <2>1 DEF Carried
<1> QED  BY <1>3, <1>4, <1>7, <1>8, AlignedByOne DEF Placed

\* Images that are back join the queue under new numbers.
LEMMA AlignedByRequeue ==
  ASSUME Plain, Plain', Placed, Placed', Aligned, NEW d \in Device, BeginPush(d)
  PROVE  Aligned'
<1>0. /\ outbox[d] \in Seq(Row) /\ QueueSound(d) /\ made[d] \in Nat
  BY DEF Plain, Queues, Aligned
<1>1. PICK order \in SetToSeqs(Back(d)) :
        /\ outbox' = [outbox EXCEPT ![d] = @ \o RequeuedRows(d, order)]
        /\ nextSeq' = [nextSeq EXCEPT ![d] = @ + Len(order)]
  BY DEF BeginPush
<1> DEFINE more == RequeuedRows(d, order)
           new == outbox[d] \o more
           n == Len(outbox[d])
           m == Len(order)
<1>2. /\ more \in Seq(Row) /\ Len(more) = m /\ m \in Nat /\ order \in Seq(Back(d))
  BY RequeuedType
<1>3. \A i \in 1 .. m : /\ more[i].cseq = nextSeq[d] + i - 1 /\ more[i].attempts = 0
                        /\ more[i].id = made[d] + i
  <2>1. DOMAIN order = 1 .. m
    BY <1>2
  <2>2. ASSUME NEW i \in 1 .. m
        PROVE  more[i] = [id |-> made[d] + i, cseq |-> nextSeq[d] + i - 1,
                          op |-> order[i].op, attempts |-> 0]
    BY <2>1 DEF RequeuedRows
  <2>3. ASSUME NEW i \in 1 .. m
        PROVE  /\ more[i].cseq = nextSeq[d] + i - 1 /\ more[i].attempts = 0
               /\ more[i].id = made[d] + i
    <3>1. more[i] = [id |-> made[d] + i, cseq |-> nextSeq[d] + i - 1,
                     op |-> order[i].op, attempts |-> 0]
      BY <2>2
    <3> HIDE DEF more, m
    <3> QED  BY <3>1
  <2> QED  BY <2>3
<1>4. /\ UNCHANGED <<claimed, cursor, received, log, stray>>
      /\ pc' = [pc EXCEPT ![d] = "push"]
  BY DEF BeginPush, canonical, service
<1> HIDE DEF more, m
<1>5. /\ new \in Seq(Row) /\ Len(new) = n + m
      /\ \A i \in 1 .. n : new[i] = outbox[d][i]
      /\ \A i \in 1 .. m : new[n + i] = more[i]
  <2>1. /\ new \in Seq(Row) /\ DOMAIN new = 1 .. Len(outbox[d]) + Len(more)
        /\ \A i \in 1 .. Len(outbox[d]) : new[i] = outbox[d][i]
        /\ \A i \in 1 .. Len(more) : new[Len(outbox[d]) + i] = more[i]
    BY <1>0, <1>2, RowsAndMore
  <2> HIDE DEF new
  <2>2. Len(new) = n + m
    BY <1>0, <1>2, <2>1
  <2> QED  BY <1>2, <2>1, <2>2
<1>6. /\ outbox'[d] = new /\ nextSeq'[d] = nextSeq[d] + m /\ pc'[d] = "push"
      /\ \A e \in Device : e # d => /\ outbox'[e] = outbox[e] /\ nextSeq'[e] = nextSeq[e]
                                    /\ pc'[e] = pc[e]
  BY <1>1, <1>4 DEF Plain, Queues, Workers, more, m
<1> HIDE DEF new
<1>7. \A i \in 1 .. m : /\ new[n + i].cseq = nextSeq[d] + i - 1 /\ new[n + i].attempts = 0
                        /\ new[n + i].id > made[d]
  <2>1. ASSUME NEW i \in 1 .. m
        PROVE  new[n + i] = more[i] /\ made[d] + i > made[d]
    BY <1>0, <1>2, <1>5
  <2> HIDE DEF n
  <2> QED  BY <1>3, <2>1
<1>8. \A i \in DOMAIN outbox[d] : new[i] = outbox[d][i]
  BY <1>0, <1>5
<1>9. QueueSound(d)' /\ \A row : Queued(d, row) => Queued(d, row)'
  BY <1>0, <1>2, <1>4, <1>5, <1>6, <1>7, <1>8, SoundByMore
<1>10. \A r \in stray : \A x \in DOMAIN r.rows :
         r.dev = d /\ Queued(d, r.rows[x]) => Carried(d, r.rows[x])'
  BY <1>9 DEF Carried
<1> QED  BY <1>4, <1>6, <1>9, <1>10, AlignedByOne DEF Placed

\* A step that changes no queue and no log, and claims nothing.
LEMMA AlignedByFrame ==
  ASSUME Plain, Plain', AcceptedOnce', Aligned, UNCHANGED <<outbox, nextSeq, log>>,
         stray' \subseteq stray, 
         \A e \in Device :
           /\ cursor'[e] = cursor[e] /\ received'[e] = received[e]
           /\ claimed'[e] = claimed[e] \/ (claimed'[e] = 0 /\ pc'[e] # "claimed")
           /\ pc'[e] = "claimed" => pc[e] = "claimed"
  PROVE  Aligned'
<1>1. \A e \in Device : NoneNewOf(e) /\ \A id : Sent(e, id)' => Sent(e, id)
  BY DEF NoneNewOf, LogKept, DeviceHead, Sent
<1>2. ASSUME NEW e \in Device
      PROVE  QueueSound(e)'
  <2>1. Numbered(e)' /\ (\E k \in Nat : KnownTo(e, k)') /\ Recorded(e)' /\ InOrder(e)'
    BY <1>1, <1>2, SoundByFrame DEF Aligned
  <2>2. Attempted(e)'
    BY <1>1, <1>2, AttemptedByFrame DEF Aligned, QueueSound
  <2> QED  BY <2>1, <2>2 DEF QueueSound
<1>3. StraysSound'
  BY StraysByFrame DEF Aligned, LogKept
<1> QED  BY <1>2, <1>3 DEF Aligned

\* A request the worker gives up on carries what it claimed.
LEMMA AlignedByTimeout ==
  ASSUME Plain, Plain', Placed, Placed', Aligned, NEW d \in Device,
         NEW step \in {"pull", "idle"}, PushTimesOut(d, step)
  PROVE  Aligned'
<1>1. /\ stray' = stray \cup {[dev |-> d, rows |-> Batch(d)]}
      /\ claimed' = [claimed EXCEPT ![d] = 0] /\ pc' = [pc EXCEPT ![d] = step]
      /\ UNCHANGED <<outbox, nextSeq, cursor, received, log>>
  BY DEF PushTimesOut, Release, canonical
<1>2. /\ Batch(d) \in Seq(Row) /\ DOMAIN Batch(d) = 1 .. claimed[d]
      /\ \A x \in 1 .. claimed[d] : x \in DOMAIN outbox[d] /\ Batch(d)[x] = outbox[d][x]
      /\ claimed[d] \in Nat /\ DistinctIds(outbox[d])
  BY BatchRows DEF Placed, Distinct
<1>3. \A x \in DOMAIN Batch(d) : Queued(d, Batch(d)[x])
  BY <1>2 DEF Queued
<1>4. StraysSound'
  <2>1. ASSUME NEW r \in stray', r \notin stray, NEW x \in DOMAIN r.rows
        PROVE  Carried(r.dev, r.rows[x])'
    <3>1. r.dev = d /\ r.rows = Batch(d)
      BY <1>1, <2>1
    <3>2. Queued(r.dev, r.rows[x])
      BY <1>3, <2>1, <3>1
    <3> QED  BY <1>1, <3>2 DEF Queued, Carried
  <2>2. \A r \in stray : \A x \in DOMAIN r.rows :
          Queued(r.dev, r.rows[x]) => Carried(r.dev, r.rows[x])'
    BY <1>1 DEF Queued, Carried
  <2> QED  BY <1>1, <2>1, <2>2, StraysKept DEF Aligned, LogKept, Placed
<1>5. ASSUME NEW e \in Device
      PROVE  QueueSound(e)'
  <2>1. NoneNewOf(e)
    BY <1>1 DEF NoneNewOf, LogKept, DeviceHead
  <2>2. Numbered(e)' /\ (\E k \in Nat : KnownTo(e, k)') /\ Recorded(e)' /\ InOrder(e)'
    BY <1>1, <2>1, SoundByFrame DEF Aligned
  <2>3. claimed'[e] = claimed[e] \/ (claimed'[e] = 0 /\ pc'[e] # "claimed")
    BY <1>1 DEF Plain, Queues, Workers
  <2>4. pc'[e] = "claimed" => pc[e] = "claimed" /\ e # d
    BY <1>1 DEF Plain, Workers
  <2>5. ASSUME NEW i \in DOMAIN outbox[e], Sent(e, outbox[e][i].id)'
        PROVE  Sent(e, outbox[e][i].id) \/ (pc'[e] # "claimed" /\ outbox[e][i].attempts > 0)
    <3>1. CASE Sent(e, outbox[e][i].id)
      BY <3>1
    <3>2. CASE e = d /\ outbox[e][i].id \in IdsIn(Batch(d))
      <4>1. PICK x \in 1 .. claimed[d] : outbox[d][i].id = outbox[d][x].id
        BY <1>2, <3>2 DEF IdsIn
      <4>2. i = x
        BY <1>2, <3>2, <4>1 DEF DistinctIds
      <4> QED  BY <2>4, <3>2, <4>2 DEF Placed, ClaimHolds
    <3> QED  BY <1>1, <2>5, <3>1, <3>2 DEF Sent
  <2>6. Attempted(e)'
    BY <1>1, <2>3, <2>4, <2>5, AttemptedByFrame DEF Aligned, QueueSound
  <2> QED  BY <2>2, <2>6 DEF QueueSound
<1> QED  BY <1>4, <1>5 DEF Aligned

\* Rows the service has leave the head of the queue, as the device learns their
\* sequences.
LEMMA SoundByDrop ==
  ASSUME Plain, Plain', Placed, NEW d \in Device, QueueSound(d), NEW j \in 0 .. Len(outbox[d]),
         NEW new \in Seq(Row), outbox'[d] = new, Len(new) = Len(outbox[d]) - j,
         \A i \in DOMAIN new : new[i] = outbox[d][i + j],
         \A i \in 1 .. j : Known(d, outbox[d][i]),
         \A i \in DOMAIN outbox[d] : \A s \in DOMAIN log :
           j < i /\ Holds(d, s, outbox[d][i]) => s > cursor'[d] /\ \A t \in received'[d] : t < s,
         UNCHANGED <<log, stray>>, nextSeq'[d] = nextSeq[d],
         claimed'[d] =< BatchLimit, pc'[d] # "claimed"
  PROVE  QueueSound(d)' /\ \A row : Queued(d, row) => Carried(d, row)'
<1> DEFINE n == Len(outbox[d])
           h == DeviceHead(d)
           next == nextSeq[d]
<1>1. /\ n \in Nat /\ j \in Nat /\ j =< n /\ DOMAIN outbox[d] = 1 .. n /\ DOMAIN new = 1 .. n - j
      /\ next \in Nat /\ h \in Nat /\ Len(new) = n - j
  BY HeadType DEF Plain, Queues
<1>2. /\ nextSeq'[d] = next /\ DeviceHead(d)' = h
      /\ \A row : Known(d, row)' <=> Known(d, row)
      /\ \A row : \A s \in DOMAIN log : Holds(d, s, row)' <=> Holds(d, s, row)
      /\ \A id : Sent(d, id)' <=> Sent(d, id)
  BY DEF DeviceHead, Known, Holds, Sent
<1>3. PICK k \in Nat : KnownTo(d, k)
  BY DEF QueueSound
<1>4. /\ k \in 0 .. n /\ next = h + 1 + n - k /\ \A i \in DOMAIN outbox[d] : Known(d, outbox[d][i]) <=> i =< k
  BY <1>3 DEF KnownTo
<1>5. j =< k
  <2>1. CASE j = 0
    BY <1>1, <2>1
  <2>2. CASE j # 0
    <3>1. j \in 1 .. j /\ j \in DOMAIN outbox[d]
      BY <1>1, <2>2
    <3> QED  BY <1>4, <3>1
  <2> QED  BY <2>1, <2>2
<1> HIDE DEF n, h, next
<1>6. ASSUME NEW i \in 1 .. n - j
      PROVE  i + j \in 1 .. n /\ new[i] = outbox[d][i + j] /\ (i + j =< k <=> i =< k - j)
  <2>1. i + j \in 1 .. n /\ (i + j =< k <=> i =< k - j)
    BY <1>1, <1>4
  <2>2. i \in DOMAIN new
    BY <1>1
  <2> QED  BY <2>1, <2>2
<1>7. Numbered(d)'
  <2>1. ASSUME NEW i \in 1 .. n - j
        PROVE  new[i].cseq = next - (n - j) + i - 1
    <3>1. outbox[d][i + j].cseq = next - n + (i + j) - 1
      BY <1>1, <1>6 DEF QueueSound, Numbered, n, next
    <3>2. next - n + (i + j) - 1 = next - (n - j) + i - 1
      BY <1>1
    <3> QED  BY <1>6, <3>1, <3>2
  <2> QED  BY <1>1, <1>2, <2>1 DEF Numbered
<1>8. KnownTo(d, k - j)' /\ k - j \in Nat
  <2>1. k - j \in 0 .. n - j /\ next = h + 1 + (n - j) - (k - j)
    <3>1. k \in Nat /\ k =< n /\ next = h + 1 + n - k
      BY <1>1, <1>4
    <3> QED  BY <1>1, <1>5, <3>1
  <2>2. \A i \in DOMAIN new : Known(d, new[i]) <=> i =< k - j
    BY <1>1, <1>4, <1>6
  <2>3. Len(new) = n - j
    BY <1>1
  <2>4. /\ k - j \in 0 .. Len(new) /\ nextSeq'[d] = DeviceHead(d)' + 1 + Len(new) - (k - j)
        /\ \A i \in DOMAIN new : Known(d, new[i])' <=> i =< k - j
    BY <1>2, <2>1, <2>2, <2>3
  <2>5. k - j \in Nat
    BY <1>1, <1>4, <1>5
  <2> QED  BY <2>4, <2>5 DEF KnownTo
<1>9. Recorded(d)'
  <2> SUFFICES ASSUME NEW i \in DOMAIN new, NEW s \in DOMAIN log, Holds(d, s, new[i])
               PROVE  log[s] = EntryOf(d, new[i])
    BY <1>2 DEF Recorded, EntryOf
  <2>1. i + j \in DOMAIN outbox[d] /\ new[i] = outbox[d][i + j]
    BY <1>1, <1>6
  <2> QED  BY <2>1 DEF Recorded, QueueSound
<1>10. InOrder(d)'
  <2> SUFFICES ASSUME NEW i \in DOMAIN new, NEW s \in DOMAIN log, Holds(d, s, new[i])
               PROVE  /\ s > cursor'[d] /\ \A t \in received'[d] : t < s
                      /\ \A x \in DOMAIN new, t \in DOMAIN log :
                           x < i /\ Holds(d, t, new[x]) => t < s
    BY <1>2 DEF InOrder
  <2>1. i + j \in DOMAIN outbox[d] /\ j < i + j /\ Holds(d, s, outbox[d][i + j])
    BY <1>1, <1>6
  <2>2. ASSUME NEW x \in DOMAIN new, NEW t \in DOMAIN log, x < i, Holds(d, t, new[x])
        PROVE  t < s
    <3>1. x + j \in DOMAIN outbox[d] /\ x + j < i + j /\ Holds(d, t, outbox[d][x + j])
      BY <1>1, <1>6, <2>2
    <3> QED  BY <2>1, <3>1 DEF InOrder, QueueSound
  <2> QED  BY <2>1, <2>2
<1>11. Attempted(d)'
  <2>1. ASSUME NEW i \in DOMAIN new
        PROVE  /\ new[i].attempts > 0 =>
                    (BatchLimit = 1 => i = 1) /\ \A x \in DOMAIN new : x < i => new[x].attempts > 0
               /\ Sent(d, new[i].id) => new[i].attempts > 0
    <3>1. i + j \in DOMAIN outbox[d] /\ new[i] = outbox[d][i + j]
      BY <1>1, <1>6
    <3>2. i + j = 1 => i = 1
      BY <1>1
    <3>3. \A x \in DOMAIN new : x < i =>
            x + j \in DOMAIN outbox[d] /\ x + j < i + j /\ new[x] = outbox[d][x + j]
      BY <1>1, <1>6
    <3> QED  BY <3>1, <3>2, <3>3 DEF Attempted, QueueSound
  <2> QED  BY <1>2, <2>1 DEF Attempted
<1>12. ASSUME NEW row, Queued(d, row)
       PROVE  Carried(d, row)'
  <2>1. PICK i \in DOMAIN outbox[d] : /\ outbox[d][i].id = row.id /\ outbox[d][i].cseq = row.cseq
                                      /\ outbox[d][i].op = row.op
    BY <1>12 DEF Queued
  <2>2. CASE i =< j
    <3>1. Known(d, outbox[d][i])
      BY <1>1, <2>2
    <3>2. Known(d, row)
      BY <2>1, <3>1 DEF Known
    <3>3. \A s \in DOMAIN log : Holds(d, s, row) => log[s] = EntryOf(d, row)
      BY <2>1 DEF QueueSound, Recorded, Holds, EntryOf
    <3> QED  BY <1>2, <3>2, <3>3 DEF Carried, EntryOf
  <2>3. CASE ~(i =< j)
    <3>1. i - j \in DOMAIN new /\ new[i - j] = outbox[d][i]
      BY <1>1, <2>3
    <3> QED  BY <2>1, <3>1 DEF Carried, Queued
  <2> QED  BY <2>2, <2>3
<1> QED  BY <1>7, <1>8, <1>9, <1>10, <1>11, <1>12 DEF QueueSound

\* How far the acknowledged rows continue the cursor.
LEMMA ContiguousRows ==
  ASSUME Plain, NEW d \in Device
  PROVE  /\ Contiguous(d) \in 0 .. claimed[d]
         /\ \A i \in 1 .. Contiguous(d) : SequenceOf(d, outbox[d][i]) = cursor[d] + i
         /\ \A j \in 0 .. claimed[d] :
              (\A i \in 1 .. j : SequenceOf(d, outbox[d][i]) = cursor[d] + i) => Contiguous(d) >= j
<1> DEFINE S == {j \in 0 .. claimed[d] :
                   \A i \in 1 .. j : SequenceOf(d, outbox[d][i]) = cursor[d] + i}
<1>1. claimed[d] \in Nat
  BY DEF Plain, Queues
<1>2. 0 \in S /\ S \in SUBSET (0 .. claimed[d])
  BY <1>1
<1>3. Max(S) = Contiguous(d)
  BY DEF Contiguous
<1> HIDE DEF S
<1>4. Contiguous(d) \in S /\ \A j \in S : Contiguous(d) >= j
  BY <1>1, <1>2, <1>3, MaxGreatest
<1> QED  BY <1>4 DEF S

\* The echo a device reads is that of the row at the head of its queue.
LEMMA EchoIsFirst ==
  ASSUME Plain, AcceptedOnce, NEW d \in Device, QueueSound(d), InLog(d),
         NEW i \in Echoed(d, cursor[d] + 1)
  PROVE  /\ i = 1 /\ i \in DOMAIN outbox[d] /\ Known(d, outbox[d][i])
         /\ cursor[d] + 1 \in DOMAIN log /\ Holds(d, cursor[d] + 1, outbox[d][i])
<1>1. /\ cursor[d] \in Nat /\ DOMAIN outbox[d] = 1 .. Len(outbox[d]) /\ Len(outbox[d]) \in Nat
      /\ cursor[d] + 1 \in DOMAIN log /\ DOMAIN log = 1 .. Len(log) /\ Len(log) \in Nat
  BY DEF Plain, Shown, Services, Queues, InLog
<1>2. i \in DOMAIN outbox[d] /\ Holds(d, cursor[d] + 1, outbox[d][i])
  BY DEF Echoed, Holds
<1>3. Known(d, outbox[d][i])
  BY <1>1, <1>2 DEF Known, Holds
<1>4. CASE i # 1
  <2>1. 1 \in DOMAIN outbox[d] /\ 1 < i /\ i \in Nat
    BY <1>1, <1>2, <1>4
  <2>2. PICK k \in Nat : KnownTo(d, k)
    BY DEF QueueSound
  <2>3. i =< k
    BY <1>2, <1>3, <2>2 DEF KnownTo
  <2>4. 1 =< k
    BY <2>1, <2>3
  <2>5. Known(d, outbox[d][1])
    BY <2>1, <2>2, <2>4 DEF KnownTo
  <2>6. PICK t \in DOMAIN log : Holds(d, t, outbox[d][1])
    BY <2>5 DEF Known, Holds
  <2>7. t > cursor[d] /\ t < cursor[d] + 1
    BY <1>1, <1>2, <2>1, <2>6 DEF QueueSound, InOrder
  <2> QED  BY <1>1, <2>7
<1> QED  BY <1>1, <1>2, <1>3, <1>4

\* What is left of a queue as j rows the service has leave its head.
LeftOf(d, j, new) ==
  /\ j \in 0 .. Len(outbox[d]) /\ new \in Seq(Row) /\ Len(new) = Len(outbox[d]) - j
  /\ \A i \in DOMAIN new : new[i] = outbox[d][i + j]
  /\ \A i \in 1 .. j : Known(d, outbox[d][i])

\* A device drops rows from the head of its queue, as many as it learnt the
\* sequences of, or none.
LEMMA AlignedByDrop ==
  ASSUME Plain, Plain', Placed, Placed', Aligned, NEW d \in Device,
         NEW j, NEW new, LeftOf(d, j, new), outbox'[d] = new,
         \A i \in DOMAIN outbox[d] : \A s \in DOMAIN log :
           j < i /\ Holds(d, s, outbox[d][i]) => s > cursor'[d] /\ \A t \in received'[d] : t < s,
         UNCHANGED <<log, stray, nextSeq>>,
         claimed'[d] =< BatchLimit, pc'[d] # "claimed",
         \A e \in Device : e # d => /\ outbox'[e] = outbox[e] /\ claimed'[e] = claimed[e]
                                    /\ cursor'[e] = cursor[e] /\ received'[e] = received[e]
                                    /\ pc'[e] = pc[e]
  PROVE  Aligned'
<1>1. QueueSound(d)
  BY DEF Aligned
<1>2. QueueSound(d)' /\ \A row : Queued(d, row) => Carried(d, row)'
  <2>1. /\ j \in 0 .. Len(outbox[d]) /\ new \in Seq(Row) /\ Len(new) = Len(outbox[d]) - j
        /\ \A i \in DOMAIN new : new[i] = outbox[d][i + j]
        /\ \A i \in 1 .. j : Known(d, outbox[d][i])
    BY DEF LeftOf
  <2> QED  BY <1>1, <2>1, SoundByDrop
<1>3. \A e \in Device : nextSeq'[e] = nextSeq[e]
  OBVIOUS
<1> QED  BY <1>2, <1>3, AlignedByOne DEF Placed

\* Nothing leaves the queue.
LEMMA AlignedByReading ==
  ASSUME Plain, Plain', Placed, Placed', Aligned, NEW d \in Device,
         UNCHANGED <<outbox, log, stray, nextSeq, claimed>>,
         \A i \in DOMAIN outbox[d] : \A s \in DOMAIN log :
           Holds(d, s, outbox[d][i]) => s > cursor'[d] /\ \A t \in received'[d] : t < s,
         pc'[d] # "claimed",
         \A e \in Device : e # d => /\ cursor'[e] = cursor[e] /\ received'[e] = received[e]
                                    /\ pc'[e] = pc[e]
  PROVE  Aligned'
<1> DEFINE new == outbox[d]
           n == Len(outbox[d])
<1>1. new \in Seq(Row) /\ n \in Nat /\ 0 \in 0 .. n /\ DOMAIN new = 1 .. n /\ Len(new) = n
  BY DEF Plain, Queues
<1>2. claimed'[d] =< BatchLimit
  BY DEF Aligned, QueueSound, Attempted
<1>3. outbox'[d] = new /\ n - 0 = n
  BY <1>1
<1>4. \A i \in DOMAIN new : new[i] = outbox[d][i + 0]
  BY <1>1
<1>5. \A i \in 1 .. 0 : Known(d, outbox[d][i])
  OBVIOUS
<1>6. Len(new) = Len(outbox[d]) - 0
  BY <1>1
<1>7. LeftOf(d, 0, new)
  BY <1>1, <1>4, <1>5, <1>6 DEF LeftOf
<1>8. \A i \in DOMAIN outbox[d] : \A s \in DOMAIN log :
        0 < i /\ Holds(d, s, outbox[d][i]) => s > cursor'[d] /\ \A t \in received'[d] : t < s
  OBVIOUS
<1> HIDE DEF new
<1> QED  BY <1>2, <1>3, <1>7, <1>8, AlignedByDrop

\* Reading on, or rebuilding with an empty queue.
LEMMA AlignedByPull ==
  ASSUME Plain, Plain', Placed, Placed', Aligned, NEW d \in Device,
         PullDuplicate(d) \/ PullRemote(d) \/ Rebuild(d)
  PROVE  Aligned'
<1>0. /\ cursor[d] \in Nat /\ QueueSound(d) /\ DOMAIN log \subseteq Nat
      /\ UNCHANGED <<outbox, log, stray, nextSeq, claimed>>
  BY DEF Plain, Shown, Services, Aligned, PullDuplicate, PullRemote, Rebuild, worker, service
<1>1. CASE PullDuplicate(d)
  <2>1. /\ cursor' = [cursor EXCEPT ![d] = @ + 1] /\ UNCHANGED <<received, pc>> /\ pc[d] = "pull"
        /\ cursor[d] + 1 \in received[d]
    BY <1>1 DEF PullDuplicate, InLog, worker
  <2>2. cursor'[d] = cursor[d] + 1 /\ \A e \in Device : e # d => cursor'[e] = cursor[e]
    BY <2>1 DEF Plain, Shown
  <2>3. \A i \in DOMAIN outbox[d] : \A s \in DOMAIN log :
          Holds(d, s, outbox[d][i]) => s > cursor[d] + 1 /\ \A t \in received[d] : t < s
    BY <1>0, <2>1 DEF QueueSound, InOrder
  <2>4. \A i \in DOMAIN outbox[d] : \A s \in DOMAIN log :
          Holds(d, s, outbox[d][i]) => s > cursor'[d] /\ \A t \in received'[d] : t < s
    BY <2>1, <2>2, <2>3
  <2> QED  BY <1>0, <2>1, <2>2, <2>4, AlignedByReading
<1>2. CASE PullRemote(d)
  <2>1. /\ cursor' = [cursor EXCEPT ![d] = cursor[d] + 1]
        /\ received' = [received EXCEPT ![d] = @ \cup {cursor[d] + 1}]
        /\ UNCHANGED pc /\ pc[d] = "pull" /\ Echoed(d, cursor[d] + 1) = {}
    BY <1>2 DEF PullRemote, InLog, worker, Incorporate
  <2>2. /\ cursor'[d] = cursor[d] + 1 /\ \A e \in Device : e # d => cursor'[e] = cursor[e]
        /\ received'[d] \subseteq received[d] \cup {cursor[d] + 1}
        /\ \A e \in Device : e # d => received'[e] = received[e]
    BY <2>1, <1>2 DEF Plain, Shown
  <2>3. ASSUME NEW i \in DOMAIN outbox[d], NEW s \in DOMAIN log, Holds(d, s, outbox[d][i])
        PROVE  s > cursor[d] + 1 /\ \A t \in received[d] : t < s
    <3>1. s # cursor[d] + 1
      BY <2>1, <2>3 DEF Echoed, Holds
    <3>2. s > cursor[d] /\ \A t \in received[d] : t < s
      BY <1>0, <2>3 DEF QueueSound, InOrder
    <3> QED  BY <1>0, <3>1, <3>2
  <2>4. \A i \in DOMAIN outbox[d] : \A s \in DOMAIN log :
          Holds(d, s, outbox[d][i]) => s > cursor'[d] /\ \A t \in received'[d] : t < s
    BY <2>2, <2>3
  <2> QED  BY <1>0, <2>1, <2>2, <2>4, AlignedByReading
<1>3. CASE Rebuild(d)
  <2>1. /\ outbox[d] = << >>
        /\ cursor' = [cursor EXCEPT ![d] = archive[d].seq]
        /\ received' = [received EXCEPT ![d] = {}]
        /\ pc' = [pc EXCEPT ![d] = "rebuilt"]
    BY <1>3 DEF Rebuild
  <2>2. /\ \A e \in Device : e # d => cursor'[e] = cursor[e] /\ received'[e] = received[e] /\ pc'[e] = pc[e]
        /\ pc'[d] = "rebuilt" /\ DOMAIN outbox[d] = {}
    BY <2>1 DEF Plain, Workers
  <2>3. \A i \in DOMAIN outbox[d] : \A s \in DOMAIN log :
          Holds(d, s, outbox[d][i]) => s > cursor'[d] /\ \A t \in received'[d] : t < s
    BY <2>2
  <2> QED  BY <1>0, <2>2, <2>3, AlignedByReading
<1> QED  BY <1>1, <1>2, <1>3

\* The echo takes the row at the head away.
LEMMA AlignedByEcho ==
  ASSUME Plain, Plain', Placed, Placed', Followed, Aligned, NEW d \in Device, PullEcho(d)
  PROVE  Aligned'
<1>1. PICK i \in Echoed(d, cursor[d] + 1) :
        /\ outbox' = [outbox EXCEPT ![d] = RemoveAt(@, i)]
        /\ claimed' = [claimed EXCEPT ![d] = ClaimAfterEcho(d, i)]
  BY DEF PullEcho
<1>2. /\ InLog(d) /\ pc[d] = "pull" /\ UNCHANGED <<pc, log, stray, nextSeq>>
      /\ cursor' = [cursor EXCEPT ![d] = cursor[d] + 1]
      /\ received' = [received EXCEPT ![d] = @ \cup {cursor[d] + 1}]
  BY DEF PullEcho, InLog, worker, service, Incorporate
<1>3. QueueSound(d) /\ cursor[d] \in Nat /\ outbox[d] \in Seq(Row) /\ claimed[d] \in Nat
      /\ DOMAIN log \subseteq Nat
  BY DEF Aligned, Plain, Shown, Queues, Services
<1>4. /\ i = 1 /\ i \in DOMAIN outbox[d] /\ Known(d, outbox[d][i])
      /\ cursor[d] + 1 \in DOMAIN log /\ Holds(d, cursor[d] + 1, outbox[d][i])
  BY <1>2, <1>3, EchoIsFirst DEF Placed
<1> DEFINE left == RemoveAt(outbox[d], 1)
           n == Len(outbox[d])
<1>5. /\ left \in Seq(Row) /\ Len(left) = n - 1 /\ n \in Nat /\ n >= 1 /\ 1 \in 0 .. n
      /\ \A j \in 1 .. n - 1 : left[j] = IF j < 1 THEN outbox[d][j] ELSE outbox[d][j + 1]
  BY <1>3, <1>4, RowsWithout
<1>6. /\ outbox'[d] = left /\ claimed'[d] = ClaimAfterEcho(d, 1)
      /\ \A e \in Device : e # d => outbox'[e] = outbox[e] /\ claimed'[e] = claimed[e]
  BY <1>1, <1>4 DEF Plain, Queues
<1> HIDE DEF left, n
<1>7. \A j \in DOMAIN left : left[j] = outbox[d][j + 1]
  <2>1. DOMAIN left = 1 .. n - 1 /\ \A j \in 1 .. n - 1 : ~(j < 1)
    BY <1>5
  <2> QED  BY <1>5, <2>1
<1>8. claimed'[d] =< BatchLimit
  <2>1. claimed[d] =< BatchLimit /\ BatchLimit \in Nat
    BY <1>3, BoundsAssumption DEF QueueSound, Attempted
  <2> QED  BY <1>3, <1>6, <2>1 DEF ClaimAfterEcho
<1>9. /\ cursor'[d] = cursor[d] + 1 /\ received'[d] = received[d] \cup {cursor[d] + 1}
      /\ \A e \in Device : e # d => cursor'[e] = cursor[e] /\ received'[e] = received[e]
  BY <1>2 DEF Plain, Shown, Followed
<1>10. ASSUME NEW j \in DOMAIN outbox[d], NEW s \in DOMAIN log, 1 < j, Holds(d, s, outbox[d][j])
       PROVE  s > cursor'[d] /\ \A t \in received'[d] : t < s
  <2>1. cursor[d] + 1 < s /\ \A t \in received[d] : t < s
    BY <1>3, <1>4, <1>10 DEF QueueSound, InOrder
  <2> QED  BY <1>3, <1>9, <2>1
<1>11. \A j \in 1 .. 1 : Known(d, outbox[d][j])
  BY <1>4
<1>12. /\ Len(left) = Len(outbox[d]) - 1 /\ 1 \in 0 .. Len(outbox[d])
       /\ pc'[d] # "claimed" /\ UNCHANGED <<log, stray, nextSeq>>
       /\ \A e \in Device : e # d => /\ outbox'[e] = outbox[e] /\ claimed'[e] = claimed[e]
                                   /\ cursor'[e] = cursor[e] /\ received'[e] = received[e]
                                   /\ pc'[e] = pc[e]
  BY <1>2, <1>5, <1>6, <1>9 DEF n
<1>13. \A j \in DOMAIN outbox[d] : \A s \in DOMAIN log :
         1 < j /\ Holds(d, s, outbox[d][j]) => s > cursor'[d] /\ \A t \in received'[d] : t < s
  BY <1>10
<1>14. LeftOf(d, 1, left)
  BY <1>5, <1>7, <1>11, <1>12 DEF LeftOf
<1> QED  BY <1>6, <1>8, <1>12, <1>13, <1>14, AlignedByDrop

\* An answer takes the claimed rows away.
LEMMA AlignedByAcknowledge ==
  ASSUME Plain, Plain', Placed, Placed', Followed, Aligned, NEW d \in Device, Acknowledge(d)
  PROVE  Aligned'
<1>1. /\ received' = [received EXCEPT ![d] = @ \cup SequencesOf(d, 1 .. claimed[d])]
      /\ cursor' = [cursor EXCEPT ![d] = @ + Contiguous(d)]
      /\ outbox' = [outbox EXCEPT ![d] = Unclaimed(d)]
      /\ claimed' = [claimed EXCEPT ![d] = 0]
      /\ pc' = [pc EXCEPT ![d] = "push"] /\ pc[d] = "accepted"
      /\ UNCHANGED <<log, stray, nextSeq>>
  BY DEF Acknowledge, service
<1>2. /\ QueueSound(d) /\ cursor[d] \in Nat /\ outbox[d] \in Seq(Row) /\ claimed[d] \in 0 .. Len(outbox[d])
      /\ DOMAIN log \subseteq Nat /\ Len(outbox[d]) \in Nat /\ DOMAIN outbox[d] = 1 .. Len(outbox[d])
      /\ BatchLimit \in Nat
  <2>1. outbox[d] \in Seq(Row) /\ claimed[d] \in Nat /\ claimed[d] =< Len(outbox[d]) /\ log \in Seq(Entry)
    BY DEF Plain, Queues, Claims, Services
  <2> QED  BY <2>1, BoundsAssumption DEF Aligned, Plain, Shown
<1> DEFINE new == Unclaimed(d)
           k == Contiguous(d)
<1>3. /\ new \in Seq(Row) /\ Len(new) = Len(outbox[d]) - claimed[d]
      /\ \A i \in DOMAIN new : new[i] = outbox[d][i + claimed[d]]
  BY UnclaimedRows
<1>4. k \in 0 .. claimed[d] /\ \A i \in 1 .. k : SequenceOf(d, outbox[d][i]) = cursor[d] + i
  BY ContiguousRows
<1> HIDE DEF new, k
<1>5. /\ outbox'[d] = new /\ claimed'[d] = 0 /\ pc'[d] = "push" /\ cursor'[d] = cursor[d] + k
      /\ received'[d] = received[d] \cup SequencesOf(d, 1 .. claimed[d])
      /\ \A e \in Device : e # d => /\ outbox'[e] = outbox[e] /\ claimed'[e] = claimed[e]
                                  /\ cursor'[e] = cursor[e] /\ received'[e] = received[e]
                                  /\ pc'[e] = pc[e]
  BY <1>1 DEF Plain, Queues, Shown, Workers, Followed, new, k
<1>6. ASSUME NEW i \in 1 .. claimed[d]
      PROVE  /\ i \in DOMAIN outbox[d] /\ Known(d, outbox[d][i])
             /\ SequenceOf(d, outbox[d][i]) \in DOMAIN log
             /\ Holds(d, SequenceOf(d, outbox[d][i]), outbox[d][i])
  <2>1. i \in DOMAIN outbox[d]
    BY <1>2
  <2>2. Known(d, outbox[d][i])
    BY <1>1 DEF Placed, ClaimHolds
  <2> QED  BY <2>1, <2>2, OneSequence DEF Placed
<1>7. ASSUME NEW i \in DOMAIN outbox[d], NEW s \in DOMAIN log, claimed[d] < i, Holds(d, s, outbox[d][i])
      PROVE  s > cursor'[d] /\ \A t \in received'[d] : t < s
  <2>1. s > cursor[d] /\ \A t \in received[d] : t < s
    BY <1>2, <1>7 DEF QueueSound, InOrder
  <2>2. ASSUME NEW x \in 1 .. claimed[d]
        PROVE  SequenceOf(d, outbox[d][x]) < s
    <3>1. x < i
      BY <1>2, <1>7
    <3> QED  BY <1>2, <1>6, <1>7, <3>1 DEF QueueSound, InOrder
  <2>3. \A t \in SequencesOf(d, 1 .. claimed[d]) : t < s
    BY <2>2 DEF SequencesOf
  <2>4. s > cursor[d] + k
    <3>1. CASE k = 0
      BY <1>2, <2>1, <3>1
    <3>2. CASE k # 0
      <4>1. k \in 1 .. k /\ k \in 1 .. claimed[d]
        BY <1>2, <1>4, <3>2
      <4>2. SequenceOf(d, outbox[d][k]) < s /\ SequenceOf(d, outbox[d][k]) = cursor[d] + k
        BY <1>4, <2>2, <4>1
      <4> QED  BY <1>2, <4>1, <4>2
    <3> QED  BY <3>1, <3>2
  <2> QED  BY <1>5, <2>1, <2>3, <2>4
<1>8. /\ \A i \in 1 .. claimed[d] : Known(d, outbox[d][i])
      /\ claimed'[d] =< BatchLimit /\ pc'[d] # "claimed"
      /\ \A i \in DOMAIN outbox[d] : \A s \in DOMAIN log :
           claimed[d] < i /\ Holds(d, s, outbox[d][i]) => s > cursor'[d] /\ \A t \in received'[d] : t < s
  BY <1>2, <1>5, <1>6, <1>7
<1>9. LeftOf(d, claimed[d], new)
  BY <1>2, <1>3, <1>8 DEF LeftOf
<1> QED  BY <1>1, <1>5, <1>8, <1>9, AlignedByDrop

\* Rows nobody has leave the queue for the user to see; what is left is numbered
\* from where the head was.
LEMMA AlignedByPark ==
  ASSUME Plain, Plain', Placed, Placed', Aligned, NEW d \in Device,
         NEW gone \in SUBSET (DOMAIN outbox[d]), gone # {}, NEW reason,
         Park(d, gone, reason), UNCHANGED <<log, stray>>,
         \A i \in DOMAIN outbox[d] : ~Known(d, outbox[d][i]),
         \A i \in DOMAIN outbox[d] :
           Sent(d, outbox[d][i].id) => i \in gone /\ outbox[d][i].op.body \in Refused
  PROVE  Aligned'
<1> DEFINE n == Len(outbox[d])
           h == DeviceHead(d)
           head == outbox[d][1].cseq
<1>0. /\ outbox[d] \in Seq(Row) /\ QueueSound(d) /\ n \in Nat /\ h \in Nat /\ nextSeq[d] \in Nat
      /\ DOMAIN outbox[d] = 1 .. n /\ n = Len(outbox[d])
  BY HeadType DEF Plain, Queues, Aligned
<1>1. 1 \in DOMAIN outbox[d] /\ n >= 1 /\ head \in Nat
  <2>1. n >= 1
    BY <1>0
  <2>2. outbox[d][1] \in Row
    BY <1>0, <2>1
  <2> QED  BY <1>0, <2>1, <2>2 DEF Row
<1>2. PICK kept \in SetToSeqs(DOMAIN outbox[d] \ gone) :
        /\ \A i, j \in DOMAIN kept : i < j => kept[i] < kept[j]
        /\ outbox' = [outbox EXCEPT ![d] = KeptAs(outbox[d], kept, outbox[d][1].cseq)]
        /\ nextSeq' = [nextSeq EXCEPT ![d] = outbox[d][1].cseq + Len(kept)]
  BY DEF Park, KeptAs
<1> DEFINE left == KeptAs(outbox[d], kept, head)
           m == Len(kept)
<1>3. /\ claimed' = [claimed EXCEPT ![d] = 0] /\ pc' = [pc EXCEPT ![d] = "push"]
      /\ UNCHANGED <<cursor, received>>
  BY DEF Park, canonical
<1>4. /\ outbox'[d] = left /\ nextSeq'[d] = head + m /\ claimed'[d] = 0 /\ pc'[d] = "push"
      /\ \A e \in Device : e # d => /\ outbox'[e] = outbox[e] /\ nextSeq'[e] = nextSeq[e]
                                    /\ claimed'[e] = claimed[e] /\ pc'[e] = pc[e]
  BY <1>2, <1>3 DEF Plain, Queues, Workers
<1>n. left = KeptAs(outbox[d], kept, head)
  OBVIOUS
<1>g. DOMAIN outbox[d] \ gone \in SUBSET (DOMAIN outbox[d])
  OBVIOUS
<1>f. left = [i \in DOMAIN kept |-> [outbox[d][kept[i]] EXCEPT !.cseq = head + i - 1]]
  BY DEF KeptAs, Renumbered
<1> HIDE DEF left, head
<1>5. /\ kept \in Seq(DOMAIN outbox[d] \ gone) /\ left \in Seq(Row) /\ Len(left) = m
      /\ \A i \in DOMAIN kept : left[i].id = outbox[d][kept[i]].id
  BY <1>0, <1>1, <1>n, <1>g, KeptRows
<1>6. m \in Nat /\ DOMAIN kept = 1 .. m /\ DOMAIN left = 1 .. m
  BY <1>5
<1>7. ASSUME NEW i \in 1 .. m
      PROVE  /\ kept[i] \in DOMAIN outbox[d] /\ kept[i] \notin gone /\ left[i].id = outbox[d][kept[i]].id
             /\ left[i].cseq = head + i - 1 /\ left[i].attempts = outbox[d][kept[i]].attempts
  <2>1. kept[i] \in DOMAIN outbox[d] /\ kept[i] \notin gone /\ left[i].id = outbox[d][kept[i]].id
    BY <1>5, <1>6
  <2>2. outbox[d][kept[i]] \in Row
    BY <1>0, <2>1
  <2>3. left[i] = [outbox[d][kept[i]] EXCEPT !.cseq = head + i - 1]
    BY <1>f, <1>6
  <2> QED  BY <2>1, <2>2, <2>3 DEF Row
<1>p. PICK new \in Seq(Row) : new = left
  BY <1>5
<1>q. /\ Len(new) = m /\ DOMAIN new = 1 .. m /\ outbox'[d] = new
      /\ \A i \in 1 .. m : /\ new[i].id = outbox[d][kept[i]].id /\ new[i].cseq = head + i - 1
                         /\ new[i].attempts = outbox[d][kept[i]].attempts
  BY <1>4, <1>5, <1>6, <1>7, <1>p
<1>8. head = h + 1
  <2>1. head = nextSeq[d] - n + 1 - 1
    BY <1>0, <1>1 DEF QueueSound, Numbered, head
  <2>2. PICK k \in Nat : KnownTo(d, k)
    BY <1>0 DEF QueueSound
  <2>3. k \in 0 .. n /\ nextSeq[d] = h + 1 + n - k /\ ~(1 =< k)
    BY <1>1, <2>2 DEF KnownTo
  <2> HIDE DEF n, h
  <2>4. k = 0
    BY <1>0, <2>3
  <2>5. nextSeq[d] = h + 1 + n
    BY <1>0, <2>3, <2>4
  <2> QED  BY <1>0, <2>1, <2>5
<1>9. /\ DeviceHead(d)' = h /\ \A row : Known(d, row)' <=> Known(d, row)
      /\ \A id : Sent(d, id)' <=> Sent(d, id)
  BY DEF DeviceHead, Known, Sent
<1> HIDE DEF n, h, m
<1>10. \A i \in DOMAIN new : ~Known(d, new[i])' /\ ~Sent(d, new[i].id)'
  <2>1. \A i \in DOMAIN new : ~Known(d, new[i]) /\ ~Sent(d, new[i].id)
    BY <1>6, <1>7, <1>q DEF Known
  <2> QED  BY <1>9, <2>1
<1>11. Numbered(d)'
  <2>1. \A i \in DOMAIN new : new[i].cseq = head + m - Len(new) + i - 1
    <3> SUFFICES ASSUME NEW i \in 1 .. m
                 PROVE  new[i].cseq = head + m - Len(new) + i - 1
      BY <1>6, <1>q
    <3>1. head + m - Len(new) + i - 1 = head + i - 1
      BY <1>1, <1>5, <1>6, <1>q
    <3> QED  BY <1>7, <1>q, <3>1
  <2>2. nextSeq'[d] = head + m /\ head + m \in Nat
    BY <1>1, <1>4, <1>6
  <2>3. \A i \in DOMAIN new : new[i].cseq = nextSeq'[d] - Len(new) + i - 1
    BY <1>1, <1>6, <1>q, <2>1, <2>2
  <2> QED  BY <1>q, <2>3 DEF Numbered
<1>12. KnownTo(d, 0)'
  <2>1. 0 \in 0 .. Len(new) /\ head + m = h + 1 + Len(new) - 0 /\ Len(new) \in Nat
    BY <1>0, <1>5, <1>6, <1>8, <1>q
  <2>2. \A i \in DOMAIN new : Known(d, new[i])' <=> i =< 0
    BY <1>6, <1>10, <1>q
  <2> QED  BY <1>q, <1>4, <1>9, <2>1, <2>2 DEF KnownTo
<1>13. Recorded(d)' /\ InOrder(d)'
  <2>1. \A i \in DOMAIN new, s \in DOMAIN log' : ~Holds(d, s, new[i])'
    BY <1>10 DEF Known, Holds
  <2> QED  BY <1>q, <1>4, <2>1 DEF Recorded, InOrder
<1>14. Attempted(d)'
  <2>1. Attempted(d) /\ BatchLimit \in Nat
    BY <1>0, BoundsAssumption DEF QueueSound
  <2>2. ASSUME NEW i \in DOMAIN new, new[i].attempts > 0
        PROVE  (BatchLimit = 1 => i = 1) /\ \A j \in DOMAIN new : j < i => new[j].attempts > 0
    <3>1. outbox[d][kept[i]].attempts > 0 /\ kept[i] \in DOMAIN outbox[d]
      BY <1>6, <1>7, <1>q, <2>2
    <3>2. ASSUME BatchLimit = 1
          PROVE  i = 1
      <4>1. kept[i] = 1
        BY <2>1, <3>1, <3>2 DEF Attempted
      <4>2. CASE i # 1
        <5>1. 1 \in DOMAIN kept /\ i \in DOMAIN kept /\ 1 < i
          BY <1>6, <1>q, <4>2
        <5>2. kept[1] < kept[i] /\ kept[1] \in 1 .. n
          BY <1>0, <1>2, <1>6, <1>7, <1>q, <5>1
        <5> QED  BY <4>1, <5>2, <1>0
      <4> QED  BY <4>2
    <3>3. ASSUME NEW j \in DOMAIN new, j < i
          PROVE  new[j].attempts > 0
      <4>1. kept[j] < kept[i] /\ kept[j] \in DOMAIN outbox[d]
        BY <1>2, <1>6, <1>7, <1>q, <3>3
      <4>2. outbox[d][kept[j]].attempts > 0
        BY <2>1, <3>1, <4>1 DEF Attempted
      <4> QED  BY <1>6, <1>7, <1>q, <4>2
    <3> QED  BY <3>2, <3>3
  <2>3. claimed'[d] =< BatchLimit /\ pc'[d] # "claimed"
    BY <1>q, <1>4, <2>1
  <2> QED  BY <1>q, <1>4, <1>10, <2>2, <2>3 DEF Attempted
<1>15. QueueSound(d)'
  BY <1>11, <1>12, <1>13, <1>14 DEF QueueSound
<1>16. ASSUME NEW r \in stray, NEW x \in DOMAIN r.rows, r.dev = d, Queued(d, r.rows[x])
       PROVE  Carried(d, r.rows[x])'
  <2>1. PICK i \in DOMAIN outbox[d] : outbox[d][i].id = r.rows[x].id /\ outbox[d][i].op = r.rows[x].op
    BY <1>16 DEF Queued
  <2>2. Sent(d, outbox[d][i].id)
    BY <1>16, <2>1 DEF Sent, IdsIn
  <2>3. r.rows[x].op.body \in Refused
    BY <2>1, <2>2
  <2> QED  BY <2>3 DEF Carried
<1>17. UNCHANGED <<log, stray>> /\ \A e \in Device : cursor'[e] = cursor[e] /\ received'[e] = received[e]
  BY <1>3
<1> QED  BY <1>q, <1>4, <1>15, <1>16, <1>17, AlignedByOne DEF Placed

\* Images that are gone are parked when no row of the claim was tried before.
LEMMA AlignedByMissing ==
  ASSUME Plain, Plain', Placed, Placed', Aligned, NEW d \in Device, ParkMissing(d)
  PROVE  Aligned'
<1>1. /\ pc[d] = "claimed" /\ ~TriedBefore(d) /\ Missing(d) # {}
      /\ Park(d, Missing(d), "asset_missing") /\ UNCHANGED <<log, stray>>
  BY DEF ParkMissing, service
<1>2. Missing(d) \in SUBSET (DOMAIN outbox[d])
  <2>1. claimed[d] \in Nat /\ claimed[d] =< Len(outbox[d]) /\ DOMAIN outbox[d] = 1 .. Len(outbox[d])
        /\ Len(outbox[d]) \in Nat
    BY DEF Plain, Queues, Claims
  <2> QED  BY <2>1 DEF Missing
<1>3. \A i \in DOMAIN outbox[d] : ~Sent(d, outbox[d][i].id)
  BY <1>1 DEF Aligned, QueueSound, Attempted
<1>4. \A i \in DOMAIN outbox[d] : ~Known(d, outbox[d][i])
  BY <1>3 DEF Sent, Known
<1> QED  BY <1>1, <1>2, <1>3, <1>4, AlignedByPark

\* A batch is refused for a body only: its numbers are those the service expects.
LEMMA RefusedForABody ==
  ASSUME Plain, Placed, Aligned, NEW d \in Device, NEW k \in Nat, KnownTo(d, k),
         \A known \in 0 .. claimed[d] : ~Admits(d, Batch(d), known)
  PROVE  \E i \in 1 .. claimed[d] : k < i /\ outbox[d][i].op.body \in Refused
<1> DEFINE n == Len(outbox[d])
           h == DeviceHead(d)
           c == claimed[d]
           known == IF k =< c THEN k ELSE c
<1>1. /\ Batch(d) \in Seq(Row) /\ Len(Batch(d)) = c /\ QueueSound(d) /\ c \in 0 .. n
      /\ \A i \in 1 .. c : Batch(d)[i] = outbox[d][i]
      /\ DOMAIN outbox[d] = 1 .. n /\ n \in Nat /\ h \in Nat /\ nextSeq[d] \in Nat
  BY BatchRows, HeadType DEF Aligned, Plain, Queues
<1>2. /\ k \in 0 .. n /\ nextSeq[d] = h + 1 + n - k
      /\ \A i \in DOMAIN outbox[d] : Known(d, outbox[d][i]) <=> i =< k
  BY DEF KnownTo
<1>3. known \in 0 .. claimed[d] /\ known \in Nat /\ known =< k
      /\ \A i \in known + 1 .. c : k < i /\ i \in 1 .. c /\ i - known = i - k
  BY <1>1
<1>c. c = claimed[d]
  OBVIOUS
<1>4. ~Admits(d, Batch(d), known)
  BY <1>3
<1>n. \A i \in DOMAIN outbox[d] : outbox[d][i].cseq = nextSeq[d] - n + i - 1
  BY <1>1 DEF QueueSound, Numbered
<1> HIDE DEF known, h, n, c
<1>5. ASSUME NEW i \in 1 .. known
      PROVE  Known(d, Batch(d)[i]) /\ log[SequenceOf(d, Batch(d)[i])] = EntryOf(d, Batch(d)[i])
  <2>1. i \in 1 .. c /\ i \in DOMAIN outbox[d] /\ i =< k
    BY <1>1, <1>3, <1>c
  <2>2. Known(d, outbox[d][i])
    BY <1>2, <2>1
  <2>3. SequenceOf(d, outbox[d][i]) \in DOMAIN log /\ Holds(d, SequenceOf(d, outbox[d][i]), outbox[d][i])
    BY <2>2, OneSequence DEF Placed
  <2>4. log[SequenceOf(d, outbox[d][i])] = EntryOf(d, outbox[d][i])
    BY <1>1, <2>1, <2>3 DEF QueueSound, Recorded
  <2> QED  BY <1>1, <2>1, <2>2, <2>4
<1>6. ASSUME NEW i \in known + 1 .. c
      PROVE  /\ k < i /\ i \in 1 .. c /\ Batch(d)[i] = outbox[d][i]
             /\ ~Known(d, Batch(d)[i]) /\ Batch(d)[i].cseq = h + i - known
  <2>1. k < i /\ i \in 1 .. c /\ i - known = i - k
    BY <1>3
  <2>2. i \in DOMAIN outbox[d] /\ i \in Nat
    BY <1>1, <2>1
  <2>3. outbox[d][i].cseq = nextSeq[d] - n + i - 1
    BY <1>n, <2>2
  <2>4. nextSeq[d] - n + i - 1 = h + i - known
    BY <1>1, <1>2, <1>3, <2>1, <2>2
  <2>5. ~Known(d, outbox[d][i])
    BY <1>2, <2>1, <2>2
  <2> QED  BY <1>1, <2>1, <2>3, <2>4, <2>5
<1>7. \E i \in known + 1 .. c : Batch(d)[i].op.body \in Refused
  BY <1>1, <1>4, <1>5, <1>6 DEF Admits, h
<1> QED  BY <1>6, <1>7, <1>c

\* A batch that is refused is one row, which was never accepted, and nothing
\* queued behind it was sent.
LEMMA RefusedAlone ==
  ASSUME BatchLimit = 1 \/ Refused = {}, Plain, Placed, Aligned, NEW d \in Device,
         \A known \in 0 .. claimed[d] : ~Admits(d, Batch(d), known)
  PROVE  /\ claimed[d] = 1 /\ 1 \in DOMAIN outbox[d] /\ outbox[d][1].op.body \in Refused
         /\ \A i \in DOMAIN outbox[d] : ~Known(d, outbox[d][i]) /\ (Sent(d, outbox[d][i].id) => i = 1)
<1>1. PICK k \in Nat : KnownTo(d, k)
  BY DEF Aligned, QueueSound
<1>2. PICK i \in 1 .. claimed[d] : k < i /\ outbox[d][i].op.body \in Refused
  BY <1>1, RefusedForABody
<1>3. /\ BatchLimit = 1 /\ Attempted(d) /\ claimed[d] \in Nat /\ claimed[d] =< BatchLimit
      /\ claimed[d] =< Len(outbox[d]) /\ DOMAIN outbox[d] = 1 .. Len(outbox[d]) /\ Len(outbox[d]) \in Nat
  <2>1. Attempted(d)
    BY DEF Aligned, QueueSound
  <2>2. BatchLimit = 1
    BY <1>2
  <2> QED  BY <2>1, <2>2 DEF Attempted, Plain, Queues, Claims
<1>4. i = 1 /\ claimed[d] = 1 /\ k = 0
  BY <1>1, <1>2, <1>3
<1>5. \A x \in DOMAIN outbox[d] : ~Known(d, outbox[d][x])
  <2>1. \A x \in DOMAIN outbox[d] : ~(x =< 0)
    BY <1>3
  <2> QED  BY <1>1, <1>4, <2>1 DEF KnownTo
<1>6. \A x \in DOMAIN outbox[d] : Sent(d, outbox[d][x].id) => x = 1
  BY <1>3 DEF Attempted
<1>7. 1 \in DOMAIN outbox[d]
  BY <1>3, <1>4
<1> QED  BY <1>2, <1>4, <1>5, <1>6, <1>7

\* A step of a worker keeps the queues and the log aligned.
LEMMA AlignedByWorker ==
  ASSUME BatchLimit = 1 \/ Refused = {},
         Plain, Plain', Placed, Placed', Followed, Aligned, NEW d \in Device, Cycle(d) \/ Trouble(d)
  PROVE  Aligned'
<1>1. CASE \/ StartRebuild(d) \/ FetchCheckpoint(d) \/ RefuseRebuild(d) \/ EndPush(d)
           \/ PullTruncated(d) \/ PullDrained(d)
           \/ ExportArchive(d) \/ SkipPublication(d) \/ PublishCheckpoint(d) \/ EndCycle(d)
           \/ StorageFailure(d) \/ \E a \in Asset : LoseAsset(d, a)
  <2>1. UNCHANGED <<outbox, nextSeq, log, stray, cursor, received, claimed>>
    BY <1>1
    DEF StartRebuild, FetchCheckpoint, RefuseRebuild, EndPush, PullTruncated, PullDrained,
        ExportArchive, SkipPublication, PublishCheckpoint, EndCycle, StorageFailure, LoseAsset,
        durable, service
  <2>2. \/ UNCHANGED pc
        \/ \E step \in {"idle", "fetch", "fetched", "rebuilt", "pull", "settled", "exported"} :
             pc' = [pc EXCEPT ![d] = step]
    BY <1>1
    DEF StartRebuild, FetchCheckpoint, RefuseRebuild, EndPush, PullTruncated, PullDrained,
        ExportArchive, SkipPublication, PublishCheckpoint, EndCycle, StorageFailure, LoseAsset, worker
  <2>3. \A e \in Device : pc'[e] = "claimed" => pc[e] = "claimed"
    BY <2>2 DEF Plain, Workers
  <2> QED  BY <2>1, <2>3, AlignedByFrame DEF Placed
<1>2. ASSUME NEW step \in {"pull", "idle", "push"}, claimed' = [claimed EXCEPT ![d] = 0],
             pc' = [pc EXCEPT ![d] = step], UNCHANGED <<outbox, nextSeq, log, stray, cursor, received>>
      PROVE  Aligned'
  <2>1. \A e \in Device : /\ claimed'[e] = claimed[e] \/ (claimed'[e] = 0 /\ pc'[e] # "claimed")
                          /\ pc'[e] = "claimed" => pc[e] = "claimed"
    BY <1>2 DEF Plain, Queues, Workers
  <2> QED  BY <1>2, <2>1, AlignedByFrame DEF Placed
<1>3. CASE ReleaseMissing(d) \/ (\E step \in {"pull", "idle"} : PushFails(d, step)) \/ Crash(d)
  BY <1>2, <1>3 DEF ReleaseMissing, PushFails, Crash, Release, service, canonical
<1>4. CASE PushRefused(d)
  <2>1. /\ pc[d] = "claimed" /\ \A known \in 0 .. claimed[d] : ~Admits(d, Batch(d), known)
        /\ UNCHANGED <<service, history>>
        /\ (Release(d, "pull") \/ Park(d, 1 .. claimed[d], "cloud_rejected"))
    BY <1>4 DEF PushRefused
  <2>2. CASE Release(d, "pull")
    BY <1>2, <2>1, <2>2 DEF Release, service, canonical
  <2>3. CASE Park(d, 1 .. claimed[d], "cloud_rejected")
    <3>1. /\ claimed[d] = 1 /\ 1 \in DOMAIN outbox[d] /\ outbox[d][1].op.body \in Refused
          /\ \A i \in DOMAIN outbox[d] : ~Known(d, outbox[d][i]) /\ (Sent(d, outbox[d][i].id) => i = 1)
      BY <2>1, RefusedAlone
    <3>2. 1 .. claimed[d] = {1}
      BY <3>1
    <3> QED  BY <2>1, <2>3, <3>1, <3>2, AlignedByPark DEF service
  <2> QED  BY <2>1, <2>2, <2>3
<1>5. CASE \E step \in {"pull", "idle"} : PushTimesOut(d, step)
  BY <1>5, AlignedByTimeout
<1> QED
  BY <1>1, <1>3, <1>4, <1>5, AlignedByRequeue, AlignedByClaim, AlignedByMissing, AlignedByPush,
     AlignedByAcknowledge, AlignedByEcho, AlignedByPull
  DEF Cycle, Trouble

\* In every state the devices can reach each queue is aligned with the log and
\* with the requests on their way.
LEMMA AlignedHolds ==
  ASSUME BatchLimit = 1 \/ Refused = {}
  PROVE  Spec => []Aligned
<1>1. Init => Aligned
  <2>0. Init => StraysSound
    BY DEF Init, StraysSound
  <2> SUFFICES ASSUME Init, NEW d \in Device
               PROVE  QueueSound(d)
    BY <2>0 DEF Aligned
  <2>1. /\ outbox[d] = << >> /\ claimed[d] = 0 /\ nextSeq[d] = 1 /\ pc[d] = "idle"
        /\ log = << >> /\ stray = {}
    BY DEF Init
  <2>2. DOMAIN outbox[d] = {} /\ Len(outbox[d]) = 0 /\ DOMAIN log = {}
    BY <2>1
  <2>3. DeviceHead(d) = 0
    BY <2>2, FS_EmptySet DEF DeviceHead
  <2>4. KnownTo(d, 0)
    BY <2>1, <2>2, <2>3 DEF KnownTo
  <2>5. Numbered(d) /\ Recorded(d) /\ InOrder(d) /\ Attempted(d)
    BY <2>1, <2>2, BoundsAssumption DEF Numbered, Recorded, InOrder, Attempted
  <2> QED  BY <2>4, <2>5 DEF QueueSound
<1>2. Plain /\ Plain' /\ Placed /\ Placed' /\ Followed /\ Aligned /\ [Next]_vars => Aligned'
  <2> SUFFICES ASSUME Plain, Plain', Placed, Placed', Followed, Aligned, [Next]_vars
               PROVE  Aligned'
    OBVIOUS
  <2>1. CASE UNCHANGED vars
    BY <2>1, AlignedByFrame DEF Placed, vars, durable, worker, service, history
  <2>2. ASSUME NEW f \in 1 .. ckpt.seq, Compact(f)
        PROVE  Aligned'
    BY <2>2, AlignedByFrame DEF Placed, Compact, durable, worker, history
  <2> QED  BY <2>1, <2>2, AlignedByUser, AlignedByWorker, AlignedByStray DEF Next
<1> QED  BY <1>1, <1>2, PlainHolds, PlacedHolds, FollowedHolds, PTL DEF Spec

\* No batch is refused for its numbers: the rows of a queue are numbered without
\* a gap, those the service has are the oldest and as it recorded them, and the
\* next one is the one it expects (claim_sync_operations, pushTransaction).
THEOREM OutboxAlignedHolds ==
  ASSUME BatchLimit = 1 \/ Refused = {}
  PROVE  Spec => []OutboxAligned
<1>1. Plain /\ Placed /\ Aligned => OutboxAligned
  <2> SUFFICES ASSUME Plain, Placed, Aligned, NEW d \in Device, NEW i \in DOMAIN outbox[d]
               PROVE  /\ outbox[d][i].cseq = nextSeq[d] - Len(outbox[d]) + i - 1
                      /\ Known(d, outbox[d][i]) =>
                           log[SequenceOf(d, outbox[d][i])] = EntryOf(d, outbox[d][i])
                      /\ ~Known(d, outbox[d][i]) /\ (i = 1 \/ Known(d, outbox[d][i - 1])) =>
                           outbox[d][i].cseq = DeviceHead(d) + 1
    BY DEF OutboxAligned
  <2> DEFINE n == Len(outbox[d])
             h == DeviceHead(d)
  <2>1. QueueSound(d)
    BY DEF Aligned
  <2>2. outbox[d][i].cseq = nextSeq[d] - n + i - 1
    BY <2>1 DEF QueueSound, Numbered
  <2>3. ASSUME Known(d, outbox[d][i])
        PROVE  log[SequenceOf(d, outbox[d][i])] = EntryOf(d, outbox[d][i])
    BY <2>1, <2>3, OneSequence DEF Placed, QueueSound, Recorded
  <2>4. ASSUME ~Known(d, outbox[d][i]), i = 1 \/ Known(d, outbox[d][i - 1])
        PROVE  outbox[d][i].cseq = h + 1
    <3>1. PICK k \in Nat : KnownTo(d, k)
      BY <2>1 DEF QueueSound
    <3>2. /\ k \in 0 .. n /\ nextSeq[d] = h + 1 + n - k
          /\ \A j \in DOMAIN outbox[d] : Known(d, outbox[d][j]) <=> j =< k
      BY <3>1 DEF KnownTo
    <3>3. n \in Nat /\ h \in Nat /\ DOMAIN outbox[d] = 1 .. n /\ nextSeq[d] \in Nat
      BY HeadType DEF Plain, Queues
    <3> HIDE DEF n, h
    <3>4. i = k + 1
      <4>1. ~(i =< k) /\ i \in 1 .. n
        BY <2>4, <3>2, <3>3
      <4>2. CASE i = 1
        BY <3>2, <3>3, <4>1, <4>2
      <4>3. CASE i # 1
        <5>1. i - 1 \in DOMAIN outbox[d]
          BY <3>3, <4>1, <4>3
        <5>2. i - 1 =< k
          BY <2>4, <3>2, <4>3, <5>1
        <5> QED  BY <3>2, <3>3, <4>1, <5>2
      <4> QED  BY <4>2, <4>3
    <3> QED  BY <2>2, <3>2, <3>3, <3>4
  <2> QED  BY <2>2, <2>3, <2>4
<1> QED  BY <1>1, PlainHolds, PlacedHolds, AlignedHolds, PTL

-----------------------------------------------------------------------------
(* What is parked                                                            *)

\* What is parked stays apart as long as the log and the queue gain nothing but
\* queued and new operations.
LEMMA ApartKept ==
  ASSUME Plain, NothingLost, ParkedNeverAccepted, NEW d \in Device,
         blocked'[d] \subseteq blocked[d],
         IdsInLog(d)' \subseteq IdsInLog(d) \cup IdsIn(outbox[d]),
         \A id \in IdsIn(outbox'[d]) : id \in IdsIn(outbox[d]) \/ id > made[d]
  PROVE  IdsParked(d)' \cap (IdsInLog(d)' \cup IdsIn(outbox'[d])) = {}
<1>1. IdsParked(d)' \subseteq IdsParked(d)
  BY DEF IdsParked
<1>2. IdsParked(d) \subseteq 1 .. made[d] /\ made[d] \in Nat
  BY PlacesKnown DEF Places
<1>3. \A id \in IdsParked(d) : id \in Nat /\ ~(id > made[d])
  BY <1>2
<1>4. IdsParked(d) \cap (IdsInLog(d) \cup IdsIn(outbox[d])) = {}
  BY DEF ParkedNeverAccepted
<1> QED  BY <1>1, <1>3, <1>4

\* What the user does parks an operation only as it is made.
LEMMA ApartByUser ==
  ASSUME Plain, Plain', Placed, ParkedNeverAccepted, NEW d \in Device, User(d)
  PROVE  ParkedNeverAccepted'
<1>0. NothingLost /\ Distinct
  BY DEF Placed
<1>1. UNCHANGED log
  BY DEF User, SaveDocument, SaveIntoTail, SaveOversized, AttachImage, RetryBlocked, DiscardBlocked,
         RestoreAsset, service
<1>2. \A e \in Device : IdsInLog(e)' = IdsInLog(e)
  BY <1>1 DEF IdsInLog
<1>3. ASSUME NEW e \in Device, e # d
      PROVE  outbox'[e] = outbox[e] /\ blocked'[e] = blocked[e]
  BY <1>3 DEF User, SaveDocument, SaveIntoTail, SaveOversized, AttachImage, RetryBlocked,
              DiscardBlocked, RestoreAsset, Enqueue, Plain, Queues
<1>4. ASSUME blocked'[d] \subseteq blocked[d],
             \A id \in IdsIn(outbox'[d]) : id \in IdsIn(outbox[d]) \/ id > made[d]
      PROVE  ParkedNeverAccepted'
  <2>1. ASSUME NEW e \in Device
        PROVE  IdsParked(e)' \cap (IdsInLog(e)' \cup IdsIn(outbox'[e])) = {}
    <3>1. blocked'[e] \subseteq blocked[e]
      BY <1>3, <1>4
    <3>2. \A id \in IdsIn(outbox'[e]) : id \in IdsIn(outbox[e]) \/ id > made[e]
      BY <1>3, <1>4
    <3> QED  BY <1>0, <1>2, <3>1, <3>2, ApartKept
  <2> QED  BY <2>1 DEF ParkedNeverAccepted
<1>5. ASSUME NEW op \in Operation, Enqueue(d, op), blocked'[d] \subseteq blocked[d]
      PROVE  ParkedNeverAccepted'
  <2>1. IdsIn(outbox'[d]) = IdsIn(outbox[d]) \cup {made[d] + 1} /\ made[d] \in Nat
    BY <1>0, <1>5, EnqueuePlaces
  <2>2. \A id \in IdsIn(outbox'[d]) : id \in IdsIn(outbox[d]) \/ id > made[d]
    BY <2>1
  <2> QED  BY <1>4, <1>5, <2>2
<1>6. CASE \/ \E n \in Note, b \in Body : SaveDocument(d, n, b)
           \/ \E a \in Asset : AttachImage(d, a)
           \/ \E p \in blocked[d] : RetryBlocked(d, p)
  <2>1. \A n \in Note, b \in Body : Write(n, b) \in Operation
    BY Operations DEF Bodies
  <2>2. ASSUME NEW p \in blocked[d]
        PROVE  Requeued(d, p) \in Operation
    <3>1. p.op \in Operation /\ doc \in [Device -> [Note -> Bodies]]
      BY DEF Plain, Queues, Shown, Held, Parked
    <3> QED  BY <3>1, Operations DEF Requeued
  <2>3. \A a \in Asset : Attach(a) \in Operation
    BY Operations
  <2> QED  BY <1>5, <1>6, <2>1, <2>2, <2>3 DEF SaveDocument, AttachImage, RetryBlocked, Plain, Queues
<1>7. CASE \/ \E n \in Note, b \in Body : SaveIntoTail(d, n, b)
           \/ \E p \in blocked[d] : DiscardBlocked(d, p) \/ RestoreAsset(d, p)
  <2>1. blocked'[d] \subseteq blocked[d]
    BY <1>7 DEF SaveIntoTail, DiscardBlocked, RestoreAsset, Plain, Queues
  <2>2. CASE UNCHANGED outbox
    BY <1>4, <2>1, <2>2
  <2>3. CASE \E n \in Note, b \in Body : SaveIntoTail(d, n, b)
    <3>1. PICK n \in Note, b \in Body : SaveIntoTail(d, n, b)
      BY <2>3
    <3> DEFINE new == [outbox[d] EXCEPT ![Len(outbox[d])].op = Write(n, b)]
    <3>2. outbox'[d] = new
      BY <3>1 DEF SaveIntoTail, Plain, Queues
    <3>3. DOMAIN new = DOMAIN outbox[d] /\ \A i \in DOMAIN outbox[d] : new[i].id = outbox[d][i].id
      <4>1. outbox[d] \in Seq(Row)
        BY DEF Plain, Queues
      <4>2. \A i \in DOMAIN outbox[d] : outbox[d][i] \in Row
        BY <4>1
      <4> QED  BY <4>2 DEF Row
    <3>4. IdsIn(outbox'[d]) = IdsIn(outbox[d])
      BY <3>2, <3>3 DEF IdsIn
    <3> QED  BY <1>4, <2>1, <3>4
  <2> QED  BY <1>7, <2>2, <2>3 DEF DiscardBlocked, RestoreAsset
<1>8. CASE \E n \in Note, b \in Body : SaveOversized(d, n, b)
  <2>1. /\ IdsParked(d)' \subseteq IdsParked(d) \cup {made[d] + 1} /\ UNCHANGED outbox
        /\ made'[d] = made[d] + 1
    BY <1>8 DEF SaveOversized, Plain, Queues, IdsParked
  <2>2. IdsInLog(d) \cup IdsIn(outbox[d]) \subseteq 1 .. made[d] /\ made[d] \in Nat
    BY <1>0, PlacesKnown DEF Places
  <2>3. made[d] + 1 \notin 1 .. made[d]
    BY <2>2
  <2>4. IdsParked(d)' \cap (IdsInLog(d)' \cup IdsIn(outbox'[d])) = {}
    BY <1>2, <2>1, <2>2, <2>3 DEF ParkedNeverAccepted
  <2>5. \A e \in Device : e # d => IdsParked(e)' = IdsParked(e) /\ IdsIn(outbox'[e]) = IdsIn(outbox[e])
    BY <1>3 DEF IdsParked
  <2> QED  BY <1>2, <2>4, <2>5 DEF ParkedNeverAccepted
<1> QED  BY <1>6, <1>7, <1>8 DEF User

\* A step that parks nothing.
LEMMA ApartByFrame ==
  ASSUME Plain, NothingLost, ParkedNeverAccepted,
         \A e \in Device : /\ blocked'[e] \subseteq blocked[e]
                           /\ IdsInLog(e)' \subseteq IdsInLog(e) \cup IdsIn(outbox[e])
                           /\ \A id \in IdsIn(outbox'[e]) : id \in IdsIn(outbox[e]) \/ id > made[e]
  PROVE  ParkedNeverAccepted'
<1>1. ASSUME NEW e \in Device
      PROVE  IdsParked(e)' \cap (IdsInLog(e)' \cup IdsIn(outbox'[e])) = {}
  BY ApartKept
<1> QED  BY <1>1 DEF ParkedNeverAccepted

\* What is left of a queue is as it was.
LEMMA LeftByAcknowledge ==
  ASSUME Plain, ClaimHolds, NEW d \in Device, Acknowledge(d)
  PROVE  LeftOf(d, claimed[d], outbox'[d])
<1>1. outbox'[d] = Unclaimed(d) /\ pc[d] = "accepted"
  BY DEF Acknowledge, Plain, Queues
<1>2. /\ Unclaimed(d) \in Seq(Row) /\ Len(Unclaimed(d)) = Len(outbox[d]) - claimed[d]
      /\ \A i \in DOMAIN Unclaimed(d) : Unclaimed(d)[i] = outbox[d][i + claimed[d]]
  BY UnclaimedRows
<1>3. claimed[d] \in 0 .. Len(outbox[d])
  BY DEF Plain, Queues, Claims
<1>4. \A i \in 1 .. claimed[d] : Known(d, outbox[d][i])
  BY <1>1 DEF ClaimHolds
<1> QED  BY <1>1, <1>2, <1>3, <1>4 DEF LeftOf

\* An echo takes one accepted row off the head of the queue.
LEMMA LeftByEcho ==
  ASSUME Plain, AcceptedOnce, NEW d \in Device, QueueSound(d), PullEcho(d)
  PROVE  LeftOf(d, 1, outbox'[d])
<1>1. PICK i \in Echoed(d, cursor[d] + 1) : outbox' = [outbox EXCEPT ![d] = RemoveAt(@, i)]
  BY DEF PullEcho
<1>2. i = 1 /\ 1 \in DOMAIN outbox[d] /\ Known(d, outbox[d][1])
  BY EchoIsFirst DEF PullEcho
<1> DEFINE left == RemoveAt(outbox[d], 1)
           n == Len(outbox[d])
<1>3. outbox'[d] = left /\ outbox[d] \in Seq(Row)
  BY <1>1, <1>2 DEF Plain, Queues
<1>4. /\ left \in Seq(Row) /\ Len(left) = n - 1
      /\ \A j \in 1 .. n - 1 : left[j] = IF j < 1 THEN outbox[d][j] ELSE outbox[d][j + 1]
  BY <1>2, <1>3, RowsWithout
<1>5. n \in Nat /\ DOMAIN outbox[d] = 1 .. n
  BY <1>3
<1> HIDE DEF left, n
<1>6. \A j \in DOMAIN left : left[j] = outbox[d][j + 1]
  <2>1. DOMAIN left = 1 .. n - 1 /\ \A j \in 1 .. n - 1 : ~(j < 1)
    BY <1>4, <1>5
  <2> QED  BY <1>4, <2>1
<1>7. 1 \in 0 .. n /\ \A x \in 1 .. 1 : Known(d, outbox[d][x])
  BY <1>2, <1>5
<1>8. LeftOf(d, 1, left)
  BY <1>4, <1>6, <1>7 DEF LeftOf, n
<1> QED  BY <1>3, <1>8

\* A queue that lost rows at its head has the others, in their order.
LEMMA LeftIds ==
  ASSUME Plain, NEW d \in Device, NEW j, NEW new, LeftOf(d, j, new)
  PROVE  /\ IdsIn(new) \subseteq IdsIn(outbox[d])
         /\ \A i \in DOMAIN new : i + j \in DOMAIN outbox[d] /\ new[i] = outbox[d][i + j]
<1> DEFINE n == Len(outbox[d])
<1>1. /\ n \in Nat /\ DOMAIN outbox[d] = 1 .. n /\ j \in 0 .. n /\ Len(new) = n - j /\ new \in Seq(Row)
      /\ \A i \in DOMAIN new : new[i] = outbox[d][i + j]
  BY DEF Plain, Queues, LeftOf
<1> HIDE DEF n
<1>2. \A i \in DOMAIN new : i + j \in DOMAIN outbox[d]
  <2>1. DOMAIN new = 1 .. n - j
    BY <1>1
  <2> QED  BY <1>1, <2>1
<1> QED  BY <1>1, <1>2 DEF IdsIn

\* A batch that is accepted was queued, not parked.
LEMMA ApartAsAccepted ==
  ASSUME Plain, NothingLost, ParkedNeverAccepted, NEW d \in Device, NEW rows \in Seq(Row),
         NEW known \in 0 .. Len(rows), Accept(d, rows, known),
         \A x \in known + 1 .. Len(rows) : rows[x].id \in IdsIn(outbox[d]),
         UNCHANGED <<outbox, blocked>>
  PROVE  ParkedNeverAccepted'
<1>1. /\ \A s \in DOMAIN log : s \in DOMAIN log' /\ log'[s] = log[s]
      /\ \A i \in known + 1 .. Len(rows) : log'[Len(log) + i - known] = EntryOf(d, rows[i])
      /\ \A s \in DOMAIN log' :
           s \in DOMAIN log \/ \E i \in known + 1 .. Len(rows) : s = Len(log) + i - known
  BY Accepted DEF Plain, Services
<1>2. \A s \in DOMAIN log' : \/ s \in DOMAIN log /\ log'[s] = log[s]
                             \/ log'[s].dev = d /\ log'[s].id \in IdsIn(outbox[d])
  <2>1. \A i \in known + 1 .. Len(rows) :
          EntryOf(d, rows[i]).dev = d /\ EntryOf(d, rows[i]).id \in IdsIn(outbox[d])
    BY DEF EntryOf
  <2> QED  BY <1>1, <2>1
<1>3. \A e \in Device : IdsInLog(e)' \subseteq IdsInLog(e) \cup IdsIn(outbox[e])
  BY <1>2 DEF IdsInLog
<1>4. \A e \in Device : /\ blocked'[e] \subseteq blocked[e]
                        /\ \A id \in IdsIn(outbox'[e]) : id \in IdsIn(outbox[e]) \/ id > made[e]
  OBVIOUS
<1> QED  BY <1>3, <1>4, ApartByFrame

\* What a push brings into the log was queued, and so is not parked.
LEMMA ApartByPush ==
  ASSUME Plain, Placed, ParkedNeverAccepted, NEW d \in Device, Push(d)
  PROVE  ParkedNeverAccepted'
<1>1. PICK known \in 0 .. claimed[d] : Accept(d, Batch(d), known)
  BY DEF Push
<1>2. /\ Batch(d) \in Seq(Row) /\ Len(Batch(d)) = claimed[d]
      /\ \A x \in 1 .. claimed[d] : x \in DOMAIN outbox[d] /\ Batch(d)[x] = outbox[d][x]
      /\ claimed[d] \in Nat
  BY BatchRows
<1>3. \A x \in known + 1 .. Len(Batch(d)) : x \in 1 .. claimed[d]
  BY <1>2
<1>4. \A x \in known + 1 .. Len(Batch(d)) : Batch(d)[x].id \in IdsIn(outbox[d])
  BY <1>2, <1>3 DEF IdsIn
<1>5. UNCHANGED <<outbox, blocked>>
  BY DEF Push, durable
<1> QED  BY <1>1, <1>2, <1>4, <1>5, ApartAsAccepted DEF Placed

\* A late request is accepted for rows that are queued still.
LEMMA ApartByStray ==
  ASSUME Plain, Placed, Aligned, ParkedNeverAccepted, NEW r \in stray, StrayArrives(r)
  PROVE  ParkedNeverAccepted'
<1>1. /\ r.dev \in Device /\ r.rows \in Seq(Row) /\ UNCHANGED <<outbox, blocked>>
  BY DEF Plain, Services, StrayArrives, durable
<1>2. CASE UNCHANGED log
  BY <1>1, <1>2, ApartByFrame DEF Placed, IdsInLog
<1>3. CASE \E known \in 0 .. Len(r.rows) :
             Admits(r.dev, r.rows, known) /\ Accept(r.dev, r.rows, known)
  <2>1. PICK known \in 0 .. Len(r.rows) :
          Admits(r.dev, r.rows, known) /\ Accept(r.dev, r.rows, known)
    BY <1>3
  <2>2. ASSUME NEW x \in known + 1 .. Len(r.rows)
        PROVE  r.rows[x].id \in IdsIn(outbox[r.dev])
    <3>1. x \in DOMAIN r.rows
      BY <1>1
    <3>2. ~Known(r.dev, r.rows[x]) /\ r.rows[x].op.body \notin Refused
      BY <2>1 DEF Admits
    <3>3. Queued(r.dev, r.rows[x])
      BY <3>1, <3>2 DEF Aligned, StraysSound, Carried
    <3> QED  BY <3>3 DEF Queued, IdsIn
  <2> QED  BY <1>1, <2>1, <2>2, ApartAsAccepted DEF Placed
<1> QED  BY <1>2, <1>3 DEF StrayArrives

\* What is parked was not accepted and leaves the queue.
LEMMA ApartByPark ==
  ASSUME Plain, Placed, ParkedNeverAccepted, NEW d \in Device,
         NEW gone \in SUBSET (DOMAIN outbox[d]), gone # {}, NEW reason, Park(d, gone, reason),
         UNCHANGED log, \A i \in DOMAIN outbox[d] : ~Known(d, outbox[d][i])
  PROVE  ParkedNeverAccepted'
<1>0. /\ outbox[d] \in Seq(Row) /\ DistinctIds(outbox[d]) /\ DOMAIN outbox[d] = 1 .. Len(outbox[d])
      /\ Len(outbox[d]) \in Nat
  BY DEF Plain, Queues, Placed, Distinct
<1>1. outbox[d][1].cseq \in Nat
  <2>1. outbox[d][1] \in Row
    BY <1>0
  <2> QED  BY <2>1 DEF Row
<1>2. PICK kept \in SetToSeqs(DOMAIN outbox[d] \ gone) :
        outbox' = [outbox EXCEPT ![d] = KeptAs(outbox[d], kept, outbox[d][1].cseq)]
  BY DEF Park, KeptAs
<1> DEFINE head == outbox[d][1].cseq
           left == KeptAs(outbox[d], kept, head)
           S == DOMAIN outbox[d] \ gone
<1>h. head \in Nat
  BY <1>1
<1>3. /\ outbox'[d] = left /\ \A e \in Device : e # d => outbox'[e] = outbox[e]
      /\ \A e \in Device : e # d => blocked'[e] = blocked[e]
      /\ blocked'[d] = blocked[d] \cup {ParkedRow(outbox[d][i], reason) : i \in gone}
  BY <1>2 DEF Park, Plain, Queues
<1>n. left = KeptAs(outbox[d], kept, head) /\ S \in SUBSET (DOMAIN outbox[d])
  OBVIOUS
<1> HIDE DEF left, head
<1>4. /\ kept \in Seq(S) /\ left \in Seq(Row) /\ Len(left) = Len(kept)
      /\ \A i \in DOMAIN kept : left[i].id = outbox[d][kept[i]].id
  BY <1>0, <1>h, <1>2, <1>n, KeptRows
<1>5. \A id \in IdsIn(left) : \E x \in DOMAIN outbox[d] : x \notin gone /\ id = outbox[d][x].id
  <2>1. DOMAIN left = DOMAIN kept
    BY <1>4
  <2>2. \A i \in DOMAIN kept : kept[i] \in S
    BY <1>4
  <2> QED  BY <1>4, <2>1, <2>2 DEF IdsIn
<1>6. \A id \in IdsParked(d)' : id \in IdsParked(d) \/ \E x \in gone : id = outbox[d][x].id
  BY <1>3 DEF IdsParked, ParkedRow
<1>7. IdsParked(d)' \cap (IdsInLog(d)' \cup IdsIn(outbox'[d])) = {}
  <2>1. IdsInLog(d)' = IdsInLog(d)
    BY DEF IdsInLog
  <2>2. IdsParked(d) \cap (IdsInLog(d) \cup IdsIn(outbox[d])) = {}
    BY DEF ParkedNeverAccepted
  <2>3. \A x \in gone : outbox[d][x].id \notin IdsInLog(d) /\ outbox[d][x].id \notin IdsIn(left)
    BY <1>0, <1>5 DEF Known, IdsInLog, DistinctIds
  <2>4. IdsIn(left) \subseteq IdsIn(outbox[d])
    BY <1>5 DEF IdsIn
  <2> QED  BY <1>3, <1>6, <2>1, <2>2, <2>3, <2>4
<1>8. \A e \in Device : e # d => /\ IdsParked(e)' = IdsParked(e) /\ IdsInLog(e)' = IdsInLog(e)
                                /\ IdsIn(outbox'[e]) = IdsIn(outbox[e])
  BY <1>3 DEF IdsParked, IdsInLog
<1> QED  BY <1>7, <1>8 DEF ParkedNeverAccepted

\* Requeueing gives images that are back new operation ids.
LEMMA ApartByRequeue ==
  ASSUME Plain, Placed, ParkedNeverAccepted, NEW d \in Device, BeginPush(d)
  PROVE  ParkedNeverAccepted'
<1>1. PICK order \in SetToSeqs(Back(d)) : outbox' = [outbox EXCEPT ![d] = @ \o RequeuedRows(d, order)]
  BY DEF BeginPush
<1> DEFINE more == RequeuedRows(d, order)
<1>2. /\ more \in Seq(Row) /\ order \in Seq(Back(d)) /\ Len(more) = Len(order)
      /\ \A i \in DOMAIN order : more[i].id = made[d] + i
  BY <1>1, RequeuedType
<1>3. /\ outbox'[d] = outbox[d] \o more /\ outbox[d] \in Seq(Row) /\ made[d] \in Nat
      /\ \A e \in Device : e # d => outbox'[e] = outbox[e]
      /\ \A e \in Device : blocked'[e] \subseteq blocked[e]
      /\ UNCHANGED log
  BY <1>1 DEF Plain, Queues, BeginPush, service
<1> HIDE DEF more
<1>4. ASSUME NEW id \in IdsIn(outbox'[d])
      PROVE  id \in IdsIn(outbox[d]) \/ id > made[d]
  <2>1. PICK i \in DOMAIN (outbox[d] \o more) : id = (outbox[d] \o more)[i].id
    BY <1>3 DEF IdsIn
  <2>2. i \in 1 .. Len(outbox[d]) + Len(more) /\ Len(outbox[d]) \in Nat /\ Len(more) \in Nat
    BY <1>2, <1>3, <2>1, RowsAndMore
  <2>3. CASE i \in 1 .. Len(outbox[d])
    BY <1>2, <1>3, <2>1, <2>3, RowsAndMore DEF IdsIn
  <2>4. CASE i \notin 1 .. Len(outbox[d])
    <3> DEFINE x == i - Len(outbox[d])
    <3>1. x \in 1 .. Len(more) /\ Len(outbox[d]) + x = i /\ x \in DOMAIN order
      BY <1>2, <2>2, <2>4
    <3>2. (outbox[d] \o more)[Len(outbox[d]) + x] = more[x]
      BY <1>2, <1>3, <3>1, RowsAndMore
    <3> HIDE DEF x
    <3>3. id = made[d] + x /\ x \in Nat /\ x >= 1
      BY <1>2, <2>1, <3>1, <3>2
    <3> QED  BY <1>3, <3>3
  <2> QED  BY <2>3, <2>4
<1>5. \A e \in Device : /\ blocked'[e] \subseteq blocked[e]
                        /\ IdsInLog(e)' \subseteq IdsInLog(e) \cup IdsIn(outbox[e])
                        /\ \A id \in IdsIn(outbox'[e]) : id \in IdsIn(outbox[e]) \/ id > made[e]
  BY <1>3, <1>4 DEF IdsInLog
<1> QED  BY <1>5, ApartByFrame DEF Placed

\* A step of a worker parks only what was not accepted, and accepts only what is
\* not parked.
LEMMA ApartByWorker ==
  ASSUME BatchLimit = 1 \/ Refused = {},
         Plain, Placed, Aligned, ParkedNeverAccepted, NEW d \in Device, Cycle(d) \/ Trouble(d)
  PROVE  ParkedNeverAccepted'
<1>1. ASSUME \A e \in Device : e # d => outbox'[e] = outbox[e],
             IdsIn(outbox'[d]) \subseteq IdsIn(outbox[d]), UNCHANGED <<blocked, log>>
      PROVE  ParkedNeverAccepted'
  <2>1. \A e \in Device : IdsIn(outbox'[e]) \subseteq IdsIn(outbox[e]) /\ IdsInLog(e)' = IdsInLog(e)
    BY <1>1 DEF IdsInLog
  <2>2. \A e \in Device : /\ blocked'[e] \subseteq blocked[e]
                          /\ IdsInLog(e)' \subseteq IdsInLog(e) \cup IdsIn(outbox[e])
                          /\ \A id \in IdsIn(outbox'[e]) : id \in IdsIn(outbox[e]) \/ id > made[e]
    BY <1>1, <2>1
  <2> QED  BY <2>2, ApartByFrame DEF Placed
<1>2. ASSUME UNCHANGED <<outbox, blocked, log>>
      PROVE  ParkedNeverAccepted'
  BY <1>1, <1>2
<1>3. CASE \/ StartRebuild(d) \/ FetchCheckpoint(d) \/ RefuseRebuild(d) \/ EndPush(d) \/ Rebuild(d)
           \/ PullTruncated(d) \/ PullDrained(d) \/ PullDuplicate(d) \/ PullRemote(d)
           \/ ExportArchive(d) \/ SkipPublication(d) \/ PublishCheckpoint(d) \/ EndCycle(d)
           \/ StorageFailure(d) \/ \E a \in Asset : LoseAsset(d, a)
  BY <1>2, <1>3
  DEF StartRebuild, FetchCheckpoint, RefuseRebuild, EndPush, PullTruncated, PullDrained, Rebuild,
      ExportArchive, SkipPublication, PublishCheckpoint, EndCycle, StorageFailure, LoseAsset,
      PullDuplicate, PullRemote, durable, service
<1>4. CASE \/ ReleaseMissing(d) \/ Crash(d)
           \/ \E step \in {"pull", "idle"} : PushFails(d, step) \/ PushTimesOut(d, step)
  BY <1>2, <1>4 DEF ReleaseMissing, PushFails, PushTimesOut, Crash, Release, service, canonical
<1>5. CASE \E k \in 1 .. Len(outbox[d]) : Claim(d, k)
  <2>1. PICK k \in 1 .. Len(outbox[d]) : Claim(d, k)
    BY <1>5
  <2>2. /\ outbox' \in [Device -> Seq(Row)] /\ Len(outbox'[d]) = Len(outbox[d])
        /\ \A e \in Device : e # d => outbox'[e] = outbox[e]
        /\ \A i \in DOMAIN outbox[d] : outbox'[d][i].id = outbox[d][i].id
    BY <2>1, ClaimedRows
  <2>3. DOMAIN outbox'[d] = DOMAIN outbox[d]
    BY <2>2 DEF Plain, Queues
  <2>4. UNCHANGED <<blocked, log>>
    BY <2>1 DEF Claim, service
  <2> QED  BY <1>1, <2>2, <2>3, <2>4 DEF IdsIn
<1>6. CASE Acknowledge(d)
  <2>1. /\ \A e \in Device : e # d => outbox'[e] = outbox[e]
        /\ UNCHANGED <<blocked, log>>
    BY <1>6 DEF Acknowledge, Plain, Queues, service
  <2> QED  BY <1>1, <1>6, <2>1, LeftByAcknowledge, LeftIds DEF Placed
<1>7. CASE PullEcho(d)
  <2>1. /\ \A e \in Device : e # d => outbox'[e] = outbox[e]
        /\ UNCHANGED <<blocked, log>>
    BY <1>7 DEF PullEcho, Plain, Queues, service
  <2> QED  BY <1>1, <1>7, <2>1, LeftByEcho, LeftIds DEF Placed, Aligned
<1>8. CASE ParkMissing(d)
  <2>1. /\ pc[d] = "claimed" /\ ~TriedBefore(d) /\ Missing(d) # {}
        /\ Park(d, Missing(d), "asset_missing") /\ UNCHANGED log
    BY <1>8 DEF ParkMissing, service
  <2>2. \A i \in DOMAIN outbox[d] : ~Known(d, outbox[d][i])
    BY <2>1 DEF Aligned, QueueSound, Attempted, Sent, Known
  <2>3. Missing(d) \in SUBSET (DOMAIN outbox[d])
    <3>1. claimed[d] \in Nat /\ claimed[d] =< Len(outbox[d]) /\ DOMAIN outbox[d] = 1 .. Len(outbox[d])
          /\ Len(outbox[d]) \in Nat
      BY DEF Plain, Queues, Claims
    <3> QED  BY <3>1 DEF Missing
  <2> QED  BY <2>1, <2>2, <2>3, ApartByPark
<1>9. CASE PushRefused(d)
  <2>1. /\ UNCHANGED log
        /\ \A known \in 0 .. claimed[d] : ~Admits(d, Batch(d), known)
        /\ (Release(d, "pull") \/ Park(d, 1 .. claimed[d], "cloud_rejected"))
    BY <1>9 DEF PushRefused, service
  <2>2. CASE Release(d, "pull")
    <3>1. UNCHANGED <<outbox, blocked, log>>
      BY <2>1, <2>2 DEF Release
    <3> QED  BY <1>2, <3>1
  <2>3. CASE Park(d, 1 .. claimed[d], "cloud_rejected")
    <3>1. /\ claimed[d] = 1 /\ 1 \in DOMAIN outbox[d]
          /\ \A i \in DOMAIN outbox[d] : ~Known(d, outbox[d][i])
      BY <2>1, RefusedAlone
    <3>2. 1 .. claimed[d] = {1}
      BY <3>1
    <3> QED  BY <2>1, <2>3, <3>1, <3>2, ApartByPark
  <2> QED  BY <2>1, <2>2, <2>3
<1> QED
  BY <1>3, <1>4, <1>5, <1>6, <1>7, <1>8, <1>9, ApartByRequeue, ApartByPush DEF Cycle, Trouble

\* What the user is offered to retry or discard is not already on the other
\* devices, nor on its way in the queue (block_claimed_sync_operations,
\* blocking_requires_release).
THEOREM ParkedNeverAcceptedHolds ==
  ASSUME BatchLimit = 1 \/ Refused = {}
  PROVE  Spec => []ParkedNeverAccepted
<1>1. Init => ParkedNeverAccepted
  BY DEF Init, ParkedNeverAccepted, IdsParked
<1>2. Plain /\ Plain' /\ Placed /\ Aligned /\ ParkedNeverAccepted /\ [Next]_vars
        => ParkedNeverAccepted'
  <2> SUFFICES ASSUME Plain, Plain', Placed, Aligned, ParkedNeverAccepted, [Next]_vars
               PROVE  ParkedNeverAccepted'
    OBVIOUS
  <2>1. CASE UNCHANGED <<outbox, blocked, log>>
    BY <2>1 DEF ParkedNeverAccepted, IdsParked, IdsInLog
  <2>2. CASE UNCHANGED vars
    BY <2>1, <2>2 DEF vars, durable, service
  <2>3. ASSUME NEW f \in 1 .. ckpt.seq, Compact(f)
        PROVE  ParkedNeverAccepted'
    BY <2>1, <2>3 DEF Compact, durable
  <2> QED  BY <2>2, <2>3, ApartByUser, ApartByWorker, ApartByStray DEF Next
<1> QED  BY <1>1, <1>2, PlainHolds, PlacedHolds, AlignedHolds, PTL DEF Spec

-----------------------------------------------------------------------------
(* What the queue will publish                                               *)

\* The row at i is the last one that writes n.
Final(rows, n, i) ==
  /\ i \in DOMAIN rows /\ WritesTo(rows[i].op, n)
  /\ \A j \in DOMAIN rows : i < j => ~WritesTo(rows[j].op, n)

\* The last queued write of a note is the body the device shows.
Shows(d) ==
  \A n \in Note : \A i \in DOMAIN outbox[d] :
    Final(outbox[d], n, i) => outbox[d][i].op.body = doc[d][n] \/ doc[d][n] \in Oversized
AllShow == \A d \in Device : Shows(d)

\* The last write of every note stays the last one.
LEMMA ShowsByFrame ==
  ASSUME NEW d \in Device, Shows(d), NEW new, outbox'[d] = new,
         \A n \in Note : \A i \in DOMAIN new : Final(new, n, i) =>
           /\ doc'[d][n] = doc[d][n]
           /\ \E x \in DOMAIN outbox[d] : Final(outbox[d], n, x) /\ new[i].op = outbox[d][x].op
  PROVE  Shows(d)'
<1> SUFFICES ASSUME NEW n \in Note, NEW i \in DOMAIN new, Final(new, n, i)
             PROVE  new[i].op.body = doc'[d][n] \/ doc'[d][n] \in Oversized
  BY DEF Shows, Final
<1>1. doc'[d][n] = doc[d][n]
  OBVIOUS
<1>2. PICK x \in DOMAIN outbox[d] : Final(outbox[d], n, x) /\ new[i].op = outbox[d][x].op
  OBVIOUS
<1> QED  BY <1>1, <1>2 DEF Shows

\* Rows leave the head of the queue.
LEMMA ShowsByLeaving ==
  ASSUME Plain, NEW d \in Device, Shows(d), NEW j, NEW new, LeftOf(d, j, new), outbox'[d] = new,
         doc'[d] = doc[d]
  PROVE  Shows(d)'
<1> DEFINE n == Len(outbox[d])
<1>1. /\ n \in Nat /\ DOMAIN outbox[d] = 1 .. n /\ j \in 0 .. n /\ DOMAIN new = 1 .. n - j
  BY DEF Plain, Queues, LeftOf
<1>2. \A i \in DOMAIN new : i + j \in DOMAIN outbox[d] /\ new[i] = outbox[d][i + j]
  BY LeftIds
<1> HIDE DEF n
<1>3. ASSUME NEW note \in Note, NEW i \in DOMAIN new, Final(new, note, i)
      PROVE  Final(outbox[d], note, i + j)
  <2>1. ASSUME NEW x \in DOMAIN outbox[d], i + j < x
        PROVE  ~WritesTo(outbox[d][x].op, note)
    <3>1. x - j \in DOMAIN new /\ i < x - j /\ (x - j) + j = x
      BY <1>1, <2>1
    <3> QED  BY <1>2, <1>3, <3>1 DEF Final
  <2> QED  BY <1>2, <1>3, <2>1 DEF Final
<1> QED  BY <1>2, <1>3, ShowsByFrame

\* The rows keep what they write.
LEMMA ShowsBySame ==
  ASSUME NEW d \in Device, Shows(d), NEW new, outbox'[d] = new, DOMAIN new = DOMAIN outbox[d],
         \A i \in DOMAIN new : new[i].op = outbox[d][i].op,
         \A n \in Note : (\E i \in DOMAIN new : WritesTo(new[i].op, n)) => doc'[d][n] = doc[d][n]
  PROVE  Shows(d)'
<1>1. ASSUME NEW n \in Note, NEW i \in DOMAIN new, Final(new, n, i)
      PROVE  /\ doc'[d][n] = doc[d][n]
             /\ Final(outbox[d], n, i) /\ new[i].op = outbox[d][i].op
  BY <1>1 DEF Final
<1> QED  BY <1>1, ShowsByFrame

\* Rows that join the queue show what the device shows.
LEMMA ShowsByMore ==
  ASSUME Plain, NEW d \in Device, Shows(d), NEW more \in Seq(Row), outbox'[d] = outbox[d] \o more,
         \A n \in Note : doc'[d][n] = doc[d][n] \/ \E i \in DOMAIN more : WritesTo(more[i].op, n),
         \A n \in Note : \A i \in DOMAIN more :
           WritesTo(more[i].op, n) => more[i].op.body = doc'[d][n]
  PROVE  Shows(d)'
<1> DEFINE k == Len(outbox[d])
<1>0. outbox[d] \in Seq(Row)
  BY DEF Plain, Queues
<1>1. PICK new : new = outbox[d] \o more
  OBVIOUS
<1>2. /\ k \in Nat /\ DOMAIN outbox[d] = 1 .. k /\ Len(more) \in Nat /\ DOMAIN more = 1 .. Len(more)
      /\ DOMAIN new = 1 .. k + Len(more)
      /\ \A i \in 1 .. k : new[i] = outbox[d][i]
      /\ \A i \in 1 .. Len(more) : new[k + i] = more[i]
  BY <1>0, <1>1, RowsAndMore
<1> HIDE DEF k
<1> SUFFICES ASSUME NEW n \in Note, NEW i \in DOMAIN new, Final(new, n, i)
             PROVE  new[i].op.body = doc'[d][n] \/ doc'[d][n] \in Oversized
  BY <1>1 DEF Shows, Final
<1>3. CASE i \in 1 .. k
  <2>1. \A x \in 1 .. Len(more) : ~WritesTo(more[x].op, n)
    <3> SUFFICES ASSUME NEW x \in 1 .. Len(more)
                 PROVE  ~WritesTo(more[x].op, n)
      OBVIOUS
    <3>1. k + x \in DOMAIN new /\ i < k + x
      BY <1>2, <1>3
    <3> QED  BY <1>2, <3>1 DEF Final
  <2>2. \A x \in 1 .. k : x \in DOMAIN new
    BY <1>2
  <2>3. Final(outbox[d], n, i) /\ new[i] = outbox[d][i]
    BY <1>2, <1>3, <2>2 DEF Final
  <2>4. doc'[d][n] = doc[d][n]
    BY <1>2, <2>1
  <2>5. outbox[d][i].op.body = doc[d][n] \/ doc[d][n] \in Oversized
    BY <1>2, <1>3, <2>3 DEF Shows
  <2> QED  BY <2>3, <2>4, <2>5
<1>4. CASE i \notin 1 .. k
  <2>1. i - k \in 1 .. Len(more) /\ k + (i - k) = i
    BY <1>2, <1>4
  <2>2. PICK x \in DOMAIN more : new[i] = more[x]
    BY <1>2, <2>1
  <2>3. WritesTo(more[x].op, n)
    BY <2>2 DEF Final
  <2>4. more[x].op.body = doc'[d][n]
    BY <2>3
  <2> QED  BY <2>2, <2>4
<1> QED  BY <1>3, <1>4

\* What is parked is an image, or the one row that was sent.
LEMMA ShowsByPark ==
  ASSUME Plain, NEW d \in Device, Shows(d), NEW gone \in SUBSET (DOMAIN outbox[d]), gone # {},
         NEW reason, Park(d, gone, reason),
         gone = {1} \/ \A x \in gone : outbox[d][x].op.kind = "attach"
  PROVE  Shows(d)'
<1>0. /\ outbox[d] \in Seq(Row) /\ DOMAIN outbox[d] = 1 .. Len(outbox[d]) /\ Len(outbox[d]) \in Nat
  BY DEF Plain, Queues
<1> DEFINE head == outbox[d][1].cseq
           S == DOMAIN outbox[d] \ gone
<1>1. head \in Nat
  <2>1. outbox[d][1] \in Row
    BY <1>0
  <2> QED  BY <2>1 DEF Row
<1>2. PICK kept \in SetToSeqs(S) :
        /\ \A i, j \in DOMAIN kept : i < j => kept[i] < kept[j]
        /\ outbox' = [outbox EXCEPT ![d] = KeptAs(outbox[d], kept, head)]
  BY DEF Park, KeptAs
<1> DEFINE left == KeptAs(outbox[d], kept, head)
<1>n. S \in SUBSET (DOMAIN outbox[d]) /\ left = KeptAs(outbox[d], kept, head)
  OBVIOUS
<1>k. kept \in SetToSeqs(S)
  BY <1>2
<1>3. outbox'[d] = left /\ doc'[d] = doc[d]
  BY <1>2 DEF Plain, Queues, Park, canonical
<1> HIDE DEF left, head
<1>4. /\ kept \in Seq(S) /\ left \in Seq(Row) /\ Len(left) = Len(kept)
      /\ \A x \in S : \E i \in DOMAIN kept : x = kept[i]
      /\ \A i \in DOMAIN kept : left[i].op = outbox[d][kept[i]].op
  <2>1. kept \in Seq(S) /\ left \in Seq(Row) /\ Len(left) = Len(kept)
    BY <1>0, <1>1, <1>k, <1>n, KeptRows
  <2>2. \A x \in S : \E i \in DOMAIN kept : x = kept[i]
    <3> HIDE DEF S
    <3> QED  BY <1>0, <1>1, <1>k, <1>n, KeptRows
  <2>3. \A i \in DOMAIN kept : left[i].op = outbox[d][kept[i]].op
    BY <1>0, <1>1, <1>k, <1>n, KeptRows
  <2> QED  BY <2>1, <2>2, <2>3
<1>5. DOMAIN left = DOMAIN kept /\ DOMAIN kept \subseteq Nat /\ \A i \in DOMAIN kept : kept[i] \in S
  BY <1>4
<1>6. PICK new : new = left
  OBVIOUS
<1>7. ASSUME NEW n \in Note, NEW i \in DOMAIN new, Final(new, n, i)
      PROVE  Final(outbox[d], n, kept[i]) /\ kept[i] \in DOMAIN outbox[d] /\ new[i].op = outbox[d][kept[i]].op
  <2>1. ASSUME NEW x \in DOMAIN outbox[d], kept[i] < x
        PROVE  ~WritesTo(outbox[d][x].op, n)
    <3>1. CASE x \in gone
      <4>1. kept[i] \in 1 .. Len(outbox[d])
        BY <1>0, <1>5, <1>6
      <4>2. x # 1
        BY <1>0, <2>1, <4>1
      <4> QED  BY <3>1, <4>2 DEF WritesTo
    <3>2. CASE x \notin gone
      <4>1. PICK j \in DOMAIN kept : x = kept[j]
        BY <1>4, <3>2
      <4>2. i \in DOMAIN kept /\ i \in Nat /\ j \in Nat /\ kept[i] \in Nat /\ kept[j] \in Nat
        BY <1>0, <1>5, <1>6, <4>1
      <4>3. i < j
        BY <1>2, <2>1, <4>1, <4>2
      <4> QED  BY <1>4, <1>5, <1>6, <1>7, <4>1, <4>3 DEF Final
    <3> QED  BY <3>1, <3>2
  <2> QED  BY <1>4, <1>5, <1>6, <1>7, <2>1 DEF Final
<1> QED  BY <1>3, <1>6, <1>7, ShowsByFrame

\* A save or an image that is queued, or a parked change that is tried again.
LEMMA ShowsByEnqueue ==
  ASSUME Plain, NEW d \in Device, Shows(d), NEW op \in Operation, Enqueue(d, op),
         \A n \in Note : doc'[d][n] = doc[d][n] \/ WritesTo(op, n),
         \A n \in Note : WritesTo(op, n) => op.body = doc'[d][n]
  PROVE  Shows(d)'
<1> DEFINE row == NewRow(d, op)
           more == <<row>>
<1>1. outbox'[d] = Append(outbox[d], row) /\ row \in Row /\ row.op = op /\ outbox[d] \in Seq(Row)
  BY NewRowType DEF Plain, Queues, Enqueue, NewRow
<1> HIDE DEF row
<1>2. /\ more \in Seq(Row) /\ DOMAIN more = {1} /\ more[1] = row
      /\ outbox'[d] = outbox[d] \o more
  BY <1>1
<1> HIDE DEF more
<1> QED  BY <1>1, <1>2, ShowsByMore

\* The unclaimed tail takes the next write of its note.
LEMMA ShowsByTail ==
  ASSUME Plain, NEW d \in Device, Shows(d), NEW n \in Note, NEW b \in Body, SaveIntoTail(d, n, b)
  PROVE  Shows(d)'
<1> DEFINE k == Len(outbox[d])
           left == [outbox[d] EXCEPT ![k].op = Write(n, b)]
<1>1. /\ outbox[d] \in Seq(Row) /\ k \in Nat /\ claimed[d] \in Nat /\ DOMAIN outbox[d] = 1 .. k
      /\ outbox'[d] = left /\ Coalesces(d, n)
      /\ doc' = [doc EXCEPT ![d][n] = b]
  BY DEF Plain, Queues, SaveIntoTail
<1>2. k \in DOMAIN outbox[d] /\ WritesTo(outbox[d][k].op, n)
  <2>1. k > claimed[d] /\ WritesTo(Last(outbox[d]).op, n)
    BY <1>1 DEF Coalesces
  <2>2. k >= 1
    BY <1>1, <2>1
  <2> QED  BY <1>1, <2>1, <2>2 DEF Last
<1>3. /\ DOMAIN left = 1 .. k /\ left[k].op = Write(n, b)
      /\ \A i \in 1 .. k : i # k => left[i] = outbox[d][i]
  <2>1. \A i \in 1 .. k : outbox[d][i] \in Row
    BY <1>1
  <2> QED  BY <1>1, <1>2, <2>1 DEF Row
<1>4. PICK new : new = left
  OBVIOUS
<1> HIDE DEF left, k
<1>5. doc'[d][n] = b /\ \A m \in Note : m # n => doc'[d][m] = doc[d][m]
  BY <1>1 DEF Plain, Shown
<1> SUFFICES ASSUME NEW m \in Note, NEW i \in DOMAIN new, Final(new, m, i)
             PROVE  new[i].op.body = doc'[d][m] \/ doc'[d][m] \in Oversized
  BY <1>1, <1>4 DEF Shows, Final
<1>6. CASE i = k
  <2>1. m = n /\ new[i].op.body = b
    BY <1>3, <1>4, <1>6 DEF Final, WritesTo, Write
  <2> QED  BY <1>5, <2>1
<1>7. CASE i # k
  <2>1. i \in 1 .. k /\ i < k
    BY <1>1, <1>3, <1>4, <1>7
  <2>2. ~WritesTo(new[k].op, m)
    BY <1>1, <1>2, <1>3, <1>4, <2>1 DEF Final
  <2>3. m # n
    BY <1>3, <1>4, <2>2 DEF WritesTo, Write
  <2>4. new[i] = outbox[d][i] /\ \A j \in 1 .. k : WritesTo(new[j].op, m) <=> WritesTo(outbox[d][j].op, m)
    <3>1. ~WritesTo(outbox[d][k].op, m)
      BY <1>2, <2>3 DEF WritesTo
    <3> QED  BY <1>3, <1>4, <2>1, <2>2, <3>1
  <2>5. Final(outbox[d], m, i)
    BY <1>1, <1>3, <1>4, <2>1, <2>4 DEF Final
  <2> QED  BY <1>1, <1>5, <2>1, <2>3, <2>4, <2>5 DEF Shows
<1> QED  BY <1>6, <1>7

\* Whatever the user does, the queue publishes what the device shows.
LEMMA ShowsByUser ==
  ASSUME Plain, NEW d \in Device, Shows(d), User(d)
  PROVE  Shows(d)'
<1>0. doc \in [Device -> [Note -> Bodies]] /\ blocked[d] \subseteq Held
  BY DEF Plain, Shown, Queues
<1>1. CASE \E n \in Note, b \in Body : SaveDocument(d, n, b)
  <2>1. PICK n \in Note, b \in Body : SaveDocument(d, n, b)
    BY <1>1
  <2>2. Write(n, b) \in Operation /\ Enqueue(d, Write(n, b)) /\ doc' = [doc EXCEPT ![d][n] = b]
    BY <2>1, Operations DEF SaveDocument, Bodies
  <2>3. doc'[d][n] = b /\ \A m \in Note : m # n => doc'[d][m] = doc[d][m]
    BY <1>0, <2>2
  <2>4. WritesTo(Write(n, b), n) /\ Write(n, b).body = b /\ \A m : WritesTo(Write(n, b), m) => m = n
    BY DEF WritesTo, Write
  <2> QED  BY <2>2, <2>3, <2>4, ShowsByEnqueue
<1>2. CASE \E a \in Asset : AttachImage(d, a)
  <2>1. PICK a \in Asset : AttachImage(d, a)
    BY <1>2
  <2>2. Attach(a) \in Operation /\ Enqueue(d, Attach(a)) /\ UNCHANGED doc
    BY <2>1, Operations DEF AttachImage, canonical
  <2>3. \A n : ~WritesTo(Attach(a), n)
    BY DEF WritesTo, Attach
  <2> QED  BY <2>2, <2>3, ShowsByEnqueue
<1>3. CASE \E p \in blocked[d] : RetryBlocked(d, p)
  <2>1. PICK p \in blocked[d] : RetryBlocked(d, p)
    BY <1>3
  <2>2. p.op \in Operation
    BY <1>0 DEF Held, Parked
  <2>3. Requeued(d, p) \in Operation
    BY <1>0, <2>2, Operations DEF Requeued
  <2>4. Enqueue(d, Requeued(d, p)) /\ UNCHANGED doc
    BY <2>1 DEF RetryBlocked, canonical
  <2>5. \A n \in Note : WritesTo(Requeued(d, p), n) => Requeued(d, p).body = doc[d][n]
    BY DEF Requeued, WritesTo, Write
  <2> QED  BY <2>3, <2>4, <2>5, ShowsByEnqueue
<1>4. CASE \E n \in Note, b \in Body : SaveOversized(d, n, b)
  <2>1. PICK n \in Note, b \in Body : SaveOversized(d, n, b)
    BY <1>4
  <2>2. /\ UNCHANGED outbox /\ b \in Oversized /\ doc'[d][n] = b
        /\ \A m \in Note : m # n => doc'[d][m] = doc[d][m]
    BY <1>0, <2>1 DEF SaveOversized
  <2> QED  BY <2>2 DEF Shows
<1>5. CASE \E p \in blocked[d] : DiscardBlocked(d, p) \/ RestoreAsset(d, p)
  <2>1. UNCHANGED <<outbox, doc>>
    BY <1>5 DEF DiscardBlocked, RestoreAsset, canonical
  <2> QED  BY <2>1 DEF Shows
<1> QED  BY <1>1, <1>2, <1>3, <1>4, <1>5, ShowsByTail DEF User

\* A write of another device never covers a queued one.
LEMMA ShowsByRemote ==
  ASSUME Plain, NEW d \in Device, Shows(d), PullRemote(d)
  PROVE  Shows(d)'
<1> DEFINE op == log[cursor[d] + 1].op
<1>1. /\ UNCHANGED outbox
      /\ doc' = doc \/ (~WritePending(d, op.target) /\ doc' = [doc EXCEPT ![d][op.target] = op.body])
  BY DEF PullRemote
<1>2. CASE doc' = doc
  BY <1>1, <1>2 DEF Shows
<1>3. CASE ~WritePending(d, op.target) /\ doc' = [doc EXCEPT ![d][op.target] = op.body]
  <2>1. \A n \in Note : n # op.target => doc'[d][n] = doc[d][n]
    BY <1>3 DEF Plain, Shown
  <2>2. \A i \in DOMAIN outbox[d] : ~WritesTo(outbox[d][i].op, op.target)
    BY <1>3 DEF WritePending
  <2> HIDE DEF op
  <2>3. \A n \in Note : (\E i \in DOMAIN outbox[d] : WritesTo(outbox[d][i].op, n)) => doc'[d][n] = doc[d][n]
    BY <2>1, <2>2
  <2>4. PICK new : new = outbox[d]
    OBVIOUS
  <2> QED  BY <1>1, <2>3, <2>4, ShowsBySame
<1> QED  BY <1>1, <1>2, <1>3

\* A cycle drops what was sent, parks what cannot be, and writes nothing a
\* queued write would cover.
LEMMA ShowsByWorker ==
  ASSUME BatchLimit = 1 \/ Refused = {},
         Plain, Placed, Aligned, NEW d \in Device, Shows(d), Cycle(d) \/ Trouble(d)
  PROVE  Shows(d)'
<1>1. CASE \/ StartRebuild(d) \/ FetchCheckpoint(d) \/ RefuseRebuild(d) \/ EndPush(d)
           \/ PullTruncated(d) \/ PullDrained(d) \/ PullDuplicate(d) \/ Push(d)
           \/ ExportArchive(d) \/ SkipPublication(d) \/ PublishCheckpoint(d) \/ EndCycle(d)
           \/ StorageFailure(d) \/ \E a \in Asset : LoseAsset(d, a)
  <2>1. UNCHANGED <<outbox, doc>>
    BY <1>1
    DEF StartRebuild, FetchCheckpoint, RefuseRebuild, EndPush, PullTruncated, PullDrained, Push,
        ExportArchive, SkipPublication, PublishCheckpoint, EndCycle, StorageFailure, LoseAsset,
        PullDuplicate, durable, service
  <2> QED  BY <2>1 DEF Shows
<1>2. CASE \/ ReleaseMissing(d) \/ Crash(d)
           \/ \E step \in {"pull", "idle"} : PushFails(d, step) \/ PushTimesOut(d, step)
  <2>1. UNCHANGED <<outbox, doc>>
    BY <1>2 DEF ReleaseMissing, PushFails, PushTimesOut, Crash, Release, canonical
  <2> QED  BY <2>1 DEF Shows
<1>3. CASE Rebuild(d)
  <2>1. outbox'[d] = << >>
    BY <1>3 DEF Rebuild
  <2> QED  BY <2>1 DEF Shows
<1>4. CASE BeginPush(d)
  <2>1. PICK order \in SetToSeqs(Back(d)) : outbox' = [outbox EXCEPT ![d] = @ \o RequeuedRows(d, order)]
    BY <1>4 DEF BeginPush
  <2> DEFINE more == RequeuedRows(d, order)
  <2>2. /\ more \in Seq(Row) /\ order \in Seq(Back(d)) /\ Len(more) = Len(order)
    BY <2>1, RequeuedType
  <2>3. outbox'[d] = outbox[d] \o more /\ UNCHANGED doc
    BY <2>1, <1>4 DEF BeginPush, canonical, Plain, Queues
  <2>4. ASSUME NEW i \in DOMAIN more, NEW n
        PROVE  ~WritesTo(more[i].op, n)
    <3>1. i \in DOMAIN order
      BY <2>2
    <3>2. order[i] \in Held /\ order[i].reason = "asset_missing"
      BY <2>2, <3>1 DEF Back, Plain, Queues
    <3>3. more[i].op = order[i].op
      BY <3>1 DEF RequeuedRows
    <3> QED  BY <3>2, <3>3 DEF Held, WritesTo
  <2> HIDE DEF more
  <2> QED  BY <2>2, <2>3, <2>4, ShowsByMore
<1>5. CASE \E k \in 1 .. Len(outbox[d]) : Claim(d, k)
  <2>1. PICK k \in 1 .. Len(outbox[d]) : Claim(d, k)
    BY <1>5
  <2>2. PICK new : new = ClaimedTo(d, k)
    OBVIOUS
  <2>3. outbox'[d] = new /\ UNCHANGED doc
    BY <2>1, <2>2 DEF Claim, ClaimedTo, canonical, Plain, Queues
  <2>4. DOMAIN new = DOMAIN outbox[d]
    BY <2>2 DEF ClaimedTo
  <2>5. ASSUME NEW i \in DOMAIN new
        PROVE  new[i].op = outbox[d][i].op
    <3>1. outbox[d][i] \in Row
      BY <2>4 DEF Plain, Queues
    <3> QED  BY <2>2, <2>4, <3>1 DEF ClaimedTo, Tried, Row
  <2> QED  BY <2>3, <2>4, <2>5, ShowsBySame
<1>6. CASE Acknowledge(d)
  <2>1. PICK new : new = outbox'[d]
    OBVIOUS
  <2>2. LeftOf(d, claimed[d], new)
    BY <1>6, <2>1, LeftByAcknowledge DEF Placed
  <2>3. doc'[d] = doc[d]
    BY <1>6 DEF Acknowledge
  <2> QED  BY <2>1, <2>2, <2>3, ShowsByLeaving
<1>7. CASE PullEcho(d)
  <2>1. PICK new : new = outbox'[d]
    OBVIOUS
  <2>2. LeftOf(d, 1, new)
    BY <1>7, <2>1, LeftByEcho DEF Placed, Aligned
  <2>3. doc'[d] = doc[d]
    BY <1>7 DEF PullEcho
  <2> QED  BY <2>1, <2>2, <2>3, ShowsByLeaving
<1>8. CASE ParkMissing(d)
  <2>1. Missing(d) # {} /\ Park(d, Missing(d), "asset_missing")
    BY <1>8 DEF ParkMissing
  <2>2. Missing(d) \in SUBSET (DOMAIN outbox[d])
    <3>1. claimed[d] \in Nat /\ claimed[d] =< Len(outbox[d]) /\ DOMAIN outbox[d] = 1 .. Len(outbox[d])
          /\ Len(outbox[d]) \in Nat
      BY DEF Plain, Queues, Claims
    <3> QED  BY <3>1 DEF Missing
  <2>3. \A x \in Missing(d) : outbox[d][x].op.kind = "attach"
    BY DEF Missing
  <2> QED  BY <2>1, <2>2, <2>3, ShowsByPark
<1>9. CASE PushRefused(d)
  <2>1. /\ \/ Release(d, "pull")
           \/ Park(d, 1 .. claimed[d], "cloud_rejected")
        /\ \A known \in 0 .. claimed[d] : ~Admits(d, Batch(d), known)
    BY <1>9 DEF PushRefused
  <2>2. CASE Release(d, "pull")
    BY <2>2 DEF Release, canonical, Shows
  <2>3. CASE Park(d, 1 .. claimed[d], "cloud_rejected")
    <3>1. claimed[d] = 1 /\ 1 \in DOMAIN outbox[d]
      BY <2>1, RefusedAlone
    <3>2. 1 .. claimed[d] = {1} /\ {1} # {} /\ {1} \in SUBSET (DOMAIN outbox[d])
      BY <3>1
    <3> QED  BY <2>3, <3>2, ShowsByPark
  <2> QED  BY <2>1, <2>2, <2>3
<1> QED
  BY <1>1, <1>2, <1>3, <1>4, <1>5, <1>6, <1>7, <1>8, <1>9, ShowsByRemote DEF Cycle, Trouble

\* A step of one device changes no other device's queue or workspace.
LEMMA OwnOnly ==
  ASSUME Plain, NEW d \in Device, User(d) \/ Cycle(d) \/ Trouble(d), NEW e \in Device, e # d
  PROVE  outbox'[e] = outbox[e] /\ doc'[e] = doc[e]
<1>0. outbox \in [Device -> Seq(Row)] /\ doc \in [Device -> [Note -> Bodies]]
  BY DEF Plain, Queues, Shown
<1>1. CASE User(d)
  <2>1. doc'[e] = doc[e]
    BY <1>0, <1>1
    DEF User, SaveDocument, SaveIntoTail, SaveOversized, AttachImage, RetryBlocked, DiscardBlocked,
        RestoreAsset, canonical
  <2>2. outbox'[e] = outbox[e]
    BY <1>0, <1>1
    DEF User, SaveDocument, SaveIntoTail, SaveOversized, AttachImage, RetryBlocked, DiscardBlocked,
        RestoreAsset, Enqueue
  <2> QED  BY <2>1, <2>2
<1>2. CASE \/ StartRebuild(d) \/ FetchCheckpoint(d) \/ RefuseRebuild(d) \/ EndPush(d)
           \/ PullTruncated(d) \/ PullDrained(d) \/ PullDuplicate(d) \/ Push(d)
           \/ ExportArchive(d) \/ SkipPublication(d) \/ PublishCheckpoint(d) \/ Trouble(d)
  <2>1. UNCHANGED <<outbox, doc>>
    BY <1>2
    DEF StartRebuild, FetchCheckpoint, RefuseRebuild, EndPush, PullTruncated, PullDrained, Push,
        ExportArchive, SkipPublication, PublishCheckpoint, PullDuplicate, durable, Trouble, EndCycle,
        StorageFailure, LoseAsset, PushFails, PushTimesOut, Crash, Release, canonical
  <2> QED  BY <2>1
<1>3. CASE ReleaseMissing(d) \/ Rebuild(d) \/ PullRemote(d)
  BY <1>0, <1>3 DEF ReleaseMissing, Release, Rebuild, PullRemote, canonical
<1>4. CASE \/ BeginPush(d) \/ (\E k \in 1 .. Len(outbox[d]) : Claim(d, k))
           \/ Acknowledge(d) \/ PullEcho(d)
  BY <1>0, <1>4 DEF BeginPush, Claim, Acknowledge, PullEcho, canonical
<1>5. CASE ParkMissing(d) \/ PushRefused(d)
  BY <1>0, <1>5 DEF ParkMissing, PushRefused, Park, Release, canonical
<1> QED  BY <1>1, <1>2, <1>3, <1>4, <1>5 DEF Cycle

\* The last queued write of every note stays the body its device shows.
LEMMA AllShowHolds ==
  ASSUME BatchLimit = 1 \/ Refused = {}
  PROVE  Spec => []AllShow
<1>1. Init => AllShow
  BY DEF Init, AllShow, Shows
<1>2. Plain /\ Placed /\ Aligned /\ AllShow /\ [Next]_vars => AllShow'
  <2> SUFFICES ASSUME Plain, Placed, Aligned, AllShow, [Next]_vars
               PROVE  AllShow'
    OBVIOUS
  <2>1. CASE UNCHANGED <<outbox, doc>>
    BY <2>1 DEF AllShow, Shows
  <2>2. CASE UNCHANGED vars
    BY <2>1, <2>2 DEF vars, durable
  <2>3. ASSUME NEW f \in 1 .. ckpt.seq, Compact(f)
        PROVE  AllShow'
    BY <2>1, <2>3 DEF Compact, durable
  <2>4. ASSUME NEW r \in stray, StrayArrives(r)
        PROVE  AllShow'
    BY <2>1, <2>4 DEF StrayArrives, durable
  <2>5. ASSUME NEW d \in Device, User(d) \/ Cycle(d) \/ Trouble(d)
        PROVE  AllShow'
    <3>1. ASSUME NEW e \in Device, e # d
          PROVE  Shows(e)'
      <4>1. outbox'[e] = outbox[e] /\ doc'[e] = doc[e]
        BY <2>5, <3>1, OwnOnly
      <4> QED  BY <4>1 DEF AllShow, Shows
    <3>2. Shows(d)'
      BY <2>5, ShowsByUser, ShowsByWorker DEF AllShow
    <3> QED  BY <3>1, <3>2 DEF AllShow
  <2> QED  BY <2>2, <2>3, <2>4, <2>5 DEF Next
<1> QED  BY <1>1, <1>2, PlainHolds, PlacedHolds, AlignedHolds, PTL DEF Spec

\* A device never publishes a body it has already moved past: the last queued
\* write of a note is the body it shows, unless that fits into no batch
\* (apply_document_save, reconcile_document_body).
THEOREM QueueShowsDocHolds ==
  ASSUME BatchLimit = 1 \/ Refused = {}
  PROVE  Spec => []QueueShowsDoc
<1>1. Plain /\ AllShow => QueueShowsDoc
  <2> SUFFICES ASSUME Plain, AllShow, NEW d \in Device, NEW n \in Note,
                      {i \in DOMAIN outbox[d] : WritesTo(outbox[d][i].op, n)} # {}
               PROVE  \/ outbox[d][Max({i \in DOMAIN outbox[d] : WritesTo(outbox[d][i].op, n)})].op.body
                           = doc[d][n]
                      \/ doc[d][n] \in Oversized
    BY DEF QueueShowsDoc
  <2> DEFINE writes == {i \in DOMAIN outbox[d] : WritesTo(outbox[d][i].op, n)}
             last == Max(writes)
  <2>1. Len(outbox[d]) \in Nat /\ DOMAIN outbox[d] = 1 .. Len(outbox[d])
    BY DEF Plain, Queues
  <2>2. writes \in SUBSET (0 .. Len(outbox[d])) /\ writes # {}
    BY <2>1
  <2>3. last \in writes /\ \A x \in writes : last >= x
    <3> HIDE DEF writes
    <3> QED  BY <2>1, <2>2, MaxGreatest
  <2> HIDE DEF last
  <2>4. Final(outbox[d], n, last)
    <3>1. \A x \in DOMAIN outbox[d] : last < x => x \notin writes
      BY <2>1, <2>3
    <3> QED  BY <2>3, <3>1 DEF Final
  <2>5. last \in DOMAIN outbox[d]
    BY <2>3
  <2> QED  BY <2>4, <2>5 DEF AllShow, Shows, last
<1> QED  BY <1>1, PlainHolds, AllShowHolds, PTL

-----------------------------------------------------------------------------
(* What the log says of a note                                               *)

\* What LastWrite is: the greatest sequence up to s that writes the note.
LEMMA LastOf ==
  ASSUME NEW n, NEW s \in Nat
  PROVE  /\ LastWrite(n, s) \in 0 .. s
         /\ LastWrite(n, s) # 0 => WritesTo(log[LastWrite(n, s)].op, n)
         /\ \A t \in 1 .. s : WritesTo(log[t].op, n) => t =< LastWrite(n, s)
<1> DEFINE S == {0} \cup {t \in 1 .. s : WritesTo(log[t].op, n)}
<1>1. S \in SUBSET (0 .. s) /\ S # {}
  OBVIOUS
<1>2. Max(S) \in S /\ \A x \in S : Max(S) >= x
  <2> HIDE DEF S
  <2> QED  BY <1>1, MaxGreatest
<1>3. LastWrite(n, s) = Max(S)
  BY DEF LastWrite
<1> DEFINE m == Max(S)
<1>4. m \in S /\ \A x \in S : m >= x
  BY <1>2
<1> HIDE DEF m
<1>5. m \in 0 .. s /\ (m # 0 => WritesTo(log[m].op, n))
  BY <1>4
<1>6. \A t \in 1 .. s : WritesTo(log[t].op, n) => t \in S /\ t \in Nat
  OBVIOUS
<1>7. \A t \in 1 .. s : WritesTo(log[t].op, n) => t =< m
  BY <1>4, <1>5, <1>6
<1> QED  BY <1>3, <1>5, <1>7 DEF m

\* Nothing else is.
LEMMA LastIs ==
  ASSUME NEW n, NEW s \in Nat, NEW m \in 0 .. s,
         m # 0 => WritesTo(log[m].op, n),
         \A t \in 1 .. s : WritesTo(log[t].op, n) => t =< m
  PROVE  LastWrite(n, s) = m
<1> DEFINE l == LastWrite(n, s)
<1>1. /\ l \in 0 .. s /\ (l # 0 => WritesTo(log[l].op, n))
      /\ \A t \in 1 .. s : WritesTo(log[t].op, n) => t =< l
  BY LastOf
<1> HIDE DEF l
<1>2. l =< m
  BY <1>1
<1>3. m =< l
  BY <1>1
<1>4. l = m
  BY <1>1, <1>2, <1>3
<1> QED  BY <1>4 DEF l

\* A log that grows says the same of what it held.
LEMMA LastKept ==
  ASSUME NEW n, NEW s \in Nat, \A t \in 1 .. s : log'[t] = log[t]
  PROVE  LastWrite(n, s)' = LastWrite(n, s) /\ BodyAt(LastWrite(n, s))' = BodyAt(LastWrite(n, s))
<1>1. {t \in 1 .. s : WritesTo(log'[t].op, n)} = {t \in 1 .. s : WritesTo(log[t].op, n)}
  OBVIOUS
<1>2. LastWrite(n, s)' = LastWrite(n, s)
  BY <1>1 DEF LastWrite
<1>3. LastWrite(n, s) \in 0 .. s
  BY LastOf
<1> DEFINE l == LastWrite(n, s)
<1>4. l # 0 => l \in 1 .. s
  BY <1>3
<1>5. l # 0 => log'[l] = log[l]
  BY <1>4
<1> QED  BY <1>2, <1>5 DEF BodyAt

\* A state of the workspace that is what the log says up to its sequence.
Faithful(c) ==
  /\ c.seq =< Len(log)
  /\ \A n \in Note : c.docs[n] = BodyAt(LastWrite(n, c.seq))

\* Nothing but images is parked.
OnlyImages == \A d \in Device : \A p \in blocked[d] : p.op.kind = "attach"

\* The head of a note is the greatest received write of it.
Headed(d) ==
  \A n \in Note :
    /\ heads[d][n] # 0 => heads[d][n] \in received[d] /\ WritesTo(log[heads[d][n]].op, n)
    /\ \A s \in received[d] : WritesTo(log[s].op, n) => s =< heads[d][n]

\* The last write the device knows of: received, or up to its checkpoint.
Latest(d, n) == Greater(heads[d][n], LastWrite(n, through[d]))

\* A note with no write queued shows the last write the device knows of.
Current(d) ==
  \A n \in Note :
    (\A i \in DOMAIN outbox[d] : ~WritesTo(outbox[d][i].op, n)) => doc[d][n] = BodyAt(Latest(d, n))

\* A device that read the log to its end has nothing above its cursor.
Settled(d) == pc[d] = "settled" => \A s \in received[d] : s =< cursor[d]

\* Every device is on the log, and every checkpoint is what the log says.
OnLog ==
  /\ OnlyImages
  /\ \A d \in Device : Headed(d) /\ Current(d) /\ Settled(d) /\ through[d] =< cursor[d]
  /\ Faithful(ckpt)
  /\ \A d \in Device : pc[d] \in {"fetched", "exported"} => Faithful(archive[d])

\* A device's last known write of a note is in the log and writes it.
LEMMA LatestOf ==
  ASSUME Plain, Followed, NEW d \in Device, Headed(d), through[d] =< cursor[d], NEW n \in Note
  PROVE  /\ Latest(d, n) \in 0 .. Len(log)
         /\ Latest(d, n) # 0 => WritesTo(log[Latest(d, n)].op, n)
         /\ heads[d][n] =< Latest(d, n) /\ LastWrite(n, through[d]) =< Latest(d, n)
         /\ Latest(d, n) = heads[d][n] \/ Latest(d, n) = LastWrite(n, through[d])
<1> DEFINE h == heads[d][n]
           l == LastWrite(n, through[d])
<1>1. Len(log) \in Nat /\ DOMAIN log = 1 .. Len(log) /\ through[d] \in Nat /\ cursor[d] \in Nat
  BY DEF Plain, Services, Shown
<1>2. received[d] \subseteq DOMAIN log /\ cursor[d] =< Len(log) /\ h \in Nat
  BY DEF Followed, Read
<1>3. h # 0 => h \in 1 .. Len(log) /\ WritesTo(log[h].op, n)
  BY <1>1, <1>2 DEF Headed
<1>4. l \in 0 .. through[d] /\ (l # 0 => WritesTo(log[l].op, n))
  BY <1>1, LastOf
<1>5. Latest(d, n) = IF h > l THEN h ELSE l
  BY DEF Latest, Greater
<1> HIDE DEF h, l
<1>6. l \in 0 .. Len(log) /\ h \in 0 .. Len(log)
  BY <1>1, <1>2, <1>3, <1>4
<1>7. CASE h > l
  BY <1>3, <1>5, <1>6, <1>7 DEF h, l
<1>8. CASE ~(h > l)
  BY <1>4, <1>5, <1>6, <1>8 DEF h, l
<1> QED  BY <1>7, <1>8

\* A device is on the log when all of this holds of it.
OnLogAt(d) == Headed(d) /\ Current(d) /\ Settled(d) /\ through[d] =< cursor[d]

\* A checkpoint that is what the log says stays so as the log grows.
LEMMA FaithfulKept ==
  ASSUME Plain, Plain', NEW c \in Checkpoint, Faithful(c), LogKept
  PROVE  Faithful(c)'
<1>1. /\ Len(log) \in Nat /\ DOMAIN log = 1 .. Len(log) /\ c.seq \in Nat
      /\ Len(log') \in Nat /\ DOMAIN log' = 1 .. Len(log')
  BY DEF Plain, Services, Checkpoint
<1>2. c.seq =< Len(log)
  BY DEF Faithful
<1>3. \A t \in 1 .. c.seq : t \in DOMAIN log
  BY <1>1, <1>2
<1>4. \A t \in 1 .. c.seq : t \in DOMAIN log' /\ log'[t] = log[t]
  BY <1>3 DEF LogKept
<1>5. c.seq =< Len(log')
  BY <1>1, <1>4
<1>6. ASSUME NEW n \in Note
      PROVE  c.docs[n] = BodyAt(LastWrite(n, c.seq))'
  <2>1. BodyAt(LastWrite(n, c.seq))' = BodyAt(LastWrite(n, c.seq))
    BY <1>1, <1>4, LastKept
  <2> QED  BY <2>1 DEF Faithful
<1> QED  BY <1>5, <1>6 DEF Faithful

\* What a device last knew of a note stays what it last knew.
LEMMA LatestKept ==
  ASSUME Plain, Followed, NEW d \in Device, Headed(d), through[d] =< cursor[d], LogKept,
         heads'[d] = heads[d], through'[d] = through[d], NEW n \in Note
  PROVE  Latest(d, n)' = Latest(d, n) /\ BodyAt(Latest(d, n))' = BodyAt(Latest(d, n))
<1>1. /\ Len(log) \in Nat /\ DOMAIN log = 1 .. Len(log) /\ through[d] \in Nat /\ cursor[d] \in Nat
      /\ cursor[d] =< Len(log)
  BY DEF Plain, Services, Shown, Followed, Read
<1>2. \A t \in 1 .. through[d] : t \in DOMAIN log
  BY <1>1
<1>3. \A t \in 1 .. through[d] : log'[t] = log[t]
  BY <1>2 DEF LogKept
<1>4. PICK s \in Nat : s = through[d]
  BY <1>1
<1>5. LastWrite(n, s)' = LastWrite(n, s)
  BY <1>3, <1>4, LastKept
<1>6. LastWrite(n, through[d])' = LastWrite(n, through[d])
  BY <1>4, <1>5 DEF LastWrite
<1>7. Latest(d, n)' = Latest(d, n)
  BY <1>6 DEF Latest
<1>8. Latest(d, n) \in 0 .. Len(log)
  BY LatestOf
<1>9. Latest(d, n) # 0 => Latest(d, n) \in DOMAIN log
  BY <1>1, <1>8
<1>10. BodyAt(Latest(d, n))' = BodyAt(Latest(d, n))
  BY <1>7, <1>9 DEF BodyAt, LogKept
<1> QED  BY <1>7, <1>10

\* A step that reads nothing, and leaves what is shown of every note that has
\* no write queued after it.
LEMMA OnByFrame ==
  ASSUME Plain, Followed, NEW d \in Device, OnLogAt(d), LogKept,
         received'[d] = received[d], heads'[d] = heads[d], through'[d] = through[d],
         cursor'[d] \in Nat, cursor[d] =< cursor'[d],
         pc'[d] = "settled" => pc[d] = "settled" \/ cursor[d] = Len(log),
         \A n \in Note :
           (\A i \in DOMAIN outbox'[d] : ~WritesTo(outbox'[d][i].op, n)) =>
             /\ doc'[d][n] = doc[d][n]
             /\ \A i \in DOMAIN outbox[d] : ~WritesTo(outbox[d][i].op, n)
  PROVE  OnLogAt(d)'
<1>1. /\ received[d] \subseteq DOMAIN log /\ DOMAIN log = 1 .. Len(log) /\ Len(log) \in Nat
      /\ heads[d] \in [Note -> Nat]
  BY DEF Plain, Services, Followed, Read
<1>2. Headed(d)'
  BY <1>1 DEF Headed, OnLogAt, LogKept
<1>3. ASSUME NEW n \in Note, \A i \in DOMAIN outbox'[d] : ~WritesTo(outbox'[d][i].op, n)
      PROVE  doc'[d][n] = BodyAt(Latest(d, n))'
  <2>1. BodyAt(Latest(d, n))' = BodyAt(Latest(d, n))
    BY LatestKept DEF OnLogAt
  <2>2. doc'[d][n] = doc[d][n] /\ \A i \in DOMAIN outbox[d] : ~WritesTo(outbox[d][i].op, n)
    BY <1>3
  <2> QED  BY <2>1, <2>2 DEF OnLogAt, Current
<1>4. cursor[d] \in Nat /\ through[d] \in Nat
  BY DEF Plain, Shown
<1>5. Settled(d)'
  BY <1>1, <1>4 DEF Settled, OnLogAt
<1>6. through'[d] =< cursor'[d]
  BY <1>4 DEF OnLogAt
<1> QED  BY <1>2, <1>3, <1>5, <1>6 DEF OnLogAt, Current

\* Once nothing is received above the cursor, the last write a device knows of
\* is the last one up to its cursor.
LEMMA LatestReached ==
  ASSUME Plain, Followed, NEW d \in Device, Headed(d), through[d] =< cursor[d],
         \A s \in received[d] : s =< cursor[d], NEW n \in Note
  PROVE  Latest(d, n) = LastWrite(n, cursor[d])
<1> DEFINE l == Latest(d, n)
           h == heads[d][n]
           k == LastWrite(n, through[d])
<1>1. /\ l \in 0 .. Len(log) /\ (l # 0 => WritesTo(log[l].op, n)) /\ h =< l /\ k =< l
      /\ (l = h \/ l = k)
  BY LatestOf
<1>2. /\ Len(log) \in Nat /\ through[d] \in Nat /\ cursor[d] \in Nat /\ h \in Nat
      /\ \A s \in 1 .. cursor[d] : s =< through[d] \/ s \in received[d]
  BY DEF Plain, Services, Shown, Followed, Read
<1>3. /\ k \in 0 .. through[d]
      /\ \A t \in 1 .. through[d] : WritesTo(log[t].op, n) => t =< k
  BY <1>2, LastOf
<1>4. /\ h # 0 => h =< cursor[d]
      /\ \A s \in received[d] : WritesTo(log[s].op, n) => s =< h
  BY DEF Headed
<1> HIDE DEF l, h, k
<1>5. l \in 0 .. cursor[d]
  BY <1>1, <1>2, <1>3, <1>4
<1>6. ASSUME NEW t \in 1 .. cursor[d], WritesTo(log[t].op, n)
      PROVE  t =< l
  <2>1. CASE t =< through[d]
    <3>1. t =< k
      BY <1>2, <1>3, <1>6, <2>1
    <3> QED  BY <1>1, <1>2, <1>3, <3>1
  <2>2. CASE t \in received[d]
    <3>1. t =< h
      BY <1>4, <1>6, <2>2
    <3> QED  BY <1>1, <1>2, <3>1
  <2> QED  BY <1>2, <2>1, <2>2
<1>7. LastWrite(n, cursor[d]) = l
  BY <1>1, <1>2, <1>5, <1>6, LastIs
<1> QED  BY <1>7 DEF l

\* The operation after the cursor becomes part of what is received.
LEMMA HeadedByIncorporate ==
  ASSUME Plain, Followed, NEW d \in Device, Headed(d), NEW s, s = cursor[d] + 1,
         s \in DOMAIN log, Incorporate(d, s), UNCHANGED log
  PROVE  /\ Headed(d)'
         /\ \A n \in Note : heads'[d][n] = IF WritesTo(log[s].op, n) THEN Greater(heads[d][n], s)
                                           ELSE heads[d][n]
         /\ received'[d] = received[d] \cup {s} /\ cursor'[d] = s
<1>1. /\ received \in [Device -> SUBSET Nat] /\ heads \in [Device -> [Note -> Nat]]
      /\ cursor \in [Device -> Nat] /\ s \in Nat
  BY DEF Plain, Shown, Followed
<1>2. \A n \in Note : heads'[d][n] = IF WritesTo(log[s].op, n) THEN Greater(heads[d][n], s)
                                     ELSE heads[d][n]
  BY <1>1 DEF Incorporate
<1>3. received'[d] = received[d] \cup {s} /\ cursor'[d] = s
  BY <1>1 DEF Incorporate
<1>4. ASSUME NEW n \in Note
      PROVE  /\ heads'[d][n] # 0 =>
                  heads'[d][n] \in received'[d] /\ WritesTo(log'[heads'[d][n]].op, n)
             /\ \A t \in received'[d] : WritesTo(log'[t].op, n) => t =< heads'[d][n]
  <2> DEFINE h == heads[d][n]
  <2>1. /\ h \in Nat /\ received[d] \subseteq Nat
        /\ h # 0 => h \in received[d] /\ WritesTo(log[h].op, n)
        /\ \A t \in received[d] : WritesTo(log[t].op, n) => t =< h
    BY <1>1 DEF Headed
  <2>2. CASE WritesTo(log[s].op, n)
    <3>1. heads'[d][n] = IF h > s THEN h ELSE s
      BY <1>2, <2>2 DEF Greater
    <3> HIDE DEF h
    <3>2. CASE h > s
      BY <1>1, <1>3, <2>1, <3>1, <3>2
    <3>3. CASE ~(h > s)
      <4>1. \A t \in received[d] : WritesTo(log[t].op, n) => t =< s
        BY <1>1, <2>1, <3>3
      <4> QED  BY <1>1, <1>3, <2>2, <3>1, <3>3, <4>1
    <3> QED  BY <3>2, <3>3
  <2>3. CASE ~WritesTo(log[s].op, n)
    BY <1>2, <1>3, <2>1, <2>3
  <2> QED  BY <2>2, <2>3
<1>5. Headed(d)'
  BY <1>4 DEF Headed
<1> QED  BY <1>2, <1>3, <1>5

\* Where nothing is read of a note, what is last known of it stays.
LEMMA LatestSame ==
  ASSUME NEW d \in Device, NEW n \in Note, UNCHANGED log, heads'[d][n] = heads[d][n],
         through'[d] = through[d]
  PROVE  BodyAt(Latest(d, n))' = BodyAt(Latest(d, n))
BY DEF BodyAt, Latest, LastWrite

\* A write above everything the device knew is the last one it knows.
LEMMA LatestNow ==
  ASSUME Plain, NEW d \in Device, NEW n \in Note, UNCHANGED log, through'[d] = through[d],
         NEW s \in DOMAIN log, through[d] < s, heads'[d][n] = s
  PROVE  BodyAt(Latest(d, n))' = log[s].op.body
<1>1. /\ through[d] \in Nat /\ DOMAIN log = 1 .. Len(log) /\ Len(log) \in Nat
  BY DEF Plain, Services, Shown
<1>2. s \in Nat /\ s # 0
  BY <1>1
<1>3. LastWrite(n, through[d])' = LastWrite(n, through[d])
  BY DEF LastWrite
<1> DEFINE l == LastWrite(n, through[d])
<1>4. l \in 0 .. through[d]
  BY <1>1, LastOf
<1>5. Latest(d, n)' = Greater(s, l)
  BY <1>3 DEF Latest
<1> HIDE DEF l
<1>6. Greater(s, l) = s
  BY <1>1, <1>2, <1>4 DEF Greater
<1> QED  BY <1>2, <1>5, <1>6 DEF BodyAt

\* Another device's operation leaves it on the log.
LEMMA OnByRemote ==
  ASSUME Plain, Plain', Followed, NEW d \in Device, OnLogAt(d), OnlyImages, PullRemote(d)
  PROVE  OnLogAt(d)'
<1>1. /\ cursor \in [Device -> Nat] /\ through \in [Device -> Nat] /\ doc \in [Device -> [Note -> Bodies]]
      /\ log \in Seq(Entry) /\ heads \in [Device -> [Note -> Nat]]
  BY DEF Plain, Shown, Services, Followed
<1>2. PICK s : s = cursor[d] + 1
  OBVIOUS
<1>3. s \in DOMAIN log /\ s \in Nat /\ through[d] < s /\ through'[d] =< s
  <2>1. cursor[d] < Len(log) /\ through[d] =< cursor[d] /\ through' = through
    BY DEF PullRemote, InLog, OnLogAt
  <2> QED  BY <1>1, <1>2, <2>1
<1>4. /\ Incorporate(d, s) /\ UNCHANGED <<log, outbox, through, pc>> /\ pc[d] = "pull"
      /\ doc' = IF log[s].op.kind = "save" /\ ~WritePending(d, log[s].op.target)
                   /\ s > heads[d][log[s].op.target]
                THEN [doc EXCEPT ![d][log[s].op.target] = log[s].op.body]
                ELSE doc
  BY <1>2 DEF PullRemote, InLog, worker, service
<1>5. /\ Headed(d)'
      /\ \A n \in Note : heads'[d][n] = IF WritesTo(log[s].op, n) THEN Greater(heads[d][n], s)
                                        ELSE heads[d][n]
      /\ cursor'[d] = s
  BY <1>2, <1>3, <1>4, HeadedByIncorporate DEF OnLogAt
<1>6. ASSUME NEW n \in Note, \A i \in DOMAIN outbox[d] : ~WritesTo(outbox[d][i].op, n)
      PROVE  doc'[d][n] = BodyAt(Latest(d, n))'
  <2>1. doc[d][n] = BodyAt(Latest(d, n)) /\ heads[d][n] \in Nat
    BY <1>1, <1>6 DEF OnLogAt, Current
  <2>2. CASE ~WritesTo(log[s].op, n)
    <3>1. doc'[d][n] = doc[d][n]
      BY <1>1, <1>4, <2>2 DEF WritesTo
    <3>2. heads'[d][n] = heads[d][n]
      BY <1>5, <2>2
    <3> QED  BY <1>4, <2>1, <3>1, <3>2, LatestSame
  <2>3. CASE WritesTo(log[s].op, n)
    <3>1. log[s].op.kind = "save" /\ log[s].op.target = n
      BY <2>3 DEF WritesTo
    <3>2. ~WritePending(d, n)
      <4>1. \A p \in blocked[d] : ~WritesTo(p.op, n)
        BY DEF OnlyImages, WritesTo
      <4> QED  BY <1>6, <4>1 DEF WritePending
    <3>3. CASE s > heads[d][n]
      <4>1. doc'[d][n] = log[s].op.body
        BY <1>1, <1>4, <3>1, <3>2, <3>3
      <4>2. heads'[d][n] = s
        BY <1>3, <1>5, <2>1, <2>3, <3>3 DEF Greater
      <4>3. BodyAt(Latest(d, n))' = log[s].op.body
        BY <1>3, <1>4, <4>2, LatestNow
      <4> QED  BY <4>1, <4>3
    <3>4. CASE ~(s > heads[d][n])
      <4>1. doc'[d][n] = doc[d][n]
        BY <1>4, <3>1, <3>4
      <4>2. heads'[d][n] = heads[d][n]
        BY <1>3, <1>5, <2>1, <2>3, <3>4 DEF Greater
      <4> QED  BY <1>4, <2>1, <4>1, <4>2, LatestSame
    <3> QED  BY <3>3, <3>4
  <2> QED  BY <2>2, <2>3
<1>7. Current(d)'
  BY <1>4, <1>6 DEF Current
<1>8. Settled(d)'
  BY <1>4 DEF Settled
<1> QED  BY <1>3, <1>5, <1>7, <1>8 DEF OnLogAt

\* A note whose last queued write left with the head of the queue.
LEMMA FinalAmong ==
  ASSUME Plain, NEW d \in Device, NEW j, NEW new, LeftOf(d, j, new), NEW n \in Note,
         \A i \in DOMAIN new : ~WritesTo(new[i].op, n),
         NEW x \in DOMAIN outbox[d], WritesTo(outbox[d][x].op, n)
  PROVE  \E i \in 1 .. j : Final(outbox[d], n, i)
<1> DEFINE rows == outbox[d]
           k == Len(outbox[d])
           writes == {i \in DOMAIN rows : WritesTo(rows[i].op, n)}
           last == Max(writes)
<1>1. /\ k \in Nat /\ DOMAIN rows = 1 .. k /\ j \in 0 .. k /\ Len(new) = k - j
      /\ new \in Seq(Row) /\ \A i \in DOMAIN new : new[i] = rows[i + j]
  BY DEF Plain, Queues, LeftOf
<1>2. writes \in SUBSET (0 .. k) /\ writes # {}
  BY <1>1
<1>3. last \in writes /\ \A y \in writes : last >= y
  <2> HIDE DEF writes, k
  <2> QED  BY <1>1, <1>2, MaxGreatest
<1> HIDE DEF last, k
<1>4. Final(rows, n, last)
  <2>1. \A y \in DOMAIN rows : last < y => y \notin writes
    BY <1>1, <1>3
  <2> QED  BY <1>3, <2>1 DEF Final
<1>5. last =< j
  <2> SUFFICES ASSUME ~(last =< j)
               PROVE  FALSE
    OBVIOUS
  <2>1. last - j \in DOMAIN new /\ (last - j) + j = last
    BY <1>1, <1>3
  <2>2. new[last - j] = rows[last]
    BY <1>1, <2>1
  <2> QED  BY <1>3, <2>1, <2>2
<1>6. last \in 1 .. j
  BY <1>1, <1>3, <1>5
<1> QED  BY <1>4, <1>6

\* The rows that left were the device's own: where they wrote a note, the last
\* of them is what it shows and what it now knows to be last.
LEMMA CurrentByLeaving ==
  ASSUME Plain, Oversized = {}, NEW d \in Device, QueueSound(d), Shows(d), OnLogAt(d),
         NEW j, NEW new, LeftOf(d, j, new), outbox'[d] = new, doc'[d] = doc[d],
         UNCHANGED log, through'[d] = through[d],
         \A n \in Note : (\A i \in 1 .. j : ~WritesTo(outbox[d][i].op, n)) => heads'[d][n] = heads[d][n],
         \A n \in Note : \A i \in 1 .. j :
           Final(outbox[d], n, i) =>
             heads'[d][n] \in DOMAIN log /\ Holds(d, heads'[d][n], outbox[d][i])
  PROVE  Current(d)'
<1> SUFFICES ASSUME NEW n \in Note, \A i \in DOMAIN new : ~WritesTo(new[i].op, n)
             PROVE  doc[d][n] = BodyAt(Latest(d, n))'
  BY DEF Current
<1>1. CASE \A x \in DOMAIN outbox[d] : ~WritesTo(outbox[d][x].op, n)
  <2>1. doc[d][n] = BodyAt(Latest(d, n))
    BY <1>1 DEF OnLogAt, Current
  <2>2. \A i \in 1 .. j : i \in DOMAIN outbox[d]
    BY DEF Plain, Queues, LeftOf
  <2>3. heads'[d][n] = heads[d][n]
    BY <1>1, <2>2
  <2> QED  BY <2>1, <2>3, LatestSame
<1>2. ASSUME NEW x \in DOMAIN outbox[d], WritesTo(outbox[d][x].op, n)
      PROVE  doc[d][n] = BodyAt(Latest(d, n))'
  <2>1. PICK i \in 1 .. j : Final(outbox[d], n, i)
    BY <1>2, FinalAmong
  <2>2. PICK s \in DOMAIN log : s = heads'[d][n]
    BY <2>1
  <2>3. Holds(d, s, outbox[d][i]) /\ i \in DOMAIN outbox[d]
    BY <2>1, <2>2 DEF Final
  <2>4. log[s].op.body = outbox[d][i].op.body
    BY <2>3 DEF QueueSound, Recorded, EntryOf
  <2>5. outbox[d][i].op.body = doc[d][n]
    BY <2>1, <2>3 DEF Shows
  <2>6. through[d] < s
    <3>1. s > cursor[d]
      BY <2>3 DEF QueueSound, InOrder
    <3> QED  BY <3>1 DEF OnLogAt, Plain, Shown, Services
  <2>7. BodyAt(Latest(d, n))' = log[s].op.body
    BY <2>2, <2>6, LatestNow
  <2> QED  BY <2>4, <2>5, <2>7
<1> QED  BY <1>1, <1>2

\* An own operation read before its acknowledgement.
LEMMA OnByEcho ==
  ASSUME Plain, Plain', Followed, AcceptedOnce, Oversized = {}, NEW d \in Device, QueueSound(d), Shows(d),
         OnLogAt(d), PullEcho(d)
  PROVE  OnLogAt(d)'
<1>1. /\ cursor \in [Device -> Nat] /\ through \in [Device -> Nat] /\ log \in Seq(Entry)
      /\ heads \in [Device -> [Note -> Nat]] /\ received \in [Device -> SUBSET Nat]
  BY DEF Plain, Shown, Services, Followed
<1>2. PICK s : s = cursor[d] + 1
  OBVIOUS
<1>3. Incorporate(d, s) /\ UNCHANGED <<log, doc, through, pc>> /\ InLog(d)
  BY <1>2 DEF PullEcho, worker, service
<1>4. s \in DOMAIN log /\ s \in Nat /\ through'[d] =< s /\ pc[d] = "pull"
  <2>1. cursor[d] < Len(log) /\ through[d] =< cursor[d] /\ pc[d] = "pull"
    BY <1>3 DEF InLog, OnLogAt
  <2> QED  BY <1>1, <1>2, <1>3, <2>1
<1>5. PICK i \in Echoed(d, cursor[d] + 1) : TRUE
  BY DEF PullEcho
<1>6. 1 \in DOMAIN outbox[d] /\ Holds(d, s, outbox[d][1])
  BY <1>2, <1>3, <1>5, EchoIsFirst
<1>7. PICK new : new = outbox'[d]
  OBVIOUS
<1>8. LeftOf(d, 1, new)
  BY <1>7, LeftByEcho
<1>9. /\ Headed(d)'
      /\ \A n \in Note : heads'[d][n] = IF WritesTo(log[s].op, n) THEN Greater(heads[d][n], s)
                                        ELSE heads[d][n]
      /\ cursor'[d] = s
  BY <1>2, <1>3, <1>4, HeadedByIncorporate DEF OnLogAt
<1>10. log[s].op = outbox[d][1].op
  BY <1>4, <1>6 DEF QueueSound, Recorded, EntryOf
<1>11. ASSUME NEW n \in Note, \A x \in 1 .. 1 : ~WritesTo(outbox[d][x].op, n)
       PROVE  heads'[d][n] = heads[d][n]
  BY <1>9, <1>10, <1>11
<1>12. ASSUME NEW n \in Note, NEW x \in 1 .. 1, Final(outbox[d], n, x)
       PROVE  heads'[d][n] \in DOMAIN log /\ Holds(d, heads'[d][n], outbox[d][x])
  <2>1. x = 1 /\ WritesTo(log[s].op, n)
    BY <1>10, <1>12 DEF Final
  <2>2. heads[d][n] < s
    <3>1. heads[d][n] \in Nat /\ (heads[d][n] # 0 => heads[d][n] \in received[d])
      BY <1>1 DEF OnLogAt, Headed
    <3>2. \A t \in received[d] : t < s
      BY <1>4, <1>6 DEF QueueSound, InOrder
    <3> QED  BY <1>1, <1>2, <3>1, <3>2
  <2>3. heads'[d][n] = s
    BY <1>1, <1>4, <1>9, <2>1, <2>2 DEF Greater
  <2> QED  BY <1>4, <1>6, <2>1, <2>3
<1>13. Current(d)'
  BY <1>3, <1>7, <1>8, <1>11, <1>12, CurrentByLeaving
<1>14. Settled(d)'
  BY <1>3, <1>4 DEF Settled
<1> QED  BY <1>4, <1>9, <1>13, <1>14 DEF OnLogAt

\* The heads after an acknowledgement are the greatest of what was known and
\* the claimed writes.
LEMMA HeadsAcknowledged ==
  ASSUME Plain, Followed, ClaimHolds, AcceptedOnce, NEW d \in Device, Headed(d), Acknowledge(d),
         NEW n \in Note
  PROVE  /\ \/ heads'[d][n] = heads[d][n]
            \/ \E i \in ClaimedWrites(d, n) : heads'[d][n] = SequenceOf(d, outbox[d][i])
         /\ heads[d][n] =< heads'[d][n]
         /\ \A i \in ClaimedWrites(d, n) : SequenceOf(d, outbox[d][i]) =< heads'[d][n]
         /\ heads'[d][n] \in Nat
<1> DEFINE k == Len(log)
           sent == SequencesOf(d, ClaimedWrites(d, n))
           all == {heads[d][n]} \cup sent
           m == Max(all)
<1>1. k \in Nat /\ DOMAIN log = 1 .. k /\ heads \in [Device -> [Note -> Nat]]
  BY DEF Plain, Services, Followed
<1>2. \A i \in ClaimedWrites(d, n) : SequenceOf(d, outbox[d][i]) \in 1 .. k
  <2>1. \A i \in 1 .. claimed[d] : Known(d, outbox[d][i])
    BY DEF ClaimHolds, Acknowledge
  <2>2. \A i \in ClaimedWrites(d, n) : Known(d, outbox[d][i])
    BY <2>1 DEF ClaimedWrites
  <2> QED  BY <1>1, <2>2, OneSequence
<1>3. heads[d][n] \in 0 .. k
  <2>1. heads[d][n] \in Nat /\ (heads[d][n] # 0 => heads[d][n] \in received[d])
    BY <1>1 DEF Headed
  <2>2. received[d] \subseteq DOMAIN log
    BY DEF Followed, Read
  <2> QED  BY <1>1, <2>1, <2>2
<1>4. all \in SUBSET (0 .. k) /\ all # {}
  <2>1. sent \subseteq 1 .. k
    BY <1>2 DEF SequencesOf
  <2>2. k \in Nat /\ heads[d][n] \in 0 .. k
    BY <1>1, <1>3
  <2>3. \A x \in sent : x \in 0 .. k
    BY <2>1, <2>2
  <2> HIDE DEF sent, k
  <2> QED  BY <2>2, <2>3
<1>5. m \in all /\ \A x \in all : m >= x
  <2> HIDE DEF all, k
  <2> QED  BY <1>1, <1>4, MaxGreatest
<1>6. heads'[d][n] = m
  <2>1. heads'[d] = [x \in Note |-> Max({heads[d][x]} \cup SequencesOf(d, ClaimedWrites(d, x)))]
    BY <1>1 DEF Acknowledge
  <2> QED  BY <2>1
<1>7. \A i \in ClaimedWrites(d, n) : SequenceOf(d, outbox[d][i]) \in all
  BY DEF SequencesOf
<1> HIDE DEF m
<1>8. m = heads[d][n] \/ \E i \in ClaimedWrites(d, n) : m = SequenceOf(d, outbox[d][i])
  BY <1>5 DEF SequencesOf
<1>9. m \in Nat /\ heads[d][n] =< m /\ heads[d][n] \in all
  BY <1>1, <1>3, <1>4, <1>5
<1>10. ASSUME NEW i \in ClaimedWrites(d, n)
       PROVE  SequenceOf(d, outbox[d][i]) =< m
  <2>1. SequenceOf(d, outbox[d][i]) \in all /\ SequenceOf(d, outbox[d][i]) \in Nat
    BY <1>1, <1>2, <1>7
  <2> QED  BY <1>5, <1>9, <2>1
<1> QED  BY <1>6, <1>8, <1>9, <1>10

\* Own operations acknowledged become part of what is received.
LEMMA OnByAcknowledge ==
  ASSUME Plain, Plain', Followed, ClaimHolds, AcceptedOnce, Oversized = {}, NEW d \in Device,
         QueueSound(d), Shows(d), OnLogAt(d), Acknowledge(d)
  PROVE  OnLogAt(d)'
<1>1. /\ cursor \in [Device -> Nat] /\ through \in [Device -> Nat] /\ log \in Seq(Entry)
      /\ heads \in [Device -> [Note -> Nat]] /\ received \in [Device -> SUBSET Nat]
      /\ claimed[d] \in Nat /\ claimed[d] =< Len(outbox[d]) /\ outbox[d] \in Seq(Row)
      /\ pc \in [Device -> Step] /\ DOMAIN outbox[d] = 1 .. Len(outbox[d])
  <2>1. outbox[d] \in Seq(Row) /\ claimed[d] \in Nat /\ claimed[d] =< Len(outbox[d])
    BY DEF Plain, Queues, Claims
  <2>2. DOMAIN outbox[d] = 1 .. Len(outbox[d])
    BY <2>1
  <2> QED  BY <2>1, <2>2 DEF Plain, Shown, Services, Workers, Followed
<1>2. /\ UNCHANGED <<log, doc, through>> /\ pc'[d] = "push"
      /\ received'[d] = received[d] \cup SequencesOf(d, 1 .. claimed[d])
      /\ cursor'[d] = cursor[d] + Contiguous(d)
  <2>1. UNCHANGED <<log, doc, through>> /\ pc'[d] = "push"
    BY <1>1 DEF Acknowledge, service
  <2>2. received'[d] = received[d] \cup SequencesOf(d, 1 .. claimed[d])
    BY <1>1 DEF Acknowledge
  <2>3. cursor'[d] = cursor[d] + Contiguous(d)
    BY <1>1 DEF Acknowledge
  <2> QED  BY <2>1, <2>2, <2>3
<1>3. PICK new : new = outbox'[d]
  OBVIOUS
<1>4. LeftOf(d, claimed[d], new)
  BY <1>3, LeftByAcknowledge
<1>5. \A i \in 1 .. claimed[d] :
        /\ i \in DOMAIN outbox[d] /\ SequenceOf(d, outbox[d][i]) \in DOMAIN log
        /\ Holds(d, SequenceOf(d, outbox[d][i]), outbox[d][i])
        /\ log[SequenceOf(d, outbox[d][i])].op = outbox[d][i].op
  <2> SUFFICES ASSUME NEW i \in 1 .. claimed[d]
               PROVE  /\ i \in DOMAIN outbox[d] /\ SequenceOf(d, outbox[d][i]) \in DOMAIN log
                      /\ Holds(d, SequenceOf(d, outbox[d][i]), outbox[d][i])
                      /\ log[SequenceOf(d, outbox[d][i])].op = outbox[d][i].op
    OBVIOUS
  <2>1. i \in DOMAIN outbox[d]
    BY <1>1
  <2>2. Known(d, outbox[d][i])
    BY DEF ClaimHolds, Acknowledge
  <2>3. PICK s \in DOMAIN log : s = SequenceOf(d, outbox[d][i]) /\ Holds(d, s, outbox[d][i])
    BY <2>2, OneSequence
  <2>4. log[s] = EntryOf(d, outbox[d][i])
    BY <2>1, <2>3 DEF QueueSound, Recorded
  <2> QED  BY <2>1, <2>3, <2>4 DEF EntryOf
<1>6. ASSUME NEW n \in Note
      PROVE  /\ \/ heads'[d][n] = heads[d][n]
                \/ \E i \in ClaimedWrites(d, n) : heads'[d][n] = SequenceOf(d, outbox[d][i])
             /\ heads[d][n] =< heads'[d][n] /\ heads[d][n] \in Nat /\ heads'[d][n] \in Nat
             /\ \A i \in ClaimedWrites(d, n) : SequenceOf(d, outbox[d][i]) =< heads'[d][n]
  BY <1>1, HeadsAcknowledged DEF OnLogAt
<1>7. Headed(d)'
  <2> SUFFICES ASSUME NEW n \in Note
               PROVE  /\ heads'[d][n] # 0 =>
                           heads'[d][n] \in received'[d] /\ WritesTo(log[heads'[d][n]].op, n)
                      /\ \A t \in received'[d] : WritesTo(log[t].op, n) => t =< heads'[d][n]
    BY <1>2 DEF Headed
  <2>1. /\ heads[d][n] # 0 => heads[d][n] \in received[d] /\ WritesTo(log[heads[d][n]].op, n)
        /\ \A t \in received[d] : WritesTo(log[t].op, n) => t =< heads[d][n]
    BY DEF OnLogAt, Headed
  <2>2. ASSUME NEW i \in ClaimedWrites(d, n)
        PROVE  /\ SequenceOf(d, outbox[d][i]) \in received'[d]
               /\ WritesTo(log[SequenceOf(d, outbox[d][i])].op, n)
    BY <1>2, <1>5, <2>2 DEF ClaimedWrites, SequencesOf
  <2>3. heads'[d][n] # 0 => heads'[d][n] \in received'[d] /\ WritesTo(log[heads'[d][n]].op, n)
    BY <1>2, <1>6, <2>1, <2>2
  <2>4. ASSUME NEW t \in received'[d], WritesTo(log[t].op, n)
        PROVE  t =< heads'[d][n]
    <3>1. CASE t \in received[d]
      <4>1. t \in Nat /\ t =< heads[d][n]
        BY <1>1, <2>1, <2>4, <3>1
      <4> QED  BY <1>6, <4>1
    <3>2. ASSUME NEW i \in 1 .. claimed[d], t = SequenceOf(d, outbox[d][i])
          PROVE  t =< heads'[d][n]
      <4>1. i \in ClaimedWrites(d, n)
        BY <1>5, <2>4, <3>2 DEF ClaimedWrites
      <4> QED  BY <1>6, <3>2, <4>1
    <3> QED  BY <1>2, <3>1, <3>2 DEF SequencesOf
  <2> QED  BY <2>3, <2>4
<1>8. ASSUME NEW n \in Note, \A i \in 1 .. claimed[d] : ~WritesTo(outbox[d][i].op, n)
      PROVE  heads'[d][n] = heads[d][n]
  BY <1>6, <1>8 DEF ClaimedWrites
<1>9. ASSUME NEW n \in Note, NEW i \in 1 .. claimed[d], Final(outbox[d], n, i)
      PROVE  heads'[d][n] \in DOMAIN log /\ Holds(d, heads'[d][n], outbox[d][i])
  <2> DEFINE s == SequenceOf(d, outbox[d][i])
             h == heads'[d][n]
  <2>1. s \in DOMAIN log /\ Holds(d, s, outbox[d][i]) /\ i \in ClaimedWrites(d, n) /\ s \in Nat
        /\ i \in DOMAIN outbox[d]
    BY <1>1, <1>5, <1>9 DEF Final, ClaimedWrites
  <2>2. s =< h
    BY <1>6, <2>1
  <2>3. h = s
    <3>1. CASE h = heads[d][n]
      <4>1. CASE h = 0
        BY <1>1, <2>1, <2>2, <4>1
      <4>2. CASE h # 0
        <5>1. h \in received[d]
          BY <3>1, <4>2 DEF OnLogAt, Headed
        <5>2. h < s
          BY <2>1, <5>1 DEF QueueSound, InOrder
        <5> QED  BY <1>6, <2>1, <2>2, <5>2
      <4> QED  BY <4>1, <4>2
    <3>2. ASSUME NEW x \in ClaimedWrites(d, n), h = SequenceOf(d, outbox[d][x])
          PROVE  h = s
      <4>1. x \in 1 .. claimed[d] /\ WritesTo(outbox[d][x].op, n)
        BY DEF ClaimedWrites
      <4>2. h \in DOMAIN log /\ Holds(d, h, outbox[d][x]) /\ x \in DOMAIN outbox[d]
        BY <1>5, <3>2, <4>1
      <4>3. ~(i < x)
        BY <1>9, <4>1, <4>2 DEF Final
      <4>4. CASE x = i
        BY <3>2, <4>4
      <4>5. CASE x < i
        <5>1. h < s
          BY <2>1, <4>2, <4>5 DEF QueueSound, InOrder
        <5> QED  BY <1>6, <2>1, <2>2, <5>1
      <4> QED  BY <1>1, <4>1, <4>3, <4>4, <4>5
    <3> QED  BY <1>6, <3>1, <3>2
  <2> QED  BY <2>1, <2>3
<1>10. Current(d)'
  BY <1>2, <1>3, <1>4, <1>8, <1>9, CurrentByLeaving
<1>11. Settled(d)'
  BY <1>2 DEF Settled
<1>12. through'[d] =< cursor'[d]
  <2>1. Contiguous(d) \in 0 .. claimed[d] /\ through[d] =< cursor[d] /\ through'[d] = through[d]
    BY <1>2, ContiguousRows DEF OnLogAt
  <2>2. PICK j \in Nat : j = Contiguous(d)
    BY <1>1, <2>1
  <2> QED  BY <1>1, <1>2, <2>1, <2>2
<1> QED  BY <1>7, <1>10, <1>11, <1>12 DEF OnLogAt

\* No row of them writes n.
Unwritten(rows, n) == \A i \in DOMAIN rows : ~WritesTo(rows[i].op, n)

\* A queue that grows keeps the writes it has.
LEMMA WritesAndMore ==
  ASSUME NEW rows \in Seq(Row), NEW more \in Seq(Row), NEW new, new = rows \o more, NEW n,
         Unwritten(new, n)
  PROVE  Unwritten(rows, n) /\ Unwritten(more, n)
<1> DEFINE k == Len(rows)
           m == Len(more)
<1>1. k \in Nat /\ m \in Nat /\ DOMAIN rows = 1 .. k /\ DOMAIN more = 1 .. m
  OBVIOUS
<1>2. /\ DOMAIN new = 1 .. k + m
      /\ \A i \in 1 .. k : new[i] = rows[i]
      /\ \A i \in 1 .. m : new[k + i] = more[i]
  BY RowsAndMore
<1> HIDE DEF k, m
<1>3. \A i \in 1 .. k : i \in DOMAIN new
  BY <1>1, <1>2
<1>4. \A i \in 1 .. m : k + i \in DOMAIN new
  BY <1>1, <1>2
<1> QED  BY <1>1, <1>2, <1>3, <1>4 DEF Unwritten

\* What the user does leaves every note as it is that has no write queued after
\* it, and takes no write out of the queue.
LEMMA WritesByUser ==
  ASSUME Plain, Oversized = {}, NEW d \in Device, User(d), NEW n \in Note,
         \A i \in DOMAIN outbox'[d] : ~WritesTo(outbox'[d][i].op, n)
  PROVE  /\ doc'[d][n] = doc[d][n]
         /\ \A i \in DOMAIN outbox[d] : ~WritesTo(outbox[d][i].op, n)
<1>0. /\ doc \in [Device -> [Note -> Bodies]] /\ outbox \in [Device -> Seq(Row)]
      /\ blocked[d] \subseteq Held
  BY DEF Plain, Shown, Queues
<1>1. PICK new : new = outbox'[d]
  OBVIOUS
<1>2. ASSUME NEW op \in Operation, Enqueue(d, op)
      PROVE  /\ ~WritesTo(op, n)
             /\ \A i \in DOMAIN outbox[d] : ~WritesTo(outbox[d][i].op, n)
  <2> DEFINE row == NewRow(d, op)
  <2>1. outbox'[d] = Append(outbox[d], row) /\ row \in Row /\ row.op = op
    BY <1>2, NewRowType DEF Plain, Queues, Enqueue, NewRow
  <2> HIDE DEF row
  <2>2. new = outbox[d] \o <<row>> /\ <<row>> \in Seq(Row) /\ 1 \in DOMAIN <<row>> /\ <<row>>[1] = row
    BY <1>0, <1>1, <2>1
  <2>3. outbox[d] \in Seq(Row)
    BY <1>0
  <2>4. PICK more \in Seq(Row) : more = <<row>>
    BY <2>2
  <2>5. new = outbox[d] \o more /\ Unwritten(new, n)
    BY <1>1, <2>2, <2>4 DEF Unwritten
  <2>6. Unwritten(outbox[d], n) /\ Unwritten(more, n)
    BY <2>3, <2>5, WritesAndMore
  <2> QED  BY <2>1, <2>2, <2>4, <2>6 DEF Unwritten
<1>3. ASSUME NEW m \in Note, NEW b \in Body, SaveDocument(d, m, b)
      PROVE  /\ doc'[d][n] = doc[d][n]
             /\ \A i \in DOMAIN outbox[d] : ~WritesTo(outbox[d][i].op, n)
  <2>1. Write(m, b) \in Operation /\ Enqueue(d, Write(m, b)) /\ doc' = [doc EXCEPT ![d][m] = b]
    BY <1>3, Operations DEF SaveDocument, Bodies
  <2>2. /\ ~WritesTo(Write(m, b), n)
        /\ \A i \in DOMAIN outbox[d] : ~WritesTo(outbox[d][i].op, n)
    BY <1>2, <2>1
  <2>3. m # n
    BY <2>2 DEF WritesTo, Write
  <2> QED  BY <1>0, <2>1, <2>2, <2>3
<1>4. ASSUME NEW m \in Note, NEW b \in Body, SaveIntoTail(d, m, b)
      PROVE  /\ doc'[d][n] = doc[d][n]
             /\ \A i \in DOMAIN outbox[d] : ~WritesTo(outbox[d][i].op, n)
  <2> DEFINE k == Len(outbox[d])
  <2>1. /\ k \in Nat /\ claimed[d] \in Nat /\ DOMAIN outbox[d] = 1 .. k
        /\ outbox'[d] = [outbox[d] EXCEPT ![k].op = Write(m, b)] /\ Coalesces(d, m)
        /\ doc' = [doc EXCEPT ![d][m] = b]
    BY <1>0, <1>4 DEF Plain, Queues, SaveIntoTail
  <2>2. k \in DOMAIN outbox[d] /\ WritesTo(outbox[d][k].op, m)
    <3>1. k > claimed[d] /\ WritesTo(Last(outbox[d]).op, m)
      BY <2>1 DEF Coalesces
    <3>2. k >= 1
      BY <2>1, <3>1
    <3> QED  BY <2>1, <3>1, <3>2 DEF Last
  <2>3. /\ DOMAIN new = 1 .. k /\ new[k].op = Write(m, b)
        /\ \A i \in 1 .. k : i # k => new[i] = outbox[d][i]
    <3>1. \A i \in 1 .. k : outbox[d][i] \in Row
      BY <1>0, <2>1
    <3> QED  BY <1>1, <2>1, <2>2, <3>1 DEF Row
  <2> HIDE DEF k
  <2>4. ~WritesTo(new[k].op, n)
    BY <1>1, <2>1, <2>2, <2>3
  <2>5. m # n
    BY <2>3, <2>4 DEF WritesTo, Write
  <2>6. ~WritesTo(outbox[d][k].op, n)
    BY <2>2, <2>5 DEF WritesTo
  <2>7. \A i \in DOMAIN outbox[d] : ~WritesTo(outbox[d][i].op, n)
    BY <1>1, <2>1, <2>3, <2>6
  <2> QED  BY <1>0, <2>1, <2>5, <2>7
<1>5. ASSUME NEW a \in Asset, AttachImage(d, a)
      PROVE  /\ doc'[d][n] = doc[d][n]
             /\ \A i \in DOMAIN outbox[d] : ~WritesTo(outbox[d][i].op, n)
  <2>1. Attach(a) \in Operation /\ Enqueue(d, Attach(a)) /\ UNCHANGED doc
    BY <1>5, Operations DEF AttachImage, canonical
  <2> QED  BY <1>2, <2>1
<1>6. ASSUME NEW p \in blocked[d], RetryBlocked(d, p)
      PROVE  /\ doc'[d][n] = doc[d][n]
             /\ \A i \in DOMAIN outbox[d] : ~WritesTo(outbox[d][i].op, n)
  <2>1. p.op \in Operation
    BY <1>0 DEF Held, Parked
  <2>2. Requeued(d, p) \in Operation
    BY <1>0, <2>1, Operations DEF Requeued
  <2>3. Enqueue(d, Requeued(d, p)) /\ UNCHANGED doc
    BY <1>6 DEF RetryBlocked, canonical
  <2> QED  BY <1>2, <2>2, <2>3
<1>7. ASSUME NEW p \in blocked[d], DiscardBlocked(d, p) \/ RestoreAsset(d, p)
      PROVE  UNCHANGED <<outbox, doc>>
  BY <1>7 DEF DiscardBlocked, RestoreAsset, canonical
<1>8. \A m \in Note, b \in Body : ~SaveOversized(d, m, b)
  BY DEF SaveOversized
<1> QED  BY <1>3, <1>4, <1>5, <1>6, <1>7, <1>8 DEF User

\* Nothing but an image is parked after what the user did.
LEMMA ImagesByUser ==
  ASSUME Plain, Oversized = {}, OnlyImages, NEW d \in Device, User(d)
  PROVE  OnlyImages'
<1>1. blocked \in [Device -> SUBSET Held]
  BY DEF Plain, Queues
<1>2. ASSUME NEW e \in Device
      PROVE  blocked'[e] \subseteq blocked[e]
  BY <1>1 DEF User, SaveDocument, SaveIntoTail, SaveOversized, AttachImage, RetryBlocked,
              DiscardBlocked, RestoreAsset
<1> QED  BY <1>2 DEF OnlyImages

\* A rebuilt device shows what the log says up to the checkpoint.
LEMMA OnByRebuild ==
  ASSUME Plain, Followed, NEW d \in Device, Faithful(archive[d]), Rebuild(d)
  PROVE  OnLogAt(d)'
<1>1. PICK c \in Checkpoint : c = archive[d]
  BY DEF Plain, Workers, Rebuild
<1>2. /\ doc'[d] = c.docs /\ received'[d] = {} /\ heads'[d] = [n \in Note |-> 0]
      /\ cursor'[d] = c.seq /\ through'[d] = c.seq /\ UNCHANGED log
  <2>1. doc'[d] = c.docs /\ cursor'[d] = c.seq /\ through'[d] = c.seq
    BY <1>1 DEF Plain, Shown, Rebuild
  <2>2. received'[d] = {} /\ heads'[d] = [n \in Note |-> 0] /\ UNCHANGED log
    BY DEF Followed, Rebuild, service
  <2> QED  BY <2>1, <2>2
<1>3. c.seq \in Nat
  BY DEF Checkpoint
<1>4. Headed(d)' /\ Settled(d)' /\ through'[d] =< cursor'[d]
  BY <1>2, <1>3 DEF Headed, Settled
<1>5. ASSUME NEW n \in Note
      PROVE  doc'[d][n] = BodyAt(Latest(d, n))'
  <2>1. doc'[d][n] = BodyAt(LastWrite(n, c.seq))
    BY <1>1, <1>2 DEF Faithful
  <2>2. LastWrite(n, c.seq) \in 0 .. c.seq
    BY <1>3, LastOf
  <2>3. LastWrite(n, through[d])' = LastWrite(n, c.seq)
    BY <1>2 DEF LastWrite
  <2>4. Latest(d, n)' = Greater(0, LastWrite(n, c.seq))
    BY <1>2, <2>3 DEF Latest
  <2>5. Latest(d, n)' = LastWrite(n, c.seq)
    BY <1>3, <2>2, <2>4 DEF Greater
  <2> QED  BY <1>2, <2>1, <2>5 DEF BodyAt
<1> QED  BY <1>4, <1>5 DEF OnLogAt, Current

\* Parking takes images out of the queue, and no write.
LEMMA WritesByPark ==
  ASSUME Plain, NEW d \in Device, NEW gone \in SUBSET (DOMAIN outbox[d]), gone # {},
         NEW reason, Park(d, gone, reason), \A x \in gone : outbox[d][x].op.kind = "attach",
         NEW n, Unwritten(outbox'[d], n)
  PROVE  Unwritten(outbox[d], n)
<1>0. outbox[d] \in Seq(Row) /\ DOMAIN outbox[d] = 1 .. Len(outbox[d])
  BY DEF Plain, Queues
<1> DEFINE head == outbox[d][1].cseq
           S == DOMAIN outbox[d] \ gone
<1>1. head \in Nat
  <2>1. outbox[d][1] \in Row
    BY <1>0
  <2> QED  BY <2>1 DEF Row
<1>2. PICK kept \in SetToSeqs(S) : outbox' = [outbox EXCEPT ![d] = KeptAs(outbox[d], kept, head)]
  BY DEF Park, KeptAs
<1>3. PICK new : new = KeptAs(outbox[d], kept, head)
  OBVIOUS
<1>4. outbox'[d] = new
  BY <1>2, <1>3 DEF Plain, Queues
<1>5. S \in SUBSET (DOMAIN outbox[d])
  OBVIOUS
<1> HIDE DEF head
<1>6. /\ Len(new) = Len(kept) /\ kept \in Seq(S) /\ new \in Seq(Row)
      /\ \A i \in DOMAIN kept : new[i].op = outbox[d][kept[i]].op
  BY <1>0, <1>1, <1>2, <1>3, <1>5, KeptRows
<1>7. \A x \in S : \E i \in DOMAIN kept : x = kept[i]
  <2> HIDE DEF S
  <2> QED  BY <1>0, <1>1, <1>2, <1>3, <1>5, KeptRows
<1>8. DOMAIN new = DOMAIN kept
  BY <1>6
<1>9. \A x \in S : ~WritesTo(outbox[d][x].op, n)
  <2> HIDE DEF S
  <2> QED  BY <1>4, <1>6, <1>7, <1>8 DEF Unwritten
<1>10. \A x \in gone : ~WritesTo(outbox[d][x].op, n)
  BY DEF WritesTo
<1> QED  BY <1>9, <1>10 DEF Unwritten

\* The user's edits.
LEMMA OnByUser ==
  ASSUME Plain, Followed, Oversized = {}, NEW d \in Device, OnLogAt(d), User(d)
  PROVE  OnLogAt(d)'
<1>1. UNCHANGED <<log, received, heads, cursor, through, pc>>
  BY DEF User, SaveDocument, SaveIntoTail, SaveOversized, AttachImage, RetryBlocked,
         DiscardBlocked, RestoreAsset, canonical, service, worker
<1>2. \A n \in Note :
        (\A i \in DOMAIN outbox'[d] : ~WritesTo(outbox'[d][i].op, n)) =>
          /\ doc'[d][n] = doc[d][n]
          /\ \A i \in DOMAIN outbox[d] : ~WritesTo(outbox[d][i].op, n)
  BY WritesByUser
<1>3. cursor[d] \in Nat
  BY DEF Plain, Shown
<1>4. cursor'[d] \in Nat /\ cursor[d] =< cursor'[d]
  BY <1>1, <1>3
<1> QED  BY <1>1, <1>2, <1>4, OnByFrame DEF LogKept

\* A step of the cycle that reads nothing and leaves the body of every note.
LEMMA OnByQueue ==
  ASSUME Plain, Followed, NEW d \in Device, OnLogAt(d), LogKept,
         UNCHANGED <<doc, received, heads, through>>,
         cursor'[d] = cursor[d] \/ cursor'[d] = cursor[d] + 1,
         pc'[d] = "settled" => pc[d] = "settled" \/ cursor[d] = Len(log),
         \A n \in Note : Unwritten(outbox'[d], n) => Unwritten(outbox[d], n)
  PROVE  OnLogAt(d)'
<1>1. cursor[d] \in Nat
  BY DEF Plain, Shown
<1>2. cursor'[d] \in Nat /\ cursor[d] =< cursor'[d]
  BY <1>1
<1>3. \A n \in Note :
        (\A i \in DOMAIN outbox'[d] : ~WritesTo(outbox'[d][i].op, n)) =>
          /\ doc'[d][n] = doc[d][n]
          /\ \A i \in DOMAIN outbox[d] : ~WritesTo(outbox[d][i].op, n)
  BY DEF Unwritten
<1> QED  BY <1>2, <1>3, OnByFrame

\* The log keeps what it holds.
LEMMA LogKeeps ==
  ASSUME Plain, [Next]_vars
  PROVE  LogKept
<1>0. log \in Seq(Entry)
  BY DEF Plain, Services
<1>1. ASSUME NEW d \in Device, NEW rows \in Seq(Row), NEW known \in 0 .. Len(rows),
             Accept(d, rows, known)
      PROVE  LogKept
  BY <1>0, <1>1, Accepted DEF LogKept
<1>2. CASE UNCHANGED log
  BY <1>2 DEF LogKept
<1>3. ASSUME NEW d \in Device, Push(d)
      PROVE  LogKept
  <2>1. PICK known \in 0 .. claimed[d] : Accept(d, Batch(d), known)
    BY <1>3 DEF Push
  <2>2. Batch(d) \in Seq(Row) /\ Len(Batch(d)) = claimed[d]
    BY BatchRows
  <2> QED  BY <1>1, <2>1, <2>2
<1>4. ASSUME NEW r \in stray, StrayArrives(r)
      PROVE  LogKept
  <2>1. r.dev \in Device /\ r.rows \in Seq(Row)
    BY DEF Plain, Services
  <2> QED  BY <1>1, <1>2, <1>4, <2>1 DEF StrayArrives
<1>5. ASSUME NEW d \in Device, User(d)
      PROVE  UNCHANGED log
  BY <1>5 DEF User, SaveDocument, SaveIntoTail, SaveOversized, AttachImage, RetryBlocked,
              DiscardBlocked, RestoreAsset, service
<1>6. ASSUME NEW d \in Device, Trouble(d)
      PROVE  UNCHANGED log
  BY <1>6 DEF Trouble, PushFails, PushTimesOut, EndCycle, StorageFailure, Crash, LoseAsset, service
<1>7. ASSUME NEW d \in Device, Cycle(d), ~Push(d)
      PROVE  UNCHANGED log
  BY <1>7 DEF Cycle, StartRebuild, FetchCheckpoint, Rebuild, RefuseRebuild, BeginPush, Claim,
              ParkMissing, ReleaseMissing, Acknowledge, PushRefused, EndPush, PullDuplicate,
              PullEcho, PullRemote, PullTruncated, PullDrained, ExportArchive, SkipPublication,
              PublishCheckpoint, service
<1>8. ASSUME NEW f \in 1 .. ckpt.seq, Compact(f)
      PROVE  UNCHANGED log
  BY <1>8 DEF Compact
<1> QED  BY <1>2, <1>3, <1>4, <1>5, <1>6, <1>7, <1>8 DEF Next, vars, service

\* The cycle: what it reads, and what it leaves.
LEMMA OnByWorker ==
  ASSUME Refused = {}, Oversized = {},
         Plain, Plain', Placed, Followed, Aligned, AllShow, OnLog, NEW d \in Device,
         Cycle(d) \/ Trouble(d), LogKept
  PROVE  OnLogAt(d)'
<1>0. /\ OnLogAt(d) /\ OnlyImages /\ QueueSound(d) /\ Shows(d) /\ AcceptedOnce /\ ClaimHolds
      /\ \A n \in Note : Unwritten(outbox[d], n) => Unwritten(outbox[d], n)
      /\ pc \in [Device -> Step] /\ outbox[d] \in Seq(Row)
  BY DEF OnLog, OnLogAt, Aligned, AllShow, Placed, Plain, Workers, Queues
<1>1. CASE \/ StartRebuild(d) \/ FetchCheckpoint(d) \/ RefuseRebuild(d) \/ EndPush(d)
           \/ PullTruncated(d) \/ Push(d) \/ PullDrained(d)
           \/ ExportArchive(d) \/ SkipPublication(d) \/ PublishCheckpoint(d) \/ EndCycle(d)
           \/ StorageFailure(d) \/ \E a \in Asset : LoseAsset(d, a)
  <2>1. UNCHANGED <<outbox, doc, received, heads, through, cursor>>
    BY <1>1
    DEF StartRebuild, FetchCheckpoint, RefuseRebuild, EndPush, PullTruncated, PullDrained, Push,
        ExportArchive, SkipPublication, PublishCheckpoint, EndCycle, StorageFailure, LoseAsset,
        durable
  <2>2. pc'[d] = "settled" => pc[d] = "settled" \/ cursor[d] = Len(log)
    BY <1>0, <1>1
    DEF StartRebuild, FetchCheckpoint, RefuseRebuild, EndPush, PullTruncated, PullDrained, Push,
        ExportArchive, SkipPublication, PublishCheckpoint, EndCycle, StorageFailure, LoseAsset,
        worker
  <2> QED  BY <1>0, <2>1, <2>2, OnByQueue
<1>2. CASE \/ ReleaseMissing(d) \/ Crash(d) \/ PullDuplicate(d)
           \/ \E step \in {"pull", "idle"} : PushFails(d, step) \/ PushTimesOut(d, step)
  <2>1. UNCHANGED <<outbox, doc, received, heads, through>>
    BY <1>2 DEF ReleaseMissing, PushFails, PushTimesOut, Crash, Release, PullDuplicate, canonical
  <2>2. pc'[d] = "settled" => pc[d] = "settled"
    BY <1>0, <1>2 DEF ReleaseMissing, PushFails, PushTimesOut, Crash, Release, PullDuplicate, worker
  <2>3. cursor'[d] = cursor[d] \/ cursor'[d] = cursor[d] + 1
    BY <1>2 DEF ReleaseMissing, PushFails, PushTimesOut, Crash, Release, PullDuplicate, canonical,
                Plain, Shown
  <2> QED  BY <1>0, <2>1, <2>2, <2>3, OnByQueue
<1>3. CASE Rebuild(d)
  <2>1. Faithful(archive[d])
    BY <1>3 DEF OnLog, Rebuild
  <2> QED  BY <1>3, <2>1, OnByRebuild
<1>4. CASE BeginPush(d)
  <2>1. PICK order \in SetToSeqs(Back(d)) : outbox' = [outbox EXCEPT ![d] = @ \o RequeuedRows(d, order)]
    BY <1>4 DEF BeginPush
  <2>2. PICK more \in Seq(Row) : more = RequeuedRows(d, order)
    BY <2>1, RequeuedType
  <2>3. PICK new : new = outbox[d] \o more
    OBVIOUS
  <2>4. outbox'[d] = new /\ UNCHANGED <<doc, received, heads, through, cursor>>
    BY <1>4, <2>1, <2>2, <2>3 DEF BeginPush, canonical, Plain, Queues
  <2>5. \A n \in Note : Unwritten(outbox'[d], n) => Unwritten(outbox[d], n)
    BY <1>0, <2>3, <2>4, WritesAndMore
  <2>6. pc'[d] # "settled"
    BY <1>0, <1>4 DEF BeginPush
  <2> QED  BY <1>0, <2>4, <2>5, <2>6, OnByQueue
<1>5. CASE \E k \in 1 .. Len(outbox[d]) : Claim(d, k)
  <2>1. PICK k \in 1 .. Len(outbox[d]) : Claim(d, k)
    BY <1>5
  <2>2. PICK new : new = ClaimedTo(d, k)
    OBVIOUS
  <2>3. outbox'[d] = new /\ UNCHANGED <<doc, received, heads, through, cursor>> /\ pc'[d] # "settled"
    BY <1>0, <2>1, <2>2 DEF Claim, ClaimedTo, canonical, Plain, Queues
  <2>4. DOMAIN new = DOMAIN outbox[d]
    BY <2>2 DEF ClaimedTo
  <2>5. ASSUME NEW i \in DOMAIN new
        PROVE  new[i].op = outbox[d][i].op
    <3>1. outbox[d][i] \in Row
      BY <2>4 DEF Plain, Queues
    <3> QED  BY <2>2, <2>4, <3>1 DEF ClaimedTo, Tried, Row
  <2>6. \A n \in Note : Unwritten(outbox'[d], n) => Unwritten(outbox[d], n)
    BY <2>3, <2>4, <2>5 DEF Unwritten
  <2> QED  BY <1>0, <2>3, <2>6, OnByQueue
<1>6. CASE Acknowledge(d)
  BY <1>0, <1>6, OnByAcknowledge
<1>7. CASE PullEcho(d)
  BY <1>0, <1>7, OnByEcho
<1>8. CASE PullRemote(d)
  BY <1>0, <1>8, OnByRemote
<1>9. CASE ParkMissing(d)
  <2>1. Missing(d) # {} /\ Park(d, Missing(d), "asset_missing")
    BY <1>9 DEF ParkMissing
  <2>2. Missing(d) \in SUBSET (DOMAIN outbox[d])
    <3>1. claimed[d] \in Nat /\ claimed[d] =< Len(outbox[d]) /\ DOMAIN outbox[d] = 1 .. Len(outbox[d])
          /\ Len(outbox[d]) \in Nat
      BY DEF Plain, Queues, Claims
    <3> QED  BY <3>1 DEF Missing
  <2>3. \A x \in Missing(d) : outbox[d][x].op.kind = "attach"
    BY DEF Missing
  <2>4. UNCHANGED <<doc, received, heads, through, cursor>> /\ pc'[d] # "settled"
    BY <1>0, <2>1 DEF Park, canonical
  <2>5. \A n \in Note : Unwritten(outbox'[d], n) => Unwritten(outbox[d], n)
    BY <2>1, <2>2, <2>3, WritesByPark
  <2> QED  BY <1>0, <2>4, <2>5, OnByQueue
<1>10. ~PushRefused(d)
  BY RefusedAlone DEF PushRefused
<1> QED
  BY <1>1, <1>2, <1>3, <1>4, <1>5, <1>6, <1>7, <1>8, <1>9, <1>10 DEF Cycle, Trouble

\* What one device does is nothing another one has read.
LEMMA OthersKept ==
  ASSUME Plain, Followed, NEW d \in Device, User(d) \/ Cycle(d) \/ Trouble(d), NEW e \in Device, e # d
  PROVE  /\ received'[e] = received[e] /\ heads'[e] = heads[e] /\ cursor'[e] = cursor[e]
         /\ through'[e] = through[e] /\ pc'[e] = pc[e] /\ archive'[e] = archive[e]
         /\ blocked'[e] = blocked[e]
<1>0. /\ received \in [Device -> SUBSET Nat] /\ heads \in [Device -> [Note -> Nat]]
      /\ cursor \in [Device -> Nat] /\ through \in [Device -> Nat] /\ pc \in [Device -> Step]
      /\ archive \in [Device -> Checkpoint \cup {NoArchive}] /\ blocked \in [Device -> SUBSET Held]
  BY DEF Plain, Shown, Workers, Followed, Queues
<1>1. CASE User(d)
  BY <1>0, <1>1 DEF User, SaveDocument, SaveIntoTail, SaveOversized, AttachImage, RetryBlocked,
                    DiscardBlocked, RestoreAsset, canonical, worker
<1>2. CASE \/ StartRebuild(d) \/ FetchCheckpoint(d) \/ RefuseRebuild(d) \/ EndPush(d)
           \/ PullTruncated(d) \/ PullDrained(d) \/ Push(d)
           \/ ExportArchive(d) \/ SkipPublication(d) \/ PublishCheckpoint(d)
  BY <1>0, <1>2
  DEF StartRebuild, FetchCheckpoint, RefuseRebuild, EndPush, PullTruncated, PullDrained, Push,
      ExportArchive, SkipPublication, PublishCheckpoint, durable
<1>3. CASE Trouble(d)
  BY <1>0, <1>3 DEF Trouble, EndCycle, StorageFailure, LoseAsset, PushFails, PushTimesOut, Crash,
                    Release, canonical, durable, worker
<1>4. CASE \/ BeginPush(d) \/ (\E k \in 1 .. Len(outbox[d]) : Claim(d, k)) \/ ReleaseMissing(d)
           \/ ParkMissing(d) \/ PushRefused(d)
  BY <1>0, <1>4 DEF BeginPush, Claim, ReleaseMissing, ParkMissing, PushRefused, Park, Release, canonical
<1>5. CASE Acknowledge(d) \/ Rebuild(d)
  BY <1>0, <1>5 DEF Acknowledge, Rebuild
<1>6. CASE PullEcho(d) \/ PullRemote(d) \/ PullDuplicate(d)
  BY <1>0, <1>6 DEF PullEcho, PullRemote, PullDuplicate, Incorporate, worker
<1> QED  BY <1>1, <1>2, <1>3, <1>4, <1>5, <1>6 DEF Cycle

\* Nothing but an image is parked by a cycle.
LEMMA ImagesByWorker ==
  ASSUME Refused = {}, Plain, Placed, Aligned, OnlyImages, NEW d \in Device, Cycle(d) \/ Trouble(d)
  PROVE  OnlyImages'
<1>0. blocked \in [Device -> SUBSET Held]
  BY DEF Plain, Queues
<1>1. ~PushRefused(d)
  BY RefusedAlone DEF PushRefused
<1>2. CASE BeginPush(d)
  BY <1>0, <1>2 DEF BeginPush, OnlyImages
<1>3. CASE ParkMissing(d)
  <2>1. /\ blocked' = [blocked EXCEPT ![d] =
                         @ \cup {ParkedRow(outbox[d][i], "asset_missing") : i \in Missing(d)}]
        /\ \A i \in Missing(d) : outbox[d][i].op.kind = "attach"
    BY <1>3 DEF ParkMissing, Park, Missing
  <2>2. \A i \in Missing(d) : ParkedRow(outbox[d][i], "asset_missing").op.kind = "attach"
    BY <2>1 DEF ParkedRow
  <2> QED  BY <1>0, <2>1, <2>2 DEF OnlyImages
<1>4. CASE ~BeginPush(d) /\ ~ParkMissing(d)
  <2>1. UNCHANGED blocked
    BY <1>1, <1>4
    DEF Cycle, Trouble, StartRebuild, FetchCheckpoint, Rebuild, RefuseRebuild, Claim, ReleaseMissing,
        Push, Acknowledge, EndPush, PullDuplicate, PullEcho, PullRemote, PullTruncated, PullDrained,
        ExportArchive, SkipPublication, PublishCheckpoint, PushFails, PushTimesOut, EndCycle,
        StorageFailure, Crash, LoseAsset, Release, durable
  <2> QED  BY <2>1 DEF OnlyImages
<1> QED  BY <1>2, <1>3, <1>4

\* What a device with nothing pending shows when it has read the log is what
\* the log says up to its cursor: that is what it exports.
LEMMA ExportIsLog ==
  ASSUME Plain, Followed, NEW d \in Device, OnLogAt(d), ExportArchive(d)
  PROVE  archive'[d] \in Checkpoint /\ Faithful(archive'[d])
<1>1. archive'[d] = [seq |-> cursor[d], docs |-> doc[d]] /\ pc[d] = "settled" /\ outbox[d] = << >>
  BY DEF ExportArchive, Plain, Workers, HasPending
<1>2. cursor[d] \in Nat /\ cursor[d] =< Len(log) /\ doc[d] \in [Note -> Bodies]
  BY DEF Plain, Shown, Followed, Read
<1>3. ASSUME NEW n \in Note
      PROVE  doc[d][n] = BodyAt(LastWrite(n, cursor[d]))
  <2>1. \A s \in received[d] : s =< cursor[d]
    BY <1>1 DEF OnLogAt, Settled
  <2>2. Latest(d, n) = LastWrite(n, cursor[d])
    BY <2>1, LatestReached DEF OnLogAt
  <2>3. doc[d][n] = BodyAt(Latest(d, n))
    BY <1>1 DEF OnLogAt, Current
  <2> QED  BY <2>2, <2>3
<1> QED  BY <1>1, <1>2, <1>3 DEF Checkpoint, Faithful

\* What a checkpoint stands for never changes hands for anything else.
LEMMA ArchivesKept ==
  ASSUME Plain, Plain', Followed, OnLog, LogKept, NEW d \in Device, User(d) \/ Cycle(d) \/ Trouble(d)
  PROVE  /\ Faithful(ckpt)'
         /\ pc'[d] \in {"fetched", "exported"} => Faithful(archive[d])'
<1>0. /\ pc \in [Device -> Step] /\ archive \in [Device -> Checkpoint \cup {NoArchive}]
      /\ pc[d] \in {"fetched", "exported"} => archive[d] \in Checkpoint
  BY DEF Plain, Workers
<1>c. PICK c \in Checkpoint : c = ckpt
  BY DEF Plain, Services
<1>1. Faithful(c)'
  BY <1>c, FaithfulKept DEF OnLog
<1>2. ASSUME NEW a, a = archive[d], pc[d] \in {"fetched", "exported"}
      PROVE  Faithful(a)'
  BY <1>0, <1>2, FaithfulKept DEF OnLog
<1>3. CASE ExportArchive(d)
  <2>1. PICK a : a = archive'[d]
    OBVIOUS
  <2>2. a \in Checkpoint /\ Faithful(a) /\ UNCHANGED ckpt
    BY <1>3, <2>1, ExportIsLog DEF OnLog, OnLogAt, ExportArchive, service
  <2>3. Faithful(a)'
    BY <2>2, FaithfulKept
  <2> QED  BY <1>1, <1>c, <2>1, <2>2, <2>3 DEF Faithful
<1>4. CASE PublishCheckpoint(d)
  <2>1. /\ pc[d] = "exported" /\ pc'[d] = "idle"
        /\ ckpt' = archive[d] \/ ckpt' = ckpt
    BY <1>0, <1>4 DEF PublishCheckpoint
  <2>2. PICK a : a = archive[d]
    OBVIOUS
  <2>3. Faithful(a)'
    BY <1>2, <2>1, <2>2
  <2>4. ckpt' = a \/ ckpt' = c
    BY <1>c, <2>1, <2>2
  <2> QED  BY <1>1, <2>1, <2>3, <2>4 DEF Faithful
<1>5. CASE FetchCheckpoint(d)
  <2>1. archive'[d] = c /\ UNCHANGED ckpt
    BY <1>0, <1>c, <1>5 DEF FetchCheckpoint, service
  <2> QED  BY <1>1, <1>c, <2>1 DEF Faithful
<1>6. CASE ~ExportArchive(d) /\ ~PublishCheckpoint(d) /\ ~FetchCheckpoint(d)
  <2>1. UNCHANGED ckpt
    BY <1>6
    DEF User, Cycle, Trouble, SaveDocument, SaveIntoTail, SaveOversized, AttachImage, RetryBlocked,
        DiscardBlocked, RestoreAsset, StartRebuild, Rebuild, RefuseRebuild, BeginPush, Claim,
        ParkMissing, PushRefused, ReleaseMissing, Push, Acknowledge, EndPush, PullDuplicate,
        PullEcho, PullRemote, PullTruncated, PullDrained, SkipPublication, PushFails,
        PushTimesOut, EndCycle, StorageFailure, Crash, LoseAsset, service
  <2>2. pc'[d] \in {"fetched", "exported"} => pc[d] = pc'[d] /\ archive'[d] = archive[d]
    <3>1. CASE User(d)
      BY <3>1
      DEF User, SaveDocument, SaveIntoTail, SaveOversized, AttachImage, RetryBlocked, DiscardBlocked,
          RestoreAsset, worker
    <3>2. CASE Trouble(d)
      BY <1>0, <3>2
      DEF Trouble, PushFails, PushTimesOut, EndCycle, StorageFailure, Crash, LoseAsset, Release, worker
    <3>3. CASE Cycle(d)
      BY <1>0, <1>6, <3>3
      DEF Cycle, StartRebuild, Rebuild, RefuseRebuild, BeginPush, Claim, ParkMissing, PushRefused,
          ReleaseMissing, Push, Acknowledge, EndPush, PullDuplicate, PullEcho, PullRemote,
          PullTruncated, PullDrained, SkipPublication, Release, Park, worker
    <3> QED  BY <3>1, <3>2, <3>3
  <2>3. PICK a : a = archive[d]
    OBVIOUS
  <2>4. pc'[d] \in {"fetched", "exported"} => Faithful(a)' /\ archive'[d] = a
    BY <1>2, <2>2, <2>3
  <2> QED  BY <1>1, <1>c, <2>1, <2>4 DEF Faithful
<1> QED  BY <1>3, <1>4, <1>5, <1>6

\* No step of anyone takes a device or a checkpoint off the log.
LEMMA OnLogKept ==
  ASSUME Refused = {}, Oversized = {}, Plain, Plain', Placed, Followed, Aligned, AllShow, OnLog,
         [Next]_vars
  PROVE  OnLog'
<1>0. LogKept
  BY LogKeeps
<1>f. \A e \in Device : OnLogAt(e)
  BY DEF OnLog, OnLogAt
<1>c. \A e \in Device : pc[e] \in {"fetched", "exported"} => archive[e] \in Checkpoint /\ Faithful(archive[e])
  BY DEF OnLog, Plain, Workers
\* A step of the service, or none.
<1>1. ASSUME UNCHANGED <<durable, worker, ckpt>>
      PROVE  OnLog'
  <2>1. UNCHANGED <<outbox, blocked, doc, received, heads, cursor, through, pc, archive, ckpt>>
    BY <1>1 DEF durable, worker
  <2>2. ASSUME NEW e \in Device
        PROVE  OnLogAt(e)'
    BY <1>0, <1>f, <2>1, OnByQueue
  <2>3. Faithful(ckpt)'
    <3>1. PICK c \in Checkpoint : c = ckpt
      BY DEF Plain, Services
    <3>2. Faithful(c)'
      BY <1>0, <3>1, FaithfulKept DEF OnLog
    <3> QED  BY <2>1, <3>1, <3>2 DEF Faithful
  <2>4. ASSUME NEW e \in Device, pc'[e] \in {"fetched", "exported"}
        PROVE  Faithful(archive[e])'
    <3>1. PICK a : a = archive[e]
      OBVIOUS
    <3>2. Faithful(a)'
      BY <1>0, <1>c, <2>1, <2>4, <3>1, FaithfulKept
    <3> QED  BY <2>1, <3>1, <3>2 DEF Faithful
  <2>5. OnlyImages'
    BY <2>1 DEF OnLog, OnlyImages
  <2> QED  BY <2>2, <2>3, <2>4, <2>5 DEF OnLog, OnLogAt
<1>2. CASE UNCHANGED vars
  BY <1>1, <1>2 DEF vars, service
<1>3. ASSUME NEW f \in 1 .. ckpt.seq, Compact(f)
      PROVE  OnLog'
  BY <1>1, <1>3 DEF Compact
<1>4. ASSUME NEW r \in stray, StrayArrives(r)
      PROVE  OnLog'
  BY <1>1, <1>4 DEF StrayArrives
<1>5. ASSUME NEW d \in Device, User(d) \/ Cycle(d) \/ Trouble(d)
      PROVE  OnLog'
  <2>1. OnLogAt(d)'
    BY <1>0, <1>5, <1>f, OnByUser, OnByWorker
  <2>2. ASSUME NEW e \in Device, e # d
        PROVE  OnLogAt(e)' /\ (pc'[e] \in {"fetched", "exported"} => Faithful(archive[e])')
    <3>1. /\ received'[e] = received[e] /\ heads'[e] = heads[e] /\ cursor'[e] = cursor[e]
          /\ through'[e] = through[e] /\ pc'[e] = pc[e] /\ archive'[e] = archive[e]
          /\ outbox'[e] = outbox[e] /\ doc'[e] = doc[e]
      BY <1>5, <2>2, OthersKept, OwnOnly
    <3>2. cursor'[e] \in Nat /\ cursor[e] =< cursor'[e]
      BY <3>1 DEF Plain, Shown
    <3>3. OnLogAt(e)'
      BY <1>0, <1>f, <3>1, <3>2, OnByFrame
    <3>4. PICK a : a = archive[e]
      OBVIOUS
    <3>5. pc'[e] \in {"fetched", "exported"} => Faithful(a)'
      BY <1>0, <1>c, <3>1, <3>4, FaithfulKept
    <3> QED  BY <3>1, <3>3, <3>4, <3>5 DEF Faithful
  <2>3. Faithful(ckpt)' /\ (pc'[d] \in {"fetched", "exported"} => Faithful(archive[d])')
    BY <1>0, <1>5, ArchivesKept
  <2>4. OnlyImages'
    BY <1>5, ImagesByUser, ImagesByWorker DEF OnLog
  <2> QED  BY <2>1, <2>2, <2>3, <2>4 DEF OnLog, OnLogAt
<1> QED  BY <1>2, <1>3, <1>4, <1>5 DEF Next

\* Every device is always on the log, while nothing is refused or oversized.
LEMMA OnLogHolds ==
  ASSUME Refused = {}, Oversized = {}
  PROVE  Spec => []OnLog
<1>1. Init => OnLog
  <2> SUFFICES ASSUME Init
               PROVE  OnLog
    OBVIOUS
  <2>1. /\ log = << >> /\ ckpt = StartCheckpoint /\ blocked = [d \in Device |-> {}]
        /\ pc = [d \in Device |-> "idle"] /\ doc = [d \in Device |-> [n \in Note |-> Origin]]
        /\ received = [d \in Device |-> {}] /\ heads = [d \in Device |-> [n \in Note |-> 0]]
        /\ cursor = [d \in Device |-> 0] /\ through = [d \in Device |-> 0]
    BY DEF Init
  <2>2. ASSUME NEW n
        PROVE  LastWrite(n, 0) = 0
    <3>1. LastWrite(n, 0) \in 0 .. 0
      BY LastOf
    <3> QED  BY <3>1
  <2>3. Faithful(ckpt)
    BY <2>1, <2>2 DEF Faithful, StartCheckpoint, BodyAt
  <2>4. ASSUME NEW d \in Device
        PROVE  Headed(d) /\ Current(d) /\ Settled(d) /\ through[d] =< cursor[d]
    <3>1. \A n \in Note : Latest(d, n) = 0
      BY <2>1, <2>2 DEF Latest, Greater
    <3> QED  BY <2>1, <3>1 DEF Headed, Current, Settled, BodyAt
  <2> QED  BY <2>1, <2>3, <2>4 DEF OnLog, OnlyImages
<1>2. Plain /\ Plain' /\ Placed /\ Followed /\ Aligned /\ AllShow /\ OnLog /\ [Next]_vars => OnLog'
  BY OnLogKept
<1>3. Spec => []Aligned /\ []AllShow
  BY AlignedHolds, AllShowHolds
<1> QED  BY <1>1, <1>2, <1>3, PlainHolds, PlacedHolds, FollowedHolds, PTL DEF Spec

\* As long as nothing is refused or oversized, a checkpoint is what the log says
\* up to its sequence, also when it was published by a device whose own writes
\* were acknowledged out of order or that was itself rebuilt from a checkpoint
\* (checkpoint.rs, sync.rs).
THEOREM CheckpointIsLogHolds ==
  ASSUME Refused = {}, Oversized = {}
  PROVE  Spec => []CheckpointIsLog
<1>1. OnLog => CheckpointIsLog
  BY DEF OnLog, Faithful, CheckpointIsLog
<1> QED  BY <1>1, OnLogHolds, PTL

\* Then a device that read the whole log and has nothing queued shows the last
\* write of every note, whatever it missed, sent twice or was rebuilt from: two
\* such devices show the same, and no exception of KeepsGreater is needed
\* (reconcile_document_body).
CaughtUpShowsLog ==
  \A d \in Device : CaughtUp(d) => \A n \in Note : doc[d][n] = BodyAt(LastWrite(n, Len(log)))

\* While nothing is refused or oversized, every device that is caught up shows
\* the last write of every note (reconcile_document_body, sync.rs).
THEOREM CaughtUpDevicesAgree ==
  ASSUME Refused = {}, Oversized = {}
  PROVE  Spec => [](CaughtUpShowsLog /\ KeepsGreater)
<1>1. Plain /\ Followed /\ OnLog => CaughtUpShowsLog
  <2> SUFFICES ASSUME Plain, Followed, OnLog, NEW d \in Device, CaughtUp(d), NEW n \in Note
               PROVE  doc[d][n] = BodyAt(LastWrite(n, Len(log)))
    BY DEF CaughtUpShowsLog
  <2>1. /\ outbox[d] = << >> /\ cursor[d] = Len(log) /\ received[d] \subseteq DOMAIN log
        /\ DOMAIN log = 1 .. Len(log) /\ Len(log) \in Nat
    BY DEF CaughtUp, Followed, Read, Plain, Services
  <2>2. \A s \in received[d] : s =< cursor[d]
    BY <2>1
  <2>3. Headed(d) /\ Current(d) /\ through[d] =< cursor[d]
    BY DEF OnLog
  <2>4. Latest(d, n) = LastWrite(n, cursor[d])
    BY <2>2, <2>3, LatestReached
  <2> QED  BY <2>1, <2>3, <2>4 DEF Current
<1>2. CaughtUpShowsLog => KeepsGreater
  BY DEF CaughtUpShowsLog, KeepsGreater
<1> QED  BY <1>1, <1>2, PlainHolds, FollowedHolds, OnLogHolds, PTL

-----------------------------------------------------------------------------
(* Rebuilding                                                                *)

\* Where one device stands: it asks for a rebuild between cycles, when the
\* service has dropped what it would read next, and holds a checkpoint that is
\* ahead of it.
BehindAt(d) ==
  /\ want[d] => pc[d] = "idle"
  /\ want[d] \/ pc[d] = "fetch" => cursor[d] < floor
  /\ pc[d] = "fetched" => cursor[d] < archive[d].seq

\* What was dropped is covered by the checkpoint the service hands out.
Behind == floor =< ckpt.seq /\ \A d \in Device : BehindAt(d)

\* The service's part.
LEMMA FloorKept ==
  ASSUME Plain, Behind, [Next]_vars
  PROVE  floor =< floor' /\ floor' =< ckpt'.seq
<1>0. floor \in Nat /\ ckpt.seq \in Nat /\ floor =< ckpt.seq
  BY DEF Plain, Services, Checkpoint, Behind
<1>1. ASSUME NEW f \in 1 .. ckpt.seq, Compact(f)
      PROVE  floor =< floor' /\ floor' =< ckpt'.seq
  BY <1>0, <1>1 DEF Compact
<1>2. ASSUME NEW d \in Device, PublishCheckpoint(d)
      PROVE  floor =< floor' /\ floor' =< ckpt'.seq
  <2>1. archive[d].seq \in Nat /\ UNCHANGED floor
    BY <1>2 DEF PublishCheckpoint, Plain, Workers, Checkpoint
  <2>2. CASE archive[d].seq >= ckpt.seq
    BY <1>0, <1>2, <2>1, <2>2 DEF PublishCheckpoint
  <2>3. CASE ~(archive[d].seq >= ckpt.seq)
    BY <1>0, <1>2, <2>1, <2>3 DEF PublishCheckpoint
  <2> QED  BY <2>2, <2>3
<1>3. ASSUME NEW d \in Device, User(d) \/ Trouble(d) \/ (Cycle(d) /\ ~PublishCheckpoint(d))
      PROVE  UNCHANGED <<floor, ckpt>>
  BY <1>3
  DEF User, Cycle, Trouble, SaveDocument, SaveIntoTail, SaveOversized, AttachImage, RetryBlocked,
      DiscardBlocked, RestoreAsset, StartRebuild, FetchCheckpoint, Rebuild, RefuseRebuild, BeginPush,
      Claim, ParkMissing, PushRefused, ReleaseMissing, Push, Acknowledge, EndPush, PullDuplicate,
      PullEcho, PullRemote, PullTruncated, PullDrained, ExportArchive, SkipPublication, PushFails,
      PushTimesOut, EndCycle, StorageFailure, Crash, LoseAsset, service
<1>4. ASSUME UNCHANGED <<floor, ckpt>>
      PROVE  floor =< floor' /\ floor' =< ckpt'.seq
  BY <1>0, <1>4
<1>5. \A r \in stray : StrayArrives(r) => UNCHANGED <<floor, ckpt>>
  BY DEF StrayArrives
<1>6. UNCHANGED vars => UNCHANGED <<floor, ckpt>>
  BY DEF vars, service
<1> QED  BY <1>1, <1>2, <1>3, <1>4, <1>5, <1>6 DEF Next

\* The device's part.
LEMMA BehindByDevice ==
  ASSUME Plain, Followed, Behind, NEW d \in Device, User(d) \/ Cycle(d) \/ Trouble(d),
         floor' >= floor, floor' \in Nat
  PROVE  BehindAt(d)' /\ cursor[d] =< cursor'[d]
<1>0. /\ pc \in [Device -> Step] /\ want \in [Device -> BOOLEAN] /\ cursor \in [Device -> Nat]
      /\ archive \in [Device -> Checkpoint \cup {NoArchive}] /\ floor \in Nat /\ ckpt.seq \in Nat
      /\ BehindAt(d) /\ floor =< ckpt.seq
  BY DEF Plain, Workers, Shown, Services, Behind, Checkpoint
<1>1. ASSUME cursor'[d] = cursor[d], want'[d] => want[d], want'[d] => pc'[d] = "idle",
             pc'[d] = "fetch" => pc[d] = "fetch" \/ want[d],
             pc'[d] = "fetched" => pc[d] = "fetched" /\ archive'[d] = archive[d]
      PROVE  BehindAt(d)' /\ cursor[d] =< cursor'[d]
  BY <1>0, <1>1 DEF BehindAt
<1>2. CASE User(d)
  <2>1. UNCHANGED <<cursor, want, pc, archive>>
    BY <1>2 DEF User, SaveDocument, SaveIntoTail, SaveOversized, AttachImage, RetryBlocked,
                DiscardBlocked, RestoreAsset, canonical, worker
  <2> QED  BY <1>0, <1>1, <2>1 DEF BehindAt
<1>3. CASE Trouble(d)
  <2>1. UNCHANGED cursor
    BY <1>3 DEF Trouble, PushFails, PushTimesOut, EndCycle, StorageFailure, Crash, LoseAsset,
                Release, canonical, durable
  <2>2. pc'[d] \notin {"fetch", "fetched"} \/ UNCHANGED worker
    BY <1>0, <1>3 DEF Trouble, PushFails, PushTimesOut, EndCycle, StorageFailure, Crash, LoseAsset, Release
  <2>3. (want'[d] => want[d]) /\ (want'[d] => pc'[d] = "idle")
    BY <1>0, <1>3 DEF Trouble, PushFails, PushTimesOut, EndCycle, StorageFailure, Crash, LoseAsset,
                      Release, BehindAt, worker
  <2> QED  BY <1>1, <2>1, <2>2, <2>3 DEF worker
<1>4. CASE \/ StartRebuild(d) \/ RefuseRebuild(d) \/ BeginPush(d) \/ EndPush(d) \/ Push(d)
           \/ (\E k \in 1 .. Len(outbox[d]) : Claim(d, k)) \/ ParkMissing(d) \/ ReleaseMissing(d)
           \/ PushRefused(d) \/ PullDrained(d) \/ ExportArchive(d) \/ SkipPublication(d)
           \/ PublishCheckpoint(d)
  <2>1. UNCHANGED cursor
    BY <1>4 DEF StartRebuild, RefuseRebuild, BeginPush, EndPush, Push, Claim, ParkMissing,
                ReleaseMissing, PushRefused, PullDrained, ExportArchive, SkipPublication,
                PublishCheckpoint, Release, Park, canonical, durable
  <2>2. /\ want'[d] => want[d]
        /\ want'[d] => pc'[d] = "idle"
        /\ pc'[d] # "fetched"
        /\ pc'[d] = "fetch" => want[d]
    BY <1>0, <1>4
    DEF StartRebuild, RefuseRebuild, BeginPush, EndPush, Push, Claim, ParkMissing, ReleaseMissing,
        PushRefused, PullDrained, ExportArchive, SkipPublication, PublishCheckpoint, Release, Park,
        BehindAt
  <2> QED  BY <1>1, <2>1, <2>2
<1>5. CASE FetchCheckpoint(d)
  <2>1. /\ cursor'[d] = cursor[d] /\ want'[d] = want[d] /\ pc[d] = "fetch" /\ pc'[d] = "fetched"
        /\ archive'[d] = ckpt
    BY <1>0, <1>5 DEF FetchCheckpoint, durable
  <2> QED  BY <1>0, <2>1 DEF BehindAt
<1>6. CASE PullTruncated(d)
  <2>1. /\ cursor'[d] = cursor[d] /\ pc'[d] = "idle" /\ cursor[d] < floor
    BY <1>0, <1>6 DEF PullTruncated, durable
  <2> QED  BY <1>0, <2>1 DEF BehindAt
<1>7. CASE Rebuild(d)
  <2>1. /\ cursor'[d] = archive[d].seq /\ want'[d] = want[d] /\ pc[d] = "fetched" /\ pc'[d] = "rebuilt"
        /\ archive[d].seq \in Nat
    BY <1>0, <1>7 DEF Rebuild, Plain, Workers, Checkpoint
  <2> QED  BY <1>0, <2>1 DEF BehindAt
<1>8. CASE Acknowledge(d)
  <2>1. /\ cursor'[d] = cursor[d] + Contiguous(d) /\ want'[d] = want[d] /\ pc[d] = "accepted"
        /\ pc'[d] = "push"
    BY <1>0, <1>8 DEF Acknowledge
  <2>2. Contiguous(d) \in Nat
    BY ContiguousRows DEF Plain, Queues
  <2>3. PICK j \in Nat : j = Contiguous(d)
    BY <2>2
  <2> QED  BY <1>0, <2>1, <2>3 DEF BehindAt
<1>9. CASE PullDuplicate(d) \/ PullEcho(d) \/ PullRemote(d)
  <2>1. cursor'[d] = cursor[d] + 1 /\ UNCHANGED worker /\ pc[d] = "pull"
    BY <1>0, <1>9 DEF PullDuplicate, PullEcho, PullRemote, Incorporate, InLog
  <2> QED  BY <1>0, <2>1 DEF BehindAt, worker
<1> QED  BY <1>2, <1>3, <1>4, <1>5, <1>6, <1>7, <1>8, <1>9 DEF Cycle

\* Every step leaves it behind its archive and moves no cursor back.
LEMMA BehindKept ==
  ASSUME Plain, Plain', Followed, Behind, [Next]_vars
  PROVE  Behind' /\ \A d \in Device : cursor[d] =< cursor'[d]
<1>0. floor \in Nat /\ floor' \in Nat /\ floor =< floor' /\ floor' =< ckpt'.seq
  BY FloorKept DEF Plain, Services
<1>1. ASSUME NEW e \in Device, cursor'[e] = cursor[e], pc'[e] = pc[e], want'[e] = want[e],
             archive'[e] = archive[e]
      PROVE  BehindAt(e)' /\ cursor[e] =< cursor'[e]
  <2>1. cursor[e] \in Nat
    BY DEF Plain, Shown
  <2> QED  BY <1>0, <1>1, <2>1 DEF Behind, BehindAt
<1>2. CASE UNCHANGED <<durable, worker>>
  BY <1>0, <1>1, <1>2 DEF durable, worker, Behind
<1>3. ASSUME NEW d \in Device, User(d) \/ Cycle(d) \/ Trouble(d)
      PROVE  Behind' /\ \A e \in Device : cursor[e] =< cursor'[e]
  <2>1. BehindAt(d)' /\ cursor[d] =< cursor'[d]
    BY <1>0, <1>3, BehindByDevice
  <2>2. ASSUME NEW e \in Device, e # d
        PROVE  BehindAt(e)' /\ cursor[e] =< cursor'[e]
    <3>1. cursor'[e] = cursor[e] /\ pc'[e] = pc[e] /\ archive'[e] = archive[e]
      BY <1>3, <2>2, OthersKept
    <3>2. want'[e] = want[e]
      BY <1>3, <2>2
      DEF Plain, Workers, User, Cycle, Trouble, SaveDocument, SaveIntoTail, SaveOversized, AttachImage,
          RetryBlocked, DiscardBlocked, RestoreAsset, StartRebuild, FetchCheckpoint, Rebuild,
          RefuseRebuild, BeginPush, Claim, ParkMissing, PushRefused, ReleaseMissing, Push, Acknowledge,
          EndPush, PullDuplicate, PullEcho, PullRemote, PullTruncated, PullDrained, ExportArchive,
          SkipPublication, PublishCheckpoint, PushFails, PushTimesOut, EndCycle, StorageFailure, Crash,
          LoseAsset, Release, Park, worker
    <3> QED  BY <1>1, <3>1, <3>2
  <2> QED  BY <1>0, <2>1, <2>2 DEF Behind
<1>4. ASSUME NEW f \in 1 .. ckpt.seq, Compact(f)
      PROVE  UNCHANGED <<durable, worker>>
  BY <1>4 DEF Compact
<1>5. ASSUME NEW r \in stray, StrayArrives(r)
      PROVE  UNCHANGED <<durable, worker>>
  BY <1>5 DEF StrayArrives
<1> QED  BY <1>2, <1>3, <1>4, <1>5 DEF Next, vars

\* So every device is always behind what it is about to rebuild from.
LEMMA BehindHolds == Spec => []Behind
<1>1. Init => Behind
  BY DEF Init, Behind, BehindAt, StartCheckpoint
<1>2. Plain /\ Plain' /\ Followed /\ Behind /\ [Next]_vars => Behind'
  BY BehindKept
<1> QED  BY <1>1, <1>2, PlainHolds, FollowedHolds, PTL DEF Spec

\* No device goes back: neither a crash, a late answer nor a rebuild from a
\* checkpoint lowers the sequence it has read to (rehydrate_from_checkpoint,
\* acknowledge_sync_operations).
THEOREM CursorNeverBack == Spec => [][\A d \in Device : cursor[d] =< cursor'[d]]_vars
<1>1. Plain /\ Plain' /\ Followed /\ Behind /\ [Next]_vars =>
        [\A d \in Device : cursor[d] =< cursor'[d]]_vars
  BY BehindKept
<1> QED  BY <1>1, PlainHolds, FollowedHolds, BehindHolds, PTL DEF Spec

-----------------------------------------------------------------------------
(* The order of the writes                                                   *)

\* Without images every operation writes a note.
LEMMA SavesOnly ==
  ASSUME Asset = {}, NEW op \in Operation
  PROVE  /\ op.kind = "save" /\ op.target \in Note /\ op.body \in Bodies
         /\ \A n : WritesTo(op, n) <=> op.target = n
BY DEF Operation, Write, WritesTo

\* A queue as the order sees it.
LEMMA QueueMapped ==
  ASSUME Plain, NEW d \in Device
  PROVE  /\ DOMAIN OrderQueue[d] = 1 .. Len(outbox[d]) /\ Len(OrderQueue[d]) = Len(outbox[d])
         /\ Len(outbox[d]) \in Nat /\ DOMAIN outbox[d] = 1 .. Len(outbox[d])
         /\ \A i \in DOMAIN outbox[d] : OrderQueue[d][i] = OrderRow(d, outbox[d][i])
         /\ OrderQueue[d] = << >> <=> outbox[d] = << >>
         /\ OrderQueue \in [Device -> {OrderQueue[e] : e \in Device}]
<1> DEFINE q == [i \in DOMAIN outbox[d] |-> OrderRow(d, outbox[d][i])]
           S == {OrderRow(d, outbox[d][i]) : i \in DOMAIN outbox[d]}
<1>1. outbox[d] \in Seq(Row) /\ Len(outbox[d]) \in Nat /\ DOMAIN outbox[d] = 1 .. Len(outbox[d])
  BY DEF Plain, Queues
<1>2. OrderQueue[d] = q
  BY DEF OrderQueue
<1>3. q \in [1 .. Len(outbox[d]) -> S]
  BY <1>1
<1> DEFINE k == Len(outbox[d])
<1>4. k \in Nat /\ DOMAIN outbox[d] = 1 .. k
  BY <1>1
<1>5. \A i \in DOMAIN outbox[d] : q[i] = OrderRow(d, outbox[d][i])
  OBVIOUS
<1> HIDE DEF S, q, k
<1>6. q \in Seq(S) /\ Len(q) = k /\ DOMAIN q = 1 .. k
  BY <1>3, <1>4 DEF k
<1>7. q = << >> <=> outbox[d] = << >>
  BY <1>1, <1>4, <1>6 DEF k
<1>8. OrderQueue \in [Device -> {OrderQueue[e] : e \in Device}]
  BY DEF OrderQueue
<1> QED  BY <1>2, <1>4, <1>5, <1>6, <1>7, <1>8 DEF k

\* A row has a sequence when the service has it.
LEMMA RowSequence ==
  ASSUME Plain, AcceptedOnce, NEW d \in Device, NEW row
  PROVE  /\ OrderRow(d, row).note = row.op.target /\ OrderRow(d, row).body = row.op.body
         /\ ~Known(d, row) => OrderRow(d, row).seq = 0
         /\ Known(d, row) => /\ OrderRow(d, row).seq # 0
                             /\ OrderRow(d, row).seq = SequenceOf(d, row)
                             /\ OrderRow(d, row).seq \in DOMAIN log
                             /\ Holds(d, OrderRow(d, row).seq, row)
         /\ \A s \in DOMAIN log : Holds(d, s, row) => OrderRow(d, row).seq = s
<1>1. DOMAIN log = 1 .. Len(log) /\ Len(log) \in Nat
  BY DEF Plain, Services
<1>2. Known(d, row) => /\ SequenceOf(d, row) \in DOMAIN log /\ Holds(d, SequenceOf(d, row), row)
                       /\ \A s \in DOMAIN log : Holds(d, s, row) => s = SequenceOf(d, row)
  BY OneSequence
<1>3. Known(d, row) => SequenceOf(d, row) # 0
  BY <1>1, <1>2
<1>4. \A s \in DOMAIN log : Holds(d, s, row) => Known(d, row)
  BY DEF Known, Holds
<1> QED  BY <1>2, <1>3, <1>4 DEF OrderRow

\* The rows as they are seen while nothing is accepted.
LEMMA RowStays ==
  ASSUME UNCHANGED log, NEW d, NEW row
  PROVE  OrderRow(d, row)' = OrderRow(d, row)
BY DEF OrderRow, Known, SequenceOf

\* They are seen by what they write and by their identity.
LEMMA RowAlike ==
  ASSUME NEW d, NEW x, NEW y, x.id = y.id, x.op = y.op
  PROVE  OrderRow(d, x) = OrderRow(d, y)
BY DEF OrderRow, Known, SequenceOf

\* So are those of a queue.
LEMMA RowsStay ==
  ASSUME UNCHANGED log, NEW d, NEW rows
  PROVE  [i \in DOMAIN rows |-> OrderRow(d, rows[i])]' = [i \in DOMAIN rows |-> OrderRow(d, rows[i])]
<1>1. ASSUME NEW i
      PROVE  OrderRow(d, rows[i])' = OrderRow(d, rows[i])
  <2>1. PICK row : row = rows[i]
    OBVIOUS
  <2>2. OrderRow(d, row)' = OrderRow(d, row)
    BY RowStays
  <2> QED  BY <2>1, <2>2
<1> QED  BY <1>1

\* What becomes of one queue, while nothing is accepted.
LEMMA QueueBecomes ==
  ASSUME Plain, UNCHANGED log, NEW d \in Device, NEW new, outbox' = [outbox EXCEPT ![d] = new]
  PROVE  OrderQueue' = [OrderQueue EXCEPT ![d] = [i \in DOMAIN new |-> OrderRow(d, new[i])]]
<1> DEFINE Seen(e, rows) == [i \in DOMAIN rows |-> OrderRow(e, rows[i])]
<1>0. outbox \in [Device -> Seq(Row)]
  BY DEF Plain, Queues
<1>1. ASSUME NEW e \in Device, NEW rows, outbox'[e] = rows
      PROVE  OrderQueue'[e] = Seen(e, rows)
  <2>1. OrderQueue'[e] = [i \in DOMAIN rows |-> OrderRow(e, rows[i])]'
    BY <1>1 DEF OrderQueue
  <2> QED  BY <2>1, RowsStay
<1>2. OrderQueue = [e \in Device |-> Seen(e, outbox[e])] /\ DOMAIN OrderQueue' = Device
  BY DEF OrderQueue
<1>3. ASSUME NEW e \in Device
      PROVE  OrderQueue'[e] = IF e = d THEN Seen(d, new) ELSE Seen(e, outbox[e])
  <2>1. PICK rows : rows = outbox[e]
    OBVIOUS
  <2>2. outbox'[e] = IF e = d THEN new ELSE rows
    BY <1>0, <2>1
  <2> QED  BY <1>1, <2>1, <2>2
<1>4. OrderQueue' = [e \in Device |-> OrderQueue'[e]]
  BY DEF OrderQueue
<1> HIDE DEF Seen
<1>5. OrderQueue' = [OrderQueue EXCEPT ![d] = Seen(d, new)]
  BY <1>2, <1>3, <1>4
<1> QED  BY <1>5 DEF Seen

\* What the order sees of the log and of what is read, while neither changes.
LEMMA OrderKept ==
  ASSUME UNCHANGED log
  PROVE  /\ OrderLog' = OrderLog
         /\ UNCHANGED <<received, cursor>> => OrderAhead' = OrderAhead
         /\ UNCHANGED <<heads, through>> => OrderHead' = OrderHead
BY DEF OrderLog, OrderAhead, OrderHead, LastWrite

\* Rows that differ at most in how often they were tried.
Alike(rows, new) ==
  /\ DOMAIN new = DOMAIN rows
  /\ \A i \in DOMAIN new : new[i].id = rows[i].id /\ new[i].op = rows[i].op

\* The queues, while nothing is accepted and no row changes what it writes.
LEMMA QueuesAlike ==
  ASSUME Plain, UNCHANGED log, NEW d \in Device, NEW new, outbox' = [outbox EXCEPT ![d] = new],
         Alike(outbox[d], new)
  PROVE  OrderQueue' = OrderQueue
<1>1. OrderQueue' = [OrderQueue EXCEPT ![d] = [i \in DOMAIN new |-> OrderRow(d, new[i])]]
  BY QueueBecomes
<1>2. \A i \in DOMAIN new : OrderRow(d, new[i]) = OrderRow(d, outbox[d][i])
  BY RowAlike DEF Alike
<1>3. OrderQueue[d] = [i \in DOMAIN new |-> OrderRow(d, new[i])]
  BY <1>2 DEF OrderQueue, Alike
<1> QED  BY <1>1, <1>3 DEF OrderQueue

\* Nothing else of a device is seen.
LEMMA Unseen ==
  ASSUME Plain, UNCHANGED <<log, canonical>>, OrderQueue' = OrderQueue
  PROVE  UNCHANGED Order!vars
BY OrderKept DEF Order!vars, canonical

\* Neither are steps that leave the queues alone.
LEMMA UnseenByFrame ==
  ASSUME Plain, UNCHANGED <<log, canonical, outbox>>
  PROVE  UNCHANGED Order!vars
<1>1. OrderQueue' = OrderQueue
  BY RowStays DEF OrderQueue, OrderRow, Known, SequenceOf
<1> QED  BY <1>1, Unseen

\* A save joins the order's queue.
LEMMA OrderSave ==
  ASSUME Plain, Placed, NEW d \in Device, NEW n \in Note, NEW b \in Body, SaveDocument(d, n, b)
  PROVE  Order!Save(d, n, b)
<1> DEFINE row == NewRow(d, Write(n, b))
           rows == outbox[d]
           new == Append(rows, row)
           k == Len(rows)
<1>1. outbox' = [outbox EXCEPT ![d] = new] /\ UNCHANGED <<log, received, heads, cursor, through>>
      /\ doc' = [doc EXCEPT ![d][n] = b]
  BY DEF SaveDocument, Enqueue, service
<1>2. made[d] \in Nat /\ outbox[d] \in Seq(Row)
  BY DEF Plain, Queues
<1>3. ~Known(d, row)
  <2>1. ~Sent(d, made[d] + 1)
    BY <1>2, FreshUnsent
  <2> QED  BY <2>1 DEF Sent, Known, NewRow
<1>4. OrderRow(d, row) = Order!NewRow(n, b)
  BY <1>3 DEF OrderRow, NewRow, Write, Order!NewRow
<1>5. /\ k \in Nat /\ DOMAIN OrderQueue[d] = 1 .. k /\ Len(OrderQueue[d]) = k
      /\ DOMAIN rows = 1 .. k /\ \A i \in 1 .. k : OrderQueue[d][i] = OrderRow(d, rows[i])
  BY QueueMapped
<1>6. DOMAIN new = 1 .. k + 1 /\ new[k + 1] = row /\ \A i \in 1 .. k : new[i] = rows[i]
  <2> HIDE DEF row
  <2> QED  BY <1>2
<1>7. OrderQueue' = [OrderQueue EXCEPT ![d] = [i \in DOMAIN new |-> OrderRow(d, new[i])]]
  <2> HIDE DEF new
  <2> QED  BY <1>1, QueueBecomes
<1>8. [i \in DOMAIN new |-> OrderRow(d, new[i])] = Append(OrderQueue[d], Order!NewRow(n, b))
  <2> DEFINE q == OrderQueue[d]
             x == Order!NewRow(n, b)
  <2>1. Append(q, x) = [i \in 1 .. k + 1 |-> IF i = k + 1 THEN x ELSE q[i]]
    <3> HIDE DEF x, q, k
    <3> QED  BY <1>5 DEF q
  <2>2. \A i \in 1 .. k + 1 : OrderRow(d, new[i]) = IF i = k + 1 THEN x ELSE q[i]
    <3> HIDE DEF row, new, k, x
    <3> QED  BY <1>4, <1>5, <1>6 DEF q, x
  <2> HIDE DEF row, new, k, x, q
  <2> QED  BY <1>6, <2>1, <2>2 DEF q, x
<1> QED  BY <1>1, <1>7, <1>8, OrderKept DEF Order!Save, Order!Unbounded

\* A save that replaces the tail, which was never sent, replaces the order's tail.
LEMMA OrderCoalesce ==
  ASSUME Plain, Aligned, NEW d \in Device, NEW n \in Note, NEW b \in Body, SaveIntoTail(d, n, b)
  PROVE  Order!Coalesce(d, n, b)
<1> DEFINE rows == outbox[d]
           k == Len(rows)
           tail == [rows[k] EXCEPT !.op = Write(n, b)]
           new == [rows EXCEPT ![k] = tail]
<1>1. /\ rows \in Seq(Row) /\ k \in Nat /\ DOMAIN rows = 1 .. k /\ claimed[d] \in Nat /\ k > claimed[d]
      /\ WritesTo(Last(rows).op, n) /\ Last(rows).attempts = 0
  BY DEF Plain, Queues, SaveIntoTail, Coalesces
<1>2. k \in DOMAIN rows /\ Last(rows) = rows[k] /\ rows[k] \in Row
  BY <1>1 DEF Last
<1>3. outbox' = [outbox EXCEPT ![d] = new] /\ UNCHANGED <<log, received, heads, cursor, through>>
      /\ doc' = [doc EXCEPT ![d][n] = b]
  BY <1>1 DEF SaveIntoTail, service, Plain, Queues
<1>4. ~Known(d, rows[k]) /\ ~Known(d, tail)
  <2>1. ~Sent(d, rows[k].id)
    BY <1>1, <1>2 DEF Aligned, QueueSound, Attempted
  <2>2. tail.id = rows[k].id
    BY <1>2 DEF Row
  <2> HIDE DEF tail
  <2> QED  BY <2>1, <2>2 DEF Sent, Known
<1>5. /\ OrderRow(d, tail) = Order!NewRow(n, b)
      /\ OrderRow(d, rows[k]).note = n /\ OrderRow(d, rows[k]).seq = 0
  <2>1. tail.op = Write(n, b)
    BY <1>2 DEF Row
  <2> HIDE DEF tail
  <2> QED  BY <1>1, <1>2, <1>4, <2>1 DEF OrderRow, Write, WritesTo, Order!NewRow
<1>6. /\ DOMAIN OrderQueue[d] = 1 .. k /\ Len(OrderQueue[d]) = k /\ OrderQueue[d] # << >>
      /\ \A i \in 1 .. k : OrderQueue[d][i] = OrderRow(d, rows[i])
      /\ OrderQueue[d] = [i \in DOMAIN OrderQueue[d] |-> OrderQueue[d][i]]
  BY <1>1, QueueMapped DEF OrderQueue
<1>7. DOMAIN new = 1 .. k /\ \A i \in 1 .. k : new[i] = IF i = k THEN tail ELSE rows[i]
  <2> HIDE DEF tail
  <2> QED  BY <1>1
<1>8. OrderQueue' = [OrderQueue EXCEPT ![d] = [i \in DOMAIN new |-> OrderRow(d, new[i])]]
  <2> HIDE DEF new
  <2> QED  BY <1>3, QueueBecomes
<1>9. [i \in DOMAIN new |-> OrderRow(d, new[i])] = [OrderQueue[d] EXCEPT ![k] = Order!NewRow(n, b)]
  <2> HIDE DEF new, tail, k
  <2> QED  BY <1>5, <1>6, <1>7
<1>10. UNCHANGED <<OrderLog, OrderAhead, OrderHead>>
  BY <1>3, OrderKept
<1>11. OrderQueue[d][k].note = n /\ OrderQueue[d][k].seq = 0 /\ Len(OrderQueue[d]) = k
  BY <1>1, <1>5, <1>6
<1>12. OrderQueue' = [OrderQueue EXCEPT ![d][Len(OrderQueue[d])] = Order!NewRow(n, b)]
  BY <1>8, <1>9, <1>11
<1> HIDE DEF new, tail, k
<1> QED  BY <1>3, <1>6, <1>10, <1>11, <1>12 DEF Order!Coalesce

\* Without images and refusals nothing is parked.
LEMMA NoneParked ==
  ASSUME Asset = {}, Plain, OnlyImages, NEW d \in Device
  PROVE  blocked[d] = {}
<1>1. \A p \in blocked[d] : p \in Parked /\ p.op.kind = "attach"
  BY DEF Plain, Queues, Held, OnlyImages
<1> QED  BY <1>1 DEF Parked, Operation, Write, Attach

\* Nor is anything missing.
LEMMA NoneMissing ==
  ASSUME Asset = {}, Plain, NEW d \in Device
  PROVE  Missing(d) = {}
<1>1. outbox[d] \in Seq(Row) /\ claimed[d] \in 0 .. Len(outbox[d])
  BY BatchRows
<1>2. ASSUME NEW i \in 1 .. claimed[d]
      PROVE  outbox[d][i].op.kind # "attach"
  <2>1. outbox[d][i] \in Row
    BY <1>1
  <2>2. outbox[d][i].op \in Operation
    BY <2>1 DEF Row
  <2>3. outbox[d][i].op.kind = "save"
    BY <2>2, SavesOnly
  <2> QED  BY <2>3
<1> QED  BY <1>2 DEF Missing

\* A claim is not seen.
LEMMA UnseenClaim ==
  ASSUME Plain, NEW d \in Device, NEW k \in 1 .. Len(outbox[d]), Claim(d, k)
  PROVE  UNCHANGED Order!vars
<1>1. PICK new : new = ClaimedTo(d, k)
  OBVIOUS
<1>2. outbox' = [outbox EXCEPT ![d] = new]
  BY <1>1 DEF Claim, ClaimedTo, Plain, Queues
<1>3. DOMAIN new = DOMAIN outbox[d]
  BY <1>1 DEF ClaimedTo
<1>4. ASSUME NEW i \in DOMAIN new
      PROVE  new[i].id = outbox[d][i].id /\ new[i].op = outbox[d][i].op
  <2>1. outbox[d][i] \in Row
    BY <1>3 DEF Plain, Queues
  <2>2. new[i] = Tried(outbox[d][i]) \/ new[i] = outbox[d][i]
    BY <1>1, <1>3, <1>4 DEF ClaimedTo
  <2>3. Tried(outbox[d][i]).id = outbox[d][i].id /\ Tried(outbox[d][i]).op = outbox[d][i].op
    BY <2>1 DEF Tried, Row
  <2> QED  BY <2>2, <2>3
<1>5. UNCHANGED log /\ UNCHANGED <<log, canonical>>
  BY DEF Claim, service
<1>6. OrderQueue' = OrderQueue
  <2>1. Alike(outbox[d], new)
    BY <1>3, <1>4 DEF Alike
  <2> QED  BY <1>2, <1>5, <2>1, QueuesAlike
<1> QED  BY <1>5, <1>6, Unseen

\* With nothing parked, nothing is requeued either.
LEMMA UnseenRequeue ==
  ASSUME Asset = {}, Plain, OnlyImages, NEW d \in Device, BeginPush(d)
  PROVE  UNCHANGED Order!vars
<1>1. Back(d) = {}
  BY NoneParked DEF Back
<1>2. PICK order \in SetToSeqs(Back(d)) :
        outbox' = [outbox EXCEPT ![d] = @ \o RequeuedRows(d, order)]
  BY DEF BeginPush
<1>3. PICK more : more = RequeuedRows(d, order)
  OBVIOUS
<1>4. order \in Seq(Back(d)) /\ more \in Seq(Row) /\ Len(more) = Len(order)
  BY <1>3, RequeuedType
<1>5. Len(more) = 0
  <2>1. order \in Seq({})
    BY <1>1, <1>4
  <2>2. Len(order) = 0
    BY <2>1
  <2> QED  BY <1>4, <2>2
<1>6. outbox[d] \o more = outbox[d]
  BY <1>4, <1>5 DEF Plain, Queues
<1>7. outbox' = outbox
  BY <1>2, <1>3, <1>6 DEF Plain, Queues
<1>8. UNCHANGED <<log, canonical>>
  BY DEF BeginPush, service
<1> QED  BY <1>7, <1>8, UnseenByFrame

\* Rows that leave the head of a queue leave that of the order's queue.
LEMMA OrderLeft ==
  ASSUME Plain, UNCHANGED log, NEW d \in Device, NEW j, NEW new, LeftOf(d, j, new),
         outbox' = [outbox EXCEPT ![d] = new]
  PROVE  OrderQueue' = [OrderQueue EXCEPT ![d] = SubSeq(@, j + 1, Len(@))]
<1> DEFINE k == Len(outbox[d])
           q == OrderQueue[d]
           seen == [i \in DOMAIN new |-> OrderRow(d, new[i])]
<1>1. /\ DOMAIN q = 1 .. k /\ Len(q) = k /\ k \in Nat /\ DOMAIN outbox[d] = 1 .. k
      /\ \A i \in 1 .. k : q[i] = OrderRow(d, outbox[d][i])
  BY QueueMapped
<1>2. OrderQueue' = [OrderQueue EXCEPT ![d] = seen]
  BY QueueBecomes
<1>3. /\ j \in 0 .. k /\ DOMAIN new = 1 .. k - j
      /\ \A i \in 1 .. k - j : new[i] = outbox[d][i + j]
  <2>1. j \in 0 .. k /\ new \in Seq(Row) /\ Len(new) = k - j /\ \A i \in DOMAIN new : new[i] = outbox[d][i + j]
    BY DEF LeftOf
  <2>2. DOMAIN new = 1 .. Len(new)
    BY <2>1
  <2> QED  BY <2>1, <2>2
<1>4. \A i \in 1 .. k - j : OrderRow(d, new[i]) = q[i + j]
  <2> HIDE DEF k, q
  <2> QED  BY <1>1, <1>3
<1>5. SubSeq(q, j + 1, k) = [i \in 1 .. k - j |-> q[i + j]]
  <2> HIDE DEF k, q
  <2> DEFINE S == {q[i] : i \in 1 .. k}
  <2>1. q \in Seq(S)
    <3>1. q = [i \in 1 .. k |-> q[i]]
      BY DEF q, k, OrderQueue, Plain, Queues
    <3>2. q \in [1 .. k -> S]
      BY <3>1
    <3> QED  BY <1>1, <3>2
  <2> HIDE DEF S
  <2>2. /\ Len(SubSeq(q, j + 1, k)) = k - j /\ SubSeq(q, j + 1, k) \in Seq(S)
        /\ \A i \in 1 .. k - j : SubSeq(q, j + 1, k)[i] = q[i + j]
    BY <1>1, <1>3, <2>1
  <2> QED  BY <1>1, <1>3, <2>2
<1>6. seen = SubSeq(q, j + 1, Len(q))
  <2> HIDE DEF k, q
  <2> QED  BY <1>1, <1>3, <1>4, <1>5
<1> HIDE DEF seen
<1> QED  BY <1>2, <1>6 DEF q

\* The rows of a claim that was accepted, as the order sees them.
LEMMA AcceptedRows ==
  ASSUME Asset = {}, Plain, ClaimHolds, AcceptedOnce, NEW d \in Device, pc[d] = "accepted"
  PROVE  /\ claimed[d] \in 1 .. Len(outbox[d]) /\ Len(OrderQueue[d]) = Len(outbox[d])
         /\ \A i \in 1 .. claimed[d] :
              /\ OrderQueue[d][i].seq = SequenceOf(d, outbox[d][i]) /\ OrderQueue[d][i].seq # 0
              /\ SequenceOf(d, outbox[d][i]) \in 1 .. Len(log)
              /\ \A n \in Note : i \in ClaimedWrites(d, n) <=> OrderQueue[d][i].note = n
<1>1. /\ claimed[d] \in Nat /\ claimed[d] > 0 /\ claimed[d] =< Len(outbox[d])
      /\ outbox[d] \in Seq(Row) /\ Len(outbox[d]) \in Nat /\ DOMAIN log = 1 .. Len(log)
  BY DEF Plain, Queues, Claims, ClaimHolds, Services
<1>2. Len(OrderQueue[d]) = Len(outbox[d]) /\ DOMAIN outbox[d] = 1 .. Len(outbox[d])
      /\ \A i \in DOMAIN outbox[d] : OrderQueue[d][i] = OrderRow(d, outbox[d][i])
  BY QueueMapped
<1>3. ASSUME NEW i \in 1 .. claimed[d]
      PROVE  /\ OrderQueue[d][i].seq = SequenceOf(d, outbox[d][i]) /\ OrderQueue[d][i].seq # 0
             /\ SequenceOf(d, outbox[d][i]) \in 1 .. Len(log)
             /\ \A n \in Note : i \in ClaimedWrites(d, n) <=> OrderQueue[d][i].note = n
  <2>1. i \in DOMAIN outbox[d] /\ OrderQueue[d][i] = OrderRow(d, outbox[d][i])
    BY <1>1, <1>2
  <2>2. Known(d, outbox[d][i]) /\ outbox[d][i] \in Row
    BY <1>1, <2>1 DEF ClaimHolds
  <2>3. \A n : WritesTo(outbox[d][i].op, n) <=> outbox[d][i].op.target = n
    BY <2>2, SavesOnly DEF Row
  <2>4. /\ OrderRow(d, outbox[d][i]).note = outbox[d][i].op.target
        /\ OrderRow(d, outbox[d][i]).seq # 0 /\ OrderRow(d, outbox[d][i]).seq \in DOMAIN log
        /\ OrderRow(d, outbox[d][i]).seq = SequenceOf(d, outbox[d][i])
    BY <2>2, RowSequence
  <2> QED  BY <1>1, <2>1, <2>3, <2>4 DEF ClaimedWrites
<1> QED  BY <1>1, <1>2, <1>3

\* The head the order sees moves up to the greatest of what is acknowledged.
LEMMA HeadAcknowledged ==
  ASSUME Asset = {}, Plain, Followed, ClaimHolds, AcceptedOnce, NEW d \in Device, OnLogAt(d),
         Acknowledge(d), NEW n \in Note
  PROVE  /\ Latest(d, n)' \in 0 .. Len(log)
         /\ \/ Latest(d, n)' = Latest(d, n)
            \/ \E i \in 1 .. claimed[d] : OrderQueue[d][i].note = n /\ OrderQueue[d][i].seq = Latest(d, n)'
         /\ Latest(d, n)' >= Latest(d, n)
         /\ \A i \in 1 .. claimed[d] : OrderQueue[d][i].note = n => Latest(d, n)' >= OrderQueue[d][i].seq
<1>1. /\ pc[d] = "accepted" /\ UNCHANGED <<log, through>>
      /\ Len(log) \in Nat /\ through[d] \in Nat /\ heads[d][n] \in Nat
  BY DEF Acknowledge, service, Plain, Services, Shown, Followed
<1> DEFINE l == LastWrite(n, through[d])
           h == heads[d][n]
           g == heads'[d][n]
           top == Len(log)
<1>2. Latest(d, n)' = (IF g > l THEN g ELSE l) /\ Latest(d, n) = IF h > l THEN h ELSE l
  <2>1. LastWrite(n, through[d])' = l
    BY <1>1 DEF LastWrite
  <2> QED  BY <2>1 DEF Latest, Greater
<1>3. /\ \/ g = h \/ \E i \in ClaimedWrites(d, n) : g = SequenceOf(d, outbox[d][i])
      /\ h =< g /\ \A i \in ClaimedWrites(d, n) : SequenceOf(d, outbox[d][i]) =< g
      /\ g \in Nat
  BY HeadsAcknowledged DEF OnLogAt
<1>4. Latest(d, n) \in 0 .. top /\ l =< Latest(d, n) /\ l \in Nat /\ h \in Nat /\ top \in Nat
  BY <1>1, LatestOf, LastOf DEF OnLogAt
<1>5. \A i \in 1 .. claimed[d] :
        /\ OrderQueue[d][i].seq = SequenceOf(d, outbox[d][i])
        /\ SequenceOf(d, outbox[d][i]) \in 1 .. top
        /\ i \in ClaimedWrites(d, n) <=> OrderQueue[d][i].note = n
  BY <1>1, AcceptedRows
<1>6. ClaimedWrites(d, n) \subseteq 1 .. claimed[d]
  BY DEF ClaimedWrites
<1> DEFINE a == Latest(d, n)
           b == Latest(d, n)'
<1> HIDE DEF l, h, g, top, a, b
<1>7. b = (IF g > l THEN g ELSE l) /\ a = (IF h > l THEN h ELSE l) /\ a \in 0 .. top /\ l =< a
  BY <1>2, <1>4 DEF a, b
<1>8. b \in 0 .. top /\ b >= a /\ b >= g
  <2>1. g \in 0 .. top \/ g = h
    BY <1>3, <1>5, <1>6, <1>4
  <2> QED  BY <1>3, <1>4, <1>7, <2>1
<1>9. b = a \/ \E i \in 1 .. claimed[d] : OrderQueue[d][i].note = n /\ OrderQueue[d][i].seq = b
  <2>1. CASE g = h
    BY <1>7, <2>1
  <2>2. ASSUME NEW i \in ClaimedWrites(d, n), g = SequenceOf(d, outbox[d][i])
        PROVE  b = a \/ (OrderQueue[d][i].note = n /\ OrderQueue[d][i].seq = b)
    <3>1. OrderQueue[d][i].note = n /\ OrderQueue[d][i].seq = g
      BY <1>5, <1>6, <2>2
    <3>2. b = g \/ b = a
      BY <1>3, <1>4, <1>7
    <3> QED  BY <3>1, <3>2
  <2> QED  BY <1>3, <1>6, <2>1, <2>2
<1>10. \A i \in 1 .. claimed[d] : OrderQueue[d][i].note = n => b >= OrderQueue[d][i].seq
  <2> SUFFICES ASSUME NEW i \in 1 .. claimed[d], OrderQueue[d][i].note = n
               PROVE  b >= OrderQueue[d][i].seq
    OBVIOUS
  <2>1. OrderQueue[d][i].seq =< g /\ OrderQueue[d][i].seq \in 1 .. top
    BY <1>3, <1>5
  <2> QED  BY <1>3, <1>4, <1>8, <2>1
<1> QED  BY <1>8, <1>9, <1>10 DEF a, b, top

\* An acknowledgement is the order's.
LEMMA OrderAcknowledge ==
  ASSUME Asset = {}, Plain, Followed, ClaimHolds, AcceptedOnce, NEW d \in Device, OnLogAt(d),
         Acknowledge(d)
  PROVE  Order!Acknowledge(d, claimed[d]) /\ claimed[d] \in 1 .. Len(OrderQueue[d])
<1> DEFINE k == claimed[d]
           q == OrderQueue[d]
           c == cursor[d]
<1>1. /\ pc[d] = "accepted" /\ UNCHANGED <<log, doc, through>>
      /\ received' = [received EXCEPT ![d] = @ \cup SequencesOf(d, 1 .. k)]
      /\ cursor' = [cursor EXCEPT ![d] = @ + Contiguous(d)]
      /\ outbox' = [outbox EXCEPT ![d] = Unclaimed(d)]
      /\ \A e \in Device : e # d => heads'[e] = heads[e]
  BY DEF Acknowledge, service, Followed
<1>2. /\ cursor \in [Device -> Nat] /\ received \in [Device -> SUBSET Nat] /\ Len(log) \in Nat
      /\ outbox \in [Device -> Seq(Row)]
  BY DEF Plain, Shown, Services, Queues, Followed
<1>3. /\ k \in 1 .. Len(outbox[d]) /\ Len(q) = Len(outbox[d])
      /\ \A i \in 1 .. k : q[i].seq = SequenceOf(d, outbox[d][i]) /\ q[i].seq # 0
  BY <1>1, AcceptedRows
<1>4. PICK j : j = Contiguous(d)
  OBVIOUS
<1>5. /\ j \in 0 .. k /\ \A i \in 1 .. j : SequenceOf(d, outbox[d][i]) = c + i
      /\ \A x \in 0 .. k : (\A i \in 1 .. x : SequenceOf(d, outbox[d][i]) = c + i) => j >= x
  BY <1>4, ContiguousRows
<1>6. k \in Nat /\ k >= 1 /\ c \in Nat /\ Len(outbox[d]) \in Nat
  BY <1>2, <1>3
<1> HIDE DEF k, q, c
<1>7. ASSUME NEW i \in 1 .. j
      PROVE  q[i].seq = c + i
  <2>1. i \in 1 .. k
    BY <1>5, <1>6
  <2>2. q[i].seq = SequenceOf(d, outbox[d][i])
    BY <1>3, <2>1
  <2>3. SequenceOf(d, outbox[d][i]) = c + i
    BY <1>5
  <2> QED  BY <2>2, <2>3
<1>8. j < k => q[j + 1].seq # c + j + 1
  <2> SUFFICES ASSUME j < k, q[j + 1].seq = c + j + 1
               PROVE  FALSE
    OBVIOUS
  <2>1. j + 1 \in 1 .. k /\ j + 1 \in 0 .. k /\ c + (j + 1) = c + j + 1
    BY <1>5, <1>6
  <2>2. SequenceOf(d, outbox[d][j + 1]) = c + (j + 1)
    BY <1>3, <2>1
  <2>3. \A i \in 1 .. j + 1 : i \in 1 .. j \/ i = j + 1
    BY <1>5, <1>6
  <2>4. \A i \in 1 .. j + 1 : SequenceOf(d, outbox[d][i]) = c + i
    BY <1>5, <2>2, <2>3
  <2>5. j >= j + 1
    BY <1>5, <2>1, <2>4
  <2> QED  BY <1>5, <1>6, <2>5
<1>9. cursor' = [cursor EXCEPT ![d] = @ + j] /\ cursor'[d] = c + j
  BY <1>1, <1>2, <1>4 DEF c
<1>10. OrderAhead' = [OrderAhead EXCEPT ![d] =
                        {s \in @ \cup {q[i].seq : i \in 1 .. k} : s > cursor'[d]}]
  <2> DEFINE sent == {q[i].seq : i \in 1 .. k}
  <2>1. sent = SequencesOf(d, 1 .. k)
    BY <1>3 DEF SequencesOf
  <2> HIDE DEF sent
  <2>2. received'[d] = received[d] \cup sent
    BY <1>1, <1>2, <2>1 DEF k
  <2>3. {s \in received'[d] : s > cursor'[d]} =
          {s \in {x \in received[d] : x > cursor[d]} \cup sent : s > cursor'[d]}
    <3>1. \A s \in received[d] : s > c + j => s > c
      BY <1>2, <1>5, <1>6
    <3> QED  BY <1>9, <2>2, <3>1 DEF c
  <2>4. \A e \in Device : e # d => received'[e] = received[e] /\ cursor'[e] = cursor[e]
    BY <1>1, <1>2
  <2>5. OrderAhead' = [e \in Device |-> {s \in received'[e] : s > cursor'[e]}]
    BY DEF OrderAhead
  <2> QED  BY <2>3, <2>4, <2>5 DEF OrderAhead, sent
<1>11. \E h \in [Note -> 0 .. Len(log)] :
         /\ OrderHead' = [OrderHead EXCEPT ![d] = h]
         /\ \A n \in Note :
              /\ h[n] = OrderHead[d][n] \/ \E i \in 1 .. k : q[i].note = n /\ q[i].seq = h[n]
              /\ h[n] >= OrderHead[d][n]
              /\ \A i \in 1 .. k : q[i].note = n => h[n] >= q[i].seq
  <2>1. PICK h : h = OrderHead'[d]
    OBVIOUS
  <2>2. /\ h = [n \in Note |-> h[n]] /\ \A n \in Note : h[n] = Latest(d, n)'
        /\ \A n \in Note : OrderHead[d][n] = Latest(d, n)
    BY <2>1 DEF OrderHead, Latest
  <2>3. h \in [Note -> 0 .. Len(log)]
    BY <2>2, HeadAcknowledged
  <2>4. OrderHead' = [OrderHead EXCEPT ![d] = h]
    <3>1. ASSUME NEW e \in Device, e # d
          PROVE  OrderHead'[e] = OrderHead[e]
      BY <1>1, <3>1 DEF OrderHead, LastWrite
    <3>2. OrderHead' = [e \in Device |-> OrderHead'[e]] /\ OrderHead = [e \in Device |-> OrderHead[e]]
      BY DEF OrderHead
    <3> QED  BY <2>1, <3>1, <3>2
  <2>5. ASSUME NEW n \in Note
        PROVE  /\ h[n] = OrderHead[d][n] \/ \E i \in 1 .. k : q[i].note = n /\ q[i].seq = h[n]
               /\ h[n] >= OrderHead[d][n]
               /\ \A i \in 1 .. k : q[i].note = n => h[n] >= q[i].seq
    BY <2>2, HeadAcknowledged DEF k, q
  <2> QED  BY <2>3, <2>4, <2>5
<1>12. OrderQueue' = [OrderQueue EXCEPT ![d] = SubSeq(@, k + 1, Len(@))]
  <2>1. PICK new : new = Unclaimed(d)
    OBVIOUS
  <2>2. outbox'[d] = new /\ outbox' = [outbox EXCEPT ![d] = new]
    BY <1>1, <1>2, <2>1
  <2>3. LeftOf(d, k, new)
    BY <2>2, LeftByAcknowledge DEF k
  <2> QED  BY <1>1, <2>2, <2>3, OrderLeft
<1>13. Len(OrderLog) = Len(log) /\ OrderLog' = OrderLog
  <2>1. DOMAIN OrderLog = 1 .. Len(log)
    BY DEF OrderLog, Plain, Services
  <2> QED  BY <1>1, <1>2, <2>1, OrderKept DEF OrderLog
<1>14. Order!Acknowledge(d, k)
  BY <1>1, <1>3, <1>5, <1>7, <1>8, <1>9, <1>10, <1>11, <1>12, <1>13 DEF Order!Acknowledge, q, c
<1> QED  BY <1>3, <1>14 DEF k, q

\* What reading the next sequence does to what the order sees.
LEMMA OrderReads ==
  ASSUME Plain, Followed, NEW d \in Device, NEW s, s = cursor[d] + 1, InLog(d),
         UNCHANGED <<log, through>>, Incorporate(d, s), s \notin received[d]
  PROVE  /\ s \in 1 .. Len(log) /\ s \notin OrderAhead[d] /\ Len(OrderLog) = Len(log)
         /\ OrderLog' = OrderLog /\ cursor' = [cursor EXCEPT ![d] = s] /\ OrderAhead' = OrderAhead
<1>1. /\ cursor \in [Device -> Nat] /\ received \in [Device -> SUBSET Nat] /\ Len(log) \in Nat
      /\ cursor[d] < Len(log) /\ DOMAIN log = 1 .. Len(log)
  BY DEF Plain, Shown, Services, Followed, InLog
<1>2. /\ s \in Nat /\ received' = [received EXCEPT ![d] = @ \cup {s}]
      /\ cursor' = [cursor EXCEPT ![d] = s]
  BY <1>1 DEF Incorporate
<1>3. {x \in received[d] \cup {s} : x > s} = {x \in received[d] : x > cursor[d]}
  <2>1. \A x \in received[d] : x > s <=> x > cursor[d]
    BY <1>1
  <2> QED  BY <1>2, <2>1
<1>4. OrderAhead' = OrderAhead
  <2>1. \A e \in Device : {x \in received'[e] : x > cursor'[e]} = {x \in received[e] : x > cursor[e]}
    BY <1>1, <1>2, <1>3
  <2> QED  BY <2>1 DEF OrderAhead
<1>5. Len(OrderLog) = Len(log) /\ OrderLog' = OrderLog
  <2>1. DOMAIN OrderLog = 1 .. Len(log)
    BY <1>1 DEF OrderLog
  <2> QED  BY <1>1, <2>1, OrderKept DEF OrderLog
<1> QED  BY <1>1, <1>2, <1>4, <1>5 DEF OrderAhead

\* The head moves when the sequence read writes the note.
LEMMA HeadRead ==
  ASSUME Asset = {}, Plain, Followed, NEW d \in Device, NEW s \in Nat, s = cursor[d] + 1, s \in DOMAIN log,
         UNCHANGED <<log, through>>, Incorporate(d, s)
  PROVE  /\ log[s].op.kind = "save" /\ log[s].op.target \in Note /\ log[s].op.body \in Bodies
         /\ OrderHead' = [OrderHead EXCEPT ![d][log[s].op.target] = Order!HeadAfter(d, log[s].op.target, s)]
<1> DEFINE m == log[s].op.target
           g == [OrderHead EXCEPT ![d][m] = Order!HeadAfter(d, m, s)]
<1>1. /\ log[s].op.kind = "save" /\ m \in Note /\ log[s].op.body \in Bodies
      /\ \A n : WritesTo(log[s].op, n) <=> m = n
  <2>0. log[s] \in Entry
    BY DEF Plain, Services
  <2>1. log[s].op \in Operation
    BY <2>0 DEF Entry
  <2> QED  BY <2>1, SavesOnly
<1>2. /\ heads \in [Device -> [Note -> Nat]] /\ through \in [Device -> Nat]
      /\ heads' = [heads EXCEPT ![d] =
                     [n \in Note |-> IF WritesTo(log[s].op, n) THEN Greater(@[n], s) ELSE @[n]]]
  BY DEF Followed, Plain, Shown, Incorporate
<1>3. ASSUME NEW e \in Device, NEW n \in Note
      PROVE  OrderHead'[e][n] = g[e][n]
  <2> DEFINE l == LastWrite(n, through[e])
             h == heads[e][n]
  <2>1. LastWrite(n, through[e])' = l
    BY DEF LastWrite
  <2>2. h \in Nat /\ l \in Nat
    BY <1>2, LastOf
  <2>3. OrderHead[e][n] = Greater(h, l) /\ OrderHead'[e][n] = Greater(heads'[e][n], l)
    BY <2>1 DEF OrderHead
  <2>4. heads'[e][n] = IF e = d /\ n = m THEN Greater(h, s) ELSE h
    BY <1>1, <1>2
  <2>5. g[e][n] = IF e = d /\ n = m THEN IF s > OrderHead[e][n] THEN s ELSE OrderHead[e][n]
                  ELSE OrderHead[e][n]
    BY <1>1 DEF OrderHead, Order!HeadAfter
  <2> HIDE DEF l, h, g, m
  <2> QED  BY <2>2, <2>3, <2>4, <2>5 DEF Greater
<1>4. /\ OrderHead' = [e \in Device |-> [n \in Note |-> OrderHead'[e][n]]]
      /\ g = [e \in Device |-> [n \in Note |-> g[e][n]]]
  BY DEF OrderHead
<1> HIDE DEF g
<1>5. OrderHead' = g
  BY <1>3, <1>4
<1> QED  BY <1>1, <1>5 DEF g

\* An own write read after its acknowledgement.
LEMMA OrderDuplicate ==
  ASSUME Plain, Followed, NEW d \in Device, PullDuplicate(d)
  PROVE  Order!PullDuplicate(d)
<1>1. /\ cursor \in [Device -> Nat] /\ received \in [Device -> SUBSET Nat] /\ cursor[d] + 1 \in received[d]
      /\ cursor' = [cursor EXCEPT ![d] = @ + 1]
      /\ UNCHANGED <<log, doc, outbox, received, heads, through>>
  BY DEF Plain, Shown, Followed, PullDuplicate, service
<1>2. OrderQueue' = OrderQueue
  BY <1>1, UnseenByFrame, RowStays DEF OrderQueue, OrderRow, Known, SequenceOf
<1>3. OrderLog' = OrderLog /\ OrderHead' = OrderHead
  BY <1>1, OrderKept
<1>4. cursor[d] + 1 \in OrderAhead[d]
  BY <1>1 DEF OrderAhead
<1>5. {x \in received[d] : x > cursor[d] + 1} = {x \in received[d] : x > cursor[d]} \ {cursor[d] + 1}
  BY <1>1
<1>6. OrderAhead' = [OrderAhead EXCEPT ![d] = @ \ {cursor[d] + 1}]
  <2>1. OrderAhead' = [e \in Device |-> {x \in received[e] : x > cursor'[e]}]
    BY <1>1 DEF OrderAhead
  <2>2. \A e \in Device : {x \in received[e] : x > cursor'[e]} =
          IF e = d THEN OrderAhead[d] \ {cursor[d] + 1} ELSE OrderAhead[e]
    BY <1>1, <1>5 DEF OrderAhead
  <2> QED  BY <2>1, <2>2 DEF OrderAhead
<1> QED  BY <1>1, <1>2, <1>3, <1>4, <1>6 DEF Order!PullDuplicate

\* An own write read before its acknowledgement: its row is the first.
LEMMA OrderEcho ==
  ASSUME Asset = {}, Plain, Followed, AcceptedOnce, NEW d \in Device, QueueSound(d), PullEcho(d)
  PROVE  Order!PullEcho(d)
<1>1. PICK s : s = cursor[d] + 1
  OBVIOUS
<1>2. /\ Incorporate(d, s) /\ UNCHANGED <<log, doc, through>> /\ InLog(d) /\ s \notin received[d]
      /\ outbox \in [Device -> Seq(Row)] /\ cursor[d] \in Nat
  BY <1>1 DEF PullEcho, service, Plain, Queues, Shown
<1>3. PICK i \in Echoed(d, cursor[d] + 1) : outbox' = [outbox EXCEPT ![d] = RemoveAt(@, i)]
  BY DEF PullEcho
<1>4. 1 \in DOMAIN outbox[d] /\ s \in DOMAIN log /\ Holds(d, s, outbox[d][1])
  BY <1>1, <1>2, EchoIsFirst
<1>5. /\ OrderQueue[d] # << >> /\ OrderQueue[d][1] = OrderRow(d, outbox[d][1])
      /\ Len(OrderQueue[d]) = Len(outbox[d])
  <2>1. outbox[d] # << >>
    BY <1>4
  <2> QED  BY <1>4, <2>1, QueueMapped
<1>6. OrderQueue[d][1].seq = s /\ OrderQueue[d][1].note = log[s].op.target
  <2>1. log[s].op = outbox[d][1].op
    BY <1>4 DEF QueueSound, Recorded, EntryOf
  <2>2. OrderRow(d, outbox[d][1]).note = outbox[d][1].op.target /\ OrderRow(d, outbox[d][1]).seq = s
    BY <1>4, RowSequence
  <2> QED  BY <1>5, <2>1, <2>2
<1>7. OrderQueue' = [OrderQueue EXCEPT ![d] = SubSeq(@, 1 + 1, Len(@))]
  <2>1. PICK new : new = outbox'[d]
    OBVIOUS
  <2>2. outbox' = [outbox EXCEPT ![d] = new]
    BY <1>2, <1>3, <2>1
  <2>3. LeftOf(d, 1, new)
    BY <2>1, LeftByEcho
  <2> QED  BY <1>2, <2>2, <2>3, OrderLeft
<1>8. Tail(OrderQueue[d]) = SubSeq(OrderQueue[d], 1 + 1, Len(OrderQueue[d]))
  <2> DEFINE q == OrderQueue[d]
             k == Len(outbox[d])
             S == {q[x] : x \in 1 .. k}
  <2>1. k \in Nat /\ k >= 1 /\ Len(q) = k /\ DOMAIN q = 1 .. k
    BY <1>2, <1>4, QueueMapped
  <2>2. q = [x \in 1 .. k |-> q[x]]
    BY <1>2 DEF OrderQueue
  <2> HIDE DEF k, q
  <2>3. q \in [1 .. k -> S]
    BY <2>2
  <2> HIDE DEF S
  <2>4. q \in Seq(S) /\ q # << >>
    BY <2>1, <2>3
  <2>5. /\ Tail(q) \in Seq(S) /\ Len(Tail(q)) = k - 1 /\ \A x \in 1 .. k - 1 : Tail(q)[x] = q[x + 1]
    BY <2>1, <2>4
  <2>6. /\ SubSeq(q, 2, k) \in Seq(S) /\ Len(SubSeq(q, 2, k)) = k - 1
        /\ \A x \in 1 .. k - 1 : SubSeq(q, 2, k)[x] = q[x + 1]
    BY <2>1, <2>4
  <2>7. Tail(q) = SubSeq(q, 2, k)
    BY <2>1, <2>5, <2>6
  <2> QED  BY <2>1, <2>7 DEF q
<1>9. OrderQueue' = [OrderQueue EXCEPT ![d] = Tail(@)]
  BY <1>7, <1>8
<1>10. /\ OrderLog' = OrderLog /\ OrderAhead' = OrderAhead /\ cursor' = [cursor EXCEPT ![d] = s]
  BY <1>1, <1>2, OrderReads
<1>11. OrderHead' = [OrderHead EXCEPT ![d][log[s].op.target] = Order!HeadAfter(d, log[s].op.target, s)]
  BY <1>1, <1>2, <1>4, HeadRead
<1> QED  BY <1>1, <1>2, <1>5, <1>6, <1>9, <1>10, <1>11 DEF Order!PullEcho

\* Another device's write: what decides it is the same.
LEMMA OrderRemote ==
  ASSUME Asset = {}, Plain, Followed, AcceptedOnce, OnlyImages, NEW d \in Device, OnLogAt(d), PullRemote(d)
  PROVE  Order!PullRemote(d)
<1>1. PICK s : s = cursor[d] + 1
  OBVIOUS
<1> DEFINE n == log[s].op.target
<1>2. /\ Incorporate(d, s) /\ UNCHANGED <<log, outbox, through>> /\ InLog(d) /\ s \notin received[d]
      /\ Echoed(d, s) = {}
      /\ doc' = IF log[s].op.kind = "save" /\ ~WritePending(d, n) /\ s > heads[d][n]
                THEN [doc EXCEPT ![d][n] = log[s].op.body] ELSE doc
  BY <1>1 DEF PullRemote, service
<1>3. /\ outbox \in [Device -> Seq(Row)] /\ cursor[d] \in Nat /\ s \in Nat /\ through[d] \in Nat
      /\ through[d] =< cursor[d] /\ heads \in [Device -> [Note -> Nat]]
  BY <1>1 DEF Plain, Queues, Shown, OnLogAt, Followed
<1>4. /\ s \in 1 .. Len(log) /\ s \notin OrderAhead[d] /\ Len(OrderLog) = Len(log)
      /\ OrderLog' = OrderLog /\ OrderAhead' = OrderAhead /\ cursor' = [cursor EXCEPT ![d] = s]
  BY <1>1, <1>2, OrderReads
<1>5. s \in DOMAIN log /\ DOMAIN OrderLog = DOMAIN log
  BY <1>4 DEF Plain, Services, OrderLog
<1>6. OrderLog[s].note = n /\ OrderLog[s].body = log[s].op.body
  BY <1>5 DEF OrderLog
<1>7. /\ log[s].op.kind = "save" /\ n \in Note
      /\ OrderHead' = [OrderHead EXCEPT ![d][n] = Order!HeadAfter(d, n, s)]
  BY <1>1, <1>2, <1>3, <1>5, HeadRead
<1>8. /\ DOMAIN OrderQueue[d] = DOMAIN outbox[d]
      /\ \A i \in DOMAIN outbox[d] : OrderQueue[d][i] = OrderRow(d, outbox[d][i])
  BY QueueMapped
<1>9. ASSUME NEW i \in DOMAIN OrderQueue[d]
      PROVE  OrderQueue[d][i].seq # s /\ (OrderQueue[d][i].note = n <=> WritesTo(outbox[d][i].op, n))
  <2>1. outbox[d][i] \in Row
    BY <1>3, <1>8
  <2>2. ~Holds(d, s, outbox[d][i])
    BY <1>2, <1>8 DEF Echoed, Holds
  <2>3. /\ OrderRow(d, outbox[d][i]).note = outbox[d][i].op.target
        /\ OrderRow(d, outbox[d][i]).seq = s => Holds(d, s, outbox[d][i])
    <3>1. PICK row : row = outbox[d][i]
      OBVIOUS
    <3>2. /\ OrderRow(d, row).note = row.op.target /\ (~Known(d, row) => OrderRow(d, row).seq = 0)
          /\ Known(d, row) => Holds(d, OrderRow(d, row).seq, row)
      BY RowSequence
    <3> QED  BY <1>4, <3>1, <3>2
  <2>4. WritesTo(outbox[d][i].op, n) <=> outbox[d][i].op.target = n
    BY <2>1, SavesOnly DEF Row
  <2> QED  BY <1>8, <2>2, <2>3, <2>4
<1>10. WritePending(d, n) <=> Order!Pending(d, n)
  BY <1>8, <1>9, NoneParked DEF WritePending, Order!Pending
<1>11. s > heads[d][n] <=> ~(s =< OrderHead[d][n])
  <2> DEFINE l == LastWrite(n, through[d])
             h == heads[d][n]
  <2>1. l \in 0 .. through[d] /\ h \in Nat
    BY <1>3, <1>7, LastOf
  <2>2. OrderHead[d][n] = Greater(h, l)
    BY <1>7 DEF OrderHead
  <2> HIDE DEF l, h
  <2> QED  BY <1>1, <1>3, <2>1, <2>2 DEF Greater, h
<1>12. OrderQueue' = OrderQueue
  BY <1>2, RowStays DEF OrderQueue, OrderRow, Known, SequenceOf
<1>13. doc' = IF Order!Pending(d, n) \/ s =< OrderHead[d][n] THEN doc
              ELSE [doc EXCEPT ![d][n] = log[s].op.body]
  BY <1>2, <1>7, <1>10, <1>11
<1>14. \A i \in DOMAIN OrderQueue[d] : OrderQueue[d][i].seq # s
  BY <1>9
<1>15. s =< Len(OrderLog)
  BY <1>4
<1> HIDE DEF n
<1> QED  BY <1>1, <1>4, <1>6, <1>7, <1>12, <1>13, <1>14, <1>15 DEF Order!PullRemote

\* A rebuild adopts what the log says up to a sequence not yet read.
LEMMA OrderRebuild ==
  ASSUME Asset = {}, Plain, Followed, NEW d \in Device, Faithful(archive[d]), BehindAt(d), Rebuild(d)
  PROVE  Order!Rebuild(d, archive[d].seq) /\ archive[d].seq \in 1 .. Len(OrderLog)
<1>1. PICK s : s = archive[d].seq
  OBVIOUS
<1>2. /\ archive[d] \in Checkpoint /\ pc[d] = "fetched" /\ outbox[d] = << >>
      /\ UNCHANGED <<log, outbox>>
  BY DEF Rebuild, Plain, Workers, service
<1>3. /\ cursor[d] \in Nat /\ s \in Nat /\ cursor[d] < s /\ s =< Len(log) /\ Len(log) \in Nat
      /\ DOMAIN log = 1 .. Len(log)
  BY <1>1, <1>2 DEF BehindAt, Faithful, Checkpoint, Plain, Shown, Services
<1>4. /\ doc \in [Device -> [Note -> Bodies]] /\ cursor \in [Device -> Nat] /\ through \in [Device -> Nat]
      /\ received \in [Device -> SUBSET Nat] /\ heads \in [Device -> [Note -> Nat]]
      /\ archive[d].docs \in [Note -> Bodies]
  BY <1>2 DEF Plain, Shown, Followed, Checkpoint
<1>5. /\ doc' = [doc EXCEPT ![d] = archive[d].docs] /\ received' = [received EXCEPT ![d] = {}]
      /\ heads' = [heads EXCEPT ![d] = [n \in Note |-> 0]]
      /\ cursor' = [cursor EXCEPT ![d] = s] /\ through' = [through EXCEPT ![d] = s]
  BY <1>1 DEF Rebuild
<1>6. OrderQueue' = OrderQueue /\ OrderLog' = OrderLog
  BY <1>2, OrderKept, RowStays DEF OrderQueue, OrderRow, Known, SequenceOf
<1>7. OrderQueue[d] = << >>
  BY <1>2, QueueMapped
<1>8. OrderAhead' = [OrderAhead EXCEPT ![d] = {}]
  BY <1>4, <1>5 DEF OrderAhead
<1>9. PICK h : h = [n \in Note |-> LastWrite(n, s)]
  OBVIOUS
<1>10. /\ h \in [Note -> 0 .. s]
       /\ \A n \in Note : /\ h[n] # 0 => WritesTo(log[h[n]].op, n)
                          /\ \A t \in 1 .. s : WritesTo(log[t].op, n) => t =< h[n]
  BY <1>3, <1>9, LastOf
<1>11. \A t \in 1 .. s : t \in DOMAIN log /\ OrderLog[t].note = log[t].op.target
                         /\ OrderLog[t].body = log[t].op.body
  BY <1>3 DEF OrderLog
<1>12. ASSUME NEW t \in 1 .. s, NEW n
       PROVE  WritesTo(log[t].op, n) <=> OrderLog[t].note = n
  <2>1. log[t] \in Entry
    BY <1>11 DEF Plain, Services
  <2>2. log[t].op \in Operation
    BY <2>1 DEF Entry
  <2>3. WritesTo(log[t].op, n) <=> log[t].op.target = n
    BY <2>2, SavesOnly
  <2> QED  BY <1>11, <2>3
<1>13. ASSUME NEW n \in Note
       PROVE  /\ h[n] # 0 => OrderLog[h[n]].note = n
              /\ \A t \in 1 .. s : OrderLog[t].note = n => t =< h[n]
  <2>1. h[n] # 0 => h[n] \in 1 .. s
    BY <1>3, <1>10
  <2> QED  BY <1>10, <1>12, <2>1
<1>14. archive[d].docs = [n \in Note |-> Order!BodyAt(h[n])]
  <2>1. ASSUME NEW n \in Note
        PROVE  archive[d].docs[n] = Order!BodyAt(h[n])
    <3>1. archive[d].docs[n] = BodyAt(h[n])
      BY <1>1, <1>9 DEF Faithful
    <3>2. h[n] # 0 => h[n] \in 1 .. s
      BY <1>3, <1>10
    <3> QED  BY <1>11, <3>1, <3>2 DEF BodyAt, Order!BodyAt
  <2> QED  BY <1>4, <2>1
<1>15. OrderHead' = [OrderHead EXCEPT ![d] = h]
  <2>1. ASSUME NEW n \in Note
        PROVE  OrderHead'[d][n] = h[n]
    <3>1. LastWrite(n, through[d])' = LastWrite(n, s)
      BY <1>2, <1>4, <1>5 DEF LastWrite
    <3>2. heads'[d][n] = 0
      BY <1>4, <1>5
    <3>3. h[n] \in 0 .. s /\ h[n] = LastWrite(n, s)
      BY <1>9, <1>10
    <3> QED  BY <1>3, <3>1, <3>2, <3>3 DEF OrderHead, Greater
  <2>2. ASSUME NEW e \in Device, e # d
        PROVE  OrderHead'[e] = OrderHead[e]
    BY <1>2, <1>4, <1>5, <2>2 DEF OrderHead, LastWrite
  <2>3. /\ OrderHead' = [e \in Device |-> OrderHead'[e]] /\ OrderHead = [e \in Device |-> OrderHead[e]]
        /\ OrderHead'[d] = [n \in Note |-> OrderHead'[d][n]] /\ h = [n \in Note |-> h[n]]
    BY <1>9 DEF OrderHead
  <2>4. OrderHead'[d] = h
    BY <2>1, <2>3
  <2> QED  BY <2>2, <2>3, <2>4
<1>16. s \in 1 .. Len(OrderLog)
  <2>1. DOMAIN OrderLog = 1 .. Len(log)
    BY <1>3 DEF OrderLog
  <2>2. Len(OrderLog) = Len(log)
    BY <1>3, <2>1 DEF OrderLog
  <2> QED  BY <1>3, <2>2
<1>17. doc' = [doc EXCEPT ![d] = [n \in Note |-> Order!BodyAt(h[n])]]
  BY <1>5, <1>14
<1>18. \E g \in [Note -> 0 .. s] :
         /\ OrderHead' = [OrderHead EXCEPT ![d] = g]
         /\ doc' = [doc EXCEPT ![d] = [n \in Note |-> Order!BodyAt(g[n])]]
         /\ \A n \in Note : /\ g[n] # 0 => OrderLog[g[n]].note = n
                            /\ \A t \in 1 .. s : OrderLog[t].note = n => t =< g[n]
  BY <1>10, <1>13, <1>15, <1>17
<1> QED  BY <1>1, <1>3, <1>5, <1>6, <1>7, <1>8, <1>16, <1>18 DEF Order!Rebuild

\* A row as it is seen once the service has grown the log.
LEMMA RowGrown ==
  ASSUME AcceptedOnce', NEW d, NEW row
  PROVE  /\ \A s \in DOMAIN log' :
              log'[s].dev = d /\ log'[s].id = row.id =>
                OrderRow(d, row)' = [note |-> row.op.target, body |-> row.op.body, seq |-> s]
         /\ (\A s \in DOMAIN log' : ~(log'[s].dev = d /\ log'[s].id = row.id)) =>
              OrderRow(d, row)' = [note |-> row.op.target, body |-> row.op.body, seq |-> 0]
<1>1. ASSUME NEW s \in DOMAIN log', log'[s].dev = d, log'[s].id = row.id
      PROVE  OrderRow(d, row)' = [note |-> row.op.target, body |-> row.op.body, seq |-> s]
  <2>1. Known(d, row)'
    BY <1>1 DEF Known
  <2>2. PICK t : t = SequenceOf(d, row)'
    OBVIOUS
  <2>3. t \in DOMAIN log' /\ log'[t].dev = d /\ log'[t].id = row.id
    BY <1>1, <2>2 DEF SequenceOf
  <2>4. t = s
    BY <1>1, <2>3 DEF AcceptedOnce
  <2> QED  BY <2>1, <2>2, <2>4 DEF OrderRow
<1>2. ASSUME \A s \in DOMAIN log' : ~(log'[s].dev = d /\ log'[s].id = row.id)
      PROVE  OrderRow(d, row)' = [note |-> row.op.target, body |-> row.op.body, seq |-> 0]
  <2>1. ~Known(d, row)'
    BY <1>2 DEF Known
  <2> QED  BY <2>1 DEF OrderRow
<1> QED  BY <1>1, <1>2

\* A row nothing new was recorded of is seen as before.
LEMMA RowUngrown ==
  ASSUME AcceptedOnce, AcceptedOnce', LogKept, NEW d, NEW row,
         \A s \in DOMAIN log' : log'[s].dev = d /\ log'[s].id = row.id => s \in DOMAIN log
  PROVE  OrderRow(d, row)' = OrderRow(d, row)
<1>1. CASE Known(d, row)
  <2>1. PICK s \in DOMAIN log : s = SequenceOf(d, row) /\ Holds(d, s, row)
    BY <1>1, OneSequence
  <2>2. s \in DOMAIN log' /\ log'[s].dev = d /\ log'[s].id = row.id
    BY <2>1 DEF LogKept, Holds
  <2>3. OrderRow(d, row)' = [note |-> row.op.target, body |-> row.op.body, seq |-> s]
    BY <2>2, RowGrown
  <2> QED  BY <1>1, <2>1, <2>3 DEF OrderRow
<1>2. CASE ~Known(d, row)
  <2>1. \A s \in DOMAIN log' : ~(log'[s].dev = d /\ log'[s].id = row.id)
    BY <1>2 DEF LogKept, Known
  <2>2. OrderRow(d, row)' = [note |-> row.op.target, body |-> row.op.body, seq |-> 0]
    BY <2>1, RowGrown
  <2> QED  BY <1>2, <2>2 DEF OrderRow
<1> QED  BY <1>1, <1>2

\* A queue is seen row by row.
LEMMA RowsBecome ==
  ASSUME NEW e \in Device, NEW rows, outbox'[e] = rows, NEW now, now = [i \in DOMAIN rows |-> now[i]],
         \A i \in DOMAIN rows : \A row : row = rows[i] => OrderRow(e, row)' = now[i]
  PROVE  OrderQueue'[e] = now
<1>1. OrderQueue'[e] = [i \in DOMAIN rows |-> OrderRow(e, rows[i])]'
  BY DEF OrderQueue
<1>2. ASSUME NEW i \in DOMAIN rows
      PROVE  OrderRow(e, rows[i])' = now[i]
  <2>1. PICK row : row = rows[i]
    OBVIOUS
  <2>2. OrderRow(e, row)' = now[i]
    BY <2>1
  <2> QED  BY <2>1, <2>2
<1> QED  BY <1>1, <1>2

\* What the service accepts of a queue, the order sequences.
LEMMA OrderSequence ==
  ASSUME Asset = {}, Plain, Plain', AcceptedOnce, AcceptedOnce', Followed, NEW d \in Device,
         DistinctIds(outbox[d]), OnLog, NEW k \in Nat, NEW m \in Nat, KnownTo(d, k), GrewBy(d, k, m),
         UNCHANGED <<outbox, canonical>>
  PROVE  [Order!Next]_Order!vars
<1> DEFINE a == Len(log)
           rows == outbox[d]
           q == OrderQueue[d]
           now == [i \in 1 .. Len(q) |-> IF k < i /\ i =< k + m THEN Order!Numbered(q[i], a + (i - k)) ELSE q[i]]
<1>1. /\ a \in Nat /\ DOMAIN log = 1 .. a /\ DOMAIN log' = 1 .. a + m /\ LogKept
      /\ k + m =< Len(rows) /\ \A i \in k + 1 .. k + m : log'[a + i - k] = EntryOf(d, rows[i])
  BY DEF Plain, Services, GrewBy, LogKept
<1>2. /\ Len(rows) \in Nat /\ DOMAIN rows = 1 .. Len(rows) /\ Len(q) = Len(rows) /\ DOMAIN q = 1 .. Len(rows)
      /\ \A i \in DOMAIN rows : q[i] = OrderRow(d, rows[i])
  BY QueueMapped
<1>3. UNCHANGED <<doc, cursor, OrderAhead, OrderHead>>
  <2>1. UNCHANGED <<doc, cursor, received, heads, through>>
    BY DEF canonical
  <2>2. ASSUME NEW e \in Device, NEW n \in Note
        PROVE  Latest(e, n)' = Latest(e, n)
    BY <1>1, <2>1, LatestKept DEF OnLog
  <2>3. OrderHead' = OrderHead
    BY <2>2 DEF OrderHead, Latest
  <2> QED  BY <2>1, <2>3 DEF OrderAhead
<1>4. CASE m = 0
  <2>1. log' = log
    <3>1. log \in Seq(Entry) /\ log' \in Seq(Entry)
      BY DEF Plain, Services
    <3>2. DOMAIN log' = DOMAIN log /\ \A s \in DOMAIN log : log'[s] = log[s]
      BY <1>1, <1>4 DEF LogKept
    <3> QED  BY <3>1, <3>2
  <2> QED  BY <2>1, UnseenByFrame
<1>5. CASE m > 0
  <2>1. OrderQueue'[d] = now
    <3> SUFFICES ASSUME NEW i \in DOMAIN rows, NEW row, row = rows[i]
                 PROVE  OrderRow(d, row)' = now[i]
      <4> HIDE DEF q, a
      <4>1. now = [i \in DOMAIN rows |-> now[i]]
        BY <1>2
      <4> HIDE DEF now
      <4>2. \A i \in DOMAIN rows : \A row : row = rows[i] => OrderRow(d, row)' = now[i]
        OBVIOUS
      <4>3. PICK all : all = rows
        OBVIOUS
      <4> QED  BY <4>1, <4>2, <4>3, RowsBecome
    <3>1. i \in 1 .. Len(q) /\ q[i] = OrderRow(d, row)
      BY <1>2
    <3>2. CASE k < i /\ i =< k + m
      <4> DEFINE s == a + (i - k)
      <4>1. s \in DOMAIN log' /\ i \in k + 1 .. k + m /\ s = a + i - k
        BY <1>1, <1>2, <3>2
      <4>2. log'[s].dev = d /\ log'[s].id = row.id
        <5> HIDE DEF s, a, rows
        <5>1. log'[s] = EntryOf(d, rows[i])
          BY <1>1, <4>1
        <5> QED  BY <5>1 DEF EntryOf, rows
      <4>3. now[i] = Order!Numbered(q[i], s)
        BY <3>1, <3>2
      <4> HIDE DEF s, now
      <4>4. OrderRow(d, row)' = [note |-> row.op.target, body |-> row.op.body, seq |-> s]
        BY <4>1, <4>2, RowGrown
      <4> QED  BY <3>1, <4>3, <4>4 DEF OrderRow, Order!Numbered
    <3>3. CASE ~(k < i /\ i =< k + m)
      <4>1. now[i] = q[i]
        BY <3>1, <3>3
      <4> HIDE DEF now
      <4>2. \A s \in DOMAIN log' : log'[s].dev = d /\ log'[s].id = row.id => s \in DOMAIN log
        BY <3>3, GrownHolds
      <4>3. OrderRow(d, row)' = OrderRow(d, row)
        BY <1>1, <4>2, RowUngrown
      <4> QED  BY <3>1, <4>1, <4>3
    <3> QED  BY <3>2, <3>3
  <2>2. ASSUME NEW e \in Device, e # d
        PROVE  OrderQueue'[e] = OrderQueue[e]
    <3>1. ASSUME NEW s \in DOMAIN log', s \notin DOMAIN log
          PROVE  log'[s].dev = d
      <4> DEFINE i == s - a + k
      <4> HIDE DEF a, rows
      <4>1. i \in k + 1 .. k + m /\ a + i - k = s
        BY <1>1, <3>1
      <4> HIDE DEF i
      <4>2. log'[s] = EntryOf(d, rows[i])
        BY <1>1, <4>1
      <4> QED  BY <4>2 DEF EntryOf
    <3>2. ASSUME NEW row
          PROVE  OrderRow(e, row)' = OrderRow(e, row)
      BY <1>1, <2>2, <3>1, RowUngrown
    <3>3. PICK all : all = outbox[e]
      OBVIOUS
    <3>4. PICK seen : seen = OrderQueue[e]
      OBVIOUS
    <3>5. seen = [i \in DOMAIN all |-> seen[i]] /\ \A i \in DOMAIN all : seen[i] = OrderRow(e, all[i])
      BY <3>3, <3>4 DEF OrderQueue
    <3>6. \A i \in DOMAIN all : \A row : row = all[i] => OrderRow(e, row)' = seen[i]
      BY <3>2, <3>5
    <3> QED  BY <3>3, <3>4, <3>5, <3>6, RowsBecome
  <2>3. OrderQueue' = [OrderQueue EXCEPT ![d] = now]
    <3>1. OrderQueue' = [e \in Device |-> OrderQueue'[e]] /\ OrderQueue = [e \in Device |-> OrderQueue[e]]
      BY DEF OrderQueue
    <3> HIDE DEF now
    <3> QED  BY <2>1, <2>2, <3>1
  <2>4. Len(OrderLog) = a /\ DOMAIN OrderLog = 1 .. a
    <3>1. DOMAIN OrderLog = 1 .. a
      BY <1>1 DEF OrderLog
    <3> QED  BY <1>1, <3>1 DEF OrderLog
  <2>5. OrderLog' = [s \in 1 .. a + (k + m - k) |->
                       IF s =< a THEN OrderLog[s] ELSE Order!EntryOf(d, q[k + (s - a)])]
    <3>1. a + (k + m - k) = a + m
      BY <1>1
    <3>2. OrderLog' = [s \in 1 .. a + m |-> [dev |-> log'[s].dev, note |-> log'[s].op.target,
                                             body |-> log'[s].op.body]]
      BY <1>1 DEF OrderLog
    <3>3. ASSUME NEW s \in 1 .. a + m
          PROVE  [dev |-> log'[s].dev, note |-> log'[s].op.target, body |-> log'[s].op.body] =
                   IF s =< a THEN OrderLog[s] ELSE Order!EntryOf(d, q[k + (s - a)])
      <4>1. CASE s =< a
        <5>1. s \in DOMAIN log /\ log'[s] = log[s]
          BY <1>1, <4>1 DEF LogKept
        <5> QED  BY <4>1, <5>1 DEF OrderLog
      <4>2. CASE ~(s =< a)
        <5> DEFINE i == k + (s - a)
        <5>1. i \in k + 1 .. k + m /\ a + i - k = s /\ i \in 1 .. Len(rows)
          BY <1>1, <1>2, <4>2
        <5>2. log'[s] = EntryOf(d, rows[i]) /\ q[i] = OrderRow(d, rows[i])
          BY <1>1, <1>2, <5>1
        <5> HIDE DEF i
        <5> QED  BY <4>2, <5>2 DEF EntryOf, Order!EntryOf, OrderRow, i
      <4> QED  BY <4>1, <4>2
    <3> QED  BY <3>1, <3>2, <3>3
  <2>6. /\ \A i \in 1 .. k : q[i].seq # 0
        /\ \A i \in k + 1 .. k + m : q[i].seq = 0
    <3>1. ASSUME NEW i \in 1 .. k + m
          PROVE  q[i].seq = 0 <=> ~(i =< k)
      <4>1. i \in DOMAIN rows
        BY <1>1, <1>2
      <4>2. Known(d, rows[i]) <=> i =< k
        BY <4>1 DEF KnownTo
      <4> QED  BY <1>2, <4>1, <4>2, RowSequence
    <3> QED  BY <3>1
  <2>7. k < k + m /\ k \in 0 .. Len(q) /\ k + m \in 1 .. Len(q)
    BY <1>1, <1>2, <1>5
  <2>8. Order!Sequence(d, k, k + m)
    <3> HIDE DEF q, a
    <3> QED  BY <1>3, <2>3, <2>4, <2>5, <2>6, <2>7 DEF Order!Sequence, q
  <2> QED  BY <2>7, <2>8 DEF Order!Next
<1> QED  BY <1>4, <1>5

\* Everything the refinement rests on.
Ordered == Placed /\ Followed /\ Aligned /\ OnLog /\ Behind

\* A batch that is accepted.
LEMMA OrderPush ==
  ASSUME Asset = {}, Plain, Plain', Placed', Ordered, NEW d \in Device, Push(d)
  PROVE  [Order!Next]_Order!vars
<1>1. PICK known \in 0 .. claimed[d] : Admits(d, Batch(d), known) /\ Accept(d, Batch(d), known)
  BY DEF Push
<1>2. /\ Batch(d) \in Seq(Row) /\ Len(Batch(d)) = claimed[d] /\ claimed[d] \in Nat
      /\ \A x \in 1 .. claimed[d] : x \in DOMAIN outbox[d] /\ Batch(d)[x] = outbox[d][x]
  BY BatchRows
<1>3. \A x \in known + 1 .. Len(Batch(d)) : x \in 1 .. claimed[d]
  BY <1>2
<1>4. \A x \in known + 1 .. Len(Batch(d)) : Queued(d, Batch(d)[x])
  BY <1>2, <1>3 DEF Queued
<1>5. PICK k \in Nat : KnownTo(d, k) /\ Numbered(d)
  BY DEF Ordered, Aligned, QueueSound
<1>6. PICK m : m = Len(Batch(d)) - known
  OBVIOUS
<1>7. GrewBy(d, k, m)
  BY <1>1, <1>2, <1>4, <1>5, <1>6, AcceptedInOrder
<1>8. UNCHANGED <<outbox, canonical>> /\ DistinctIds(outbox[d])
  BY DEF Push, durable, canonical, Ordered, Placed, Distinct
<1>9. m \in Nat
  BY <1>7 DEF GrewBy
<1> QED  BY <1>5, <1>7, <1>8, <1>9, OrderSequence DEF Ordered, Placed

\* A late request that is accepted, or not.
LEMMA OrderStray ==
  ASSUME Asset = {}, Plain, Plain', Placed', Ordered, NEW r \in stray, StrayArrives(r)
  PROVE  [Order!Next]_Order!vars
<1>1. r.dev \in Device /\ r.rows \in Seq(Row) /\ UNCHANGED <<outbox, canonical>>
  BY DEF Plain, Services, StrayArrives, durable, canonical
<1>2. CASE UNCHANGED log
  BY <1>1, <1>2, UnseenByFrame
<1>3. ASSUME NEW known \in 0 .. Len(r.rows), Admits(r.dev, r.rows, known),
             Accept(r.dev, r.rows, known)
      PROVE  [Order!Next]_Order!vars
  <2>1. PICK d \in Device : d = r.dev
    BY <1>1
  <2>2. PICK rows \in Seq(Row) : rows = r.rows
    BY <1>1
  <2>3. ASSUME NEW x \in known + 1 .. Len(rows)
        PROVE  Queued(d, rows[x])
    <3>1. x \in DOMAIN rows
      <4>1. known \in Nat /\ Len(rows) \in Nat /\ DOMAIN rows = 1 .. Len(rows)
        BY <2>2
      <4> QED  BY <4>1
    <3>2. ~Known(d, rows[x]) /\ rows[x].op.body \notin Refused
      BY <1>3, <2>1, <2>2 DEF Admits
    <3> QED  BY <2>1, <2>2, <3>1, <3>2 DEF Ordered, Aligned, StraysSound, Carried
  <2>4. PICK k \in Nat : KnownTo(d, k) /\ Numbered(d)
    BY DEF Ordered, Aligned, QueueSound
  <2>5. PICK m : m = Len(rows) - known
    OBVIOUS
  <2>6. GrewBy(d, k, m)
    BY <1>3, <2>1, <2>2, <2>3, <2>4, <2>5, AcceptedInOrder
  <2>7. m \in Nat /\ DistinctIds(outbox[d])
    BY <2>6 DEF GrewBy, Ordered, Placed, Distinct
  <2> QED  BY <1>1, <2>4, <2>6, <2>7, OrderSequence DEF Ordered, Placed
<1> QED  BY <1>2, <1>3 DEF StrayArrives

\* What a user does.
LEMMA OrderUser ==
  ASSUME Asset = {}, Oversized = {}, Plain, Ordered, NEW d \in Device, User(d)
  PROVE  [Order!Next]_Order!vars
<1>1. blocked[d] = {}
  BY NoneParked DEF Ordered, OnLog
<1>2. PICK n \in Note, b \in Body : SaveDocument(d, n, b) \/ SaveIntoTail(d, n, b)
  BY <1>1 DEF User, SaveOversized
<1>3. CASE SaveDocument(d, n, b)
  BY <1>3, OrderSave DEF Ordered, Order!Next
<1>4. CASE SaveIntoTail(d, n, b)
  BY <1>4, OrderCoalesce DEF Ordered, Order!Next
<1> QED  BY <1>2, <1>3, <1>4

\* What a worker does.
LEMMA OrderWorker ==
  ASSUME Asset = {}, Refused = {}, Plain, Plain', Placed', Ordered, NEW d \in Device, Cycle(d) \/ Trouble(d)
  PROVE  [Order!Next]_Order!vars
<1>0. /\ OnlyImages /\ OnLogAt(d) /\ QueueSound(d) /\ BehindAt(d) /\ AcceptedOnce /\ ClaimHolds /\ Followed
      /\ Missing(d) = {}
  BY NoneMissing DEF Ordered, OnLog, OnLogAt, Aligned, Behind, Placed
<1>1. CASE Push(d)
  BY <1>1, OrderPush
<1>2. CASE Acknowledge(d)
  BY <1>0, <1>2, OrderAcknowledge DEF Order!Next
<1>3. CASE PullDuplicate(d) \/ PullEcho(d) \/ PullRemote(d)
  BY <1>0, <1>3, OrderDuplicate, OrderEcho, OrderRemote DEF Order!Next
<1>4. CASE Rebuild(d)
  <2>1. Faithful(archive[d])
    BY <1>4 DEF Rebuild, Ordered, OnLog
  <2> QED  BY <1>0, <1>4, <2>1, OrderRebuild DEF Order!Next
<1>5. CASE BeginPush(d) \/ \E k \in 1 .. Len(outbox[d]) : Claim(d, k)
  BY <1>0, <1>5, UnseenRequeue, UnseenClaim
<1>6. ~ParkMissing(d) /\ ~ReleaseMissing(d) /\ ~PushRefused(d) /\ ~\E a \in Asset : LoseAsset(d, a)
  <2>1. ~PushRefused(d)
    BY RefusedAlone DEF PushRefused, Ordered
  <2> QED  BY <1>0, <2>1 DEF ParkMissing, ReleaseMissing
<1>7. CASE \/ StartRebuild(d) \/ FetchCheckpoint(d) \/ RefuseRebuild(d) \/ EndPush(d) \/ PullTruncated(d)
           \/ PullDrained(d) \/ ExportArchive(d) \/ SkipPublication(d) \/ PublishCheckpoint(d)
           \/ EndCycle(d) \/ StorageFailure(d) \/ Crash(d)
           \/ \E step \in {"pull", "idle"} : PushFails(d, step) \/ PushTimesOut(d, step)
  <2>1. UNCHANGED <<log, canonical, outbox>>
    BY <1>7
    DEF StartRebuild, FetchCheckpoint, RefuseRebuild, EndPush, PullTruncated, PullDrained, ExportArchive,
        SkipPublication, PublishCheckpoint, EndCycle, StorageFailure, Crash, PushFails, PushTimesOut,
        Release, durable, service, canonical
  <2> QED  BY <2>1, UnseenByFrame
<1> QED  BY <1>1, <1>2, <1>3, <1>4, <1>5, <1>6, <1>7 DEF Cycle, Trouble

\* The order starts as the devices do.
LEMMA OrderStarts ==
  ASSUME Init
  PROVE  Order!Init
<1>1. OrderLog = << >>
  BY DEF Init, OrderLog
<1>2. OrderQueue = [d \in Device |-> << >>]
  BY DEF Init, OrderQueue
<1>3. OrderAhead = [d \in Device |-> {}]
  BY DEF Init, OrderAhead
<1>4. OrderHead = [d \in Device |-> [n \in Note |-> 0]]
  <2>1. ASSUME NEW d \in Device, NEW n \in Note
        PROVE  OrderHead[d][n] = 0
    <3>1. LastWrite(n, 0) \in 0 .. 0
      BY LastOf
    <3>2. LastWrite(n, through[d]) = 0 /\ heads[d][n] = 0
      BY <3>1 DEF Init
    <3> QED  BY <3>2 DEF OrderHead, Greater
  <2> QED  BY <2>1 DEF OrderHead
<1> QED  BY <1>1, <1>2, <1>3, <1>4 DEF Init, Order!Init

\* While there are no images and nothing is refused or oversized, the queues,
\* the workers, the checkpoints and the service together do nothing but what
\* DocumentOrder allows: every step is one of its steps, or is not seen
\* (sync.rs, cycle.rs, checkpoint.rs, workspace-sync-object.ts).
THEOREM ReplicaImplementsOrder ==
  ASSUME Asset = {}, Refused = {}, Oversized = {}
  PROVE  Spec => ImplementsOrder
<1>1. Plain /\ Plain' /\ Placed' /\ Ordered /\ [Next]_vars => [Order!Next]_Order!vars
  <2> SUFFICES ASSUME Plain, Plain', Placed', Ordered, [Next]_vars
               PROVE  [Order!Next]_Order!vars
    OBVIOUS
  <2>1. CASE UNCHANGED vars
    BY <2>1, UnseenByFrame DEF vars, durable, canonical, service
  <2>2. ASSUME NEW f \in 1 .. ckpt.seq, Compact(f)
        PROVE  [Order!Next]_Order!vars
    <3>1. UNCHANGED <<log, canonical, outbox>>
      BY <2>2 DEF Compact, durable, canonical
    <3> QED  BY <3>1, UnseenByFrame
  <2> QED  BY <2>1, <2>2, OrderUser, OrderWorker, OrderStray DEF Next
<1>2. Spec => []Ordered
  BY PlacedHolds, FollowedHolds, AlignedHolds, OnLogHolds, BehindHolds, PTL DEF Ordered
<1> QED  BY <1>1, <1>2, OrderStarts, PlainHolds, PlacedHolds, PTL DEF Spec, ImplementsOrder, Order!Spec
=============================================================================
