------------------------ MODULE DocumentOrder_proofs ------------------------
(***************************************************************************)
(* DocumentOrder is correct for any devices, notes and bodies.             *)
(***************************************************************************)
EXTENDS DocumentOrder, SequenceTheorems, TLAPS

(***************************************************************************)
(* Type correctness                                                        *)
(***************************************************************************)

\* The domain of a sequence tells its length.
LEMMA LengthFromDomain ==
  ASSUME NEW S, NEW q \in Seq(S), NEW n \in Nat, DOMAIN q = 1 .. n
  PROVE  Len(q) = n
<1>1. Len(q) \in Nat /\ 1 .. Len(q) = 1 .. n
  BY LenProperties
<1>2. CASE Len(q) < n
  BY <1>1, <1>2
<1>3. CASE n < Len(q)
  BY <1>1, <1>3
<1> QED BY <1>1, <1>2, <1>3

\* What a queue becomes when the service numbers some of its rows is a queue.
LEMMA NumberedQueueType ==
  ASSUME NEW q \in Seq(Row), NEW first \in Nat, NEW last \in Nat, NEW base \in Nat
  PROVE  [i \in 1 .. Len(q) |->
            IF first < i /\ i <= last
            THEN Numbered(q[i], base + (i - first)) ELSE q[i]] \in Seq(Row)
<1> DEFINE F(i) == IF first < i /\ i <= last
                   THEN Numbered(q[i], base + (i - first)) ELSE q[i]
<1>1. ASSUME NEW i \in 1 .. Len(q) PROVE F(i) \in Row
  <2>1. q[i] \in Row
    BY ElementOfSeq
  <2>2. CASE first < i /\ i <= last
    BY <2>1, <2>2 DEF Row, Numbered
  <2>3. CASE ~(first < i /\ i <= last)
    BY <2>1, <2>3
  <2> QED BY <2>2, <2>3
<1>2. Len(q) \in Nat
  BY LenProperties
<1> HIDE DEF F
<1>3. [i \in 1 .. Len(q) |-> F(i)] \in Seq(Row)
  BY <1>1, <1>2, SeqDef
<1> QED BY <1>3 DEF F

\* What the log becomes when the service appends some rows is a log.
LEMMA ExtendedLogType ==
  ASSUME NEW q \in Seq(Row), NEW l \in Seq(Entry), NEW d \in Device,
         NEW first \in Nat, NEW last \in 1 .. Len(q), first < last
  PROVE  [s \in 1 .. Len(l) + (last - first) |->
            IF s <= Len(l) THEN l[s]
            ELSE LET row == q[first + (s - Len(l))]
                 IN  EntryOf(d, row)] \in Seq(Entry)
<1> DEFINE F(s) == IF s <= Len(l) THEN l[s]
                   ELSE LET row == q[first + (s - Len(l))]
                        IN  EntryOf(d, row)
<1>1. /\ Len(q) \in Nat
      /\ Len(l) \in Nat
      /\ Len(l) + (last - first) \in Nat
  BY LenProperties
<1>2. ASSUME NEW s \in 1 .. Len(l) + (last - first) PROVE F(s) \in Entry
  <2>1. CASE s <= Len(l)
    <3>1. s \in 1 .. Len(l)
      BY <1>1, <2>1
    <3> QED BY <2>1, <3>1, ElementOfSeq
  <2>2. CASE ~(s <= Len(l))
    <3>1. first + (s - Len(l)) \in 1 .. Len(q)
      BY <1>1, <2>2
    <3>2. q[first + (s - Len(l))] \in Row
      BY <3>1, ElementOfSeq
    <3> QED BY <2>2, <3>2 DEF Row, Entry, EntryOf
  <2> QED BY <2>1, <2>2
<1> HIDE DEF F
<1>3. [s \in 1 .. Len(l) + (last - first) |-> F(s)] \in Seq(Entry)
  BY <1>1, <1>2, SeqDef
<1> QED BY <1>3 DEF F

LEMMA InitTypeOK == Init => TypeOK
  BY DEF Init, TypeOK, Bodies, Row, Entry

\* Every action keeps the variables in their types.
LEMMA NextTypeOK == TypeOK /\ [Next]_vars => TypeOK'
<1> SUFFICES ASSUME TypeOK, [Next]_vars PROVE TypeOK'
  OBVIOUS
<1> USE DEF TypeOK
<1>1. ASSUME NEW d \in Device, NEW n \in Note, NEW b \in Body, Save(d, n, b)
      PROVE  TypeOK'
  <2>1. NewRow(n, b) \in Row
    BY DEF NewRow, Row, Bodies
  <2>2. Append(queue[d], NewRow(n, b)) \in Seq(Row)
    BY <2>1, AppendProperties
  <2>3. queue' \in [Device -> Seq(Row)]
    BY <1>1, <2>2 DEF Save
  <2>4. doc' \in [Device -> [Note -> Bodies]]
    BY <1>1 DEF Save, Bodies
  <2> QED BY <1>1, <2>3, <2>4 DEF Save
<1>2. ASSUME NEW d \in Device, NEW n \in Note, NEW b \in Body, Coalesce(d, n, b)
      PROVE  TypeOK'
  <2>1. doc' \in [Device -> [Note -> Bodies]]
    BY <1>2 DEF Coalesce, Bodies
  <2>2. [queue[d] EXCEPT ![Len(queue[d])] = NewRow(n, b)] \in Seq(Row)
    <3>1. Len(queue[d]) \in 1 .. Len(queue[d])
      BY <1>2, EmptySeq, LenProperties DEF Coalesce
    <3>2. NewRow(n, b) \in Row
      BY DEF NewRow, Row, Bodies
    <3> QED BY <3>1, <3>2, ExceptSeq
  <2>3. queue' \in [Device -> Seq(Row)]
    BY <1>2, <2>2 DEF Coalesce
  <2> QED BY <1>2, <2>1, <2>3 DEF Coalesce
<1>3. ASSUME NEW d \in Device, NEW first \in 0 .. Len(queue[d]),
             NEW last \in 1 .. Len(queue[d]), Sequence(d, first, last)
      PROVE  TypeOK'
  <2>1. /\ queue[d] \in Seq(Row)
        /\ Len(log) \in Nat
        /\ Len(queue[d]) \in Nat
    BY LenProperties
  <2>2. log' \in Seq(Entry)
    <3>1. first \in Nat /\ first < last
      BY <1>3, <2>1 DEF Sequence
    <3>2. [s \in 1 .. Len(log) + (last - first) |->
             IF s <= Len(log) THEN log[s]
             ELSE LET row == queue[d][first + (s - Len(log))]
                  IN  EntryOf(d, row)] \in Seq(Entry)
      <4> DEFINE q == queue[d]
                 l == log
      <4>1. q \in Seq(Row) /\ l \in Seq(Entry) /\ last \in 1 .. Len(q)
        BY <2>1
      <4>2. [s \in 1 .. Len(l) + (last - first) |->
               IF s <= Len(l) THEN l[s]
               ELSE LET row == q[first + (s - Len(l))]
                    IN  EntryOf(d, row)] \in Seq(Entry)
        <5> HIDE DEF q, l, TypeOK
        <5> QED BY <3>1, <4>1, ExtendedLogType, Zenon
      <4> QED BY <4>2
    <3> QED BY <1>3, <3>2 DEF Sequence
  <2>3. [i \in 1 .. Len(queue[d]) |->
           IF first < i /\ i <= last
           THEN Numbered(queue[d][i], Len(log) + (i - first))
           ELSE queue[d][i]] \in Seq(Row)
    <3> DEFINE q == queue[d]
               base == Len(log)
    <3>1. q \in Seq(Row) /\ first \in Nat /\ last \in Nat /\ base \in Nat
      BY <2>1
    <3>2. [i \in 1 .. Len(q) |->
             IF first < i /\ i <= last
             THEN Numbered(q[i], base + (i - first)) ELSE q[i]] \in Seq(Row)
      <4> HIDE DEF q, base, TypeOK
      <4> QED BY <3>1, NumberedQueueType, Zenon
    <3> QED BY <3>2
  <2>4. queue' \in [Device -> Seq(Row)]
    BY <1>3, <2>3 DEF Sequence
  <2> QED BY <1>3, <2>2, <2>4 DEF Sequence
<1>4. ASSUME NEW d \in Device, NEW k \in 1 .. Len(queue[d]), Acknowledge(d, k)
      PROVE  TypeOK'
  <2>1. /\ queue[d] \in Seq(Row)
        /\ Len(queue[d]) \in Nat
        /\ Len(log) \in Nat
    BY LenProperties
  <2>2. SubSeq(queue[d], k + 1, Len(queue[d])) \in Seq(Row)
    BY <2>1, SubSeqProperties
  <2>3. queue' \in [Device -> Seq(Row)]
    BY <1>4, <2>2 DEF Acknowledge
  <2>4. cursor' \in [Device -> Nat]
    BY <1>4 DEF Acknowledge
  <2>5. \A i \in 1 .. k : queue[d][i].seq \in Nat
    <3>1. ASSUME NEW i \in 1 .. k PROVE queue[d][i] \in Row
      <4>1. i \in 1 .. Len(queue[d])
        BY <2>1
      <4> QED BY <2>1, <4>1, ElementOfSeq
    <3> QED BY <3>1 DEF Row
  <2>6. ahead' \in [Device -> SUBSET Nat]
    BY <1>4, <2>5 DEF Acknowledge
  <2>7. head' \in [Device -> [Note -> Nat]]
    BY <1>4, <2>1 DEF Acknowledge
  <2> QED BY <1>4, <2>3, <2>4, <2>6, <2>7 DEF Acknowledge
<1>5. ASSUME NEW d \in Device, PullDuplicate(d) PROVE TypeOK'
  BY <1>5 DEF PullDuplicate
<1>6. ASSUME NEW d \in Device, PullEcho(d) PROVE TypeOK'
  <2>1. /\ queue[d] \in Seq(Row)
        /\ Tail(queue[d]) \in Seq(Row)
        /\ queue[d][1] \in Row
    BY <1>6, EmptySeq, HeadTailProperties, ElementOfSeq, LenProperties DEF PullEcho
  <2>2. queue[d][1].note \in Note
    BY <2>1 DEF Row
  <2> QED BY <1>6, <2>1, <2>2 DEF PullEcho, HeadAfter
<1>7. ASSUME NEW d \in Device, PullRemote(d) PROVE TypeOK'
  <2>1. log[cursor[d] + 1] \in Entry
    BY <1>7, ElementOfSeq, LenProperties DEF PullRemote
  <2> DEFINE n == log[cursor[d] + 1].note
  <2>2. n \in Note /\ log[cursor[d] + 1].body \in Bodies
    BY <2>1 DEF Entry
  <2>3. doc' \in [Device -> [Note -> Bodies]]
    <3>1. CASE Pending(d, n) \/ cursor[d] + 1 <= head[d][n]
      BY <1>7, <3>1 DEF PullRemote
    <3>2. CASE ~(Pending(d, n) \/ cursor[d] + 1 <= head[d][n])
      BY <1>7, <2>2, <3>2 DEF PullRemote
    <3> QED BY <3>1, <3>2
  <2>4. HeadAfter(d, n, cursor[d] + 1) \in Nat
    BY <2>2 DEF HeadAfter
  <2>5. head' \in [Device -> [Note -> Nat]]
    BY <1>7, <2>2, <2>4 DEF PullRemote
  <2> QED BY <1>7, <2>3, <2>5 DEF PullRemote
<1>8. ASSUME NEW d \in Device, NEW s \in 1 .. Len(log), Rebuild(d, s)
      PROVE  TypeOK'
  <2>1. Len(log) \in Nat
    BY LenProperties
  <2>2. ASSUME NEW h \in [Note -> 0 .. s], NEW n \in Note PROVE BodyAt(h[n]) \in Bodies
    <3>1. CASE h[n] = 0
      BY <3>1 DEF BodyAt, Bodies
    <3>2. CASE h[n] /= 0
      <4>1. log[h[n]] \in Entry
        BY <2>1, <3>2, ElementOfSeq
      <4> QED BY <3>2, <4>1 DEF BodyAt, Entry
    <3> QED BY <3>1, <3>2
  <2>3. PICK h \in [Note -> 0 .. s] :
          /\ head' = [head EXCEPT ![d] = h]
          /\ doc' = [doc EXCEPT ![d] = [n \in Note |-> BodyAt(h[n])]]
    BY <1>8 DEF Rebuild
  <2>4. doc' \in [Device -> [Note -> Bodies]]
    BY <2>2, <2>3
  <2>5. head' \in [Device -> [Note -> Nat]]
    BY <2>1, <2>3
  <2> QED BY <1>8, <2>1, <2>4, <2>5 DEF Rebuild
<1>9. CASE UNCHANGED vars
  BY <1>9 DEF vars
<1> QED
  BY <1>1, <1>2, <1>3, <1>4, <1>5, <1>6, <1>7, <1>8, <1>9 DEF Next

\* The variables keep their types in every behaviour.
THEOREM TypeCorrect == Spec => []TypeOK
  BY InitTypeOK, NextTypeOK, PTL DEF Spec

(***************************************************************************)
(* Safety.  The four facts about one device are inductive together: the    *)
(* rows of a queue that have a sequence lie above everything incorporated, *)
(* so an acknowledgement or an echo always raises the head to the last row *)
(* that leaves, whose body is the canonical one.                           *)
(***************************************************************************)

Safe(d) ==
  /\ CursorFits(d)
  /\ RowsFollowLog(d)
  /\ \A n \in Note : HeadGreatest(d, n)
  /\ \A n \in Note, i \in DOMAIN queue[d] :
       LastRowOf(d, n, i) => doc[d][n] = queue[d][i].body
  /\ \A n \in Note : ~Pending(d, n) => doc[d][n] = BodyAt(head[d][n])

IInv == TypeOK /\ \A d \in Device : Safe(d)

LEMMA InitIInv == Init => IInv
<1> SUFFICES ASSUME Init PROVE IInv
  OBVIOUS
<1>1. TypeOK
  BY InitTypeOK
<1>2. ASSUME NEW d \in Device PROVE Safe(d)
  <2>1. Len(log) = 0 /\ DOMAIN log = {} /\ DOMAIN queue[d] = {}
    BY DEF Init
  <2> QED
    BY <2>1 DEF Init, Safe, CursorFits, RowsFollowLog, HeadGreatest, Received,
                LastRowOf, Pending, BodyAt
<1> QED BY <1>1, <1>2 DEF IInv

\* The domains of the sequences and the types of their elements.
LEMMA Shapes ==
  ASSUME TypeOK, NEW d \in Device
  PROVE  /\ Len(log) \in Nat
         /\ DOMAIN log = 1 .. Len(log)
         /\ Len(queue[d]) \in Nat
         /\ DOMAIN queue[d] = 1 .. Len(queue[d])
         /\ \A s \in 1 .. Len(log) : log[s] \in Entry
         /\ \A i \in 1 .. Len(queue[d]) :
              queue[d][i] \in Row /\ queue[d][i].seq \in Nat /\ queue[d][i].note \in Note
         /\ cursor[d] \in Nat
         /\ ahead[d] \subseteq Nat
         /\ \A n \in Note : head[d][n] \in Nat
<1>1. log \in Seq(Entry) /\ queue[d] \in Seq(Row)
  BY DEF TypeOK
<1>2. ASSUME NEW i \in 1 .. Len(queue[d])
      PROVE  queue[d][i] \in Row /\ queue[d][i].seq \in Nat /\ queue[d][i].note \in Note
  <2>1. queue[d][i] \in Row
    BY <1>1, ElementOfSeq
  <2> QED BY <2>1 DEF Row
<1>3. \A s \in 1 .. Len(log) : log[s] \in Entry
  BY <1>1, ElementOfSeq
<1> QED BY <1>1, <1>2, <1>3, LenProperties DEF TypeOK

\* A device none of whose own state changes stays safe as the log grows.
LEMMA Bystander ==
  ASSUME TypeOK, TypeOK', NEW e \in Device, Safe(e),
         Len(log) <= Len(log'),
         \A s \in 1 .. Len(log) : log'[s] = log[s],
         doc'[e] = doc[e], queue'[e] = queue[e], cursor'[e] = cursor[e],
         ahead'[e] = ahead[e], head'[e] = head[e]
  PROVE  Safe(e)'
<1>1. /\ Len(log) \in Nat
      /\ DOMAIN log = 1 .. Len(log)
      /\ cursor[e] \in Nat
      /\ ahead[e] \subseteq Nat
  BY Shapes
<1>2. Len(log') \in Nat /\ DOMAIN log' = 1 .. Len(log')
  BY LenProperties DEF TypeOK
<1>3. CursorFits(e)'
  BY <1>1, <1>2 DEF Safe, CursorFits
<1>4. RowsFollowLog(e)'
  BY <1>1, <1>2 DEF Safe, RowsFollowLog, EntryOf
<1>5. Received(e)' = Received(e)
  BY <1>1, <1>2 DEF Safe, CursorFits, Received
<1>6. \A s \in Received(e) : s \in 1 .. Len(log)
  BY <1>1 DEF Received
<1>7. ASSUME NEW n \in Note PROVE HeadGreatest(e, n)'
  BY <1>5, <1>6 DEF Safe, HeadGreatest
<1>8. ASSUME NEW n \in Note, ~Pending(e, n)' PROVE doc'[e][n] = BodyAt(head[e][n])'
  <2>1. doc[e][n] = BodyAt(head[e][n])
    BY <1>8 DEF Safe, Pending
  <2>2. head[e][n] = 0 \/ head[e][n] \in 1 .. Len(log)
    BY <1>6 DEF Safe, HeadGreatest
  <2> QED BY <2>1, <2>2 DEF BodyAt
<1>9. \A n \in Note, i \in DOMAIN queue'[e] :
        LastRowOf(e, n, i)' => doc'[e][n] = queue'[e][i].body
  BY DEF Safe, LastRowOf
<1> QED BY <1>3, <1>4, <1>7, <1>8, <1>9 DEF Safe

\* A save puts a row without a sequence at the tail and its body on screen.
LEMMA SaveSafe ==
  ASSUME IInv, TypeOK', NEW d \in Device, NEW n \in Note, NEW b \in Body, Save(d, n, b),
         NEW e \in Device
  PROVE  Safe(e)'
<1>1. Safe(d) /\ Safe(e) /\ TypeOK
  BY DEF IInv
<1>2. CASE e /= d
  <2>1. /\ doc'[e] = doc[e]
        /\ queue'[e] = queue[e]
        /\ UNCHANGED <<log, cursor, ahead, head>>
    BY <1>2, <1>1 DEF Save, TypeOK
  <2>2. Len(log) <= Len(log')
    BY <1>1, <2>1, Shapes
  <2> QED BY <1>1, <2>1, <2>2, Bystander
<1>3. CASE e = d
  <2> DEFINE q == queue[d]
  <2>1. /\ Len(q) \in Nat
        /\ DOMAIN q = 1 .. Len(q)
        /\ q \in Seq(Row)
    BY <1>1, Shapes DEF TypeOK
  <2>2. queue'[d] = Append(q, NewRow(n, b)) /\ UNCHANGED <<log, cursor, ahead, head>>
    BY <1>1 DEF Save, TypeOK
  <2>3. NewRow(n, b) \in Row /\ NewRow(n, b).seq = 0 /\ NewRow(n, b).note = n /\ NewRow(n, b).body = b
    BY DEF NewRow, Row, Bodies
  <2>4. /\ Len(queue'[d]) = Len(q) + 1
        /\ DOMAIN queue'[d] = 1 .. Len(q) + 1
        /\ \A i \in 1 .. Len(q) : queue'[d][i] = q[i]
        /\ queue'[d][Len(q) + 1] = NewRow(n, b)
    BY <2>1, <2>2, <2>3, AppendProperties
  <2>5. doc'[d][n] = b /\ \A m \in Note : m /= n => doc'[d][m] = doc[d][m]
    BY <1>1 DEF Save, TypeOK
  <2>6. CursorFits(d)'
    BY <1>1, <2>2 DEF Safe, CursorFits
  <2>7. RowsFollowLog(d)'
    <3> SUFFICES ASSUME NEW i \in 1 .. Len(q) + 1, queue'[d][i].seq /= 0
                 PROVE  /\ queue'[d][i].seq \in DOMAIN log'
                        /\ log'[queue'[d][i].seq] = EntryOf(d, queue'[d][i])
                        /\ queue'[d][i].seq > cursor'[d]
                        /\ \A s \in ahead'[d] : s < queue'[d][i].seq
                        /\ \A j \in 1 .. i - 1 : /\ queue'[d][j].seq /= 0
                                                /\ queue'[d][j].seq < queue'[d][i].seq
      BY <2>4 DEF RowsFollowLog, EntryOf
    <3>1. i \in 1 .. Len(q)
      <4>1. i /= Len(q) + 1
        BY <2>3, <2>4
      <4> QED BY <2>1, <4>1
    <3>2. queue'[d][i] = q[i] /\ q[i].seq /= 0
      BY <2>4, <3>1
    <3>3. /\ q[i].seq \in DOMAIN log
          /\ log[q[i].seq] = EntryOf(d, q[i])
          /\ q[i].seq > cursor[d]
          /\ \A s \in ahead[d] : s < q[i].seq
          /\ \A j \in 1 .. i - 1 : q[j].seq /= 0 /\ q[j].seq < q[i].seq
      BY <1>1, <2>1, <3>1, <3>2 DEF Safe, RowsFollowLog
    <3>4. \A j \in 1 .. i - 1 : queue'[d][j] = q[j]
      BY <2>1, <2>4, <3>1
    <3> QED BY <2>2, <3>2, <3>3, <3>4
  <2>8. \A m \in Note : HeadGreatest(d, m)'
    BY <1>1, <2>2 DEF Safe, HeadGreatest, Received
  <2>9. ASSUME NEW m \in Note, ~Pending(d, m)'
        PROVE  doc'[d][m] = BodyAt(head[d][m])'
    <3>1. m /= n
      BY <2>1, <2>3, <2>4, <2>9 DEF Pending
    <3>2. ~Pending(d, m)
      BY <2>1, <2>4, <2>9 DEF Pending
    <3> QED BY <1>1, <2>2, <2>5, <3>1, <3>2 DEF Safe, BodyAt
  <2>10. ASSUME NEW m \in Note, NEW i \in DOMAIN queue'[d], LastRowOf(d, m, i)'
         PROVE  doc'[d][m] = queue'[d][i].body
    <3>1. CASE m = n
      BY <2>1, <2>3, <2>4, <2>5, <2>10, <3>1 DEF LastRowOf
    <3>2. CASE m /= n
      <4>1. i \in 1 .. Len(q)
        BY <2>1, <2>3, <2>4, <2>10, <3>2 DEF LastRowOf
      <4>2. LastRowOf(d, m, i)
        BY <2>1, <2>4, <2>10, <4>1, SMTT(60) DEF LastRowOf
      <4>3. doc[d][m] = q[i].body
        BY <1>1, <4>1, <4>2 DEF Safe
      <4> QED BY <2>1, <2>4, <2>5, <3>2, <4>1, <4>3
    <3> QED BY <3>1, <3>2
  <2> QED BY <1>3, <2>6, <2>7, <2>8, <2>9, <2>10 DEF Safe
<1> QED BY <1>2, <1>3

\* Coalescing replaces the body of a tail that has no sequence.
LEMMA CoalesceSafe ==
  ASSUME IInv, TypeOK', NEW d \in Device, NEW n \in Note, NEW b \in Body, Coalesce(d, n, b),
         NEW e \in Device
  PROVE  Safe(e)'
<1>1. Safe(d) /\ Safe(e) /\ TypeOK
  BY DEF IInv
<1>2. CASE e /= d
  <2>1. /\ doc'[e] = doc[e]
        /\ queue'[e] = queue[e]
        /\ UNCHANGED <<log, cursor, ahead, head>>
    BY <1>2, <1>1 DEF Coalesce, TypeOK
  <2>2. Len(log) <= Len(log')
    BY <1>1, <2>1, Shapes
  <2> QED BY <1>1, <2>1, <2>2, Bystander
<1>3. CASE e = d
  <2> DEFINE q == queue[d]
             t == Len(q)
  <2>1. /\ t \in Nat
        /\ DOMAIN q = 1 .. t
        /\ q \in Seq(Row)
    BY <1>1, Shapes DEF TypeOK
  <2>2. t \in 1 .. t /\ q[t].note = n /\ q[t].seq = 0
    BY <2>1, EmptySeq DEF Coalesce
  <2>3. NewRow(n, b).seq = 0 /\ NewRow(n, b).note = n /\ NewRow(n, b).body = b
    BY DEF NewRow
  <2>4. queue'[d] = [q EXCEPT ![t] = NewRow(n, b)] /\ UNCHANGED <<log, cursor, ahead, head>>
    BY <1>1 DEF Coalesce, TypeOK
  <2>5. /\ DOMAIN queue'[d] = 1 .. t
        /\ Len(queue'[d]) = t
        /\ \A i \in 1 .. t : i /= t => queue'[d][i] = q[i]
        /\ queue'[d][t] = NewRow(n, b)
    <3>1. NewRow(n, b) \in Row
      BY DEF NewRow, Row, Bodies
    <3>2. queue'[d] \in Seq(Row) /\ Len(queue'[d]) = t
      BY <2>1, <2>2, <2>4, <3>1, ExceptSeq
    <3>3. DOMAIN queue'[d] = 1 .. t
      BY <3>2, LenProperties
    <3> QED BY <2>1, <2>2, <2>4, <3>2, <3>3
  <2>6. doc'[d][n] = b /\ \A m \in Note : m /= n => doc'[d][m] = doc[d][m]
    BY <1>1 DEF Coalesce, TypeOK
  <2>7. CursorFits(d)'
    BY <1>1, <2>4 DEF Safe, CursorFits
  <2>8. RowsFollowLog(d)'
    <3> SUFFICES ASSUME NEW i \in 1 .. t, queue'[d][i].seq /= 0
                 PROVE  /\ queue'[d][i].seq \in DOMAIN log
                        /\ log[queue'[d][i].seq] = EntryOf(d, queue'[d][i])
                        /\ queue'[d][i].seq > cursor[d]
                        /\ \A s \in ahead[d] : s < queue'[d][i].seq
                        /\ \A j \in 1 .. i - 1 : /\ queue'[d][j].seq /= 0
                                                /\ queue'[d][j].seq < queue'[d][i].seq
      BY <2>4, <2>5 DEF RowsFollowLog, EntryOf
    <3>1. i /= t
      BY <2>3, <2>5
    <3>2. queue'[d][i] = q[i] /\ \A j \in 1 .. i - 1 : queue'[d][j] = q[j]
      BY <2>1, <2>5, <3>1
    <3> QED BY <1>1, <2>1, <3>2 DEF Safe, RowsFollowLog
  <2>9. \A m \in Note : HeadGreatest(d, m)'
    BY <1>1, <2>4 DEF Safe, HeadGreatest, Received
  <2>10. ASSUME NEW m \in Note, ~Pending(d, m)'
         PROVE  doc'[d][m] = BodyAt(head[d][m])'
    <3>1. m /= n
      BY <2>2, <2>3, <2>5, <2>10 DEF Pending
    <3>2. ~Pending(d, m)
      BY <2>1, <2>2, <2>5, <2>10, <3>1 DEF Pending
    <3> QED BY <1>1, <2>4, <2>6, <3>1, <3>2 DEF Safe, BodyAt
  <2>11. ASSUME NEW m \in Note, NEW i \in DOMAIN queue'[d], LastRowOf(d, m, i)'
         PROVE  doc'[d][m] = queue'[d][i].body
    <3>1. CASE m = n
      BY <2>1, <2>2, <2>3, <2>5, <2>6, <2>11, <3>1 DEF LastRowOf
    <3>2. CASE m /= n
      <4>1. i \in 1 .. t /\ i /= t
        BY <2>1, <2>2, <2>3, <2>5, <2>11, <3>2 DEF LastRowOf
      <4>2. LastRowOf(d, m, i)
        BY <2>1, <2>2, <2>5, <2>11, <3>2, <4>1 DEF LastRowOf
      <4> QED BY <1>1, <2>1, <2>5, <2>6, <3>2, <4>1, <4>2 DEF Safe
    <3> QED BY <3>1, <3>2
  <2> QED BY <1>3, <2>7, <2>8, <2>9, <2>10, <2>11 DEF Safe
<1> QED BY <1>2, <1>3

\* The service numbers the oldest rows without a sequence above the whole log.
LEMMA SequenceSafe ==
  ASSUME IInv, TypeOK', NEW d \in Device, NEW first \in 0 .. Len(queue[d]),
         NEW last \in 1 .. Len(queue[d]), Sequence(d, first, last), NEW e \in Device
  PROVE  Safe(e)'
<1>1. Safe(d) /\ Safe(e) /\ TypeOK
  BY DEF IInv
<1> DEFINE q == queue[d]
           grown == Len(log) + (last - first)
<1>2. /\ Len(log) \in Nat /\ DOMAIN log = 1 .. Len(log)
      /\ Len(q) \in Nat /\ DOMAIN q = 1 .. Len(q)
      /\ first \in Nat /\ last \in Nat /\ first < last /\ last <= Len(q)
      /\ \A i \in 1 .. Len(q) : q[i].seq \in Nat
      /\ cursor[d] \in Nat /\ ahead[d] \subseteq Nat
  BY <1>1, Shapes DEF Sequence
<1>3. /\ grown \in Nat
      /\ DOMAIN log' = 1 .. grown
      /\ \A s \in 1 .. Len(log) : log'[s] = log[s]
      /\ \A s \in Len(log) + 1 .. grown : log'[s] = EntryOf(d, q[first + (s - Len(log))])
  <2>1. grown \in Nat
    BY <1>2
  <2>2. log' = [s \in 1 .. grown |->
                  IF s <= Len(log) THEN log[s]
                  ELSE LET row == q[first + (s - Len(log))]
                       IN  EntryOf(d, row)]
    BY DEF Sequence
  <2>3. \A s \in 1 .. Len(log) : s \in 1 .. grown /\ s <= Len(log)
    BY <1>2
  <2>4. \A s \in Len(log) + 1 .. grown : s \in 1 .. grown /\ ~(s <= Len(log))
    BY <1>2
  <2> HIDE DEF grown, q
  <2> QED BY <2>1, <2>2, <2>3, <2>4
<1>4. Len(log') = grown
  <2>1. log' \in Seq(Entry)
    BY DEF TypeOK
  <2> HIDE DEF grown
  <2> QED BY <1>3, <2>1, LengthFromDomain
<1>5. UNCHANGED <<doc, cursor, ahead, head>>
  BY DEF Sequence
<1>6. CASE e /= d
  <2>1. queue'[e] = queue[e]
    BY <1>1, <1>6 DEF Sequence, TypeOK
  <2> QED BY <1>1, <1>2, <1>3, <1>4, <1>5, <2>1, Bystander
<1>7. CASE e = d
  <2>1. /\ DOMAIN queue'[d] = 1 .. Len(q)
        /\ \A i \in 1 .. Len(q) :
             queue'[d][i] = IF first < i /\ i <= last
                            THEN Numbered(q[i], Len(log) + (i - first)) ELSE q[i]
    BY <1>1, <1>2 DEF Sequence, TypeOK
  <2>2. Len(queue'[d]) = Len(q)
    BY <1>2, <2>1, LengthFromDomain DEF TypeOK
  <2>3. ASSUME NEW i \in 1 .. Len(q)
        PROVE  /\ queue'[d][i].note = q[i].note
               /\ queue'[d][i].body = q[i].body
               /\ first < i /\ i <= last => queue'[d][i].seq = Len(log) + (i - first)
               /\ ~(first < i /\ i <= last) => queue'[d][i].seq = q[i].seq
    <3>1. CASE first < i /\ i <= last
      <4>1. queue'[d][i] = Numbered(q[i], Len(log) + (i - first))
        BY <2>1, <3>1
      <4> QED BY <3>1, <4>1 DEF Numbered
    <3>2. CASE ~(first < i /\ i <= last)
      <4>1. queue'[d][i] = q[i]
        BY <2>1, <3>2
      <4> QED BY <3>2, <4>1
    <3> QED BY <3>1, <3>2
  <2>4. /\ \A i \in 1 .. Len(q) : /\ queue'[d][i].note = q[i].note
                                  /\ queue'[d][i].body = q[i].body
        /\ \A i \in 1 .. Len(q) :
             first < i /\ i <= last => queue'[d][i].seq = Len(log) + (i - first)
        /\ \A i \in 1 .. Len(q) :
             ~(first < i /\ i <= last) => queue'[d][i].seq = q[i].seq
    BY <2>3
  <2>5. \A i \in 1 .. first : q[i].seq /= 0
    BY DEF Sequence
  <2>6. \A i \in first + 1 .. Len(q) : q[i].seq = 0
    <3> SUFFICES ASSUME NEW i \in first + 1 .. Len(q), q[i].seq /= 0 PROVE FALSE
      OBVIOUS
    <3>1. i \in 1 .. Len(q) /\ first + 1 \in 1 .. Len(q)
      BY <1>2
    <3>2. q[first + 1].seq = 0
      BY <1>2 DEF Sequence
    <3>3. i /= first + 1
      BY <3>2
    <3>4. first + 1 \in 1 .. i - 1
      BY <1>2, <3>1, <3>3
    <3>5. q[first + 1].seq /= 0
      BY <1>1, <1>2, <3>1, <3>4 DEF Safe, RowsFollowLog
    <3> QED BY <3>2, <3>5
  <2>7. CursorFits(d)'
    BY <1>1, <1>2, <1>4, <1>5 DEF Safe, CursorFits
  <2>8. RowsFollowLog(d)'
    <3> SUFFICES ASSUME NEW i \in 1 .. Len(q), queue'[d][i].seq /= 0
                 PROVE  /\ queue'[d][i].seq \in DOMAIN log'
                        /\ log'[queue'[d][i].seq] = EntryOf(d, queue'[d][i])
                        /\ queue'[d][i].seq > cursor[d]
                        /\ \A s \in ahead[d] : s < queue'[d][i].seq
                        /\ \A j \in 1 .. i - 1 : /\ queue'[d][j].seq /= 0
                                                /\ queue'[d][j].seq < queue'[d][i].seq
      BY <1>5, <2>1 DEF RowsFollowLog, EntryOf
    <3>1. CASE i <= first
      <4>1. queue'[d][i] = q[i] /\ q[i].seq /= 0
        BY <1>2, <2>1, <2>5, <3>1
      <4>2. ASSUME NEW j \in 1 .. i - 1 PROVE queue'[d][j] = q[j]
        <5>1. j \in 1 .. Len(q) /\ ~(first < j /\ j <= last)
          BY <1>2, <3>1
        <5> QED BY <2>1, <5>1
      <4>3. q[i].seq \in 1 .. Len(log) /\ log[q[i].seq] = EntryOf(d, q[i])
        BY <1>1, <1>2, <4>1 DEF Safe, RowsFollowLog
      <4>4. /\ q[i].seq > cursor[d]
            /\ \A s \in ahead[d] : s < q[i].seq
            /\ \A j \in 1 .. i - 1 : q[j].seq /= 0 /\ q[j].seq < q[i].seq
        BY <1>1, <1>2, <4>1 DEF Safe, RowsFollowLog
      <4>5. q[i].seq \in DOMAIN log' /\ log'[q[i].seq] = EntryOf(d, q[i])
        BY <1>2, <1>3, <4>3
      <4>6. \A j \in 1 .. i - 1 : queue'[d][j].seq /= 0 /\ queue'[d][j].seq < q[i].seq
        BY <4>2, <4>4
      <4> QED BY <4>1, <4>4, <4>5, <4>6
    <3>2. CASE first < i /\ i <= last
      <4> DEFINE s == Len(log) + (i - first)
      <4>1. queue'[d][i] = Numbered(q[i], s) /\ queue'[d][i].seq = s
        BY <2>1, <2>4, <3>2
      <4>2. s \in Len(log) + 1 .. grown /\ first + (s - Len(log)) = i
        BY <1>2, <3>2
      <4>3. log'[s] = EntryOf(d, q[i])
        BY <1>3, <4>2
      <4>4. EntryOf(d, q[i]) = EntryOf(d, queue'[d][i])
        BY <2>4 DEF EntryOf
      <4>5. s > cursor[d] /\ \A t \in ahead[d] : t < s
        BY <1>1, <1>2, <4>2 DEF Safe, CursorFits
      <4>6. ASSUME NEW j \in 1 .. i - 1
            PROVE  queue'[d][j].seq /= 0 /\ queue'[d][j].seq < s
        <5>1. j \in 1 .. Len(q)
          BY <1>2
        <5>2. CASE j <= first
          <6>1. q[j].seq /= 0
            BY <2>5, <5>1, <5>2, <1>2
          <6>2. q[j].seq \in 1 .. Len(log)
            BY <1>1, <1>2, <5>1, <6>1 DEF Safe, RowsFollowLog
          <6> QED BY <1>2, <2>4, <4>2, <5>1, <5>2, <6>1, <6>2
        <5>3. CASE first < j
          <6>1. queue'[d][j].seq = Len(log) + (j - first)
            BY <1>2, <2>4, <3>2, <5>1, <5>3
          <6>2. Len(log) + (j - first) /= 0 /\ Len(log) + (j - first) < Len(log) + (i - first)
            BY <1>2, <5>1, <5>3
          <6> QED BY <6>1, <6>2
        <5> QED BY <1>2, <5>1, <5>2, <5>3
      <4> QED BY <1>2, <1>3, <4>1, <4>2, <4>3, <4>4, <4>5, <4>6, SMTT(60)
    <3>3. CASE last < i
      <4>1. i \in first + 1 .. Len(q) /\ ~(first < i /\ i <= last)
        BY <1>2, <3>3
      <4>2. queue'[d][i].seq = q[i].seq
        BY <2>4, <4>1
      <4>3. q[i].seq = 0
        BY <2>6, <4>1
      <4> QED BY <4>2, <4>3
    <3> QED BY <1>2, <3>1, <3>2, <3>3
  <2>9. Received(d)' = Received(d) /\ \A s \in Received(d) : s \in 1 .. Len(log)
    <3>1. \A s \in Received(d) : s \in 1 .. Len(log)
      BY <1>2 DEF Received
    <3>2. cursor[d] <= Len(log) /\ \A s \in ahead[d] : s \in 1 .. Len(log)
      BY <1>1, <1>2 DEF Safe, CursorFits
    <3>3. \A s \in 1 .. grown : s <= cursor[d] \/ s \in ahead[d] => s \in 1 .. Len(log)
      BY <1>2, <3>2
    <3>4. cursor' = cursor /\ ahead' = ahead
      BY <1>5
    <3>5. Received(d)' = {s \in 1 .. grown : s <= cursor[d] \/ s \in ahead[d]}
      BY <1>3, <3>4, Zenon DEF Received
    <3>6. Received(d) = {s \in 1 .. Len(log) : s <= cursor[d] \/ s \in ahead[d]}
      BY <1>2, Zenon DEF Received
    <3>7. \A s \in 1 .. Len(log) : s \in 1 .. grown
      BY <1>2
    <3> HIDE DEF grown
    <3>8. Received(d)' = Received(d)
      BY <3>3, <3>5, <3>6, <3>7
    <3> QED BY <3>1, <3>8
  <2>10. \A n \in Note : HeadGreatest(d, n)'
    <3> SUFFICES ASSUME NEW n \in Note PROVE HeadGreatest(d, n)'
      OBVIOUS
    <3>1. HeadGreatest(d, n)
      BY <1>1 DEF Safe
    <3>2. head'[d][n] = head[d][n]
      BY <1>5
    <3>3. \A s \in Received(d) : log'[s] = log[s]
      BY <1>3, <2>9
    <3> QED BY <2>9, <3>1, <3>2, <3>3 DEF HeadGreatest
  <2>11. ASSUME NEW n \in Note, ~Pending(d, n)' PROVE doc'[d][n] = BodyAt(head[d][n])'
    <3>1. ~Pending(d, n)
      BY <1>2, <2>1, <2>4, <2>11 DEF Pending
    <3>2. head[d][n] = 0 \/ head[d][n] \in 1 .. Len(log)
      BY <1>1, <2>9 DEF Safe, HeadGreatest
    <3> QED BY <1>1, <1>3, <1>5, <3>1, <3>2 DEF Safe, BodyAt
  <2>12. ASSUME NEW n \in Note, NEW i \in DOMAIN queue'[d], LastRowOf(d, n, i)'
         PROVE  doc'[d][n] = queue'[d][i].body
    <3>1. LastRowOf(d, n, i)
      <4>1. i \in 1 .. Len(q) /\ q[i].note = n
        BY <2>1, <2>4, <2>12 DEF LastRowOf
      <4>2. ASSUME NEW j \in i + 1 .. Len(q) PROVE q[j].note /= n
        <5>1. j \in 1 .. Len(q)
          BY <1>2, <4>1
        <5>2. queue'[d][j].note /= n
          BY <2>2, <2>12 DEF LastRowOf
        <5> QED BY <2>4, <5>1, <5>2
      <4> QED BY <1>2, <4>1, <4>2 DEF LastRowOf
    <3> QED BY <1>1, <1>2, <1>5, <2>1, <2>4, <3>1 DEF Safe
  <2> QED BY <1>7, <2>7, <2>8, <2>10, <2>11, <2>12 DEF Safe
<1> QED BY <1>6, <1>7

\* The oldest k rows leave the queue once their sequences are incorporated
\* and the heads have moved up to them.
LEMMA RowsLeave ==
  ASSUME TypeOK, TypeOK', NEW d \in Device, Safe(d), NEW k \in 1 .. Len(queue[d]),
         \A i \in 1 .. k : queue[d][i].seq /= 0,
         log' = log, doc'[d] = doc[d],
         queue'[d] = SubSeq(queue[d], k + 1, Len(queue[d])),
         CursorFits(d)',
         \A s \in 1 .. Len(log) :
           s \in Received(d)' <=> s \in Received(d) \/ \E i \in 1 .. k : queue[d][i].seq = s,
         \A n \in Note :
           /\ head'[d][n] = head[d][n]
                \/ \E i \in 1 .. k : queue[d][i].note = n /\ queue[d][i].seq = head'[d][n]
           /\ head'[d][n] >= head[d][n]
           /\ \A i \in 1 .. k : queue[d][i].note = n => head'[d][n] >= queue[d][i].seq
  PROVE  Safe(d)'
<1> DEFINE q == queue[d]
           left == Len(q) - k
<1>1. /\ Len(log) \in Nat /\ DOMAIN log = 1 .. Len(log)
      /\ Len(q) \in Nat /\ DOMAIN q = 1 .. Len(q)
      /\ k \in Nat /\ left \in Nat
      /\ \A i \in 1 .. Len(q) : q[i].seq \in Nat /\ q[i] \in Row
      /\ cursor[d] \in Nat /\ ahead[d] \subseteq Nat
      /\ \A n \in Note : head[d][n] \in Nat
  BY Shapes
<1>2. /\ Len(queue'[d]) = left
      /\ DOMAIN queue'[d] = 1 .. left
      /\ \A i \in 1 .. left : queue'[d][i] = q[k + i]
  <2>1. \A i \in k + 1 .. Len(q) : q[i] \in Row
    BY <1>1
  <2>2. /\ Len(queue'[d]) = left
        /\ \A i \in 1 .. left : queue'[d][i] = q[(k + 1) + i - 1]
    BY <1>1, <2>1, SubSeqProperties
  <2>3. \A i \in 1 .. left : (k + 1) + i - 1 = k + i
    BY <1>1
  <2>4. queue'[d] \in Seq(Row)
    BY DEF TypeOK
  <2>5. DOMAIN queue'[d] = 1 .. left
    BY <2>2, <2>4, LenProperties
  <2> QED BY <2>2, <2>3, <2>5
<1>3. \A i \in 1 .. Len(q) : q[i].seq /= 0 =>
        /\ q[i].seq \in 1 .. Len(log)
        /\ log[q[i].seq] = EntryOf(d, q[i])
        /\ \A j \in 1 .. i - 1 : q[j].seq /= 0 /\ q[j].seq < q[i].seq
  BY <1>1 DEF Safe, RowsFollowLog
<1>4. \A s \in Received(d) : s \in 1 .. Len(log)
        /\ \A i \in 1 .. Len(q) : q[i].seq /= 0 => s < q[i].seq
  <2>1. \A i \in 1 .. Len(q) : q[i].seq /= 0 =>
          cursor[d] < q[i].seq /\ \A s \in ahead[d] : s < q[i].seq
    BY <1>1 DEF Safe, RowsFollowLog
  <2> QED BY <1>1, <2>1 DEF Received
<1>5. \A i \in 1 .. k : i \in 1 .. Len(q) /\ q[i].seq \in 1 .. Len(log)
  BY <1>1, <1>3
<1>6. cursor'[d] \in Nat /\ ahead'[d] \subseteq Nat
  BY DEF TypeOK
<1>7. ASSUME NEW s \in Received(d)'
      PROVE  /\ s \in 1 .. Len(log)
             /\ \A i \in k + 1 .. Len(q) : q[i].seq /= 0 => s < q[i].seq
  <2>1. s \in 1 .. Len(log)
    BY <1>1, <1>7 DEF Received
  <2>2. CASE s \in Received(d)
    BY <1>1, <1>4, <2>1, <2>2
  <2>3. CASE \E i \in 1 .. k : q[i].seq = s
    <3>1. PICK j \in 1 .. k : q[j].seq = s
      BY <2>3
    <3>2. ASSUME NEW i \in k + 1 .. Len(q), q[i].seq /= 0 PROVE s < q[i].seq
      <4>1. i \in 1 .. Len(q) /\ j \in 1 .. i - 1
        BY <1>1
      <4> QED BY <1>3, <3>1, <3>2, <4>1
    <3> QED BY <2>1, <3>2
  <2> QED BY <1>7, <2>1, <2>2, <2>3
<1>8. /\ \A i \in k + 1 .. Len(q) : q[i].seq /= 0 => cursor'[d] < q[i].seq
      /\ \A i \in k + 1 .. Len(q) : q[i].seq /= 0 => \A s \in ahead'[d] : s < q[i].seq
  <2>1. ASSUME NEW i \in k + 1 .. Len(q), q[i].seq /= 0 PROVE cursor'[d] < q[i].seq
    <3>1. CASE cursor'[d] = 0
      BY <1>1, <2>1, <3>1
    <3>2. CASE cursor'[d] /= 0
      <4>1. cursor'[d] \in 1 .. Len(log)
        BY <1>1, <1>6, <3>2 DEF CursorFits
      <4>2. cursor'[d] \in Received(d)'
        BY <1>1, <1>6, <4>1 DEF Received
      <4> QED BY <1>7, <2>1, <4>2
    <3> QED BY <3>1, <3>2
  <2>2. ASSUME NEW s \in ahead'[d] PROVE s \in Received(d)'
    <3>1. s \in 1 .. Len(log)
      BY <1>1, <1>6 DEF CursorFits
    <3> QED BY <1>1, <3>1 DEF Received
  <2> QED BY <1>7, <2>1, <2>2
<1>9. RowsFollowLog(d)'
  <2> SUFFICES ASSUME NEW i \in 1 .. left, queue'[d][i].seq /= 0
               PROVE  /\ queue'[d][i].seq \in DOMAIN log
                      /\ log[queue'[d][i].seq] = EntryOf(d, queue'[d][i])
                      /\ queue'[d][i].seq > cursor'[d]
                      /\ \A s \in ahead'[d] : s < queue'[d][i].seq
                      /\ \A j \in 1 .. i - 1 : /\ queue'[d][j].seq /= 0
                                              /\ queue'[d][j].seq < queue'[d][i].seq
    BY <1>2 DEF RowsFollowLog, EntryOf
  <2>1. /\ queue'[d][i] = q[k + i]
        /\ k + i \in 1 .. Len(q)
        /\ k + i \in k + 1 .. Len(q)
    <3>1. k + i \in 1 .. Len(q) /\ k + i \in k + 1 .. Len(q)
      BY <1>1
    <3> QED BY <1>2, <3>1
  <2>2. ASSUME NEW j \in 1 .. i - 1
        PROVE  queue'[d][j].seq /= 0 /\ queue'[d][j].seq < queue'[d][i].seq
    <3>1. j \in 1 .. left /\ k + j \in 1 .. (k + i) - 1
      BY <1>1
    <3>2. queue'[d][j] = q[k + j]
      BY <1>2, <3>1
    <3>3. q[k + i].seq /= 0 =>
            \A h \in 1 .. (k + i) - 1 : q[h].seq /= 0 /\ q[h].seq < q[k + i].seq
      BY <1>3, <2>1
    <3> QED BY <2>1, <3>1, <3>2, <3>3
  <2> QED BY <1>1, <1>3, <1>6, <1>8, <2>1, <2>2, SMTT(60)
<1>10. ASSUME NEW n \in Note PROVE HeadGreatest(d, n)'
  <2>1. \A s \in Received(d) : s \in Received(d)'
    BY <1>4
  <2>2. \A i \in 1 .. k : q[i].seq \in Received(d)'
    BY <1>5
  <2>3. ASSUME head'[d][n] /= 0
        PROVE  head'[d][n] \in Received(d)' /\ log'[head'[d][n]].note = n
    <3>1. CASE head'[d][n] = head[d][n]
      BY <2>1, <2>3, <3>1 DEF Safe, HeadGreatest
    <3>2. CASE \E i \in 1 .. k : q[i].note = n /\ q[i].seq = head'[d][n]
      <4>1. PICK i \in 1 .. k : q[i].note = n /\ q[i].seq = head'[d][n]
        BY <3>2
      <4>2. log[q[i].seq] = EntryOf(d, q[i])
        BY <1>3, <1>5
      <4> QED BY <2>2, <4>1, <4>2 DEF EntryOf
    <3> QED BY <3>1, <3>2
  <2>4. ASSUME NEW s \in Received(d)', log'[s].note = n PROVE s <= head'[d][n]
    <3>1. s \in 1 .. Len(log) /\ head'[d][n] \in Nat
      BY <1>7 DEF TypeOK
    <3>2. CASE s \in Received(d)
      BY <1>1, <2>4, <3>1, <3>2 DEF Safe, HeadGreatest
    <3>3. CASE \E i \in 1 .. k : q[i].seq = s
      <4>1. PICK i \in 1 .. k : q[i].seq = s
        BY <3>3
      <4>2. log[q[i].seq] = EntryOf(d, q[i])
        BY <1>3, <1>5
      <4>3. q[i].note = n
        BY <2>4, <4>1, <4>2 DEF EntryOf
      <4> QED BY <3>1, <4>1, <4>3
    <3> QED BY <2>4, <3>1, <3>2, <3>3
  <2> QED BY <2>3, <2>4 DEF HeadGreatest
<1>11. ASSUME NEW n \in Note, ~Pending(d, n)' PROVE doc'[d][n] = BodyAt(head[d][n])'
  <2>1. \A i \in k + 1 .. Len(q) : q[i].note /= n
    <3> SUFFICES ASSUME NEW i \in k + 1 .. Len(q) PROVE q[i].note /= n
      OBVIOUS
    <3>1. i - k \in 1 .. left /\ k + (i - k) = i
      BY <1>1
    <3>2. queue'[d][i - k] = q[i]
      BY <1>2, <3>1
    <3> QED BY <1>2, <1>11, <3>1, <3>2 DEF Pending
  <2>2. CASE \A i \in 1 .. k : q[i].note /= n
    <3>1. head'[d][n] = head[d][n]
      BY <2>2
    <3>2. ~Pending(d, n)
      BY <1>1, <2>1, <2>2 DEF Pending
    <3> QED BY <3>1, <3>2 DEF Safe, BodyAt
  <2>3. CASE \E i \in 1 .. k : q[i].note = n
    <3>1. PICK i \in 1 .. k : q[i].note = n
      BY <2>3
    <3>2. head[d][n] < q[i].seq
      <4>1. q[i].seq \in Nat /\ q[i].seq /= 0 /\ i \in 1 .. Len(q)
        BY <1>1, <1>5
      <4>2. CASE head[d][n] = 0
        BY <1>1, <4>1, <4>2
      <4>3. CASE head[d][n] /= 0
        <5>1. head[d][n] \in Received(d)
          BY <4>3 DEF Safe, HeadGreatest
        <5> QED BY <1>4, <4>1, <5>1
      <4> QED BY <4>2, <4>3
    <3>3. head'[d][n] /= head[d][n]
      <4>1. head'[d][n] \in Nat /\ head'[d][n] >= q[i].seq
        BY <3>1 DEF TypeOK
      <4> QED BY <1>1, <1>5, <3>2, <4>1
    <3>4. PICK m \in 1 .. k : q[m].note = n /\ q[m].seq = head'[d][n]
      BY <3>3
    <3>5. ASSUME NEW j \in m + 1 .. Len(q) PROVE q[j].note /= n
      <4>1. CASE j > k
        BY <1>1, <2>1, <4>1
      <4>2. CASE j <= k
        <5>1. j \in 1 .. k /\ j \in 1 .. Len(q) /\ m \in 1 .. j - 1
          BY <1>1, <4>2
        <5>2. q[m].seq < q[j].seq
          BY <1>3, <5>1
        <5>3. q[m].seq \in Nat /\ q[j].seq \in Nat
          BY <1>1, <1>5, <5>1
        <5> QED BY <3>4, <5>1, <5>2, <5>3
      <4> QED BY <1>1, <4>1, <4>2
    <3>6. LastRowOf(d, n, m) /\ m \in DOMAIN q
      BY <1>1, <1>5, <3>4, <3>5 DEF LastRowOf
    <3>7. doc[d][n] = q[m].body
      BY <3>6 DEF Safe
    <3>8. log[q[m].seq] = EntryOf(d, q[m]) /\ q[m].seq /= 0
      BY <1>3, <1>5
    <3> QED BY <3>4, <3>7, <3>8 DEF BodyAt, EntryOf
  <2> QED BY <2>2, <2>3
<1>12. ASSUME NEW n \in Note, NEW i \in DOMAIN queue'[d], LastRowOf(d, n, i)'
       PROVE  doc'[d][n] = queue'[d][i].body
  <2>1. i \in 1 .. left /\ queue'[d][i] = q[k + i] /\ k + i \in 1 .. Len(q)
    BY <1>1, <1>2, SMTT(60)
  <2>2. ASSUME NEW j \in k + i + 1 .. Len(q) PROVE q[j].note /= n
    <3>1. j - k \in i + 1 .. left /\ k + (j - k) = j /\ j - k \in 1 .. left
      BY <1>1, <2>1
    <3>2. queue'[d][j - k] = q[j]
      BY <1>2, <3>1
    <3> QED BY <1>2, <1>12, <3>1, <3>2 DEF LastRowOf
  <2>3. LastRowOf(d, n, k + i)
    BY <1>1, <1>12, <2>1, <2>2 DEF LastRowOf
  <2> QED BY <1>1, <2>1, <2>3 DEF Safe
<1> QED BY <1>9, <1>10, <1>11, <1>12 DEF Safe

\* An acknowledgement incorporates the sequences of the rows it names.
LEMMA AcknowledgeSafe ==
  ASSUME IInv, TypeOK', NEW d \in Device, NEW k \in 1 .. Len(queue[d]), Acknowledge(d, k),
         NEW e \in Device
  PROVE  Safe(e)'
<1>1. Safe(d) /\ Safe(e) /\ TypeOK
  BY DEF IInv
<1>2. UNCHANGED <<log, doc>>
  BY DEF Acknowledge
<1>3. CASE e /= d
  <2>1. /\ queue'[e] = queue[e]
        /\ cursor'[e] = cursor[e]
        /\ ahead'[e] = ahead[e]
        /\ head'[e] = head[e]
    BY <1>1, <1>3 DEF Acknowledge, TypeOK
  <2>2. Len(log) <= Len(log')
    BY <1>1, <1>2, Shapes
  <2> QED BY <1>1, <1>2, <2>1, <2>2, Bystander
<1>4. CASE e = d
  <2> DEFINE q == queue[d]
  <2>1. /\ Len(log) \in Nat /\ DOMAIN log = 1 .. Len(log)
        /\ Len(q) \in Nat /\ k \in Nat
        /\ \A i \in 1 .. k : i \in 1 .. Len(q) /\ q[i].seq \in Nat
        /\ cursor[d] \in Nat /\ ahead[d] \subseteq Nat
    BY <1>1, Shapes
  <2>2. PICK j \in 0 .. k :
          /\ \A i \in 1 .. j : q[i].seq = cursor[d] + i
          /\ cursor' = [cursor EXCEPT ![d] = @ + j]
    BY DEF Acknowledge
  <2>3. /\ cursor'[d] = cursor[d] + j
        /\ ahead'[d] = {s \in ahead[d] \cup {q[i].seq : i \in 1 .. k} : s > cursor'[d]}
        /\ queue'[d] = SubSeq(q, k + 1, Len(q))
        /\ \A i \in 1 .. k : q[i].seq /= 0
    BY <1>1, <2>2 DEF Acknowledge, TypeOK
  <2>4. \A i \in 1 .. k : q[i].seq \in 1 .. Len(log)
    BY <1>1, <2>1, <2>3, Shapes DEF Safe, RowsFollowLog
  <2>5. CursorFits(d)'
    <3>1. cursor'[d] <= Len(log)
      <4>1. CASE j = 0
        BY <1>1, <2>1, <2>3, <4>1 DEF Safe, CursorFits
      <4>2. CASE j /= 0
        <5>1. j \in 1 .. j /\ j \in 1 .. k
          BY <2>1, <4>2
        <5>2. q[j].seq = cursor[d] + j
          BY <2>2, <5>1
        <5> QED BY <2>1, <2>3, <2>4, <5>1, <5>2
      <4> QED BY <4>1, <4>2
    <3>2. \A s \in ahead'[d] : cursor'[d] < s /\ s <= Len(log)
      <4>1. \A s \in ahead[d] : s \in Nat /\ s <= Len(log)
        BY <1>1, <2>1 DEF Safe, CursorFits
      <4> QED BY <2>1, <2>2, <2>3, <2>4, <4>1
    <3> QED BY <1>2, <3>1, <3>2 DEF CursorFits
  <2>6. ASSUME NEW s \in 1 .. Len(log)
        PROVE  s \in Received(d)' <=> s \in Received(d) \/ \E i \in 1 .. k : q[i].seq = s
    <3>1. s \in Received(d) <=> s <= cursor[d] \/ s \in ahead[d]
      BY <2>1 DEF Received
    <3>2. s \in Received(d)' <=> s <= cursor'[d] \/ s \in ahead'[d]
      BY <1>2, <2>1 DEF Received
    <3>3. cursor[d] < s /\ s <= cursor'[d] => \E i \in 1 .. k : q[i].seq = s
      <4> SUFFICES ASSUME cursor[d] < s, s <= cursor'[d]
                   PROVE  \E i \in 1 .. k : q[i].seq = s
        OBVIOUS
      <4>1. s - cursor[d] \in 1 .. j /\ s - cursor[d] \in 1 .. k
        BY <2>1, <2>2, <2>3
      <4>2. q[s - cursor[d]].seq = s
        BY <2>1, <2>2, <4>1
      <4> QED BY <4>1, <4>2
    <3>4. s > cursor'[d] =>
            (s \in ahead'[d] <=> s \in ahead[d] \/ \E i \in 1 .. k : q[i].seq = s)
      BY <2>3
    <3>5. s \in ahead'[d] => s > cursor'[d]
      BY <2>3
    <3>6. cursor[d] <= cursor'[d] /\ cursor'[d] \in Nat
      BY <2>1, <2>2, <2>3
    <3> QED BY <2>1, <3>1, <3>2, <3>3, <3>4, <3>5, <3>6
  <2>7. ASSUME NEW n \in Note
        PROVE  /\ head'[d][n] = head[d][n]
                    \/ \E i \in 1 .. k : q[i].note = n /\ q[i].seq = head'[d][n]
               /\ head'[d][n] >= head[d][n]
               /\ \A i \in 1 .. k : q[i].note = n => head'[d][n] >= q[i].seq
    <3>1. PICK h \in [Note -> 0 .. Len(log)] :
            /\ head' = [head EXCEPT ![d] = h]
            /\ \A m \in Note :
                 /\ h[m] = head[d][m]
                      \/ \E i \in 1 .. k : queue[d][i].note = m /\ queue[d][i].seq = h[m]
                 /\ h[m] >= head[d][m]
                 /\ \A i \in 1 .. k : queue[d][i].note = m => h[m] >= queue[d][i].seq
      BY DEF Acknowledge
    <3>2. head'[d] = h
      BY <1>1, <3>1 DEF TypeOK
    <3> QED BY <3>1, <3>2
  <2> QED BY <1>1, <1>2, <1>4, <2>3, <2>5, <2>6, <2>7, RowsLeave
<1> QED BY <1>3, <1>4

\* An acknowledged write that is pulled only moves the cursor.
LEMMA PullDuplicateSafe ==
  ASSUME IInv, TypeOK', NEW d \in Device, PullDuplicate(d), NEW e \in Device
  PROVE  Safe(e)'
<1>1. Safe(d) /\ Safe(e) /\ TypeOK
  BY DEF IInv
<1>2. UNCHANGED <<log, doc, queue, head>>
  BY DEF PullDuplicate
<1>3. CASE e /= d
  <2>1. cursor'[e] = cursor[e] /\ ahead'[e] = ahead[e]
    BY <1>1, <1>3 DEF PullDuplicate, TypeOK
  <2>2. Len(log) <= Len(log')
    BY <1>1, <1>2, Shapes
  <2> QED BY <1>1, <1>2, <2>1, <2>2, Bystander
<1>4. CASE e = d
  <2>1. /\ cursor'[d] = cursor[d] + 1
        /\ ahead'[d] = ahead[d] \ {cursor[d] + 1}
        /\ cursor[d] + 1 \in ahead[d]
        /\ cursor[d] \in Nat /\ ahead[d] \subseteq Nat
        /\ Len(log) \in Nat /\ DOMAIN log = 1 .. Len(log)
        /\ DOMAIN queue[d] = 1 .. Len(queue[d])
        /\ \A i \in 1 .. Len(queue[d]) : queue[d][i].seq \in Nat
    BY <1>1, Shapes DEF PullDuplicate, TypeOK
  <2>2. CursorFits(d)'
    BY <1>1, <1>2, <2>1 DEF Safe, CursorFits
  <2>3. RowsFollowLog(d)'
    BY <1>1, <1>2, <2>1 DEF Safe, RowsFollowLog, EntryOf
  <2>4. Received(d)' = Received(d)
    BY <1>1, <1>2, <2>1 DEF Safe, CursorFits, Received
  <2>5. \A n \in Note : HeadGreatest(d, n)'
    BY <1>1, <1>2, <2>4 DEF Safe, HeadGreatest
  <2>6. \A n \in Note : ~Pending(d, n)' => doc'[d][n] = BodyAt(head[d][n])'
    BY <1>1, <1>2 DEF Safe, Pending, BodyAt
  <2>7. \A n \in Note, i \in DOMAIN queue'[d] :
          LastRowOf(d, n, i)' => doc'[d][n] = queue'[d][i].body
    BY <1>1, <1>2 DEF Safe, LastRowOf
  <2> QED BY <1>4, <2>2, <2>3, <2>5, <2>6, <2>7 DEF Safe
<1> QED BY <1>3, <1>4

\* An own write that is pulled before its acknowledgement retires its row.
LEMMA PullEchoSafe ==
  ASSUME IInv, TypeOK', NEW d \in Device, PullEcho(d), NEW e \in Device
  PROVE  Safe(e)'
<1>1. Safe(d) /\ Safe(e) /\ TypeOK
  BY DEF IInv
<1>2. UNCHANGED <<log, doc, ahead>>
  BY DEF PullEcho
<1>3. CASE e /= d
  <2>1. cursor'[e] = cursor[e] /\ queue'[e] = queue[e] /\ head'[e] = head[e]
    BY <1>1, <1>3 DEF PullEcho, TypeOK
  <2>2. Len(log) <= Len(log')
    BY <1>1, <1>2, Shapes
  <2> QED BY <1>1, <1>2, <2>1, <2>2, Bystander
<1>4. CASE e = d
  <2> DEFINE q == queue[d]
             s == cursor[d] + 1
             m == q[1].note
  <2>1. /\ Len(log) \in Nat /\ DOMAIN log = 1 .. Len(log)
        /\ cursor[d] \in Nat /\ ahead[d] \subseteq Nat
        /\ q \in Seq(Row) /\ q /= << >>
        /\ q[1].seq = s
    BY <1>1, Shapes DEF TypeOK, PullEcho
  <2>2. 1 \in 1 .. Len(q) /\ Len(q) \in Nat
    BY <2>1, EmptySeq
  <2>3. q[1] \in Row /\ m \in Note
    <3>1. q[1] \in Row
      BY <2>1, <2>2, ElementOfSeq
    <3> QED BY <3>1 DEF Row
  <2>4. s \in 1 .. Len(log) /\ \A t \in ahead[d] : t < s
    BY <1>1, <2>1, <2>2, Shapes DEF Safe, RowsFollowLog
  <2>5. ahead[d] = {}
    BY <1>1, <2>1, <2>4 DEF Safe, CursorFits
  <2>6. /\ cursor'[d] = s
        /\ queue'[d] = SubSeq(q, 1 + 1, Len(q))
    BY <1>1, <2>1, <2>2, TailIsSubSeq DEF PullEcho, TypeOK
  <2>7. CursorFits(d)'
    BY <1>2, <2>1, <2>4, <2>5, <2>6 DEF CursorFits
  <2>8. \A t \in 1 .. Len(log) :
          t \in Received(d)' <=> t \in Received(d) \/ \E i \in 1 .. 1 : q[i].seq = t
    <3>1. \A t \in 1 .. Len(log) : t \in Received(d) <=> t <= cursor[d]
      BY <2>1, <2>5 DEF Received
    <3>2. \A t \in 1 .. Len(log) : t \in Received(d)' <=> t <= s
      BY <1>2, <2>1, <2>5, <2>6 DEF Received
    <3> QED BY <2>1, <3>1, <3>2
  <2>9. /\ head'[d][m] = HeadAfter(d, m, s)
        /\ \A n \in Note : n /= m => head'[d][n] = head[d][n]
        /\ \A n \in Note : head[d][n] \in Nat
    BY <1>1, <2>3 DEF PullEcho, TypeOK
  <2>10. ASSUME NEW n \in Note
         PROVE  /\ head'[d][n] = head[d][n]
                     \/ \E i \in 1 .. 1 : q[i].note = n /\ q[i].seq = head'[d][n]
                /\ head'[d][n] >= head[d][n]
                /\ \A i \in 1 .. 1 : q[i].note = n => head'[d][n] >= q[i].seq
    <3>1. \A i \in 1 .. 1 : i = 1
      OBVIOUS
    <3>2. CASE n = m
      BY <2>1, <2>9, <3>1, <3>2 DEF HeadAfter
    <3>3. CASE n /= m
      BY <2>9, <3>1, <3>3
    <3> QED BY <3>2, <3>3
  <2>11. \A i \in 1 .. 1 : q[i].seq /= 0
    BY <2>1
  <2> QED BY <1>1, <1>2, <1>4, <2>2, <2>6, <2>7, <2>8, <2>10, <2>11, RowsLeave
<1> QED BY <1>3, <1>4

\* A pulled write of another device takes the note unless something newer,
\* or something not yet sequenced, is already there.
LEMMA PullRemoteSafe ==
  ASSUME IInv, TypeOK', NEW d \in Device, PullRemote(d), NEW e \in Device
  PROVE  Safe(e)'
<1>1. Safe(d) /\ Safe(e) /\ TypeOK
  BY DEF IInv
<1>2. UNCHANGED <<log, queue, ahead>>
  BY DEF PullRemote
<1> DEFINE s == cursor[d] + 1
           w == log[s]
           m == w.note
<1>3. /\ Len(log) \in Nat /\ DOMAIN log = 1 .. Len(log)
      /\ cursor[d] \in Nat /\ ahead[d] \subseteq Nat
      /\ \A n \in Note : head[d][n] \in Nat
      /\ DOMAIN queue[d] = 1 .. Len(queue[d])
      /\ \A i \in 1 .. Len(queue[d]) : queue[d][i].seq \in Nat
  BY <1>1, Shapes
<1>4. s \in 1 .. Len(log) /\ w \in Entry
  BY <1>1, <1>3, Shapes DEF PullRemote
<1>5. m \in Note
  BY <1>4 DEF Entry
<1>6. CASE e /= d
  <2>1. doc'[e] = doc[e] /\ cursor'[e] = cursor[e] /\ head'[e] = head[e]
    BY <1>1, <1>6 DEF PullRemote, TypeOK
  <2>2. Len(log) <= Len(log')
    BY <1>2, <1>3
  <2> QED BY <1>1, <1>2, <2>1, <2>2, Bystander
<1>7. CASE e = d
  <2>1. /\ cursor'[d] = s
        /\ s \notin ahead[d]
        /\ \A i \in DOMAIN queue[d] : queue[d][i].seq /= s
        /\ head'[d][m] = HeadAfter(d, m, s)
        /\ \A n \in Note : n /= m => head'[d][n] = head[d][n]
    BY <1>1, <1>5 DEF PullRemote, TypeOK
  <2>2. \A n \in Note : doc'[d][n] =
          IF n /= m \/ Pending(d, m) \/ s <= head[d][m] THEN doc[d][n] ELSE w.body
    BY <1>1, <1>5 DEF PullRemote, TypeOK
  <2>3. CursorFits(d)'
    BY <1>1, <1>2, <1>3, <1>4, <2>1 DEF Safe, CursorFits
  <2>4. RowsFollowLog(d)'
    <3> SUFFICES ASSUME NEW i \in DOMAIN queue[d], queue[d][i].seq /= 0
                 PROVE  /\ queue[d][i].seq \in DOMAIN log
                        /\ log[queue[d][i].seq] = EntryOf(d, queue[d][i])
                        /\ queue[d][i].seq > s
                        /\ \A t \in ahead[d] : t < queue[d][i].seq
                        /\ \A j \in 1 .. i - 1 : /\ queue[d][j].seq /= 0
                                                /\ queue[d][j].seq < queue[d][i].seq
      BY <1>2, <2>1 DEF RowsFollowLog, EntryOf
    <3>1. queue[d][i].seq > cursor[d] /\ queue[d][i].seq /= s
      BY <1>1, <2>1 DEF Safe, RowsFollowLog
    <3> QED BY <1>1, <1>3, <3>1 DEF Safe, RowsFollowLog
  <2>5. Received(d)' = Received(d) \cup {s}
    BY <1>1, <1>2, <1>3, <1>4, <2>1 DEF Received
  <2>6. ASSUME NEW n \in Note PROVE HeadGreatest(d, n)'
    <3>1. CASE n /= m
      <4>1. \A t \in Received(d)' : log[t].note = n => t \in Received(d)
        BY <2>5, <3>1
      <4>2. head'[d][n] = head[d][n]
        BY <2>1, <3>1
      <4> QED BY <1>1, <1>2, <2>5, <4>1, <4>2 DEF Safe, HeadGreatest
    <3>2. CASE n = m
      <4>1. \A t \in Received(d) : t \in 1 .. Len(log)
        BY <1>3 DEF Received
      <4>2. \A t \in Received(d) : log[t].note = n => t <= head[d][n]
        BY <1>1 DEF Safe, HeadGreatest
      <4>3. head[d][n] /= 0 => head[d][n] \in Received(d) /\ log[head[d][n]].note = n
        BY <1>1 DEF Safe, HeadGreatest
      <4>4. CASE s > head[d][n]
        <5>1. head'[d][n] = s
          BY <2>1, <3>2, <4>4 DEF HeadAfter
        <5>2. ASSUME NEW t \in Received(d)', log[t].note = n PROVE t <= s
          BY <1>3, <1>4, <2>5, <4>1, <4>2, <4>4, <5>2
        <5> QED BY <1>2, <2>5, <3>2, <5>1, <5>2 DEF HeadGreatest
      <4>5. CASE ~(s > head[d][n])
        <5>1. head'[d][n] = head[d][n]
          BY <2>1, <3>2, <4>5 DEF HeadAfter
        <5>2. ASSUME NEW t \in Received(d)', log[t].note = n PROVE t <= head[d][n]
          BY <1>3, <1>4, <2>5, <4>2, <4>5, <5>2
        <5> QED BY <1>2, <2>5, <4>3, <5>1, <5>2 DEF HeadGreatest
      <4> QED BY <4>4, <4>5
    <3> QED BY <3>1, <3>2
  <2>7. ASSUME NEW n \in Note, ~Pending(d, n)' PROVE doc'[d][n] = BodyAt(head[d][n])'
    <3>1. ~Pending(d, n)
      BY <1>2, <2>7 DEF Pending
    <3>2. doc[d][n] = BodyAt(head[d][n])
      BY <1>1, <3>1 DEF Safe
    <3>3. CASE n /= m \/ s <= head[d][n]
      <4>1. head'[d][n] = head[d][n]
        BY <1>3, <2>1, <3>3 DEF HeadAfter
      <4>2. doc'[d][n] = doc[d][n]
        BY <2>2, <3>3
      <4> QED BY <1>2, <3>2, <4>1, <4>2 DEF BodyAt
    <3>4. CASE n = m /\ ~(s <= head[d][n])
      <4>1. head'[d][n] = s
        BY <1>3, <2>1, <3>4 DEF HeadAfter
      <4>2. doc'[d][n] = w.body
        BY <2>2, <3>1, <3>4
      <4> QED BY <1>2, <1>4, <4>1, <4>2 DEF BodyAt
    <3> QED BY <3>3, <3>4
  <2>8. ASSUME NEW n \in Note, NEW i \in DOMAIN queue'[d], LastRowOf(d, n, i)'
        PROVE  doc'[d][n] = queue'[d][i].body
    <3>1. LastRowOf(d, n, i) /\ Pending(d, n)
      BY <1>2, <2>8 DEF LastRowOf, Pending
    <3>2. doc'[d][n] = doc[d][n]
      BY <2>2, <3>1
    <3> QED BY <1>1, <1>2, <3>1, <3>2 DEF Safe
  <2> QED BY <1>7, <2>3, <2>4, <2>6, <2>7, <2>8 DEF Safe
<1> QED BY <1>6, <1>7

\* A rebuilt device holds the latest write of every note up to its cursor.
LEMMA RebuildSafe ==
  ASSUME IInv, TypeOK', NEW d \in Device, NEW s \in 1 .. Len(log), Rebuild(d, s),
         NEW e \in Device
  PROVE  Safe(e)'
<1>1. Safe(d) /\ Safe(e) /\ TypeOK
  BY DEF IInv
<1>2. UNCHANGED <<log, queue>>
  BY DEF Rebuild
<1>3. Len(log) \in Nat /\ DOMAIN log = 1 .. Len(log)
  BY <1>1, Shapes
<1>4. CASE e /= d
  <2>1. /\ doc'[e] = doc[e]
        /\ cursor'[e] = cursor[e]
        /\ ahead'[e] = ahead[e]
        /\ head'[e] = head[e]
    BY <1>1, <1>4 DEF Rebuild, TypeOK
  <2>2. Len(log) <= Len(log')
    BY <1>2, <1>3
  <2> QED BY <1>1, <1>2, <2>1, <2>2, Bystander
<1>5. CASE e = d
  <2>1. PICK h \in [Note -> 0 .. s] :
          /\ head' = [head EXCEPT ![d] = h]
          /\ doc' = [doc EXCEPT ![d] = [n \in Note |-> BodyAt(h[n])]]
          /\ \A n \in Note :
               /\ h[n] /= 0 => log[h[n]].note = n
               /\ \A t \in 1 .. s : log[t].note = n => t <= h[n]
    BY DEF Rebuild
  <2>2. /\ head'[d] = h
        /\ \A n \in Note : doc'[d][n] = BodyAt(h[n])
        /\ cursor'[d] = s
        /\ ahead'[d] = {}
        /\ DOMAIN queue'[d] = {}
    BY <1>1, <2>1 DEF Rebuild, TypeOK
  <2>3. CursorFits(d)' /\ RowsFollowLog(d)'
    BY <1>2, <1>3, <2>2 DEF CursorFits, RowsFollowLog
  <2>4. \A t : t \in Received(d)' <=> t \in 1 .. s
    BY <1>2, <1>3, <2>2 DEF Received
  <2>5. ASSUME NEW n \in Note PROVE HeadGreatest(d, n)'
    <3>1. h[n] \in 0 .. s
      BY <2>1
    <3> QED BY <1>2, <1>3, <2>1, <2>2, <2>4, <3>1 DEF HeadGreatest
  <2>6. \A n \in Note : doc'[d][n] = BodyAt(head[d][n])'
    BY <1>2, <2>2 DEF BodyAt
  <2> QED BY <1>5, <2>2, <2>3, <2>5, <2>6 DEF Safe
<1> QED BY <1>4, <1>5

LEMMA NextIInv == IInv /\ [Next]_vars => IInv'
<1> SUFFICES ASSUME IInv, [Next]_vars PROVE IInv'
  OBVIOUS
<1>1. TypeOK /\ TypeOK'
  BY NextTypeOK DEF IInv
<1>2. ASSUME NEW e \in Device PROVE Safe(e)'
  <2>1. CASE UNCHANGED vars
    <3>1. Safe(e)
      BY DEF IInv
    <3> QED BY <2>1, <3>1 DEF vars, Safe, CursorFits, RowsFollowLog, HeadGreatest, Received,
                              LastRowOf, Pending, BodyAt, EntryOf
  <2>2. CASE Next
    BY <1>1, <2>2, SaveSafe, CoalesceSafe, SequenceSafe, AcknowledgeSafe, PullDuplicateSafe,
       PullEchoSafe, PullRemoteSafe, RebuildSafe DEF Next
  <2> QED BY <2>1, <2>2
<1> QED BY <1>1, <1>2 DEF IInv

LEMMA Invariance == Spec => []IInv
  BY InitIInv, NextIInv, PTL DEF Spec

(***************************************************************************)
(* The properties                                                          *)
(***************************************************************************)

\* Sequenced rows sit above everything a device has incorporated, so nothing
\* the service confirms can bring an older body back.
THEOREM QueueFollowsLogHolds == Spec => []QueueFollowsLog
<1>1. IInv => QueueFollowsLog
  BY DEF IInv, Safe, QueueFollowsLog
<1> QED BY <1>1, Invariance, PTL

\* The head a device records for a note is the greatest write of it that the
\* device has incorporated, however acknowledgements and pulls were ordered.
THEOREM HeadIsGreatestHolds == Spec => []HeadIsGreatest
<1>1. IInv => HeadIsGreatest
  BY DEF IInv, Safe, HeadIsGreatest
<1> QED BY <1>1, Invariance, PTL

\* A device never loses sight of what it typed last while the log has not
\* confirmed it, whatever it pulls meanwhile.
THEOREM PendingWinsHolds == Spec => []PendingWins
<1>1. IInv => PendingWins
  BY DEF IInv, Safe, PendingWins
<1> QED BY <1>1, Invariance, PTL

\* With nothing pending, every device shows the greatest write it has
\* incorporated, in whatever order the acknowledgements and pulls came.
THEOREM DocIsHeadHolds == Spec => []DocIsHead
<1>1. IInv => DocIsHead
  BY DEF IInv, Safe, DocIsHead
<1> QED BY <1>1, Invariance, PTL

\* Two devices that have read the whole log and owe it nothing hold the same
\* bodies: the convergence the architecture promises.
THEOREM Convergence == Spec => []Converged
<1>1. IInv => Converged
  <2> SUFFICES ASSUME IInv, NEW d1 \in Device, NEW d2 \in Device, CaughtUp(d1), CaughtUp(d2)
               PROVE  doc[d1] = doc[d2]
    BY DEF Converged
  <2>1. TypeOK /\ Safe(d1) /\ Safe(d2)
    BY DEF IInv
  <2>2. Received(d1) = Received(d2)
    BY <2>1, Shapes DEF CaughtUp, Received
  <2>3. ASSUME NEW n \in Note PROVE doc[d1][n] = doc[d2][n]
    <3>1. ~Pending(d1, n) /\ ~Pending(d2, n)
      BY DEF CaughtUp, Pending
    <3>2. head[d1][n] \in Nat /\ head[d2][n] \in Nat
      BY <2>1, Shapes
    <3>3. \A s \in Received(d1) : s \in Nat /\ s /= 0
      BY <2>1, Shapes DEF Received
    <3>4. /\ head[d1][n] /= 0 => head[d1][n] <= head[d2][n]
          /\ head[d2][n] /= 0 => head[d2][n] <= head[d1][n]
      BY <2>1, <2>2 DEF Safe, HeadGreatest
    <3>5. head[d1][n] = head[d2][n]
      BY <3>2, <3>4
    <3> QED BY <2>1, <3>1, <3>5 DEF Safe
  <2> QED BY <2>1, <2>3 DEF TypeOK
<1> QED BY <1>1, Invariance, PTL

\* A device keeps what it received when the log keeps its entries, its cursor
\* does not fall, and what it had ahead of the cursor stays or is passed.
LEMMA KeepsReceived ==
  ASSUME TypeOK, TypeOK', NEW d \in Device,
         \A s \in DOMAIN log : s \in DOMAIN log',
         cursor[d] <= cursor'[d],
         \A s \in ahead[d] : s <= cursor'[d] \/ s \in ahead'[d]
  PROVE  Received(d) \subseteq Received(d)'
<1>1. /\ Len(log) \in Nat /\ DOMAIN log = 1 .. Len(log)
      /\ cursor[d] \in Nat /\ ahead[d] \subseteq Nat
  BY Shapes
<1>2. cursor'[d] \in Nat
  BY DEF TypeOK
<1> QED BY <1>1, <1>2 DEF Received

\* No step rewrites the log, and only a rebuild forgets anything.
THEOREM NothingUnlearnedHolds == Spec => NothingUnlearned
<1> DEFINE Kept(d) == /\ cursor[d] <= cursor'[d]
                      /\ \A s \in ahead[d] : s <= cursor'[d] \/ s \in ahead'[d]
           Rebuilt(d) == /\ queue[d] = << >>
                         /\ cursor[d] < cursor'[d]
                         /\ log' = log
<1>1. ASSUME IInv, IInv', [Next]_vars
      PROVE  /\ \A s \in DOMAIN log : s \in DOMAIN log' /\ log'[s] = log[s]
             /\ \A d \in Device :
                  /\ cursor[d] <= cursor'[d]
                  /\ \A s \in Received(d) :
                       \/ s \in Received(d)'
                       \/ queue[d] = << >> /\ cursor[d] < cursor'[d] /\ cursor'[d] < s
  <2>1. TypeOK /\ TypeOK' /\ (\A d \in Device : Safe(d))
    BY <1>1 DEF IInv
  <2>2. \A s \in DOMAIN log : s \in DOMAIN log' /\ log'[s] = log[s]
    <3>1. ASSUME NEW d \in Device, NEW first \in 0 .. Len(queue[d]),
                 NEW last \in 1 .. Len(queue[d]), Sequence(d, first, last)
          PROVE  \A s \in DOMAIN log : s \in DOMAIN log' /\ log'[s] = log[s]
      <4>1. /\ Len(log) \in Nat /\ DOMAIN log = 1 .. Len(log)
            /\ first \in Int /\ last \in Int /\ first < last
        BY <2>1, <3>1, Shapes DEF Sequence
      <4>2. DOMAIN log' = 1 .. Len(log) + (last - first)
        BY <3>1 DEF Sequence
      <4>3. \A s \in 1 .. Len(log) : s \in 1 .. Len(log) + (last - first) /\ s <= Len(log)
        BY <4>1
      <4>4. \A s \in 1 .. Len(log) : log'[s] = log[s]
        BY <3>1, <4>3 DEF Sequence
      <4> QED BY <4>1, <4>2, <4>3, <4>4
    <3>2. CASE log' = log
      BY <3>2
    <3> QED
      BY <1>1, <3>1, <3>2 DEF Next, vars, Save, Coalesce, Acknowledge, PullDuplicate,
                              PullEcho, PullRemote, Rebuild
  <2>3. ASSUME NEW d \in Device PROVE Kept(d) \/ Rebuilt(d)
    <3>1. cursor[d] \in Nat /\ cursor'[d] \in Nat /\ ahead[d] \subseteq Nat
      BY <2>1 DEF TypeOK
    <3>2. CASE cursor'[d] = cursor[d] /\ ahead'[d] = ahead[d]
      BY <3>1, <3>2
    <3>3. ASSUME NEW k \in 1 .. Len(queue[d]), Acknowledge(d, k) PROVE Kept(d)
      <4>1. PICK j \in 0 .. k : cursor' = [cursor EXCEPT ![d] = @ + j]
        BY <3>3 DEF Acknowledge
      <4>2. j \in Nat
        BY <2>1, Shapes
      <4>3. cursor'[d] = cursor[d] + j
        BY <2>1, <4>1 DEF TypeOK
      <4>4. ahead'[d] = {s \in ahead[d] \cup {queue[d][i].seq : i \in 1 .. k} : s > cursor'[d]}
        BY <2>1, <3>3 DEF Acknowledge, TypeOK
      <4> QED BY <3>1, <4>2, <4>3, <4>4
    <3>4. CASE PullDuplicate(d)
      BY <2>1, <3>1, <3>4 DEF PullDuplicate, TypeOK
    <3>5. CASE PullEcho(d) \/ PullRemote(d)
      BY <2>1, <3>1, <3>5 DEF PullEcho, PullRemote, TypeOK
    <3>6. ASSUME NEW s \in 1 .. Len(log), Rebuild(d, s) PROVE Rebuilt(d)
      BY <2>1, <3>1, <3>6 DEF Rebuild, TypeOK
    <3>7. ASSUME NEW e \in Device, e /= d,
                 \/ \E k \in 1 .. Len(queue[e]) : Acknowledge(e, k)
                 \/ PullDuplicate(e) \/ PullEcho(e) \/ PullRemote(e)
                 \/ \E s \in 1 .. Len(log) : Rebuild(e, s)
          PROVE  cursor'[d] = cursor[d] /\ ahead'[d] = ahead[d]
      BY <2>1, <3>7 DEF Acknowledge, PullDuplicate, PullEcho, PullRemote, Rebuild, TypeOK
    <3> HIDE DEF Kept, Rebuilt
    <3>8. cursor'[d] = cursor[d] /\ ahead'[d] = ahead[d] => Kept(d)
      BY <3>1 DEF Kept
    <3> QED
      BY <1>1, <3>3, <3>4, <3>5, <3>6, <3>7, <3>8 DEF Next, vars, Save, Coalesce, Sequence
  <2>4. ASSUME NEW d \in Device, Kept(d)
        PROVE  cursor[d] <= cursor'[d] /\ Received(d) \subseteq Received(d)'
    BY <2>1, <2>2, <2>4, KeepsReceived
  <2>5. ASSUME NEW d \in Device, Rebuilt(d), NEW s \in Received(d)
        PROVE  s \in Received(d)' \/ cursor'[d] < s
    <3>1. s \in DOMAIN log /\ s \in Nat /\ cursor'[d] \in Nat
      BY <2>1, Shapes DEF Received, TypeOK
    <3> QED BY <2>5, <3>1 DEF Received
  <2>6. ASSUME NEW d \in Device, Rebuilt(d) PROVE cursor[d] <= cursor'[d]
    BY <2>1, <2>6 DEF TypeOK
  <2> QED BY <2>2, <2>3, <2>4, <2>5, <2>6
<1> QED BY <1>1, Invariance, PTL DEF Spec, NothingUnlearned
=============================================================================
