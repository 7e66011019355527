--------------------------- MODULE DocumentOrder ---------------------------
(***************************************************************************)
(* What replication promises about note bodies, without the queue, the     *)
(* worker or the network.  Every device types into its own copy; the       *)
(* service gives each write the next server sequence; every device reads   *)
(* the one ordered log.  A write becomes part of a device's history in one *)
(* of three ways: its push is acknowledged, its echo is pulled, or another *)
(* device's write is pulled.  An acknowledgement may arrive before the     *)
(* earlier part of the log has been pulled, so the sequences a device has  *)
(* incorporated are a prefix (its cursor) plus some of its own writes      *)
(* ahead of it.                                                            *)
(*                                                                         *)
(* The rules are those of reconcile_document_body: an equal body changes   *)
(* nothing, a local write without a sequence wins over anything pulled,    *)
(* and otherwise the greatest incorporated sequence wins.                  *)
(***************************************************************************)
EXTENDS Integers, Sequences

CONSTANTS
  Device,     \* replicas of the workspace
  Note,       \* notes that every replica already holds
  Body,       \* bodies a user may type
  Origin,     \* the body every replica starts from
  MaxWrites   \* bound on the writes in the log plus those queued on a device, or none

ASSUME OriginAssumption == Origin \notin Body
\* The promise itself has no bound; one is set for TLC where nothing else sets it.
Unbounded == -1

ASSUME MaxWritesAssumption == MaxWrites \in Nat \cup {Unbounded}

Bodies == Body \cup {Origin}

VARIABLES
  log,     \* the ordered log: log[s] is the write with server sequence s
  doc,     \* doc[d][n]: the canonical body of note n on device d
  queue,   \* queue[d]: local writes not yet known to be in the log, in order
  cursor,  \* cursor[d]: every sequence up to it is incorporated
  ahead,   \* ahead[d]: own sequences acknowledged above the cursor
  head     \* head[d][n]: greatest incorporated sequence writing n, or 0

vars == <<log, doc, queue, cursor, ahead, head>>

\* A queued row remembers the sequence the service gave it, 0 before that.
\* The device learns the number only from the acknowledgement or the echo.
Row == [note: Note, body: Bodies, seq: Nat]
Entry == [dev: Device, note: Note, body: Bodies]

NewRow(n, b) == [note |-> n, body |-> b, seq |-> 0]
Numbered(row, s) == [note |-> row.note, body |-> row.body, seq |-> s]
\* Variant: the log forgets which device a write came from.
AnonymousEntry(d, row) == [note |-> row.note, body |-> row.body]

EntryOf(d, row) == [dev |-> d, note |-> row.note, body |-> row.body]

TypeOK ==
  /\ log \in Seq(Entry)
  /\ doc \in [Device -> [Note -> Bodies]]
  /\ queue \in [Device -> Seq(Row)]
  /\ cursor \in [Device -> Nat]
  /\ ahead \in [Device -> SUBSET Nat]
  /\ head \in [Device -> [Note -> Nat]]

BodyAt(s) == IF s = 0 THEN Origin ELSE log[s].body

\* Variant: no local write is seen as pending.
PendingUnseen(d, n) == FALSE

\* local_document_write_pending: a write of n that has no sequence here yet.
Pending(d, n) == \E i \in DOMAIN queue[d] : queue[d][i].note = n

Received(d) == {s \in DOMAIN log : s <= cursor[d] \/ s \in ahead[d]}

-----------------------------------------------------------------------------

Init ==
  /\ log = << >>
  /\ doc = [d \in Device |-> [n \in Note |-> Origin]]
  /\ queue = [d \in Device |-> << >>]
  /\ cursor = [d \in Device |-> 0]
  /\ ahead = [d \in Device |-> {}]
  /\ head = [d \in Device |-> [n \in Note |-> 0]]

\* A local save joins the queue.
Save(d, n, b) ==
  /\ MaxWrites = Unbounded \/ Len(log) + Len(queue[d]) < MaxWrites
  /\ doc' = [doc EXCEPT ![d][n] = b]
  /\ queue' = [queue EXCEPT ![d] = Append(@, NewRow(n, b))]
  /\ UNCHANGED <<log, cursor, ahead, head>>

\* Variant: the tail's body is replaced whether or not the service has it.
CoalesceIntoSent(d, n, b) ==
  /\ queue[d] /= << >>
  /\ queue[d][Len(queue[d])].note = n
  /\ doc' = [doc EXCEPT ![d][n] = b]
  /\ queue' = [queue EXCEPT ![d][Len(queue[d])].body = b]
  /\ UNCHANGED <<log, cursor, ahead, head>>

\* A local save of the note at the tail of the queue, which the service has
\* not seen, replaces the tail's body instead of joining the queue.
Coalesce(d, n, b) ==
  /\ queue[d] /= << >>
  /\ LET tail == queue[d][Len(queue[d])]
     IN  tail.note = n /\ tail.seq = 0
  /\ doc' = [doc EXCEPT ![d][n] = b]
  /\ queue' = [queue EXCEPT ![d][Len(queue[d])] = NewRow(n, b)]
  /\ UNCHANGED <<log, cursor, ahead, head>>

\* The service appends rows first+1 .. last of the queue, the oldest that
\* have no sequence, in one transaction.
Sequence(d, first, last) ==
  /\ first < last
  /\ \A i \in 1 .. first : queue[d][i].seq /= 0
  /\ \A i \in first + 1 .. last : queue[d][i].seq = 0
  /\ log' = [s \in 1 .. Len(log) + (last - first) |->
               IF s <= Len(log) THEN log[s]
               ELSE LET row == queue[d][first + (s - Len(log))]
                    IN  EntryOf(d, row)]
  /\ queue' = [queue EXCEPT ![d] =
                 [i \in 1 .. Len(queue[d]) |->
                    IF first < i /\ i <= last
                    THEN Numbered(queue[d][i], Len(log) + (i - first))
                    ELSE queue[d][i]]]
  /\ UNCHANGED <<doc, cursor, ahead, head>>

\* The device learns the sequences of its first k rows.  The cursor follows
\* only as far as the acknowledged sequences continue it without a gap; the
\* heads of the notes written move up to the greatest of them.
Acknowledge(d, k) ==
  /\ \A i \in 1 .. k : queue[d][i].seq /= 0
  /\ \E j \in 0 .. k :
       /\ \A i \in 1 .. j : queue[d][i].seq = cursor[d] + i
       /\ j < k => queue[d][j + 1].seq /= cursor[d] + j + 1
       /\ cursor' = [cursor EXCEPT ![d] = @ + j]
  /\ ahead' = [ahead EXCEPT ![d] =
                 {s \in @ \cup {queue[d][i].seq : i \in 1 .. k} : s > cursor'[d]}]
  /\ \E h \in [Note -> 0 .. Len(log)] :
       /\ head' = [head EXCEPT ![d] = h]
       /\ \A n \in Note :
            /\ h[n] = head[d][n]
                 \/ \E i \in 1 .. k : queue[d][i].note = n /\ queue[d][i].seq = h[n]
            /\ h[n] >= head[d][n]
            /\ \A i \in 1 .. k : queue[d][i].note = n => h[n] >= queue[d][i].seq
  /\ queue' = [queue EXCEPT ![d] = SubSeq(@, k + 1, Len(@))]
  /\ UNCHANGED <<log, doc>>

\* An acknowledged own write is pulled later: only the cursor moves.
PullDuplicate(d) ==
  /\ cursor[d] + 1 \in ahead[d]
  /\ cursor' = [cursor EXCEPT ![d] = @ + 1]
  /\ ahead' = [ahead EXCEPT ![d] = @ \ {cursor[d] + 1}]
  /\ UNCHANGED <<log, doc, queue, head>>

\* Variant: a pulled write never becomes the head.
HeadIgnoresPull(d, n, s) == head[d][n]

HeadAfter(d, n, s) == IF s > head[d][n] THEN s ELSE head[d][n]

\* An own write is pulled before its acknowledgement arrived: its row goes.
PullEcho(d) ==
  LET s == cursor[d] + 1
  IN  /\ queue[d] /= << >>
      /\ queue[d][1].seq = s
      /\ cursor' = [cursor EXCEPT ![d] = s]
      /\ head' = [head EXCEPT ![d][queue[d][1].note] = HeadAfter(d, queue[d][1].note, s)]
      /\ queue' = [queue EXCEPT ![d] = Tail(@)]
      /\ UNCHANGED <<log, doc, ahead>>

\* Another device's write is pulled: the rules decide the canonical body.
PullRemote(d) ==
  LET s == cursor[d] + 1
      w == log[s]
  IN  /\ s <= Len(log)
      /\ s \notin ahead[d]
      /\ \A i \in DOMAIN queue[d] : queue[d][i].seq /= s
      /\ doc' = IF Pending(d, w.note) \/ s <= head[d][w.note]
                THEN doc
                ELSE [doc EXCEPT ![d][w.note] = w.body]
      /\ head' = [head EXCEPT ![d][w.note] = HeadAfter(d, w.note, s)]
      /\ cursor' = [cursor EXCEPT ![d] = s]
      /\ UNCHANGED <<log, queue, ahead>>

\* Variant: a device adopts a state older than what it has incorporated.
RebuildBackwards(d, s) ==
  /\ queue[d] = << >>
  /\ cursor' = [cursor EXCEPT ![d] = s]
  /\ ahead' = [ahead EXCEPT ![d] = {}]
  /\ head' = [head EXCEPT ![d] = [n \in Note |-> 0]]
  /\ doc' = [doc EXCEPT ![d] = [n \in Note |-> Origin]]
  /\ UNCHANGED <<log, queue>>

\* A device with nothing queued adopts what the log says up to sequence s.
\* Own writes acknowledged above s are forgotten: they will be pulled again as
\* if another device had made them.
Rebuild(d, s) ==
  /\ queue[d] = << >>
  /\ cursor[d] < s
  /\ cursor' = [cursor EXCEPT ![d] = s]
  /\ ahead' = [ahead EXCEPT ![d] = {}]
  /\ \E h \in [Note -> 0 .. s] :
       /\ head' = [head EXCEPT ![d] = h]
       /\ doc' = [doc EXCEPT ![d] = [n \in Note |-> BodyAt(h[n])]]
       /\ \A n \in Note :
            /\ h[n] /= 0 => log[h[n]].note = n
            /\ \A t \in 1 .. s : log[t].note = n => t <= h[n]
  /\ UNCHANGED <<log, queue>>

Next ==
  \E d \in Device :
    \/ \E n \in Note, b \in Body : Save(d, n, b)
    \/ \E n \in Note, b \in Body : Coalesce(d, n, b)
    \/ \E first \in 0 .. Len(queue[d]), last \in 1 .. Len(queue[d]) : Sequence(d, first, last)
    \/ \E k \in 1 .. Len(queue[d]) : Acknowledge(d, k)
    \/ PullDuplicate(d)
    \/ PullEcho(d)
    \/ PullRemote(d)
    \/ \E s \in 1 .. Len(log) : Rebuild(d, s)

Spec == Init /\ [][Next]_vars

-----------------------------------------------------------------------------
(***************************************************************************)
(* Properties                                                              *)
(***************************************************************************)

\* The cursor and what is acknowledged ahead of it name sequences of the log.
CursorFits(d) ==
  /\ cursor[d] <= Len(log)
  /\ \A s \in ahead[d] : cursor[d] < s /\ s <= Len(log)

RowsFollowLog(d) ==
  \A i \in DOMAIN queue[d] :
    LET row == queue[d][i]
    IN  row.seq /= 0 =>
          /\ row.seq \in DOMAIN log
          /\ log[row.seq] = EntryOf(d, row)
          /\ row.seq > cursor[d]
          /\ \A s \in ahead[d] : s < row.seq
          /\ \A j \in 1 .. i - 1 : queue[d][j].seq /= 0 /\ queue[d][j].seq < row.seq

\* The sequenced rows of a queue are its oldest, in log order, hold exactly
\* what the log holds, and lie above everything the device has incorporated:
\* this is why an acknowledgement or an echo can never bring an older write
\* back over a newer one.
QueueFollowsLog == \A d \in Device : CursorFits(d) /\ RowsFollowLog(d)

HeadGreatest(d, n) ==
  /\ head[d][n] /= 0 => head[d][n] \in Received(d) /\ log[head[d][n]].note = n
  /\ \A s \in Received(d) : log[s].note = n => s <= head[d][n]

\* sync_document_heads records the greatest incorporated write of each note.
HeadIsGreatest == \A d \in Device, n \in Note : HeadGreatest(d, n)

LastRowOf(d, n, i) ==
  /\ i \in DOMAIN queue[d]
  /\ queue[d][i].note = n
  /\ \A j \in i + 1 .. Len(queue[d]) : queue[d][j].note /= n

\* While a device holds a write the log has not given it back, its canonical
\* body is that write: nothing pulled meanwhile overwrites what was typed.
PendingWins ==
  \A d \in Device, n \in Note :
    \A i \in DOMAIN queue[d] : LastRowOf(d, n, i) => doc[d][n] = queue[d][i].body

\* With nothing pending the canonical body is the write at the head, however
\* acknowledgements, echoes and remote writes were interleaved.
DocIsHead ==
  \A d \in Device, n \in Note :
    ~Pending(d, n) => doc[d][n] = BodyAt(head[d][n])

CaughtUp(d) == queue[d] = << >> /\ cursor[d] = Len(log)

\* "every device that reads the same ordered log reaches the same canonical
\* state": two devices that read the whole log and owe it nothing agree.
Converged ==
  \A d1, d2 \in Device : CaughtUp(d1) /\ CaughtUp(d2) => doc[d1] = doc[d2]

\* The log only grows, cursors only rise, and an incorporated sequence is
\* given up only by a rebuild: with nothing queued, and only above the cursor
\* the rebuild sets, from where it is pulled again.
NothingUnlearned ==
  [][/\ \A s \in DOMAIN log : s \in DOMAIN log' /\ log'[s] = log[s]
     /\ \A d \in Device :
          /\ cursor[d] <= cursor'[d]
          /\ \A s \in Received(d) :
               \/ s \in Received(d)'
               \/ queue[d] = << >> /\ cursor[d] < cursor'[d] /\ cursor'[d] < s]_vars

\* Every write reaches every device and all of them settle on one body.
EventuallyConverged == <>[](\A d \in Device : CaughtUp(d))
=============================================================================
