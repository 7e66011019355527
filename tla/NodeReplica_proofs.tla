------------------------- MODULE NodeReplica_proofs -------------------------
(***************************************************************************)
(* On every device the nodes stay a tree, for any number of devices, nodes *)
(* and operations.  A subtree is the least set that is closed downwards,   *)
(* so a cycle is excluded by naming a closed set that a parent is not in.  *)
(*                                                                         *)
(* Operations that are about different nodes commute, so devices that did  *)
(* not get in each other's way come to the same tree.                      *)
(***************************************************************************)
EXTENDS NodeReplica, WellFoundedInduction, TLAPS

\* S holds the children of its members.
Closed(t, S) == S \in SUBSET Node /\ \A c \in Node : t.parent[c] \in S => c \in S

-----------------------------------------------------------------------------
(* Subtrees *)

\* A subtree holds its root and the children of its members, and it is the
\* least set that does.
LEMMA SubtreeIsLeast ==
  ASSUME NEW t, NEW n \in Node
  PROVE  /\ n \in Subtree(t, n) /\ Closed(t, Subtree(t, n))
         /\ \A S : Closed(t, S) /\ n \in S => Subtree(t, n) \subseteq S
<1>1. n \in Subtree(t, n)
  BY DEF Subtree
<1>2. ASSUME NEW c \in Node, t.parent[c] \in Subtree(t, n)
      PROVE  c \in Subtree(t, n)
  <2>1. ASSUME NEW S \in SUBSET Node, n \in S,
               \A m \in Node : t.parent[m] \in S => m \in S
        PROVE  c \in S
    <3>1. t.parent[c] \in S
      BY <1>2, <2>1 DEF Subtree
    <3> QED  BY <2>1, <3>1
  <2> QED  BY <2>1 DEF Subtree
<1>3. Subtree(t, n) \in SUBSET Node
  BY DEF Subtree
<1>4. ASSUME NEW S, Closed(t, S), n \in S
      PROVE  Subtree(t, n) \subseteq S
  BY <1>4 DEF Closed, Subtree
<1> QED  BY <1>1, <1>2, <1>3, <1>4 DEF Closed

\* What lies below a node of a subtree lies in it.
LEMMA SubtreeWithin ==
  ASSUME NEW t, NEW n \in Node, NEW m \in Subtree(t, n)
  PROVE  m \in Node /\ Subtree(t, m) \subseteq Subtree(t, n)
<1>1. Closed(t, Subtree(t, n)) /\ m \in Node
  BY SubtreeIsLeast DEF Subtree
<1> QED  BY <1>1, SubtreeIsLeast

\* No node is below itself.
LoopFree(t) == \A n \in Node : t.parent[n] \notin Subtree(t, n)

\* A change of one place to one outside the node's own subtree makes no loop.
LEMMA PlacingKeepsLoopFree ==
  ASSUME NEW t \in Tree, LoopFree(t),
         NEW n \in Node, NEW p \in Parents, p \notin Subtree(t, n),
         NEW u \in Tree, u.parent = [t.parent EXCEPT ![n] = p]
  PROVE  LoopFree(u)
<1> DEFINE B == Subtree(t, n)
<1>1. Closed(t, B) /\ n \in B
  BY SubtreeIsLeast
<1>2. \A m \in Node : u.parent[m] = IF m = n THEN p ELSE t.parent[m]
  BY DEF Tree
<1>3. Closed(u, B)
  BY <1>1, <1>2 DEF Closed
<1>4. u.parent[n] \notin Subtree(u, n)
  <2>1. Subtree(u, n) \subseteq B
    BY <1>1, <1>3, SubtreeIsLeast
  <2> QED  BY <1>2, <2>1
<1>5. ASSUME NEW m \in Node, m # n
      PROVE  u.parent[m] \notin Subtree(u, m)
  <2> DEFINE S == Subtree(t, m)
  <2>1. Closed(t, S) /\ m \in S
    BY SubtreeIsLeast
  <2>2. u.parent[m] = t.parent[m] /\ u.parent[m] \notin S
    BY <1>2, <1>5 DEF LoopFree
  <2>3. CASE p \notin S
    <3>1. Closed(u, S)
      BY <1>2, <2>1, <2>3 DEF Closed
    <3>2. Subtree(u, m) \subseteq S
      BY <2>1, <3>1, SubtreeIsLeast
    <3> QED  BY <2>2, <3>2
  <2>4. CASE p \in S
    <3>1. m \notin B
      BY <2>4, SubtreeWithin
    <3>2. u.parent[m] \notin B
      BY <1>1, <2>2, <3>1 DEF Closed
    <3>3. Closed(u, S \cup B)
      BY <1>1, <1>2, <2>1 DEF Closed
    <3>4. Subtree(u, m) \subseteq S \cup B
      BY <2>1, <3>3, SubtreeIsLeast
    <3> QED  BY <2>2, <3>2, <3>4
  <2> QED  BY <2>3, <2>4
<1> QED  BY <1>4, <1>5 DEF LoopFree

\* Taking nodes away makes no loop.
LEMMA RemovingKeepsLoopFree ==
  ASSUME NEW t \in Tree, LoopFree(t), NEW gone \in SUBSET Node,
         NEW u \in Tree,
         u.parent = [m \in Node |-> IF m \in gone THEN Absent ELSE t.parent[m]]
  PROVE  LoopFree(u)
<1> SUFFICES ASSUME NEW m \in Node
             PROVE  u.parent[m] \notin Subtree(u, m)
  BY DEF LoopFree
<1> DEFINE S == Subtree(t, m)
<1>1. Closed(t, S) /\ m \in S
  BY SubtreeIsLeast
<1>2. \A c \in Node : u.parent[c] = Absent \/ u.parent[c] = t.parent[c]
  OBVIOUS
<1>3. Absent \notin S
  BY <1>1, TreeAssumption DEF Closed
<1>4. Closed(u, S)
  BY <1>1, <1>2, <1>3 DEF Closed
<1>5. Subtree(u, m) \subseteq S
  BY <1>1, <1>4, SubtreeIsLeast
<1> QED  BY <1>2, <1>3, <1>5 DEF LoopFree

-----------------------------------------------------------------------------
(* Operations on one tree *)

\* The tree of a device: no loop, every node hangs on one that is there, what
\* was purged is not there, and only what is there carries a trash marker.
Sound(t) ==
  /\ LoopFree(t)
  /\ \A n \in Node : Exists(t, n) => t.parent[n] = Root \/ Exists(t, t.parent[n])
  /\ \A n \in Node : Exists(t, n) => n \notin t.tombstones
  /\ \A n \in Node : t.deleted[n] # 0 => Exists(t, n)

\* A folder that holds children is there or is the top.
LEMMA HolderIsThere ==
  ASSUME NEW t, NEW p, HoldsChildren(t, p)
  PROVE  /\ p # Absent
         /\ p # Root => p \in Node /\ Exists(t, p)
BY TreeAssumption DEF HoldsChildren, Available

\* A valid operation makes a tree of a tree, by type.
LEMMA AfterIsTyped ==
  ASSUME NEW t \in Tree, NEW op \in Operation, Valid(t, op)
  PROVE  After(t, op) \in Tree
<1>1. op.id \in Node /\ op.parent \in Parents /\ op.title \in Title \cup {Untitled}
      /\ op.at \in Time \cup {0}
  BY DEF Operation
<1>2. CASE op.kind = "create"
  BY <1>1, <1>2 DEF After, Tree
<1>3. CASE op.kind = "rename"
  BY <1>1, <1>3 DEF After, Tree
<1>4. CASE op.kind = "move"
  BY <1>1, <1>4 DEF After, Tree
<1>5. CASE op.kind = "trash"
  BY <1>1, <1>5 DEF After, Tree
<1>6. CASE op.kind = "restore"
  BY <1>1, <1>6 DEF After, Tree
<1>7. CASE op.kind = "purge"
  <2>1. Purged(t, op.id) \in SUBSET Node
    BY DEF Purged, Subtree
  <2> QED  BY <1>1, <1>7, <2>1 DEF After, Tree, Parents
<1> QED  BY <1>2, <1>3, <1>4, <1>5, <1>6, <1>7 DEF Operation

\* A node that is placed below a folder that is there, outside its own subtree,
\* leaves the tree sound, whatever its title and its mark become.
LEMMA PlacingKeepsSound ==
  ASSUME NEW t \in Tree, Sound(t), NEW n \in Node, NEW p,
         HoldsChildren(t, p), p \notin Subtree(t, n), p \in Parents,
         n \notin t.tombstones,
         NEW u \in Tree, u.parent = [t.parent EXCEPT ![n] = p],
         u.tombstones = t.tombstones,
         \A m \in Node : m # n => u.deleted[m] = t.deleted[m]
  PROVE  Sound(u)
<1>1. LoopFree(u)
  BY PlacingKeepsLoopFree DEF Sound
<1>2. /\ p # Absent
      /\ p # Root => p \in Node /\ Exists(t, p)
  BY HolderIsThere
<1>3. \A m \in Node : u.parent[m] = IF m = n THEN p ELSE t.parent[m]
  BY DEF Tree
<1>4. \A m \in Node : Exists(t, m) => Exists(u, m)
  BY <1>2, <1>3 DEF Exists
<1>5. \A m \in Node : t.parent[m] \in Node \cup {Root, Absent}
  BY TreeAssumption DEF Tree, Parents
<1>6. ASSUME NEW m \in Node, Exists(u, m)
      PROVE  u.parent[m] = Root \/ Exists(u, u.parent[m])
  <2>1. CASE m = n
    BY <1>2, <1>3, <1>4, <2>1
  <2>2. CASE m # n
    BY <1>3, <1>4, <1>5, <1>6, <2>2 DEF Sound, Exists
  <2> QED  BY <2>1, <2>2
<1>7. \A m \in Node : Exists(u, m) => m \notin u.tombstones
  BY <1>3 DEF Sound, Exists
<1>8. ASSUME NEW m \in Node, u.deleted[m] # 0
      PROVE  Exists(u, m)
  <2>1. CASE m = n
    BY <1>2, <1>3, <2>1 DEF Exists
  <2>2. CASE m # n
    BY <1>4, <1>8, <2>2 DEF Sound
  <2> QED  BY <2>1, <2>2
<1> QED  BY <1>1, <1>6, <1>7, <1>8 DEF Sound

\* A node that is not there has no child, and nothing else is in its subtree.
LEMMA AbsentIsLeaf ==
  ASSUME NEW t \in Tree, Sound(t), NEW n \in Node, ~Exists(t, n)
  PROVE  Subtree(t, n) \subseteq {n}
<1>1. ASSUME NEW c \in Node, t.parent[c] = n
      PROVE  FALSE
  BY <1>1, TreeAssumption DEF Sound, Exists
<1>2. Closed(t, {n})
  BY <1>1 DEF Closed
<1> QED  BY <1>2, SubtreeIsLeast

\* Where only what is there and the trash marks of what is there may differ, a
\* sound tree stays one.
LEMMA MarkingKeepsSound ==
  ASSUME NEW t \in Tree, Sound(t), NEW u \in Tree,
         u.parent = t.parent, u.tombstones = t.tombstones,
         \A m \in Node : u.deleted[m] # 0 => Exists(t, m)
  PROVE  Sound(u)
<1>1. \A n \in Node : Subtree(u, n) = Subtree(t, n)
  BY DEF Subtree
<1> QED  BY <1>1 DEF Sound, LoopFree, Exists

\* A purge takes a whole subtree, so nothing is left below what is gone.
LEMMA PurgingKeepsSound ==
  ASSUME NEW t \in Tree, Sound(t), NEW n \in Node, NEW u \in Tree,
         u.parent = [m \in Node |-> IF m \in Purged(t, n) THEN Absent ELSE t.parent[m]],
         u.deleted = [m \in Node |-> IF m \in Purged(t, n) THEN 0 ELSE t.deleted[m]],
         u.tombstones = t.tombstones \cup Purged(t, n)
  PROVE  Sound(u)
<1> DEFINE gone == Subtree(t, n)
<1>1. Purged(t, n) = gone
  BY DEF Purged
<1>2. Closed(t, gone)
  BY SubtreeIsLeast
<1> HIDE DEF gone
<1>3. LoopFree(u)
  BY <1>1, <1>2, RemovingKeepsLoopFree DEF Closed, Sound
<1>4. \A m \in Node : /\ m \in gone => u.parent[m] = Absent /\ u.deleted[m] = 0
                      /\ m \notin gone => /\ u.parent[m] = t.parent[m]
                                          /\ u.deleted[m] = t.deleted[m]
  BY <1>1
<1>5. ASSUME NEW m \in Node, Exists(u, m)
      PROVE  u.parent[m] = Root \/ Exists(u, u.parent[m])
  <2>1. m \notin gone /\ u.parent[m] = t.parent[m] /\ Exists(t, m)
    BY <1>4, <1>5 DEF Exists
  <2>2. t.parent[m] \notin gone
    BY <1>2, <2>1 DEF Closed
  <2>3. t.parent[m] = Root \/ t.parent[m] \in Node
    BY <2>1, TreeAssumption DEF Tree, Parents, Exists
  <2> QED  BY <1>4, <2>1, <2>2, <2>3 DEF Sound, Exists
<1>6. \A m \in Node : Exists(u, m) => m \notin u.tombstones
  BY <1>1, <1>4 DEF Sound, Exists
<1>7. \A m \in Node : u.deleted[m] # 0 => Exists(u, m)
  BY <1>4 DEF Sound, Exists
<1> QED  BY <1>3, <1>5, <1>6, <1>7 DEF Sound

\* A valid operation leaves a sound tree sound, provided that no purged identity
\* is created again.
LEMMA AfterIsSound ==
  ASSUME NEW t \in Tree, Sound(t), NEW op \in Operation, Valid(t, op),
         op.kind = "create" => op.id \notin t.tombstones
  PROVE  Sound(After(t, op))
<1> DEFINE u == After(t, op)
<1> SUFFICES Sound(u)
  OBVIOUS
<1>1. op.id \in Node /\ op.parent \in Parents
  BY DEF Operation
<1>2. u \in Tree
  BY AfterIsTyped
<1>3. CASE op.kind = "create"
  <2>1. u = [t EXCEPT !.parent[op.id] = op.parent, !.title[op.id] = op.title]
    BY <1>3 DEF After
  <2>2. ~Exists(t, op.id) /\ HoldsChildren(t, op.parent)
    BY <1>3 DEF Valid
  <2>3. op.parent # op.id
    BY <1>1, <2>2, HolderIsThere, TreeAssumption
  <2>4. op.parent \notin Subtree(t, op.id)
    BY <1>1, <2>2, <2>3, AbsentIsLeaf
  <2>5. /\ u.parent = [t.parent EXCEPT ![op.id] = op.parent]
        /\ u.tombstones = t.tombstones /\ u.deleted = t.deleted
    BY <2>1 DEF Tree
  <2> HIDE DEF u
  <2> QED  BY <1>1, <1>2, <1>3, <2>2, <2>4, <2>5, PlacingKeepsSound
<1>4. CASE op.kind = "rename"
  <2>1. u = [t EXCEPT !.title[op.id] = op.title]
    BY <1>4 DEF After
  <2>2. u.parent = t.parent /\ u.tombstones = t.tombstones /\ u.deleted = t.deleted
    BY <2>1 DEF Tree
  <2> HIDE DEF u
  <2> QED  BY <1>2, <2>2, MarkingKeepsSound DEF Sound
<1>5. CASE op.kind = "move"
  <2>1. u = [t EXCEPT !.parent[op.id] = op.parent]
    BY <1>5 DEF After
  <2>2. /\ Exists(t, op.id) /\ HoldsChildren(t, op.parent)
        /\ op.parent \notin Subtree(t, op.id)
    BY <1>5 DEF Valid, Available, Acyclic
  <2>3. op.id \notin t.tombstones
    BY <1>1, <2>2 DEF Sound
  <2>4. /\ u.parent = [t.parent EXCEPT ![op.id] = op.parent]
        /\ u.tombstones = t.tombstones /\ u.deleted = t.deleted
    BY <2>1 DEF Tree
  <2> HIDE DEF u
  <2> QED  BY <1>1, <1>2, <2>2, <2>3, <2>4, PlacingKeepsSound
<1>6. CASE op.kind = "trash"
  <2>1. u = [t EXCEPT !.deleted[op.id] = op.at]
    BY <1>6 DEF After
  <2>2. Exists(t, op.id)
    BY <1>6 DEF Valid, Available
  <2>3. /\ u.parent = t.parent /\ u.tombstones = t.tombstones
        /\ \A m \in Node : m # op.id => u.deleted[m] = t.deleted[m]
    BY <2>1 DEF Tree
  <2>4. \A m \in Node : u.deleted[m] # 0 => Exists(t, m)
    BY <2>2, <2>3 DEF Sound
  <2> HIDE DEF u
  <2> QED  BY <1>2, <2>3, <2>4, MarkingKeepsSound
<1>7. CASE op.kind = "restore"
  <2>1. u = [t EXCEPT !.parent[op.id] = op.parent, !.deleted[op.id] = 0]
    BY <1>7 DEF After
  <2>2. /\ t.deleted[op.id] # 0 /\ HoldsChildren(t, op.parent)
        /\ op.parent \notin Subtree(t, op.id)
    BY <1>7 DEF Valid, Acyclic
  <2>3. op.id \notin t.tombstones
    BY <1>1, <2>2 DEF Sound
  <2>4. /\ u.parent = [t.parent EXCEPT ![op.id] = op.parent]
        /\ u.tombstones = t.tombstones
        /\ \A m \in Node : m # op.id => u.deleted[m] = t.deleted[m]
    BY <2>1 DEF Tree
  <2> HIDE DEF u
  <2> QED  BY <1>1, <1>2, <2>2, <2>3, <2>4, PlacingKeepsSound
<1>8. CASE op.kind = "purge"
  <2>1. /\ u.parent = [m \in Node |-> IF m \in Purged(t, op.id) THEN Absent ELSE t.parent[m]]
        /\ u.deleted = [m \in Node |-> IF m \in Purged(t, op.id) THEN 0 ELSE t.deleted[m]]
        /\ u.tombstones = t.tombstones \cup Purged(t, op.id)
    BY <1>8 DEF After
  <2> HIDE DEF u
  <2> QED  BY <1>1, <1>2, <2>1, PurgingKeepsSound
<1> QED  BY <1>3, <1>4, <1>5, <1>6, <1>7, <1>8 DEF Operation

-----------------------------------------------------------------------------
(* The steps *)

AllSound == \A d \in Device : Sound(tree[d])

\* A local operation is typed, and leaves its maker's tree sound.
LEMMA MakeKeeps ==
  ASSUME TypeOK, AllSound, NEW d \in Device,
         NEW kind \in {"create", "rename", "move", "trash", "restore", "purge"},
         NEW n \in Node, NEW p \in Parents, NEW name \in Title \cup {Untitled},
         NEW at \in Time \cup {0}, Make(d, kind, n, p, name, at),
         kind = "create" => n \notin tree[d].tombstones
  PROVE  TypeOK' /\ AllSound'
<1> DEFINE op == [kind |-> kind, id |-> n, parent |-> p, title |-> name, at |-> at,
                  scope |-> ({n, p} \ {Absent}) \cup
                              (IF kind = "rename" THEN {} ELSE Subtree(tree[d], n))]
<1>1. op \in Operation
  <2>1. Subtree(tree[d], n) \subseteq Node
    BY DEF Subtree
  <2>2. {n, p} \ {Absent} \subseteq Node \cup {Root}
    BY TreeAssumption DEF Parents
  <2> QED  BY <2>1, <2>2 DEF Operation
<1>2. /\ made < MaxMade /\ made' = made + 1
      /\ Valid(tree[d], op)
      /\ tree' = [tree EXCEPT ![d] = After(tree[d], op)]
      /\ queue' = [queue EXCEPT ![d] =
                     Append(queue[d], [op |-> op, base |-> cursor[d], seq |-> 0])]
      /\ UNCHANGED <<cursor, ahead, log>>
  BY DEF Make
<1>3. op.kind = kind /\ op.id = n
  OBVIOUS
<1> HIDE DEF op
<1>4. tree[d] \in Tree /\ Sound(tree[d])
  BY DEF TypeOK, AllSound
<1>5. After(tree[d], op) \in Tree /\ Sound(After(tree[d], op))
  BY <1>1, <1>2, <1>3, <1>4, AfterIsTyped, AfterIsSound
<1>6. [op |-> op, base |-> cursor[d], seq |-> 0] \in Row
  BY <1>1 DEF Row, TypeOK
<1>7. queue' \in [Device -> Seq(Row)]
  BY <1>2, <1>6 DEF TypeOK
<1>8. tree' \in [Device -> Tree]
  BY <1>2, <1>5 DEF TypeOK
<1>9. made' \in 0 .. MaxMade
  BY <1>2, TreeAssumption DEF TypeOK
<1>10. AllSound'
  BY <1>2, <1>4, <1>5 DEF AllSound, TypeOK
<1> QED  BY <1>2, <1>7, <1>8, <1>9, <1>10 DEF TypeOK

\* What the users do.
LEMMA UserKeeps ==
  ASSUME TypeOK, AllSound, NEW d \in Device, NEW n \in Node,
         \/ \E p \in Folder \cup {Root} :
              CreateFolder(d, n, p) \/ MoveNode(d, n, p) \/ RestoreSubtree(d, n, p)
         \/ \E name \in Title : RenameNode(d, n, name)
         \/ \E at \in Time : TrashSubtree(d, n, at) \/ PurgeSubtree(d, n, at)
  PROVE  TypeOK' /\ AllSound'
<1>1. ASSUME NEW p \in Folder \cup {Root}, CreateFolder(d, n, p)
      PROVE  TypeOK' /\ AllSound'
  BY <1>1, MakeKeeps DEF CreateFolder, Unused, Parents
<1>2. ASSUME NEW p \in Folder \cup {Root}, MoveNode(d, n, p)
      PROVE  TypeOK' /\ AllSound'
  BY <1>2, MakeKeeps DEF MoveNode, Parents
<1>3. ASSUME NEW p \in Folder \cup {Root}, RestoreSubtree(d, n, p)
      PROVE  TypeOK' /\ AllSound'
  BY <1>3, MakeKeeps DEF RestoreSubtree, Parents
<1>4. ASSUME NEW name \in Title, RenameNode(d, n, name)
      PROVE  TypeOK' /\ AllSound'
  BY <1>4, MakeKeeps DEF RenameNode, Parents
<1>5. ASSUME NEW at \in Time, TrashSubtree(d, n, at)
      PROVE  TypeOK' /\ AllSound'
  BY <1>5, MakeKeeps DEF TrashSubtree, Parents
<1>6. ASSUME NEW at \in Time, PurgeSubtree(d, n, at)
      PROVE  TypeOK' /\ AllSound'
  BY <1>6, MakeKeeps DEF PurgeSubtree, Parents
<1> QED  BY <1>1, <1>2, <1>3, <1>4, <1>5, <1>6

\* What the service and the answers of a push do leaves every tree alone.
LEMMA ServiceKeeps ==
  ASSUME TypeOK, NEW d \in Device,
         (\E i \in 1 .. Len(queue[d]) : Sequence(d, i)) \/ Acknowledge(d)
  PROVE  TypeOK' /\ UNCHANGED tree
<1>1. queue[d] \in Seq(Row)
  BY DEF TypeOK
<1>2. ASSUME NEW i \in 1 .. Len(queue[d]), Sequence(d, i)
      PROVE  TypeOK' /\ UNCHANGED tree
  <2>1. queue[d][i] \in Row
    BY <1>1
  <2>2. EntryOf(d, queue[d][i]) \in Entry
    BY <2>1 DEF EntryOf, Entry, Row
  <2>3. log' \in Seq(Entry)
    BY <1>2, <2>2 DEF Sequence, TypeOK
  <2>4. [queue[d][i] EXCEPT !.seq = Len(log) + 1] \in Row
    <3>1. Len(log) + 1 \in Nat
      BY DEF TypeOK
    <3> QED  BY <2>1, <3>1 DEF Row
  <2>5. queue' = [queue EXCEPT ![d] = [queue[d] EXCEPT
                                         ![i] = [queue[d][i] EXCEPT !.seq = Len(log) + 1]]]
    BY <1>2 DEF Sequence
  <2>6. [queue[d] EXCEPT ![i] = [queue[d][i] EXCEPT !.seq = Len(log) + 1]] \in Seq(Row)
    BY <1>1, <2>4
  <2>7. queue' \in [Device -> Seq(Row)]
    BY <2>5, <2>6 DEF TypeOK
  <2> QED  BY <1>2, <2>3, <2>7 DEF Sequence, TypeOK
<1>3. CASE Acknowledge(d)
  <2>1. queue[d] # << >> /\ queue[d][1] \in Row
    BY <1>1, <1>3 DEF Acknowledge
  <2>2. queue' \in [Device -> Seq(Row)]
    BY <1>1, <1>3, <2>1 DEF Acknowledge, TypeOK
  <2>3. queue[d][1].seq \in Nat
    BY <2>1 DEF Row
  <2>4. cursor' \in [Device -> Nat] /\ ahead' \in [Device -> SUBSET Nat]
    <3>1. CASE queue[d][1].seq = cursor[d] + 1
      BY <1>3, <2>3, <3>1 DEF Acknowledge, TypeOK
    <3>2. CASE queue[d][1].seq # cursor[d] + 1
      <4>1. /\ ahead' = [ahead EXCEPT ![d] = ahead[d] \cup {queue[d][1].seq}]
            /\ cursor' = cursor
        BY <1>3, <3>2 DEF Acknowledge
      <4>2. ahead[d] \cup {queue[d][1].seq} \in SUBSET Nat
        BY <2>3 DEF TypeOK
      <4> QED  BY <4>1, <4>2 DEF TypeOK
    <3> QED  BY <3>1, <3>2
  <2> QED  BY <1>3, <2>2, <2>4 DEF Acknowledge, TypeOK
<1> QED  BY <1>2, <1>3

\* A pull moves the cursor by one, to an entry of the log.
LEMMA AdvanceByOne ==
  ASSUME TypeOK, NEW d \in Device, Advance(d)
  PROVE  /\ cursor' \in [Device -> Nat]
         /\ cursor'[d] \in 1 .. Len(log) /\ log[cursor'[d]] \in Entry
<1>1. cursor' \in [Device -> Nat] /\ cursor'[d] = cursor[d] + 1 /\ cursor[d] < Len(log)
  BY DEF Advance, TypeOK
<1>2. Len(log) \in Nat /\ cursor[d] \in Nat
  BY DEF TypeOK
<1>3. cursor'[d] \in 1 .. Len(log)
  BY <1>1, <1>2
<1> QED  BY <1>1, <1>3 DEF TypeOK

\* What a pull does.
LEMMA PullKeeps ==
  ASSUME TypeOK, AllSound, NEW d \in Device,
         PullDuplicate(d) \/ PullEcho(d) \/ PullRemote(d)
  PROVE  TypeOK' /\ AllSound'
<1>1. Advance(d)
  BY DEF PullDuplicate, PullEcho, PullRemote
<1>2. cursor' \in [Device -> Nat] /\ log[cursor'[d]] \in Entry
  BY <1>1, AdvanceByOne
<1>3. CASE PullDuplicate(d)
  BY <1>2, <1>3 DEF PullDuplicate, TypeOK, AllSound
<1>4. CASE PullEcho(d)
  <2>1. queue' \in [Device -> Seq(Row)]
    BY <1>4 DEF PullEcho, TypeOK
  <2> QED  BY <1>2, <1>4, <2>1 DEF PullEcho, TypeOK, AllSound
<1>5. CASE PullRemote(d)
  <2> DEFINE op == log[cursor'[d]].op
  <2>1. op \in Operation
    BY <1>2 DEF Entry
  <2>2. /\ tree' = IF Takes(tree[d], op) /\ Valid(tree[d], op)
                   THEN [tree EXCEPT ![d] = After(tree[d], op)] ELSE tree
        /\ UNCHANGED <<queue, ahead, log, made>>
    BY <1>5 DEF PullRemote
  <2> HIDE DEF op
  <2>3. tree[d] \in Tree /\ Sound(tree[d])
    BY DEF TypeOK, AllSound
  <2>4. CASE Takes(tree[d], op) /\ Valid(tree[d], op)
    <3>1. op.id \notin tree[d].tombstones
      BY <2>4 DEF Takes, Tombstoned
    <3>2. After(tree[d], op) \in Tree /\ Sound(After(tree[d], op))
      BY <2>1, <2>3, <2>4, <3>1, AfterIsTyped, AfterIsSound
    <3>3. tree' \in [Device -> Tree] /\ AllSound'
      BY <2>2, <2>4, <3>2 DEF TypeOK, AllSound
    <3> QED  BY <1>2, <2>2, <3>3 DEF TypeOK
  <2>5. CASE ~(Takes(tree[d], op) /\ Valid(tree[d], op))
    BY <1>2, <2>2, <2>5 DEF TypeOK, AllSound
  <2> QED  BY <2>4, <2>5
<1> QED  BY <1>3, <1>4, <1>5

-----------------------------------------------------------------------------
(* The theorems *)

\* Types and soundness are kept by every step.
LEMMA StepKeeps ==
  ASSUME TypeOK, AllSound, [Next]_vars
  PROVE  TypeOK' /\ AllSound'
<1>1. CASE UNCHANGED vars
  BY <1>1 DEF vars, TypeOK, AllSound
<1>2. ASSUME NEW d \in Device,
             (\E i \in 1 .. Len(queue[d]) : Sequence(d, i)) \/ Acknowledge(d)
      PROVE  TypeOK' /\ AllSound'
  BY <1>2, ServiceKeeps DEF AllSound
<1>3. Fresh \subseteq Node
  BY TreeAssumption
<1> QED  BY <1>1, <1>2, <1>3, UserKeeps, PullKeeps DEF Next

\* A subtree other than its root is made of children of its members.
LEMMA ParentWithin ==
  ASSUME NEW t, NEW n \in Node, NEW m \in Subtree(t, n), m # n
  PROVE  t.parent[m] \in Subtree(t, n)
<1> DEFINE S == Subtree(t, n) \ {m}
<1> SUFFICES ASSUME t.parent[m] \notin Subtree(t, n)
             PROVE  FALSE
  OBVIOUS
<1>1. Closed(t, Subtree(t, n)) /\ n \in S
  BY SubtreeIsLeast
<1>2. Closed(t, S)
  BY <1>1 DEF Closed
<1>3. Subtree(t, n) \subseteq S
  BY <1>1, <1>2, SubtreeIsLeast
<1> QED  BY <1>3

\* Every replica starts from a tree.  The nodes of a loop would be a set that
\* nobody's parent leads out of.
LEMMA StartKeeps ==
  ASSUME Init
  PROVE  TypeOK /\ AllSound
<1>1. <<>> \in Seq(Row) /\ <<>> \in Seq(Entry)
  OBVIOUS
<1>2. ASSUME NEW d \in Device
      PROVE  tree[d] \in Tree /\ Sound(tree[d])
  <2> DEFINE t == tree[d]
  <2>1. t = [parent |-> [n \in Node |-> IF n \in Fresh THEN Absent ELSE Home[n]],
             title |-> [n \in Node |-> Untitled],
             deleted |-> [n \in Node |-> 0], tombstones |-> {}]
    BY <1>2 DEF Init
  <2>2. \A n \in Node \ Fresh : Home[n] \in (Folder \ Fresh) \cup {Root}
    BY TreeAssumption
  <2>3. t \in Tree
    BY <2>1, <2>2 DEF Tree, Parents
  <2>4. /\ \A n \in Node : t.parent[n] = IF n \in Fresh THEN Absent ELSE Home[n]
        /\ \A n \in Node : t.deleted[n] = 0
        /\ t.tombstones = {}
    BY <2>1
  <2> HIDE DEF t
  <2>5. ASSUME NEW n \in Node, t.parent[n] \in Subtree(t, n)
        PROVE  FALSE
    <3> DEFINE S == {m \in Subtree(t, n) : n \in Subtree(t, m)}
    <3>1. n \in S
      BY SubtreeIsLeast
    <3>2. ASSUME NEW m \in S
          PROVE  t.parent[m] \in S
      <4>1. m \in Node /\ t.parent[m] \in Subtree(t, n)
        BY <2>5, ParentWithin, SubtreeWithin
      <4>2. t.parent[m] \in Node
        BY <4>1, SubtreeWithin
      <4>3. m \in Subtree(t, t.parent[m])
        BY <4>1, <4>2, SubtreeIsLeast DEF Closed
      <4>4. Subtree(t, m) \subseteq Subtree(t, t.parent[m])
        BY <4>2, <4>3, SubtreeWithin
      <4> QED  BY <4>1, <4>4
    <3>3. S \subseteq Node
      BY SubtreeWithin
    <3> HIDE DEF S
    <3>4. S \subseteq Node \ Fresh
      BY <2>4, <3>2, <3>3, TreeAssumption
    <3>5. \A m \in S : Home[m] \in S
      BY <2>4, <3>2, <3>4
    <3> QED  BY <3>1, <3>4, <3>5, TreeAssumption
  <2>6. \A n \in Node : Exists(t, n) => t.parent[n] = Root \/ Exists(t, t.parent[n])
    BY <2>2, <2>4, TreeAssumption DEF Exists
  <2>7. Sound(t)
    BY <2>4, <2>5, <2>6 DEF Sound, LoopFree
  <2> QED  BY <2>3, <2>7 DEF t
<1>3. tree \in [Device -> Tree]
  BY <1>2 DEF Init
<1>4. made \in 0 .. MaxMade
  BY TreeAssumption DEF Init
<1>5. queue \in [Device -> Seq(Row)] /\ log \in Seq(Entry)
  BY <1>1 DEF Init
<1>6. cursor \in [Device -> Nat] /\ ahead \in [Device -> SUBSET Nat]
  BY DEF Init
<1> QED  BY <1>2, <1>3, <1>4, <1>5, <1>6 DEF TypeOK, AllSound

\* Types and soundness hold in every state.
LEMMA AlwaysSound == Spec => [](TypeOK /\ AllSound)
BY StartKeeps, StepKeeps, PTL DEF Spec

\* Whatever is made, sequenced and pulled in whatever order, every device holds
\* a well-typed tree and a log of whole operations.
THEOREM TypeCorrect == Spec => []TypeOK
BY AlwaysSound, PTL

\* On every device the nodes form a tree, whatever operations of others are
\* applied on top of its own: no node is left below a missing one or below
\* itself, and nothing that was purged is there again.
THEOREM TreeSoundHolds == Spec => []TreeSound
<1>1. TypeOK /\ AllSound => TreeSound
  <2> SUFFICES ASSUME TypeOK, AllSound, NEW d \in Device,
                      NEW n \in Node, Exists(tree[d], n)
               PROVE  /\ n \notin tree[d].tombstones
                      /\ \/ tree[d].parent[n] = Root
                         \/ /\ tree[d].parent[n] \in Node
                            /\ Exists(tree[d], tree[d].parent[n])
                      /\ tree[d].parent[n] \notin Subtree(tree[d], n)
    BY DEF TreeSound
  <2>1. tree[d] \in Tree /\ Sound(tree[d])
    BY DEF TypeOK, AllSound
  <2>2. tree[d].parent[n] \in Node \cup {Root}
    BY <2>1, TreeAssumption DEF Tree, Parents, Exists
  <2> QED  BY <2>1, <2>2 DEF Sound, LoopFree
<1> QED  BY <1>1, AlwaysSound, PTL

-----------------------------------------------------------------------------
(* Operations on different parts commute *)

\* The nodes an operation is about, on a device that holds the tree t.
ScopeIn(t, op) ==
  ({op.id, op.parent} \ {Absent}) \cup
    (IF op.kind = "rename" THEN {} ELSE Subtree(t, op.id))

\* An operation can be applied to the tree and is about the same nodes there as
\* where it was made.
Fits(t, op) ==
  /\ op \in Operation /\ Valid(t, op) /\ op.scope = ScopeIn(t, op)
  /\ op.kind \in {"rename", "trash", "purge"} => op.parent = Absent
  /\ op.kind = "create" => op.id \notin t.tombstones

\* The nodes whose place, title and mark an operation writes, those it removes,
\* and what it writes.
Gone(op) == IF op.kind = "purge" THEN op.scope ELSE {}
PlacedBy(op) == IF op.kind \in {"create", "move", "restore"} THEN {op.id} ELSE Gone(op)
NamedBy(op) == IF op.kind \in {"create", "rename"} THEN {op.id} ELSE Gone(op)
MarkedBy(op) == IF op.kind \in {"trash", "restore"} THEN {op.id} ELSE Gone(op)
NewPlace(op) == IF op.kind = "purge" THEN Absent ELSE op.parent
NewName(op) == IF op.kind = "purge" THEN Untitled ELSE op.title
NewMark(op) == IF op.kind = "trash" THEN op.at ELSE 0

Written(t, op) ==
  [parent |-> [n \in Node |-> IF n \in PlacedBy(op) THEN NewPlace(op) ELSE t.parent[n]],
   title |-> [n \in Node |-> IF n \in NamedBy(op) THEN NewName(op) ELSE t.title[n]],
   deleted |-> [n \in Node |-> IF n \in MarkedBy(op) THEN NewMark(op) ELSE t.deleted[n]],
   tombstones |-> t.tombstones \cup Gone(op)]

\* What an operation writes lies in its scope; so does the place it gives.
LEMMA WritesInScope ==
  ASSUME NEW t, NEW op, Fits(t, op)
  PROVE  /\ op.id \in Node /\ op.id \in op.scope
         /\ op.kind # "rename" => Subtree(t, op.id) \subseteq op.scope
         /\ PlacedBy(op) \subseteq op.scope /\ NamedBy(op) \subseteq op.scope
         /\ MarkedBy(op) \subseteq op.scope /\ Gone(op) \subseteq op.scope
         /\ op.kind \in {"create", "move", "restore"} =>
              HoldsChildren(t, op.parent) /\ op.parent # Absent /\ op.parent \in op.scope
         /\ op.kind = "purge" => op.scope = Subtree(t, op.id)
<1>1. op.id \in Node /\ op.id # Absent
  BY TreeAssumption DEF Fits, Operation
<1>2. op.id \in op.scope
  BY <1>1 DEF Fits, ScopeIn
<1>3. op.kind # "rename" => Subtree(t, op.id) \subseteq op.scope
  BY DEF Fits, ScopeIn
<1>4. ASSUME op.kind \in {"create", "move", "restore"}
      PROVE  HoldsChildren(t, op.parent) /\ op.parent # Absent /\ op.parent \in op.scope
  <2>1. HoldsChildren(t, op.parent)
    BY <1>4 DEF Fits, Valid
  <2>2. op.parent # Absent
    BY <2>1, HolderIsThere
  <2> QED  BY <2>1, <2>2 DEF Fits, ScopeIn
<1>5. ASSUME op.kind = "purge"
      PROVE  op.scope = Subtree(t, op.id)
  <2>1. op.id \in Subtree(t, op.id)
    BY <1>1, SubtreeIsLeast
  <2> QED  BY <1>1, <1>5, <2>1 DEF Fits, ScopeIn
<1> QED  BY <1>1, <1>2, <1>3, <1>4, <1>5 DEF PlacedBy, NamedBy, MarkedBy, Gone

\* Where an operation fits, what it makes of the tree is written over it.
LEMMA AfterIsWritten ==
  ASSUME NEW t \in Tree, NEW op, Fits(t, op)
  PROVE  After(t, op) = Written(t, op)
<1>1. op \in Operation /\ op.id \in Node /\ (op.kind = "purge" => op.scope = Subtree(t, op.id))
  BY WritesInScope DEF Fits
<1>2. t = [parent |-> [n \in Node |-> t.parent[n]], title |-> [n \in Node |-> t.title[n]],
           deleted |-> [n \in Node |-> t.deleted[n]], tombstones |-> t.tombstones]
  BY DEF Tree
<1> USE DEF After, Written, PlacedBy, NamedBy, MarkedBy, Gone, NewPlace, NewName, NewMark
<1>3. CASE op.kind = "create"
  <2> DEFINE u == After(t, op)
  <2>1. u = [t EXCEPT !.parent[op.id] = op.parent, !.title[op.id] = op.title]
    BY <1>3
  <2>2. u \in Tree
    BY AfterIsTyped DEF Fits
  <2> HIDE DEF u, After
  <2>3. u.parent = [t.parent EXCEPT ![op.id] = op.parent]
    BY <2>1 DEF Tree
  <2>4. u.title = [t.title EXCEPT ![op.id] = op.title]
    BY <2>1 DEF Tree
  <2>5. u.deleted = t.deleted /\ u.tombstones = t.tombstones
    BY <2>1 DEF Tree
  <2>6. u = [parent |-> u.parent, title |-> u.title,
             deleted |-> u.deleted, tombstones |-> u.tombstones]
    BY <2>2 DEF Tree
  <2>7. /\ u.parent = [n \in Node |-> IF n = op.id THEN op.parent ELSE t.parent[n]]
        /\ u.title = [n \in Node |-> IF n = op.id THEN op.title ELSE t.title[n]]
        /\ u.deleted = [n \in Node |-> t.deleted[n]]
    BY <2>3, <2>4, <2>5 DEF Tree
  <2>8. u = Written(t, op)
    BY <1>3, <2>5, <2>6, <2>7
  <2> QED  BY <2>8 DEF u
<1>4. CASE op.kind = "rename"
  BY <1>1, <1>2, <1>4
<1>5. CASE op.kind = "move"
  BY <1>1, <1>2, <1>5
<1>6. CASE op.kind = "trash"
  BY <1>1, <1>2, <1>6
<1>7. CASE op.kind = "restore"
  <2> DEFINE u == After(t, op)
  <2>1. u = [t EXCEPT !.parent[op.id] = op.parent, !.deleted[op.id] = 0]
    BY <1>7
  <2>2. u \in Tree
    BY AfterIsTyped DEF Fits
  <2> HIDE DEF u, After
  <2>3. u.parent = [t.parent EXCEPT ![op.id] = op.parent]
    BY <2>1 DEF Tree
  <2>4. u.deleted = [t.deleted EXCEPT ![op.id] = 0]
    BY <2>1 DEF Tree
  <2>5. u.title = t.title /\ u.tombstones = t.tombstones
    BY <2>1 DEF Tree
  <2>6. u = [parent |-> u.parent, title |-> u.title,
             deleted |-> u.deleted, tombstones |-> u.tombstones]
    BY <2>2 DEF Tree
  <2>7. /\ u.parent = [n \in Node |-> IF n = op.id THEN op.parent ELSE t.parent[n]]
        /\ u.deleted = [n \in Node |-> IF n = op.id THEN 0 ELSE t.deleted[n]]
        /\ u.title = [n \in Node |-> t.title[n]]
    BY <2>3, <2>4, <2>5 DEF Tree
  <2>8. u = Written(t, op)
    BY <1>7, <2>5, <2>6, <2>7
  <2> QED  BY <2>8 DEF u
<1>8. CASE op.kind = "purge"
  BY <1>1, <1>8 DEF Purged
<1> QED  BY <1>1, <1>3, <1>4, <1>5, <1>6, <1>7, <1>8 DEF Operation

\* Operations that do not clash write different fields.
LEMMA WritesApart ==
  ASSUME NEW t, NEW p, NEW q, Fits(t, p), Fits(t, q), ~Clash(p, q)
  PROVE  /\ PlacedBy(p) \cap PlacedBy(q) = {}
         /\ NamedBy(p) \cap NamedBy(q) = {}
         /\ MarkedBy(p) \cap MarkedBy(q) = {}
<1>1. CASE {p.kind, q.kind} = {"rename", "move"}
  <2>1. \/ p.kind = "rename" /\ q.kind = "move"
        \/ p.kind = "move" /\ q.kind = "rename"
    BY <1>1
  <2> QED  BY <2>1 DEF PlacedBy, NamedBy, MarkedBy, Gone
<1>2. CASE {p.kind, q.kind} # {"rename", "move"}
  <2>1. p.scope \cap q.scope = {}
    BY <1>2 DEF Clash
  <2> QED  BY <2>1, WritesInScope
<1> QED  BY <1>1, <1>2

\* Then it does not matter which is written first.
LEMMA WritesCommute ==
  ASSUME NEW t, NEW p, NEW q,
         PlacedBy(p) \cap PlacedBy(q) = {},
         NamedBy(p) \cap NamedBy(q) = {},
         MarkedBy(p) \cap MarkedBy(q) = {}
  PROVE  Written(Written(t, p), q) = Written(Written(t, q), p)
BY DEF Written

\* A subtree stays what it is if no place in it changes and none leads into it.
LEMMA SubtreeStays ==
  ASSUME NEW t, NEW u, NEW n \in Node,
         \A c \in Subtree(t, n) : u.parent[c] = t.parent[c],
         \A c \in Node : u.parent[c] = t.parent[c] \/ u.parent[c] \notin Subtree(t, n)
  PROVE  Subtree(u, n) = Subtree(t, n)
<1> DEFINE B == Subtree(t, n)
           D == Subtree(u, n)
<1>1. n \in B /\ Closed(t, B) /\ n \in D /\ Closed(u, D)
  BY SubtreeIsLeast
<1>2. Closed(u, B)
  BY <1>1 DEF Closed
<1>3. D \subseteq B
  BY <1>1, <1>2, SubtreeIsLeast
<1>4. Closed(t, D)
  <2> SUFFICES ASSUME NEW c \in Node, t.parent[c] \in D
               PROVE  c \in D
    BY <1>1 DEF Closed
  <2>1. c \in B
    BY <1>1, <1>3 DEF Closed
  <2>2. u.parent[c] \in D
    BY <2>1
  <2> QED  BY <1>1, <2>2 DEF Closed
<1>5. B \subseteq D
  BY <1>1, <1>4, SubtreeIsLeast
<1> QED  BY <1>3, <1>5

\* A node stays out of the trash if what is placed anew is placed below what is
\* out of it, and nothing above the node is put into it.
LEMMA AvailableStays ==
  ASSUME NEW t, NEW u, NEW x \in Node, Available(t, x), Exists(u, x),
         \A c \in Node : \/ u.parent[c] = t.parent[c]
                         \/ u.parent[c] = Absent
                         \/ HoldsChildren(t, u.parent[c]),
         \A m \in Node : u.deleted[m] # 0 => x \notin Subtree(t, m),
         \/ \A c \in Node : u.parent[c] = t.parent[c]
         \/ \A m \in Node : u.deleted[m] # 0 => t.deleted[m] # 0
  PROVE  Available(u, x)
<1> SUFFICES ASSUME NEW m \in Node, x \in Subtree(u, m), u.deleted[m] # 0
             PROVE  FALSE
  BY DEF Available
<1> DEFINE B == Subtree(t, m)
<1>1. Closed(t, B) /\ m \in B /\ x \notin B
  BY SubtreeIsLeast
<1>2. Closed(u, B)
  <2> SUFFICES ASSUME NEW c \in Node, u.parent[c] \in B
               PROVE  c \in B
    BY <1>1 DEF Closed
  <2>1. CASE u.parent[c] = t.parent[c]
    BY <1>1, <2>1 DEF Closed
  <2>2. CASE u.parent[c] # t.parent[c]
    <3>1. t.deleted[m] # 0
      BY <2>2
    <3>2. u.parent[c] \in Node /\ u.parent[c] # Absent /\ u.parent[c] # Root
      BY <1>1, TreeAssumption DEF Closed
    <3>3. Available(t, u.parent[c])
      BY <2>2, <3>2 DEF HoldsChildren
    <3> QED  BY <3>1, <3>3 DEF Available
  <2> QED  BY <2>1, <2>2
<1>3. Subtree(u, m) \subseteq B
  BY <1>1, <1>2, SubtreeIsLeast
<1> QED  BY <1>1, <1>3

\* What an operation makes of each node.
LEMMA AfterFields ==
  ASSUME NEW t \in Tree, NEW p, Fits(t, p), NEW u, u = After(t, p)
  PROVE  /\ \A c \in Node : u.parent[c] = IF c \in PlacedBy(p) THEN NewPlace(p) ELSE t.parent[c]
         /\ \A c \in Node : u.deleted[c] = IF c \in MarkedBy(p) THEN NewMark(p) ELSE t.deleted[c]
         /\ u.tombstones = t.tombstones \cup Gone(p)
<1>1. u = Written(t, p)
  BY AfterIsWritten
<1> QED  BY <1>1 DEF Written

\* Where the scopes of two operations are apart, the first leaves the subtree of
\* the second and what is around it alone.
LEMMA SubtreeApart ==
  ASSUME NEW t \in Tree, NEW p, NEW q, Fits(t, p), Fits(t, q), ~Clash(p, q),
         q.kind # "rename"
  PROVE  Subtree(After(t, p), q.id) = Subtree(t, q.id)
<1> DEFINE u == After(t, p)
           B == Subtree(t, q.id)
<1>1. \A c \in Node : u.parent[c] = IF c \in PlacedBy(p) THEN NewPlace(p) ELSE t.parent[c]
  BY AfterFields
<1>2. q.id \in Node /\ B \subseteq q.scope
  BY WritesInScope
<1>3. B \subseteq Node /\ Absent \notin B
  BY TreeAssumption DEF Subtree
<1>4. CASE p.kind \in {"rename", "trash"}
  <2>1. \A c \in Node : u.parent[c] = t.parent[c]
    BY <1>1, <1>4 DEF PlacedBy, Gone
  <2> HIDE DEF u
  <2>2. Subtree(u, q.id) = B
    BY <1>2, <1>3, <2>1, SubtreeStays
  <2> QED  BY <2>2 DEF u
<1>5. CASE p.kind \notin {"rename", "trash"}
  <2>1. p.scope \cap q.scope = {}
    BY <1>5 DEF Clash
  <2>2. PlacedBy(p) \cap B = {}
    BY <1>2, <2>1, WritesInScope
  <2>3. NewPlace(p) \notin B
    <3>1. CASE p.kind = "purge"
      BY <1>3, <3>1 DEF NewPlace
    <3>2. CASE p.kind # "purge"
      <4>1. p.kind \in {"create", "move", "restore"}
        BY <1>5, <3>2 DEF Fits, Operation
      <4> QED  BY <1>2, <2>1, <4>1, WritesInScope DEF NewPlace
    <3> QED  BY <3>1, <3>2
  <2> HIDE DEF u
  <2>4. \A c \in B : u.parent[c] = t.parent[c]
    BY <1>1, <1>3, <2>2
  <2>5. \A c \in Node : u.parent[c] = t.parent[c] \/ u.parent[c] \notin B
    BY <1>1, <2>3
  <2>6. Subtree(u, q.id) = B
    BY <1>2, <2>4, <2>5, SubtreeStays
  <2> QED  BY <2>6 DEF u
<1> QED  BY <1>4, <1>5

\* A node an operation is about stays out of the trash through one that does not
\* clash with it.
LEMMA AvailableApart ==
  ASSUME NEW t \in Tree, NEW p, NEW q, Fits(t, p), Fits(t, q), ~Clash(p, q),
         NEW x \in Node, x \in q.scope, Available(t, x)
  PROVE  Available(After(t, p), x)
<1> DEFINE u == After(t, p)
<1>1. /\ \A c \in Node : u.parent[c] = IF c \in PlacedBy(p) THEN NewPlace(p) ELSE t.parent[c]
      /\ \A c \in Node : u.deleted[c] = IF c \in MarkedBy(p) THEN NewMark(p) ELSE t.deleted[c]
  BY AfterFields
<1>2. p.kind \in {"create", "rename", "move", "trash", "restore", "purge"}
  BY DEF Fits, Operation
<1>3. p.kind \in {"trash", "purge"} => p.scope \cap q.scope = {}
  BY DEF Clash
<1> SUFFICES Available(u, x)
  OBVIOUS
<1> HIDE DEF u
<1>4. Exists(u, x)
  <2>1. CASE p.kind = "purge"
    <3>1. x \notin PlacedBy(p)
      BY <1>3, <2>1, WritesInScope
    <3> QED  BY <1>1, <3>1 DEF Available, Exists
  <2>2. CASE p.kind \in {"create", "move", "restore"}
    <3>1. NewPlace(p) # Absent
      BY <2>2, WritesInScope DEF NewPlace
    <3> QED  BY <1>1, <3>1 DEF Available, Exists
  <2>3. CASE p.kind \in {"rename", "trash"}
    <3>1. x \notin PlacedBy(p)
      BY <2>3 DEF PlacedBy, Gone
    <3> QED  BY <1>1, <3>1 DEF Available, Exists
  <2> QED  BY <1>2, <2>1, <2>2, <2>3
<1>5. \A c \in Node : \/ u.parent[c] = t.parent[c]
                      \/ u.parent[c] = Absent
                      \/ HoldsChildren(t, u.parent[c])
  <2>1. CASE p.kind = "purge"
    BY <1>1, <2>1 DEF NewPlace
  <2>2. CASE p.kind \in {"create", "move", "restore"}
    <3>1. HoldsChildren(t, NewPlace(p))
      BY <2>2, WritesInScope DEF NewPlace
    <3> QED  BY <1>1, <3>1
  <2>3. CASE p.kind \in {"rename", "trash"}
    BY <1>1, <2>3 DEF PlacedBy, Gone
  <2> QED  BY <1>2, <2>1, <2>2, <2>3
<1>6. ASSUME NEW m \in Node, u.deleted[m] # 0
      PROVE  x \notin Subtree(t, m)
  <2>1. CASE t.deleted[m] # 0
    BY <2>1 DEF Available
  <2>2. CASE t.deleted[m] = 0
    <3>1. m \in MarkedBy(p) /\ NewMark(p) # 0
      BY <1>1, <1>6, <2>2
    <3>2. p.kind = "trash" /\ m = p.id
      BY <3>1 DEF NewMark, MarkedBy
    <3>3. Subtree(t, m) \subseteq p.scope
      BY <3>2, WritesInScope
    <3> QED  BY <1>3, <3>2, <3>3
  <2> QED  BY <2>1, <2>2
<1>7. \/ \A c \in Node : u.parent[c] = t.parent[c]
      \/ \A m \in Node : u.deleted[m] # 0 => t.deleted[m] # 0
  <2>1. CASE p.kind \in {"rename", "trash"}
    BY <1>1, <2>1 DEF PlacedBy, Gone
  <2>2. CASE p.kind \notin {"rename", "trash"}
    <3>1. NewMark(p) = 0
      BY <2>2 DEF NewMark
    <3> QED  BY <1>1, <3>1
  <2> QED  BY <2>1, <2>2
<1> QED  BY <1>4, <1>5, <1>6, <1>7, AvailableStays

\* An operation still fits, and is about the same nodes, after one that does not
\* clash with it.
LEMMA FitsStays ==
  ASSUME NEW t \in Tree, NEW p, NEW q, Fits(t, p), Fits(t, q), ~Clash(p, q)
  PROVE  Fits(After(t, p), q)
<1> DEFINE u == After(t, p)
<1>1. /\ \A c \in Node : u.parent[c] = IF c \in PlacedBy(p) THEN NewPlace(p) ELSE t.parent[c]
      /\ \A c \in Node : u.deleted[c] = IF c \in MarkedBy(p) THEN NewMark(p) ELSE t.deleted[c]
      /\ u.tombstones = t.tombstones \cup Gone(p)
  BY AfterFields
<1>2. q.kind # "rename" => Subtree(u, q.id) = Subtree(t, q.id)
  BY SubtreeApart
<1>3. \A x \in Node : x \in q.scope /\ Available(t, x) => Available(u, x)
  BY AvailableApart
<1>4. q \in Operation /\ q.id \in Node /\ q.id \in q.scope
      /\ (q.kind # "rename" => Subtree(t, q.id) \subseteq q.scope)
  BY WritesInScope DEF Fits
<1>5. Available(t, q.id) => Available(u, q.id)
  BY <1>3, <1>4
<1>6. q.kind \in {"create", "move", "restore"} => HoldsChildren(u, q.parent)
  <2> SUFFICES ASSUME q.kind \in {"create", "move", "restore"}
               PROVE  HoldsChildren(u, q.parent)
    OBVIOUS
  <2>1. HoldsChildren(t, q.parent) /\ q.parent \in q.scope
    BY WritesInScope
  <2> QED  BY <1>3, <2>1, TreeAssumption DEF HoldsChildren
<1>7. q.kind \in {"restore", "purge"} =>
        \A c \in Subtree(t, q.id) : u.deleted[c] = t.deleted[c]
  <2> SUFFICES ASSUME q.kind \in {"restore", "purge"}, NEW c \in Subtree(t, q.id)
               PROVE  u.deleted[c] = t.deleted[c]
    OBVIOUS
  <2>1. p.scope \cap q.scope = {}
    BY DEF Clash
  <2>2. c \in Node /\ c \notin MarkedBy(p)
    BY <1>4, <2>1, WritesInScope DEF Subtree
  <2> QED  BY <1>1, <2>2
<1>8. q.kind = "create" => ~Exists(u, q.id) /\ q.id \notin u.tombstones
  <2> SUFFICES ASSUME q.kind = "create"
               PROVE  ~Exists(u, q.id) /\ q.id \notin u.tombstones
    OBVIOUS
  <2>1. p.scope \cap q.scope = {}
    BY DEF Clash
  <2>2. q.id \notin PlacedBy(p) /\ q.id \notin Gone(p)
    BY <1>4, <2>1, WritesInScope
  <2>3. ~Exists(t, q.id) /\ q.id \notin t.tombstones
    BY DEF Fits, Valid
  <2> QED  BY <1>1, <1>4, <2>2, <2>3 DEF Exists
<1> HIDE DEF u
<1>9. Valid(u, q)
  <2>1. CASE q.kind = "create"
    BY <1>6, <1>8, <2>1 DEF Valid
  <2>2. CASE q.kind \in {"rename", "trash"}
    BY <1>5, <2>2 DEF Valid, Fits
  <2>3. CASE q.kind = "move"
    BY <1>2, <1>5, <1>6, <2>3 DEF Valid, Fits, Acyclic
  <2>4. CASE q.kind = "restore"
    <3>1. q.id \in Subtree(t, q.id)
      BY <1>4, SubtreeIsLeast
    <3> QED  BY <1>2, <1>6, <1>7, <2>4, <3>1 DEF Valid, Fits, Acyclic
  <2>5. CASE q.kind = "purge"
    <3>1. q.id \in Subtree(t, q.id)
      BY <1>4, SubtreeIsLeast
    <3> QED  BY <1>2, <1>7, <2>5, <3>1 DEF Valid, Fits
  <2> QED  BY <1>4, <2>1, <2>2, <2>3, <2>4, <2>5 DEF Operation
<1>10. q.scope = ScopeIn(u, q)
  BY <1>2 DEF Fits, ScopeIn
<1>11. Fits(u, q)
  BY <1>4, <1>8, <1>9, <1>10 DEF Fits
<1> QED  BY <1>11 DEF u

\* A sound tree of a device.
SoundTree == {t \in Tree : Sound(t)}

\* Operations that do not clash can be applied in either order.
LEMMA Commute ==
  ASSUME NEW t \in SoundTree, NEW p, NEW q, Fits(t, p), Fits(t, q), ~Clash(p, q)
  PROVE  /\ After(t, p) \in SoundTree /\ After(t, q) \in SoundTree
         /\ Fits(After(t, p), q) /\ Fits(After(t, q), p)
         /\ After(After(t, p), q) = After(After(t, q), p)
<1>1. ~Clash(q, p)
  BY DEF Clash
<1>2. t \in Tree /\ Sound(t) /\ After(t, p) \in SoundTree /\ After(t, q) \in SoundTree
  BY AfterIsTyped, AfterIsSound DEF SoundTree, Fits
<1>3. Fits(After(t, p), q) /\ Fits(After(t, q), p)
  BY <1>1, <1>2, FitsStays
<1>4. /\ After(t, p) = Written(t, p) /\ After(t, q) = Written(t, q)
      /\ After(After(t, p), q) = Written(After(t, p), q)
      /\ After(After(t, q), p) = Written(After(t, q), p)
  BY <1>2, <1>3, AfterIsWritten DEF SoundTree
<1>5. Written(Written(t, p), q) = Written(Written(t, q), p)
  BY WritesApart, WritesCommute
<1> QED  BY <1>2, <1>3, <1>4, <1>5

\* A set of numbers has a least one.
LEMMA LeastOf ==
  ASSUME NEW S \in SUBSET Nat, S # {}
  PROVE  \E m \in S : \A x \in S : m =< x
<1>1. PICK m \in S : \A x \in S : ~(<<x, m>> \in OpToRel(<, Nat))
  BY NatLessThanWellFounded, WFMin
<1>2. \A x \in S : ~(x < m)
  BY <1>1 DEF OpToRel
<1>3. \A x \in S : m =< x
  BY <1>2
<1> QED  BY <1>3

\* F goes from tree to tree, each step an operation that does not clash with o or
\* nothing.
Moves(F, i, o) ==
  \/ F[i] = F[i - 1]
  \/ \E p : Fits(F[i - 1], p) /\ F[i] = After(F[i - 1], p) /\ ~Clash(p, o)

\* What fits where a walk begins fits all along it.
LEMMA FitsAlong ==
  ASSUME NEW a \in Nat, NEW b \in Nat, NEW F \in [a .. b -> SoundTree], NEW o,
         a =< b, Fits(F[a], o), \A i \in a + 1 .. b : Moves(F, i, o)
  PROVE  \A i \in a .. b : Fits(F[i], o) /\ After(F[i], o) \in SoundTree
<1> DEFINE S == {i \in a .. b : ~Fits(F[i], o)}
<1>1. S = {}
  <2> SUFFICES ASSUME S # {}
               PROVE  FALSE
    OBVIOUS
  <2>0. S \in SUBSET Nat
    OBVIOUS
  <2>1. PICK m \in S : \A x \in S : m =< x
    BY <2>0, LeastOf
  <2>2. m \in a + 1 .. b /\ m - 1 \in a .. b
    BY <2>1
  <2>3. Fits(F[m - 1], o) /\ F[m - 1] \in SoundTree
    BY <2>1, <2>2
  <2>4. Moves(F, m, o)
    BY <2>2
  <2>5. Fits(F[m], o)
    BY <2>3, <2>4, Commute DEF Moves
  <2> QED  BY <2>1, <2>5
<1>2. \A i \in a .. b : Fits(F[i], o)
  BY <1>1
<1> QED  BY <1>2, AfterIsTyped, AfterIsSound DEF SoundTree, Fits

-----------------------------------------------------------------------------
(* The devices and the log *)

\* What a device has heard of its own operations is in the log, and its cursor
\* does not pass the end.
Traced(d) ==
  /\ cursor[d] =< Len(log)
  /\ \A s \in ahead[d] : s \in DOMAIN log /\ log[s].dev = d
  /\ \A i \in DOMAIN queue[d] :
       /\ queue[d][i].base =< Len(log)
       /\ queue[d][i].seq # 0 => queue[d][i].seq \in DOMAIN log /\ log[queue[d][i].seq].dev = d
AllTraced == \A d \in Device : Traced(d)

\* Row i of device d is still to be sequenced.
Unsent(d, i) == i \in DOMAIN queue[d] /\ queue[d][i].seq = 0

\* Devices changed the same part without knowing of each other, or it will turn
\* out so when what waits is sequenced.
Crowded ==
  \/ Contended
  \/ \E d \in Device : \E i \in DOMAIN queue[d] : \E s \in DOMAIN log :
       /\ Unsent(d, i) /\ log[s].dev # d /\ queue[d][i].base < s
       /\ Clash(log[s].op, queue[d][i].op)
  \/ \E d, e \in Device : \E i \in DOMAIN queue[d] : \E j \in DOMAIN queue[e] :
       /\ d # e /\ Unsent(d, i) /\ Unsent(e, j)
       /\ Clash(queue[d][i].op, queue[e][j].op)

\* C leads from the tree of the device through what it has not pulled.
Pulls(d, C) ==
  /\ C \in [cursor[d] .. Len(log) -> SoundTree] /\ C[cursor[d]] = tree[d]
  /\ \A k \in cursor[d] + 1 .. Len(log) :
       IF log[k].dev = d THEN C[k] = C[k - 1]
       ELSE Fits(C[k - 1], log[k].op) /\ C[k] = After(C[k - 1], log[k].op)

\* R leads from the tree of the whole log through what the device still has to send.
Sends(d, whole, R) ==
  /\ R \in [0 .. Len(queue[d]) -> SoundTree] /\ R[0] = whole
  /\ \A i \in 1 .. Len(queue[d]) :
       IF queue[d][i].seq # 0 THEN R[i] = R[i - 1]
       ELSE Fits(R[i - 1], queue[d][i].op) /\ R[i] = After(R[i - 1], queue[d][i].op)

\* Both ways lead to the same tree.
Meets(d, whole) ==
  \E C, R : Pulls(d, C) /\ Sends(d, whole, R) /\ C[Len(log)] = R[Len(queue[d])]

\* Unless devices got in each other's way, there is a tree of the whole log that
\* every device is heading for.
Heading == Crowded \/ \E whole : \A d \in Device : Meets(d, whole)

\* A step leaves the entries of the log where they are, and what is not sequenced
\* stays in its queue unless it is what the log grows by.
Grows ==
  /\ \A s \in DOMAIN log : s \in DOMAIN log' /\ log'[s] = log[s]
  /\ \A d \in Device : \A i \in DOMAIN queue[d] : Unsent(d, i) =>
       \/ \E j \in DOMAIN queue'[d] : queue'[d][j] = queue[d][i]
       \/ log' = Append(log, EntryOf(d, queue[d][i]))

\* A local operation of device d.
Makes(d, op) ==
  /\ op \in Operation /\ Fits(tree[d], op)
  /\ tree' = [tree EXCEPT ![d] = After(tree[d], op)]
  /\ queue' = [queue EXCEPT ![d] = Append(queue[d], [op |-> op, base |-> cursor[d], seq |-> 0])]
  /\ UNCHANGED <<cursor, ahead, log>>

\* Every local operation fits the tree of its maker.
LEMMA MakeFits ==
  ASSUME TypeOK, AllSound, NEW d \in Device,
         NEW kind \in {"create", "rename", "move", "trash", "restore", "purge"},
         NEW n \in Node, NEW p \in Parents, NEW name \in Title \cup {Untitled},
         NEW at \in Time \cup {0}, Make(d, kind, n, p, name, at),
         kind \in {"rename", "trash", "purge"} => p = Absent,
         kind = "create" => n \notin tree[d].tombstones
  PROVE  \E op : Makes(d, op)
<1> DEFINE op == [kind |-> kind, id |-> n, parent |-> p, title |-> name, at |-> at,
                  scope |-> ({n, p} \ {Absent}) \cup
                              (IF kind = "rename" THEN {} ELSE Subtree(tree[d], n))]
<1>1. op \in Operation
  <2>1. Subtree(tree[d], n) \subseteq Node
    BY DEF Subtree
  <2>2. {n, p} \ {Absent} \subseteq Node \cup {Root}
    BY TreeAssumption DEF Parents
  <2> QED  BY <2>1, <2>2 DEF Operation
<1>2. /\ Valid(tree[d], op)
      /\ tree' = [tree EXCEPT ![d] = After(tree[d], op)]
      /\ queue' = [queue EXCEPT ![d] =
                     Append(queue[d], [op |-> op, base |-> cursor[d], seq |-> 0])]
      /\ UNCHANGED <<cursor, ahead, log>>
  BY DEF Make
<1>3. op.kind = kind /\ op.id = n /\ op.parent = p /\ op.scope = ScopeIn(tree[d], op)
  BY DEF ScopeIn
<1> HIDE DEF op
<1>4. Fits(tree[d], op)
  BY <1>1, <1>2, <1>3 DEF Fits
<1> QED  BY <1>1, <1>2, <1>4 DEF Makes

\* Whatever a user does is such an operation.
LEMMA UserMakes ==
  ASSUME TypeOK, AllSound, NEW d \in Device, NEW n \in Node,
         \/ \E p \in Folder \cup {Root} :
              CreateFolder(d, n, p) \/ MoveNode(d, n, p) \/ RestoreSubtree(d, n, p)
         \/ \E name \in Title : RenameNode(d, n, name)
         \/ \E at \in Time : TrashSubtree(d, n, at) \/ PurgeSubtree(d, n, at)
  PROVE  \E op : Makes(d, op)
<1>1. ASSUME NEW p \in Folder \cup {Root}, CreateFolder(d, n, p)
      PROVE  \E op : Makes(d, op)
  BY <1>1, MakeFits DEF CreateFolder, Unused, Parents
<1>2. ASSUME NEW p \in Folder \cup {Root}, MoveNode(d, n, p)
      PROVE  \E op : Makes(d, op)
  BY <1>2, MakeFits DEF MoveNode, Parents
<1>3. ASSUME NEW p \in Folder \cup {Root}, RestoreSubtree(d, n, p)
      PROVE  \E op : Makes(d, op)
  BY <1>3, MakeFits DEF RestoreSubtree, Parents
<1>4. ASSUME NEW name \in Title, RenameNode(d, n, name)
      PROVE  \E op : Makes(d, op)
  BY <1>4, MakeFits DEF RenameNode, Parents
<1>5. ASSUME NEW at \in Time, TrashSubtree(d, n, at)
      PROVE  \E op : Makes(d, op)
  BY <1>5, MakeFits DEF TrashSubtree, Parents
<1>6. ASSUME NEW at \in Time, PurgeSubtree(d, n, at)
      PROVE  \E op : Makes(d, op)
  BY <1>6, MakeFits DEF PurgeSubtree, Parents
<1> QED  BY <1>1, <1>2, <1>3, <1>4, <1>5, <1>6

\* What a step does, for what follows: an operation is made, sequenced,
\* acknowledged or pulled.
LEMMA StepIs ==
  ASSUME TypeOK, AllSound, Next
  PROVE  \E d \in Device :
           \/ \E op : Makes(d, op)
           \/ \E i \in 1 .. Len(queue[d]) : Sequence(d, i)
           \/ Acknowledge(d) \/ PullDuplicate(d) \/ PullEcho(d) \/ PullRemote(d)
<1>1. Fresh \subseteq Node
  BY TreeAssumption
<1> QED  BY <1>1, UserMakes DEF Next

\* The rows of a queue, and the entries of the log, as the definitions read them.
LEMMA RowTypes ==
  ASSUME TypeOK
  PROVE  /\ log \in Seq(Entry) /\ Len(log) \in Nat /\ DOMAIN log = 1 .. Len(log)
         /\ \A d \in Device :
              /\ tree[d] \in Tree /\ cursor[d] \in Nat /\ ahead[d] \in SUBSET Nat
              /\ queue[d] \in Seq(Row) /\ Len(queue[d]) \in Nat
              /\ DOMAIN queue[d] = 1 .. Len(queue[d])
              /\ \A i \in DOMAIN queue[d] : /\ queue[d][i].seq \in Nat /\ queue[d][i].base \in Nat
                                            /\ queue[d][i].op \in Operation
         /\ \A s \in DOMAIN log : log[s].op \in Operation /\ log[s].base \in Nat
<1>1. log \in Seq(Entry) /\ \A d \in Device : queue[d] \in Seq(Row)
  BY DEF TypeOK
<1>2. \A s \in DOMAIN log : log[s] \in Entry
  BY <1>1
<1>3. \A d \in Device : \A i \in DOMAIN queue[d] : queue[d][i] \in Row
  BY <1>1
<1>4. \A s \in DOMAIN log : log[s].op \in Operation /\ log[s].base \in Nat
  BY <1>2 DEF Entry
<1>5. ASSUME NEW d \in Device, NEW i \in DOMAIN queue[d]
      PROVE  /\ queue[d][i].seq \in Nat /\ queue[d][i].base \in Nat
             /\ queue[d][i].op \in Operation
  BY <1>3, <1>5 DEF Row
<1>6. ASSUME NEW d \in Device
      PROVE  /\ tree[d] \in Tree /\ cursor[d] \in Nat /\ ahead[d] \in SUBSET Nat
             /\ Len(queue[d]) \in Nat /\ DOMAIN queue[d] = 1 .. Len(queue[d])
  BY <1>1 DEF TypeOK
<1>7. Len(log) \in Nat /\ DOMAIN log = 1 .. Len(log)
  BY <1>1
<1> QED  BY <1>1, <1>4, <1>5, <1>6, <1>7

\* The service takes row i of device d.
LEMMA SequenceIs ==
  ASSUME TypeOK, NEW d \in Device, NEW i \in 1 .. Len(queue[d]), Sequence(d, i)
  PROVE  /\ Unsent(d, i) /\ \A j \in 1 .. i - 1 : queue[d][j].seq # 0
         /\ log' = Append(log, EntryOf(d, queue[d][i]))
         /\ Len(log') = Len(log) + 1 /\ DOMAIN log' = 1 .. Len(log) + 1
         /\ \A s \in DOMAIN log : log'[s] = log[s]
         /\ log'[Len(log) + 1] = EntryOf(d, queue[d][i])
         /\ \A e \in Device : e # d => queue'[e] = queue[e]
         /\ Len(queue'[d]) = Len(queue[d]) /\ DOMAIN queue'[d] = DOMAIN queue[d]
         /\ \A j \in DOMAIN queue[d] : j # i => queue'[d][j] = queue[d][j]
         /\ queue'[d][i] = [op |-> queue[d][i].op, base |-> queue[d][i].base, seq |-> Len(log) + 1]
         /\ UNCHANGED <<tree, cursor, ahead>>
<1>1. /\ queue[d] \in Seq(Row) /\ log \in Seq(Entry)
      /\ queue[d][i] \in Row /\ DOMAIN queue[d] = 1 .. Len(queue[d]) /\ Len(queue[d]) \in Nat
  BY DEF TypeOK
<1>2. log' = Append(log, EntryOf(d, queue[d][i]))
  BY DEF Sequence
<1>3. EntryOf(d, queue[d][i]) \in Entry
  BY <1>1 DEF EntryOf, Entry, Row
<1>4. /\ Len(log') = Len(log) + 1 /\ DOMAIN log' = 1 .. Len(log) + 1
      /\ \A s \in DOMAIN log : log'[s] = log[s]
      /\ log'[Len(log) + 1] = EntryOf(d, queue[d][i])
  BY <1>1, <1>2, <1>3
<1> DEFINE new == [queue[d][i] EXCEPT !.seq = Len(log) + 1]
<1>5. queue' = [queue EXCEPT ![d] = [queue[d] EXCEPT ![i] = new]]
  BY DEF Sequence
<1>6. new = [op |-> queue[d][i].op, base |-> queue[d][i].base, seq |-> Len(log) + 1]
  BY <1>1 DEF Row
<1> HIDE DEF new
<1>7. queue'[d] = [queue[d] EXCEPT ![i] = new] /\ \A e \in Device : e # d => queue'[e] = queue[e]
  BY <1>5 DEF TypeOK
<1>8. /\ Len(queue'[d]) = Len(queue[d]) /\ DOMAIN queue'[d] = DOMAIN queue[d]
      /\ \A j \in DOMAIN queue[d] : j # i => queue'[d][j] = queue[d][j]
      /\ queue'[d][i] = new
  BY <1>1, <1>7
<1> QED  BY <1>1, <1>2, <1>4, <1>6, <1>7, <1>8 DEF Sequence, Unsent

\* The first row of device d, which is sequenced, leaves the queue.
DropsFirst(d) ==
  /\ queue[d] # << >> /\ queue[d][1].seq # 0
  /\ queue' = [queue EXCEPT ![d] = Tail(queue[d])]

\* The other rows move up, and what is not sequenced stays.
LEMMA DropIs ==
  ASSUME TypeOK, NEW d \in Device, DropsFirst(d)
  PROVE  /\ Len(queue[d]) >= 1 /\ Len(queue'[d]) = Len(queue[d]) - 1
         /\ DOMAIN queue'[d] = 1 .. Len(queue[d]) - 1
         /\ \A j \in DOMAIN queue'[d] : j + 1 \in DOMAIN queue[d] /\ queue'[d][j] = queue[d][j + 1]
         /\ \A e \in Device : e # d => queue'[e] = queue[e]
         /\ \A e \in Device : \A i \in DOMAIN queue[e] : Unsent(e, i) =>
              \E j \in DOMAIN queue'[e] : queue'[e][j] = queue[e][i]
<1>1. queue[d] \in Seq(Row) /\ Len(queue[d]) \in Nat /\ DOMAIN queue[d] = 1 .. Len(queue[d])
  BY RowTypes
<1>2. queue'[d] = Tail(queue[d]) /\ \A e \in Device : e # d => queue'[e] = queue[e]
  BY DEF DropsFirst, TypeOK
<1>3. Len(queue[d]) >= 1
  BY <1>1 DEF DropsFirst
<1>4. /\ Len(queue'[d]) = Len(queue[d]) - 1
      /\ DOMAIN queue'[d] = 1 .. Len(queue[d]) - 1
      /\ \A j \in 1 .. Len(queue[d]) - 1 : queue'[d][j] = queue[d][j + 1]
  BY <1>1, <1>2, <1>3
<1>5. ASSUME NEW i \in DOMAIN queue[d], Unsent(d, i)
      PROVE  \E j \in DOMAIN queue'[d] : queue'[d][j] = queue[d][i]
  <2>1. i # 1
    BY <1>5 DEF Unsent, DropsFirst
  <2>2. i - 1 \in 1 .. Len(queue[d]) - 1 /\ queue'[d][i - 1] = queue[d][(i - 1) + 1] /\ (i - 1) + 1 = i
    BY <1>1, <1>4, <2>1
  <2> QED  BY <1>4, <2>2
<1>6. ASSUME NEW e \in Device, NEW i \in DOMAIN queue[e], Unsent(e, i)
      PROVE  \E j \in DOMAIN queue'[e] : queue'[e][j] = queue[e][i]
  BY <1>2, <1>5, <1>6
<1>7. \A j \in 1 .. Len(queue[d]) - 1 : j + 1 \in DOMAIN queue[d]
  BY <1>1
<1> QED  BY <1>2, <1>3, <1>4, <1>6, <1>7

\* The device learned of its own operation, or it read its own echo.
LEMMA AcknowledgeDrops ==
  ASSUME TypeOK, NEW d \in Device, Acknowledge(d) \/ PullEcho(d)
  PROVE  DropsFirst(d)
<1>1. CASE Acknowledge(d)
  BY <1>1 DEF Acknowledge, DropsFirst
<1>2. CASE PullEcho(d)
  <2>1. cursor'[d] = cursor[d] + 1 /\ cursor[d] \in Nat
    BY <1>2 DEF PullEcho, Advance, TypeOK
  <2> QED  BY <1>2, <2>1 DEF PullEcho, DropsFirst
<1> QED  BY <1>1, <1>2

\* Every step leaves the log's entries and what waits to be sequenced.
LEMMA StepGrows ==
  ASSUME TypeOK, NEW d \in Device,
         \/ \E op : Makes(d, op)
         \/ \E i \in 1 .. Len(queue[d]) : Sequence(d, i)
         \/ Acknowledge(d) \/ PullDuplicate(d) \/ PullEcho(d) \/ PullRemote(d)
  PROVE  Grows
<1>1. ASSUME NEW op, Makes(d, op)
      PROVE  Grows
  <2>1. queue[d] \in Seq(Row) /\ Len(queue[d]) \in Nat /\ DOMAIN queue[d] = 1 .. Len(queue[d])
    BY RowTypes
  <2>2. /\ queue'[d] = Append(queue[d], [op |-> op, base |-> cursor[d], seq |-> 0])
        /\ \A e \in Device : e # d => queue'[e] = queue[e]
        /\ log' = log
    BY <1>1 DEF Makes, TypeOK
  <2>3. \A i \in DOMAIN queue[d] : i \in DOMAIN queue'[d] /\ queue'[d][i] = queue[d][i]
    BY <2>1, <2>2
  <2> QED  BY <2>2, <2>3 DEF Grows
<1>2. ASSUME NEW i \in 1 .. Len(queue[d]), Sequence(d, i)
      PROVE  Grows
  <2>1. DOMAIN log = 1 .. Len(log) /\ Len(log) \in Nat
    BY RowTypes
  <2>2. \A s \in DOMAIN log : s \in DOMAIN log' /\ log'[s] = log[s]
    <3>1. DOMAIN log' = 1 .. Len(log) + 1 /\ \A s \in DOMAIN log : log'[s] = log[s]
      BY <1>2, SequenceIs
    <3> QED  BY <2>1, <3>1
  <2>3. ASSUME NEW e \in Device, NEW j \in DOMAIN queue[e]
        PROVE  \/ \E k \in DOMAIN queue'[e] : queue'[e][k] = queue[e][j]
               \/ log' = Append(log, EntryOf(e, queue[e][j]))
    <3>1. CASE e = d /\ j = i
      BY <1>2, <3>1, SequenceIs
    <3>2. CASE ~(e = d /\ j = i)
      BY <1>2, <3>2, SequenceIs
    <3> QED  BY <3>1, <3>2
  <2> QED  BY <2>2, <2>3 DEF Grows
<1>3. CASE Acknowledge(d) \/ PullEcho(d)
  <2>1. DropsFirst(d) /\ log' = log
    BY <1>3, AcknowledgeDrops DEF Acknowledge, PullEcho
  <2> QED  BY <2>1, DropIs DEF Grows
<1>4. CASE PullDuplicate(d) \/ PullRemote(d)
  BY <1>4 DEF PullDuplicate, PullRemote, Grows
<1> QED  BY <1>1, <1>2, <1>3, <1>4

\* What got in each other's way stays so.
LEMMA CrowdedStays ==
  ASSUME TypeOK, AllTraced, Grows, Crowded
  PROVE  Crowded'
<1>1. \A s \in DOMAIN log : s \in DOMAIN log' /\ log'[s] = log[s]
  BY DEF Grows
<1>2. log \in Seq(Entry) /\ Len(log) \in Nat /\ DOMAIN log = 1 .. Len(log)
  BY RowTypes
<1>3. ASSUME NEW row, NEW d \in Device, log' = Append(log, EntryOf(d, row))
      PROVE  /\ Len(log) + 1 \in DOMAIN log'
             /\ log'[Len(log) + 1].dev = d /\ log'[Len(log) + 1].op = row.op
             /\ log'[Len(log) + 1].base = row.base
  BY <1>2, <1>3 DEF EntryOf
<1>4. CASE Contended
  <2>1. PICK s \in DOMAIN log, t \in DOMAIN log : Concurrent(s, t) /\ Clash(log[s].op, log[t].op)
    BY <1>4 DEF Contended
  <2>2. Concurrent(s, t)' /\ Clash(log[s].op, log[t].op)'
    BY <1>1, <2>1 DEF Concurrent, Clash
  <2> QED  BY <1>1, <2>1, <2>2 DEF Contended, Crowded
<1>5. ASSUME NEW d \in Device, NEW i \in DOMAIN queue[d], NEW s \in DOMAIN log,
             Unsent(d, i), log[s].dev # d, queue[d][i].base < s, Clash(log[s].op, queue[d][i].op)
      PROVE  Crowded'
  <2>1. ASSUME NEW j \in DOMAIN queue'[d], queue'[d][j] = queue[d][i]
        PROVE  Crowded'
    <3>1. Unsent(d, j)' /\ log'[s].dev # d /\ queue'[d][j].base < s /\ s \in DOMAIN log'
          /\ Clash(log[s].op, queue[d][j].op)'
      BY <1>1, <1>5, <2>1 DEF Unsent, Clash
    <3> QED  BY <3>1 DEF Crowded
  <2>2. ASSUME log' = Append(log, EntryOf(d, queue[d][i]))
        PROVE  Crowded'
    <3> DEFINE t == Len(log) + 1
    <3>1. /\ t \in DOMAIN log' /\ log'[t].dev = d /\ log'[t].op = queue[d][i].op
          /\ log'[t].base = queue[d][i].base
      BY <1>3, <2>2
    <3>2. s < t /\ s \in DOMAIN log' /\ log'[s] = log[s]
      BY <1>1, <1>2
    <3> HIDE DEF t
    <3>3. /\ s < t /\ log'[s].dev # log'[t].dev /\ log'[t].base < s
          /\ Clash(log'[s].op, log'[t].op)
      BY <1>5, <3>1, <3>2
    <3>4. Contended'
      BY <3>1, <3>2, <3>3 DEF Contended, Concurrent, Clash
    <3> QED  BY <3>4 DEF Crowded
  <2> QED  BY <1>5, <2>1, <2>2 DEF Grows
<1>6. ASSUME NEW d \in Device, NEW e \in Device, NEW i \in DOMAIN queue[d],
             NEW j \in DOMAIN queue[e], d # e, Unsent(d, i), Unsent(e, j),
             Clash(queue[d][i].op, queue[e][j].op)
      PROVE  Crowded'
  <2>0. queue[d][i].base =< Len(log) /\ queue[e][j].base =< Len(log)
        /\ queue[d][i].base \in Nat /\ queue[e][j].base \in Nat
    BY RowTypes DEF AllTraced, Traced
  <2>1. ASSUME NEW f \in Device, NEW g \in Device, f # g, NEW x \in DOMAIN queue[f], NEW y \in DOMAIN queue[g],
               Unsent(f, x), Unsent(g, y), Clash(queue[f][x].op, queue[g][y].op),
               queue[g][y].base < Len(log) + 1,
               log' = Append(log, EntryOf(f, queue[f][x]))
        PROVE  Crowded'
    <3> DEFINE t == Len(log) + 1
    <3>1. /\ t \in DOMAIN log' /\ log'[t].dev = f /\ log'[t].op = queue[f][x].op
      BY <1>3, <2>1
    <3>2. log' # Append(log, EntryOf(g, queue[g][y]))
      <4> SUFFICES ASSUME log' = Append(log, EntryOf(g, queue[g][y]))
                   PROVE  FALSE
        OBVIOUS
      <4>1. log'[t].dev = g
        BY <1>3
      <4> QED  BY <2>1, <3>1, <4>1
    <3>3. PICK z \in DOMAIN queue'[g] : queue'[g][z] = queue[g][y]
      BY <2>1, <3>2 DEF Grows
    <3>4. queue'[g][z].base < t
      BY <2>1, <3>3
    <3> HIDE DEF t
    <3>5. Unsent(g, z)' /\ log'[t].dev # g /\ Clash(log'[t].op, queue'[g][z].op)
      BY <2>1, <3>1, <3>3 DEF Unsent
    <3> QED  BY <3>1, <3>4, <3>5 DEF Crowded, Clash
  <2>2. Clash(queue[e][j].op, queue[d][i].op)
    BY <1>6 DEF Clash
  <2>3. CASE log' = Append(log, EntryOf(d, queue[d][i]))
    BY <1>2, <1>6, <2>0, <2>1, <2>3
  <2>4. CASE log' = Append(log, EntryOf(e, queue[e][j]))
    BY <1>2, <1>6, <2>0, <2>1, <2>2, <2>4
  <2>5. ASSUME NEW x \in DOMAIN queue'[d], NEW y \in DOMAIN queue'[e],
               queue'[d][x] = queue[d][i], queue'[e][y] = queue[e][j]
        PROVE  Crowded'
    <3>1. Unsent(d, x)' /\ Unsent(e, y)' /\ Clash(queue[d][x].op, queue[e][y].op)'
      BY <1>6, <2>5 DEF Unsent, Clash
    <3> QED  BY <1>6, <3>1 DEF Crowded
  <2> QED  BY <1>6, <2>3, <2>4, <2>5 DEF Grows
<1> QED  BY <1>4, <1>5, <1>6 DEF Crowded

\* One device is traced as before.
LEMMA TracedStays ==
  ASSUME NEW e \in Device, Traced(e), Len(log) =< Len(log'), Len(log) \in Nat, Len(log') \in Nat,
         \A s \in DOMAIN log : s \in DOMAIN log' /\ log'[s] = log[s],
         \A i \in DOMAIN queue[e] : queue[e][i].base \in Nat,
         cursor'[e] =< Len(log'),
         \A s \in ahead'[e] : s \in ahead[e] \/ (s \in DOMAIN log /\ log[s].dev = e),
         \A i \in DOMAIN queue'[e] :
           \/ \E j \in DOMAIN queue[e] : queue'[e][i] = queue[e][j]
           \/ /\ queue'[e][i].base =< Len(log')
              /\ queue'[e][i].seq # 0 =>
                   queue'[e][i].seq \in DOMAIN log' /\ log'[queue'[e][i].seq].dev = e
  PROVE  Traced(e)'
<1>1. \A s \in ahead'[e] : s \in DOMAIN log' /\ log'[s].dev = e
  BY DEF Traced
<1>2. ASSUME NEW i \in DOMAIN queue'[e], NEW j \in DOMAIN queue[e], queue'[e][i] = queue[e][j]
      PROVE  /\ queue'[e][i].base =< Len(log')
             /\ queue'[e][i].seq # 0 =>
                  queue'[e][i].seq \in DOMAIN log' /\ log'[queue'[e][i].seq].dev = e
  BY <1>2 DEF Traced
<1> QED  BY <1>1, <1>2 DEF Traced

\* What the devices know of the log stays true, whatever the step.
LEMMA TracedKept ==
  ASSUME TypeOK, AllTraced, NEW d \in Device,
         \/ \E op : Makes(d, op)
         \/ \E i \in 1 .. Len(queue[d]) : Sequence(d, i)
         \/ Acknowledge(d) \/ PullDuplicate(d) \/ PullEcho(d) \/ PullRemote(d)
  PROVE  AllTraced'
<1>0. /\ \A e \in Device : Traced(e)
      /\ \A e \in Device : \A i \in DOMAIN queue[e] : queue[e][i].base \in Nat
      /\ \A e \in Device : cursor[e] \in Nat /\ cursor[e] =< Len(log)
      /\ Len(log) \in Nat /\ DOMAIN log = 1 .. Len(log)
      /\ DOMAIN queue[d] = 1 .. Len(queue[d]) /\ Len(queue[d]) \in Nat /\ queue[d] \in Seq(Row)
  BY RowTypes DEF AllTraced, Traced
<1>1. ASSUME NEW op, Makes(d, op)
      PROVE  AllTraced'
  <2>1. /\ queue'[d] = Append(queue[d], [op |-> op, base |-> cursor[d], seq |-> 0])
        /\ \A e \in Device : e # d => queue'[e] = queue[e]
        /\ log' = log /\ cursor' = cursor /\ ahead' = ahead
    BY <1>1 DEF Makes, TypeOK
  <2>2. \A i \in DOMAIN queue'[d] :
           \/ i \in DOMAIN queue[d] /\ queue'[d][i] = queue[d][i]
           \/ queue'[d][i].base = cursor[d] /\ queue'[d][i].seq = 0
    BY <1>0, <2>1
  <2>3. ASSUME NEW e \in Device
        PROVE  Traced(e)'
    BY <1>0, <2>1, <2>2, TracedStays
  <2> QED  BY <2>3 DEF AllTraced
<1>2. ASSUME NEW i \in 1 .. Len(queue[d]), Sequence(d, i)
      PROVE  AllTraced'
  <2>1. /\ Len(log') = Len(log) + 1 /\ DOMAIN log' = 1 .. Len(log) + 1
        /\ \A s \in DOMAIN log : log'[s] = log[s]
        /\ log'[Len(log) + 1].dev = d
        /\ \A e \in Device : e # d => queue'[e] = queue[e]
        /\ DOMAIN queue'[d] = DOMAIN queue[d]
        /\ \A j \in DOMAIN queue[d] : j # i => queue'[d][j] = queue[d][j]
        /\ queue'[d][i].base = queue[d][i].base /\ queue'[d][i].seq = Len(log) + 1
        /\ cursor' = cursor /\ ahead' = ahead
    <3>1. /\ Len(log') = Len(log) + 1 /\ DOMAIN log' = 1 .. Len(log) + 1
          /\ \A s \in DOMAIN log : log'[s] = log[s]
          /\ \A e \in Device : e # d => queue'[e] = queue[e]
          /\ DOMAIN queue'[d] = DOMAIN queue[d]
          /\ \A j \in DOMAIN queue[d] : j # i => queue'[d][j] = queue[d][j]
          /\ cursor' = cursor /\ ahead' = ahead
      BY <1>2, SequenceIs
    <3>2. log'[Len(log) + 1] = EntryOf(d, queue[d][i])
      BY <1>2, SequenceIs
    <3>3. queue'[d][i] = [op |-> queue[d][i].op, base |-> queue[d][i].base, seq |-> Len(log) + 1]
      BY <1>2, SequenceIs
    <3>4. log'[Len(log) + 1].dev = d
      BY <3>2 DEF EntryOf
    <3>5. queue'[d][i].base = queue[d][i].base /\ queue'[d][i].seq = Len(log) + 1
      BY <3>3
    <3> QED  BY <3>1, <3>4, <3>5
  <2>2. /\ Len(log) =< Len(log') /\ Len(log') \in Nat
        /\ \A s \in DOMAIN log : s \in DOMAIN log' /\ log'[s] = log[s]
        /\ \A e \in Device : cursor'[e] =< Len(log')
    BY <1>0, <2>1
  <2>3. /\ queue'[d][i].base =< Len(log') /\ queue'[d][i].seq \in DOMAIN log'
        /\ log'[queue'[d][i].seq].dev = d
    BY <1>0, <2>1 DEF Traced
  <2>4. \A j \in DOMAIN queue'[d] :
           \/ j \in DOMAIN queue[d] /\ queue'[d][j] = queue[d][j]
           \/ /\ queue'[d][j].base =< Len(log') /\ queue'[d][j].seq \in DOMAIN log'
              /\ log'[queue'[d][j].seq].dev = d
    BY <2>1, <2>3
  <2>5. ASSUME NEW e \in Device
        PROVE  Traced(e)'
    <3>1. CASE e = d
      BY <1>0, <2>1, <2>2, <2>4, <3>1, TracedStays
    <3>2. CASE e # d
      BY <1>0, <2>1, <2>2, <3>2, TracedStays
    <3> QED  BY <3>1, <3>2
  <2> QED  BY <2>5 DEF AllTraced
<1>3. CASE Acknowledge(d)
  <2>1. DropsFirst(d)
    BY <1>3, AcknowledgeDrops
  <2>2. /\ \A j \in DOMAIN queue'[d] : j + 1 \in DOMAIN queue[d] /\ queue'[d][j] = queue[d][j + 1]
        /\ \A e \in Device : e # d => queue'[e] = queue[e]
        /\ 1 \in DOMAIN queue[d]
    BY <1>0, <2>1, DropIs
  <2> DEFINE s == queue[d][1].seq
  <2>3. s \in DOMAIN log /\ log[s].dev = d
    BY <1>0, <2>1, <2>2 DEF Traced, DropsFirst
  <2>4. /\ log' = log
        /\ \/ cursor' = [cursor EXCEPT ![d] = s] /\ ahead' = ahead
           \/ ahead' = [ahead EXCEPT ![d] = ahead[d] \cup {s}] /\ cursor' = cursor
    BY <1>3 DEF Acknowledge
  <2> HIDE DEF s
  <2>5. /\ \A e \in Device : cursor'[e] =< Len(log)
        /\ \A e \in Device : \A x \in ahead'[e] :
             x \in ahead[e] \/ (x \in DOMAIN log /\ log[x].dev = e)
    <3>1. s =< Len(log)
      BY <1>0, <2>3
    <3>2. cursor \in [Device -> Nat] /\ ahead \in [Device -> SUBSET Nat]
      BY DEF TypeOK
    <3>3. CASE cursor' = [cursor EXCEPT ![d] = s] /\ ahead' = ahead
      BY <1>0, <3>1, <3>2, <3>3
    <3>4. CASE ahead' = [ahead EXCEPT ![d] = ahead[d] \cup {s}] /\ cursor' = cursor
      <4>1. \A e \in Device : \A x \in ahead'[e] : x \in ahead[e] \/ (e = d /\ x = s)
        BY <3>2, <3>4
      <4> QED  BY <1>0, <2>3, <3>4, <4>1
    <3> QED  BY <2>4, <3>3, <3>4
  <2>6. ASSUME NEW e \in Device
        PROVE  Traced(e)'
    <3>1. CASE e = d
      BY <1>0, <2>2, <2>4, <2>5, <3>1, TracedStays
    <3>2. CASE e # d
      BY <1>0, <2>2, <2>4, <2>5, <3>2, TracedStays
    <3> QED  BY <3>1, <3>2
  <2> QED  BY <2>6 DEF AllTraced
<1>4. CASE PullDuplicate(d) \/ PullEcho(d) \/ PullRemote(d)
  <2>1. /\ cursor[d] < Len(log) /\ cursor' = [cursor EXCEPT ![d] = cursor[d] + 1]
        /\ log' = log
    BY <1>4 DEF PullDuplicate, PullEcho, PullRemote, Advance
  <2>2. \A e \in Device : cursor'[e] =< Len(log)
    BY <1>0, <2>1 DEF TypeOK
  <2>3. \A e \in Device : \A x \in ahead'[e] : x \in ahead[e]
    BY <1>4 DEF PullDuplicate, PullEcho, PullRemote, TypeOK
  <2>4. \A e \in Device : \A i \in DOMAIN queue'[e] :
          \E j \in DOMAIN queue[e] : queue'[e][i] = queue[e][j]
    <3>1. CASE PullEcho(d)
      BY <1>0, <3>1, AcknowledgeDrops, DropIs
    <3>2. CASE PullDuplicate(d) \/ PullRemote(d)
      BY <3>2 DEF PullDuplicate, PullRemote
    <3> QED  BY <1>4, <3>1, <3>2
  <2>5. ASSUME NEW e \in Device
        PROVE  Traced(e)'
    BY <1>0, <2>1, <2>2, <2>3, <2>4, TracedStays
  <2> QED  BY <2>5 DEF AllTraced
<1> QED  BY <1>1, <1>2, <1>3, <1>4

-----------------------------------------------------------------------------
(* Every device heads for one tree *)

\* A device that takes no part goes where it went.
LEMMA MeetsFrame ==
  ASSUME NEW e \in Device, NEW whole, Meets(e, whole), log' = log,
         queue'[e] = queue[e], tree'[e] = tree[e], cursor'[e] = cursor[e]
  PROVE  Meets(e, whole)'
<1>1. PICK C, R : Pulls(e, C) /\ Sends(e, whole, R) /\ C[Len(log)] = R[Len(queue[e])]
  BY DEF Meets
<1>2. Pulls(e, C)'
  BY <1>1 DEF Pulls
<1>3. Sends(e, whole, R)'
  BY <1>1 DEF Sends
<1>4. C[Len(log')] = R[Len(queue'[e])]
  BY <1>1
<1> QED  BY <1>2, <1>3, <1>4 DEF Meets

\* The cursor goes on to what the way of the device leads to.
LEMMA PullsOn ==
  ASSUME TypeOK, NEW d \in Device, NEW C, Pulls(d, C), log' = log,
         cursor'[d] = cursor[d] + 1, cursor[d] < Len(log), tree'[d] = C[cursor[d] + 1]
  PROVE  \E D : Pulls(d, D)' /\ D[Len(log')] = C[Len(log)]
<1>0. cursor[d] \in Nat /\ Len(log) \in Nat
  BY RowTypes
<1>1. PICK D : D = [k \in cursor[d] + 1 .. Len(log) |-> C[k]]
  OBVIOUS
<1>2. C \in [cursor[d] .. Len(log) -> SoundTree]
  BY DEF Pulls
<1>3. D \in [cursor[d] + 1 .. Len(log) -> SoundTree]
  BY <1>0, <1>1, <1>2
<1>4. \A k \in cursor[d] + 1 .. Len(log) : D[k] = C[k]
  BY <1>1
<1>5. D[cursor[d] + 1] = tree'[d] /\ D[Len(log)] = C[Len(log)]
  BY <1>0, <1>4
<1>6. ASSUME NEW k \in (cursor[d] + 1) + 1 .. Len(log)
      PROVE  IF log[k].dev = d THEN D[k] = D[k - 1]
             ELSE Fits(D[k - 1], log[k].op) /\ D[k] = After(D[k - 1], log[k].op)
  <2>1. k \in cursor[d] + 1 .. Len(log) /\ k - 1 \in cursor[d] + 1 .. Len(log)
    BY <1>0
  <2>2. D[k] = C[k] /\ D[k - 1] = C[k - 1]
    BY <1>4, <2>1
  <2> QED  BY <2>1, <2>2 DEF Pulls
<1>7. Pulls(d, D)'
  BY <1>3, <1>5, <1>6 DEF Pulls
<1> QED  BY <1>5, <1>7

\* A sequenced row is no part of what the device has to send.
LEMMA SendsOn ==
  ASSUME TypeOK, NEW d \in Device, NEW whole, NEW R, Sends(d, whole, R), DropsFirst(d)
  PROVE  \E Q : Sends(d, whole, Q)' /\ Q[Len(queue'[d])] = R[Len(queue[d])]
<1>1. /\ Len(queue[d]) \in Nat /\ Len(queue[d]) >= 1
      /\ Len(queue'[d]) = Len(queue[d]) - 1 /\ DOMAIN queue'[d] = 1 .. Len(queue[d]) - 1
      /\ \A j \in DOMAIN queue'[d] : queue'[d][j] = queue[d][j + 1]
  BY RowTypes, DropIs
<1>2. PICK Q : Q = [i \in 0 .. Len(queue[d]) - 1 |-> R[i + 1]]
  OBVIOUS
<1>3. R \in [0 .. Len(queue[d]) -> SoundTree] /\ R[0] = whole
  BY DEF Sends
<1>4. Q \in [0 .. Len(queue[d]) - 1 -> SoundTree]
  BY <1>1, <1>2, <1>3
<1>5. \A i \in 0 .. Len(queue[d]) - 1 : Q[i] = R[i + 1]
  BY <1>2
<1>6. Q[0] = whole /\ Q[Len(queue[d]) - 1] = R[Len(queue[d])]
  <2>1. 1 \in 1 .. Len(queue[d]) /\ queue[d][1].seq # 0
    BY <1>1 DEF DropsFirst
  <2>2. R[1] = R[1 - 1]
    BY <2>1 DEF Sends
  <2>3. Q[0] = R[0 + 1] /\ Q[Len(queue[d]) - 1] = R[(Len(queue[d]) - 1) + 1]
    BY <1>1, <1>5
  <2> QED  BY <1>1, <1>3, <2>2, <2>3
<1>7. ASSUME NEW i \in 1 .. Len(queue[d]) - 1
      PROVE  IF queue'[d][i].seq # 0 THEN Q[i] = Q[i - 1]
             ELSE Fits(Q[i - 1], queue'[d][i].op) /\ Q[i] = After(Q[i - 1], queue'[d][i].op)
  <2>1. i \in 0 .. Len(queue[d]) - 1 /\ i - 1 \in 0 .. Len(queue[d]) - 1
        /\ i + 1 \in 1 .. Len(queue[d]) /\ (i + 1) - 1 = i /\ (i - 1) + 1 = i
    BY <1>1
  <2>2. Q[i] = R[i + 1] /\ Q[i - 1] = R[i] /\ queue'[d][i] = queue[d][i + 1]
    BY <1>1, <1>5, <2>1
  <2> QED  BY <2>1, <2>2 DEF Sends
<1>8. Sends(d, whole, Q)'
  BY <1>1, <1>4, <1>6, <1>7 DEF Sends
<1> QED  BY <1>1, <1>6, <1>8

\* A device takes another's operation that fits its tree, unless the operation
\* would change nothing.
LEMMA FittingIsTaken ==
  ASSUME NEW t \in SoundTree, NEW op, Fits(t, op)
  PROVE  \/ Takes(t, op) /\ Valid(t, op)
         \/ After(t, op) = t
<1>1. t \in Tree /\ Sound(t) /\ Valid(t, op) /\ op \in Operation /\ op.id \in Node
  BY DEF SoundTree, Fits, Operation
<1>2. Root \notin t.tombstones /\ Absent \notin t.tombstones
  BY <1>1, TreeAssumption DEF Tree
<1>3. op.kind \in {"create", "move", "restore"} => op.parent \notin t.tombstones
  <2> SUFFICES ASSUME op.kind \in {"create", "move", "restore"}
               PROVE  op.parent \notin t.tombstones
    OBVIOUS
  <2>1. HoldsChildren(t, op.parent)
    BY WritesInScope
  <2> QED  BY <1>1, <1>2, <2>1, HolderIsThere DEF Sound
<1>4. op.kind \in {"rename", "trash", "purge"} => op.parent \notin t.tombstones
  BY <1>2 DEF Fits
<1>5. Exists(t, op.id) => op.id \notin t.tombstones
  BY <1>1 DEF Sound
<1>6. op.id \in Subtree(t, op.id)
  BY <1>1, SubtreeIsLeast
<1>7. CASE op.kind = "create"
  BY <1>1, <1>3, <1>7 DEF Takes, Tombstoned, Fits, Valid
<1>8. CASE op.kind = "rename"
  <2>1. Available(t, op.id) /\ ~Tombstoned(t, op)
    BY <1>1, <1>4, <1>5, <1>8 DEF Valid, Available, Tombstoned
  <2>2. CASE t.title[op.id] # op.title
    BY <1>1, <1>8, <2>1, <2>2 DEF Takes
  <2>3. CASE t.title[op.id] = op.title
    BY <1>1, <1>8, <2>3 DEF After, Tree
  <2> QED  BY <2>2, <2>3
<1>9. CASE op.kind = "move"
  BY <1>1, <1>3, <1>5, <1>9 DEF Takes, Tombstoned, Valid, Available
<1>10. CASE op.kind = "trash"
  BY <1>1, <1>4, <1>5, <1>6, <1>10 DEF Takes, Tombstoned, Valid, Available
<1>11. CASE op.kind = "restore"
  <2>1. t.deleted[op.id] # 0
    BY <1>1, <1>11 DEF Valid
  <2> QED  BY <1>1, <1>3, <1>5, <1>11, <2>1 DEF Takes, Tombstoned, Sound
<1>12. CASE op.kind = "purge"
  <2>1. t.deleted[op.id] # 0
    BY <1>1, <1>12 DEF Valid
  <2> QED  BY <1>1, <1>4, <1>5, <1>12, <2>1 DEF Takes, Tombstoned, Sound
<1> QED  BY <1>1, <1>7, <1>8, <1>9, <1>10, <1>11, <1>12 DEF Operation

\* A device makes an operation: it can be applied all along what the device still
\* has to pull.
LEMMA MakesMeets ==
  ASSUME TypeOK, AllTraced, NEW d \in Device, NEW o, Makes(d, o), ~Crowded',
         NEW whole, Meets(d, whole)
  PROVE  Meets(d, whole)'
<1> DEFINE c == cursor[d]
           L == Len(log)
           N == Len(queue[d])
           row == [op |-> o, base |-> c, seq |-> 0]
<1>1. PICK C, R : Pulls(d, C) /\ Sends(d, whole, R) /\ C[L] = R[N]
  BY DEF Meets
<1>2. c \in Nat /\ L \in Nat /\ c =< L /\ N \in Nat /\ DOMAIN queue[d] = 1 .. N
      /\ queue[d] \in Seq(Row)
  BY RowTypes DEF AllTraced, Traced
<1>3. /\ Fits(tree[d], o) /\ tree'[d] = After(tree[d], o)
      /\ queue'[d] = Append(queue[d], row)
      /\ log' = log /\ cursor' = cursor
  BY DEF Makes, TypeOK
<1>4. /\ DOMAIN queue'[d] = 1 .. N + 1 /\ Len(queue'[d]) = N + 1
      /\ \A i \in 1 .. N : queue'[d][i] = queue[d][i]
      /\ queue'[d][N + 1] = row
  BY <1>2, <1>3
<1>5. row.op = o /\ row.base = c /\ row.seq = 0
  OBVIOUS
<1>6. /\ C \in [c .. L -> SoundTree] /\ C[c] = tree[d]
      /\ \A k \in c + 1 .. L :
           IF log[k].dev = d THEN C[k] = C[k - 1]
           ELSE Fits(C[k - 1], log[k].op) /\ C[k] = After(C[k - 1], log[k].op)
  BY <1>1 DEF Pulls
<1>7. ASSUME NEW k \in c + 1 .. L, log[k].dev # d
      PROVE  ~Clash(log[k].op, o)
  <2> SUFFICES ASSUME Clash(log[k].op, o)
               PROVE  FALSE
    OBVIOUS
  <2>1. N + 1 \in DOMAIN queue'[d] /\ k \in DOMAIN log
    BY <1>2, <1>4, RowTypes
  <2>2. PICK n : n = N + 1
    OBVIOUS
  <2>3. n \in DOMAIN queue'[d] /\ queue'[d][n].seq = 0 /\ queue'[d][n].base < k
        /\ queue'[d][n].op = o
    BY <1>2, <1>4, <1>5, <2>1, <2>2
  <2>4. Unsent(d, n)'
    BY <2>3 DEF Unsent
  <2>5. Clash(log'[k].op, queue'[d][n].op) /\ k \in DOMAIN log' /\ log'[k].dev # d
    BY <1>3, <1>7, <2>1, <2>3
  <2>6. Crowded'
    BY <2>3, <2>4, <2>5 DEF Crowded, Clash
  <2> QED  BY <2>6
<1> HIDE DEF c, L, N, row
<1>8. \A k \in c + 1 .. L : Moves(C, k, o)
  BY <1>6, <1>7 DEF Moves
<1>9. \A k \in c .. L : Fits(C[k], o) /\ After(C[k], o) \in SoundTree
  BY <1>2, <1>3, <1>6, <1>8, FitsAlong
<1>10. ASSUME NEW k \in c + 1 .. L, NEW p,
              Fits(C[k - 1], p), C[k] = After(C[k - 1], p), ~Clash(p, o)
       PROVE  Fits(After(C[k - 1], o), p) /\ After(C[k], o) = After(After(C[k - 1], o), p)
  <2>1. k - 1 \in c .. L
    BY <1>2
  <2> QED  BY <1>6, <1>9, <1>10, <2>1, Commute
<1>11. PICK D : D = [k \in c .. L |-> After(C[k], o)]
  OBVIOUS
<1>12. \A k \in c .. L : D[k] = After(C[k], o)
  BY <1>11
<1>13. D \in [c .. L -> SoundTree] /\ D[c] = tree'[d]
  BY <1>2, <1>3, <1>6, <1>9, <1>11
<1>14. ASSUME NEW k \in c + 1 .. L
       PROVE  IF log[k].dev = d THEN D[k] = D[k - 1]
              ELSE Fits(D[k - 1], log[k].op) /\ D[k] = After(D[k - 1], log[k].op)
  <2>1. D[k] = After(C[k], o) /\ D[k - 1] = After(C[k - 1], o)
    BY <1>2, <1>12
  <2> QED  BY <1>6, <1>7, <1>10, <2>1
<1>15. Pulls(d, D)'
  BY <1>3, <1>13, <1>14 DEF Pulls, c, L
<1>16. PICK Q : Q = [i \in 0 .. N + 1 |-> IF i = N + 1 THEN After(R[N], o) ELSE R[i]]
  OBVIOUS
<1>17. /\ R \in [0 .. N -> SoundTree] /\ R[0] = whole
       /\ \A i \in 1 .. N :
            IF queue[d][i].seq # 0 THEN R[i] = R[i - 1]
            ELSE Fits(R[i - 1], queue[d][i].op) /\ R[i] = After(R[i - 1], queue[d][i].op)
  BY <1>1 DEF Sends, N
<1>18. Fits(R[N], o) /\ After(R[N], o) \in SoundTree
  BY <1>1, <1>2, <1>9
<1>19. \A i \in 0 .. N : Q[i] = R[i]
  BY <1>2, <1>16
<1>20. Q[N + 1] = After(R[N], o)
  BY <1>2, <1>16
<1>21. Q \in [0 .. N + 1 -> SoundTree]
  BY <1>2, <1>16, <1>17, <1>18
<1>22. ASSUME NEW i \in 1 .. N + 1
       PROVE  IF queue'[d][i].seq # 0 THEN Q[i] = Q[i - 1]
              ELSE Fits(Q[i - 1], queue'[d][i].op) /\ Q[i] = After(Q[i - 1], queue'[d][i].op)
  <2>1. CASE i = N + 1
    <3>1. Q[i - 1] = R[N]
      BY <1>2, <1>19, <2>1
    <3> QED  BY <1>4, <1>5, <1>18, <1>20, <2>1, <3>1
  <2>2. CASE i # N + 1
    <3>1. i \in 1 .. N /\ Q[i] = R[i] /\ Q[i - 1] = R[i - 1]
      BY <1>2, <1>19, <2>2
    <3> QED  BY <1>4, <1>17, <3>1
  <2> QED  BY <2>1, <2>2
<1>23. Q[0] = whole
  BY <1>2, <1>17, <1>19
<1>24. Sends(d, whole, Q)'
  BY <1>4, <1>21, <1>22, <1>23 DEF Sends
<1>25. D[L] = Q[N + 1]
  BY <1>1, <1>2, <1>12, <1>20
<1>26. D[Len(log')] = Q[Len(queue'[d])]
  BY <1>3, <1>4, <1>25 DEF L
<1> QED  BY <1>15, <1>24, <1>26 DEF Meets

\* Up to the first row to be sequenced a device sends nothing new.
LEMMA LevelUpTo ==
  ASSUME NEW n \in Nat, NEW i \in 1 .. n, NEW F, \A j \in 1 .. i - 1 : F[j] = F[j - 1]
  PROVE  F[i - 1] = F[0]
<1> DEFINE S == {j \in 0 .. i - 1 : F[j] # F[0]}
<1>1. ASSUME S # {}
      PROVE  FALSE
  <2>1. S \in SUBSET Nat
    OBVIOUS
  <2>2. PICK m \in S : \A x \in S : m =< x
    BY <1>1, <2>1, LeastOf
  <2>3. m \in 1 .. i - 1 /\ m - 1 \in 0 .. i - 1
    BY <2>2
  <2>4. F[m - 1] = F[0]
    BY <2>2, <2>3
  <2> QED  BY <2>2, <2>3, <2>4
<1>2. i - 1 \in 0 .. i - 1
  OBVIOUS
<1> QED  BY <1>1, <1>2

\* The service takes a row: its device has this behind it.
LEMMA SequenceMeetsOwn ==
  ASSUME TypeOK, AllTraced, NEW d \in Device, NEW i \in 1 .. Len(queue[d]), Sequence(d, i),
         NEW whole, Meets(d, whole), NEW o, o = queue[d][i].op, NEW next, next = After(whole, o)
  PROVE  whole \in SoundTree /\ Fits(whole, o) /\ Meets(d, next)'
<1> DEFINE c == cursor[d]
           L == Len(log)
           N == Len(queue[d])
<1>1. PICK C, R : Pulls(d, C) /\ Sends(d, whole, R) /\ C[L] = R[N]
  BY DEF Meets
<1>2. c \in Nat /\ L \in Nat /\ c =< L /\ N \in Nat /\ DOMAIN queue[d] = 1 .. N
      /\ DOMAIN log = 1 .. L
  BY RowTypes DEF AllTraced, Traced
<1>3. /\ queue[d][i].seq = 0 /\ \A j \in 1 .. i - 1 : queue[d][j].seq # 0
      /\ Len(log') = L + 1 /\ \A s \in DOMAIN log : log'[s] = log[s]
      /\ Len(queue'[d]) = N
      /\ \A j \in DOMAIN queue[d] : j # i => queue'[d][j] = queue[d][j]
      /\ tree' = tree /\ cursor' = cursor
  BY SequenceIs DEF Unsent
<1>4. log'[L + 1].dev = d
  <2>1. log'[L + 1] = EntryOf(d, queue[d][i])
    BY SequenceIs
  <2> QED  BY <2>1 DEF EntryOf
<1>5. queue'[d][i].seq = L + 1
  <2>1. queue'[d][i] = [op |-> queue[d][i].op, base |-> queue[d][i].base, seq |-> L + 1]
    BY SequenceIs
  <2> QED  BY <2>1
<1>6. /\ C \in [c .. L -> SoundTree] /\ C[c] = tree[d]
      /\ \A k \in c + 1 .. L :
           IF log[k].dev = d THEN C[k] = C[k - 1]
           ELSE Fits(C[k - 1], log[k].op) /\ C[k] = After(C[k - 1], log[k].op)
  BY <1>1 DEF Pulls
<1>7. /\ R \in [0 .. N -> SoundTree] /\ R[0] = whole
      /\ \A j \in 1 .. N :
           IF queue[d][j].seq # 0 THEN R[j] = R[j - 1]
           ELSE Fits(R[j - 1], queue[d][j].op) /\ R[j] = After(R[j - 1], queue[d][j].op)
  BY <1>1 DEF Sends
<1>8. R[i - 1] = R[0]
  <2>1. \A j \in 1 .. i - 1 : R[j] = R[j - 1]
    BY <1>2, <1>3, <1>7
  <2> HIDE DEF N
  <2> QED  BY <1>2, <2>1, LevelUpTo DEF N
<1>9. i \in 1 .. N /\ i - 1 \in 0 .. N /\ i \in 0 .. N /\ 0 \in 0 .. N
  BY <1>2
<1>10. Fits(whole, o) /\ R[i] = After(whole, o) /\ whole \in SoundTree /\ R[i] \in SoundTree
  <2>1. Fits(R[i - 1], o) /\ R[i] = After(R[i - 1], o)
    BY <1>3, <1>7, <1>9
  <2> QED  BY <1>7, <1>8, <1>9, <2>1
<1> HIDE DEF c, L, N
<1>11. PICK D : D = [k \in c .. L + 1 |-> IF k = L + 1 THEN C[L] ELSE C[k]]
  OBVIOUS
<1>12. D[L + 1] = C[L] /\ \A k \in c .. L : D[k] = C[k]
  BY <1>2, <1>11
<1>13. D \in [c .. L + 1 -> SoundTree] /\ D[c] = tree'[d]
  BY <1>2, <1>3, <1>6, <1>11, <1>12
<1>14. ASSUME NEW k \in c + 1 .. L + 1
       PROVE  IF log'[k].dev = d THEN D[k] = D[k - 1]
              ELSE Fits(D[k - 1], log'[k].op) /\ D[k] = After(D[k - 1], log'[k].op)
  <2>1. CASE k = L + 1
    <3>1. D[k - 1] = C[L]
      BY <1>2, <1>12, <2>1
    <3> QED  BY <1>4, <1>12, <2>1, <3>1
  <2>2. CASE k # L + 1
    <3>1. k \in c + 1 .. L /\ k \in DOMAIN log /\ D[k] = C[k] /\ D[k - 1] = C[k - 1]
      BY <1>2, <1>12, <2>2
    <3> QED  BY <1>3, <1>6, <3>1
  <2> QED  BY <2>1, <2>2
<1>15. Pulls(d, D)'
  BY <1>3, <1>13, <1>14 DEF Pulls, c
<1>16. PICK Q : Q = [j \in 0 .. N |-> IF j =< i THEN R[i] ELSE R[j]]
  OBVIOUS
<1>17. \A j \in 0 .. N : Q[j] = IF j =< i THEN R[i] ELSE R[j]
  BY <1>16
<1>18. Q \in [0 .. N -> SoundTree] /\ Q[0] = next /\ Q[N] = R[N]
  <2>1. Q \in [0 .. N -> SoundTree]
    BY <1>2, <1>7, <1>10, <1>16
  <2>2. Q[0] = R[i]
    BY <1>2, <1>9, <1>17
  <2>3. Q[N] = R[N]
    BY <1>2, <1>9, <1>17
  <2> QED  BY <1>10, <2>1, <2>2, <2>3
<1>19. ASSUME NEW j \in 1 .. N
       PROVE  IF queue'[d][j].seq # 0 THEN Q[j] = Q[j - 1]
              ELSE Fits(Q[j - 1], queue'[d][j].op) /\ Q[j] = After(Q[j - 1], queue'[d][j].op)
  <2>0. j \in 0 .. N /\ j - 1 \in 0 .. N
    BY <1>2
  <2>1. CASE j =< i
    <3>1. Q[j] = R[i] /\ Q[j - 1] = R[i]
      BY <1>9, <1>17, <2>0, <2>1
    <3>2. queue'[d][j].seq # 0
      <4>1. CASE j = i
        BY <1>2, <1>5, <4>1
      <4>2. CASE j # i
        <5>1. j \in 1 .. i - 1 /\ j \in DOMAIN queue[d]
          BY <1>2, <1>9, <2>1, <4>2
        <5> QED  BY <1>3, <4>2, <5>1
      <4> QED  BY <4>1, <4>2
    <3> QED  BY <3>1, <3>2
  <2>2. CASE j > i
    <3>1. Q[j] = R[j] /\ Q[j - 1] = R[j - 1]
      <4>1. Q[j] = R[j]
        BY <1>9, <1>17, <2>0, <2>2
      <4>2. CASE j - 1 = i
        BY <1>9, <1>17, <2>0, <4>2
      <4>3. CASE j - 1 # i
        <5>1. ~(j - 1 =< i)
          BY <1>2, <1>9, <2>2, <4>3
        <5> QED  BY <1>17, <2>0, <4>1, <5>1
      <4> QED  BY <4>1, <4>2, <4>3
    <3>2. queue'[d][j] = queue[d][j]
      <4>1. j \in DOMAIN queue[d] /\ j # i
        BY <1>2, <1>9, <2>2
      <4> QED  BY <1>3, <4>1
    <3> QED  BY <1>7, <3>1, <3>2
  <2> QED  BY <1>9, <2>1, <2>2
<1>20. Sends(d, next, Q)'
  BY <1>3, <1>18, <1>19 DEF Sends
<1>21. D[Len(log')] = Q[Len(queue'[d])]
  BY <1>1, <1>3, <1>12, <1>18
<1> QED  BY <1>10, <1>15, <1>20, <1>21 DEF Meets

\* Another device: what it has to send goes on from the longer log, and it has one
\* operation more to pull.
LEMMA SequenceMeetsOther ==
  ASSUME TypeOK, AllTraced, ~Crowded, NEW d \in Device, NEW i \in 1 .. Len(queue[d]),
         Sequence(d, i), NEW e \in Device, e # d, NEW whole, Meets(e, whole),
         NEW o, o = queue[d][i].op, Fits(whole, o), NEW next, next = After(whole, o)
  PROVE  Meets(e, next)'
<1> DEFINE c == cursor[e]
           L == Len(log)
           N == Len(queue[e])
<1>1. PICK C, R : Pulls(e, C) /\ Sends(e, whole, R) /\ C[L] = R[N]
  BY DEF Meets
<1>2. c \in Nat /\ L \in Nat /\ c =< L /\ N \in Nat /\ DOMAIN queue[e] = 1 .. N
      /\ DOMAIN log = 1 .. L /\ DOMAIN queue[d] = 1 .. Len(queue[d])
  BY RowTypes DEF AllTraced, Traced
<1>3. /\ Unsent(d, i) /\ Len(log') = L + 1 /\ \A s \in DOMAIN log : log'[s] = log[s]
      /\ queue'[e] = queue[e] /\ tree' = tree /\ cursor' = cursor
  BY SequenceIs
<1>4. log'[L + 1].dev = d /\ log'[L + 1].op = o
  <2>1. log'[L + 1] = EntryOf(d, queue[d][i])
    BY SequenceIs
  <2> QED  BY <2>1 DEF EntryOf
<1>5. /\ C \in [c .. L -> SoundTree] /\ C[c] = tree[e]
      /\ \A k \in c + 1 .. L :
           IF log[k].dev = e THEN C[k] = C[k - 1]
           ELSE Fits(C[k - 1], log[k].op) /\ C[k] = After(C[k - 1], log[k].op)
  BY <1>1 DEF Pulls
<1>6. /\ R \in [0 .. N -> SoundTree] /\ R[0] = whole
      /\ \A j \in 1 .. N :
           IF queue[e][j].seq # 0 THEN R[j] = R[j - 1]
           ELSE Fits(R[j - 1], queue[e][j].op) /\ R[j] = After(R[j - 1], queue[e][j].op)
  BY <1>1 DEF Sends
<1>7. ASSUME NEW j \in 1 .. N, queue[e][j].seq = 0
      PROVE  ~Clash(queue[e][j].op, o)
  <2>1. j \in DOMAIN queue[e] /\ i \in DOMAIN queue[d] /\ Unsent(e, j)
    BY <1>2, <1>7 DEF Unsent
  <2> QED  BY <1>3, <2>1 DEF Crowded
<1> HIDE DEF c, L, N
<1>8. \A j \in 0 + 1 .. N : Moves(R, j, o)
  BY <1>6, <1>7 DEF Moves
<1>9. \A j \in 0 .. N : Fits(R[j], o) /\ After(R[j], o) \in SoundTree
  <2>1. 0 \in Nat /\ 0 =< N /\ Fits(R[0], o)
    BY <1>2, <1>6
  <2>2. R \in [0 .. N -> SoundTree]
    BY <1>6
  <2> QED  BY <1>2, <1>8, <2>1, <2>2, FitsAlong
<1>10. ASSUME NEW j \in 1 .. N, NEW p,
              Fits(R[j - 1], p), R[j] = After(R[j - 1], p), ~Clash(p, o)
       PROVE  Fits(After(R[j - 1], o), p) /\ After(R[j], o) = After(After(R[j - 1], o), p)
  <2>1. j - 1 \in 0 .. N
    BY <1>2
  <2> QED  BY <1>6, <1>9, <1>10, <2>1, Commute
<1>11. PICK Q : Q = [j \in 0 .. N |-> After(R[j], o)]
  OBVIOUS
<1>12. \A j \in 0 .. N : Q[j] = After(R[j], o)
  BY <1>11
<1>13. Q \in [0 .. N -> SoundTree] /\ Q[0] = next
  BY <1>2, <1>6, <1>9, <1>11
<1>14. ASSUME NEW j \in 1 .. N
       PROVE  IF queue[e][j].seq # 0 THEN Q[j] = Q[j - 1]
              ELSE Fits(Q[j - 1], queue[e][j].op) /\ Q[j] = After(Q[j - 1], queue[e][j].op)
  <2>1. Q[j] = After(R[j], o) /\ Q[j - 1] = After(R[j - 1], o)
    BY <1>2, <1>12
  <2> QED  BY <1>6, <1>7, <1>10, <2>1
<1>15. Sends(e, next, Q)'
  BY <1>3, <1>13, <1>14 DEF Sends, N
<1>16. PICK D : D = [k \in c .. L + 1 |-> IF k = L + 1 THEN After(C[L], o) ELSE C[k]]
  OBVIOUS
<1>17. D[L + 1] = After(C[L], o) /\ \A k \in c .. L : D[k] = C[k]
  BY <1>2, <1>16
<1>18. Fits(C[L], o) /\ After(C[L], o) \in SoundTree
  BY <1>1, <1>2, <1>9
<1>19. D \in [c .. L + 1 -> SoundTree] /\ D[c] = tree'[e]
  BY <1>2, <1>3, <1>5, <1>16, <1>17, <1>18
<1>20. ASSUME NEW k \in c + 1 .. L + 1
       PROVE  IF log'[k].dev = e THEN D[k] = D[k - 1]
              ELSE Fits(D[k - 1], log'[k].op) /\ D[k] = After(D[k - 1], log'[k].op)
  <2>1. CASE k = L + 1
    <3>1. D[k - 1] = C[L]
      BY <1>2, <1>17, <2>1
    <3> QED  BY <1>4, <1>17, <1>18, <2>1, <3>1
  <2>2. CASE k # L + 1
    <3>1. k \in c + 1 .. L /\ k \in DOMAIN log /\ D[k] = C[k] /\ D[k - 1] = C[k - 1]
      BY <1>2, <1>17, <2>2
    <3> QED  BY <1>3, <1>5, <3>1
  <2> QED  BY <2>1, <2>2
<1>21. Pulls(e, D)'
  BY <1>3, <1>19, <1>20 DEF Pulls, c
<1>22. D[Len(log')] = Q[Len(queue'[e])]
  BY <1>1, <1>2, <1>3, <1>12, <1>17 DEF N
<1> QED  BY <1>15, <1>21, <1>22 DEF Meets

\* An acknowledgement, and a pull of anything, takes the device further on its way.
LEMMA PullMeets ==
  ASSUME TypeOK, AllTraced, NEW d \in Device,
         Acknowledge(d) \/ PullDuplicate(d) \/ PullEcho(d) \/ PullRemote(d),
         NEW whole, Meets(d, whole)
  PROVE  Meets(d, whole)'
<1>1. PICK C, R : Pulls(d, C) /\ Sends(d, whole, R) /\ C[Len(log)] = R[Len(queue[d])]
  BY DEF Meets
<1>2. /\ cursor[d] \in Nat /\ Len(log) \in Nat /\ cursor[d] =< Len(log)
      /\ DOMAIN log = 1 .. Len(log) /\ log' = log
      /\ DOMAIN queue[d] = 1 .. Len(queue[d]) /\ Len(queue[d]) \in Nat
  BY RowTypes DEF AllTraced, Traced, Acknowledge, PullDuplicate, PullEcho, PullRemote
<1>3. /\ C[cursor[d]] = tree[d]
      /\ C \in [cursor[d] .. Len(log) -> SoundTree]
      /\ \A k \in cursor[d] + 1 .. Len(log) :
           IF log[k].dev = d THEN C[k] = C[k - 1]
           ELSE Fits(C[k - 1], log[k].op) /\ C[k] = After(C[k - 1], log[k].op)
  BY <1>1 DEF Pulls
<1>4. \E Q : Sends(d, whole, Q)' /\ Q[Len(queue'[d])] = R[Len(queue[d])]
  <2>1. CASE Acknowledge(d) \/ PullEcho(d)
    BY <1>1, <2>1, AcknowledgeDrops, SendsOn
  <2>2. CASE PullDuplicate(d) \/ PullRemote(d)
    <3>1. queue' = queue
      BY <2>2 DEF PullDuplicate, PullRemote
    <3>2. Sends(d, whole, R)'
      BY <1>1, <3>1 DEF Sends
    <3> QED  BY <3>1, <3>2
  <2> QED  BY <2>1, <2>2
<1>5. cursor[d] < Len(log) =>
        /\ cursor[d] + 1 \in cursor[d] + 1 .. Len(log) /\ (cursor[d] + 1) - 1 = cursor[d]
        /\ cursor[d] \in cursor[d] .. Len(log)
  BY <1>2
<1>6. ASSUME cursor[d] < Len(log), cursor'[d] = cursor[d] + 1,
             log[cursor[d] + 1].dev = d, tree' = tree
      PROVE  \E D : Pulls(d, D)' /\ D[Len(log')] = C[Len(log)]
  <2>1. C[cursor[d] + 1] = tree'[d]
    BY <1>3, <1>5, <1>6
  <2> QED  BY <1>1, <1>2, <1>6, <2>1, PullsOn
<1>7. \E D : Pulls(d, D)' /\ D[Len(log')] = C[Len(log)]
  <2>1. CASE Acknowledge(d)
    <3>1. queue[d][1].seq \in DOMAIN log /\ log[queue[d][1].seq].dev = d /\ tree' = tree
      <4>1. DropsFirst(d) /\ 1 \in DOMAIN queue[d]
        BY <1>2, <2>1, AcknowledgeDrops, DropIs
      <4> QED  BY <2>1, <4>1 DEF AllTraced, Traced, DropsFirst, Acknowledge
    <3>2. CASE cursor' = cursor
      <4>1. Pulls(d, C)'
        BY <1>1, <1>2, <3>1, <3>2 DEF Pulls
      <4> QED  BY <1>2, <4>1
    <3>3. CASE cursor' # cursor
      <4>1. queue[d][1].seq = cursor[d] + 1 /\ cursor'[d] = cursor[d] + 1
        BY <2>1, <3>3 DEF Acknowledge, TypeOK
      <4>2. cursor[d] < Len(log)
        BY <1>2, <3>1, <4>1
      <4> QED  BY <1>6, <3>1, <4>1, <4>2
    <3> QED  BY <3>2, <3>3
  <2>2. CASE PullDuplicate(d) \/ PullEcho(d) \/ PullRemote(d)
    <3>1. cursor[d] < Len(log) /\ cursor'[d] = cursor[d] + 1
      BY <2>2 DEF PullDuplicate, PullEcho, PullRemote, Advance, TypeOK
    <3>2. CASE PullDuplicate(d)
      <4>1. log[cursor[d] + 1].dev = d /\ tree' = tree
        BY <3>1, <3>2 DEF PullDuplicate, AllTraced, Traced
      <4> QED  BY <1>6, <3>1, <4>1
    <3>3. CASE PullEcho(d)
      <4>1. DropsFirst(d) /\ 1 \in DOMAIN queue[d]
        BY <1>2, <3>3, AcknowledgeDrops, DropIs
      <4>2. log[cursor[d] + 1].dev = d /\ tree' = tree
        BY <3>1, <3>3, <4>1 DEF PullEcho, AllTraced, Traced, DropsFirst
      <4> QED  BY <1>6, <3>1, <4>2
    <3>4. CASE PullRemote(d)
      <4> DEFINE op == log[cursor[d] + 1].op
      <4>1. /\ log[cursor[d] + 1].dev # d
            /\ tree' = IF Takes(tree[d], op) /\ Valid(tree[d], op)
                       THEN [tree EXCEPT ![d] = After(tree[d], op)] ELSE tree
        BY <3>1, <3>4 DEF PullRemote
      <4>2. Fits(tree[d], op) /\ C[cursor[d] + 1] = After(tree[d], op) /\ tree[d] \in SoundTree
        BY <1>3, <1>5, <3>1, <4>1
      <4> HIDE DEF op
      <4>3. (Takes(tree[d], op) /\ Valid(tree[d], op)) \/ After(tree[d], op) = tree[d]
        BY <4>2, FittingIsTaken
      <4>4. tree'[d] = After(tree[d], op)
        BY <4>1, <4>3 DEF TypeOK
      <4> QED  BY <1>1, <1>2, <3>1, <4>2, <4>4, PullsOn
    <3> QED  BY <2>2, <3>2, <3>3, <3>4
  <2> QED  BY <2>1, <2>2
<1>8. PICK D : Pulls(d, D)' /\ D[Len(log')] = C[Len(log)]
  BY <1>7
<1>9. PICK Q : Sends(d, whole, Q)' /\ Q[Len(queue'[d])] = R[Len(queue[d])]
  BY <1>4
<1>10. D[Len(log')] = Q[Len(queue'[d])]
  BY <1>1, <1>8, <1>9
<1> QED  BY <1>8, <1>9, <1>10 DEF Meets

\* Whatever the step, the devices head for one tree.
LEMMA HeadingKept ==
  ASSUME TypeOK, AllSound, AllTraced, Heading, NEW d \in Device,
         \/ \E op : Makes(d, op)
         \/ \E i \in 1 .. Len(queue[d]) : Sequence(d, i)
         \/ Acknowledge(d) \/ PullDuplicate(d) \/ PullEcho(d) \/ PullRemote(d)
  PROVE  Heading'
<1> SUFFICES ASSUME ~Crowded'
             PROVE  \E whole : \A e \in Device : Meets(e, whole)'
  BY DEF Heading
<1>1. ~Crowded
  BY StepGrows, CrowdedStays
<1>2. PICK whole : \A e \in Device : Meets(e, whole)
  BY <1>1 DEF Heading
<1>3. ASSUME NEW op, Makes(d, op), NEW e \in Device
      PROVE  Meets(e, whole)'
  <2>1. CASE e = d
    BY <1>2, <1>3, <2>1, MakesMeets
  <2>2. CASE e # d
    <3>1. log' = log /\ queue'[e] = queue[e] /\ tree'[e] = tree[e] /\ cursor' = cursor
      BY <1>3, <2>2 DEF Makes, TypeOK
    <3> QED  BY <1>2, <3>1, MeetsFrame
  <2> QED  BY <2>1, <2>2
<1>4. ASSUME NEW i \in 1 .. Len(queue[d]), Sequence(d, i)
      PROVE  \E w : \A e \in Device : Meets(e, w)'
  <2>1. PICK o : o = queue[d][i].op
    OBVIOUS
  <2>2. PICK w : w = After(whole, o)
    OBVIOUS
  <2>3. Fits(whole, o) /\ Meets(d, w)'
    BY <1>2, <1>4, <2>1, <2>2, SequenceMeetsOwn
  <2>4. ASSUME NEW e \in Device, e # d
        PROVE  Meets(e, w)'
    BY <1>1, <1>2, <1>4, <2>1, <2>2, <2>3, <2>4, SequenceMeetsOther
  <2> QED  BY <2>3, <2>4
<1>5. ASSUME Acknowledge(d) \/ PullDuplicate(d) \/ PullEcho(d) \/ PullRemote(d), NEW e \in Device
      PROVE  Meets(e, whole)'
  <2>1. CASE e = d
    BY <1>2, <1>5, <2>1, PullMeets
  <2>2. CASE e # d
    <3>1. log' = log /\ queue'[e] = queue[e] /\ tree'[e] = tree[e] /\ cursor'[e] = cursor[e]
      BY <1>5, <2>2 DEF Acknowledge, PullDuplicate, PullEcho, PullRemote, Advance, TypeOK
    <3> QED  BY <1>2, <3>1, MeetsFrame
  <2> QED  BY <2>1, <2>2
<1> QED  BY <1>3, <1>4, <1>5

\* At first nobody has anything to pull or to send.
LEMMA HeadingStarts ==
  ASSUME Init
  PROVE  AllTraced /\ Heading
<1>1. TypeOK /\ AllSound
  BY StartKeeps
<1>2. \A d \in Device : queue[d] = << >> /\ cursor[d] = 0 /\ ahead[d] = {} /\ tree[d] \in SoundTree
  BY <1>1 DEF Init, TypeOK, AllSound, SoundTree
<1>3. log = << >> /\ Len(log) = 0
  BY DEF Init
<1>4. AllTraced
  <2>1. ASSUME NEW d \in Device
        PROVE  Traced(d)
    <3>1. \A i \in DOMAIN queue[d] : FALSE
      BY <1>2
    <3>2. cursor[d] =< Len(log)
      BY <1>2, <1>3
    <3>3. \A s \in ahead[d] : FALSE
      BY <1>2
    <3> QED  BY <3>1, <3>2, <3>3 DEF Traced
  <2> QED  BY <2>1 DEF AllTraced
<1>5. PICK whole : \A d \in Device : tree[d] = whole
  BY DEF Init
<1>6. ASSUME NEW d \in Device
      PROVE  Meets(d, whole)
  <2>1. PICK F : F = [k \in 0 .. 0 |-> whole]
    OBVIOUS
  <2>2. F \in [0 .. 0 -> SoundTree] /\ F[0] = whole
    BY <1>2, <1>5, <2>1
  <2>3. Pulls(d, F)
    BY <1>2, <1>3, <1>5, <2>2 DEF Pulls
  <2>4. Sends(d, whole, F)
    BY <1>2, <2>2 DEF Sends
  <2> QED  BY <1>2, <1>3, <2>3, <2>4 DEF Meets
<1> QED  BY <1>4, <1>6 DEF Heading

\* So they do in every state.
LEMMA AlwaysHeading == Spec => [](AllTraced /\ Heading)
<1>1. Init => AllTraced /\ Heading
  BY HeadingStarts
<1>2. TypeOK /\ AllSound /\ AllTraced /\ Heading /\ [Next]_vars => (AllTraced /\ Heading)'
  <2> SUFFICES ASSUME TypeOK, AllSound, AllTraced, Heading, [Next]_vars
               PROVE  (AllTraced /\ Heading)'
    OBVIOUS
  <2>1. CASE UNCHANGED vars
    <3>1. AllTraced'
      BY <2>1 DEF vars, AllTraced, Traced
    <3>2. Crowded => Crowded'
      <4>1. Grows
        BY <2>1 DEF vars, Grows
      <4> QED  BY <4>1, CrowdedStays
    <3>3. \A d \in Device : \A whole : Meets(d, whole) => Meets(d, whole)'
      BY <2>1, MeetsFrame DEF vars
    <3> QED  BY <3>1, <3>2, <3>3 DEF Heading
  <2>2. CASE Next
    BY <2>2, StepIs, TracedKept, HeadingKept
  <2> QED  BY <2>1, <2>2
<1> QED  BY <1>1, <1>2, AlwaysSound, PTL DEF Spec

\* Work on different parts of the tree commutes: devices that read the whole log
\* and owe it nothing show the same tree, unless two of them changed the same part
\* without knowing of each other, however acknowledgements, echoes and pulls were
\* interleaved, for any number of devices, nodes and operations.
THEOREM DisjointWorkConvergesHolds == Spec => []DisjointWorkConverges
<1>1. TypeOK /\ AllTraced /\ Heading => DisjointWorkConverges
  <2> SUFFICES ASSUME TypeOK, AllTraced, Heading, CaughtUp, ~Contended
               PROVE  \A d1, d2 \in Device : tree[d1] = tree[d2]
    BY DEF DisjointWorkConverges
  <2>1. \A d \in Device : queue[d] = << >> /\ cursor[d] = Len(log)
    BY DEF CaughtUp
  <2>2. ~Crowded
    BY <2>1 DEF Crowded
  <2>3. PICK whole : \A d \in Device : Meets(d, whole)
    BY <2>2 DEF Heading
  <2>4. ASSUME NEW d \in Device
        PROVE  tree[d] = whole
    BY <2>1, <2>3 DEF Meets, Pulls, Sends
  <2> QED  BY <2>4
<1> QED  BY <1>1, AlwaysSound, AlwaysHeading, PTL
=============================================================================
