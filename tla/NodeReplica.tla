----------------------------- MODULE NodeReplica -----------------------------
(***************************************************************************)
(* The tree of a workspace replicated between devices: how the remote       *)
(* operations on nodes are reconciled (skriuw-domain reconcile.rs over the  *)
(* facts of skriuw-sqlite sync.rs) and applied (operations.rs).             *)
(*                                                                          *)
(* Bodies have an order of their own (DocumentOrder).  A node operation has *)
(* none: it is applied where it is valid when it is pulled, on top of what  *)
(* the device did meanwhile, and a device's own operation is never applied  *)
(* again when its sequence comes back.  Titles stand for every field of a   *)
(* node that has no effect on others; ranks among siblings are left out.    *)
(***************************************************************************)
EXTENDS Integers, Sequences

CONSTANTS
  Device,    \* replicas of the workspace
  Node,      \* nodes of the tree
  Folder,    \* nodes that may hold others
  Fresh,     \* nodes that no device has created yet
  Title,     \* titles a user may give
  Untitled,  \* the title of every node at first
  Time,      \* values of a device's clock
  Root,      \* the parent of a node at the top
  Absent,    \* the parent of a node that is not there
  Home,      \* the parents every replica starts from
  MaxMade    \* bound on the operations all users make

ASSUME TreeAssumption ==
  /\ Folder \subseteq Node /\ Fresh \subseteq Node
  /\ Root \notin Node /\ Absent \notin Node /\ Root # Absent
  /\ Time \subseteq Nat \ {0} /\ MaxMade \in Nat
  /\ Home \in [Node \ Fresh -> (Folder \ Fresh) \cup {Root}]
  /\ \A S \in SUBSET (Node \ Fresh) : S # {} => \E n \in S : Home[n] \notin S

VARIABLES
  tree,    \* workspace_nodes and the node rows of sync_tombstones
  queue,   \* sync_outbox; seq is 0 until the service has accepted the row
  cursor,  \* observed_server_sequence
  ahead,   \* own sequences acknowledged above the cursor
  log,     \* the ordered log
  made     \* operations made so far

vars == <<tree, queue, cursor, ahead, log, made>>

Parents == Folder \cup {Root, Absent}

\* deleted is 0 for a node that carries no trash marker of its own.
Tree == [parent: [Node -> Parents], title: [Node -> Title \cup {Untitled}],
         deleted: [Node -> Time \cup {0}], tombstones: SUBSET Node]

\* at is the time of a trash and the retention cutoff of a purge.  scope is
\* what the operation was about on the device that made it, for the properties.
Operation == [kind: {"create", "rename", "move", "trash", "restore", "purge"},
              id: Node, parent: Parents, title: Title \cup {Untitled}, at: Time \cup {0},
              scope: SUBSET (Node \cup {Root})]
Entry == [dev: Device, op: Operation, base: Nat]
Row == [op: Operation, base: Nat, seq: Nat]

TypeOK ==
  /\ tree \in [Device -> Tree]
  /\ queue \in [Device -> Seq(Row)]
  /\ cursor \in [Device -> Nat]
  /\ ahead \in [Device -> SUBSET Nat]
  /\ log \in Seq(Entry)
  /\ made \in 0 .. MaxMade

Init ==
  /\ tree = [d \in Device |->
               [parent |-> [n \in Node |-> IF n \in Fresh THEN Absent ELSE Home[n]],
                title |-> [n \in Node |-> Untitled],
                deleted |-> [n \in Node |-> 0], tombstones |-> {}]]
  /\ queue = [d \in Device |-> << >>]
  /\ cursor = [d \in Device |-> 0]
  /\ ahead = [d \in Device |-> {}]
  /\ log = << >>
  /\ made = 0

-----------------------------------------------------------------------------
(***************************************************************************)
(* The tree                                                                *)
(***************************************************************************)

Exists(t, n) == t.parent[n] # Absent

\* A node and everything below it.
Subtree(t, n) ==
  {m \in Node : \A S \in SUBSET Node :
     n \in S /\ (\A c \in Node : t.parent[c] \in S => c \in S) => m \in S}

\* node_is_available: neither the node nor a folder above it is in the trash.
Available(t, n) ==
  Exists(t, n) /\ \A m \in Node : n \in Subtree(t, m) => t.deleted[m] = 0

\* require_parent_folder
HoldsChildren(t, p) == p = Root \/ (p \in Folder /\ Available(t, p))

\* require_acyclic_parent and the validation of a placement
Acyclic(t, n, p) == p \notin Subtree(t, n)

\* Variant: only the root of a purge is tombstoned.
PurgedRootOnly(t, n) == {n}

\* Every identity below a purged root is gone for good.
Purged(t, n) == Subtree(t, n)

\* What apply_operations requires of the tree.
Valid(t, op) ==
  \/ /\ op.kind = "create" /\ ~Exists(t, op.id)
     /\ HoldsChildren(t, op.parent)
  \/ op.kind \in {"rename", "trash"} /\ Available(t, op.id)
  \/ /\ op.kind = "move" /\ Available(t, op.id)
     /\ HoldsChildren(t, op.parent) /\ Acyclic(t, op.id, op.parent)
  \/ /\ op.kind = "restore" /\ t.deleted[op.id] # 0
     /\ HoldsChildren(t, op.parent) /\ Acyclic(t, op.id, op.parent)
  \/ /\ op.kind = "purge" /\ t.deleted[op.id] # 0
     /\ \A n \in Subtree(t, op.id) : t.deleted[n] <= op.at

\* What it makes of the tree.
After(t, op) ==
  CASE op.kind = "create"  -> [t EXCEPT !.parent[op.id] = op.parent,
                                        !.title[op.id] = op.title]
    [] op.kind = "rename"  -> [t EXCEPT !.title[op.id] = op.title]
    [] op.kind = "move"    -> [t EXCEPT !.parent[op.id] = op.parent]
    [] op.kind = "trash"   -> [t EXCEPT !.deleted[op.id] = op.at]
    [] op.kind = "restore" -> [t EXCEPT !.parent[op.id] = op.parent, !.deleted[op.id] = 0]
    [] op.kind = "purge"   ->
         LET gone == Purged(t, op.id)
         IN  [parent |-> [n \in Node |-> IF n \in gone THEN Absent ELSE t.parent[n]],
              title |-> [n \in Node |-> IF n \in gone THEN Untitled ELSE t.title[n]],
              deleted |-> [n \in Node |-> IF n \in gone THEN 0 ELSE t.deleted[n]],
              tombstones |-> t.tombstones \cup gone]

Tombstoned(t, op) == op.id \in t.tombstones \/ op.parent \in t.tombstones

\* Variant: a restore is decided like any other change to a node.
TakesAvailable(t, op) ==
  \/ op.kind = "create" /\ ~Tombstoned(t, op) /\ ~Exists(t, op.id)
  \/ /\ op.kind \in {"rename", "move", "trash", "restore"}
     /\ ~Tombstoned(t, op) /\ Available(t, op.id)
  \/ op.kind = "purge" /\ ~Tombstoned(t, op) /\ Exists(t, op.id)

\* reconcile_remote_operation: whether a remote operation is to be applied.
\* Both other answers, already applied and superseded, leave the tree alone.
Takes(t, op) ==
  \/ op.kind = "create" /\ ~Tombstoned(t, op) /\ ~Exists(t, op.id)
  \/ op.kind = "rename" /\ ~Tombstoned(t, op) /\ Available(t, op.id) /\ t.title[op.id] # op.title
  \/ op.kind = "move" /\ ~Tombstoned(t, op) /\ Available(t, op.id)
  \/ op.kind = "trash" /\ ~Tombstoned(t, op) /\ Exists(t, op.id) /\ t.deleted[op.id] = 0
  \/ op.kind \in {"restore", "purge"} /\ ~Tombstoned(t, op) /\ Exists(t, op.id)

-----------------------------------------------------------------------------
(***************************************************************************)
(* The users                                                               *)
(***************************************************************************)

\* A local operation is applied and joins the queue in one transaction.
Make(d, kind, n, p, name, at) ==
  LET op == [kind |-> kind, id |-> n, parent |-> p, title |-> name, at |-> at,
             scope |-> ({n, p} \ {Absent}) \cup
                         (IF kind = "rename" THEN {} ELSE Subtree(tree[d], n))]
  IN  /\ made < MaxMade /\ made' = made + 1
      /\ Valid(tree[d], op)
      /\ tree' = [tree EXCEPT ![d] = After(@, op)]
      /\ queue' = [queue EXCEPT ![d] =
                     Append(@, [op |-> op, base |-> cursor[d], seq |-> 0])]
      /\ UNCHANGED <<cursor, ahead, log>>

\* An identity is created once.
Unused(n) == \A d \in Device : ~Exists(tree[d], n) /\ n \notin tree[d].tombstones

CreateFolder(d, n, p) == Unused(n) /\ Make(d, "create", n, p, Untitled, 0)
RenameNode(d, n, name) == Make(d, "rename", n, Absent, name, 0)
MoveNode(d, n, p) == Make(d, "move", n, p, Untitled, 0)
TrashSubtree(d, n, at) == Make(d, "trash", n, Absent, Untitled, at)
RestoreSubtree(d, n, p) == Make(d, "restore", n, p, Untitled, 0)
PurgeSubtree(d, n, before) == Make(d, "purge", n, Absent, Untitled, before)

-----------------------------------------------------------------------------
(***************************************************************************)
(* Replication                                                             *)
(***************************************************************************)

EntryOf(d, row) == [dev |-> d, op |-> row.op, base |-> row.base]

\* The service takes row i, the oldest without a sequence.
Sequence(d, i) ==
  /\ queue[d][i].seq = 0 /\ \A j \in 1 .. i - 1 : queue[d][j].seq # 0
  /\ log' = Append(log, EntryOf(d, queue[d][i]))
  /\ queue' = [queue EXCEPT ![d][i].seq = Len(log) + 1]
  /\ UNCHANGED <<tree, cursor, ahead, made>>

\* The device learns the sequence of its oldest row; the cursor follows only
\* when nothing lies between.
Acknowledge(d) ==
  /\ queue[d] # << >> /\ queue[d][1].seq # 0
  /\ LET s == queue[d][1].seq
     IN  IF s = cursor[d] + 1
         THEN cursor' = [cursor EXCEPT ![d] = s] /\ UNCHANGED ahead
         ELSE ahead' = [ahead EXCEPT ![d] = @ \cup {s}] /\ UNCHANGED cursor
  /\ queue' = [queue EXCEPT ![d] = Tail(@)]
  /\ UNCHANGED <<tree, log, made>>

Advance(d) == cursor[d] < Len(log) /\ cursor' = [cursor EXCEPT ![d] = @ + 1]

\* An acknowledged operation of its own.
PullDuplicate(d) ==
  /\ Advance(d) /\ cursor'[d] \in ahead[d]
  /\ ahead' = [ahead EXCEPT ![d] = @ \ {cursor'[d]}]
  /\ UNCHANGED <<tree, queue, log, made>>

\* An operation of its own whose acknowledgement was lost: its row goes.
PullEcho(d) ==
  /\ Advance(d)
  /\ queue[d] # << >> /\ queue[d][1].seq = cursor'[d]
  /\ queue' = [queue EXCEPT ![d] = Tail(@)]
  /\ UNCHANGED <<tree, ahead, log, made>>

\* Another device's operation: reconciled, then applied if the tree admits it.
PullRemote(d) ==
  /\ Advance(d)
  /\ LET op == log[cursor'[d]].op
     IN  /\ log[cursor'[d]].dev # d
         /\ tree' = IF Takes(tree[d], op) /\ Valid(tree[d], op)
                    THEN [tree EXCEPT ![d] = After(@, op)] ELSE tree
  /\ UNCHANGED <<queue, ahead, log, made>>

Next ==
  \E d \in Device :
    \/ \E n \in Fresh, p \in Folder \cup {Root} : CreateFolder(d, n, p)
    \/ \E n \in Node, name \in Title : RenameNode(d, n, name)
    \/ \E n \in Node, p \in Folder \cup {Root} : MoveNode(d, n, p)
    \/ \E n \in Node, at \in Time : TrashSubtree(d, n, at)
    \/ \E n \in Node, p \in Folder \cup {Root} : RestoreSubtree(d, n, p)
    \/ \E n \in Node, before \in Time : PurgeSubtree(d, n, before)
    \/ \E i \in 1 .. Len(queue[d]) : Sequence(d, i)
    \/ Acknowledge(d)
    \/ PullDuplicate(d)
    \/ PullEcho(d)
    \/ PullRemote(d)

Spec == Init /\ [][Next]_vars

-----------------------------------------------------------------------------
(***************************************************************************)
(* Properties                                                              *)
(***************************************************************************)

\* On every device the nodes form a tree: whatever moves, purges and creations
\* of others are applied on top of its own, no node is left below a missing
\* one or below itself, and nothing that was purged is there again.
TreeSound ==
  \A d \in Device :
    LET there == {n \in Node : Exists(tree[d], n)}
    IN  /\ there \cap tree[d].tombstones = {}
        /\ \A n \in there :
             /\ tree[d].parent[n] \in there \cup {Root}
             /\ tree[d].parent[n] \notin Subtree(tree[d], n)

CaughtUp == \A d \in Device : queue[d] = << >> /\ cursor[d] = Len(log)

\* The maker of the later operation had not pulled the earlier one.
Concurrent(s, t) == s < t /\ log[s].dev # log[t].dev /\ log[t].base < s

\* Two operations are about the same part of the tree.  A title and a place
\* are distinct fields of a node.
Clash(p, q) == p.scope \cap q.scope # {} /\ {p.kind, q.kind} # {"rename", "move"}

Contended ==
  \E s, t \in DOMAIN log : Concurrent(s, t) /\ Clash(log[s].op, log[t].op)

\* Work on different parts of the tree commutes (docs/specs/
\* sync-convergence-v1.md:150, 158-160): devices that read the whole log and owe it nothing show the same
\* tree unless two of them changed the same part without knowing of each
\* other, however acknowledgements, echoes and pulls were interleaved.
DisjointWorkConverges ==
  CaughtUp /\ ~Contended => \A d1, d2 \in Device : tree[d1] = tree[d2]

OnlyRenames == \A s \in DOMAIN log : log[s].op.kind = "rename"

\* "Later server sequence wins" (docs/specs/sync-convergence-v1.md:150): after
\* concurrent renames every device shows the same title.  A device applies another's
\* earlier rename over its own later one, which is not applied again when its
\* sequence comes back (skriuw-sqlite sync.rs:1183-1242).
RenamesConverge ==
  CaughtUp /\ OnlyRenames => \A d1, d2 \in Device : tree[d1].title = tree[d2].title

\* "purge is terminal" (docs/specs/sync-convergence-v1.md:160): what one device purged is
\* gone everywhere.  A restore sequenced before the purge makes the purge
\* invalid on every device but the one that made it.
PurgesConverge ==
  CaughtUp => \A d1, d2 \in Device : tree[d1].tombstones = tree[d2].tombstones

\* "Rename applies to a trashed node without restoring it"
\* (docs/specs/sync-convergence-v1.md:150): when the only concurrent operations are renames
\* and trashes, titles agree unless two devices renamed.  reconcile_node_update
\* supersedes the rename of a trashed node.
RenamesReachTrash ==
  CaughtUp
  /\ (\A s, t \in DOMAIN log : Concurrent(s, t) => {log[s].op.kind, log[t].op.kind} = {"rename", "trash"})
    => \A d1, d2 \in Device : tree[d1].title = tree[d2].title
=============================================================================
