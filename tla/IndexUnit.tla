----------------------------- MODULE IndexUnit -----------------------------
(***************************************************************************)
(* A column of a table and an index on it, as createIndex, CREATE INDEX    *)
(* (Q_Execution/create_index_operator.c++) and the tests (test/) drive     *)
(* them: statements change the rows and never the index; the index is      *)
(* built from the rows a TableIterator yields, entries are added and       *)
(* removed through its wrapper, and it is saved and loaded again.          *)
(***************************************************************************)
EXTENDS HashIndex, BPlusTree

CONSTANTS
  Degree,       \* the minimum degree of the tree
  TableSize,    \* the capacity a hash index is created with
  MaxRows,      \* bound of the model: rows of the table, for each kind of index; when one
                \* is inserted or added to the index, a change counts as two
  MaxEntries,   \* bound of the model: entries added to the index, likewise
  MaxPending,   \* bound of the model: rows inserted and not in the index
  MaxChangedRows,  \* bound of the model: rows of a table statements update or delete in,
                \* likewise
  MaxChanges    \* bound of the model: rows updated or deleted, entries removed, reopenings;
                \* one of them when the table has MaxRows-1 rows or more

ASSUME SizeAssumption == TableSize \in Nat \ {0}

VARIABLES
  kind,      \* STATIC_HASH_INDEX ("hash") or BPLUS_TREE_INDEX ("tree")
  rows,      \* the key of each row, and whether the row is deleted; a rid is a position
  index,     \* the index, or NoIndex
  alive,     \* FALSE once a call has ended the program, thrown out of it, or left
             \* what its code defines
  told,      \* history: the entries the index should hold, in the order it got them
  touched,   \* history: the rids whose row or entry changed since the index was built
  changes    \* history: what happened, in steps counted against MaxChanges

vars == <<kind, rows, index, alive, told, touched, changes>>

NoIndex == << >>

Init ==
  /\ kind \in {"hash", "tree"}
  /\ rows = << >> /\ index = NoIndex
  /\ alive = TRUE
  /\ told = << >> /\ touched = {} /\ changes = << >>

Changed(what) ==
  /\ Len(changes) < MaxChanges /\ (Len(rows) + 1 >= MaxRows[kind] => changes = << >>)
  /\ changes' = Append(changes, what)

AnyDeleted == \E r \in DOMAIN rows : rows[r].deleted

(* As rids counted from the wrong end of the first slot.                   *)
RowEntriesShifted == [r \in DOMAIN rows |-> Entry(rows[r].key, r - 1)]

RowEntries == [r \in DOMAIN rows |-> Entry(rows[r].key, r)]

---------------------------------------------------------------------------
(* INSERT, UPDATE of the column and DELETE: no index is asked.             *)
InsertRow(key) ==
  /\ alive /\ Len(rows) + 2 * Len(changes) < MaxRows[kind]
  /\ Cardinality(DOMAIN rows \ {e.rid : e \in Range(told)}) < MaxPending
  /\ rows' = Append(rows, [key |-> key, deleted |-> FALSE])
  /\ touched' = IF index = NoIndex THEN touched ELSE touched \cup {Len(rows')}
  /\ UNCHANGED <<kind, index, alive, told, changes>>

UpdateRow(r, key) ==
  /\ alive /\ ~rows[r].deleted /\ rows[r].key # key
  /\ rows' = [rows EXCEPT ![r].key = key]
  /\ touched' = touched \cup {r}
  /\ Changed("update")
  /\ UNCHANGED <<kind, index, alive, told>>

DeleteRow(r) ==
  /\ alive /\ ~rows[r].deleted
  /\ rows' = [rows EXCEPT ![r].deleted = TRUE]
  /\ touched' = touched \cup {r}
  /\ Changed("delete")
  /\ UNCHANGED <<kind, index, alive, told>>

---------------------------------------------------------------------------
(* Index::Insert of either kind.                                           *)
Inserted(idx, e) ==
  IF kind = "hash" THEN hashInsert(idx, e.key, e.rid) ELSE treeInsert(idx, e.key, e.rid)

(* TableHeap::createIndex: nothing when the column has an index.           *)
createIndex ==
  IF index # NoIndex THEN index
  ELSE IF kind = "hash" THEN NewHashIndex(TableSize) ELSE NewTree(Degree)

insertedRows ==
  LET built[n \in 0 .. Len(rows)] ==
        IF n = 0 THEN createIndex ELSE Inserted(built[n - 1], RowEntries[n])
  IN  built[Len(rows)]

(* CREATE INDEX then adds every row the iterator yields, whether the index *)
(* is new or not.  The iterator does not skip a deleted row, and ends the  *)
(* program when it reads one.                                              *)
CreateIndex ==
  /\ alive /\ Len(told) + Len(rows) <= MaxEntries[kind]
  /\ index # NoIndex => changes = << >>
  /\ alive' = ~AnyDeleted
  /\ index' = IF AnyDeleted THEN index ELSE insertedRows
  /\ told' = IF AnyDeleted THEN told ELSE told \o RowEntries
  /\ touched' = IF AnyDeleted \/ index # NoIndex THEN touched ELSE {}
  /\ UNCHANGED <<kind, rows, changes>>

(* A caller adds the newest row itself, as the tests do.                   *)
AddRow ==
  /\ alive /\ index # NoIndex
  /\ Len(rows) \in touched /\ ~Last(rows).deleted
  /\ \A e \in Range(told) : e.rid # Len(rows)
  /\ Len(told) < MaxEntries[kind] /\ Len(rows) + 2 * Len(changes) <= MaxRows[kind]
  /\ index' = Inserted(index, RowEntries[Len(rows)])
  /\ told' = Append(told, RowEntries[Len(rows)])
  /\ touched' = touched \ {Len(rows)}
  /\ UNCHANGED <<kind, rows, alive, changes>>

FirstOf(key) == SelectInSeq(told, LAMBDA e : e.key = key)

(* What the removal may leave; nothing when it ends the program or leaves  *)
(* what its code defines.                                                  *)
Removed(key) ==
  IF kind = "tree" THEN {tree \in {treeRemove(index, key)} : ~tree.broken}
  ELSE IF DeleteCrashes(index, key) THEN {} ELSE deleteIndex(index, key)

RemoveKey(key) ==
  LET removed == Removed(key)
      first   == FirstOf(key)
  IN  /\ alive /\ index # NoIndex
      /\ kind = "tree" => index.root # 0
      /\ Changed("remove")
      /\ IF removed = {} THEN alive' = FALSE /\ UNCHANGED index
         ELSE index' \in removed /\ UNCHANGED alive
      /\ told' = IF alive' /\ first # 0 THEN RemoveAt(told, first) ELSE told
      /\ touched' = IF first # 0 THEN touched \cup {told[first].rid} ELSE touched
      /\ UNCHANGED <<kind, rows>>

(* Updates the rid of a key in the hash index, to that of the newest row.  *)
UpdateEntry(key) ==
  LET first == FirstOf(key)
  IN  /\ alive /\ kind = "hash" /\ index # NoIndex /\ rows # << >>
      /\ Changed("remove")
      /\ index' = updateIndex(index, key, Len(rows))
      /\ told' = IF first # 0 THEN [told EXCEPT ![first].rid = Len(rows)] ELSE told
      /\ touched' = IF first # 0 THEN touched \cup {told[first].rid, Len(rows)} ELSE touched
      /\ UNCHANGED <<kind, rows, alive>>

(* The wrapper is destroyed, which saves the index, and the table is       *)
(* loaded again, which throws when a row is deleted.                       *)
Reopen ==
  /\ alive /\ index # NoIndex
  /\ Changed("reopen")
  /\ alive' = ~AnyDeleted
  /\ index' = IF AnyDeleted THEN index
              ELSE IF kind = "hash" THEN loadHashIndex(saveIndexMeta(index), RowEntries)
              ELSE loadBPlusTree(saveBPlusTree(index))
  /\ told' = IF kind = "hash" /\ ~AnyDeleted THEN RowEntries ELSE told
  /\ touched' = IF kind = "hash" /\ ~AnyDeleted THEN {} ELSE touched
  /\ UNCHANGED <<kind, rows>>

Next ==
  \/ \E key \in Keys : InsertRow(key) \/ RemoveKey(key) \/ UpdateEntry(key)
  \/ /\ Len(rows) <= MaxChangedRows[kind]
     /\ \E r \in DOMAIN rows : DeleteRow(r) \/ \E key \in Keys : UpdateRow(r, key)
  \/ CreateIndex \/ AddRow \/ Reopen

Spec == Init /\ [][Next]_vars

---------------------------------------------------------------------------
(* Views of the index the properties speak of.                             *)
Usable(k) == alive /\ kind = k /\ index # NoIndex
Did(what) == \E n \in DOMAIN changes : changes[n] = what

Hits(entries, low, high) == SelectSeq(entries, LAMBDA e : low <= e.key /\ e.key <= high)
Bag(s) == [x \in Range(s) |-> Cardinality({n \in DOMAIN s : s[n] = x})]

Leaves(tree, pid) ==
  Repeated(tree, <<pid>>, LAMBDA pids :
    FlattenSeq([n \in DOMAIN pids |-> LET node == tree.nodes[pids[n]]
                                      IN  IF node.isLeaf THEN <<pids[n]>> ELSE node.children]))

Depths(tree, pid) ==
  LET below(at) == LET node == tree.nodes[at.pid]
                   IN  IF node.isLeaf THEN {at}
                       ELSE {[pid |-> c, depth |-> at.depth + 1] : c \in Range(node.children)}
      leaves    == Repeated(tree, {[pid |-> pid, depth |-> 0]},
                            LAMBDA all : UNION {below(at) : at \in all})
  IN  {at.depth : at \in leaves}

EntriesUnder(tree, pid) ==
  LET leaves == Leaves(tree, pid)
  IN  FlattenSeq([n \in DOMAIN leaves |-> tree.nodes[leaves[n]].entries])

TreeEntries(tree) == IF tree.root = 0 THEN << >> ELSE EntriesUnder(tree, tree.root)

(* What a lookup finds, on the tree's own leaves when it is a tree.        *)
RidsFound(key) ==
  IF kind = "hash" THEN Range(getValue(index, key))
  ELSE UNION {Range(scan.rids) : scan \in rangeQuery(index, key, key)}

(* The scans find what the index was told of within these bounds, and      *)
(* stray from the tree's own leaves only when it has no larger key.        *)
ScansExact(scans, low, high) == \A scan \in scans :
  /\ Bag(scan.rids) = Bag(ridsOf(Hits(told, low, high)))
  /\ scan.strays => \A n \in DOMAIN told : told[n].key <= high

---------------------------------------------------------------------------
(* The history and the rows are well formed: an entry the index was told   *)
(* of names a row of the table (create_index_operator.c++:24-42).          *)
TypeOK ==
  /\ kind \in {"hash", "tree"} /\ alive \in BOOLEAN
  /\ rows \in Seq([key : Keys, deleted : BOOLEAN])
  /\ told \in Seq([key : Keys, rid : DOMAIN rows])
  /\ touched \subseteq DOMAIN rows

(* The hash index finds, for every key, the rids of the entries it was     *)
(* given and that were not removed, each as often and in the order it got  *)
(* them, whatever shares the bucket and however often it was rehashed or   *)
(* rebuilt.  (StaticHashIndexWrapper.c++:42-72, static_hash_index.c++)     *)
HashLookupsExact == Usable("hash") =>
  \A key \in Keys : getValue(index, key) = RidsUnder(told, key)

(* Until the first removal the tree's search, its range query and its      *)
(* memory all hold what was inserted, in key order, through splits and     *)
(* reloads; findValue finds some entry of every key the tree holds, and no *)
(* other key's: it may miss those in leaves left of an equal separator.    *)
(* A scan may go on to an unknown page, for next_page_id of the last leaf  *)
(* was never set, but only if the tree has no key above its upper bound.   *)
(* (BPlusTreeIndex.c++:739-830, BPlusTreeIndex.h:39)                       *)
TreeLookupsExact == Usable("tree") /\ ~Did("remove") =>
  /\ \A key \in Keys :
       /\ search(index, key) <=> FirstOf(key) # 0
       /\ \A got \in findValue(index, key), all \in rangeQuery(index, key, key) :
            /\ got.rids = << >> <=> all.rids = << >>
            /\ IsSuffix(got.rids, all.rids)
            /\ got.strays => \A n \in DOMAIN told : told[n].key <= key
  /\ \A low, high \in Keys :
       low <= high => ScansExact(rangeQuery(index, low, high), low, high)

(* The tree is ordered, even after removals: what a child holds is between *)
(* the separators on its two sides, and the leaves are sorted.             *)
(* (splitChild, borrowFromPrev, borrowFromNext and merge:                  *)
(* BPlusTreeIndex.c++:216-261, 557-691)                                    *)
TreeOrdered == Usable("tree") /\ index.root # 0 =>
  /\ LET entries == TreeEntries(index)
     IN  \A n \in 2 .. Len(entries) : entries[n - 1].key <= entries[n].key
  /\ \A p \in DOMAIN index.nodes : LET node == index.nodes[p] IN ~node.isLeaf =>
       /\ Len(node.children) = Len(node.keys) + 1
       /\ \A n \in DOMAIN node.children : \A e \in Range(EntriesUnder(index, node.children[n])) :
            /\ n <= Len(node.keys) => e.key <= node.keys[n]
            /\ n > 1 => e.key >= node.keys[n - 1]

(* All leaves are equally deep, and no node but the root has fewer than    *)
(* t - 1 keys or more than 2t - 1: while no loaded tree is removed from.   *)
(* (BPlusTreeIndex.c++:316-339, 500-527)                                   *)
TreeBalanced == Usable("tree") /\ index.root # 0 =>
  /\ Cardinality(Depths(index, index.root)) = 1
  /\ ~(Did("reopen") /\ Did("remove")) =>
       \A p \in DOMAIN index.nodes :
         /\ Size(index.nodes[p]) <= 2 * index.t - 1
         /\ p # index.root => Size(index.nodes[p]) >= index.t - 1

(* Every node's page has the node's image: whatever the moment, what       *)
(* loadNode reads is what is in memory, and until the first removal the    *)
(* pages chain the leaves from left to right.                              *)
(* (saveNode and splitChild: BPlusTreeIndex.c++:216-298)                   *)
TreeOnPages == Usable("tree") /\ index.root # 0 =>
  /\ \A p \in DOMAIN index.nodes : index.disk[p] = serialized(index.nodes[p])
  /\ ~Did("remove") =>
       LET leaves == Leaves(index, index.root)
       IN  \A n \in DOMAIN leaves :
             index.disk[leaves[n]].next_page_id =
               IF n < Len(leaves) THEN leaves[n + 1] ELSE Wild

(* A removal takes at most one entry out of the tree, and puts none in,    *)
(* whatever it borrows and merges.  (BPlusTreeIndex.c++:420-691)           *)
RemovalTakesOne ==
  [][changes' # changes /\ kind = "tree" /\ alive' /\ Last(changes') = "remove" =>
       LET before == TreeEntries(index) after == TreeEntries(index')
       IN  after = before \/ \E n \in DOMAIN before : after = RemoveAt(before, n)]_vars

(* The index and the table differ in the rows changed since it was built   *)
(* or last told, and in no other: a row of a key that was not touched is   *)
(* found under that key, and what is found and was not touched is such a   *)
(* row.  (For the tree until the first removal, and on its own leaves.)    *)
(* INSERT, UPDATE and DELETE ask no index: TableHeap.c++:52-227.           *)
StaleOnlyWhereTouched ==
  alive /\ index # NoIndex /\ ~(kind = "tree" /\ Did("remove")) =>
    \A key \in Keys :
      LET live == {r \in DOMAIN rows : rows[r].key = key /\ ~rows[r].deleted}
      IN  live \ touched = RidsFound(key) \ touched
=============================================================================
