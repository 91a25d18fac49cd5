----------------------------- MODULE BPlusTree -----------------------------
(***************************************************************************)
(* The B+ tree index (Storage/Indexing/BPlusTreeIndex.c++): nodes in       *)
(* memory, linked by pointers, and the image of each on its page, which    *)
(* every operation that changes a node rewrites.                           *)
(*                                                                         *)
(* A tree is a record: t, the minimum degree; root, 0 while the tree is    *)
(* empty; nodes, from the page id of each node in memory to the node;      *)
(* disk, from page ids to images; meta, what saveBPlusTree left on the     *)
(* meta page; broken, set where the code reads through the end of an empty *)
(* vector.  children and children_pages_ids are one sequence: whenever a   *)
(* node is in memory all its children are.  Sequences count from 1, so the *)
(* child the code calls children[i] is children[i + 1] here.               *)
(***************************************************************************)
EXTENDS SequencesExt

(* next_page_id of the first leaf is never set: Wild stands for what the   *)
(* memory held, some int, which every last leaf inherits.                  *)
Wild == -2

TreeEntry(key, rid) == [key |-> key, rid |-> rid]

LeafKeys(entries) == [n \in DOMAIN entries |-> entries[n].key]

Leaf(entries, next) ==
  [isLeaf |-> TRUE, entries |-> entries, keys |-> LeafKeys(entries),
   children |-> << >>, next_page_id |-> next]

Inner(keys, children) ==
  [isLeaf |-> FALSE, entries |-> << >>, keys |-> keys,
   children |-> children, next_page_id |-> Wild]

(* serialize writes a leaf's entries but not its keys, and deserialize     *)
(* leaves the keys of a leaf empty.                                        *)
serialized(node) == IF node.isLeaf THEN [node EXCEPT !.keys = << >>] ELSE node

NewTree(degree) ==
  [t |-> degree, root |-> 0, nodes |-> << >>, disk |-> << >>,
   meta |-> [t |-> degree, root |-> 0], broken |-> FALSE]

NewPid(tree) == 1 + Len(tree.disk)

(* As a node that is written only when it gets its page.                   *)
storedOnce(tree, pid, node) ==
  [tree EXCEPT !.nodes = (pid :> node) @@ @,
               !.disk = IF pid \in DOMAIN @ THEN @ ELSE Append(@, serialized(node))]

(* A node is put in memory, and its image on its page.                     *)
Stored(tree, pid, node) ==
  [tree EXCEPT !.nodes = (pid :> node) @@ @,
               !.disk = IF pid \in DOMAIN @ THEN [@ EXCEPT ![pid] = serialized(node)]
                        ELSE Append(@, serialized(node))]

(* delete: the page keeps its image.                                       *)
Without(tree, pid) == [tree EXCEPT !.nodes = [p \in DOMAIN @ \ {pid} |-> @[p]]]

(* std::lower_bound and the loops that look for a child: the number of     *)
(* leading keys that are passed over.                                      *)
Leading(keys, Passed(_)) ==
  LET n == SelectInSeq(keys, LAMBDA k : ~Passed(k)) IN IF n = 0 THEN Len(keys) ELSE n - 1

Size(node) == IF node.isLeaf THEN Len(node.entries) ELSE Len(node.keys)

(* As a node that is split one entry too late.                             *)
IsOverfull(tree, pid) == Size(tree.nodes[pid]) = 2 * tree.t

IsFull(tree, pid) == Size(tree.nodes[pid]) = 2 * tree.t - 1

(* The recursions of the code go down a path or along the leaves: a step   *)
(* repeated as often as the tree has pages, which no path is longer than.  *)
Repeated(tree, start, Step(_)) ==
  LET after[n \in 0 .. Len(tree.disk)] == IF n = 0 THEN start ELSE Step(after[n - 1])
  IN  after[Len(tree.disk)]

---------------------------------------------------------------------------
(* splitChild: the upper half of child i moves to a new node behind it.    *)
LowerHalf(node, t) ==
  IF node.isLeaf THEN Leaf(SubSeq(node.entries, 1, t - 1), node.next_page_id)
  ELSE Inner(SubSeq(node.keys, 1, t - 1), SubSeq(node.children, 1, t))

UpperHalf(node, t) ==
  IF node.isLeaf THEN Leaf(SubSeq(node.entries, t, Len(node.entries)), node.next_page_id)
  ELSE Inner(SubSeq(node.keys, t + 1, Len(node.keys)),
             SubSeq(node.children, t + 1, Len(node.children)))

Separator(node, t) == IF node.isLeaf THEN node.entries[t].key ELSE node.keys[t]

(* As a split that does not link the new leaf behind the old one.          *)
splitUnlinked(tree, parent, i) ==
  LET node  == tree.nodes[parent]
      pid   == node.children[i]
      child == tree.nodes[pid]
      new   == NewPid(tree)
      split == Stored(Stored(tree, pid, LowerHalf(child, tree.t)), new, UpperHalf(child, tree.t))
  IN  [split EXCEPT !.nodes[parent].keys = InsertAt(@, i, Separator(child, tree.t)),
                    !.nodes[parent].children = InsertAt(@, i + 1, new)]

splitChild(tree, parent, i) ==
  LET node  == tree.nodes[parent]
      pid   == node.children[i]
      child == tree.nodes[pid]
      new   == NewPid(tree)
      lower == IF child.isLeaf THEN [LowerHalf(child, tree.t) EXCEPT !.next_page_id = new]
               ELSE LowerHalf(child, tree.t)
      split == Stored(Stored(tree, pid, lower), new, UpperHalf(child, tree.t))
  IN  [split EXCEPT !.nodes[parent].keys = InsertAt(@, i, Separator(child, tree.t)),
                    !.nodes[parent].children = InsertAt(@, i + 1, new)]

(* insertNonFull: the way down splits every full child it enters; a node   *)
(* is rewritten once its subtree is done.                                  *)
leafInsert(tree, pid, key, rid) ==
  LET node == tree.nodes[pid]
      n    == Leading(LeafKeys(node.entries), LAMBDA k : k < key)
  IN  Stored(tree, pid, Leaf(InsertAt(node.entries, n + 1, TreeEntry(key, rid)),
                             node.next_page_id))

rewritten(tree, pid) == Stored(tree, pid, tree.nodes[pid])

splitAndNext(tree, pid, i, key) ==
  LET split == splitChild(tree, pid, i)
  IN  [tree |-> split, child |-> IF key > split.nodes[pid].keys[i] THEN i + 1 ELSE i]

readied(tree, pid, i, key) ==
  IF IsFull(tree, tree.nodes[pid].children[i]) THEN splitAndNext(tree, pid, i, key)
  ELSE [tree |-> tree, child |-> i]

(* A way down: the tree, the nodes from the root to the one that is        *)
(* reached, and the key that is looked for.                                *)
FromRoot(tree, key) == [tree |-> tree, pids |-> <<tree.root>>, key |-> key]

Entered(way, step) ==
  [way EXCEPT !.tree = step.tree,
              !.pids = Append(@, step.tree.nodes[Last(@)].children[step.child])]

(* The way back up.                                                        *)
rewrittenUp(tree, pids) ==
  FoldRight(LAMBDA pid, below : rewritten(below, pid), Front(pids), tree)

insertStep(way) ==
  LET node == way.tree.nodes[Last(way.pids)]
      i    == 1 + Leading(node.keys, LAMBDA k : way.key >= k)
  IN  IF node.isLeaf THEN way
      ELSE Entered(way, readied(way.tree, Last(way.pids), i, way.key))

insertNonFull(tree, key, rid) ==
  LET way == Repeated(tree, FromRoot(tree, key), insertStep)
  IN  rewrittenUp(leafInsert(way.tree, Last(way.pids), key, rid), way.pids)

(* A full root becomes the only child of a new one first.                  *)
treeInsert(tree, key, rid) ==
  LET first == NewPid(tree)
      grown == [Stored(tree, first, Inner(<< >>, <<tree.root>>)) EXCEPT !.root = first]
  IN  IF tree.root = 0
      THEN [Stored(tree, first, Leaf(<<TreeEntry(key, rid)>>, Wild)) EXCEPT !.root = first]
      ELSE IF IsFull(tree, tree.root)
      THEN insertNonFull(splitChild(grown, first, 1), key, rid)
      ELSE insertNonFull(tree, key, rid)

---------------------------------------------------------------------------
(* Removal asks for t keys in a child before it goes down; a child with    *)
(* fewer borrows from a sibling or is merged with one.                     *)
borrowFromPrev(tree, parent, i) ==
  LET node    == tree.nodes[parent]
      child   == tree.nodes[node.children[i]]
      sibling == tree.nodes[node.children[i - 1]]
      moved   == IF child.isLeaf
                 THEN [child   |-> Leaf(<<Last(sibling.entries)>> \o child.entries, child.next_page_id),
                       sibling |-> Leaf(Front(sibling.entries), sibling.next_page_id),
                       key     |-> Last(sibling.entries).key]
                 ELSE [child   |-> Inner(<<node.keys[i - 1]>> \o child.keys,
                                         <<Last(sibling.children)>> \o child.children),
                       sibling |-> Inner(Front(sibling.keys), Front(sibling.children)),
                       key     |-> Last(sibling.keys)]
      both    == Stored(Stored(tree, node.children[i], moved.child),
                        node.children[i - 1], moved.sibling)
  IN  [both EXCEPT !.nodes[parent].keys[i - 1] = moved.key]

(* As a loan that leaves the separator of the two nodes as it was.         *)
borrowUnseparated(tree, parent, i) ==
  LET node    == tree.nodes[parent]
      child   == tree.nodes[node.children[i]]
      sibling == tree.nodes[node.children[i + 1]]
  IN  IF child.isLeaf
      THEN Stored(Stored(tree, node.children[i],
                         Leaf(Append(child.entries, Head(sibling.entries)), child.next_page_id)),
                  node.children[i + 1], Leaf(Tail(sibling.entries), sibling.next_page_id))
      ELSE Stored(Stored(tree, node.children[i],
                         Inner(Append(child.keys, node.keys[i]),
                               Append(child.children, Head(sibling.children)))),
                  node.children[i + 1], Inner(Tail(sibling.keys), Tail(sibling.children)))

borrowFromNext(tree, parent, i) ==
  LET node    == tree.nodes[parent]
      child   == tree.nodes[node.children[i]]
      sibling == tree.nodes[node.children[i + 1]]
      moved   == IF child.isLeaf
                 THEN [child   |-> Leaf(Append(child.entries, Head(sibling.entries)), child.next_page_id),
                       sibling |-> Leaf(Tail(sibling.entries), sibling.next_page_id),
                       key     |-> sibling.entries[2].key]
                 ELSE [child   |-> Inner(Append(child.keys, node.keys[i]),
                                         Append(child.children, Head(sibling.children))),
                       sibling |-> Inner(Tail(sibling.keys), Tail(sibling.children)),
                       key     |-> Head(sibling.keys)]
      both    == Stored(Stored(tree, node.children[i], moved.child),
                        node.children[i + 1], moved.sibling)
  IN  [both EXCEPT !.nodes[parent].keys[i] = moved.key]

(* As a merge that frees the sibling without taking its entries.           *)
mergeDropping(tree, parent, i) ==
  LET node    == tree.nodes[parent]
      child   == tree.nodes[node.children[i]]
      sibling == tree.nodes[node.children[i + 1]]
      merged  == IF child.isLeaf THEN child
                 ELSE Inner(Append(child.keys, node.keys[i]) \o sibling.keys,
                            child.children \o sibling.children)
      taken   == Without(Stored(tree, node.children[i], merged), node.children[i + 1])
  IN  [taken EXCEPT !.nodes[parent].keys = RemoveAt(@, i),
                    !.nodes[parent].children = RemoveAt(@, i + 1)]

(* merge takes the sibling behind child i in.  The leaf keeps its          *)
(* next_page_id, which names the page of the node that is gone.            *)
merge(tree, parent, i) ==
  LET node    == tree.nodes[parent]
      child   == tree.nodes[node.children[i]]
      sibling == tree.nodes[node.children[i + 1]]
      merged  == IF child.isLeaf
                 THEN Leaf(child.entries \o sibling.entries, child.next_page_id)
                 ELSE Inner(Append(child.keys, node.keys[i]) \o sibling.keys,
                            child.children \o sibling.children)
      taken   == Without(Stored(tree, node.children[i], merged), node.children[i + 1])
  IN  [taken EXCEPT !.nodes[parent].keys = RemoveAt(@, i),
                    !.nodes[parent].children = RemoveAt(@, i + 1)]

(* The first entry of the key, if the leaf has one.                        *)
leafRemove(tree, pid, key) ==
  LET node == tree.nodes[pid]
      n    == SelectInSeq(LeafKeys(node.entries), LAMBDA k : k = key)
  IN  IF n = 0 THEN tree
      ELSE Stored(tree, pid, Leaf(RemoveAt(node.entries, n), node.next_page_id))

(* The leaf that is reached by going down to the picked child.             *)
leafBelow(tree, pid, Pick(_)) ==
  Repeated(tree, pid, LAMBDA at : LET node == tree.nodes[at]
                                  IN  IF node.isLeaf THEN at ELSE node.children[Pick(node)])

LastLeaf(tree, pid) == tree.nodes[leafBelow(tree, pid, LAMBDA node : Len(node.children))]
FirstLeaf(tree, pid) == tree.nodes[leafBelow(tree, pid, LAMBDA node : 1)]

Rich(tree, parent, i) ==
  LET node == tree.nodes[parent]
  IN  i \in DOMAIN node.children /\ Len(tree.nodes[node.children[i]].keys) >= tree.t

(* The child that is gone down to, and the tree once it has t keys.        *)
prepared(tree, pid, i) ==
  LET count == Len(tree.nodes[pid].children)
  IN  IF Rich(tree, pid, i) THEN [tree |-> tree, child |-> i]
      ELSE IF i > 1 /\ Rich(tree, pid, i - 1)
      THEN [tree |-> borrowFromPrev(tree, pid, i), child |-> i]
      ELSE IF Rich(tree, pid, i + 1)
      THEN [tree |-> borrowFromNext(tree, pid, i), child |-> i]
      ELSE IF i < count
      THEN [tree |-> merge(tree, pid, i), child |-> i]
      ELSE [tree |-> merge(tree, pid, i - 1), child |-> i - 1]

(* A key that is also the separator behind child i gives way to its        *)
(* neighbour in the richer child, and it is the neighbour that is removed. *)
pastSeparator(way, i) ==
  LET tree == way.tree
      pid  == Last(way.pids)
      node == tree.nodes[pid]
      ends(to, leaf, k) ==
        IF leaf.keys = << >> THEN [way EXCEPT !.tree.broken = TRUE]
        ELSE [tree |-> [tree EXCEPT !.nodes[pid].keys[i] = k],
              pids |-> Append(way.pids, node.children[to]), key |-> k]
      lower == LastLeaf(tree, node.children[i])
      upper == FirstLeaf(tree, node.children[i + 1])
  IN  IF Rich(tree, pid, i) THEN ends(i, lower, Last(lower.keys))
      ELSE IF Rich(tree, pid, i + 1) THEN ends(i + 1, upper, Head(upper.keys))
      ELSE Entered(way, [tree |-> merge(tree, pid, i), child |-> i])

removeStep(way) ==
  LET pid  == Last(way.pids)
      node == way.tree.nodes[pid]
      i    == 1 + Leading(node.keys, LAMBDA k : k < way.key)
  IN  IF way.tree.broken \/ node.isLeaf THEN way
      ELSE IF i <= Len(node.keys) /\ node.keys[i] = way.key THEN pastSeparator(way, i)
      ELSE Entered(way, prepared(way.tree, pid, i))

removeFrom(tree, key) ==
  LET way == Repeated(tree, FromRoot(tree, key), removeStep)
  IN  IF way.tree.broken THEN way.tree
      ELSE rewrittenUp(leafRemove(way.tree, Last(way.pids), way.key), way.pids)

(* A root without keys gives way to its only child.                        *)
shrunk(tree) ==
  LET root == tree.nodes[tree.root]
  IN  IF ~tree.broken /\ root.keys = << >> /\ ~root.isLeaf
      THEN [Without(tree, tree.root) EXCEPT !.root = Head(root.children)]
      ELSE tree

treeRemove(tree, key) ==
  IF tree.root = 0 THEN tree ELSE shrunk(removeFrom(tree, key))

---------------------------------------------------------------------------
(* search and findValue go down to the last child that may hold the key,   *)
(* rangeQuery to the first that may hold one as large as its lower bound.  *)
leafFor(tree, key) ==
  leafBelow(tree, tree.root, LAMBDA node : 1 + Leading(node.keys, LAMBDA k : key >= k))
leafFrom(tree, lower) ==
  leafBelow(tree, tree.root, LAMBDA node : 1 + Leading(node.keys, LAMBDA k : lower > k))

search(tree, key) ==
  /\ tree.root # 0
  /\ \E e \in Range(tree.nodes[leafFor(tree, key)].entries) : e.key = key

ridsOf(entries) == [n \in DOMAIN entries |-> entries[n].rid]

(* The outcomes of a scan of the leaves: the rids found on the tree's own, *)
(* and whether the scan strays from the last of them to an unknown page,   *)
(* of whose entries any may follow.  The first leaf is in memory, each     *)
(* other is read from the page its predecessor names, until one has a key  *)
(* past the upper bound; a wild next page ends the scan when it happens to *)
(* be negative.  No page is met twice before the tree has been removed     *)
(* from; a scan is cut after as many pages as there are.                   *)
Outcome(entries, strays) == [rids |-> ridsOf(entries), strays |-> strays]

ScanFrom(tree, leaf, lower, upper) ==
  LET within(l) == SelectSeq(l.entries, LAMBDA e : lower <= e.key /\ e.key <= upper)
      past(l)   == \E n \in DOMAIN l.entries : l.entries[n].key > upper
      next(l)   == tree.disk[l.next_page_id]
      onward(scan) ==
        IF past(scan.leaf) \/ scan.leaf.next_page_id = Wild THEN scan
        ELSE [leaf |-> next(scan.leaf), found |-> scan.found \o within(next(scan.leaf))]
      all == Repeated(tree, [leaf |-> leaf, found |-> within(leaf)], onward)
  IN  {Outcome(all.found, strays) : strays \in IF past(all.leaf) THEN {FALSE} ELSE BOOLEAN}

findValue(tree, key) ==
  IF tree.root = 0 THEN {Outcome(<< >>, FALSE)}
  ELSE ScanFrom(tree, tree.nodes[leafFor(tree, key)], key, key)

rangeQuery(tree, lower, upper) ==
  IF tree.root = 0 THEN {Outcome(<< >>, FALSE)}
  ELSE ScanFrom(tree, tree.nodes[leafFrom(tree, lower)], lower, upper)

---------------------------------------------------------------------------
(* saveBPlusTree writes every node again and the root's id to the meta     *)
(* page; loadBPlusTree builds the nodes that can be reached from it.       *)
saveBPlusTree(tree) ==
  [tree EXCEPT !.meta = [t |-> tree.t, root |-> tree.root],
               !.disk = [p \in DOMAIN @ |-> IF p \in DOMAIN tree.nodes
                                            THEN serialized(tree.nodes[p]) ELSE @[p]]]

loadedNodes(tree) ==
  LET below(pids) == UNION {Range(tree.disk[p].children) : p \in pids}
      reached     == Repeated(tree, {tree.meta.root}, LAMBDA pids : pids \cup below(pids))
  IN  [p \in reached |-> tree.disk[p]]

loadBPlusTree(tree) ==
  [tree EXCEPT !.t = tree.meta.t, !.root = tree.meta.root,
               !.nodes = IF tree.meta.root = 0 THEN << >>
                         ELSE loadedNodes(tree)]
=============================================================================
