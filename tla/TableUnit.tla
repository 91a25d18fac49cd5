----------------------------- MODULE TableUnit -----------------------------
(***************************************************************************)
(* A table heap on its own, driven as its tests drive it (test/): tuples   *)
(* are inserted, and updated and deleted at the rids a scan yields; other  *)
(* users of the pool push pages out at any time; the table is destroyed,   *)
(* the pool and the disk closed, and all of it opened again.               *)
(***************************************************************************)
EXTENDS TableHeap

CONSTANT MaxChanged   \* bound of the model: the rids updated or deleted

VARIABLES
  t,        \* the table
  loaded,   \* FALSE once the constructor has thrown
  rows,     \* history: the tuple each row should have, at the rid it should have
  changed   \* history: the rids whose tuple was overwritten or deleted

vars == <<t, loaded, rows, changed>>

Init ==
  /\ t = NewTable
  /\ loaded = TRUE
  /\ rows = EmptyMap /\ changed = {}

Places == {rid \in UNION {Slots(t, p) : p \in DOMAIN t.view} : Present(t, rid)}

(* Room is the model's bound; the code asks for nothing.                   *)
RoomFor(tuple) == Fits(lastPage(t), tuple) \/ HasRoom(t)

Insert(tuple) ==
  /\ loaded /\ RoomFor(tuple)
  /\ t' = insertTuple(t, tuple)
  /\ rows' = Stored(rows, placeOf(t, tuple), tuple)
  /\ UNCHANGED <<loaded, changed>>

Update(rid, tuple) ==
  /\ loaded /\ Present(t, rid)
  /\ Grows(t, rid, tuple) => RoomFor(tuple)
  /\ changed' = changed \cup {rid} /\ Cardinality(changed') <= MaxChanged
  /\ t' = updateTuple(t, rid, tuple)
  /\ rows' = Replaced(t, rows, rid, tuple)
  /\ UNCHANGED loaded

(* The list of two rids, of different tuples.                              *)
UpdateBoth(rid1, rid2, tuple) ==
  LET first == updateTuple(t, rid1, tuple)
  IN  /\ loaded /\ rid1 # rid2 /\ Present(t, rid1) /\ Present(t, rid2)
      /\ changed' = changed \cup {rid1, rid2} /\ Cardinality(changed') <= MaxChanged
      /\ Grows(t, rid1, tuple) => RoomFor(tuple)
      /\ Grows(first, rid2, tuple) => Fits(lastPage(first), tuple) \/ HasRoom(first)
      /\ t' = updateTuples(t, <<rid1, rid2>>, tuple)
      /\ rows' = Replaced(first, Replaced(t, rows, rid1, tuple), rid2, tuple)
      /\ UNCHANGED loaded

Delete(rid) ==
  /\ loaded /\ Present(t, rid)
  /\ changed' = changed \cup {rid} /\ Cardinality(changed') <= MaxChanged
  /\ t' = deleteTuple(t, rid)
  /\ rows' = Erase(rows, rid)
  /\ UNCHANGED loaded

Evict(p) ==
  /\ loaded
  /\ t' = Evicted(t, {p})
  /\ UNCHANGED <<loaded, rows, changed>>

(* ~TableHeap, ~BufferPoolManager, ~DiskManager, and the constructors.     *)
Restart ==
  /\ loaded
  /\ loaded' = Loads(Closed(t))
  /\ t' = IF loaded' THEN loadMetaData(Closed(t)) ELSE Closed(t)
  /\ UNCHANGED <<rows, changed>>

(* The object is of no use afterwards; its pages are still there.          *)
Destroy ==
  /\ loaded
  /\ t' = deleteTableHeap(t)
  /\ loaded' = FALSE
  /\ UNCHANGED <<rows, changed>>

Next ==
  \/ \E tuple \in Tuples : Insert(tuple)
  \/ \E rid \in Places, tuple \in Tuples : Update(rid, tuple)
  \/ \E rid1, rid2 \in Places, tuple \in Tuples : UpdateBoth(rid1, rid2, tuple)
  \/ \E rid \in Places : Delete(rid)
  \/ \E p \in DOMAIN t.view : Evict(p)
  \/ Restart \/ Destroy

Spec == Init /\ [][Next]_vars

---------------------------------------------------------------------------
(* The table as its pages have it, also once its object has let go of them.*)
OnPages == IF t.first_page_id = -1 THEN Released(t) ELSE t

TypeOK ==
  /\ IsTable(OnPages)
  /\ loaded \in BOOLEAN
  /\ DOMAIN rows \cup changed \subseteq [page : PageId, slot : Nat]
  /\ Range(rows) \subseteq Tuples

(* The pages linked from the first are all the pages the table allocated,  *)
(* each once, and the last of them is the one insertTuple fills: whatever  *)
(* was evicted or reopened, no page and no tuple in it is out of reach.    *)
(* deleteTableHeap meets all of them: none is left with writes the file    *)
(* does not have, and the chain it leaves in the file is still whole.      *)
ChainWellFormed ==
  /\ ChainIntact(OnPages) /\ IsInjective(Chain(OnPages))
  /\ Range(Chain(OnPages)) = DOMAIN t.view
  /\ Last(Chain(OnPages)) = OnPages.last_page_id
  /\ t.first_page_id = -1 => t.marked = {} /\ t.view = t.stored

(* No page holds more than fits behind its header, not even once a tuple   *)
(* filled it to the last byte: the slots end before the tuples begin, and  *)
(* the bytes a tuple counts end before the tuple that was inserted before  *)
(* it, even when it was written over another.  The NUL behind a text may   *)
(* be one byte more: that byte is the flag of the neighbour, and a tuple   *)
(* that loses its flag is still deleted in its slot.                       *)
PagesFit ==
  \A p \in DOMAIN t.view :
    /\ Fitting(t.view[p]) /\ Fitting(t.stored[p])
    /\ OneByteOver(t.view[p]) /\ OneByteOver(t.stored[p])

(* A scan between the starting and the stopping rid yields every tuple of  *)
(* the table, once, in the order of the chain.                             *)
ScanYieldsRows == loaded => YieldsRows(t, Scanned(t))

(* A TableIterator between them, as CREATE INDEX uses it, yields the same, *)
(* while no tuple is deleted, the first has a slot and no page is empty:   *)
(* it would read a tuple that is not there.                                *)
IteratorYieldsRows ==
  LET rids == Iterated(t, t.starting_rid)
  IN  /\ loaded /\ NoTupleDeleted(t) /\ t.starting_rid.slot >= 0
      /\ \A i \in 2 .. Len(Chain(t)) : t.view[Chain(t)[i]].slots # << >>
      => YieldsRows(t, rids) /\ \A n \in DOMAIN rids : getTupleFromRID(t, rids[n]) # {}

(* A tuple that was inserted and not changed since is where insertTuple    *)
(* put it, through evictions of its page and clean restarts.               *)
InsertsStay == \A rid \in DOMAIN rows \ changed :
  Present(t, rid) /\ getTuple(t, rid) = rows[rid]

(* "All data structures persist to disk": after a clean restart every row  *)
(* is as its last update left it.                                          *)
RestartKeepsRows ==
  [][Restart /\ loaded' =>
       \A rid \in DOMAIN rows : /\ Present(t', rid)
                                /\ getTuple(t', rid) = rows[rid]]_vars

---------------------------------------------------------------------------
(* The invariant that steps preserve: the pages of the table are sound,    *)
(* even when its object was destroyed, and a page that is not marked has   *)
(* its unchanged tuples in the file.                                       *)
IInv ==
  /\ loaded \in BOOLEAN
  /\ DOMAIN rows \cup changed \subseteq [page : PageId, slot : Nat]
  /\ Range(rows) \subseteq Tuples
  /\ Sound(OnPages) /\ Kept(OnPages, rows, changed)
  /\ t.first_page_id = -1 => ~loaded /\ t.marked = {} /\ t.view = t.stored

(* And, for the scans:                                                     *)
ScansBounded == Bounded(OnPages)
=============================================================================
