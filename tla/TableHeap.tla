----------------------------- MODULE TableHeap -----------------------------
(***************************************************************************)
(* The table heap (Storage/Table/TableHeap.c++) and the slotted page it is *)
(* made of (Storage/Page/page.c++), over the page cache the buffer pool    *)
(* implements.  A table is a chain of pages: the first holds the metadata  *)
(* that saveMetaData writes, the others hold tuples.                       *)
(*                                                                         *)
(* A table is a record: a file (see CachedFile) and the fields of the      *)
(* TableHeap object.  Every method is an operator on tables.  A method     *)
(* works through pointers to at most two pages, which BufferPool shows     *)
(* valid (PointersValid), so a write through one of them is a write to the *)
(* page's view; the evictions its calls may cause are those of Evicted.    *)
(*                                                                         *)
(* Left out: num_of_tuples, which only traces print, and table_rids, which *)
(* only the construction of an index reads.                                *)
(***************************************************************************)
EXTENDS SequencesExt, CachedFile

CONSTANTS
  MaxPages,    \* bound of the model: pages of the file
  Tuples,      \* what a tuple may be, as far as a property can tell
  TupleSize,   \* [Tuples -> Nat]: getTupleSize, in bytes
  EndInText,   \* the tuples whose last field is a text
  PageSpace,   \* bytes of a page behind its header
  SlotSize     \* sizeof(Slot)

ASSUME PagesAssumption == MaxPages \in Nat /\ MaxPages >= 2
ASSUME SizeAssumption ==
  /\ TupleSize \in [Tuples -> Nat] /\ PageSpace \in Nat /\ SlotSize \in Nat
  /\ EndInText \subseteq Tuples

PageId == 1 .. MaxPages
NoRID  == [page |-> -1, slot |-> -1]
NoMeta == [last_page_id |-> -1,
           starting_rid |-> NoRID, stopping_rid |-> NoRID]

---------------------------------------------------------------------------
(* Pages.  Slots are numbered from 0, and never removed; they grow from the*)
(* header down, and the tuples from the end of the page up: offsets and    *)
(* the free_space_pointer are counted from the end of the header.  That a  *)
(* tuple is deleted is kept twice, in its slot and in the first byte of the*)
(* tuple itself: flags are the slots whose tuple has it set.               *)
EmptyPage == [next_page_id |-> -1, free_space_pointer |-> PageSpace,
              slots |-> << >>, flags |-> {}, meta |-> NoMeta]

Padded(size) == ((size + 7) \div 8) * 8

FreeSize(page) == page.free_space_pointer - Len(page.slots) * SlotSize

(* As a check that forgets the slot the tuple also needs.                  *)
FitsWithoutSlot(page, tuple) == FreeSize(page) >= Padded(TupleSize[tuple])

Fits(page, tuple) == FreeSize(page) >= Padded(TupleSize[tuple]) + SlotSize

HasSlot(page, n) == n \in 0 .. Len(page.slots) - 1

(* getTuple finds nothing in a slot that does not exist or is deleted, or  *)
(* whose tuple says it is.                                                 *)
Found(page, n) ==
  HasSlot(page, n) /\ n \notin page.flags /\ ~page.slots[n + 1].deleted

(* What serialize writes: the bytes getTupleSize counts and, behind a text,*)
(* a NUL it does not count.  The NUL of a tuple that fills its slot is the *)
(* first byte of the tuple in front of it in the slots, and clears its     *)
(* flag; behind the first tuple of a page, which ends where the page ends, *)
(* it falls on the byte after the frame, which the allocator's rounding    *)
(* leaves unused.                                                          *)
Extent(tuple) == TupleSize[tuple] + (IF tuple \in EndInText THEN 1 ELSE 0)

Cleared(page, n, offset, tuple) ==
  {m \in {n - 1} : HasSlot(page, m) /\ offset + Extent(tuple) > page.slots[m + 1].offset}

pageInsert(page, tuple) ==
  LET offset == page.free_space_pointer - Padded(TupleSize[tuple])
  IN  [page EXCEPT !.free_space_pointer = offset,
                   !.slots = Append(@, [tuple |-> tuple, deleted |-> FALSE,
                                        offset |-> offset]),
                   !.flags = @ \ Cleared(page, Len(page.slots), offset, tuple)]

(* As a deletion that leaves the slot as it is.                            *)
pageDeleteFlag(page, n) ==
  LET slot == page.slots[n + 1]
  IN  IF HasSlot(page, n) /\ ~slot.deleted
      THEN [page EXCEPT !.flags = (@ \cup {n}) \ Cleared(page, n, slot.offset, slot.tuple)]
      ELSE page

(* The space of a deleted tuple is not reclaimed; its bytes are written    *)
(* again, with the flag.                                                   *)
pageDelete(page, n) ==
  LET slot == page.slots[n + 1]
  IN  IF HasSlot(page, n) /\ ~slot.deleted
      THEN [page EXCEPT !.slots[n + 1].deleted = TRUE,
                        !.flags = (@ \cup {n}) \ Cleared(page, n, slot.offset, slot.tuple)]
      ELSE page

(* A tuple no larger than the old one overwrites it, with the flag reset.  *)
pageOverwrite(page, n, tuple) ==
  [page EXCEPT !.slots[n + 1].tuple = tuple,
               !.flags = (@ \ {n}) \ Cleared(page, n, page.slots[n + 1].offset, tuple)]

---------------------------------------------------------------------------
(* newPage, while the model's file has room.                               *)
HasRoom(t) == NewPageId(t) \in PageId

newPage(t) == Extended(t, EmptyPage)

---------------------------------------------------------------------------
(* The constructor for a new table, on a cache without pages: the metadata *)
(* page is linked to the first page of tuples, and only the first is       *)
(* marked.                                                                 *)
NewTable ==
  LET none  == [view |-> EmptyMap, stored |-> EmptyMap, marked |-> {}, known |-> {},
                first_page_id |-> 1, last_page_id |-> 2,
                starting_rid |-> NoRID, stopping_rid |-> NoRID]
      pages == newPage(newPage(none))
  IN  Marked(Written(pages, 1, [EmptyPage EXCEPT !.next_page_id = 2]), 1)

(* insertTuple tries the last page.  When the tuple does not fit it links  *)
(* a new page and inserts there; the slot it reports then is -1, and a     *)
(* tuple that does not fit in the new page either is not stored.           *)
lastPage(t) == t.view[t.last_page_id]

(* As an extension that does not mark the page it links from.              *)
extendedUnmarked(t) ==
  LET p == NewPageId(t)
  IN  [Written(newPage(t), t.last_page_id, [lastPage(t) EXCEPT !.next_page_id = p])
         EXCEPT !.last_page_id = p]

extended(t) ==
  LET p      == NewPageId(t)
      linked == Written(newPage(t), t.last_page_id, [lastPage(t) EXCEPT !.next_page_id = p])
  IN  [Marked(linked, t.last_page_id) EXCEPT !.last_page_id = p]

insertedRID(t, tuple) ==
  IF Fits(lastPage(t), tuple)
  THEN [page |-> t.last_page_id, slot |-> Len(lastPage(t).slots)]
  ELSE [page |-> NewPageId(t), slot |-> -1]

(* As an insertion into the last page that does not mark it.               *)
insertUnmarked(t, tuple) ==
  LET ready == IF Fits(lastPage(t), tuple) THEN t ELSE extended(t)
      rid   == insertedRID(t, tuple)
  IN  [IF Fits(lastPage(ready), tuple)
       THEN Written(ready, ready.last_page_id, pageInsert(lastPage(ready), tuple))
       ELSE ready
       EXCEPT !.starting_rid = IF @.page = -1 THEN rid ELSE @, !.stopping_rid = rid]

insertTuple(t, tuple) ==
  LET ready  == IF Fits(lastPage(t), tuple) THEN t ELSE extended(t)
      last   == ready.last_page_id
      stored == IF Fits(lastPage(ready), tuple)
                THEN Written(ready, last, pageInsert(lastPage(ready), tuple))
                ELSE ready
      rid    == insertedRID(t, tuple)
  IN  [Marked(stored, last) EXCEPT
         !.starting_rid = IF @.page = -1 THEN rid ELSE @,
         !.stopping_rid = rid]

(* Where the tuple went, when it went anywhere.                            *)
placeOf(t, tuple) ==
  IF Fits(lastPage(t), tuple) THEN insertedRID(t, tuple)
  ELSE [page |-> NewPageId(t), slot |-> 0]

(* getTuple: NULL stands for the nullptr of a tuple that is not there.     *)
Present(t, rid) == Found(t.view[rid.page], rid.slot)
Slots(t, p)     == [page : {p}, slot : 0 .. Len(t.view[p].slots) - 1]
getTuple(t, rid) == t.view[rid.page].slots[rid.slot + 1].tuple

(* updateTuple on a rid that was not itself the result of a move (a scan   *)
(* yields no others).  A tuple that grew is deleted and inserted again, at *)
(* the end; neither case marks the old page.                               *)
(* (GrowsOrEqual: as a comparison that also moves a tuple of equal size.)  *)
GrowsOrEqual(t, rid, tuple) == TupleSize[getTuple(t, rid)] <= TupleSize[tuple]

Grows(t, rid, tuple) == TupleSize[getTuple(t, rid)] < TupleSize[tuple]

updateTuple(t, rid, tuple) ==
  LET page == t.view[rid.page]
  IN  IF Grows(t, rid, tuple)
      THEN insertTuple(Written(t, rid.page, pageDelete(page, rid.slot)), tuple)
      ELSE Written(t, rid.page, pageOverwrite(page, rid.slot, tuple))

(* The overload for a list of rids, which goes on behind a tuple that found*)
(* no page to fit in; and getTupleFromRID, which gives an empty tuple for  *)
(* one that is not there.                                                  *)
updateTuples(t, rids, tuple) ==
  LET after[n \in 0 .. Len(rids)] ==
        IF n = 0 THEN t ELSE updateTuple(after[n - 1], rids[n], tuple)
  IN  after[Len(rids)]

getTupleFromRID(t, rid) == IF Present(t, rid) THEN {getTuple(t, rid)} ELSE {}

(* deleteTuple, deleteTupleBool: the page is not marked.                   *)
deleteTuple(t, rid) == Written(t, rid.page, pageDelete(t.view[rid.page], rid.slot))

---------------------------------------------------------------------------
(* The chain: the pages met from the first along next_page_id.  A walk as  *)
(* long as the file has met a page twice.                                  *)
Walk(t) ==
  LET at[n \in 0 .. MaxPages] ==
        IF n = 0 THEN t.first_page_id
        ELSE LET last == at[n - 1]
             IN  IF last \in DOMAIN t.view THEN t.view[last].next_page_id ELSE -1
  IN  at

Chain(t) ==
  LET at == Walk(t)
  IN  [n \in 1 .. Cardinality({k \in 0 .. MaxPages : at[k] # -1}) |-> at[n - 1]]

(* Every page of the chain is in the directory, and the chain ends.        *)
ChainIntact(t) == /\ Range(Chain(t)) \subseteq DOMAIN t.view
                  /\ Walk(t)[MaxPages] = -1

(* deleteTableHeap has the pool drop the pages of the chain, one after the *)
(* other, and forgets them.  A marked page is written first, and nobody    *)
(* tells the disk manager: the pages stay in the file, and in its directory.*)
deleteTableHeap(t) ==
  [Evicted(t, Range(Chain(t))) EXCEPT !.first_page_id = -1, !.last_page_id = -1]

---------------------------------------------------------------------------
(* saveMetaData, run by the destructor, and loadMetaData.                  *)
(* As a close that marks the metadata page without filling it.             *)
saveNothing(t) == Marked(t, t.first_page_id)

saveMetaData(t) ==
  Marked(Written(t, t.first_page_id,
                 [t.view[t.first_page_id] EXCEPT
                    !.meta = [last_page_id |-> t.last_page_id,
                              starting_rid |-> t.starting_rid,
                              stopping_rid |-> t.stopping_rid]]),
         t.first_page_id)

loadMetaData(t) ==
  LET meta == t.view[t.first_page_id].meta
  IN  [t EXCEPT !.last_page_id = meta.last_page_id,
                !.starting_rid = meta.starting_rid,
                !.stopping_rid = meta.stopping_rid]

(* setAllRIDs asks is_deleted of every slot, and is_deleted throws when    *)
(* the answer is yes: a table with a deleted tuple cannot be loaded.       *)
NoTupleDeleted(t) ==
  \A p \in Range(Chain(t)) : \A n \in DOMAIN t.view[p].slots : ~t.view[p].slots[n].deleted

Loads(t) == ChainIntact(t) /\ NoTupleDeleted(t)

Closed(t) == Flushed(saveMetaData(t))

---------------------------------------------------------------------------
(* SeqScan: one step of getNext's loop from a position; it stops (at NoRID)*)
(* behind the last slot of a page that has no next page, or one beyond the *)
(* page of the stopping rid.                                               *)
(* As a scan that stays on slot 0 of the page it moved to.                 *)
scanAgain(t, rid) ==
  LET next == t.view[rid.page].next_page_id
  IN  IF rid.slot < Len(t.view[rid.page].slots)
      THEN [page |-> rid.page, slot |-> rid.slot + 1]
      ELSE IF next = -1 \/ next > t.stopping_rid.page THEN NoRID
      ELSE [page |-> next, slot |-> 0]

scanNext(t, rid) ==
  LET next == t.view[rid.page].next_page_id
  IN  IF rid.slot < Len(t.view[rid.page].slots)
      THEN [page |-> rid.page, slot |-> rid.slot + 1]
      ELSE IF next = -1 \/ next > t.stopping_rid.page THEN NoRID
      ELSE [page |-> next, slot |-> 1]

(* The rid that step reads, when it reads one.                             *)
scanRead(t, rid) ==
  LET next == t.view[rid.page].next_page_id
  IN  IF rid.slot < Len(t.view[rid.page].slots) THEN rid
      ELSE IF next = -1 \/ next > t.stopping_rid.page THEN NoRID
      ELSE [page |-> next, slot |-> 0]

(* A scan takes at most one step for each slot and each page, and one to   *)
(* leave a slot -1.                                                        *)
ScanSteps(t) ==
  LET pages == Range(Chain(t))
  IN  1 + Cardinality(pages) + Cardinality(UNION {Slots(t, p) : p \in pages})

(* The positions of a scan, and the rids it yields, from a given one on.   *)
Positions(t, from) ==
  LET at[n \in 0 .. ScanSteps(t)] ==
        IF n = 0 THEN from
        ELSE LET last == at[n - 1]
             IN  IF last.page = -1 THEN NoRID ELSE scanNext(t, last)
  IN  at

readAt(t, rid) == IF rid.page = -1 THEN NoRID ELSE scanRead(t, rid)

Yields(t, rid) == rid.page # -1 /\ Present(t, rid)

(* What a scan yields: the rid of each step that finds a tuple.            *)
Scanned(t) ==
  LET at == Positions(t, t.starting_rid)
  IN  [n \in {k \in DOMAIN at : Yields(t, readAt(t, at[k]))} |-> readAt(t, at[n])]

(* TableIterator: it starts at a rid unless the page has no such slot, and *)
(* goes from the last slot of a page to slot 0 of the next, whether there  *)
(* is a tuple in it or not.                                                *)
iteratorStart(t, rid) ==
  IF rid.page # -1 /\ Len(t.view[rid.page].slots) <= rid.slot
  THEN [page |-> -1, slot |-> 0] ELSE rid

(* As an iterator that stops before the last slot of a page.               *)
iteratorEarly(t, rid) ==
  IF rid.slot + 2 >= Len(t.view[rid.page].slots)
  THEN [page |-> t.view[rid.page].next_page_id, slot |-> 0]
  ELSE [rid EXCEPT !.slot = @ + 1]

iteratorNext(t, rid) ==
  IF rid.slot + 1 >= Len(t.view[rid.page].slots)
  THEN [page |-> t.view[rid.page].next_page_id, slot |-> 0]
  ELSE [rid EXCEPT !.slot = @ + 1]

IteratorPositions(t, from) ==
  LET at[n \in 0 .. ScanSteps(t)] ==
        IF n = 0 THEN iteratorStart(t, from)
        ELSE LET last == at[n - 1]
             IN  IF last.page = -1 THEN last ELSE iteratorNext(t, last)
  IN  at

Iterated(t, from) ==
  LET at == IteratorPositions(t, from)
  IN  [n \in {k \in DOMAIN at : at[k].page # -1} |-> at[n]]

(* What either should: the tuples present in the chain, each in one step,  *)
(* in the order of the chain.                                              *)
Rows(t) == {rid \in UNION {Slots(t, p) : p \in Range(Chain(t))} : Present(t, rid)}

Precedes(chain, rid, other) ==
  \/ rid.page = other.page /\ rid.slot < other.slot
  \/ \E i, j \in DOMAIN chain : i < j /\ chain[i] = rid.page /\ chain[j] = other.page

YieldsRows(t, rids) ==
  LET chain == Chain(t)
  IN  /\ Range(rids) = Rows(t)
      /\ \A m, n \in DOMAIN rids : m < n => Precedes(chain, rids[m], rids[n])

---------------------------------------------------------------------------
RID  == [page : PageId \cup {-1}, slot : Nat \cup {-1}]
Page == [next_page_id : PageId \cup {-1}, free_space_pointer : Nat,
         slots : Seq([tuple : Tuples, offset : Nat, deleted : BOOLEAN]),
         flags : SUBSET Nat,
         meta : [last_page_id : PageId \cup {-1},
                 starting_rid : RID, stopping_rid : RID]]

IsTable(t) ==
  /\ IsFile(t) /\ DOMAIN t.view \subseteq PageId
  /\ \A p \in DOMAIN t.view : t.view[p] \in Page /\ t.stored[p] \in Page
  /\ {t.first_page_id, t.last_page_id} \subseteq PageId
  /\ {t.starting_rid, t.stopping_rid} \subseteq RID

---------------------------------------------------------------------------
(* A history of the rows: the tuple each should have, at the rid it should *)
(* have.  What it says once table u has taken a tuple in, and once it has  *)
(* the tuple for the one at the rid.                                       *)
Stored(at, place, tuple) == IF Fits(EmptyPage, tuple) THEN Put(at, place, tuple) ELSE at

Replaced(u, at, rid, tuple) ==
  IF Grows(u, rid, tuple) THEN Stored(Erase(at, rid), placeOf(u, tuple), tuple)
  ELSE Put(at, rid, tuple)

---------------------------------------------------------------------------
(* The slots of a page end before its tuples begin, and the bytes a tuple  *)
(* counts, even one written over another, end before the tuple that was    *)
(* inserted before it.  A tuple that says it is deleted has a slot that    *)
(* says so too, so that losing the flag brings nothing back.               *)
End(page, n) == IF n = 1 THEN PageSpace ELSE page.slots[n - 1].offset

Fitting(page) ==
  /\ Len(page.slots) * SlotSize <= page.free_space_pointer
  /\ page.free_space_pointer = End(page, Len(page.slots) + 1)
  /\ \A n \in DOMAIN page.slots :
       page.slots[n].offset + Padded(TupleSize[page.slots[n].tuple]) <= End(page, n)
  /\ \A m \in page.flags : HasSlot(page, m) /\ page.slots[m + 1].deleted

(* The byte behind a tuple is the only one a serialize may reach into the  *)
(* next.                                                                   *)
OneByteOver(page) ==
  \A n \in DOMAIN page.slots :
    page.slots[n].offset + Extent(page.slots[n].tuple) <= End(page, n) + 1

(* What the methods preserve.  The chain goes through the pages in the     *)
(* order of their numbers, and a page that is not marked has its link in   *)
(* the file, so that losing the writes to it does not lose the page.       *)
TableFields == {"view", "stored", "marked", "known", "first_page_id",
                "last_page_id", "starting_rid", "stopping_rid"}

NextPage(u, p) == IF p < u.last_page_id THEN p + 1 ELSE -1

Sound(u) ==
  /\ DOMAIN u = TableFields /\ IsFile(u)
  /\ u.first_page_id = 1 /\ u.last_page_id \in 2 .. MaxPages
  /\ u.starting_rid \in RID /\ u.stopping_rid \in RID
  /\ DOMAIN u.view = 1 .. u.last_page_id
  /\ \A p \in DOMAIN u.view :
       /\ u.view[p] \in Page /\ Fitting(u.view[p])
       /\ u.stored[p] \in Page /\ Fitting(u.stored[p])
       /\ u.view[p].next_page_id = NextPage(u, p)
       /\ p \notin u.marked => u.stored[p].next_page_id = NextPage(u, p)

(* A table whose object has let go of its pages, as they have it.          *)
Released(u) ==
  [u EXCEPT !.first_page_id = 1, !.last_page_id = Cardinality(DOMAIN u.view)]

(* So a rid is in front of another by its numbers.                         *)
Before(rid, other) ==
  rid.page < other.page \/ (rid.page = other.page /\ rid.slot < other.slot)

(* The tuples of a history, but for those at others, are in the table; and *)
(* in the file, where their page is not marked.                            *)
Holds(page, n, tuple) == Found(page, n) /\ page.slots[n + 1].tuple = tuple

Kept(u, at, others) ==
  \A rid \in DOMAIN at \ others :
    /\ rid.page \in DOMAIN u.view /\ Holds(u.view[rid.page], rid.slot, at[rid])
    /\ rid.page \notin u.marked => Holds(u.stored[rid.page], rid.slot, at[rid])

(* What the scans rest on: no page in front of the starting rid ever had a *)
(* tuple, and the stopping rid is on the last page.                        *)
Bounded(u) ==
  LET start == u.starting_rid
  IN  /\ \A p \in DOMAIN u.view : start.page = -1 \/ p < start.page =>
           u.view[p].slots = << >> /\ u.stored[p].slots = << >>
      /\ start.page # -1 => /\ start.page \in 2 .. u.last_page_id
                            /\ start.slot \in {-1, 0}
                            /\ u.stopping_rid.page = u.last_page_id
=============================================================================
