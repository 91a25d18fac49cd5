-------------------------- MODULE TableUnit_proofs --------------------------
(***************************************************************************)
(* The proofs about the table heap: its chain of pages, what fits in them, *)
(* that a tuple that was inserted stays where it is, and that the scans    *)
(* find every tuple.                                                       *)
(***************************************************************************)
EXTENDS TableUnit, TableHeap_proofs

---------------------------------------------------------------------------
(* Every step preserves the invariant.                                     *)

(* While the table is loaded it is sound.                                  *)
LEMMA LoadedParts ==
  ASSUME IInv, loaded
  PROVE  /\ Sound(t) /\ Kept(t, rows, changed) /\ t.first_page_id = 1
         /\ DOMAIN rows \subseteq Place /\ changed \subseteq Place
         /\ Range(rows) \subseteq Tuples
         /\ \A rid \in Places : rid \in Place /\ rid.page \in DOMAIN t.view /\ Present(t, rid)
<1>1. Sound(t) /\ Kept(t, rows, changed)
  BY DEF IInv, OnPages
<1>2. \A rid \in Places : rid \in Place /\ rid.page \in DOMAIN t.view /\ Present(t, rid)
  <2>1. ASSUME NEW p \in DOMAIN t.view, NEW rid \in Slots(t, p)
        PROVE  rid \in Place /\ rid.page = p
    <3>1. p \in PageId /\ Len(t.view[p].slots) \in Nat
      BY <1>1, SoundFields, PageFields
    <3>. QED  BY <3>1 DEF Slots, Place
  <2>. QED  BY <2>1 DEF Places
<1>3. t.first_page_id = 1
  BY <1>1, SoundFields
<1>. QED  BY <1>1, <1>2, <1>3 DEF IInv, Place

(* The new state holds a sound table, and its history.                     *)
LEMMA NewInvariant ==
  ASSUME Sound(t'), Kept(t', rows', changed'), loaded' \in BOOLEAN,
         DOMAIN rows' \subseteq Place, changed' \subseteq Place, Range(rows') \subseteq Tuples
  PROVE  IInv'
<1>1. t'.first_page_id # -1
  BY SoundFields
<1>. QED  BY <1>1 DEF IInv, OnPages, Place

LEMMA InitHolds == Init => IInv
<1>. SUFFICES ASSUME Init PROVE IInv
  OBVIOUS
<1>1. Sound(t) /\ Kept(t, rows, changed)
  BY NewTableSound DEF Init
<1>2. DOMAIN rows = {} /\ Range(rows) = {}
  BY DEF Init, EmptyMap, Range
<1>3. t.first_page_id # -1
  BY <1>1, SoundFields
<1>. QED  BY <1>1, <1>2, <1>3 DEF Init, IInv, OnPages

LEMMA InsertStep ==
  ASSUME IInv, NEW tuple \in Tuples, Insert(tuple)
  PROVE  IInv'
<1>1. /\ loaded /\ Room(t, tuple)
      /\ t' = insertTuple(t, tuple)
      /\ rows' = Stored(rows, placeOf(t, tuple), tuple)
      /\ loaded' = loaded /\ changed' = changed
  BY DEF Insert, RoomFor, Room
<1>2. /\ Sound(t) /\ Kept(t, rows, changed)
      /\ DOMAIN rows \subseteq Place /\ changed \subseteq Place /\ Range(rows) \subseteq Tuples
  BY <1>1, LoadedParts
<1>3. Sound(t') /\ Kept(t', rows', changed')
  BY <1>1, <1>2, InsertedTable
<1>4. placeOf(t, tuple) \in Place
  BY <1>1, <1>2, PlaceType
<1>5. DOMAIN rows' \subseteq Place /\ Range(rows') \subseteq Tuples
  BY <1>1, <1>2, <1>4, HistoryType
<1>. QED  BY <1>1, <1>2, <1>3, <1>5, NewInvariant

LEMMA UpdateStep ==
  ASSUME IInv, NEW rid \in Places, NEW tuple \in Tuples, Update(rid, tuple)
  PROVE  IInv'
<1>1. /\ loaded /\ Present(t, rid) /\ (Grows(t, rid, tuple) => Room(t, tuple))
      /\ t' = updateTuple(t, rid, tuple)
      /\ rows' = Replaced(t, rows, rid, tuple)
      /\ loaded' = loaded /\ changed' = changed \cup {rid}
  BY DEF Update, RoomFor, Room
<1>2. /\ Sound(t) /\ Kept(t, rows, changed)
      /\ DOMAIN rows \subseteq Place /\ changed \subseteq Place /\ Range(rows) \subseteq Tuples
      /\ rid \in Place /\ rid.page \in DOMAIN t.view
  BY <1>1, LoadedParts
<1>3. /\ Sound(t') /\ Kept(t', rows', changed')
      /\ DOMAIN rows' \subseteq Place /\ Range(rows') \subseteq Tuples
  BY <1>1, <1>2, UpdatedTable
<1>. QED  BY <1>1, <1>2, <1>3, NewInvariant

(* A list of two rids is two updates.                                      *)
LEMMA TwoUpdates ==
  ASSUME NEW u, NEW rid1, NEW rid2, NEW tuple
  PROVE  updateTuples(u, <<rid1, rid2>>, tuple)
           = updateTuple(updateTuple(u, rid1, tuple), rid2, tuple)
<1>. DEFINE rids == <<rid1, rid2>>
            step(f) == [n \in 0 .. Len(rids) |->
                          IF n = 0 THEN u ELSE updateTuple(f[n - 1], rids[n], tuple)]
            first  == updateTuple(u, rid1, tuple)
            second == updateTuple(first, rid2, tuple)
            after  == CHOOSE f : f = step(f)
            f0     == [n \in 0 .. 2 |-> IF n = 0 THEN u ELSE IF n = 1 THEN first ELSE second]
<1>1. Len(rids) = 2 /\ rids[1] = rid1 /\ rids[2] = rid2
  OBVIOUS
<1>2. updateTuples(u, rids, tuple) = after[2]
  BY <1>1 DEF updateTuples
<1>. HIDE DEF rids
<1>3. /\ 0 .. 2 = {0, 1, 2} /\ 1 - 1 = 0 /\ 2 - 1 = 1
  OBVIOUS
<1>4. \A f : step(f) = [n \in 0 .. 2 |-> IF n = 0 THEN u ELSE updateTuple(f[n - 1], rids[n], tuple)]
  BY <1>1
<1>5. \A f : /\ step(f)[0] = u /\ step(f)[1] = updateTuple(f[0], rid1, tuple)
             /\ step(f)[2] = updateTuple(f[1], rid2, tuple)
             /\ step(f) = [n \in 0 .. 2 |-> step(f)[n]]
  BY <1>1, <1>3, <1>4
<1>6. f0[0] = u /\ f0[1] = first /\ f0[2] = second /\ f0 = [n \in 0 .. 2 |-> f0[n]]
  BY <1>3
<1>. HIDE DEF step, f0
<1>7. \A n \in 0 .. 2 : step(f0)[n] = f0[n]
  BY <1>3, <1>5, <1>6
<1>8. f0 = step(f0)
  BY <1>5, <1>6, <1>7
<1>9. after = step(after)
  BY <1>8
<1>. HIDE DEF after
<1>10. after[0] = u /\ after[1] = first /\ after[2] = second
  BY <1>5, <1>9
<1>. QED  BY <1>2, <1>10 DEF rids

LEMMA UpdateBothStep ==
  ASSUME IInv, NEW rid1 \in Places, NEW rid2 \in Places, NEW tuple \in Tuples,
         UpdateBoth(rid1, rid2, tuple)
  PROVE  IInv'
<1>. DEFINE first == updateTuple(t, rid1, tuple)
            once  == Replaced(t, rows, rid1, tuple)
<1>1. /\ loaded /\ rid1 # rid2 /\ Present(t, rid1) /\ Present(t, rid2)
      /\ (Grows(t, rid1, tuple) => Room(t, tuple))
      /\ (Grows(first, rid2, tuple) => Room(first, tuple))
      /\ t' = updateTuples(t, <<rid1, rid2>>, tuple)
      /\ rows' = Replaced(first, once, rid2, tuple)
      /\ loaded' = loaded /\ changed' = changed \cup {rid1, rid2}
  BY DEF UpdateBoth, RoomFor, Room
<1>2. t' = updateTuple(first, rid2, tuple)
  BY <1>1, TwoUpdates
<1>3. /\ Sound(t) /\ Kept(t, rows, changed)
      /\ DOMAIN rows \subseteq Place /\ changed \subseteq Place /\ Range(rows) \subseteq Tuples
      /\ rid1 \in Place /\ rid1.page \in DOMAIN t.view
      /\ rid2 \in Place /\ rid2.page \in DOMAIN t.view
  BY <1>1, LoadedParts
<1>4. /\ Sound(first) /\ Kept(first, once, changed \cup {rid1})
      /\ DOMAIN once \subseteq Place /\ Range(once) \subseteq Tuples
      /\ rid2.page \in DOMAIN first.view /\ Present(first, rid2)
  BY <1>1, <1>3, UpdatedTable
<1>. HIDE DEF first, once
<1>5. /\ Sound(t') /\ Kept(t', rows', (changed \cup {rid1}) \cup {rid2})
      /\ DOMAIN rows' \subseteq Place /\ Range(rows') \subseteq Tuples
  <2>. DEFINE others == changed \cup {rid1}
  <2>. HIDE DEF others
  <2>1. Kept(first, once, others)
    BY <1>4 DEF others
  <2>2. Grows(first, rid2, tuple) => Room(first, tuple)
    BY <1>1
  <2>3. /\ Sound(updateTuple(first, rid2, tuple))
        /\ Kept(updateTuple(first, rid2, tuple),
                Replaced(first, once, rid2, tuple), others \cup {rid2})
        /\ DOMAIN Replaced(first, once, rid2, tuple) \subseteq Place
        /\ Range(Replaced(first, once, rid2, tuple)) \subseteq Tuples
    BY <1>3, <1>4, <2>1, <2>2, UpdatedTable
  <2>. QED  BY <1>1, <1>2, <2>3 DEF others
<1>6. changed' = (changed \cup {rid1}) \cup {rid2} /\ changed' \subseteq Place
  BY <1>1, <1>3
<1>. QED  BY <1>1, <1>5, <1>6, NewInvariant

LEMMA DeleteStep ==
  ASSUME IInv, NEW rid \in Places, Delete(rid)
  PROVE  IInv'
<1>1. /\ loaded /\ t' = deleteTuple(t, rid) /\ rows' = Erase(rows, rid)
      /\ loaded' = loaded /\ changed' = changed \cup {rid}
  BY DEF Delete
<1>2. /\ Sound(t) /\ Kept(t, rows, changed)
      /\ DOMAIN rows \subseteq Place /\ changed \subseteq Place /\ Range(rows) \subseteq Tuples
      /\ rid \in Place /\ rid.page \in DOMAIN t.view
  BY <1>1, LoadedParts
<1>3. Sound(t') /\ Kept(t', rows, changed')
  BY <1>1, <1>2, DeletedTable
<1>4. /\ DOMAIN rows' \subseteq DOMAIN rows /\ \A r \in DOMAIN rows' : rows'[r] = rows[r]
  BY <1>1 DEF Erase, Restrict
<1>5. Kept(t', rows', changed')
  BY <1>3, <1>4 DEF Kept
<1>6. DOMAIN rows' \subseteq Place /\ Range(rows') \subseteq Tuples
  BY <1>2, <1>4 DEF Range
<1>. QED  BY <1>1, <1>2, <1>3, <1>5, <1>6, NewInvariant

LEMMA EvictStep ==
  ASSUME IInv, NEW p \in DOMAIN t.view, Evict(p)
  PROVE  IInv'
<1>1. /\ loaded /\ t' = Evicted(t, {p})
      /\ loaded' = loaded /\ rows' = rows /\ changed' = changed
  BY DEF Evict
<1>2. /\ Sound(t) /\ Kept(t, rows, changed)
      /\ DOMAIN rows \subseteq Place /\ changed \subseteq Place /\ Range(rows) \subseteq Tuples
  BY <1>1, LoadedParts
<1>3. Sound(t') /\ Kept(t', rows', changed')
  BY <1>1, <1>2, EvictedTable
<1>. QED  BY <1>1, <1>2, <1>3, NewInvariant

LEMMA RestartStep ==
  ASSUME IInv, Restart
  PROVE  IInv'
<1>. DEFINE closed == Closed(t)
<1>1. /\ loaded /\ loaded' = Loads(closed)
      /\ t' = IF loaded' THEN loadMetaData(closed) ELSE closed
      /\ rows' = rows /\ changed' = changed
  BY DEF Restart
<1>2. /\ Sound(t) /\ Kept(t, rows, changed)
      /\ DOMAIN rows \subseteq Place /\ changed \subseteq Place /\ Range(rows) \subseteq Tuples
  BY <1>1, LoadedParts
<1>3. /\ Sound(closed) /\ Kept(closed, rows, changed)
      /\ closed.last_page_id = t.last_page_id
      /\ closed.view[1].meta = [last_page_id |-> t.last_page_id,
                                starting_rid |-> t.starting_rid,
                                stopping_rid |-> t.stopping_rid]
  BY <1>2, ClosedTable
<1>4. t.starting_rid \in RID /\ t.stopping_rid \in RID
  BY <1>2, SoundFields
<1>. HIDE DEF closed
<1>5. Sound(loadMetaData(closed)) /\ Kept(loadMetaData(closed), rows, changed)
  BY <1>3, <1>4, LoadedTable
<1>6. Sound(t') /\ Kept(t', rows', changed')
  BY <1>1, <1>3, <1>5
<1>7. loaded' \in BOOLEAN
  BY <1>1 DEF Loads
<1>. QED  BY <1>1, <1>2, <1>6, <1>7, NewInvariant

LEMMA DestroyStep ==
  ASSUME IInv, Destroy
  PROVE  IInv'
<1>1. /\ loaded /\ t' = deleteTableHeap(t)
      /\ loaded' = FALSE /\ rows' = rows /\ changed' = changed
  BY DEF Destroy
<1>2. /\ Sound(t) /\ Kept(t, rows, changed)
      /\ DOMAIN rows \cup changed \subseteq Place /\ Range(rows) \subseteq Tuples
  BY <1>1, LoadedParts
<1>3. /\ t'.first_page_id = -1 /\ t'.marked = {} /\ t'.view = t'.stored
      /\ Sound(Released(t')) /\ Kept(Released(t'), rows, changed)
  BY <1>1, <1>2, DestroyedTable
<1>4. OnPages' = Released(t')
  BY <1>3 DEF OnPages
<1>. QED  BY <1>1, <1>2, <1>3, <1>4 DEF IInv, Place

LEMMA NextHolds == IInv /\ [Next]_vars => IInv'
<1>. SUFFICES ASSUME IInv, [Next]_vars PROVE IInv'
  OBVIOUS
<1>1. ASSUME NEW tuple \in Tuples, Insert(tuple) PROVE IInv'
  BY <1>1, InsertStep
<1>2. ASSUME NEW rid \in Places, NEW tuple \in Tuples, Update(rid, tuple) PROVE IInv'
  BY <1>2, UpdateStep
<1>3. ASSUME NEW rid1 \in Places, NEW rid2 \in Places, NEW tuple \in Tuples,
             UpdateBoth(rid1, rid2, tuple)
      PROVE  IInv'
  BY <1>3, UpdateBothStep
<1>4. ASSUME NEW rid \in Places, Delete(rid) PROVE IInv'
  BY <1>4, DeleteStep
<1>5. ASSUME NEW p \in DOMAIN t.view, Evict(p) PROVE IInv'
  BY <1>5, EvictStep
<1>6. CASE Restart
  BY <1>6, RestartStep
<1>7. CASE Destroy
  BY <1>7, DestroyStep
<1>8. CASE UNCHANGED vars
  BY <1>8 DEF vars, IInv, Kept, OnPages
<1>. QED  BY <1>1, <1>2, <1>3, <1>4, <1>5, <1>6, <1>7, <1>8 DEF Next

---------------------------------------------------------------------------
(* The table of pages in order, each link and each tuple that was not      *)
(* changed safe from an eviction, in every reachable state.                *)
THEOREM Invariance == Spec => []IInv
BY InitHolds, NextHolds, PTL DEF Spec

(* The types of the table, and of the history kept beside it.              *)
THEOREM TypeCorrect == Spec => []TypeOK
<1>1. IInv => TypeOK
  <2>. SUFFICES ASSUME IInv PROVE TypeOK
    OBVIOUS
  <2>1. Sound(OnPages)
    BY DEF IInv
  <2>2. OnPages.first_page_id \in PageId /\ IsFile(OnPages)
    BY <2>1, SoundFields DEF Sound
  <2>3. IsTable(OnPages)
    BY <2>1, <2>2, SoundFields DEF IsTable
  <2>. QED  BY <2>3 DEF IInv, TypeOK
<1>. QED  BY <1>1, Invariance, PTL

(* For any number of pages, any tuples and any sizes: insertTuple never    *)
(* loses a page, whatever is evicted between its link and its next use;    *)
(* and deleteTableHeap takes every page out of the pool, and leaves the    *)
(* whole chain in the file.                                                *)
THEOREM ChainComplete == Spec => []ChainWellFormed
<1>1. IInv => ChainWellFormed
  <2>. SUFFICES ASSUME IInv PROVE ChainWellFormed
    OBVIOUS
  <2>1. Sound(OnPages) /\ DOMAIN OnPages.view = DOMAIN t.view
    BY SoundFields DEF IInv, OnPages, Released
  <2>2. /\ ChainIntact(OnPages) /\ IsInjective(Chain(OnPages))
        /\ Range(Chain(OnPages)) = DOMAIN OnPages.view
        /\ Last(Chain(OnPages)) = OnPages.last_page_id
    BY <2>1, ChainOfSound
  <2>. QED  BY <2>1, <2>2 DEF IInv, ChainWellFormed
<1>. QED  BY <1>1, Invariance, PTL

(* For any sizes, and any tuples that end in a text: the slots and the     *)
(* bytes the tuples of a page count share its space, no counted byte is    *)
(* written over a slot or another tuple, in memory or on disk, and the NUL *)
(* behind a text reaches at most the deleted flag of the neighbour, which  *)
(* the neighbour's slot does not need.                                     *)
THEOREM NoOverlap == Spec => []PagesFit
<1>1. IInv => PagesFit
  <2>. SUFFICES ASSUME IInv, NEW p \in DOMAIN t.view
                PROVE  /\ Fitting(t.view[p]) /\ Fitting(t.stored[p])
                       /\ OneByteOver(t.view[p]) /\ OneByteOver(t.stored[p])
    BY DEF PagesFit
  <2>1. /\ Sound(OnPages) /\ OnPages.view = t.view /\ OnPages.stored = t.stored
    <3>1. Sound(OnPages)
      BY DEF IInv
    <3>2. CASE t.first_page_id = -1
      <4>1. OnPages = Released(t)
        BY <3>2 DEF OnPages
      <4>. QED  BY <3>1, <4>1 DEF Released
    <3>3. CASE t.first_page_id # -1
      BY <3>1, <3>3 DEF OnPages
    <3>. QED  BY <3>2, <3>3
  <2>2. /\ t.view[p] \in Page /\ Fitting(t.view[p])
        /\ t.stored[p] \in Page /\ Fitting(t.stored[p])
    BY <2>1, SoundFields
  <2>. QED  BY <2>2, OneByte
<1>. QED  BY <1>1, Invariance, PTL

(* A tuple that was inserted, and not updated or deleted, is found at its  *)
(* rid, after any evictions and clean restarts.                            *)
THEOREM InsertedIsFound == Spec => []InsertsStay
<1>1. IInv => InsertsStay
  <2>. SUFFICES ASSUME IInv PROVE InsertsStay
    OBVIOUS
  <2>1. OnPages.view = t.view
    BY DEF OnPages, Released
  <2>. QED  BY <2>1 DEF IInv, InsertsStay, Kept, Holds, Present, getTuple
<1>. QED  BY <1>1, Invariance, PTL

---------------------------------------------------------------------------
(* Where a scan starts and stops, in every state.                          *)

LEMMA InitBounded == Init => ScansBounded
<1>1. Init => Bounded(t) /\ t.first_page_id # -1
  BY NewTableSound, SoundFields DEF Init
<1>. QED  BY <1>1 DEF ScansBounded, OnPages

LEMMA NextBounded == IInv /\ ScansBounded /\ [Next]_vars => ScansBounded'
<1>. SUFFICES ASSUME IInv, ScansBounded, [Next]_vars
              PROVE  Bounded(OnPages')
  BY DEF ScansBounded
<1>1. ASSUME loaded
      PROVE  /\ Sound(t) /\ Bounded(t)
             /\ \A rid \in Places : rid \in Place /\ rid.page \in DOMAIN t.view /\ Present(t, rid)
  BY <1>1, LoadedParts DEF ScansBounded, OnPages
<1>10. ASSUME Bounded(t'), loaded' PROVE Bounded(OnPages')
  <2>1. IInv'
    BY NextHolds
  <2>2. t'.first_page_id # -1
    BY <1>10, <2>1 DEF IInv
  <2>. QED  BY <1>10, <2>2 DEF OnPages
<1>2. ASSUME NEW tuple \in Tuples, Insert(tuple) PROVE Bounded(t') /\ loaded'
  BY <1>1, <1>2, InsertBounded DEF Insert, RoomFor, Room
<1>3. ASSUME NEW rid \in Places, NEW tuple \in Tuples, Update(rid, tuple)
      PROVE  Bounded(t') /\ loaded'
  BY <1>1, <1>3, UpdateBounded DEF Update, RoomFor, Room
<1>4. ASSUME NEW rid1 \in Places, NEW rid2 \in Places, NEW tuple \in Tuples,
             UpdateBoth(rid1, rid2, tuple)
      PROVE  Bounded(t') /\ loaded'
  <2>. DEFINE first == updateTuple(t, rid1, tuple)
  <2>1. /\ loaded /\ rid1 # rid2 /\ Present(t, rid1) /\ Present(t, rid2)
        /\ (Grows(t, rid1, tuple) => Room(t, tuple))
        /\ (Grows(first, rid2, tuple) => Room(first, tuple))
        /\ t' = updateTuples(t, <<rid1, rid2>>, tuple) /\ loaded' = loaded
    BY <1>4 DEF UpdateBoth, RoomFor, Room
  <2>2. t' = updateTuple(first, rid2, tuple)
    BY <2>1, TwoUpdates
  <2>3. Bounded(first)
    BY <1>1, <2>1, UpdateBounded
  <2>4. Sound(first) /\ rid2.page \in DOMAIN first.view /\ Present(first, rid2)
    <3>1. /\ Kept(t, rows, changed) /\ DOMAIN rows \subseteq Place
          /\ Range(rows) \subseteq Tuples
      BY <2>1, LoadedParts
    <3>. QED  BY <1>1, <2>1, <3>1, UpdatedTable
  <2>. HIDE DEF first
  <2>. QED  BY <1>1, <2>1, <2>2, <2>3, <2>4, UpdateBounded
<1>5. ASSUME NEW rid \in Places, Delete(rid) PROVE Bounded(t') /\ loaded'
  BY <1>1, <1>5, WrittenBounded DEF Delete, deleteTuple
<1>6. ASSUME NEW p \in DOMAIN t.view, Evict(p)
      PROVE  Bounded(t') /\ loaded'
  <2>1. t' = Evicted(t, {p}) /\ Sound(t) /\ Bounded(t) /\ loaded'
    BY <1>1, <1>6 DEF Evict
  <2>2. /\ DOMAIN t'.view = DOMAIN t.view /\ t'.last_page_id = t.last_page_id
        /\ t'.starting_rid = t.starting_rid /\ t'.stopping_rid = t.stopping_rid
        /\ \A q \in DOMAIN t.view :
             {t'.view[q], t'.stored[q]} \subseteq {t.view[q], t.stored[q]}
    BY <2>1, EvictedTable
  <2>3. \A q \in DOMAIN t.view : t.view[q].slots = << >> /\ t.stored[q].slots = << >> =>
                                 t'.view[q].slots = << >> /\ t'.stored[q].slots = << >>
    BY <2>2
  <2>. QED  BY <2>1, <2>2, <2>3, StillBounded
<1>7. CASE Restart
  <2>. DEFINE closed == Closed(t)
  <2>1. loaded /\ t' = (IF loaded' THEN loadMetaData(closed) ELSE closed)
    BY <1>7 DEF Restart
  <2>2. /\ Sound(closed) /\ Bounded(closed)
        /\ closed.last_page_id = t.last_page_id
        /\ closed.starting_rid = t.starting_rid /\ closed.stopping_rid = t.stopping_rid
        /\ closed.view[1].meta = [last_page_id |-> t.last_page_id,
                                  starting_rid |-> t.starting_rid,
                                  stopping_rid |-> t.stopping_rid]
    BY <1>1, <2>1, ClosedTable
  <2>3. t.starting_rid \in RID /\ t.stopping_rid \in RID
    BY <1>1, <2>1, SoundFields
  <2>. HIDE DEF closed
  <2>4. Bounded(loadMetaData(closed)) /\ Sound(loadMetaData(closed))
    BY <2>2, <2>3, LoadedTable
  <2>5. Bounded(t') /\ Sound(t')
    BY <2>1, <2>2, <2>4
  <2>6. t'.first_page_id # -1
    BY <2>5, SoundFields
  <2>. QED  BY <2>5, <2>6 DEF OnPages
<1>8. CASE Destroy
  <2>1. /\ t'.first_page_id = -1 /\ Bounded(Released(t'))
    BY <1>1, <1>8, DestroyedTable DEF Destroy
  <2>. QED  BY <2>1 DEF OnPages
<1>9. CASE UNCHANGED vars
  BY <1>9 DEF vars, ScansBounded, OnPages
<1>. QED  BY <1>2, <1>3, <1>4, <1>5, <1>6, <1>7, <1>8, <1>9, <1>10 DEF Next

LEMMA AlwaysBounded == Spec => []ScansBounded
<1>1. Init => IInv /\ ScansBounded
  BY InitHolds, InitBounded
<1>2. IInv /\ ScansBounded /\ [Next]_vars => (IInv /\ ScansBounded)'
  BY NextHolds, NextBounded
<1>. QED  BY <1>1, <1>2, PTL DEF Spec

(* A scan yields every tuple of the table, in one step and in the order of *)
(* the chain: SeqScanExecuter::getNext with the starting and the stopping  *)
(* rid that insertTuple, the destructor and the constructor keep.          *)
THEOREM ScanComplete == Spec => []ScanYieldsRows
<1>1. IInv /\ ScansBounded => ScanYieldsRows
  <2>1. ASSUME IInv, ScansBounded, loaded PROVE Sound(t) /\ Bounded(t)
    BY <2>1, LoadedParts DEF ScansBounded, OnPages
  <2>. QED  BY <2>1, ScanExact DEF ScanYieldsRows
<1>. QED  BY <1>1, Invariance, AlwaysBounded, PTL

(* A TableIterator from the starting rid yields every tuple of a table     *)
(* that has none deleted and no page empty, in the order of the chain, and *)
(* reads no slot that has no tuple: what TableIterator::operator++ gives   *)
(* the construction of an index.                                           *)
THEOREM IteratorComplete == Spec => []IteratorYieldsRows
<1>1. IInv /\ ScansBounded => IteratorYieldsRows
  <2>. SUFFICES ASSUME IInv, ScansBounded, loaded, NoTupleDeleted(t),
                       t.starting_rid.slot >= 0,
                       \A i \in 2 .. Len(Chain(t)) : t.view[Chain(t)[i]].slots # << >>
                PROVE  LET rids == Iterated(t, t.starting_rid)
                       IN  /\ YieldsRows(t, rids)
                           /\ \A n \in DOMAIN rids : getTupleFromRID(t, rids[n]) # {}
    BY DEF IteratorYieldsRows
  <2>1. Sound(t) /\ Bounded(t)
    BY LoadedParts DEF ScansBounded, OnPages
  <2>2. NoPageEmpty(t)
    <3>1. t.last_page_id \in Nat /\ Chain(t) = [n \in 1 .. t.last_page_id |-> n]
      BY <2>1, ChainInOrder, SoundFields
    <3>2. Len(Chain(t)) = t.last_page_id
      BY <3>1
    <3>3. \A i \in 2 .. t.last_page_id : Chain(t)[i] = i
      BY <3>1
    <3>. QED  BY <3>2, <3>3 DEF NoPageEmpty
  <2>. QED  BY <2>1, <2>2, IteratorExact
<1>. QED  BY <1>1, Invariance, AlwaysBounded, PTL
=============================================================================
