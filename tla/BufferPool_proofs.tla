------------------------- MODULE BufferPool_proofs -------------------------
(***************************************************************************)
(* Proofs about the buffer pool, for every size of the pool, of the file   *)
(* and of the callers' window: the inductive invariant IInv, from it the   *)
(* invariants TLC checks on small pools, and last that the pool implements *)
(* PageCache.                                                              *)
(***************************************************************************)
EXTENDS BufferPool, CollectionLemmas

---------------------------------------------------------------------------
(* The disk under the pool is dense: its pages were entered in order and   *)
(* none deleted.  Its methods keep it so.                                  *)

(* Entering a page in the directory.                                       *)
LEMMA EnterSlot ==
  ASSUME NEW m \in MapOf(PageIds, Slot), NEW k \in PageIds, NEW v \in Slot
  PROVE  /\ Put(m, k, v) \in MapOf(PageIds, Slot)
         /\ DOMAIN Put(m, k, v) = DOMAIN m \cup {k}
         /\ Put(m, k, v)[k] = v
         /\ \A x \in DOMAIN m : x # k => Put(m, k, v)[x] = m[x]
BY PutType

(* The next page to construct is new, and its slot is its id.              *)
LEMMA AllocateDense ==
  ASSUME NEW d \in Disk, DenseDisk(d), HasRoom(d)
  PROVE  /\ NewId(d) \in Slot \ Allocated(d)
         /\ allocatedSlot(d) = NewId(d)
         /\ allocatePage(d) \in Disk /\ DenseDisk(allocatePage(d))
         /\ Allocated(allocatePage(d)) = Allocated(d) \cup {NewId(d)}
<1>. USE SlotAssumption, PageIdAssumption, ContentsAssumption
<1>1. PICK n \in 0 .. MaxSlot : Allocated(d) = 1 .. n
  BY DEF DenseDisk
<1>2. NewId(d) = n + 1
  <2>1. Cardinality(1 .. n) = n
    BY FS_Interval
  <2>. QED  BY <1>1, <2>1 DEF NewId
<1>3. d.deleted_slots = << >> /\ NewId(d) \in Slot
  BY DEF DenseDisk, HasRoom
<1>4. NewId(d) \notin Allocated(d)
  BY <1>1, <1>2
<1>5. allocatedSlot(d) = NewId(d)
  BY <1>3 DEF allocatedSlot
<1>. DEFINE e == allocatePage(d)
            t == Put(d.pages_table, NewId(d), NewId(d))
<1>6. e = [d EXCEPT !.capacity = resizedCapacity(d),
                    !.file[NewId(d)] = FreshPage, !.pages_table = t]
  BY <1>3 DEF allocatePage
<1>7. /\ t \in MapOf(PageIds, Slot) /\ DOMAIN t = Allocated(d) \cup {NewId(d)}
      /\ t[NewId(d)] = NewId(d)
      /\ \A p \in Allocated(d) : p # NewId(d) => t[p] = d.pages_table[p]
  <2>1. d.pages_table \in MapOf(PageIds, Slot)
    BY DEF Disk
  <2>2. NewId(d) \in PageIds /\ NewId(d) \in Slot
    BY <1>3 DEF Slot
  <2>. HIDE SlotAssumption, PageIdAssumption, ContentsAssumption
  <2>3. /\ t \in MapOf(PageIds, Slot)
        /\ DOMAIN t = DOMAIN d.pages_table \cup {NewId(d)}
        /\ t[NewId(d)] = NewId(d)
        /\ \A p \in DOMAIN d.pages_table : p # NewId(d) => t[p] = d.pages_table[p]
    BY <2>1, <2>2, EnterSlot
  <2>. QED  BY <2>3 DEF Allocated
<1>8. resizedCapacity(d) \in Nat \ {0}
  BY DEF resizedCapacity, Disk
<1>. HIDE DEF t
<1>9. /\ e \in Disk /\ e.pages_table = t /\ e.header = d.header
      /\ e.deleted_slots = << >>
  <2>. DEFINE f == [d.file EXCEPT ![NewId(d)] = FreshPage]
  <2>1. f \in [Slot -> Contents]
    BY <1>3 DEF Disk
  <2>2. e = [d EXCEPT !.capacity = resizedCapacity(d), !.file = f, !.pages_table = t]
    BY <1>6
  <2>. HIDE DEF e, f
  <2>. QED  BY <1>3, <1>7, <1>8, <2>1, <2>2 DEF Disk
<1>. HIDE DEF e
<1>10. Allocated(e) = Allocated(d) \cup {NewId(d)}
  BY <1>7, <1>9 DEF Allocated
<1>11. Allocated(e) = 1 .. n + 1 /\ n + 1 \in 0 .. MaxSlot
  BY <1>1, <1>2, <1>3, <1>10 DEF Slot
<1>12. \A p \in Allocated(e) : e.pages_table[p] = p
  BY <1>7, <1>9, <1>10 DEF DenseDisk
<1>13. DenseDisk(e)
  BY <1>9, <1>10, <1>11, <1>12 DEF DenseDisk
<1>. QED  BY <1>3, <1>4, <1>5, <1>9, <1>10, <1>13 DEF e

(* Writing back a page of the directory changes its slot and nothing else. *)
LEMMA WriteBackDense ==
  ASSUME NEW d \in Disk, DenseDisk(d), NEW id \in Allocated(d), NEW c \in Contents
  PROVE  /\ writePage(d, id, c) \in Disk /\ DenseDisk(writePage(d, id, c))
         /\ Allocated(writePage(d, id, c)) = Allocated(d)
<1>. DEFINE e == writePage(d, id, c)
            t == Put(d.pages_table, id, id)
<1>1. d.pages_table[id] = id
  BY DEF DenseDisk
<1>2. id \in Slot /\ id \in PageIds
  <2>1. /\ DOMAIN d.pages_table \subseteq PageIds
        /\ \A p \in DOMAIN d.pages_table : d.pages_table[p] \in Slot
    <3>1. d.pages_table \in MapOf(PageIds, Slot)
      BY DEF Disk
    <3>. QED  BY <3>1, MapType
  <2>. QED  BY <1>1, <2>1 DEF Allocated
<1>3. e = [d EXCEPT !.file[id] = c, !.pages_table = t]
  BY <1>1 DEF writePage
<1>4. /\ t \in MapOf(PageIds, Slot) /\ DOMAIN t = Allocated(d)
      /\ \A p \in Allocated(d) : t[p] = p
  <2>1. d.pages_table \in MapOf(PageIds, Slot)
    BY DEF Disk
  <2>2. /\ t \in MapOf(PageIds, Slot) /\ DOMAIN t = DOMAIN d.pages_table \cup {id}
        /\ t[id] = id
        /\ \A p \in DOMAIN d.pages_table : p # id => t[p] = d.pages_table[p]
    BY <1>2, <2>1, EnterSlot
  <2>. QED  BY <2>2 DEF DenseDisk, Allocated
<1>. HIDE DEF t
<1>5. /\ e \in Disk /\ e.pages_table = t /\ e.header = d.header
      /\ e.deleted_slots = d.deleted_slots
  <2>1. [d.file EXCEPT ![id] = c] \in [Slot -> Contents]
    BY <1>2 DEF Disk
  <2>2. e = [d EXCEPT !.file = [d.file EXCEPT ![id] = c], !.pages_table = t]
    BY <1>3 DEF Disk
  <2>. HIDE DEF e
  <2>. QED  BY <1>4, <2>1, <2>2 DEF Disk
<1>. HIDE DEF e
<1>6. Allocated(e) = Allocated(d)
  BY <1>4, <1>5 DEF Allocated
<1>7. DenseDisk(e)
  BY <1>4, <1>5, <1>6 DEF DenseDisk
<1>. QED  BY <1>5, <1>6, <1>7 DEF e

LEMMA ReadType ==
  ASSUME NEW d \in Disk, NEW id, NEW c \in Contents
  PROVE  readPage(d, id, c) \in Contents
<1>1. \A p \in DOMAIN d.pages_table : d.pages_table[p] \in Slot
  <2>1. d.pages_table \in MapOf(PageIds, Slot)
    BY DEF Disk
  <2>. QED  BY <2>1, MapType
<1>2. d.file \in [Slot -> Contents]
  BY DEF Disk
<1>. QED  BY <1>1, <1>2 DEF readPage, Allocated

(* Opening a dense file finds the directory the header holds.              *)
LEMMA LoadDense ==
  ASSUME NEW d \in Disk, DenseDisk(d)
  PROVE  loadMetaData(d) \in Disk /\ DenseDisk(loadMetaData(d))
<1>1. d.header \in Header
  BY DEF Disk
<1>2. /\ loadMetaData(d) \in Disk
      /\ loadMetaData(d).pages_table = d.header.pages_table
      /\ loadMetaData(d).deleted_slots = d.header.deleted_slots
      /\ loadMetaData(d).header = d.header
  BY <1>1 DEF loadMetaData, Disk, Header
<1>. QED  BY <1>2 DEF DenseDisk, Allocated

LEMMA SaveDense ==
  ASSUME NEW d \in Disk, DenseDisk(d)
  PROVE  saveMetaData(d) \in Disk /\ DenseDisk(saveMetaData(d))
<1>1. /\ saveMetaData(d) \in Disk
      /\ saveMetaData(d).pages_table = d.pages_table
      /\ saveMetaData(d).deleted_slots = d.deleted_slots
      /\ saveMetaData(d).header.pages_table = d.pages_table
      /\ saveMetaData(d).header.deleted_slots = d.deleted_slots
  BY DEF saveMetaData, Disk, Header
<1>. QED  BY <1>1 DEF DenseDisk, Allocated

---------------------------------------------------------------------------
(* The bytes the disk's methods write.                                     *)

(* A page of the directory is written to its slot, and nothing else is.    *)
LEMMA WriteBackBytes ==
  ASSUME NEW d \in Disk, DenseDisk(d), NEW id \in Allocated(d), NEW c
  PROVE  /\ writePage(d, id, c).file = [d.file EXCEPT ![id] = c]
         /\ writePage(d, id, c).header = d.header
<1>1. d.pages_table[id] = id
  BY DEF DenseDisk
<1>2. writePage(d, id, c) = [d EXCEPT !.file[id] = c, !.pages_table = Put(d.pages_table, id, id)]
  BY <1>1 DEF writePage
<1>. QED  BY <1>2 DEF Disk

(* A page constructed is written to a slot that no page had.               *)
LEMMA AllocateBytes ==
  ASSUME NEW d \in Disk, DenseDisk(d), HasRoom(d)
  PROVE  /\ allocatePage(d).file = [d.file EXCEPT ![NewId(d)] = FreshPage]
         /\ allocatePage(d).header = d.header
<1>1. d.deleted_slots = << >>
  BY DEF DenseDisk
<1>2. allocatePage(d) = [d EXCEPT !.capacity       = resizedCapacity(d),
                                  !.file[NewId(d)] = FreshPage,
                                  !.pages_table    = Put(d.pages_table, NewId(d), NewId(d))]
  BY <1>1 DEF allocatePage
<1>. QED  BY <1>2 DEF Disk

---------------------------------------------------------------------------
(* Eviction.                                                               *)

(* Entering a page in the table.                                           *)
LEMMA EnterTable ==
  ASSUME NEW m \in MapOf(Slot, FrameId), NEW k \in Slot, NEW v \in FrameId
  PROVE  /\ Put(m, k, v) \in MapOf(Slot, FrameId)
         /\ DOMAIN Put(m, k, v) = DOMAIN m \cup {k}
         /\ Put(m, k, v)[k] = v
         /\ \A x \in DOMAIN m : x # k => Put(m, k, v)[x] = m[x]
<1>1. Put(m, k, v) \in MapOf(Slot, FrameId)
  BY PutType
<1>2. DOMAIN Put(m, k, v) = DOMAIN m \cup {k}
  BY PutType
<1>3. Put(m, k, v)[k] = v
  BY DEF Put
<1>4. \A x \in DOMAIN m : x # k => Put(m, k, v)[x] = m[x]
  BY DEF Put
<1>. QED  BY <1>1, <1>2, <1>3, <1>4

(* Taking a page out of the table, when no two pages share a frame.        *)
LEMMA LeaveTable ==
  ASSUME NEW m \in MapOf(Slot, FrameId), NEW k \in Slot
  PROVE  /\ Erase(m, k) \in MapOf(Slot, FrameId)
         /\ DOMAIN Erase(m, k) = DOMAIN m \ {k}
         /\ \A x \in DOMAIN m : x # k => Erase(m, k)[x] = m[x]
BY EraseType

LEMMA LeaveFrame ==
  ASSUME IInv, NEW f \in FrameId, pages_ids[f] # -1
  PROVE  /\ Erase(page_table, pages_ids[f]) \in MapOf(Slot, FrameId)
         /\ DOMAIN Erase(page_table, pages_ids[f]) = Resident \ {pages_ids[f]}
         /\ \A p \in Resident \ {pages_ids[f]} :
              /\ Erase(page_table, pages_ids[f])[p] = page_table[p]
              /\ page_table[p] # f
<1>. DEFINE t == Erase(page_table, pages_ids[f])
<1>1. /\ page_table \in MapOf(Slot, FrameId) /\ pages_ids[f] \in Slot
      /\ \A p \in Resident : pages_ids[page_table[p]] = p
  BY DEF IInv, TypeOK, TableMatchesFrames
<1>2. /\ t \in MapOf(Slot, FrameId) /\ DOMAIN t = DOMAIN page_table \ {pages_ids[f]}
      /\ \A p \in DOMAIN page_table : p # pages_ids[f] => t[p] = page_table[p]
  BY <1>1, LeaveTable
<1>. HIDE DEF t
<1>3. \A p \in Resident \ {pages_ids[f]} : t[p] = page_table[p] /\ page_table[p] # f
  BY <1>1, <1>2 DEF Resident
<1>. QED  BY <1>2, <1>3 DEF Resident, t

(* The lists: a list that is not full has a frame on the free stack; a     *)
(* full one is longer than the callers' window, so its tail is no frame a  *)
(* caller still points to.                                                 *)
LEMMA EvictionLists ==
  ASSUME IInv
  PROVE  /\ Victim \in FrameId
         /\ Victim \in Range(lru) <=> MustEvict
         /\ LruAfterEviction \in Seq(FrameId) /\ IsInjective(LruAfterEviction)
         /\ Range(LruAfterEviction) = Range(lru) \ {Victim}
         /\ Len(LruAfterEviction) < BUFFER_SIZE
         /\ FreeAfterEviction \in Seq(FrameId) /\ IsInjective(FreeAfterEviction)
         /\ Range(FreeAfterEviction) = Range(free_frames_ids) \ {Victim}
         /\ Len(touched) <= Len(LruAfterEviction)
         /\ \A i \in 1 .. Len(touched) : LruAfterEviction[i] = lru[i]
<1>. USE BufferAssumption, WindowAssumption
<1>1. /\ lru \in Seq(FrameId) /\ free_frames_ids \in Seq(FrameId)
      /\ IsInjective(lru) /\ IsInjective(free_frames_ids)
      /\ Range(free_frames_ids) = FrameId \ Range(lru) /\ Range(lru) \subseteq FrameId
      /\ touched \in Seq(Pointer) /\ Len(touched) <= Window /\ Len(touched) <= Len(lru)
  BY DEF IInv, TypeOK, FramesAccounted, RecentlyTouched
<1>2. Len(touched) \in Nat /\ Len(lru) \in Nat
  BY <1>1
<1>3. IsFiniteSet(FrameId) /\ Cardinality(FrameId) = BUFFER_SIZE
  BY FS_Interval DEF FrameId
<1>4. IsFiniteSet(Range(lru)) /\ Cardinality(Range(lru)) = Len(lru)
  BY <1>1, InjectiveLength
<1>5. CASE MustEvict
  <2>1. Range(free_frames_ids) = {}
    BY <1>1, <1>5 DEF MustEvict, Range
  <2>2. Range(lru) = FrameId
    BY <1>1, <2>1
  <2>3. Len(lru) = BUFFER_SIZE /\ lru # << >>
    BY <1>3, <1>4, <2>2
  <2>4. Victim = Last(lru) /\ LruAfterEviction = Front(lru)
    BY <1>5, <2>3 DEF Victim, evicted, LruAfterEviction, evict_frame
  <2>5. /\ Last(lru) \in FrameId /\ Last(lru) \in Range(lru)
        /\ Front(lru) \in Seq(FrameId) /\ Len(Front(lru)) = Len(lru) - 1
        /\ \A j \in 1 .. Len(lru) - 1 : Front(lru)[j] = lru[j]
    BY <1>1, <2>3, FrontElements
  <2>6. IsInjective(Front(lru)) /\ Range(Front(lru)) = Range(lru) \ {Last(lru)}
    BY <1>1, <2>3, FrontOfList
  <2>7. FreeAfterEviction = free_frames_ids
    BY <1>5 DEF FreeAfterEviction
  <2>8. \A i \in 1 .. Len(touched) : LruAfterEviction[i] = lru[i]
    BY <1>1, <1>2, <2>3, <2>4, <2>5
  <2>9. Len(touched) <= Len(LruAfterEviction) /\ Len(LruAfterEviction) < BUFFER_SIZE
    BY <1>1, <1>2, <2>3, <2>4, <2>5
  <2>. QED  BY <1>1, <1>5, <2>1, <2>4, <2>5, <2>6, <2>7, <2>8, <2>9
<1>6. CASE ~MustEvict
  <2>1. free_frames_ids # << >>
    BY <1>6 DEF MustEvict
  <2>2. /\ Victim = Last(free_frames_ids) /\ LruAfterEviction = lru
        /\ FreeAfterEviction = Front(free_frames_ids)
    BY <1>6 DEF Victim, LruAfterEviction, FreeAfterEviction
  <2>3. /\ Victim \in FrameId /\ Victim \in Range(free_frames_ids)
        /\ FreeAfterEviction \in Seq(FrameId)
    BY <1>1, <2>1, <2>2, FrontElements
  <2>4. /\ IsInjective(FreeAfterEviction)
        /\ Range(FreeAfterEviction) = Range(free_frames_ids) \ {Victim}
    BY <1>1, <2>1, <2>2, FrontOfList
  <2>5. Victim \notin Range(lru)
    BY <1>1, <2>3
  <2>6. Cardinality(Range(lru)) < BUFFER_SIZE
    <3>1. Range(lru) # FrameId
      BY <2>3, <2>5
    <3>2. /\ Cardinality(Range(lru)) <= Cardinality(FrameId)
          /\ Cardinality(FrameId) = Cardinality(Range(lru)) => FrameId = Range(lru)
      BY <1>1, <1>3, FS_Subset
    <3>. QED  BY <1>2, <1>3, <1>4, <3>1, <3>2
  <2>. QED  BY <1>1, <1>4, <1>6, <2>2, <2>3, <2>4, <2>5, <2>6
<1>. QED  BY <1>5, <1>6

(* The disk: a victim is written back to its own slot.                     *)
LEMMA EvictionDisk ==
  ASSUME IInv
  PROVE  /\ DiskAfterEviction \in Disk /\ DenseDisk(DiskAfterEviction)
         /\ Allocated(DiskAfterEviction) = Allocated(disk)
<1>1. /\ disk \in Disk /\ DenseDisk(disk) /\ Resident \subseteq Allocated(disk)
      /\ frames \in [FrameId -> Contents]
  BY DEF IInv, TypeOK, DirectoryDense
<1>2. Victim \in FrameId /\ (Victim \in Range(lru) <=> MustEvict)
  BY EvictionLists
<1>3. CASE MustEvict /\ is_dirty[Victim]
  <2>1. pages_ids[Victim] \in Allocated(disk)
    <3>1. pages_ids[Victim] # -1
      BY <1>2, <1>3 DEF IInv, FramesAccounted
    <3>. QED  BY <1>1, <1>2, <3>1 DEF IInv, TableMatchesFrames
  <2>2. frames[Victim] \in Contents
    BY <1>1, <1>2
  <2>3. DiskAfterEviction = writePage(disk, pages_ids[Victim], frames[Victim])
    BY <1>3 DEF DiskAfterEviction
  <2>. QED  BY <1>1, <2>1, <2>2, <2>3, WriteBackDense
<1>4. CASE ~(MustEvict /\ is_dirty[Victim])
  BY <1>1, <1>4 DEF DiskAfterEviction
<1>. QED  BY <1>3, <1>4

(* The table: the entry of the victim's page, and no other, is erased.     *)
LEMMA EvictionTable ==
  ASSUME IInv
  PROVE  /\ TableAfterEviction \in MapOf(Slot, FrameId)
         /\ DOMAIN TableAfterEviction = Resident \ {pages_ids[Victim]}
         /\ \A p \in DOMAIN TableAfterEviction :
               TableAfterEviction[p] = page_table[p] /\ page_table[p] # Victim
<1>1. /\ page_table \in MapOf(Slot, FrameId)
      /\ \A p \in Resident : pages_ids[page_table[p]] = p
  BY DEF IInv, TypeOK, TableMatchesFrames
<1>2. Resident \subseteq Slot
  BY <1>1, MapType DEF Resident
<1>3. CASE MustEvict
  <2>1. TableAfterEviction = Erase(page_table, pages_ids[Victim])
    BY <1>3 DEF TableAfterEviction
  <2>2. Victim \in FrameId /\ pages_ids[Victim] # -1
    <3>1. Victim \in FrameId /\ Victim \in Range(lru)
      BY <1>3, EvictionLists
    <3>. QED  BY <3>1 DEF IInv, FramesAccounted
  <2>. QED  BY <2>1, <2>2, LeaveFrame
<1>4. CASE ~MustEvict
  <2>1. Victim \in FrameId /\ Victim \notin Range(lru)
    BY <1>4, EvictionLists
  <2>2. pages_ids[Victim] = -1
    BY <2>1 DEF IInv, FramesAccounted
  <2>3. -1 \notin Slot
    BY SlotAssumption DEF Slot
  <2>. QED  BY <1>1, <1>2, <1>4, <2>2, <2>3 DEF TableAfterEviction, Resident
<1>. QED  BY <1>3, <1>4

---------------------------------------------------------------------------
(* Recency: the callers' pointers follow the LRU list.                     *)

(* The pointer just taken and the frame just linked come to the front of   *)
(* their lists together.                                                   *)
LEMMA TouchHead ==
  ASSUME NEW u \in Seq(Pointer), NEW l \in Seq(FrameId),
         NEW id \in Slot, NEW f \in FrameId,
         Len(u) <= Len(l), \A i \in 1 .. Len(u) : u[i].frame = l[i]
  PROVE  LET v == Newest(<<[page |-> id, frame |-> f]>> \o u)
             m == <<f>> \o l
         IN  /\ v \in Seq(Pointer) /\ Len(v) <= Window /\ Len(v) <= Len(m)
             /\ \A i \in 1 .. Len(v) :
                  /\ v[i].frame = m[i]
                  /\ v[i].page = IF i = 1 THEN id ELSE u[i - 1].page
<1>. USE WindowAssumption
<1>. DEFINE p == [page |-> id, frame |-> f]
            w == <<p>> \o u
            n == IF Len(w) < Window THEN Len(w) ELSE Window
            v == SubSeq(w, 1, n)
            m == <<f>> \o l
<1>1. p \in Pointer /\ p.page = id /\ p.frame = f
  BY DEF Pointer
<1>. HIDE DEF p
<1>2. /\ w \in Seq(Pointer) /\ Len(w) = Len(u) + 1 /\ w[1] = p
      /\ \A j \in 1 .. Len(u) : w[j + 1] = u[j]
  BY <1>1, ConsElements
<1>3. /\ m \in Seq(FrameId) /\ Len(m) = Len(l) + 1 /\ m[1] = f
      /\ \A j \in 1 .. Len(l) : m[j + 1] = l[j]
  BY ConsElements
<1>. HIDE DEF w, m
<1>4. n \in 0 .. Len(w) /\ n <= Window
  BY <1>2
<1>. HIDE DEF n
<1>5. v \in Seq(Pointer) /\ Len(v) = n /\ \A i \in 1 .. n : v[i] = w[i]
  BY <1>2, <1>4, SubSeqProperties
<1>. HIDE DEF v
<1>6. Len(u) \in Nat /\ Len(l) \in Nat
  OBVIOUS
<1>7. ASSUME NEW i \in 1 .. n
      PROVE  /\ v[i].frame = m[i]
             /\ v[i].page = IF i = 1 THEN id ELSE u[i - 1].page
  <2>1. CASE i = 1
    BY <1>1, <1>2, <1>3, <1>5, <2>1
  <2>2. CASE i # 1
    <3>1. i - 1 \in 1 .. Len(u) /\ i - 1 \in 1 .. Len(l)
      BY <1>2, <1>4, <1>6, <2>2
    <3>2. (i - 1) + 1 = i
      OBVIOUS
    <3>3. v[i] = u[i - 1] /\ m[i] = l[i - 1]
      <4>1. w[(i - 1) + 1] = u[i - 1] /\ m[(i - 1) + 1] = l[i - 1] /\ v[i] = w[i]
        BY <1>2, <1>3, <1>5, <3>1
      <4>. QED  BY <3>2, <4>1
    <3>4. u[i - 1].frame = l[i - 1]
      BY <3>1
    <3>. QED  BY <2>2, <3>3, <3>4
  <2>. QED  BY <2>1, <2>2
<1>8. Len(v) <= Window /\ Len(v) <= Len(m)
  BY <1>2, <1>3, <1>4, <1>5, <1>6
<1>9. Newest(w) = v
  BY DEF Newest, v, n
<1>. QED  BY <1>5, <1>7, <1>8, <1>9 DEF w, m, p

(* A pointer still held points at the frame of its page.                   *)
LEMMA PointerValid ==
  ASSUME IInv, NEW i \in DOMAIN touched
  PROVE  /\ touched[i].page \in Resident
         /\ page_table[touched[i].page] = touched[i].frame
<1>1. i \in 1 .. Len(touched) /\ i \in 1 .. Len(lru) /\ touched[i] \in Pointer
  BY DEF IInv, TypeOK, RecentlyTouched
<1>2. /\ lru[i] \in FrameId /\ touched[i].frame = lru[i]
      /\ pages_ids[lru[i]] = touched[i].page
  BY <1>1 DEF IInv, TypeOK, RecentlyTouched
<1>3. touched[i].page # -1
  BY <1>1, SlotAssumption DEF Pointer, Slot
<1>. QED  BY <1>2, <1>3 DEF IInv, TableMatchesFrames

(* A page that is not resident is not one the callers still point to.      *)
LEMMA UntouchedMiss ==
  ASSUME IInv, NEW id, id \notin Resident
  PROVE  Untouched(id) = touched
BY PointerValid DEF Untouched, TouchedPages

(* Unlinking a resident page from the two lists keeps them in step.        *)
LEMMA UntouchedHit ==
  ASSUME IInv, NEW id \in Resident
  PROVE  LET f == page_table[id]
             m == Unlink(lru, f)
         IN  /\ f \in FrameId /\ f \in Range(lru) /\ pages_ids[f] = id
             /\ m \in Seq(FrameId) /\ IsInjective(m) /\ Range(m) = Range(lru) \ {f}
             /\ Untouched(id) \in Seq(Pointer)
             /\ Len(Untouched(id)) <= Window /\ Len(Untouched(id)) <= Len(m)
             /\ \A i \in 1 .. Len(Untouched(id)) :
                  /\ Untouched(id)[i].frame = m[i]
                  /\ pages_ids[m[i]] = Untouched(id)[i].page
<1>. USE WindowAssumption
<1>. DEFINE f == page_table[id]
            k == Position(lru, f)
            m == RemoveAt(lru, k)
            u == Untouched(id)
<1>1. id \in Slot /\ f \in FrameId
  BY MapType DEF IInv, TypeOK, Resident
<1>2. pages_ids[f] = id /\ f \in Range(lru)
  <2>1. pages_ids[f] = id /\ id # -1
    BY <1>1, SlotAssumption DEF IInv, TableMatchesFrames, Slot
  <2>. QED  BY <1>1, <2>1 DEF IInv, FramesAccounted
<1>3. /\ lru \in Seq(FrameId) /\ IsInjective(lru)
      /\ touched \in Seq(Pointer) /\ Len(touched) <= Window /\ Len(touched) <= Len(lru)
      /\ \A i \in 1 .. Len(touched) : /\ touched[i].frame = lru[i]
                                      /\ pages_ids[lru[i]] = touched[i].page
  BY DEF IInv, TypeOK, FramesAccounted, RecentlyTouched
<1>4. k \in 1 .. Len(lru) /\ lru[k] = f
  <2>1. \E i \in DOMAIN lru : lru[i] = f
    BY <1>2 DEF Range
  <2>. QED  BY <1>3, <2>1 DEF Position
<1>. HIDE DEF f, k
<1>5. /\ m \in Seq(FrameId) /\ Len(m) = Len(lru) - 1
      /\ \A j \in 1 .. Len(lru) - 1 : m[j] = IF j < k THEN lru[j] ELSE lru[j + 1]
  BY <1>3, <1>4, RemoveAtElements
<1>6. IsInjective(m) /\ Range(m) = Range(lru) \ {f}
  BY <1>3, <1>4, UnlinkFromList
<1>. HIDE DEF m
<1>7. Len(touched) \in Nat /\ Len(lru) \in Nat /\ DOMAIN touched = 1 .. Len(touched)
  BY <1>3
<1>8. ASSUME NEW i \in DOMAIN touched, touched[i].page = id
      PROVE  i = k
  <2>1. i \in 1 .. Len(touched) /\ i \in 1 .. Len(lru) /\ i \in DOMAIN lru
    BY <1>3, <1>7
  <2>2. lru[i] \in FrameId /\ pages_ids[lru[i]] = id /\ id # -1
    BY <1>1, <1>3, <1>8, <2>1, SlotAssumption DEF Slot
  <2>3. lru[i] = f
    BY <2>2 DEF IInv, TableMatchesFrames, f
  <2>. QED  BY <1>3, <1>4, <2>1, <2>3 DEF IsInjective
<1>9. /\ u \in Seq(Pointer) /\ Len(u) <= Len(touched) /\ Len(u) <= Len(m)
      /\ \A j \in 1 .. Len(u) : u[j].frame = m[j] /\ pages_ids[m[j]] = u[j].page
  <2>1. CASE id \in TouchedPages
    <3>1. PICK i \in DOMAIN touched : touched[i].page = id
      BY <2>1 DEF TouchedPages
    <3>2. (CHOOSE j \in DOMAIN touched : touched[j].page = id) = k
      BY <1>8, <3>1
    <3>3. u = RemoveAt(touched, k) /\ k \in 1 .. Len(touched)
      BY <1>7, <1>8, <2>1, <3>1, <3>2 DEF Untouched
    <3>4. /\ u \in Seq(Pointer) /\ Len(u) = Len(touched) - 1
          /\ \A j \in 1 .. Len(touched) - 1 :
               u[j] = IF j < k THEN touched[j] ELSE touched[j + 1]
      <4>. HIDE DEF u
      <4>. QED  BY <1>3, <3>3, RemoveAtElements
    <3>. HIDE DEF u
    <3>5. ASSUME NEW j \in 1 .. Len(u)
          PROVE  u[j].frame = m[j] /\ pages_ids[m[j]] = u[j].page
      <4>1. /\ j \in 1 .. Len(touched) /\ j + 1 \in 1 .. Len(touched)
            /\ j \in 1 .. Len(touched) - 1 /\ j \in 1 .. Len(lru) - 1
        BY <1>3, <1>7, <3>4
      <4>2. CASE j < k
        BY <1>3, <1>5, <3>4, <4>1, <4>2
      <4>3. CASE ~(j < k)
        BY <1>3, <1>5, <3>4, <4>1, <4>3
      <4>. QED  BY <4>2, <4>3
    <3>. QED  BY <1>3, <1>5, <1>7, <3>4, <3>5
  <2>2. CASE id \notin TouchedPages
    <3>1. u = touched
      BY <2>2 DEF Untouched
    <3>2. ~(k \in 1 .. Len(touched))
      <4>1. SUFFICES ASSUME k \in 1 .. Len(touched) PROVE FALSE
        OBVIOUS
      <4>2. touched[k].page = id
        BY <1>2, <1>3, <1>4, <4>1
      <4>. QED  BY <1>7, <2>2, <4>1, <4>2 DEF TouchedPages
    <3>3. Len(touched) < k
      BY <1>4, <1>7, <3>2
    <3>4. \A j \in 1 .. Len(touched) : j \in 1 .. Len(lru) - 1 /\ m[j] = lru[j]
      BY <1>4, <1>5, <1>7, <3>3
    <3>. QED  BY <1>3, <1>4, <1>5, <1>7, <3>1, <3>3, <3>4
  <2>. QED  BY <2>1, <2>2
<1>10. Len(u) <= Window
  BY <1>3, <1>7, <1>9
<1>. QED  BY <1>1, <1>2, <1>5, <1>6, <1>9, <1>10 DEF Unlink, f, k, m

---------------------------------------------------------------------------
(* The actions.                                                            *)

(* Loading a page into the victim's frame, by fetchPage or by newPage.     *)
LEMMA LoadPreserves ==
  ASSUME IInv, NEW d \in Disk, DenseDisk(d), Allocated(disk) \subseteq Allocated(d),
         NEW id \in Slot, id \in Allocated(d), id \notin Resident,
         Load(id, d), Touch(id, Victim)
  PROVE  IInv'
<1>. DEFINE f == Victim
            l == LruAfterEviction
            r == FreeAfterEviction
            t == TableAfterEviction
<1>1. /\ f \in FrameId
      /\ l \in Seq(FrameId) /\ IsInjective(l) /\ Range(l) = Range(lru) \ {f}
      /\ Len(l) < BUFFER_SIZE
      /\ r \in Seq(FrameId) /\ IsInjective(r) /\ Range(r) = Range(free_frames_ids) \ {f}
      /\ Len(touched) <= Len(l) /\ \A i \in 1 .. Len(touched) : l[i] = lru[i]
  BY EvictionLists
<1>2. /\ t \in MapOf(Slot, FrameId) /\ DOMAIN t = Resident \ {pages_ids[f]}
      /\ \A p \in DOMAIN t : t[p] = page_table[p] /\ page_table[p] # f
  BY EvictionTable
<1>3. Untouched(id) = touched
  BY UntouchedMiss
<1>4. /\ disk' = d
      /\ frames' = [frames EXCEPT ![f] = readPage(d, id, frames[f])]
      /\ pages_ids' = [pages_ids EXCEPT ![f] = id]
      /\ is_dirty' = [is_dirty EXCEPT ![f] = FALSE]
      /\ page_table' = Put(t, id, f) /\ free_frames_ids' = r
      /\ lru' = put_frame(l, f)
      /\ touched' = Newest(<<[page |-> id, frame |-> f]>> \o touched)
  BY <1>3 DEF Load, Touch
<1>. HIDE DEF f, l, r, t
<1>5. lru' = <<f>> \o l
  <2>1. f \notin Range(l) /\ Len(l) # BUFFER_SIZE
    BY <1>1, BufferAssumption
  <2>. QED  BY <1>4, <2>1 DEF put_frame
<1>6. /\ lru' \in Seq(FrameId) /\ IsInjective(lru') /\ Range(lru') = Range(lru) \cup {f}
      /\ lru'[1] = f /\ \A j \in 1 .. Len(l) : lru'[j + 1] = l[j]
  <2>1. f \notin Range(l)
    BY <1>1
  <2>. QED  BY <1>1, <1>5, <2>1, ConsElements, ConsInjective
<1>7. /\ page_table' \in MapOf(Slot, FrameId)
      /\ Resident' = (Resident \ {pages_ids[f]}) \cup {id}
      /\ page_table'[id] = f
      /\ \A p \in Resident \ {pages_ids[f]} :
           page_table'[p] = page_table[p] /\ page_table[p] # f
  <2>1. /\ page_table' \in MapOf(Slot, FrameId) /\ DOMAIN page_table' = DOMAIN t \cup {id}
        /\ page_table'[id] = f
        /\ \A p \in DOMAIN t : p # id => page_table'[p] = t[p]
    <3>1. f \in FrameId /\ t \in MapOf(Slot, FrameId) /\ page_table' = Put(t, id, f)
      BY <1>1, <1>2, <1>4
    <3>2. /\ Put(t, id, f) \in MapOf(Slot, FrameId)
          /\ DOMAIN Put(t, id, f) = DOMAIN t \cup {id} /\ Put(t, id, f)[id] = f
          /\ \A p \in DOMAIN t : p # id => Put(t, id, f)[p] = t[p]
      BY <3>1, EnterTable
    <3>. QED  BY <3>1, <3>2
  <2>. QED  BY <1>2, <2>1 DEF Resident
<1>8. /\ pages_ids \in [FrameId -> Slot \cup {-1}] /\ frames \in [FrameId -> Contents]
      /\ is_dirty \in [FrameId -> BOOLEAN] /\ Resident \subseteq Allocated(disk)
      /\ touched \in Seq(Pointer) /\ id # -1
  BY SlotAssumption DEF IInv, TypeOK, DirectoryDense, Slot
<1>9. pages_ids'[f] = id /\ \A g \in FrameId : g # f => pages_ids'[g] = pages_ids[g]
  BY <1>1, <1>4, <1>8
<1>10. /\ touched' \in Seq(Pointer) /\ Len(touched') <= Window /\ Len(touched') <= Len(lru')
       /\ \A i \in 1 .. Len(touched') :
            /\ touched'[i].frame = lru'[i]
            /\ touched'[i].page = IF i = 1 THEN id ELSE touched[i - 1].page
  <2>1. \A i \in 1 .. Len(touched) : touched[i].frame = l[i]
    BY <1>1 DEF IInv, RecentlyTouched
  <2>. QED  BY <1>1, <1>4, <1>5, <1>8, <2>1, TouchHead
<1>11. TypeOK'
  <2>1. frames' \in [FrameId -> Contents]
    BY <1>1, <1>4, <1>8, ReadType
  <2>2. is_dirty' \in [FrameId -> BOOLEAN] /\ pages_ids' \in [FrameId -> Slot \cup {-1}]
    BY <1>4, <1>8
  <2>. QED  BY <1>1, <1>4, <1>6, <1>7, <1>10, <2>1, <2>2 DEF TypeOK
<1>12. TableMatchesFrames'
  <2>1. \A p \in Resident : pages_ids[page_table[p]] = p /\ page_table[p] \in FrameId
    BY MapType DEF IInv, TypeOK, TableMatchesFrames, Resident
  <2>2. \A g \in FrameId : pages_ids[g] # -1 => /\ pages_ids[g] \in Resident
                                               /\ page_table[pages_ids[g]] = g
    BY DEF IInv, TableMatchesFrames
  <2>3. \A p \in Resident' : pages_ids'[page_table'[p]] = p
    BY <1>7, <1>9, <2>1
  <2>4. ASSUME NEW g \in FrameId, pages_ids'[g] # -1
        PROVE  pages_ids'[g] \in Resident' /\ page_table'[pages_ids'[g]] = g
    <3>1. CASE g = f
      BY <1>7, <1>9, <3>1
    <3>2. CASE g # f
      <4>1. /\ pages_ids'[g] = pages_ids[g] /\ pages_ids[g] \in Resident
            /\ page_table[pages_ids[g]] = g
        BY <1>9, <2>2, <2>4, <3>2
      <4>2. pages_ids[g] # pages_ids[f]
        BY <1>1, <2>2, <2>4, <3>2, <4>1
      <4>. QED  BY <1>7, <4>1, <4>2
    <3>. QED  BY <3>1, <3>2
  <2>. QED  BY <2>3, <2>4 DEF TableMatchesFrames
<1>13. FramesAccounted'
  <2>1. /\ Range(lru) = {g \in FrameId : pages_ids[g] # -1}
        /\ Range(free_frames_ids) = FrameId \ Range(lru)
    BY DEF IInv, FramesAccounted
  <2>2. Range(lru') = {g \in FrameId : pages_ids'[g] # -1}
    BY <1>1, <1>6, <1>8, <1>9, <2>1
  <2>3. Range(free_frames_ids') = FrameId \ Range(lru')
    BY <1>1, <1>4, <1>6, <2>1
  <2>. QED  BY <1>1, <1>4, <1>6, <2>2, <2>3 DEF FramesAccounted
<1>14. DirectoryDense'
  BY <1>4, <1>7, <1>8 DEF DirectoryDense
<1>15. RecentlyTouched'
  <2>1. ASSUME NEW i \in 1 .. Len(touched') PROVE pages_ids'[lru'[i]] = touched'[i].page
    <3>1. CASE i = 1
      BY <1>6, <1>9, <1>10, <3>1
    <3>2. CASE i # 1
      <4>1. i - 1 \in 1 .. Len(l) /\ i - 1 \in 1 .. Len(touched) /\ (i - 1) + 1 = i
        <5>1. Len(touched') <= Len(touched) + 1
          <6>1. /\ Len(<<[page |-> id, frame |-> f]>> \o touched) = Len(touched) + 1
                /\ <<[page |-> id, frame |-> f]>> \o touched \in Seq(Pointer)
            BY <1>1, <1>8, ConsElements DEF Pointer
          <6>. QED  BY <1>4, <1>8, <6>1, WindowAssumption DEF Newest
        <5>. QED  BY <1>1, <1>8, <1>10, <3>2, <5>1
      <4>2. lru'[i] = l[i - 1] /\ l[i - 1] = lru[i - 1]
        BY <1>1, <1>6, <4>1
      <4>3. l[i - 1] \in FrameId /\ l[i - 1] # f
        <5>1. l[i - 1] \in Range(l)
          BY <1>1, <4>1 DEF Range
        <5>. QED  BY <1>1, <4>1, <5>1
      <4>4. pages_ids[lru[i - 1]] = touched[i - 1].page
        BY <4>1 DEF IInv, RecentlyTouched
      <4>. QED  BY <1>9, <1>10, <3>2, <4>2, <4>3, <4>4
    <3>. QED  BY <3>1, <3>2
  <2>. QED  BY <1>10, <2>1 DEF RecentlyTouched
<1>. QED  BY <1>11, <1>12, <1>13, <1>14, <1>15 DEF IInv

LEMMA FetchMissPreserves ==
  ASSUME IInv, NEW id \in Slot, id \in Allocated(disk), FetchMiss(id)
  PROVE  IInv'
<1>1. id \notin Resident /\ Load(id, DiskAfterEviction) /\ Touch(id, Victim)
  BY DEF FetchMiss
<1>2. /\ DiskAfterEviction \in Disk /\ DenseDisk(DiskAfterEviction)
      /\ Allocated(DiskAfterEviction) = Allocated(disk)
  BY EvictionDisk
<1>. HIDE DEF DiskAfterEviction
<1>. QED  BY <1>1, <1>2, LoadPreserves

(* The id newPage gives out is new to the directory, hence to the pool.    *)
LEMMA newPagePreserves ==
  ASSUME IInv, newPage
  PROVE  IInv'
<1>. DEFINE d == DiskAfterEviction
<1>1. /\ HasRoom(disk) /\ Load(allocatedSlot(d), allocatePage(d))
      /\ Touch(allocatedSlot(d), Victim)
  BY DEF newPage
<1>2. d \in Disk /\ DenseDisk(d) /\ Allocated(d) = Allocated(disk)
  BY EvictionDisk
<1>. HIDE DEF d
<1>3. HasRoom(d)
  <2>1. disk.deleted_slots = << >>
    BY DEF IInv, DirectoryDense, DenseDisk
  <2>. QED  BY <1>1, <1>2, <2>1 DEF HasRoom, NewId
<1>4. /\ NewId(d) \in Slot \ Allocated(d) /\ allocatedSlot(d) = NewId(d)
      /\ allocatePage(d) \in Disk /\ DenseDisk(allocatePage(d))
      /\ Allocated(allocatePage(d)) = Allocated(d) \cup {NewId(d)}
  BY <1>2, <1>3, AllocateDense
<1>. DEFINE id == allocatedSlot(d)
            e == allocatePage(d)
<1>5. /\ id \in Slot /\ id \in Allocated(e) /\ id \notin Resident
      /\ e \in Disk /\ DenseDisk(e) /\ Allocated(disk) \subseteq Allocated(e)
  BY <1>2, <1>4 DEF IInv, DirectoryDense
<1>6. Load(id, e) /\ Touch(id, Victim)
  BY <1>1
<1>. HIDE DEF id, e
<1>. QED  BY <1>5, <1>6, LoadPreserves

(* A hit relinks the frame and moves the pointer to the front with it.     *)
LEMMA FetchHitPreserves ==
  ASSUME IInv, NEW id, FetchHit(id)
  PROVE  IInv'
<1>. DEFINE f == page_table[id]
            m == Unlink(lru, f)
            u == Untouched(id)
<1>1. id \in Resident /\ id \in Slot
  BY MapType DEF FetchHit, IInv, TypeOK, Resident
<1>2. /\ f \in FrameId /\ f \in Range(lru) /\ pages_ids[f] = id
      /\ m \in Seq(FrameId) /\ IsInjective(m) /\ Range(m) = Range(lru) \ {f}
      /\ u \in Seq(Pointer) /\ Len(u) <= Window /\ Len(u) <= Len(m)
      /\ \A i \in 1 .. Len(u) : u[i].frame = m[i] /\ pages_ids[m[i]] = u[i].page
  BY <1>1, UntouchedHit
<1>3. /\ lru' = get_frame(lru, f)
      /\ touched' = Newest(<<[page |-> id, frame |-> f]>> \o u)
      /\ UNCHANGED <<disk, frames, page_table, pages_ids, is_dirty, free_frames_ids>>
  BY DEF FetchHit, Touch
<1>4. lru' = <<f>> \o m
  BY <1>2, <1>3 DEF get_frame
<1>. HIDE DEF f, m, u
<1>5. /\ lru' \in Seq(FrameId) /\ IsInjective(lru') /\ Range(lru') = Range(lru)
      /\ lru'[1] = f /\ \A j \in 1 .. Len(m) : lru'[j + 1] = m[j]
  <2>1. f \notin Range(m) /\ (Range(lru) \ {f}) \cup {f} = Range(lru)
    BY <1>2
  <2>2. /\ <<f>> \o m \in Seq(FrameId) /\ Range(<<f>> \o m) = Range(m) \cup {f}
        /\ (<<f>> \o m)[1] = f
        /\ \A j \in 1 .. Len(m) : (<<f>> \o m)[j + 1] = m[j]
    BY <1>2, ConsElements
  <2>3. IsInjective(<<f>> \o m)
    BY <1>2, <2>1, ConsInjective
  <2>. QED  BY <1>2, <1>4, <2>1, <2>2, <2>3
<1>6. /\ touched' \in Seq(Pointer) /\ Len(touched') <= Window /\ Len(touched') <= Len(lru')
      /\ \A i \in 1 .. Len(touched') :
           /\ touched'[i].frame = lru'[i]
           /\ touched'[i].page = IF i = 1 THEN id ELSE u[i - 1].page
  BY <1>1, <1>2, <1>3, <1>4, TouchHead
<1>7. TypeOK'
  BY <1>3, <1>5, <1>6 DEF IInv, TypeOK
<1>8. TableMatchesFrames' /\ DirectoryDense'
  BY <1>3 DEF IInv, TableMatchesFrames, DirectoryDense, Resident
<1>9. FramesAccounted'
  BY <1>3, <1>5 DEF IInv, FramesAccounted
<1>10. RecentlyTouched'
  <2>1. ASSUME NEW i \in 1 .. Len(touched') PROVE pages_ids'[lru'[i]] = touched'[i].page
    <3>1. CASE i = 1
      <4>1. pages_ids' = pages_ids /\ pages_ids[f] = id
        BY <1>2, <1>3
      <4>2. lru'[i] = f /\ touched'[i].page = id
        BY <1>5, <1>6, <3>1
      <4>. QED  BY <4>1, <4>2
    <3>2. CASE i # 1
      <4>1. Len(touched') <= Len(u) + 1
        <5>1. /\ Len(<<[page |-> id, frame |-> f]>> \o u) = Len(u) + 1
              /\ <<[page |-> id, frame |-> f]>> \o u \in Seq(Pointer)
          BY <1>1, <1>2, ConsElements DEF Pointer
        <5>. QED  BY <1>2, <1>3, <5>1, WindowAssumption DEF Newest
      <4>2. i - 1 \in 1 .. Len(u) /\ i - 1 \in 1 .. Len(m) /\ (i - 1) + 1 = i
        BY <1>2, <1>6, <3>2, <4>1
      <4>3. lru'[i] = m[i - 1] /\ touched'[i].page = u[i - 1].page
        BY <1>5, <1>6, <3>2, <4>2
      <4>4. pages_ids[m[i - 1]] = u[i - 1].page
        BY <1>2, <4>2
      <4>. QED  BY <1>3, <4>3, <4>4
    <3>. QED  BY <3>1, <3>2
  <2>. QED  BY <1>6, <2>1 DEF RecentlyTouched
<1>. QED  BY <1>7, <1>8, <1>9, <1>10 DEF IInv

(* Dropping a page frees its frame and takes the pointer to it away.       *)
LEMMA DropPagePreserves ==
  ASSUME IInv, NEW id, DropPage(id)
  PROVE  IInv'
<1>. DEFINE f == page_table[id]
            m == Unlink(lru, f)
            u == Untouched(id)
            t == Erase(page_table, id)
<1>1. id \in Resident /\ id \in Slot /\ id # -1
  BY MapType, SlotAssumption DEF DropPage, IInv, TypeOK, Resident, Slot
<1>2. /\ f \in FrameId /\ f \in Range(lru) /\ pages_ids[f] = id
      /\ m \in Seq(FrameId) /\ IsInjective(m) /\ Range(m) = Range(lru) \ {f}
      /\ u \in Seq(Pointer) /\ Len(u) <= Window /\ Len(u) <= Len(m)
      /\ \A i \in 1 .. Len(u) : u[i].frame = m[i] /\ pages_ids[m[i]] = u[i].page
  BY <1>1, UntouchedHit
<1>3. /\ disk' = IF is_dirty[f] THEN writePage(disk, id, frames[f]) ELSE disk
      /\ page_table' = t
      /\ pages_ids' = [pages_ids EXCEPT ![f] = -1]
      /\ is_dirty' = [is_dirty EXCEPT ![f] = FALSE]
      /\ free_frames_ids' = Append(free_frames_ids, f)
      /\ lru' = m /\ touched' = u /\ frames' = frames
  BY DEF DropPage, remove_frame
<1>4. /\ t \in MapOf(Slot, FrameId) /\ DOMAIN t = Resident \ {id}
      /\ \A p \in Resident \ {id} : t[p] = page_table[p] /\ page_table[p] # f
  <2>1. pages_ids[f] # -1
    BY <1>1, <1>2
  <2>2. t = Erase(page_table, pages_ids[f])
    BY <1>2
  <2>. DEFINE q == Erase(page_table, pages_ids[f])
  <2>. HIDE DEF f, t
  <2>3. f \in FrameId /\ pages_ids[f] # -1
    BY <1>2, <2>1
  <2>4. /\ q \in MapOf(Slot, FrameId) /\ DOMAIN q = Resident \ {pages_ids[f]}
        /\ \A p \in Resident \ {pages_ids[f]} : q[p] = page_table[p] /\ page_table[p] # f
    BY <2>3, LeaveFrame
  <2>. QED  BY <1>2, <2>2, <2>4
<1>. HIDE DEF f, m, u, t
<1>5. disk' \in Disk /\ DenseDisk(disk)' /\ Allocated(disk)' = Allocated(disk)
  <2>1. disk \in Disk /\ DenseDisk(disk) /\ id \in Allocated(disk) /\ frames[f] \in Contents
    BY <1>1, <1>2 DEF IInv, TypeOK, DirectoryDense
  <2>2. CASE is_dirty[f]
    <3>1. disk' = writePage(disk, id, frames[f])
      BY <1>3, <2>2
    <3>. DEFINE d == writePage(disk, id, frames[f])
    <3>2. d \in Disk /\ DenseDisk(d) /\ Allocated(d) = Allocated(disk)
      BY <2>1, WriteBackDense
    <3>. HIDE DEF d
    <3>3. disk' = d
      BY <3>1 DEF d
    <3>. QED  BY <3>2, <3>3 DEF DenseDisk, Allocated
  <2>3. CASE ~is_dirty[f]
    BY <1>3, <2>1, <2>3 DEF DenseDisk, Allocated
  <2>. QED  BY <2>2, <2>3
<1>6. /\ pages_ids \in [FrameId -> Slot \cup {-1}] /\ is_dirty \in [FrameId -> BOOLEAN]
      /\ frames \in [FrameId -> Contents] /\ free_frames_ids \in Seq(FrameId)
  BY DEF IInv, TypeOK
<1>7. pages_ids'[f] = -1 /\ \A g \in FrameId : g # f => pages_ids'[g] = pages_ids[g]
  BY <1>2, <1>3, <1>6
<1>8. /\ free_frames_ids' \in Seq(FrameId) /\ IsInjective(free_frames_ids')
      /\ Range(free_frames_ids') = Range(free_frames_ids) \cup {f}
  <2>1. f \notin Range(free_frames_ids) /\ IsInjective(free_frames_ids)
    BY <1>2 DEF IInv, FramesAccounted
  <2>. QED  BY <1>2, <1>3, <1>6, <2>1, AppendToList
<1>9. TypeOK'
  <2>1. is_dirty' \in [FrameId -> BOOLEAN] /\ pages_ids' \in [FrameId -> Slot \cup {-1}]
    BY <1>3, <1>6
  <2>. QED  BY <1>2, <1>3, <1>4, <1>5, <1>6, <1>8, <2>1 DEF TypeOK
<1>10. TableMatchesFrames'
  <2>1. \A p \in Resident : pages_ids[page_table[p]] = p /\ page_table[p] \in FrameId
    BY MapType DEF IInv, TypeOK, TableMatchesFrames, Resident
  <2>2. \A g \in FrameId : pages_ids[g] # -1 => /\ pages_ids[g] \in Resident
                                               /\ page_table[pages_ids[g]] = g
    BY DEF IInv, TableMatchesFrames
  <2>3. Resident' = Resident \ {id}
    BY <1>3, <1>4 DEF Resident
  <2>4. \A p \in Resident' : pages_ids'[page_table'[p]] = p
    BY <1>3, <1>4, <1>7, <2>1, <2>3
  <2>5. ASSUME NEW g \in FrameId, pages_ids'[g] # -1
        PROVE  pages_ids'[g] \in Resident' /\ page_table'[pages_ids'[g]] = g
    <3>1. g # f /\ pages_ids'[g] = pages_ids[g]
      BY <1>7, <2>5
    <3>2. pages_ids[g] \in Resident /\ page_table[pages_ids[g]] = g
      BY <2>2, <2>5, <3>1
    <3>3. pages_ids[g] # id
      BY <3>1, <3>2 DEF f
    <3>. QED  BY <1>3, <1>4, <2>3, <3>1, <3>2, <3>3
  <2>. QED  BY <2>4, <2>5 DEF TableMatchesFrames
<1>11. FramesAccounted'
  <2>1. /\ Range(lru) = {g \in FrameId : pages_ids[g] # -1}
        /\ Range(free_frames_ids) = FrameId \ Range(lru)
    BY DEF IInv, FramesAccounted
  <2>2. Range(lru') = {g \in FrameId : pages_ids'[g] # -1}
    BY <1>2, <1>3, <1>7, <2>1
  <2>3. Range(free_frames_ids') = FrameId \ Range(lru')
    BY <1>2, <1>3, <1>8, <2>1
  <2>. QED  BY <1>2, <1>3, <1>8, <2>2, <2>3 DEF FramesAccounted
<1>12. DirectoryDense'
  BY <1>3, <1>4, <1>5 DEF IInv, DirectoryDense, Resident
<1>13. RecentlyTouched'
  <2>1. ASSUME NEW i \in 1 .. Len(u) PROVE pages_ids'[m[i]] = u[i].page
    <3>1. i \in DOMAIN m
      BY <1>2
    <3>2. m[i] \in Range(m)
      BY <3>1 DEF Range
    <3>. QED  BY <1>2, <1>7, <3>2
  <2>. QED  BY <1>2, <1>3, <2>1 DEF RecentlyTouched
<1>. QED  BY <1>9, <1>10, <1>11, <1>12, <1>13 DEF IInv

(* Writing through a pointer, and marking: the bookkeeping stands still.   *)
LEMMA StorePreserves ==
  ASSUME IInv, NEW i \in DOMAIN touched, NEW c \in Contents, Store(i, c)
  PROVE  IInv'
<1>1. /\ frames' = [frames EXCEPT ![touched[i].frame] = c]
      /\ UNCHANGED <<disk, page_table, pages_ids, is_dirty, free_frames_ids, lru, touched>>
  BY DEF Store
<1>2. TypeOK'
  <2>1. frames' \in [FrameId -> Contents]
    BY <1>1 DEF IInv, TypeOK
  <2>. QED  BY <1>1, <2>1 DEF IInv, TypeOK
<1>3. /\ TableMatchesFrames' /\ FramesAccounted'
      /\ DirectoryDense' /\ RecentlyTouched'
  BY <1>1 DEF IInv, TableMatchesFrames, FramesAccounted, DirectoryDense,
              RecentlyTouched, Resident
<1>. QED  BY <1>2, <1>3 DEF IInv

(* A page the callers have just touched is resident, so that marking it    *)
(* enters nothing in the table.                                            *)
LEMMA markAsDirtyPreserves ==
  ASSUME IInv, NEW id, markAsDirty(id)
  PROVE  IInv'
<1>1. id \in Resident
  <2>1. id \in TouchedPages
    BY DEF markAsDirty
  <2>. QED  BY <2>1, PointerValid DEF TouchedPages
<1>. DEFINE f == page_table[id]
<1>2. id \in Slot /\ f \in FrameId /\ page_table \in MapOf(Slot, FrameId)
  BY <1>1, MapType DEF IInv, TypeOK, Resident
<1>3. /\ page_table' = Put(page_table, id, f)
      /\ is_dirty' = [is_dirty EXCEPT ![f] = TRUE]
      /\ UNCHANGED <<disk, frames, pages_ids, free_frames_ids, lru, touched>>
  BY <1>1 DEF markAsDirty
<1>4. /\ page_table' \in MapOf(Slot, FrameId) /\ Resident' = Resident
      /\ \A p \in Resident : page_table'[p] = page_table[p]
  <2>. DEFINE q == Put(page_table, id, f)
  <2>1. /\ q \in MapOf(Slot, FrameId) /\ DOMAIN q = DOMAIN page_table \cup {id}
        /\ q[id] = f /\ \A x \in DOMAIN page_table : x # id => q[x] = page_table[x]
    BY <1>2, EnterTable
  <2>. HIDE DEF q
  <2>2. page_table' = q
    BY <1>3 DEF q
  <2>. QED  BY <1>1, <2>1, <2>2 DEF Resident
<1>5. TypeOK'
  <2>1. is_dirty' \in [FrameId -> BOOLEAN]
    BY <1>3 DEF IInv, TypeOK
  <2>. QED  BY <1>3, <1>4, <2>1 DEF IInv, TypeOK
<1>6. /\ TableMatchesFrames' /\ FramesAccounted'
      /\ DirectoryDense' /\ RecentlyTouched'
  BY <1>3, <1>4 DEF IInv, TableMatchesFrames, FramesAccounted, DirectoryDense,
                    RecentlyTouched
<1>. QED  BY <1>5, <1>6 DEF IInv

LEMMA unpinPagePreserves ==
  ASSUME IInv, NEW id, NEW flag \in BOOLEAN, unpinPage(id, flag)
  PROVE  IInv'
<1>1. /\ is_dirty' = [is_dirty EXCEPT ![page_table[id]] = @ \/ flag]
      /\ UNCHANGED <<disk, frames, page_table, pages_ids, free_frames_ids, lru, touched>>
  BY DEF unpinPage
<1>2. TypeOK'
  <2>1. is_dirty' \in [FrameId -> BOOLEAN]
    BY <1>1 DEF IInv, TypeOK
  <2>. QED  BY <1>1, <2>1 DEF IInv, TypeOK
<1>3. /\ TableMatchesFrames' /\ FramesAccounted'
      /\ DirectoryDense' /\ RecentlyTouched'
  BY <1>1 DEF IInv, TableMatchesFrames, FramesAccounted, DirectoryDense,
              RecentlyTouched, Resident
<1>. QED  BY <1>2, <1>3 DEF IInv

(* An empty pool: no page, and every frame on the stack once.              *)
LEMMA EmptyPool ==
  /\ EmptyMap \in MapOf(Slot, FrameId) /\ DOMAIN EmptyMap = {}
  /\ NoPages \in [FrameId -> Slot \cup {-1}] /\ \A f \in FrameId : NoPages[f] = -1
  /\ AllClean \in [FrameId -> BOOLEAN]
  /\ AllFree \in Seq(FrameId) /\ IsInjective(AllFree) /\ Range(AllFree) = FrameId
  /\ \A b \in AnyBytes : b \in [FrameId -> Contents]
<1>. USE BufferAssumption
<1>1. AllFree \in Seq(FrameId)
  BY DEF AllFree, FrameId
<1>2. IsInjective(AllFree)
  BY DEF AllFree, IsInjective
<1>3. Range(AllFree) = FrameId
  <2>1. DOMAIN AllFree = 1 .. BUFFER_SIZE /\ \A i \in 1 .. BUFFER_SIZE : AllFree[i] = i - 1
    BY DEF AllFree
  <2>2. \A f \in FrameId : f + 1 \in 1 .. BUFFER_SIZE /\ AllFree[f + 1] = f
    BY <2>1 DEF FrameId
  <2>3. \A i \in 1 .. BUFFER_SIZE : AllFree[i] \in FrameId
    BY <2>1 DEF FrameId
  <2>. QED  BY <2>1, <2>2, <2>3 DEF Range
<1>4. NoPages \in [FrameId -> Slot \cup {-1}] /\ \A f \in FrameId : NoPages[f] = -1
  BY DEF NoPages
<1>5. \A b \in AnyBytes : b \in [FrameId -> Contents]
  BY GarbageAssumption DEF AnyBytes
<1>. QED  BY <1>1, <1>2, <1>3, <1>4, <1>5, EmptyMapType DEF AllClean

(* Opening a file whose header is dense.                                   *)
LEMMA ReopenPreserves ==
  ASSUME NEW d \in Disk, DenseDisk(d), Reopen(d)
  PROVE  IInv'
<1>1. /\ disk' = loadMetaData(d) /\ frames' \in AnyBytes /\ page_table' = EmptyMap
      /\ pages_ids' = NoPages /\ is_dirty' = AllClean /\ free_frames_ids' = AllFree
      /\ lru' = << >> /\ touched' = << >>
  BY DEF Reopen
<1>. DEFINE e == loadMetaData(d)
<1>2. e \in Disk /\ DenseDisk(e)
  BY LoadDense
<1>. HIDE DEF e
<1>3. disk' = e
  BY <1>1 DEF e
<1>4. TypeOK'
  BY <1>1, <1>2, <1>3, EmptyPool DEF TypeOK
<1>5. TableMatchesFrames'
  BY <1>1, EmptyPool DEF TableMatchesFrames, Resident
<1>6. FramesAccounted'
  <2>1. IsInjective(<< >>) /\ Range(<< >>) = {}
    BY DEF IsInjective, Range
  <2>. QED  BY <1>1, <2>1, EmptyPool DEF FramesAccounted
<1>7. DirectoryDense'
  BY <1>1, <1>2, <1>3, EmptyPool DEF DirectoryDense, Resident, DenseDisk, Allocated
<1>8. RecentlyTouched'
  BY <1>1, WindowAssumption DEF RecentlyTouched
<1>. QED  BY <1>4, <1>5, <1>6, <1>7, <1>8 DEF IInv

LEMMA RestartPreserves ==
  ASSUME IInv, Restart
  PROVE  IInv'
<1>. DEFINE d == [disk EXCEPT !.file = FlushedFile]
            e == saveMetaData(d)
<1>1. disk \in Disk /\ DenseDisk(disk) /\ frames \in [FrameId -> Contents]
  BY DEF IInv, TypeOK, DirectoryDense
<1>2. FlushedFile \in [Slot -> Contents]
  <2>1. disk.file \in [Slot -> Contents]
    BY <1>1 DEF Disk
  <2>2. \A s \in Slot : DirtyFrames(s) \subseteq FrameId
    BY DEF DirtyFrames
  <2>. QED  BY <1>1, <2>1, <2>2 DEF FlushedFile
<1>3. d \in Disk /\ DenseDisk(d)
  BY <1>1, <1>2 DEF Disk, DenseDisk, Allocated
<1>4. Reopen(e)
  BY DEF Restart
<1>. HIDE DEF d
<1>5. e \in Disk /\ DenseDisk(e)
  BY <1>3, SaveDense
<1>. HIDE DEF e
<1>. QED  BY <1>4, <1>5, ReopenPreserves

LEMMA CrashPreserves ==
  ASSUME IInv, Crash
  PROVE  IInv'
<1>1. disk \in Disk /\ DenseDisk(disk) /\ Reopen(disk)
  BY DEF IInv, TypeOK, DirectoryDense, Crash
<1>. QED  BY <1>1, ReopenPreserves

---------------------------------------------------------------------------
(* The theorems.                                                           *)

LEMMA InitIInv == Init => IInv
<1>. SUFFICES ASSUME Init PROVE IInv
  OBVIOUS
<1>1. /\ disk = NewDisk /\ frames \in AnyBytes /\ page_table = EmptyMap
      /\ pages_ids = NoPages /\ is_dirty = AllClean /\ free_frames_ids = AllFree
      /\ lru = << >> /\ touched = << >>
  BY DEF Init
<1>2. disk \in Disk /\ DenseDisk(disk)
  <2>1. EmptyMap \in MapOf(PageIds, Slot) /\ DOMAIN EmptyMap = {}
    BY EmptyMapType
  <2>2. [s \in Slot |-> ZeroPage] \in [Slot -> Contents]
    BY ContentsAssumption
  <2>3. NewDisk \in Disk
    BY <2>1, <2>2, CapacityAssumption DEF NewDisk, Disk, Header
  <2>4. /\ NewDisk.pages_table = EmptyMap /\ NewDisk.header.pages_table = EmptyMap
        /\ NewDisk.deleted_slots = << >> /\ NewDisk.header.deleted_slots = << >>
    BY DEF NewDisk
  <2>5. 0 \in 0 .. MaxSlot /\ 1 .. 0 = {}
    BY SlotAssumption
  <2>. QED  BY <1>1, <2>1, <2>3, <2>4, <2>5 DEF DenseDisk, Allocated
<1>3. TypeOK
  BY <1>1, <1>2, EmptyPool DEF TypeOK
<1>4. TableMatchesFrames
  BY <1>1, EmptyPool DEF TableMatchesFrames, Resident
<1>5. FramesAccounted
  <2>1. IsInjective(<< >>) /\ Range(<< >>) = {}
    BY DEF IsInjective, Range
  <2>. QED  BY <1>1, <2>1, EmptyPool DEF FramesAccounted
<1>6. DirectoryDense
  BY <1>1, <1>2, EmptyPool DEF DirectoryDense, Resident
<1>7. RecentlyTouched
  BY <1>1, WindowAssumption DEF RecentlyTouched
<1>. QED  BY <1>3, <1>4, <1>5, <1>6, <1>7 DEF IInv

LEMMA NextIInv == IInv /\ [Next]_vars => IInv'
<1>. SUFFICES ASSUME IInv, [Next]_vars PROVE IInv'
  OBVIOUS
<1>1. CASE newPage
  BY <1>1, newPagePreserves
<1>2. ASSUME NEW id \in Slot, fetchPage(id) PROVE IInv'
  <2>1. CASE FetchHit(id)
    BY <2>1, FetchHitPreserves
  <2>2. CASE FetchMiss(id)
    BY <1>2, <2>2, FetchMissPreserves DEF fetchPage
  <2>. QED  BY <1>2, <2>1, <2>2 DEF fetchPage
<1>3. ASSUME NEW i \in DOMAIN touched, NEW c \in Contents \ {ZeroPage}, Store(i, c)
      PROVE  IInv'
  BY <1>3, StorePreserves
<1>4. ASSUME NEW id \in Slot, markAsDirty(id) PROVE IInv'
  BY <1>4, markAsDirtyPreserves
<1>5. ASSUME NEW id \in Slot, NEW flag \in BOOLEAN, unpinPage(id, flag) PROVE IInv'
  BY <1>5, unpinPagePreserves
<1>6. ASSUME NEW id \in Slot, DropPage(id) PROVE IInv'
  BY <1>6, DropPagePreserves
<1>7. CASE Restart
  BY <1>7, RestartPreserves
<1>8. CASE Crash
  BY <1>8, CrashPreserves
<1>9. CASE UNCHANGED vars
  BY <1>9 DEF vars, poolVars, IInv, TypeOK, TableMatchesFrames, FramesAccounted,
              DirectoryDense, RecentlyTouched, Resident
<1>. QED  BY <1>1, <1>2, <1>3, <1>4, <1>5, <1>6, <1>7, <1>8, <1>9 DEF Next

(* The inductive invariant holds in every reachable state: Init starts it, *)
(* and no call of the pool, restart or crash of the engine breaks it.      *)
THEOREM Invariance == Spec => []IInv
<1>1. Init => IInv
  BY InitIInv
<1>2. IInv /\ [Next]_vars => IInv'
  BY NextIInv
<1>. QED  BY <1>1, <1>2, PTL DEF Spec

(* The pool's variables keep their types; in particular evict_frame is     *)
(* never asked for a frame of an empty list.                               *)
THEOREM TypeCorrect == Spec => []TypeOK
<1>1. IInv => TypeOK
  BY DEF IInv
<1>. QED  BY <1>1, Invariance, PTL

(* page_table and pages_ids stay inverse to each other through fetchPage,  *)
(* newPage, deletePage and markAsDirty.                                    *)
THEOREM TableInverse == Spec => []TableMatchesFrames
<1>1. IInv => TableMatchesFrames
  BY DEF IInv
<1>. QED  BY <1>1, Invariance, PTL

(* No frame leaks and none is given out twice: free_frames_ids and the LRU *)
(* list partition the frames.                                              *)
THEOREM NoFrameLost == Spec => []FramesAccounted
<1>1. IInv => FramesAccounted
  BY DEF IInv
<1>. QED  BY <1>1, Invariance, PTL

(* The directory the engine builds maps page p to slot p and has no holes, *)
(* which is what keeps size() + 1 from naming a page that exists.          *)
THEOREM DirectoryHasNoHoles == Spec => []DirectoryDense
<1>1. IInv => DirectoryDense
  BY DEF IInv
<1>. QED  BY <1>1, Invariance, PTL

(* The callers' last pages are the head of the LRU list, in the order they *)
(* were used, whatever fetchPage, newPage and deletePage do to the list.   *)
THEOREM TouchedFirst == Spec => []RecentlyTouched
<1>1. IInv => RecentlyTouched
  BY DEF IInv
<1>. QED  BY <1>1, Invariance, PTL

(* Without a pin, a pointer to one of the last Window pages used still     *)
(* points at its page, whatever was fetched, created or dropped since.     *)
THEOREM PointersStayValid == Spec => []PointersValid
<1>1. IInv => PointersValid
  BY PointerValid DEF PointersValid
<1>. QED  BY <1>1, Invariance, PTL

---------------------------------------------------------------------------
(***************************************************************************)
(* The buffer pool implements PageCache: with the images its users see and *)
(* those in the file as the cache's state, every call of the pool is a     *)
(* step of the cache or changes nothing of it.                             *)
(***************************************************************************)

(* What the cache's state is, where the invariant holds: page p is in slot *)
(* p, so an image in the file is found under the page's own number.        *)

Image(p) == IF p \in Resident THEN frames[page_table[p]] ELSE disk.file[p]

ImagesAre ==
  /\ DOMAIN view = Allocated(disk) /\ DOMAIN stored = Allocated(disk)
  /\ view = [p \in Allocated(disk) |-> Image(p)]
  /\ stored = [p \in Allocated(disk) |-> disk.file[p]]
  /\ marked \subseteq Resident /\ Resident \subseteq Allocated(disk)
  /\ known \subseteq Allocated(disk)

LEMMA Images == IInv => ImagesAre
<1>. SUFFICES ASSUME IInv PROVE ImagesAre
  OBVIOUS
<1>1. \A p \in Allocated(disk) : disk.pages_table[p] = p
  BY DEF IInv, DirectoryDense, DenseDisk
<1>2. Resident \subseteq Allocated(disk) /\ known \subseteq Allocated(disk)
  BY DEF IInv, DirectoryDense, DenseDisk, known
<1>3. view = [p \in Allocated(disk) |-> Image(p)]
  BY <1>1 DEF view, Image
<1>4. stored = [p \in Allocated(disk) |-> disk.file[p]]
  BY <1>1 DEF stored
<1>5. DOMAIN view = Allocated(disk) /\ DOMAIN stored = Allocated(disk)
  BY <1>3, <1>4
<1>6. marked \subseteq Resident
  BY DEF marked
<1>. QED  BY <1>2, <1>3, <1>4, <1>5, <1>6 DEF ImagesAre

LEMMA ImagesNext == IInv' => ImagesAre'
BY Images, PTL

---------------------------------------------------------------------------
(* Eviction.                                                               *)

Evictee == pages_ids[Victim]

(* The victim's page is resident, and its frame is the victim.             *)
LEMMA EvicteeResident ==
  ASSUME IInv, MustEvict
  PROVE  /\ Evictee \in Resident /\ page_table[Evictee] = Victim
         /\ Evictee \in marked <=> is_dirty[Victim]
<1>1. Victim \in FrameId /\ Victim \in Range(lru)
  BY EvictionLists
<1>2. pages_ids[Victim] # -1
  BY <1>1 DEF IInv, FramesAccounted
<1>3. Evictee \in Resident /\ page_table[Evictee] = Victim
  BY <1>1, <1>2 DEF IInv, TableMatchesFrames, Evictee
<1>. QED  BY <1>3 DEF marked

(* The file after the eviction holds what a marked victim's page had in    *)
(* its frame.                                                              *)
LEMMA EvictionBytes ==
  ASSUME IInv
  PROVE  /\ DiskAfterEviction.header = disk.header
         /\ \A p \in Allocated(disk) : DiskAfterEviction.file[p] =
              IF MustEvict /\ p = Evictee /\ Evictee \in marked THEN view[p] ELSE stored[p]
<1>1. /\ disk \in Disk /\ DenseDisk(disk) /\ ImagesAre
      /\ \A p \in Allocated(disk) : p \in Slot
  <2>1. disk \in Disk /\ DenseDisk(disk)
    BY DEF IInv, TypeOK, DirectoryDense
  <2>2. \A p \in Allocated(disk) : disk.pages_table[p] \in Slot /\ disk.pages_table[p] = p
    <3>1. disk.pages_table \in MapOf(PageIds, Slot)
      BY <2>1 DEF Disk
    <3>. QED  BY <2>1, <3>1, MapType DEF DenseDisk, Allocated
  <2>. QED  BY <2>1, <2>2, Images
<1>2. CASE MustEvict /\ is_dirty[Victim]
  <2>1. /\ Evictee \in Resident /\ page_table[Evictee] = Victim /\ Evictee \in marked
        /\ Evictee \in Allocated(disk)
    BY <1>1, <1>2, EvicteeResident DEF ImagesAre
  <2>2. DiskAfterEviction = writePage(disk, Evictee, frames[Victim])
    BY <1>2 DEF DiskAfterEviction, Evictee
  <2>3. /\ DiskAfterEviction.file = [disk.file EXCEPT ![Evictee] = frames[Victim]]
        /\ DiskAfterEviction.header = disk.header
    <3>. HIDE DEF Evictee
    <3>. QED  BY <1>1, <2>1, <2>2, WriteBackBytes
  <2>4. disk.file \in [Slot -> Contents]
    BY <1>1 DEF Disk
  <2>5. view[Evictee] = frames[Victim]
    BY <1>1, <2>1 DEF ImagesAre, Image
  <2>. QED  BY <1>1, <1>2, <2>1, <2>3, <2>4, <2>5 DEF ImagesAre
<1>3. CASE ~(MustEvict /\ is_dirty[Victim])
  <2>1. DiskAfterEviction = disk /\ ~(MustEvict /\ Evictee \in marked)
    BY <1>3, EvicteeResident DEF DiskAfterEviction
  <2>. QED  BY <1>1, <2>1 DEF ImagesAre
<1>. QED  BY <1>2, <1>3

(* Loading a page, by fetchPage or by newPage: the images of the other     *)
(* pages are those the eviction leaves, and the page's own is the one in   *)
(* the file, to its users as well.                                         *)
SeenAfter(p)    == IF MustEvict /\ p = Evictee /\ p \notin marked THEN stored[p] ELSE view[p]
WrittenAfter(p) == IF MustEvict /\ p = Evictee /\ p \in marked THEN view[p] ELSE stored[p]

LEMMA LoadImages ==
  ASSUME IInv, IInv', NEW d, NEW id, id \notin Resident,
         Allocated(d) = Allocated(disk) \cup {id}, d.header = disk.header,
         \A p \in Allocated(disk) : d.file[p] = DiskAfterEviction.file[p],
         Load(id, d)
  PROVE  /\ view' = [p \in Allocated(disk) \cup {id} |->
                       IF p = id THEN d.file[id] ELSE SeenAfter(p)]
         /\ stored' = [p \in Allocated(disk) \cup {id} |->
                         IF p \in Allocated(disk) THEN WrittenAfter(p) ELSE d.file[p]]
         /\ marked' = IF MustEvict THEN marked \ {Evictee} ELSE marked
         /\ known' = known
<1>. DEFINE f == Victim
            t == TableAfterEviction
<1>1. /\ f \in FrameId /\ (f \in Range(lru) <=> MustEvict)
  BY EvictionLists
<1>2. /\ t \in MapOf(Slot, FrameId) /\ DOMAIN t = Resident \ {Evictee}
      /\ \A p \in DOMAIN t : t[p] = page_table[p] /\ page_table[p] # f
  BY EvictionTable DEF Evictee
<1>3. /\ disk' = d /\ frames' = [frames EXCEPT ![f] = readPage(d, id, frames[f])]
      /\ page_table' = Put(t, id, f) /\ is_dirty' = [is_dirty EXCEPT ![f] = FALSE]
  BY DEF Load
<1>4. ImagesAre /\ ImagesAre'
  BY Images, ImagesNext
<1>5. ~MustEvict => Evictee \notin Resident
  <2>1. ASSUME ~MustEvict PROVE pages_ids[f] = -1
    BY <1>1, <2>1 DEF IInv, FramesAccounted
  <2>2. \A p \in Resident : p \in Slot
    BY MapType DEF IInv, TypeOK, Resident
  <2>. QED  BY <2>1, <2>2, SlotAssumption DEF Slot, Evictee
<1>. HIDE DEF f, t
<1>6. /\ Resident' = (Resident \ {Evictee}) \cup {id} /\ page_table'[id] = f
      /\ \A p \in Resident \ {Evictee} : page_table'[p] = page_table[p]
                                         /\ page_table[p] # f /\ page_table[p] \in FrameId
  <2>1. /\ DOMAIN page_table' = DOMAIN t \cup {id} /\ page_table'[id] = f
        /\ \A p \in DOMAIN t : page_table'[p] = t[p]
    BY <1>2, <1>3 DEF Put
  <2>2. \A p \in Resident : page_table[p] \in FrameId
    BY MapType DEF IInv, TypeOK, Resident
  <2>. QED  BY <1>2, <2>1, <2>2 DEF Resident
<1>7. /\ frames \in [FrameId -> Contents] /\ is_dirty \in [FrameId -> BOOLEAN]
  BY DEF IInv, TypeOK
<1>8. frames'[f] = d.file[id]
  <2>1. d.pages_table[id] = id
    BY <1>3 DEF IInv, DirectoryDense, DenseDisk
  <2>. QED  BY <1>1, <1>3, <1>7, <2>1 DEF readPage
<1>9. \A p \in Resident \ {Evictee} : /\ frames'[page_table'[p]] = frames[page_table[p]]
                                     /\ is_dirty'[page_table'[p]] = is_dirty[page_table[p]]
  BY <1>3, <1>6, <1>7
<1>10. \A p \in Allocated(disk) : d.file[p] = WrittenAfter(p)
  BY EvictionBytes DEF WrittenAfter
<1>11. stored' = [p \in Allocated(disk) \cup {id} |->
                    IF p \in Allocated(disk) THEN WrittenAfter(p) ELSE d.file[p]]
  <2>1. stored' = [p \in Allocated(disk) \cup {id} |-> d.file[p]]
    BY <1>3, <1>4 DEF ImagesAre
  <2>. QED  BY <1>10, <2>1
<1>12. ASSUME NEW p \in Allocated(disk) \cup {id}
       PROVE  Image(p)' = IF p = id THEN d.file[id] ELSE SeenAfter(p)
  <2>1. CASE p = id
    BY <1>6, <1>8, <2>1 DEF Image
  <2>2. CASE p # id /\ p \in Resident \ {Evictee}
    <3>1. Image(p)' = frames[page_table[p]]
      BY <1>6, <1>9, <2>2 DEF Image
    <3>2. view[p] = frames[page_table[p]]
      BY <1>4, <2>2 DEF ImagesAre, Image
    <3>. QED  BY <2>2, <3>1, <3>2 DEF SeenAfter
  <2>3. CASE p # id /\ p \notin Resident \ {Evictee}
    <3>1. Image(p)' = d.file[p] /\ p \in Allocated(disk)
      BY <1>3, <1>6, <2>3 DEF Image
    <3>2. Image(p)' = WrittenAfter(p)
      BY <1>10, <3>1
    <3>3. CASE MustEvict /\ p = Evictee
      BY <2>3, <3>2, <3>3 DEF WrittenAfter, SeenAfter
    <3>4. CASE ~(MustEvict /\ p = Evictee)
      <4>1. p \notin Resident
        BY <1>5, <2>3, <3>4
      <4>2. view[p] = stored[p]
        BY <1>4, <3>1, <4>1 DEF ImagesAre, Image
      <4>. QED  BY <2>3, <3>2, <3>4, <4>2 DEF WrittenAfter, SeenAfter
    <3>. QED  BY <3>3, <3>4
  <2>. QED  BY <2>1, <2>2, <2>3
<1>13. view' = [p \in Allocated(disk) \cup {id} |->
                  IF p = id THEN d.file[id] ELSE SeenAfter(p)]
  <2>1. view' = [p \in Allocated(disk) \cup {id} |-> Image(p)']
    BY <1>3, <1>4 DEF ImagesAre
  <2>. QED  BY <1>12, <2>1
<1>14. marked' = IF MustEvict THEN marked \ {Evictee} ELSE marked
  <2>1. marked' = {p \in Resident' : is_dirty'[page_table'[p]]}
    BY DEF marked
  <2>2. ~is_dirty'[page_table'[id]]
    BY <1>1, <1>3, <1>6, <1>7
  <2>3. marked' = {p \in Resident \ {Evictee} : is_dirty[page_table[p]]}
    BY <1>6, <1>9, <2>1, <2>2
  <2>. QED  BY <1>5, <2>3 DEF marked
<1>15. known' = known
  BY <1>3 DEF known
<1>. QED  BY <1>11, <1>13, <1>14, <1>15

---------------------------------------------------------------------------
(* The steps of the pool, as steps of the cache.                           *)

(* A miss evicts the victim's page, or changes no image when a frame is    *)
(* free.                                                                   *)
LEMMA FetchMissRefines ==
  ASSUME IInv, IInv', NEW id \in Allocated(disk), FetchMiss(id)
  PROVE  [Cache!Next]_Cache!vars
<1>. DEFINE d == DiskAfterEviction
<1>1. id \notin Resident /\ Load(id, d)
  BY DEF FetchMiss
<1>2. /\ Allocated(d) = Allocated(disk) \cup {id} /\ d.header = disk.header
      /\ \A p \in Allocated(disk) : d.file[p] = WrittenAfter(p)
  BY EvictionDisk, EvictionBytes DEF WrittenAfter
<1>3. /\ view' = [p \in Allocated(disk) \cup {id} |->
                    IF p = id THEN d.file[id] ELSE SeenAfter(p)]
      /\ stored' = [p \in Allocated(disk) \cup {id} |->
                      IF p \in Allocated(disk) THEN WrittenAfter(p) ELSE d.file[p]]
      /\ marked' = IF MustEvict THEN marked \ {Evictee} ELSE marked
      /\ known' = known
  BY <1>1, <1>2, LoadImages
<1>. HIDE DEF d
<1>4. ImagesAre
  BY Images
<1>5. view[id] = stored[id] /\ (MustEvict => Evictee # id)
  BY <1>1, <1>4, EvicteeResident DEF ImagesAre, Image
<1>6. d.file[id] = view[id] /\ SeenAfter(id) = view[id]
  BY <1>2, <1>5 DEF WrittenAfter, SeenAfter
<1>7. /\ view' = [p \in Allocated(disk) |-> SeenAfter(p)]
      /\ stored' = [p \in Allocated(disk) |-> WrittenAfter(p)]
  BY <1>3, <1>6
<1>8. CASE MustEvict
  <2>1. Evictee \in Allocated(disk)
    BY <1>4, <1>8, EvicteeResident DEF ImagesAre
  <2>2. view' = [view EXCEPT ![Evictee] = IF Evictee \in marked THEN @ ELSE stored[Evictee]]
    BY <1>4, <1>7, <1>8 DEF ImagesAre, SeenAfter
  <2>3. stored' = [stored EXCEPT ![Evictee] = IF Evictee \in marked THEN view[Evictee] ELSE @]
    BY <1>4, <1>7, <1>8 DEF ImagesAre, WrittenAfter
  <2>4. Cache!Evict(Evictee)
    BY <1>3, <1>4, <1>8, <2>1, <2>2, <2>3
       DEF ImagesAre, Cache!Evict, Cache!Pages, Cache!Seen, Cache!Written
  <2>. QED  BY <1>4, <2>1, <2>4 DEF ImagesAre, Cache!Next, Cache!Pages
<1>9. CASE ~MustEvict
  <2>1. view' = view /\ stored' = stored
    BY <1>4, <1>7, <1>9 DEF ImagesAre, SeenAfter, WrittenAfter
  <2>. QED  BY <1>3, <1>9, <2>1 DEF Cache!vars
<1>. QED  BY <1>8, <1>9

(* A page created is new to the cache, and evicts as a miss does.          *)
LEMMA newPageRefines ==
  ASSUME IInv, IInv', newPage
  PROVE  Cache!Next
<1>. DEFINE c == DiskAfterEviction
            id == allocatedSlot(c)
            d == allocatePage(c)
<1>1. HasRoom(disk) /\ Load(id, d)
  BY DEF newPage
<1>2. /\ c \in Disk /\ DenseDisk(c) /\ Allocated(c) = Allocated(disk) /\ c.header = disk.header
      /\ \A p \in Allocated(disk) : c.file[p] = WrittenAfter(p)
  BY EvictionDisk, EvictionBytes DEF WrittenAfter
<1>3. HasRoom(c)
  <2>1. disk.deleted_slots = << >>
    BY DEF IInv, DirectoryDense, DenseDisk
  <2>. HIDE DEF c
  <2>. QED  BY <1>1, <1>2, <2>1 DEF HasRoom, NewId
<1>4. /\ id \in Slot /\ id \notin Allocated(disk) /\ id = NewId(c)
      /\ Allocated(d) = Allocated(disk) \cup {id}
      /\ d.file = [c.file EXCEPT ![id] = FreshPage] /\ d.header = disk.header
  <2>. HIDE DEF c
  <2>. QED  BY <1>2, <1>3, AllocateDense, AllocateBytes
<1>5. d.file[id] = FreshPage /\ \A p \in Allocated(disk) : d.file[p] = c.file[p]
  <2>1. c.file \in [Slot -> Contents]
    BY <1>2 DEF Disk
  <2>. HIDE DEF c, d, id
  <2>. QED  BY <1>4, <2>1
<1>6. ImagesAre
  BY Images
<1>7. id \notin Resident
  BY <1>4, <1>6 DEF ImagesAre
<1>8. /\ view' = [p \in Allocated(disk) \cup {id} |->
                    IF p = id THEN d.file[id] ELSE SeenAfter(p)]
      /\ stored' = [p \in Allocated(disk) \cup {id} |->
                      IF p \in Allocated(disk) THEN WrittenAfter(p) ELSE d.file[p]]
      /\ marked' = IF MustEvict THEN marked \ {Evictee} ELSE marked
      /\ known' = known
  <2>1. \A p \in Allocated(disk) : d.file[p] = DiskAfterEviction.file[p]
    BY <1>5
  <2>. QED  BY <1>1, <1>4, <1>7, <2>1, LoadImages
<1>. HIDE DEF c, d, id
<1>9. /\ view' = [p \in Allocated(disk) \cup {id} |->
                    IF p = id THEN FreshPage ELSE SeenAfter(p)]
      /\ stored' = [p \in Allocated(disk) \cup {id} |->
                      IF p = id THEN FreshPage ELSE WrittenAfter(p)]
  BY <1>4, <1>5, <1>8
<1>10. CASE MustEvict
  <2>1. Evictee \in Allocated(disk)
    BY <1>6, <1>10, EvicteeResident DEF ImagesAre
  <2>2. view' = Cache!Put(Cache!Seen(Evictee), id, FreshPage)
    BY <1>6, <1>9, <1>10 DEF ImagesAre, SeenAfter, Cache!Seen, Cache!Put
  <2>3. stored' = Cache!Put(Cache!Written(Evictee), id, FreshPage)
    BY <1>6, <1>9, <1>10 DEF ImagesAre, WrittenAfter, Cache!Written, Cache!Put
  <2>4. Cache!NewEvicting(id, Evictee)
    BY <1>4, <1>6, <1>8, <1>10, <2>2, <2>3
       DEF ImagesAre, Cache!NewEvicting, Cache!Add, Cache!Pages
  <2>. QED  BY <1>4, <1>6, <2>1, <2>4 DEF ImagesAre, Cache!Next, Cache!Pages
<1>11. CASE ~MustEvict
  <2>1. view' = Cache!Put(view, id, FreshPage) /\ stored' = Cache!Put(stored, id, FreshPage)
    BY <1>6, <1>9, <1>11 DEF ImagesAre, SeenAfter, WrittenAfter, Cache!Put
  <2>2. Cache!New(id)
    BY <1>4, <1>6, <1>8, <1>11, <2>1 DEF ImagesAre, Cache!New, Cache!Add, Cache!Pages
  <2>. QED  BY <1>4, <2>2 DEF Cache!Next
<1>. QED  BY <1>10, <1>11

(* A hit moves a frame on the list, and shows nothing of it.               *)
LEMMA FetchHitRefines ==
  ASSUME NEW id, FetchHit(id)
  PROVE  UNCHANGED Cache!vars
BY DEF FetchHit, Cache!vars, view, stored, marked, known, Allocated, Resident

(* A store goes to the page the pointer was taken for, and to no other.    *)
LEMMA StoreRefines ==
  ASSUME IInv, IInv', NEW i \in DOMAIN touched, NEW c \in Contents, Store(i, c)
  PROVE  Cache!Next
<1>. DEFINE q == touched[i].page
            f == touched[i].frame
<1>1. q \in Resident /\ page_table[q] = f
  BY PointerValid
<1>2. /\ frames' = [frames EXCEPT ![f] = c]
      /\ UNCHANGED <<disk, page_table, is_dirty>>
  BY DEF Store
<1>. HIDE DEF q, f
<1>3. ImagesAre /\ ImagesAre'
  BY Images, ImagesNext
<1>4. q \in Allocated(disk)
  BY <1>1, <1>3 DEF ImagesAre
<1>5. /\ frames \in [FrameId -> Contents]
      /\ \A p \in Resident : page_table[p] \in FrameId /\ (page_table[p] = f => p = q)
  <2>1. \A p \in Resident : pages_ids[page_table[p]] = p
    BY DEF IInv, TableMatchesFrames
  <2>2. \A p \in Resident : page_table[p] \in FrameId
    BY MapType DEF IInv, TypeOK, Resident
  <2>. QED  BY <1>1, <2>1, <2>2 DEF IInv, TypeOK
<1>6. \A p \in Allocated(disk) : Image(p)' = IF p = q THEN c ELSE Image(p)
  <2>1. Resident' = Resident /\ page_table' = page_table /\ disk' = disk
    BY <1>2 DEF Resident
  <2>2. \A p \in Resident : frames'[page_table[p]] = IF p = q THEN c ELSE frames[page_table[p]]
    BY <1>1, <1>2, <1>5
  <2>. QED  BY <1>1, <2>1, <2>2 DEF Image
<1>7. view' = [view EXCEPT ![q] = c]
  <2>1. view' = [p \in Allocated(disk) |-> Image(p)']
    BY <1>2, <1>3 DEF ImagesAre
  <2>. QED  BY <1>3, <1>6, <2>1 DEF ImagesAre
<1>8. UNCHANGED <<stored, marked, known>>
  BY <1>2 DEF stored, marked, known, Allocated, Resident
<1>9. Cache!Store(q, c)
  BY <1>3, <1>4, <1>7, <1>8 DEF ImagesAre, Cache!Store, Cache!Pages
<1>. QED  BY <1>3, <1>4, <1>9 DEF ImagesAre, Cache!Next, Cache!Pages

(* Marking a page, by markAsDirty or by unpinPage with the flag.           *)
LEMMA MarkRefines ==
  ASSUME IInv, NEW id \in Resident,
         is_dirty' = [is_dirty EXCEPT ![page_table[id]] = TRUE],
         Resident' = Resident, \A p \in Resident : page_table'[p] = page_table[p],
         UNCHANGED <<disk, frames>>
  PROVE  Cache!Next
<1>1. ImagesAre
  BY Images
<1>2. /\ \A p \in Resident : page_table[p] \in FrameId /\ pages_ids[page_table[p]] = p
      /\ is_dirty \in [FrameId -> BOOLEAN]
  BY MapType DEF IInv, TypeOK, TableMatchesFrames, Resident
<1>3. \A p \in Resident : is_dirty'[page_table'[p]] <=> (p = id \/ is_dirty[page_table[p]])
  <2>1. is_dirty'[page_table[id]]
    BY <1>2
  <2>2. \A p \in Resident : p # id => page_table[p] # page_table[id]
    BY <1>2
  <2>3. \A p \in Resident : p # id => is_dirty'[page_table[p]] = is_dirty[page_table[p]]
    BY <1>2, <2>2
  <2>. QED  BY <2>1, <2>3
<1>4. marked' = marked \cup {id}
  BY <1>3 DEF marked
<1>5. UNCHANGED <<view, stored, known>>
  <2>1. disk' = disk /\ frames' = frames
    OBVIOUS
  <2>2. view' = [p \in Allocated(disk) |-> IF p \in Resident THEN frames[page_table[p]]
                                           ELSE disk.file[disk.pages_table[p]]]
    BY <2>1 DEF view
  <2>. QED  BY <2>1, <2>2 DEF view, stored, known
<1>6. Cache!Mark(id)
  BY <1>1, <1>4, <1>5 DEF ImagesAre, Cache!Mark, Cache!Pages
<1>. QED  BY <1>1, <1>6 DEF ImagesAre, Cache!Next, Cache!Pages

LEMMA markAsDirtyRefines ==
  ASSUME IInv, NEW id, markAsDirty(id)
  PROVE  Cache!Next
<1>1. id \in Resident
  <2>1. id \in TouchedPages
    BY DEF markAsDirty
  <2>. QED  BY <2>1, PointerValid DEF TouchedPages
<1>2. /\ page_table' = Put(page_table, id, page_table[id])
      /\ is_dirty' = [is_dirty EXCEPT ![page_table[id]] = TRUE]
      /\ UNCHANGED <<disk, frames>>
  BY <1>1 DEF markAsDirty
<1>3. Resident' = Resident /\ \A p \in Resident : page_table'[p] = page_table[p]
  BY <1>1, <1>2 DEF Put, Resident
<1>. QED  BY <1>1, <1>2, <1>3, MarkRefines

LEMMA unpinPageRefines ==
  ASSUME IInv, NEW id, NEW flag \in BOOLEAN, unpinPage(id, flag)
  PROVE  [Cache!Next]_Cache!vars
<1>1. /\ id \in Resident
      /\ is_dirty' = [is_dirty EXCEPT ![page_table[id]] = @ \/ flag]
      /\ UNCHANGED <<disk, frames, page_table>>
  BY DEF unpinPage
<1>2. Resident' = Resident /\ \A p \in Resident : page_table'[p] = page_table[p]
  BY <1>1 DEF Resident
<1>3. CASE flag
  <2>1. is_dirty' = [is_dirty EXCEPT ![page_table[id]] = TRUE]
    BY <1>1, <1>3
  <2>. QED  BY <1>1, <1>2, <2>1, MarkRefines
<1>4. CASE ~flag
  <2>1. is_dirty' = is_dirty
    <3>1. is_dirty \in [FrameId -> BOOLEAN]
      BY DEF IInv, TypeOK
    <3>. QED  BY <1>1, <1>4, <3>1
  <2>2. UNCHANGED Cache!vars
    BY <1>1, <2>1 DEF Cache!vars, view, stored, marked, known, Allocated, Resident
  <2>. QED  BY <2>2
<1>. QED  BY <1>3, <1>4

(* Dropping a page evicts it.                                              *)
LEMMA DropPageRefines ==
  ASSUME IInv, IInv', NEW id, DropPage(id)
  PROVE  Cache!Next
<1>. DEFINE f == page_table[id]
<1>1. /\ id \in Resident /\ f \in FrameId
      /\ \A p \in Resident : /\ page_table[p] \in FrameId /\ pages_ids[page_table[p]] = p
      /\ frames \in [FrameId -> Contents] /\ is_dirty \in [FrameId -> BOOLEAN]
  <2>1. id \in Resident
    BY DEF DropPage
  <2>. QED  BY <2>1, MapType DEF IInv, TypeOK, TableMatchesFrames, Resident
<1>2. /\ disk' = IF is_dirty[f] THEN writePage(disk, id, frames[f]) ELSE disk
      /\ page_table' = Erase(page_table, id) /\ frames' = frames
      /\ is_dirty' = [is_dirty EXCEPT ![f] = FALSE]
  BY DEF DropPage
<1>. HIDE DEF f
<1>3. ImagesAre /\ ImagesAre' /\ id \in Allocated(disk)
  BY <1>1, Images, ImagesNext DEF ImagesAre
<1>4. id \in marked <=> is_dirty[f]
  BY <1>1 DEF marked, f
<1>5. view[id] = frames[f] /\ stored[id] = disk.file[id]
  BY <1>1, <1>3 DEF ImagesAre, Image, f
<1>6. /\ Allocated(disk)' = Allocated(disk) /\ disk'.header = disk.header
      /\ \A p \in Allocated(disk) : disk'.file[p] =
           IF p = id /\ id \in marked THEN view[id] ELSE stored[p]
  <2>1. disk \in Disk /\ DenseDisk(disk) /\ frames[f] \in Contents
    BY <1>1 DEF IInv, TypeOK, DirectoryDense, f
  <2>2. CASE is_dirty[f]
    <3>. DEFINE d == writePage(disk, id, frames[f])
    <3>1. d.file = [disk.file EXCEPT ![id] = frames[f]] /\ d.header = disk.header
      BY <1>3, <2>1, WriteBackBytes
    <3>2. Allocated(d) = Allocated(disk)
      BY <1>3, <2>1, WriteBackDense
    <3>3. disk' = d
      BY <1>2, <2>2
    <3>4. \A p \in Allocated(disk) : p \in Slot
      <4>1. disk.pages_table \in MapOf(PageIds, Slot)
        BY <2>1 DEF Disk
      <4>. QED  BY <2>1, <4>1, MapType DEF DenseDisk, Allocated
    <3>5. disk.file \in [Slot -> Contents]
      BY <2>1 DEF Disk
    <3>. HIDE DEF d
    <3>. QED  BY <1>3, <1>4, <1>5, <2>2, <3>1, <3>2, <3>3, <3>4, <3>5 DEF ImagesAre, Allocated
  <2>3. CASE ~is_dirty[f]
    BY <1>2, <1>3, <1>4, <2>3 DEF ImagesAre, Allocated
  <2>. QED  BY <2>2, <2>3
<1>7. /\ Resident' = Resident \ {id}
      /\ \A p \in Resident \ {id} : page_table'[p] = page_table[p] /\ page_table[p] # f
  BY <1>1, <1>2 DEF Resident, Erase, Restrict, f
<1>8. stored' = [stored EXCEPT ![id] = IF id \in marked THEN view[id] ELSE @]
  <2>1. stored' = [p \in Allocated(disk) |-> disk'.file[p]]
    BY <1>3, <1>6 DEF ImagesAre
  <2>. QED  BY <1>3, <1>6, <2>1 DEF ImagesAre
<1>9. view' = [view EXCEPT ![id] = IF id \in marked THEN @ ELSE stored[id]]
  <2>1. view' = [p \in Allocated(disk) |-> Image(p)']
    BY <1>3, <1>6 DEF ImagesAre
  <2>2. ASSUME NEW p \in Allocated(disk)
        PROVE  Image(p)' = IF p = id /\ id \notin marked THEN stored[id] ELSE view[p]
    <3>1. CASE p \in Resident \ {id}
      <4>1. Image(p)' = frames[page_table[p]]
        BY <1>2, <1>7, <3>1 DEF Image
      <4>. QED  BY <1>3, <3>1, <4>1 DEF ImagesAre, Image
    <3>2. CASE p \notin Resident \ {id}
      <4>1. Image(p)' = IF p = id /\ id \in marked THEN view[id] ELSE stored[p]
        BY <1>6, <1>7, <3>2 DEF Image
      <4>2. p # id => view[p] = stored[p]
        BY <1>3, <3>2 DEF ImagesAre, Image
      <4>. QED  BY <4>1, <4>2
    <3>. QED  BY <3>1, <3>2
  <2>. QED  BY <1>3, <2>1, <2>2 DEF ImagesAre
<1>10. marked' = marked \ {id}
  <2>1. \A p \in Resident \ {id} : is_dirty'[page_table'[p]] = is_dirty[page_table[p]]
    BY <1>1, <1>2, <1>7
  <2>2. marked' = {p \in Resident \ {id} : is_dirty'[page_table'[p]]}
    BY <1>7 DEF marked
  <2>. QED  BY <2>1, <2>2 DEF marked
<1>11. Cache!Evict(id)
  <2>1. known' = known
    BY <1>6 DEF known
  <2>. QED  BY <1>3, <1>8, <1>9, <1>10, <2>1
            DEF ImagesAre, Cache!Evict, Cache!Pages, Cache!Seen, Cache!Written
<1>. QED  BY <1>3, <1>11 DEF ImagesAre, Cache!Next, Cache!Pages

(* The images a reopened file shows are those in the slots of the pages    *)
(* its header knows.                                                       *)
LEMMA ReopenImages ==
  ASSUME IInv', NEW d \in Disk, Reopen(d)
  PROVE  /\ view' = [p \in DOMAIN d.header.pages_table |-> d.file[p]]
         /\ stored' = [p \in DOMAIN d.header.pages_table |-> d.file[p]]
         /\ marked' = {} /\ known' = DOMAIN d.header.pages_table
<1>1. /\ disk' = loadMetaData(d) /\ page_table' = EmptyMap
  BY DEF Reopen
<1>2. /\ loadMetaData(d).file = d.file /\ loadMetaData(d).header = d.header
      /\ loadMetaData(d).pages_table = d.header.pages_table
  BY DEF loadMetaData, Disk
<1>3. /\ disk'.file = d.file /\ disk'.header = d.header
      /\ Allocated(disk)' = DOMAIN d.header.pages_table
  BY <1>1, <1>2 DEF Allocated
<1>4. Resident' = {}
  BY <1>1 DEF Resident, EmptyMap
<1>5. marked' = {} /\ known' = DOMAIN d.header.pages_table
  BY <1>3, <1>4 DEF marked, known
<1>6. ImagesAre'
  BY ImagesNext
<1>7. \A p \in Allocated(disk)' : Image(p)' = d.file[p]
  BY <1>3, <1>4 DEF Image
<1>8. view' = [p \in Allocated(disk)' |-> Image(p)']
  BY <1>6 DEF ImagesAre
<1>9. stored' = [p \in Allocated(disk)' |-> d.file[p]]
  BY <1>3, <1>6 DEF ImagesAre
<1>. QED  BY <1>3, <1>5, <1>7, <1>8, <1>9

(* What ~BufferPoolManager writes: the frame of every marked page.         *)
LEMMA FlushedImages ==
  ASSUME IInv
  PROVE  \A p \in Allocated(disk) :
           FlushedFile[p] = IF p \in marked THEN view[p] ELSE stored[p]
<1>. TAKE p \in Allocated(disk)
<1>1. ImagesAre /\ p \in Slot
  <2>1. disk \in Disk /\ DenseDisk(disk)
    BY DEF IInv, TypeOK, DirectoryDense
  <2>2. disk.pages_table \in MapOf(PageIds, Slot)
    BY <2>1 DEF Disk
  <2>. QED  BY <2>1, <2>2, MapType, Images DEF DenseDisk, Allocated
<1>2. DirtyFrames(p) = {f \in FrameId : is_dirty[f] /\ pages_ids[f] = p}
  <2>1. \A f \in FrameId : pages_ids[f] # -1 => pages_ids[f] \in Resident
    BY DEF IInv, TableMatchesFrames
  <2>2. \A q \in Resident : disk.pages_table[q] = q
    BY DEF IInv, DirectoryDense, DenseDisk
  <2>3. p # -1
    BY <1>1, SlotAssumption DEF Slot
  <2>. QED  BY <2>1, <2>2, <2>3 DEF DirtyFrames
<1>3. \A q \in Resident : page_table[q] \in FrameId
  BY MapType DEF IInv, TypeOK, Resident
<1>4. FlushedFile[p] = IF DirtyFrames(p) # {} THEN frames[CHOOSE f \in DirtyFrames(p) : TRUE]
                       ELSE disk.file[p]
  BY <1>1 DEF FlushedFile
<1>5. CASE p \in marked
  <2>1. DirtyFrames(p) = {page_table[p]}
    <3>1. p \in Resident /\ is_dirty[page_table[p]] /\ pages_ids[page_table[p]] = p
      BY <1>5 DEF marked, IInv, TableMatchesFrames
    <3>2. \A f \in FrameId : pages_ids[f] = p => f = page_table[p]
      BY <1>1, SlotAssumption DEF IInv, TableMatchesFrames, Slot
    <3>. QED  BY <1>2, <1>3, <3>1, <3>2
  <2>2. (CHOOSE f \in DirtyFrames(p) : TRUE) = page_table[p]
    BY <2>1
  <2>3. view[p] = frames[page_table[p]]
    BY <1>1, <1>5 DEF ImagesAre, Image
  <2>. QED  BY <1>4, <1>5, <2>1, <2>2, <2>3
<1>6. CASE p \notin marked
  <2>1. DirtyFrames(p) = {}
    <3>1. \A f \in FrameId : pages_ids[f] = p => p \in Resident /\ page_table[p] = f
      BY <1>1, SlotAssumption DEF IInv, TableMatchesFrames, Slot
    <3>. QED  BY <1>2, <1>6, <3>1 DEF marked
  <2>. QED  BY <1>1, <1>4, <1>6, <2>1 DEF ImagesAre
<1>. QED  BY <1>5, <1>6

(* A clean close, and the constructors on what it left.                    *)
LEMMA RestartRefines ==
  ASSUME IInv, IInv', Restart
  PROVE  Cache!Next
<1>. DEFINE c == [disk EXCEPT !.file = FlushedFile]
            d == saveMetaData(c)
<1>1. disk \in Disk /\ frames \in [FrameId -> Contents] /\ ImagesAre
  BY Images DEF IInv, TypeOK
<1>2. FlushedFile \in [Slot -> Contents]
  <2>1. disk.file \in [Slot -> Contents]
    BY <1>1 DEF Disk
  <2>2. \A s \in Slot : DirtyFrames(s) \subseteq FrameId
    BY DEF DirtyFrames
  <2>. QED  BY <1>1, <2>1, <2>2 DEF FlushedFile
<1>3. c \in Disk /\ c.file = FlushedFile /\ c.pages_table = disk.pages_table
  BY <1>1, <1>2 DEF Disk
<1>4. Reopen(d)
  BY DEF Restart
<1>. HIDE DEF c
<1>5. d \in Disk /\ d.file = FlushedFile /\ d.header.pages_table = disk.pages_table
  BY <1>3 DEF saveMetaData, Disk, Header
<1>6. /\ view' = [p \in Allocated(disk) |-> FlushedFile[p]]
      /\ stored' = [p \in Allocated(disk) |-> FlushedFile[p]]
      /\ marked' = {} /\ known' = Allocated(disk)
  BY <1>4, <1>5, ReopenImages DEF Allocated
<1>7. [p \in Allocated(disk) |-> FlushedFile[p]] = Cache!Flushed
  BY <1>1, FlushedImages DEF ImagesAre, Cache!Flushed, Cache!Pages
<1>8. Cache!Shutdown
  BY <1>1, <1>6, <1>7 DEF ImagesAre, Cache!Shutdown, Cache!Pages
<1>. QED  BY <1>8 DEF Cache!Next

(* A crash keeps the slots, and the pages of the header.                   *)
LEMMA CrashRefines ==
  ASSUME IInv, IInv', Crash
  PROVE  Cache!Next
<1>1. disk \in Disk /\ ImagesAre /\ Reopen(disk)
  BY Images DEF IInv, TypeOK, Crash
<1>2. /\ view' = [p \in known |-> disk.file[p]] /\ stored' = [p \in known |-> disk.file[p]]
      /\ marked' = {} /\ known' = known
  BY <1>1, ReopenImages DEF known
<1>3. [p \in known |-> disk.file[p]] = Cache!Restrict(stored, known)
  BY <1>1 DEF ImagesAre, Cache!Restrict
<1>4. Cache!Crash
  BY <1>2, <1>3 DEF Cache!Crash
<1>. QED  BY <1>4 DEF Cache!Next

---------------------------------------------------------------------------
(* The theorem.                                                            *)

LEMMA InitRefines == Init => Cache!Init
<1>. SUFFICES ASSUME Init PROVE Cache!Init
  OBVIOUS
<1>1. disk = NewDisk /\ page_table = EmptyMap
  BY DEF Init
<1>2. /\ disk.pages_table = EmptyMap /\ disk.header.pages_table = EmptyMap
  BY <1>1 DEF NewDisk
<1>3. Allocated(disk) = {} /\ Resident = {} /\ known = {}
  BY <1>1, <1>2 DEF Allocated, Resident, known, EmptyMap
<1>4. view = [p \in {} |-> {}] /\ stored = [p \in {} |-> {}] /\ marked = {}
  BY <1>3 DEF view, stored, marked
<1>. QED  BY <1>3, <1>4 DEF Cache!Init, Cache!EmptyMap

LEMMA StepRefines == IInv /\ IInv' /\ [Next]_vars => [Cache!Next]_Cache!vars
<1>. SUFFICES ASSUME IInv, IInv', [Next]_vars PROVE [Cache!Next]_Cache!vars
  OBVIOUS
<1>1. CASE newPage
  BY <1>1, newPageRefines
<1>2. ASSUME NEW id \in Slot, fetchPage(id) PROVE [Cache!Next]_Cache!vars
  <2>1. CASE FetchHit(id)
    BY <2>1, FetchHitRefines
  <2>2. CASE FetchMiss(id)
    BY <1>2, <2>2, FetchMissRefines DEF fetchPage
  <2>. QED  BY <1>2, <2>1, <2>2 DEF fetchPage
<1>3. ASSUME NEW i \in DOMAIN touched, NEW c \in Contents \ {ZeroPage}, Store(i, c)
      PROVE  [Cache!Next]_Cache!vars
  BY <1>3, StoreRefines
<1>4. ASSUME NEW id \in Slot, markAsDirty(id) PROVE [Cache!Next]_Cache!vars
  BY <1>4, markAsDirtyRefines
<1>5. ASSUME NEW id \in Slot, NEW flag \in BOOLEAN, unpinPage(id, flag)
      PROVE  [Cache!Next]_Cache!vars
  BY <1>5, unpinPageRefines
<1>6. ASSUME NEW id \in Slot, DropPage(id) PROVE [Cache!Next]_Cache!vars
  BY <1>6, DropPageRefines
<1>7. CASE Restart
  BY <1>7, RestartRefines
<1>8. CASE Crash
  BY <1>8, CrashRefines
<1>9. CASE UNCHANGED vars
  BY <1>9 DEF vars, poolVars, Cache!vars, view, stored, marked, known, Allocated, Resident
<1>. QED  BY <1>1, <1>2, <1>3, <1>4, <1>5, <1>6, <1>7, <1>8, <1>9 DEF Next

(* Whatever the sizes of the pool and of the file: the pool shows its      *)
(* callers the pages they wrote, writes a marked page before it forgets    *)
(* it, and forgets one page at most in a call (BufferPoolManager.c++).     *)
THEOREM Refinement == Spec => ImplementsPageCache
<1>1. Init => Cache!Init
  BY InitRefines
<1>2. IInv /\ IInv' /\ [Next]_vars => [Cache!Next]_Cache!vars
  BY StepRefines
<1>. QED  BY <1>1, <1>2, Invariance, PTL DEF Spec, ImplementsPageCache, Cache!Spec
=============================================================================
