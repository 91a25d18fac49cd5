--------------------------- MODULE DiskUnit_proofs ---------------------------
(***************************************************************************)
(* Proofs about the disk manager on its own, for every size of the file    *)
(* and whatever the calls: the inductive invariant IInv of DiskUnit, and   *)
(* from it the invariants TLC checks on a file of three slots.             *)
(***************************************************************************)
EXTENDS DiskUnit, CollectionLemmas

---------------------------------------------------------------------------
(* The directory and the free list, as counted sets of slots.              *)

(* What one copy of the directory must satisfy.                            *)
Sound(h) ==
  /\ h.pages_table \in MapOf(PageIds, Slot)
  /\ h.deleted_slots \in Seq(Slot)
  /\ h.capacity \in Nat \ {0}
  /\ \A p \in DOMAIN h.pages_table : h.pages_table[p] < h.capacity
  /\ \A i \in DOMAIN h.deleted_slots : h.deleted_slots[i] < h.capacity

(* There is room in the file for one more page to be entered.              *)
Spacious(h) ==
  /\ IsFiniteSet(DOMAIN h.pages_table)
  /\ Cardinality(DOMAIN h.pages_table) + Len(h.deleted_slots) + 1 <= h.capacity
  /\ h.capacity # 1

(* Entering a page in the directory.                                       *)
LEMMA EnterSlot ==
  ASSUME NEW m \in MapOf(PageIds, Slot), NEW k \in PageIds, NEW v \in Slot
  PROVE  /\ Put(m, k, v) \in MapOf(PageIds, Slot)
         /\ DOMAIN Put(m, k, v) = DOMAIN m \cup {k}
         /\ Put(m, k, v)[k] = v
         /\ \A x \in DOMAIN m : x # k => Put(m, k, v)[x] = m[x]
BY PutType

(* Constructing a page: it goes in the slot after as many as there are     *)
(* pages, in a file that is doubled when that is its end.                  *)
LEMMA ConstructCounted ==
  ASSUME NEW d, Sound(d), Accounted(d), d.deleted_slots = << >>, NewId(d) \in Slot
  PROVE  /\ IsFiniteSet(Allocated(d) \cup {NewId(d)})
         /\ Cardinality(Allocated(d) \cup {NewId(d)}) + 1 <= resizedCapacity(d)
         /\ resizedCapacity(d) \in Nat \ {0, 1}
         /\ NewId(d) < resizedCapacity(d)
         /\ d.capacity <= resizedCapacity(d)
<1>. DEFINE c == Cardinality(Allocated(d))
<1>1. IsFiniteSet(Allocated(d)) /\ c \in Nat /\ d.capacity \in Nat \ {0}
  BY FS_CardinalityType DEF Accounted, Allocated, Sound
<1>2. c <= d.capacity /\ (d.capacity = 1 => c = 0)
  <2>1. Len(d.deleted_slots) = 0
    OBVIOUS
  <2>2. c + 0 <= d.capacity
    BY <2>1 DEF Accounted, Allocated
  <2>3. d.capacity = 1 => c = 0
    BY FS_EmptySet DEF Accounted, Allocated
  <2>. QED  BY <1>1, <2>2, <2>3
<1>3. /\ IsFiniteSet(Allocated(d) \cup {NewId(d)})
      /\ Cardinality(Allocated(d) \cup {NewId(d)}) <= c + 1
      /\ Cardinality(Allocated(d) \cup {NewId(d)}) \in Nat
  <2>1. /\ IsFiniteSet(Allocated(d) \cup {NewId(d)})
        /\ Cardinality(Allocated(d) \cup {NewId(d)}) =
             IF NewId(d) \in Allocated(d) THEN c ELSE c + 1
    BY <1>1, FS_AddElement
  <2>. HIDE DEF c
  <2>. QED  BY <1>1, <2>1
<1>4. NewId(d) = c + 1
  BY DEF NewId
<1>5. /\ c + 2 <= resizedCapacity(d) /\ resizedCapacity(d) \in Nat \ {0, 1}
      /\ d.capacity <= resizedCapacity(d)
  <2>. HIDE DEF c
  <2>. QED  BY <1>1, <1>2, <1>4 DEF resizedCapacity
<1>. HIDE DEF c
<1>. QED  BY <1>1, <1>3, <1>4, <1>5

(* Allocating, whichever way: the slot is inside the file, and there is    *)
(* room for the page that is to be entered.                                *)
LEMMA AllocateSound ==
  ASSUME NEW d \in Disk, Sound(d), Accounted(d), HasRoom(d)
  PROVE  /\ allocatedSlot(d) \in Slot /\ allocatedSlot(d) < allocatePage(d).capacity
         /\ allocatePage(d) \in Disk /\ allocatePage(d).header = d.header
         /\ Sound(allocatePage(d)) /\ Spacious(allocatePage(d))
<1>. DEFINE e == allocatePage(d)
<1>. USE SlotAssumption, PageIdAssumption, ContentsAssumption
<1>0. /\ IsFiniteSet(Allocated(d)) /\ Cardinality(Allocated(d)) \in Nat
      /\ d.pages_table \in MapOf(PageIds, Slot) /\ d.deleted_slots \in Seq(Slot)
      /\ d.capacity \in Nat \ {0} /\ d.file \in [Slot -> Contents] /\ d.header \in Header
  BY FS_CardinalityType DEF Accounted, Allocated, Sound, Disk
<1>1. CASE d.deleted_slots # << >>
  <2>. DEFINE s == d.deleted_slots
  <2>1. /\ Last(s) \in Slot /\ Last(s) \in Range(s)
        /\ Front(s) \in Seq(Slot) /\ Len(Front(s)) = Len(s) - 1
        /\ \A j \in 1 .. Len(s) - 1 : Front(s)[j] = s[j]
    BY <1>0, <1>1, FrontElements
  <2>2. /\ e = [d EXCEPT !.deleted_slots = Front(s)]
        /\ allocatedSlot(d) = Last(s)
    BY <1>1 DEF allocatePage, allocatedSlot
  <2>3. Len(s) \in Nat \ {0} /\ DOMAIN s = 1 .. Len(s)
    BY <1>0, <1>1
  <2>4. /\ e \in Disk /\ e.header = d.header /\ e.pages_table = d.pages_table
        /\ e.deleted_slots = Front(s) /\ e.capacity = d.capacity
    BY <2>1, <2>2 DEF Disk
  <2>5. Last(s) < d.capacity
    BY <2>1 DEF Sound, Range
  <2>6. \A i \in DOMAIN Front(s) : i \in DOMAIN s /\ Front(s)[i] = s[i]
    BY <2>1, <2>3
  <2>7. Sound(e)
    BY <1>0, <2>1, <2>4, <2>6 DEF Sound
  <2>8. Spacious(e)
    <3>1. Cardinality(Allocated(d)) + Len(s) <= d.capacity /\ d.capacity # 1
      BY <1>1 DEF Accounted, Allocated
    <3>2. Cardinality(Allocated(d)) + Len(Front(s)) + 1 <= d.capacity
      BY <1>0, <2>1, <2>3, <3>1
    <3>. QED  BY <1>0, <2>4, <3>1, <3>2 DEF Spacious, Allocated
  <2>. QED  BY <2>1, <2>2, <2>4, <2>5, <2>7, <2>8
<1>2. CASE d.deleted_slots = << >>
  <2>. DEFINE n == NewId(d)
              t == Put(d.pages_table, n, n)
              r == resizedCapacity(d)
  <2>1. n \in Slot /\ n \in PageIds
    BY <1>2 DEF HasRoom, Slot
  <2>2. /\ IsFiniteSet(Allocated(d) \cup {n})
        /\ Cardinality(Allocated(d) \cup {n}) + 1 <= r
        /\ r \in Nat \ {0, 1} /\ n < r /\ d.capacity <= r
    BY <1>2, <2>1, ConstructCounted
  <2>3. e = [d EXCEPT !.capacity = r, !.file[n] = FreshPage, !.pages_table = t]
    BY <1>2 DEF allocatePage
  <2>4. allocatedSlot(d) = n
    BY <1>2 DEF allocatedSlot
  <2>5. /\ t \in MapOf(PageIds, Slot) /\ DOMAIN t = DOMAIN d.pages_table \cup {n}
        /\ t[n] = n /\ \A p \in DOMAIN d.pages_table : p # n => t[p] = d.pages_table[p]
    <3>. HIDE SlotAssumption, PageIdAssumption, ContentsAssumption
    <3>1. d.pages_table \in MapOf(PageIds, Slot) /\ n \in PageIds /\ n \in Slot
      BY <1>0, <2>1
    <3>. HIDE DEF n
    <3>. QED  BY <3>1, EnterSlot
  <2>. HIDE DEF n, t, r
  <2>6. /\ e \in Disk /\ e.header = d.header /\ e.pages_table = t
        /\ e.deleted_slots = << >> /\ e.capacity = r
    <3>1. [d.file EXCEPT ![n] = FreshPage] \in [Slot -> Contents]
      BY <1>0
    <3>2. e = [d EXCEPT !.capacity = r, !.file = [d.file EXCEPT ![n] = FreshPage],
                        !.pages_table = t]
      BY <2>3 DEF Disk
    <3>. HIDE DEF e
    <3>3. e \in Disk
      BY <1>0, <2>2, <2>5, <3>1, <3>2 DEF Disk
    <3>. QED  BY <1>2, <3>2, <3>3 DEF Disk
  <2>7. \A p \in DOMAIN t : t[p] < r
    <3>1. \A p \in DOMAIN d.pages_table : d.pages_table[p] < d.capacity
      BY DEF Sound
    <3>2. \A p \in DOMAIN d.pages_table : d.pages_table[p] \in Int
      BY <1>0, MapType DEF Slot
    <3>. QED  BY <1>0, <2>2, <2>5, <3>1, <3>2
  <2>8. Sound(e)
    BY <2>2, <2>5, <2>6, <2>7 DEF Sound
  <2>9. Spacious(e)
    <3>1. IsFiniteSet(DOMAIN t) /\ Cardinality(DOMAIN t) + 1 <= r /\ Cardinality(DOMAIN t) \in Nat
      BY <2>2, <2>5, FS_CardinalityType DEF Allocated
    <3>2. Len(e.deleted_slots) = 0
      BY <2>6
    <3>3. Cardinality(DOMAIN t) + 0 + 1 <= r
      BY <3>1
    <3>. QED  BY <2>2, <2>6, <3>1, <3>2, <3>3 DEF Spacious
  <2>. QED  BY <2>1, <2>2, <2>4, <2>6, <2>8, <2>9
<1>. QED  BY <1>1, <1>2

(* What writePage does once it has its slot.                               *)
entered(d, id, slot, c) ==
  [d EXCEPT !.file[slot] = c, !.pages_table = Put(d.pages_table, id, slot)]

(* A directory with room for one more page enters one under any id, in any *)
(* slot of the file.                                                       *)
LEMMA EnterSound ==
  ASSUME NEW d \in Disk, Sound(d), Spacious(d),
         NEW id \in PageIds, NEW slot \in Slot, slot < d.capacity, NEW c \in Contents
  PROVE  /\ entered(d, id, slot, c) \in Disk /\ entered(d, id, slot, c).header = d.header
         /\ Sound(entered(d, id, slot, c)) /\ Accounted(entered(d, id, slot, c))
<1>. DEFINE e == entered(d, id, slot, c)
            t == Put(d.pages_table, id, slot)
            f == [d.file EXCEPT ![slot] = c]
<1>1. /\ t \in MapOf(PageIds, Slot) /\ DOMAIN t = DOMAIN d.pages_table \cup {id}
      /\ t[id] = slot
      /\ \A p \in DOMAIN d.pages_table : p # id => t[p] = d.pages_table[p]
  <2>1. d.pages_table \in MapOf(PageIds, Slot)
    BY DEF Disk
  <2>. HIDE SlotAssumption, PageIdAssumption, ContentsAssumption
  <2>. QED  BY <2>1, EnterSlot
<1>2. f \in [Slot -> Contents] /\ e = [d EXCEPT !.file = f, !.pages_table = t]
  BY DEF Disk, entered
<1>. HIDE DEF t, f, e
<1>3. /\ e \in Disk /\ e.header = d.header /\ e.pages_table = t
      /\ e.deleted_slots = d.deleted_slots /\ e.capacity = d.capacity
  BY <1>1, <1>2 DEF Disk
<1>4. Sound(e)
  BY <1>1, <1>3 DEF Sound
<1>5. /\ IsFiniteSet(DOMAIN t)
      /\ Cardinality(DOMAIN t) \in Nat
      /\ Cardinality(DOMAIN t) <= Cardinality(DOMAIN d.pages_table) + 1
  <2>1. /\ IsFiniteSet(DOMAIN d.pages_table)
        /\ Cardinality(DOMAIN d.pages_table) \in Nat
    BY FS_CardinalityType DEF Spacious
  <2>2. /\ IsFiniteSet(DOMAIN t)
        /\ Cardinality(DOMAIN t) = IF id \in DOMAIN d.pages_table
             THEN Cardinality(DOMAIN d.pages_table) ELSE Cardinality(DOMAIN d.pages_table) + 1
    BY <1>1, <2>1, FS_AddElement
  <2>. QED  BY <2>1, <2>2
<1>6. Accounted(e)
  <2>1. /\ Cardinality(DOMAIN d.pages_table) \in Nat /\ Len(d.deleted_slots) \in Nat
        /\ d.capacity \in Nat
    BY FS_CardinalityType DEF Spacious, Sound
  <2>2. /\ Cardinality(DOMAIN d.pages_table) + Len(d.deleted_slots) + 1 <= d.capacity
        /\ d.capacity # 1
    BY DEF Spacious
  <2>3. Cardinality(DOMAIN t) + Len(d.deleted_slots) <= d.capacity
    BY <1>5, <2>1, <2>2
  <2>. QED  BY <1>3, <1>5, <2>2, <2>3 DEF Accounted
<1>. QED  BY <1>3, <1>4, <1>6 DEF e

LEMMA WriteSound ==
  ASSUME NEW d \in Disk, Sound(d), Accounted(d), NEW id \in PageIds, NEW c \in Contents,
         id \in Allocated(d) \/ HasRoom(d)
  PROVE  LET e == writePage(d, id, c)
         IN  e \in Disk /\ Sound(e) /\ Accounted(e) /\ e.header = d.header
<1>. DEFINE e == writePage(d, id, c)
<1>1. CASE id \in Allocated(d)
  <2>. DEFINE slot == d.pages_table[id]
              t == Put(d.pages_table, id, slot)
              f == [d.file EXCEPT ![slot] = c]
  <2>1. slot \in Slot
    BY <1>1, MapType DEF Sound, Allocated
  <2>2. e = [d EXCEPT !.file[slot] = c, !.pages_table = t]
    BY <1>1 DEF writePage
  <2>3. f \in [Slot -> Contents] /\ e = [d EXCEPT !.file = f, !.pages_table = t]
    BY <2>1, <2>2 DEF Disk
  <2>4. t = d.pages_table
    <3>1. d.pages_table \in [DOMAIN d.pages_table -> Slot]
      BY MapType DEF Sound
    <3>2. DOMAIN d.pages_table \cup {id} = DOMAIN d.pages_table
      BY <1>1 DEF Allocated
    <3>. QED  BY <3>1, <3>2 DEF Put
  <2>. HIDE DEF t, f, e
  <2>5. /\ e \in Disk /\ e.header = d.header /\ e.pages_table = d.pages_table
        /\ e.deleted_slots = d.deleted_slots /\ e.capacity = d.capacity
    BY <2>3, <2>4 DEF Disk
  <2>6. Sound(e) /\ Accounted(e)
    BY <2>5 DEF Sound, Accounted
  <2>. QED  BY <2>5, <2>6 DEF e
<1>2. CASE id \notin Allocated(d)
  <2>. DEFINE a == allocatePage(d)
              slot == allocatedSlot(d)
  <2>1. /\ slot \in Slot /\ slot < a.capacity /\ a \in Disk /\ a.header = d.header
        /\ Sound(a) /\ Spacious(a)
    BY <1>2, AllocateSound
  <2>2. e = entered(a, id, slot, c)
    BY <1>2 DEF writePage, entered
  <2>. HIDE DEF a, slot, e
  <2>3. e \in Disk /\ Sound(e) /\ Accounted(e) /\ e.header = a.header
    BY <2>1, <2>2, EnterSound
  <2>. QED  BY <2>1, <2>3 DEF e
<1>. QED  BY <1>1, <1>2

(* Taking a page out of the directory.                                     *)
LEMMA LeaveSlot ==
  ASSUME NEW m \in MapOf(PageIds, Slot), NEW k \in PageIds
  PROVE  /\ Erase(m, k) \in MapOf(PageIds, Slot)
         /\ DOMAIN Erase(m, k) = DOMAIN m \ {k}
         /\ \A x \in DOMAIN m : x # k => Erase(m, k)[x] = m[x]
BY EraseType

LEMMA DeleteSound ==
  ASSUME NEW d \in Disk, Sound(d), Accounted(d), NEW id \in PageIds
  PROVE  LET e == deletePage(d, id)
         IN  e \in Disk /\ Sound(e) /\ Accounted(e) /\ e.header = d.header
<1>. DEFINE e == deletePage(d, id)
<1>1. CASE id \in Allocated(d)
  <2>. DEFINE slot == d.pages_table[id]
              t == Erase(d.pages_table, id)
              l == Append(d.deleted_slots, slot)
  <2>1. slot \in Slot /\ slot < d.capacity
    BY <1>1, MapType DEF Sound, Allocated
  <2>2. /\ t \in MapOf(PageIds, Slot) /\ DOMAIN t = DOMAIN d.pages_table \ {id}
        /\ \A p \in DOMAIN d.pages_table : p # id => t[p] = d.pages_table[p]
    BY LeaveSlot DEF Sound
  <2>3. /\ l \in Seq(Slot) /\ Len(l) = Len(d.deleted_slots) + 1
        /\ Len(d.deleted_slots) \in Nat
        /\ \A i \in DOMAIN l : l[i] < d.capacity
    <3>1. /\ d.deleted_slots \in Seq(Slot)
          /\ \A i \in DOMAIN d.deleted_slots : d.deleted_slots[i] < d.capacity
      BY DEF Sound
    <3>. HIDE DEF slot
    <3>2. /\ l \in Seq(Slot) /\ Len(l) = Len(d.deleted_slots) + 1
          /\ l[Len(d.deleted_slots) + 1] = slot
          /\ \A i \in 1 .. Len(d.deleted_slots) : l[i] = d.deleted_slots[i]
      BY <2>1, <3>1, AppendProperties
    <3>. HIDE DEF l
    <3>3. \A i \in DOMAIN l : i = Len(d.deleted_slots) + 1 \/ i \in DOMAIN d.deleted_slots
      BY <3>1, <3>2
    <3>. QED  BY <2>1, <3>1, <3>2, <3>3
  <2>4. e = [d EXCEPT !.deleted_slots = l, !.pages_table = t]
    BY <1>1 DEF deletePage
  <2>. HIDE DEF t, l, e, slot
  <2>5. /\ e \in Disk /\ e.header = d.header /\ e.pages_table = t
        /\ e.deleted_slots = l /\ e.capacity = d.capacity
    BY <2>2, <2>3, <2>4 DEF Disk
  <2>6. Sound(e)
    BY <2>2, <2>3, <2>5 DEF Sound
  <2>7. Accounted(e)
    <3>1. /\ IsFiniteSet(DOMAIN d.pages_table) /\ Cardinality(DOMAIN d.pages_table) \in Nat
          /\ Cardinality(DOMAIN d.pages_table) + Len(d.deleted_slots) <= d.capacity
          /\ id \in DOMAIN d.pages_table /\ d.capacity # 1
      BY <1>1, FS_CardinalityType DEF Accounted, Allocated
    <3>2. IsFiniteSet(DOMAIN t) /\ Cardinality(DOMAIN t) = Cardinality(DOMAIN d.pages_table) - 1
      <4>. DEFINE S == DOMAIN d.pages_table
      <4>1. IsFiniteSet(S) /\ id \in S
        BY <3>1
      <4>. HIDE DEF S
      <4>2. IsFiniteSet(S \ {id}) /\ Cardinality(S \ {id}) = Cardinality(S) - 1
        BY <4>1, FS_RemoveElement
      <4>. QED  BY <2>2, <4>2 DEF S
    <3>3. Cardinality(DOMAIN t) + Len(l) <= d.capacity
      BY <2>3, <3>1, <3>2
    <3>. QED  BY <2>5, <3>1, <3>2, <3>3 DEF Accounted
  <2>. QED  BY <2>5, <2>6, <2>7 DEF e
<1>2. CASE id \notin Allocated(d)
  BY <1>2 DEF deletePage
<1>. QED  BY <1>1, <1>2

(* The header holds what the directory was: saving and loading copy it.    *)
LEMMA SaveSound ==
  ASSUME NEW d \in Disk, Sound(d), Accounted(d)
  PROVE  LET e == saveMetaData(d)
         IN  /\ e \in Disk /\ Sound(e) /\ Accounted(e)
             /\ Sound(e.header) /\ Accounted(e.header) /\ e.file = d.file
<1>. DEFINE e == saveMetaData(d)
<1>1. /\ e \in Disk /\ e.pages_table = d.pages_table /\ e.deleted_slots = d.deleted_slots
      /\ e.capacity = d.capacity /\ e.file = d.file
      /\ e.header.pages_table = d.pages_table /\ e.header.deleted_slots = d.deleted_slots
      /\ e.header.capacity = d.capacity
  BY DEF saveMetaData, Disk, Header
<1>. HIDE DEF e
<1>2. Sound(e) /\ Accounted(e) /\ Sound(e.header) /\ Accounted(e.header)
  BY <1>1 DEF Sound, Accounted
<1>. QED  BY <1>1, <1>2 DEF e

LEMMA LoadSound ==
  ASSUME NEW d \in Disk, Sound(d.header), Accounted(d.header)
  PROVE  LET e == loadMetaData(d)
         IN  /\ e \in Disk /\ Sound(e) /\ Accounted(e) /\ e.header = d.header
             /\ e.file = d.file
<1>. DEFINE e == loadMetaData(d)
<1>1. /\ e \in Disk /\ e.header = d.header /\ e.pages_table = d.header.pages_table
      /\ e.deleted_slots = d.header.deleted_slots /\ e.capacity = d.header.capacity
      /\ e.file = d.file
  BY DEF loadMetaData, Disk, Header
<1>. HIDE DEF e
<1>2. Sound(e) /\ Accounted(e)
  BY <1>1 DEF Sound, Accounted
<1>. QED  BY <1>1, <1>2 DEF e

---------------------------------------------------------------------------
(* A caller that enters ids in order.                                      *)

(* The ids of a dense directory are slots.                                 *)
LEMMA DenseIds ==
  ASSUME NEW d, DenseDisk(d)
  PROVE  Allocated(d) \subseteq Slot
BY SlotAssumption DEF DenseDisk, Slot

(* The next page to construct is new, and its slot is its id.              *)
LEMMA NextSlot ==
  ASSUME NEW d, DenseDisk(d), HasRoom(d)
  PROVE  /\ NewId(d) \in Slot \ Allocated(d)
         /\ allocatedSlot(d) = NewId(d) /\ d.deleted_slots = << >>
         /\ Allocated(d) \cup {NewId(d)} = 1 .. NewId(d) /\ NewId(d) \in 0 .. MaxSlot
<1>1. PICK n \in 0 .. MaxSlot : Allocated(d) = 1 .. n
  BY DEF DenseDisk
<1>2. NewId(d) = n + 1
  <2>1. Cardinality(1 .. n) = n
    BY SlotAssumption, FS_Interval
  <2>. QED  BY <1>1, <2>1 DEF NewId
<1>3. d.deleted_slots = << >> /\ NewId(d) \in Slot
  BY DEF DenseDisk, HasRoom
<1>. QED  BY <1>1, <1>2, <1>3, SlotAssumption DEF allocatedSlot, Slot

(* A directory stays dense when one of its pages, or the next one, is      *)
(* entered in the slot of its number.                                      *)
LEMMA EnteredDense ==
  ASSUME NEW d, DenseDisk(d), NEW n,
         n \in Allocated(d) \/ (HasRoom(d) /\ n = NewId(d)),
         NEW e, e.pages_table = Put(d.pages_table, n, n), e.header = d.header,
         e.deleted_slots = << >>
  PROVE  DenseDisk(e) /\ Allocated(e) = Allocated(d) \cup {n}
<1>1. Allocated(e) = Allocated(d) \cup {n}
  BY DEF Allocated, Put
<1>2. \A p \in Allocated(e) : e.pages_table[p] = p
  BY DEF DenseDisk, Allocated, Put
<1>3. \E m \in 0 .. MaxSlot : Allocated(e) = 1 .. m
  <2>1. CASE n \in Allocated(d)
    BY <1>1, <2>1 DEF DenseDisk
  <2>2. CASE HasRoom(d) /\ n = NewId(d)
    BY <1>1, <2>2, NextSlot
  <2>. QED  BY <2>1, <2>2
<1>. QED  BY <1>1, <1>2, <1>3 DEF DenseDisk

LEMMA AllocateDense ==
  ASSUME NEW d \in Disk, DenseDisk(d), HasRoom(d)
  PROVE  /\ DenseDisk(allocatePage(d))
         /\ Allocated(allocatePage(d)) = Allocated(d) \cup {NewId(d)}
         /\ allocatePage(d).file = [d.file EXCEPT ![NewId(d)] = FreshPage]
<1>. DEFINE e == allocatePage(d)
            n == NewId(d)
            t == Put(d.pages_table, n, n)
<1>1. d.deleted_slots = << >>
  BY NextSlot
<1>2. e = [d EXCEPT !.capacity = resizedCapacity(d), !.file[n] = FreshPage, !.pages_table = t]
  BY <1>1 DEF allocatePage
<1>. HIDE DEF t, n
<1>3. /\ e.pages_table = t /\ e.header = d.header /\ e.deleted_slots = << >>
      /\ e.file = [d.file EXCEPT ![n] = FreshPage]
  BY <1>1, <1>2 DEF Disk
<1>. HIDE DEF e
<1>4. DenseDisk(e) /\ Allocated(e) = Allocated(d) \cup {n}
  BY <1>3, EnteredDense DEF t, n
<1>. QED  BY <1>3, <1>4 DEF e, n

(* Writing a page of a dense directory, or the next one, writes the slot   *)
(* of its number and no other.                                             *)
LEMMA WriteDense ==
  ASSUME NEW d \in Disk, DenseDisk(d), NEW id, NEW c,
         id \in Allocated(d) \/ (HasRoom(d) /\ id = NewId(d))
  PROVE  LET e == writePage(d, id, c)
         IN  /\ DenseDisk(e) /\ Allocated(e) = Allocated(d) \cup {id}
             /\ e.file[id] = c /\ \A s \in Slot : s # id => e.file[s] = d.file[s]
<1>. DEFINE e == writePage(d, id, c)
            t == Put(d.pages_table, id, id)
<1>1. d.file \in [Slot -> Contents] /\ id \in Slot /\ d.deleted_slots = << >>
  BY NextSlot, DenseIds DEF DenseDisk, Disk
<1>2. /\ e.pages_table = t /\ e.header = d.header /\ e.deleted_slots = << >>
      /\ e.file[id] = c /\ \A s \in Slot : s # id => e.file[s] = d.file[s]
  <2>1. CASE id \in Allocated(d)
    <3>1. e = [d EXCEPT !.file = [d.file EXCEPT ![id] = c], !.pages_table = t]
      BY <2>1 DEF writePage, DenseDisk, Disk
    <3>. HIDE DEF e, t
    <3>. QED  BY <1>1, <3>1 DEF Disk
  <2>2. CASE id \notin Allocated(d)
    <3>. DEFINE a == allocatePage(d)
    <3>1. HasRoom(d) /\ id = NewId(d) /\ allocatedSlot(d) = id
      BY <2>2, NextSlot
    <3>2. a = [d EXCEPT !.capacity = resizedCapacity(d),
                        !.file = [d.file EXCEPT ![id] = FreshPage], !.pages_table = t]
      BY <1>1, <3>1 DEF allocatePage, Disk
    <3>3. Put(t, id, id) = t
      BY DEF Put
    <3>4. e = [a EXCEPT !.file = [a.file EXCEPT ![id] = c], !.pages_table = Put(a.pages_table, id, id)]
      <4>. HIDE DEF t
      <4>1. e = [a EXCEPT !.file[id] = c, !.pages_table = Put(a.pages_table, id, id)]
        BY <2>2, <3>1 DEF writePage
      <4>. HIDE DEF a, e
      <4>. QED  BY <3>2, <4>1 DEF Disk
    <3>. HIDE DEF a, e, t
    <3>5. /\ a.pages_table = t /\ a.header = d.header /\ a.deleted_slots = << >>
          /\ a.file = [d.file EXCEPT ![id] = FreshPage]
      BY <1>1, <3>2 DEF Disk
    <3>6. e.pages_table = t /\ e.header = d.header /\ e.deleted_slots = << >>
      BY <3>2, <3>3, <3>4, <3>5 DEF Disk
    <3>7. e.file = [[d.file EXCEPT ![id] = FreshPage] EXCEPT ![id] = c]
      BY <3>2, <3>4, <3>5 DEF Disk
    <3>. QED  BY <1>1, <3>6, <3>7
  <2>. QED  BY <2>1, <2>2
<1>. HIDE DEF e
<1>3. DenseDisk(e) /\ Allocated(e) = Allocated(d) \cup {id}
  BY <1>2, EnteredDense
<1>. QED  BY <1>2, <1>3 DEF e

(* Saving a dense directory, and opening its file again.                   *)
LEMMA SaveDense ==
  ASSUME NEW d \in Disk, DenseDisk(d)
  PROVE  saveMetaData(d) \in Disk /\ DenseDisk(saveMetaData(d))
<1>1. /\ saveMetaData(d) \in Disk
      /\ saveMetaData(d).pages_table = d.pages_table
      /\ saveMetaData(d).deleted_slots = d.deleted_slots
      /\ saveMetaData(d).header.pages_table = d.pages_table
      /\ saveMetaData(d).header.deleted_slots = d.deleted_slots
  BY DEF saveMetaData, Disk, Header
<1>. QED  BY <1>1 DEF DenseDisk, Allocated

LEMMA LoadDense ==
  ASSUME NEW d \in Disk, DenseDisk(d)
  PROVE  DenseDisk(loadMetaData(d))
<1>1. /\ loadMetaData(d).pages_table = d.header.pages_table
      /\ loadMetaData(d).deleted_slots = d.header.deleted_slots
      /\ loadMetaData(d).header = d.header
  BY DEF loadMetaData, Disk, Header
<1>. QED  BY <1>1 DEF DenseDisk, Allocated

(* What is under the written ids, in the file and in the history.          *)
LEMMA WriteReadsBack ==
  ASSUME ReadsBack, disk \in Disk, written \in MapOf(PageIds, Contents),
         NEW id \in PageIds, NEW data \in Contents, Write(id, data),
         id \in Allocated(disk) \/ id = NewId(disk)
  PROVE  ReadsBack'
<1>1. /\ DenseDisk(disk) /\ DOMAIN written \subseteq Allocated(disk)
      /\ \A p \in DOMAIN written : disk.file[p] = written[p]
  BY DEF ReadsBack
<1>2. /\ DOMAIN written' = DOMAIN written \cup {id} /\ written'[id] = data
      /\ \A p \in DOMAIN written : p # id => written'[p] = written[p]
  BY DEF Write, Put
<1>3. id \in Allocated(disk) \/ (HasRoom(disk) /\ id = NewId(disk))
  BY DEF Write
<1>4. /\ DenseDisk(disk') /\ Allocated(disk') = Allocated(disk) \cup {id}
      /\ disk'.file[id] = data /\ \A s \in Slot : s # id => disk'.file[s] = disk.file[s]
  BY <1>1, <1>3, WriteDense DEF Write
<1>5. \A p \in DOMAIN written : p \in Slot
  BY <1>1, DenseIds
<1>6. \A p \in DOMAIN written' : disk'.file[p] = written'[p]
  BY <1>1, <1>2, <1>4, <1>5
<1>. QED  BY <1>1, <1>2, <1>4, <1>6 DEF ReadsBack

LEMMA AllocateReadsBack ==
  ASSUME ReadsBack, disk \in Disk, Allocate
  PROVE  ReadsBack'
<1>. DEFINE n == NewId(disk)
<1>1. /\ DenseDisk(disk) /\ DOMAIN written \subseteq Allocated(disk)
      /\ \A p \in DOMAIN written : disk.file[p] = written[p]
  BY DEF ReadsBack
<1>2. disk.file \in [Slot -> Contents] /\ \A p \in Allocated(disk) : p \in Slot
  BY <1>1, DenseIds DEF Disk
<1>3. /\ n \in Slot \ Allocated(disk) /\ DenseDisk(disk')
      /\ Allocated(disk') = Allocated(disk) \cup {n}
      /\ disk'.file = [disk.file EXCEPT ![n] = FreshPage]
      /\ written' = written
  BY <1>1, NextSlot, AllocateDense DEF Allocate
<1>. HIDE DEF n
<1>4. \A p \in DOMAIN written' : disk'.file[p] = written'[p]
  BY <1>1, <1>2, <1>3
<1>. QED  BY <1>1, <1>3, <1>4 DEF ReadsBack

LEMMA ReopenReadsBack ==
  ASSUME ReadsBack, disk \in Disk, Reopen
  PROVE  ReadsBack'
<1>. DEFINE s == saveMetaData(disk)
<1>1. /\ DenseDisk(disk) /\ DOMAIN written \subseteq Allocated(disk)
      /\ \A p \in DOMAIN written : disk.file[p] = written[p]
  BY DEF ReadsBack
<1>2. /\ s \in Disk /\ DenseDisk(s) /\ s.header.pages_table = disk.pages_table
      /\ s.file = disk.file
  BY <1>1, SaveDense DEF saveMetaData, Disk
<1>. HIDE DEF s
<1>3. /\ DenseDisk(loadMetaData(s)) /\ loadMetaData(s).file = s.file
      /\ loadMetaData(s).pages_table = s.header.pages_table
  BY <1>2, LoadDense DEF loadMetaData, Disk
<1>4. /\ disk' = loadMetaData(s) /\ written' = written
  BY DEF Reopen, s
<1>. QED  BY <1>1, <1>2, <1>3, <1>4 DEF ReadsBack, Allocated

LEMMA CrashReadsBack ==
  ASSUME ReadsBack, disk \in Disk, Crash
  PROVE  ReadsBack'
<1>1. /\ DenseDisk(disk) /\ \A p \in DOMAIN written : disk.file[p] = written[p]
  BY DEF ReadsBack
<1>2. DenseDisk(disk') /\ disk'.file = disk.file
  BY <1>1, LoadDense DEF Crash, loadMetaData, Disk
<1>3. /\ DOMAIN written' = DOMAIN written \cap Allocated(disk')
      /\ \A p \in DOMAIN written' : written'[p] = written[p]
  BY DEF Crash, Restrict
<1>. QED  BY <1>1, <1>2, <1>3 DEF ReadsBack

---------------------------------------------------------------------------
(* The invariant.                                                          *)

LEMMA SoundCopies ==
  disk \in Disk => (InsideFile <=> Sound(disk) /\ Sound(disk.header))
<1>. SUFFICES ASSUME disk \in Disk
              PROVE  InsideFile <=> Sound(disk) /\ Sound(disk.header)
  OBVIOUS
<1>1. disk.header \in Header
  BY DEF Disk
<1>. QED  BY <1>1 DEF InsideFile, Sound, Disk, Header

LEMMA InitIInv == Init => IInv
<1>. SUFFICES ASSUME Init
              PROVE  IInv
  OBVIOUS
<1>. USE SlotAssumption, CapacityAssumption, ContentsAssumption
<1>1. /\ EmptyMap \in MapOf(PageIds, Slot) /\ EmptyMap \in MapOf(PageIds, Contents)
      /\ DOMAIN EmptyMap = {}
  BY EmptyMapType
<1>2. /\ disk.pages_table = EmptyMap /\ disk.deleted_slots = << >>
      /\ disk.capacity = FILE_CAPACITY /\ disk.file = [s \in Slot |-> ZeroPage]
      /\ disk.header = [pages_table |-> EmptyMap, deleted_slots |-> << >>,
                        capacity |-> FILE_CAPACITY]
      /\ disk \in Disk
  BY <1>1 DEF Init, NewDisk, Disk, Header
<1>3. /\ written \in MapOf(PageIds, Contents) /\ DOMAIN written = {}
      /\ sequential \in BOOLEAN
  BY <1>1 DEF Init
<1>4. InsideFile
  BY <1>1, <1>2 DEF InsideFile
<1>5. Accounted(disk) /\ Accounted(disk.header)
  <2>1. IsFiniteSet({}) /\ Cardinality({}) = 0
    BY FS_EmptySet
  <2>2. Len(<< >>) = 0
    OBVIOUS
  <2>3. 0 + 0 <= FILE_CAPACITY
    OBVIOUS
  <2>. QED  BY <1>1, <1>2, <2>1, <2>2, <2>3 DEF Accounted
<1>6. ReadsBack
  <2>1. 0 \in 0 .. MaxSlot /\ 1 .. 0 = {}
    OBVIOUS
  <2>2. /\ Allocated(disk) = {} /\ DOMAIN disk.header.pages_table = {}
        /\ disk.deleted_slots = << >> /\ disk.header.deleted_slots = << >>
    BY <1>1, <1>2 DEF Allocated
  <2>3. \E n \in 0 .. MaxSlot : {} = 1 .. n
    BY <2>1
  <2>4. DenseDisk(disk)
    BY <2>2, <2>3 DEF DenseDisk
  <2>. QED  BY <1>3, <2>4 DEF ReadsBack
<1>. QED  BY <1>2, <1>3, <1>4, <1>5, <1>6 DEF IInv, TypeOK

LEMMA NextIInv == IInv /\ [Next]_vars => IInv'
<1>. SUFFICES ASSUME IInv, [Next]_vars
              PROVE  IInv'
  OBVIOUS
<1>1. /\ disk \in Disk /\ Sound(disk) /\ Accounted(disk)
      /\ Sound(disk.header) /\ Accounted(disk.header)
      /\ written \in MapOf(PageIds, Contents) /\ sequential \in BOOLEAN
  BY SoundCopies DEF IInv, TypeOK
<1>. SUFFICES /\ disk' \in Disk /\ Sound(disk') /\ Accounted(disk')
              /\ Sound(disk'.header) /\ Accounted(disk'.header)
              /\ written' \in MapOf(PageIds, Contents) /\ sequential' \in BOOLEAN
              /\ sequential' => ReadsBack'
  <2>1. disk' \in Disk => (InsideFile' <=> Sound(disk') /\ Sound(disk'.header))
    <3>. SUFFICES ASSUME disk' \in Disk
                  PROVE  InsideFile' <=> Sound(disk') /\ Sound(disk'.header)
      OBVIOUS
    <3>1. disk'.header \in Header
      BY DEF Disk
    <3>. QED  BY <3>1 DEF InsideFile, Sound, Disk, Header
  <2>. QED  BY <2>1 DEF IInv, TypeOK
<1>2. ASSUME NEW id \in PageIds, NEW data \in Contents, Write(id, data)
      PROVE  /\ disk' \in Disk /\ Sound(disk') /\ Accounted(disk')
             /\ Sound(disk'.header) /\ Accounted(disk'.header)
             /\ written' \in MapOf(PageIds, Contents) /\ sequential' \in BOOLEAN
             /\ sequential' => ReadsBack'
  <2>1. disk' \in Disk /\ Sound(disk') /\ Accounted(disk') /\ disk'.header = disk.header
    BY <1>1, <1>2, WriteSound DEF Write
  <2>2. Put(written, id, data) \in MapOf(PageIds, Contents)
    BY <1>1, PutType
  <2>3. ASSUME sequential'
        PROVE  ReadsBack'
    <3>1. sequential /\ (id \in Allocated(disk) \/ id = NewId(disk))
      BY <1>2, <2>3 DEF Write
    <3>. QED  BY <1>1, <1>2, <3>1, WriteReadsBack DEF IInv
  <2>. QED  BY <1>1, <1>2, <2>1, <2>2, <2>3 DEF Write
<1>3. CASE Allocate
  <2>1. disk' \in Disk /\ disk'.header = disk.header /\ Sound(disk') /\ Spacious(disk')
    BY <1>1, <1>3, AllocateSound DEF Allocate
  <2>2. Accounted(disk')
    <3>1. /\ Cardinality(DOMAIN disk'.pages_table) \in Nat
          /\ Len(disk'.deleted_slots) \in Nat /\ disk'.capacity \in Nat
      BY <2>1, FS_CardinalityType DEF Spacious, Sound
    <3>. QED  BY <2>1, <3>1 DEF Spacious, Accounted
  <2>3. sequential' => ReadsBack'
    BY <1>1, <1>3, AllocateReadsBack DEF IInv, Allocate
  <2>. QED  BY <1>1, <1>3, <2>1, <2>2, <2>3 DEF Allocate
<1>4. ASSUME NEW id \in PageIds, Delete(id)
      PROVE  /\ disk' \in Disk /\ Sound(disk') /\ Accounted(disk')
             /\ Sound(disk'.header) /\ Accounted(disk'.header)
             /\ written' \in MapOf(PageIds, Contents) /\ sequential' \in BOOLEAN
             /\ sequential' => ReadsBack'
  <2>1. disk' \in Disk /\ Sound(disk') /\ Accounted(disk') /\ disk'.header = disk.header
    BY <1>1, <1>4, DeleteSound DEF Delete
  <2>2. Erase(written, id) \in MapOf(PageIds, Contents)
    BY <1>1, EraseType
  <2>. QED  BY <1>1, <1>4, <2>1, <2>2 DEF Delete
<1>5. CASE Reopen
  <2>. DEFINE s == saveMetaData(disk)
  <2>1. /\ s \in Disk /\ Sound(s.header) /\ Accounted(s.header)
    BY <1>1, SaveSound
  <2>. HIDE DEF s
  <2>2. /\ loadMetaData(s) \in Disk /\ Sound(loadMetaData(s)) /\ Accounted(loadMetaData(s))
        /\ loadMetaData(s).header = s.header
    BY <2>1, LoadSound
  <2>3. disk' = loadMetaData(s) /\ written' = written /\ sequential' = sequential
    BY <1>5 DEF Reopen, s
  <2>4. sequential' => ReadsBack'
    BY <1>1, <1>5, <2>3, ReopenReadsBack DEF IInv
  <2>. QED  BY <1>1, <2>1, <2>2, <2>3, <2>4
<1>6. CASE Crash
  <2>1. /\ disk' \in Disk /\ Sound(disk') /\ Accounted(disk') /\ disk'.header = disk.header
    BY <1>1, <1>6, LoadSound DEF Crash
  <2>2. written' \in MapOf(PageIds, Contents) /\ sequential' = sequential
    BY <1>1, <1>6, RestrictType DEF Crash
  <2>3. sequential' => ReadsBack'
    BY <1>1, <1>6, <2>2, CrashReadsBack DEF IInv
  <2>. QED  BY <1>1, <2>1, <2>2, <2>3
<1>7. CASE UNCHANGED vars
  <2>1. disk' = disk /\ written' = written /\ sequential' = sequential
    BY <1>7 DEF vars
  <2>2. sequential' => ReadsBack'
    BY <2>1 DEF IInv, ReadsBack
  <2>. QED  BY <1>1, <2>1, <2>2
<1>. QED  BY <1>2, <1>3, <1>4, <1>5, <1>6, <1>7 DEF Next

(* Whatever the calls and the crashes, the directory and the free list     *)
(* name no more slots than the file has, and all of them lie in it.        *)
THEOREM Invariance == Spec => []IInv
<1>. QED  BY InitIInv, NextIInv, PTL DEF Spec

(* The directory, the free list, the file and the header are what the code *)
(* takes them for.                                                         *)
THEOREM TypeCorrect == Spec => []TypeOK
<1>1. IInv => TypeOK
  BY DEF IInv
<1>. QED  BY <1>1, Invariance, PTL

(* readPage and writePage never seek past the end of the file resize_file  *)
(* made: nor after a crash has put the directory back.                     *)
THEOREM NeverPastTheEnd == Spec => []InsideFile
<1>1. IInv => InsideFile
  BY DEF IInv
<1>. QED  BY <1>1, Invariance, PTL

(* A caller that enters ids in order reads back what it wrote last.        *)
THEOREM WrittenIsRead == Spec => []SequentialReadsBack
<1>1. IInv => SequentialReadsBack
  <2>. SUFFICES ASSUME IInv, sequential, NEW p \in DOMAIN written
                PROVE  readPage(disk, p, ZeroPage) = written[p]
    BY DEF SequentialReadsBack
  <2>1. /\ DenseDisk(disk) /\ p \in Allocated(disk) /\ disk.file[p] = written[p]
    BY DEF IInv, ReadsBack
  <2>. QED  BY <2>1 DEF readPage, DenseDisk
<1>. QED  BY <1>1, Invariance, PTL
=============================================================================
