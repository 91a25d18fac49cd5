-------------------------- MODULE TableHeap_proofs --------------------------
(***************************************************************************)
(* What the methods of a table heap do to a sound table: its chain of      *)
(* pages, what fits in them, the tuples they keep, and what a scan or an   *)
(* iterator yields.                                                        *)
(***************************************************************************)
EXTENDS TableHeap, CollectionLemmas

---------------------------------------------------------------------------
(* Pages.                                                                  *)

Slot == [tuple : Tuples, offset : Nat, deleted : BOOLEAN]

(* The fields of a page and of its slots.                                  *)
LEMMA PageFields ==
  ASSUME NEW page \in Page
  PROVE  /\ DOMAIN page = {"next_page_id", "free_space_pointer", "slots", "flags", "meta"}
         /\ page.next_page_id \in PageId \cup {-1}
         /\ page.free_space_pointer \in Nat
         /\ page.slots \in Seq(Slot) /\ page.flags \subseteq Nat
         /\ page.meta \in [last_page_id : PageId \cup {-1},
                           starting_rid : RID, stopping_rid : RID]
         /\ Len(page.slots) \in Nat /\ DOMAIN page.slots = 1 .. Len(page.slots)
         /\ \A n \in DOMAIN page.slots :
              /\ DOMAIN page.slots[n] = {"tuple", "offset", "deleted"}
              /\ page.slots[n].tuple \in Tuples /\ page.slots[n].offset \in Nat
              /\ page.slots[n].deleted \in BOOLEAN
<1>1. /\ DOMAIN page = {"next_page_id", "free_space_pointer", "slots", "flags", "meta"}
      /\ page.next_page_id \in PageId \cup {-1}
      /\ page.free_space_pointer \in Nat
      /\ page.slots \in Seq(Slot) /\ page.flags \subseteq Nat
      /\ page.meta \in [last_page_id : PageId \cup {-1},
                        starting_rid : RID, stopping_rid : RID]
  BY DEF Page, Slot
<1>2. Len(page.slots) \in Nat /\ DOMAIN page.slots = 1 .. Len(page.slots)
  BY <1>1
<1>3. \A n \in DOMAIN page.slots : page.slots[n] \in Slot
  BY <1>1, <1>2
<1>4. \A s \in Slot : /\ DOMAIN s = {"tuple", "offset", "deleted"}
                      /\ s.tuple \in Tuples /\ s.offset \in Nat /\ s.deleted \in BOOLEAN
  BY DEF Slot
<1>. QED  BY <1>1, <1>2, <1>3, <1>4

LEMMA PaddedSize ==
  ASSUME NEW tuple \in Tuples
  PROVE  /\ TupleSize[tuple] \in Nat
         /\ Padded(TupleSize[tuple]) \in Nat
         /\ \A other \in Tuples : TupleSize[other] <= TupleSize[tuple] =>
              Padded(TupleSize[other]) <= Padded(TupleSize[tuple])
<1>1. \A x \in Tuples : TupleSize[x] \in Nat
  BY SizeAssumption
<1>2. \A x \in Nat : Padded(x) \in Nat
  BY DEF Padded
<1>3. \A x, y \in Nat : x <= y => Padded(x) <= Padded(y)
  BY DEF Padded
<1>. QED  BY <1>1, <1>2, <1>3

LEMMA EmptyPageFits ==
  EmptyPage \in Page /\ Fitting(EmptyPage)
<1>1. PageSpace \in Nat /\ SlotSize \in Nat
  BY SizeAssumption
<1>2. EmptyPage \in Page
  <2>1. NoRID \in RID
    BY DEF NoRID, RID
  <2>2. << >> \in Seq([tuple : Tuples, offset : Nat, deleted : BOOLEAN])
    OBVIOUS
  <2>. QED  BY <1>1, <2>1, <2>2 DEF EmptyPage, NoMeta, Page
<1>3. Fitting(EmptyPage)
  BY <1>1 DEF EmptyPage, Fitting, End
<1>. QED  BY <1>2, <1>3

(* A tuple is there when its slot says so: the flag says nothing else.     *)
LEMMA FoundBySlot ==
  ASSUME NEW page, Fitting(page), NEW n
  PROVE  Found(page, n) <=> HasSlot(page, n) /\ ~page.slots[n + 1].deleted
BY DEF Found, Fitting

(* A page with the slots, the flags and the space of another.              *)
LEMMA SameBytes ==
  ASSUME NEW page, Fitting(page), NEW new, new.slots = page.slots, new.flags = page.flags,
         new.free_space_pointer = page.free_space_pointer
  PROVE  /\ Fitting(new)
         /\ \A n, x : Holds(page, n, x) => Holds(new, n, x)
<1>1. \A n : End(new, n) = End(page, n) /\ (HasSlot(page, n) => HasSlot(new, n))
  BY DEF End, HasSlot
<1>2. Fitting(new)
  BY <1>1 DEF Fitting
<1>3. \A n, x : Holds(page, n, x) => Holds(new, n, x)
  BY DEF Holds, Found, HasSlot
<1>. QED  BY <1>2, <1>3

(* Inserting a tuple that fits.                                            *)
LEMMA PageInserted ==
  ASSUME NEW page \in Page, Fitting(page), NEW tuple \in Tuples, Fits(page, tuple)
  PROVE  LET new == pageInsert(page, tuple)
         IN  /\ new \in Page /\ Fitting(new)
             /\ new.next_page_id = page.next_page_id
             /\ Holds(new, Len(page.slots), tuple)
             /\ \A n, x : Holds(page, n, x) => Holds(new, n, x)
<1>. DEFINE new == pageInsert(page, tuple)
            size == Padded(TupleSize[tuple])
            len == Len(page.slots)
            offset == page.free_space_pointer - size
            slot == [tuple |-> tuple, deleted |-> FALSE, offset |-> offset]
            flags == page.flags \ Cleared(page, len, offset, tuple)
<1>1. /\ size \in Nat /\ PageSpace \in Nat /\ SlotSize \in Nat
  BY PaddedSize, SizeAssumption
<1>2. /\ page.free_space_pointer \in Nat /\ page.slots \in Seq(Slot)
      /\ len \in Nat /\ DOMAIN page.slots = 1 .. len /\ page.flags \subseteq Nat
      /\ DOMAIN page = {"next_page_id", "free_space_pointer", "slots", "flags", "meta"}
  BY PageFields
<1>3. (len + 1) * SlotSize <= offset /\ offset \in Nat
  <2>1. len * SlotSize \in Nat /\ (len + 1) * SlotSize = len * SlotSize + SlotSize
    <3>. HIDE DEF len
    <3>. QED  BY <1>1, <1>2
  <2>2. page.free_space_pointer - len * SlotSize >= size + SlotSize
    BY DEF Fits, FreeSize
  <2>3. size + SlotSize + len * SlotSize <= page.free_space_pointer
    <3>. HIDE DEF size, len
    <3>. QED  BY <1>1, <1>2, <2>1, <2>2
  <2>. HIDE DEF size, len
  <2>. QED  BY <1>1, <1>2, <2>1, <2>3
<1>. HIDE DEF size, offset
<1>4. slot \in Slot /\ slot.tuple = tuple /\ slot.deleted = FALSE /\ slot.offset = offset
  BY <1>3 DEF Slot
<1>5. /\ new.free_space_pointer = offset /\ new.next_page_id = page.next_page_id
      /\ new.slots = Append(page.slots, slot)
      /\ new.flags = flags /\ flags \subseteq page.flags
      /\ new = [page EXCEPT !.free_space_pointer = offset, !.slots = Append(page.slots, slot),
                            !.flags = flags]
  BY <1>2 DEF pageInsert, offset, size
<1>. HIDE DEF new, slot, flags
<1>6. /\ new.slots \in Seq(Slot) /\ Len(new.slots) = len + 1
      /\ DOMAIN new.slots = 1 .. len + 1
      /\ new.slots[len + 1] = slot
      /\ \A n \in 1 .. len : new.slots[n] = page.slots[n]
  BY <1>2, <1>4, <1>5, AppendProperties
<1>7. new \in Page
  BY <1>2, <1>3, <1>5, <1>6 DEF Page, Slot
<1>. HIDE DEF len
<1>8. Fitting(new)
  <2>1. new.free_space_pointer = End(new, len + 2)
    BY <1>2, <1>4, <1>5, <1>6 DEF End
  <2>2. /\ page.free_space_pointer = End(page, len + 1)
        /\ \A n \in 1 .. len :
             page.slots[n].offset + Padded(TupleSize[page.slots[n].tuple]) <= End(page, n)
    BY <1>2 DEF Fitting, len
  <2>3. \A n \in 1 .. len + 1 : End(new, n) = End(page, n)
    BY <1>2, <1>6 DEF End
  <2>4. ASSUME NEW n \in 1 .. len + 1
        PROVE  new.slots[n].offset + Padded(TupleSize[new.slots[n].tuple]) <= End(new, n)
    <3>1. CASE n = len + 1
      BY <1>1, <1>2, <1>3, <1>4, <1>6, <2>2, <2>3, <3>1 DEF offset, size
    <3>2. CASE n \in 1 .. len
      BY <1>6, <2>2, <2>3, <3>2
    <3>. QED  BY <1>2, <3>1, <3>2
  <2>5. Len(new.slots) * SlotSize <= new.free_space_pointer
    BY <1>3, <1>5, <1>6
  <2>6. Len(new.slots) + 1 = len + 2
    BY <1>2, <1>6
  <2>7. ASSUME NEW m \in new.flags
        PROVE  HasSlot(new, m) /\ new.slots[m + 1].deleted
    <3>1. m \in 0 .. len - 1 /\ page.slots[m + 1].deleted
      BY <1>5 DEF Fitting, HasSlot, len
    <3>2. m + 1 \in 1 .. len /\ m \in 0 .. len
      BY <1>2, <3>1
    <3>. QED  BY <1>2, <1>6, <3>1, <3>2 DEF HasSlot
  <2>. QED  BY <1>6, <2>1, <2>4, <2>5, <2>6, <2>7 DEF Fitting
<1>9. Holds(new, len, tuple)
  <2>1. HasSlot(new, len) /\ ~new.slots[len + 1].deleted /\ new.slots[len + 1].tuple = tuple
    BY <1>2, <1>4, <1>6 DEF HasSlot
  <2>. QED  BY <1>8, <2>1, FoundBySlot DEF Holds
<1>10. ASSUME NEW n, NEW x, Holds(page, n, x)
       PROVE  Holds(new, n, x)
  <2>1. n \in 0 .. len - 1 /\ ~page.slots[n + 1].deleted /\ page.slots[n + 1].tuple = x
    BY <1>10 DEF Holds, Found, HasSlot, len
  <2>2. n \in 0 .. Len(new.slots) - 1 /\ new.slots[n + 1] = page.slots[n + 1]
    BY <1>2, <1>6, <2>1
  <2>. QED  BY <1>8, <2>1, <2>2, FoundBySlot DEF Holds, HasSlot
<1>. QED  BY <1>5, <1>7, <1>8, <1>9, <1>10 DEF new, len

(* Deleting a tuple disturbs no other.                                     *)
LEMMA PageDeleted ==
  ASSUME NEW page \in Page, Fitting(page), NEW n \in Nat
  PROVE  LET new == pageDelete(page, n)
         IN  /\ new \in Page /\ Fitting(new)
             /\ new.next_page_id = page.next_page_id
             /\ new.free_space_pointer = page.free_space_pointer
             /\ Len(new.slots) = Len(page.slots)
             /\ \A m, x : m # n /\ Holds(page, m, x) => Holds(new, m, x)
             /\ \A m : m # n /\ Found(page, m) =>
                  Found(new, m) /\ new.slots[m + 1] = page.slots[m + 1]
<1>. DEFINE new == pageDelete(page, n)
            there == HasSlot(page, n) /\ ~page.slots[n + 1].deleted
<1>1. CASE ~there
  BY <1>1 DEF pageDelete
<1>2. CASE there
  <2>. DEFINE len   == Len(page.slots)
              old   == page.slots[n + 1]
              slot  == [old EXCEPT !.deleted = TRUE]
              flags == (page.flags \cup {n}) \ Cleared(page, n, old.offset, old.tuple)
  <2>1. n + 1 \in 1 .. len /\ len \in Nat /\ DOMAIN page.slots = 1 .. len
    BY <1>2, PageFields DEF HasSlot
  <2>2. /\ slot \in Slot /\ slot.tuple = page.slots[n + 1].tuple
        /\ slot.offset = page.slots[n + 1].offset /\ slot.deleted = TRUE
    <3>1. /\ DOMAIN page.slots[n + 1] = {"tuple", "offset", "deleted"}
          /\ page.slots[n + 1] \in Slot
      BY <2>1, PageFields
    <3>. QED  BY <3>1 DEF Slot
  <2>. HIDE DEF slot
  <2>3. /\ new.next_page_id = page.next_page_id
        /\ new.free_space_pointer = page.free_space_pointer
        /\ new.slots = [page.slots EXCEPT ![n + 1] = slot]
        /\ new.flags = flags /\ flags \subseteq page.flags \cup {n}
        /\ new = [page EXCEPT !.slots = [page.slots EXCEPT ![n + 1] = slot], !.flags = flags]
    BY <1>2, PageFields DEF pageDelete, slot
  <2>. HIDE DEF new, flags
  <2>4. /\ new.slots \in Seq(Slot) /\ Len(new.slots) = len /\ DOMAIN new.slots = 1 .. len
        /\ new.slots[n + 1] = slot
        /\ \A m \in 1 .. len : m # n + 1 => new.slots[m] = page.slots[m]
    BY <2>1, <2>2, <2>3, PageFields
  <2>. HIDE DEF len
  <2>5. new \in Page
    <3>1. flags \subseteq Nat
      BY <2>3, PageFields
    <3>. QED  BY <2>3, <2>4, <3>1 DEF Page, Slot
  <2>6. \A m \in 1 .. len : /\ new.slots[m].offset = page.slots[m].offset
                            /\ new.slots[m].tuple = page.slots[m].tuple
    BY <2>1, <2>2, <2>4
  <2>7. \A m \in 1 .. len + 1 : End(new, m) = End(page, m)
    BY <2>1, <2>6 DEF End
  <2>8. Fitting(new)
    <3>1. len + 1 \in 1 .. len + 1 /\ \A m \in 1 .. len : m \in 1 .. len + 1
      BY <2>1
    <3>2. ASSUME NEW m \in new.flags
          PROVE  HasSlot(new, m) /\ new.slots[m + 1].deleted
      <4>1. m \in 0 .. len - 1 /\ (m # n => page.slots[m + 1].deleted)
        BY <1>2, <2>3 DEF Fitting, HasSlot, len
      <4>2. m + 1 \in 1 .. len /\ (m # n => m + 1 # n + 1)
        BY <2>1, <4>1
      <4>. QED  BY <2>2, <2>4, <4>1, <4>2 DEF HasSlot
    <3>3. /\ len * SlotSize <= page.free_space_pointer
          /\ page.free_space_pointer = End(page, len + 1)
          /\ \A m \in 1 .. len :
               page.slots[m].offset + Padded(TupleSize[page.slots[m].tuple]) <= End(page, m)
      BY <2>1 DEF Fitting, len
    <3>. QED  BY <2>3, <2>4, <2>6, <2>7, <3>1, <3>2, <3>3 DEF Fitting
  <2>9. ASSUME NEW m, m # n, Found(page, m)
        PROVE  Found(new, m) /\ new.slots[m + 1] = page.slots[m + 1]
    <3>1. m \in 0 .. len - 1 /\ ~page.slots[m + 1].deleted
      BY <2>9 DEF Found, HasSlot, len
    <3>2. m + 1 \in 1 .. len /\ m + 1 # n + 1
      BY <2>1, <2>9, <3>1
    <3>3. new.slots[m + 1] = page.slots[m + 1]
      BY <2>4, <3>2
    <3>. QED  BY <2>4, <2>8, <3>1, <3>3, FoundBySlot DEF HasSlot
  <2>10. \A m, x : m # n /\ Holds(page, m, x) => Holds(new, m, x)
    BY <2>9 DEF Holds
  <2>. QED  BY <2>3, <2>4, <2>5, <2>8, <2>9, <2>10 DEF new, len
<1>. QED  BY <1>1, <1>2

(* Writing a tuple over one that is no smaller.                            *)
LEMMA PageOverwritten ==
  ASSUME NEW page \in Page, Fitting(page), NEW n, Found(page, n), NEW tuple \in Tuples,
         TupleSize[tuple] <= TupleSize[page.slots[n + 1].tuple]
  PROVE  LET new == pageOverwrite(page, n, tuple)
         IN  /\ new \in Page /\ Fitting(new)
             /\ new.next_page_id = page.next_page_id
             /\ \A m, x : m # n /\ Holds(page, m, x) => Holds(new, m, x)
             /\ \A m : Found(page, m) => Found(new, m)
<1>. DEFINE new == pageOverwrite(page, n, tuple)
            len == Len(page.slots)
            slot == [page.slots[n + 1] EXCEPT !.tuple = tuple]
            flags == (page.flags \ {n}) \ Cleared(page, n, page.slots[n + 1].offset, tuple)
<1>1. n \in 0 .. len - 1 /\ len \in Nat /\ DOMAIN page.slots = 1 .. len
  BY PageFields DEF Found, HasSlot
<1>2. n + 1 \in 1 .. len
  BY <1>1
<1>3. /\ slot \in Slot /\ slot.tuple = tuple
      /\ slot.offset = page.slots[n + 1].offset
      /\ slot.deleted = page.slots[n + 1].deleted
      /\ page.slots[n + 1].tuple \in Tuples
      /\ page.slots[n + 1].offset \in Nat
  <2>1. /\ DOMAIN page.slots[n + 1] = {"tuple", "offset", "deleted"}
        /\ page.slots[n + 1] \in Slot
    BY <1>1, <1>2, PageFields
  <2>. QED  BY <2>1 DEF Slot
<1>. HIDE DEF slot
<1>4. /\ new.next_page_id = page.next_page_id
      /\ new.free_space_pointer = page.free_space_pointer
      /\ new.slots = [page.slots EXCEPT ![n + 1] = slot]
      /\ new.flags = flags /\ flags \subseteq page.flags
      /\ new = [page EXCEPT !.slots = [page.slots EXCEPT ![n + 1] = slot], !.flags = flags]
  BY PageFields DEF pageOverwrite, slot
<1>. HIDE DEF new, flags
<1>5. /\ new.slots \in Seq(Slot) /\ Len(new.slots) = len /\ DOMAIN new.slots = 1 .. len
      /\ new.slots[n + 1] = slot
      /\ \A m \in 1 .. len : m # n + 1 => new.slots[m] = page.slots[m]
  BY <1>1, <1>2, <1>3, <1>4, PageFields
<1>. HIDE DEF len
<1>6. new \in Page
  <2>1. flags \subseteq Nat
    BY <1>4, PageFields
  <2>. QED  BY <1>4, <1>5, <2>1 DEF Page, Slot
<1>7. \A m \in 1 .. len : new.slots[m].offset = page.slots[m].offset
  BY <1>1, <1>3, <1>5
<1>8. \A m \in 1 .. len + 1 : End(new, m) = End(page, m)
  BY <1>1, <1>7 DEF End
<1>9. ASSUME NEW m \in 1 .. len
      PROVE  new.slots[m].offset + Padded(TupleSize[new.slots[m].tuple]) <= End(new, m)
  <2>1. /\ page.slots[m].offset + Padded(TupleSize[page.slots[m].tuple]) <= End(page, m)
        /\ page.slots[m].offset \in Nat /\ page.slots[m].tuple \in Tuples
    BY <1>1, PageFields DEF Fitting
  <2>2. End(page, m) \in Nat
    BY <1>1, PageFields, SizeAssumption DEF End
  <2>3. End(new, m) = End(page, m) /\ new.slots[m].offset = page.slots[m].offset
    BY <1>1, <1>7, <1>8
  <2>4. CASE m = n + 1
    <3>1. Padded(TupleSize[tuple]) <= Padded(TupleSize[page.slots[m].tuple])
      BY <1>3, <2>4, PaddedSize
    <3>2. Padded(TupleSize[tuple]) \in Nat /\ Padded(TupleSize[page.slots[m].tuple]) \in Nat
      BY <2>1, PaddedSize
    <3>3. new.slots[m].tuple = tuple
      BY <1>3, <1>5, <2>4
    <3>. HIDE DEF len
    <3>. QED  BY <2>1, <2>2, <2>3, <3>1, <3>2, <3>3
  <2>5. CASE m # n + 1
    BY <1>5, <2>1, <2>3, <2>5
  <2>. QED  BY <2>4, <2>5
<1>10. Fitting(new)
  <2>1. len + 1 \in 1 .. len + 1
    BY <1>1
  <2>2. new.free_space_pointer = End(new, len + 1)
    BY <1>4, <1>8, <2>1 DEF Fitting, len
  <2>3. len * SlotSize <= new.free_space_pointer
    BY <1>4 DEF Fitting, len
  <2>4. ASSUME NEW m \in new.flags
        PROVE  HasSlot(new, m) /\ new.slots[m + 1].deleted
    <3>1. m \in 0 .. len - 1 /\ page.slots[m + 1].deleted
      BY <1>4 DEF Fitting, HasSlot, len
    <3>2. m + 1 \in 1 .. len
      BY <1>1, <3>1
    <3>. QED  BY <1>3, <1>5, <3>1, <3>2 DEF HasSlot
  <2>. QED  BY <1>5, <1>9, <2>2, <2>3, <2>4 DEF Fitting
<1>11. ASSUME NEW m, Found(page, m)
       PROVE  Found(new, m) /\ (m # n => new.slots[m + 1] = page.slots[m + 1])
  <2>1. m \in 0 .. len - 1 /\ ~page.slots[m + 1].deleted
    BY <1>11 DEF Found, HasSlot, len
  <2>2. m + 1 \in 1 .. len /\ (m # n => m + 1 # n + 1)
    BY <1>1, <2>1
  <2>3. m # n => new.slots[m + 1] = page.slots[m + 1]
    BY <1>5, <2>2
  <2>4. m = n => new.slots[m + 1] = slot
    BY <1>5
  <2>5. HasSlot(new, m) /\ ~new.slots[m + 1].deleted
    BY <1>3, <1>5, <2>1, <2>3, <2>4 DEF HasSlot
  <2>. QED  BY <1>10, <2>3, <2>5, FoundBySlot
<1>. QED  BY <1>4, <1>6, <1>10, <1>11 DEF new, Holds

(* What a page of counted tuples allows the byte behind a text.            *)
LEMMA OneByte ==
  ASSUME NEW page \in Page, Fitting(page)
  PROVE  OneByteOver(page)
<1>. SUFFICES ASSUME NEW n \in DOMAIN page.slots
              PROVE  page.slots[n].offset + Extent(page.slots[n].tuple) <= End(page, n) + 1
  BY DEF OneByteOver
<1>. DEFINE slot == page.slots[n]
            size == TupleSize[slot.tuple]
<1>1. /\ slot.tuple \in Tuples /\ slot.offset \in Nat
      /\ slot.offset + Padded(size) <= End(page, n)
  BY PageFields DEF Fitting
<1>2. size \in Nat
  BY <1>1, PaddedSize
<1>3. End(page, n) \in Nat
  <2>1. DOMAIN page.slots = 1 .. Len(page.slots) /\ Len(page.slots) \in Nat
    BY PageFields
  <2>2. n # 1 => n - 1 \in DOMAIN page.slots
    BY <2>1
  <2>. QED  BY <2>2, PageFields, SizeAssumption DEF End
<1>4. size <= Padded(size) /\ Padded(size) \in Nat
  <2>. HIDE DEF size
  <2>. QED  BY <1>2 DEF Padded
<1>5. Extent(slot.tuple) \in Nat /\ Extent(slot.tuple) <= size + 1
  <2>. HIDE DEF slot
  <2>. QED  BY <1>2 DEF Extent
<1>. HIDE DEF slot, size
<1>6. slot.offset + Extent(slot.tuple) <= End(page, n) + 1
  BY <1>1, <1>2, <1>3, <1>4, <1>5
<1>. QED  BY <1>6 DEF slot

---------------------------------------------------------------------------
(* Tables.                                                                 *)

Place == [page : PageId, slot : Nat]

(* The tuples present are still present, in the pages that are still there.*)
StillPresent(u, v) ==
  /\ DOMAIN u.view \subseteq DOMAIN v.view
  /\ \A rid \in Place : rid.page \in DOMAIN u.view /\ Present(u, rid) => Present(v, rid)

LEMMA SoundFields ==
  ASSUME NEW u, Sound(u)
  PROVE  /\ DOMAIN u = TableFields
         /\ u.first_page_id = 1 /\ u.first_page_id \in DOMAIN u.view
         /\ u.last_page_id \in PageId /\ u.last_page_id \in DOMAIN u.view
         /\ u.last_page_id \in Nat /\ 2 <= u.last_page_id /\ u.last_page_id <= MaxPages
         /\ MaxPages \in Nat
         /\ u.starting_rid \in RID /\ u.stopping_rid \in RID
         /\ DOMAIN u.view = 1 .. u.last_page_id /\ DOMAIN u.stored = 1 .. u.last_page_id
         /\ u.marked \subseteq DOMAIN u.view /\ u.known \subseteq DOMAIN u.view
         /\ NewPageId(u) = u.last_page_id + 1
         /\ lastPage(u) = u.view[u.last_page_id]
         /\ \A p \in DOMAIN u.view :
              /\ p \in PageId
              /\ u.view[p] \in Page /\ Fitting(u.view[p])
              /\ u.stored[p] \in Page /\ Fitting(u.stored[p])
              /\ u.view[p].next_page_id = NextPage(u, p)
              /\ p \notin u.marked => u.stored[p].next_page_id = NextPage(u, p)
<1>1. MaxPages \in Nat /\ MaxPages >= 2
  BY PagesAssumption
<1>2. /\ u.last_page_id \in 2 .. MaxPages /\ u.first_page_id = 1
      /\ DOMAIN u.view = 1 .. u.last_page_id
  BY DEF Sound
<1>3. /\ u.last_page_id \in PageId /\ u.last_page_id \in DOMAIN u.view
      /\ u.last_page_id \in Nat /\ 2 <= u.last_page_id /\ u.last_page_id <= MaxPages
      /\ 1 \in DOMAIN u.view
  BY <1>1, <1>2 DEF PageId
<1>4. NewPageId(u) = u.last_page_id + 1
  <2>. DEFINE n == u.last_page_id
  <2>1. n \in Nat /\ DOMAIN u.view = 1 .. n
    BY <1>2, <1>3
  <2>. HIDE DEF n
  <2>2. Cardinality(1 .. n) = n
    BY <2>1, FirstNumbers
  <2>. QED  BY <2>1, <2>2 DEF NewPageId, n
<1>5. \A p \in DOMAIN u.view : p \in PageId
  BY <1>1, <1>2 DEF PageId
<1>. QED  BY <1>1, <1>2, <1>3, <1>4, <1>5 DEF Sound, IsFile, lastPage

(* A table with the same links, whose pages are well formed.               *)
LEMMA SoundTable ==
  ASSUME NEW u, Sound(u), NEW v, DOMAIN v = TableFields,
         v.first_page_id = u.first_page_id, v.last_page_id = u.last_page_id,
         v.starting_rid \in RID, v.stopping_rid \in RID,
         DOMAIN v.view = DOMAIN u.view, DOMAIN v.stored = DOMAIN u.view,
         v.marked \subseteq DOMAIN u.view, v.known \subseteq DOMAIN u.view,
         \A p \in DOMAIN u.view :
           /\ v.view[p] \in Page /\ Fitting(v.view[p])
           /\ v.stored[p] \in Page /\ Fitting(v.stored[p])
           /\ v.view[p].next_page_id = NextPage(u, p)
           /\ p \notin v.marked => v.stored[p].next_page_id = NextPage(u, p)
  PROVE  Sound(v)
<1>1. \A p : NextPage(v, p) = NextPage(u, p)
  BY DEF NextPage
<1>. QED  BY <1>1 DEF Sound, IsFile

(* A table with the same rids, and no tuple where there never was one.     *)
LEMMA StillBounded ==
  ASSUME NEW u, Bounded(u), NEW v,
         DOMAIN v.view = DOMAIN u.view, v.last_page_id = u.last_page_id,
         v.starting_rid = u.starting_rid, v.stopping_rid = u.stopping_rid,
         \A p \in DOMAIN u.view : u.view[p].slots = << >> /\ u.stored[p].slots = << >> =>
           v.view[p].slots = << >> /\ v.stored[p].slots = << >>
  PROVE  Bounded(v)
BY DEF Bounded

(* A write through a pointer that leaves the link.                         *)
LEMMA WrittenTable ==
  ASSUME NEW u, Sound(u), NEW p \in DOMAIN u.view, NEW page \in Page, Fitting(page),
         page.next_page_id = u.view[p].next_page_id
  PROVE  LET v == Written(u, p, page)
         IN  /\ Sound(v)
             /\ v.view = [u.view EXCEPT ![p] = page]
             /\ v.first_page_id = u.first_page_id /\ v.last_page_id = u.last_page_id
             /\ v.starting_rid = u.starting_rid /\ v.stopping_rid = u.stopping_rid
             /\ v.stored = u.stored /\ v.marked = u.marked /\ v.known = u.known
<1>. DEFINE v == Written(u, p, page)
<1>1. DOMAIN u = TableFields
  BY SoundFields
<1>2. /\ DOMAIN v = TableFields
      /\ v.view = [u.view EXCEPT ![p] = page]
      /\ v.first_page_id = u.first_page_id /\ v.last_page_id = u.last_page_id
      /\ v.starting_rid = u.starting_rid /\ v.stopping_rid = u.stopping_rid
      /\ v.stored = u.stored /\ v.marked = u.marked /\ v.known = u.known
  BY <1>1 DEF Written, TableFields
<1>. HIDE DEF v
<1>3. /\ DOMAIN v.view = DOMAIN u.view /\ v.view[p] = page
      /\ \A q \in DOMAIN u.view : q # p => v.view[q] = u.view[q]
  BY <1>2
<1>4. Sound(v)
  BY <1>2, <1>3, SoundFields, SoundTable
<1>. QED  BY <1>2, <1>4 DEF v

LEMMA WrittenKept ==
  ASSUME NEW u, Sound(u), NEW p \in DOMAIN u.view, NEW page \in Page, Fitting(page),
         page.next_page_id = u.view[p].next_page_id,
         NEW at, NEW others, Kept(u, at, others),
         \A rid \in DOMAIN at \ others :
           rid.page = p /\ Holds(u.view[p], rid.slot, at[rid]) => Holds(page, rid.slot, at[rid])
  PROVE  Kept(Written(u, p, page), at, others)
<1>. DEFINE v == Written(u, p, page)
<1>1. /\ v.view = [u.view EXCEPT ![p] = page]
      /\ v.stored = u.stored /\ v.marked = u.marked
  BY WrittenTable
<1>. HIDE DEF v
<1>2. /\ DOMAIN v.view = DOMAIN u.view /\ v.view[p] = page
      /\ \A q \in DOMAIN u.view : q # p => v.view[q] = u.view[q]
  BY <1>1
<1>3. Kept(v, at, others)
  BY <1>1, <1>2 DEF Kept
<1>. QED  BY <1>3 DEF v

LEMMA MarkedTable ==
  ASSUME NEW u, Sound(u), NEW p \in DOMAIN u.view
  PROVE  LET v == Marked(u, p)
         IN  /\ Sound(v)
             /\ v.view = u.view
             /\ v.first_page_id = u.first_page_id /\ v.last_page_id = u.last_page_id
             /\ v.starting_rid = u.starting_rid /\ v.stopping_rid = u.stopping_rid
             /\ v.stored = u.stored /\ v.marked = u.marked \cup {p} /\ v.known = u.known
             /\ \A at, others : Kept(u, at, others) => Kept(v, at, others)
<1>. DEFINE v == Marked(u, p)
<1>1. DOMAIN u = TableFields
  BY SoundFields
<1>2. /\ DOMAIN v = TableFields
      /\ v.view = u.view
      /\ v.first_page_id = u.first_page_id /\ v.last_page_id = u.last_page_id
      /\ v.starting_rid = u.starting_rid /\ v.stopping_rid = u.stopping_rid
      /\ v.stored = u.stored /\ v.marked = u.marked \cup {p} /\ v.known = u.known
  BY <1>1 DEF Marked, TableFields
<1>. HIDE DEF v
<1>3. Sound(v)
  BY <1>2, SoundFields, SoundTable
<1>4. \A at, others : Kept(u, at, others) => Kept(v, at, others)
  BY <1>2 DEF Kept
<1>. QED  BY <1>2, <1>3, <1>4 DEF v

(* An eviction: what an unmarked page loses is neither its link nor a tuple*)
(* that was not changed.                                                   *)
LEMMA EvictedTable ==
  ASSUME NEW u, Sound(u), NEW E
  PROVE  LET v == Evicted(u, E)
         IN  /\ Sound(v)
             /\ DOMAIN v.view = DOMAIN u.view /\ v.known = u.known
             /\ v.marked = u.marked \ E
             /\ v.first_page_id = u.first_page_id /\ v.last_page_id = u.last_page_id
             /\ v.starting_rid = u.starting_rid /\ v.stopping_rid = u.stopping_rid
             /\ \A p \in DOMAIN u.view : p \in u.marked => v.view[p] = u.view[p]
             /\ \A p \in DOMAIN u.view :
                  {v.view[p], v.stored[p]} \subseteq {u.view[p], u.stored[p]}
             /\ \A at, others : Kept(u, at, others) => Kept(v, at, others)
<1>. DEFINE v == Evicted(u, E)
<1>1. DOMAIN u = TableFields
  BY SoundFields
<1>2. /\ DOMAIN v = TableFields
      /\ v.view = [p \in DOMAIN u.view |->
                     IF p \in E \ u.marked THEN u.stored[p] ELSE u.view[p]]
      /\ v.stored = [p \in DOMAIN u.view |->
                       IF p \in E \cap u.marked THEN u.view[p] ELSE u.stored[p]]
      /\ v.first_page_id = u.first_page_id /\ v.last_page_id = u.last_page_id
      /\ v.starting_rid = u.starting_rid /\ v.stopping_rid = u.stopping_rid
      /\ v.marked = u.marked \ E /\ v.known = u.known
  BY <1>1 DEF Evicted, TableFields
<1>. HIDE DEF v
<1>3. /\ DOMAIN v.view = DOMAIN u.view /\ DOMAIN v.stored = DOMAIN u.view
      /\ \A p \in DOMAIN u.view :
           /\ v.view[p] = u.view[p] \/ (p \notin u.marked /\ v.view[p] = u.stored[p])
           /\ v.stored[p] = u.stored[p] \/ (p \in u.marked /\ v.stored[p] = u.view[p])
           /\ p \notin v.marked /\ p \in u.marked => v.stored[p] = u.view[p]
           /\ p \in u.marked => v.view[p] = u.view[p]
  BY <1>2
<1>4. \A p \in DOMAIN u.view :
        /\ v.view[p] \in Page /\ Fitting(v.view[p])
        /\ v.stored[p] \in Page /\ Fitting(v.stored[p])
        /\ v.view[p].next_page_id = NextPage(u, p)
        /\ p \notin v.marked => v.stored[p].next_page_id = NextPage(u, p)
  BY <1>3, SoundFields
<1>5. Sound(v)
  BY <1>2, <1>3, <1>4, SoundFields, SoundTable
<1>6. \A at, others : Kept(u, at, others) => Kept(v, at, others)
  BY <1>3 DEF Kept
<1>. QED  BY <1>2, <1>3, <1>5, <1>6 DEF v

(* Linking a new page behind the last.                                     *)
LEMMA ExtendedTable ==
  ASSUME NEW u, Sound(u), HasRoom(u)
  PROVE  LET v == extended(u)
         IN  /\ Sound(v)
             /\ v.last_page_id = NewPageId(u)
             /\ lastPage(v) = EmptyPage
             /\ StillPresent(u, v)
             /\ v.starting_rid = u.starting_rid
             /\ \A p \in DOMAIN v.view : p # v.last_page_id =>
                  p \in DOMAIN u.view /\ v.view[p].slots = u.view[p].slots
                  /\ v.stored[p] = u.stored[p]
             /\ \A at, others : Kept(u, at, others) => Kept(v, at, others)
<1>. DEFINE n    == NewPageId(u)
            last == u.last_page_id
            page == [lastPage(u) EXCEPT !.next_page_id = n]
            new  == newPage(u)
            linked == Written(new, last, page)
            v    == extended(u)
<1>1. /\ DOMAIN u = TableFields /\ n = last + 1 /\ n \in PageId
      /\ last \in Nat /\ last \in DOMAIN u.view /\ 2 <= last /\ n <= MaxPages
      /\ MaxPages \in Nat
      /\ DOMAIN u.view = 1 .. last /\ DOMAIN u.stored = 1 .. last
      /\ u.marked \subseteq 1 .. last /\ u.known \subseteq 1 .. last
      /\ lastPage(u) = u.view[last]
  BY SoundFields DEF HasRoom, PageId
<1>2. /\ page \in Page /\ Fitting(page) /\ page.next_page_id = n
      /\ page.slots = u.view[last].slots
  <2>1. u.view[last] \in Page /\ Fitting(u.view[last])
    BY <1>1, SoundFields
  <2>2. DOMAIN u.view[last] = {"next_page_id", "free_space_pointer", "slots", "flags", "meta"}
    BY <2>1, PageFields
  <2>3. /\ page.next_page_id = n /\ page.slots = u.view[last].slots
        /\ page.free_space_pointer = u.view[last].free_space_pointer
        /\ page.flags = u.view[last].flags
    BY <1>1, <2>2
  <2>4. page \in Page
    BY <1>1, <2>1 DEF Page
  <2>5. Fitting(page)
    <3>. HIDE DEF page
    <3>. QED  BY <2>1, <2>3, SameBytes
  <2>. QED  BY <2>3, <2>4, <2>5
<1>. HIDE DEF n, last, page
<1>3. /\ DOMAIN new = TableFields
      /\ new.view = Put(u.view, n, EmptyPage) /\ new.stored = Put(u.stored, n, EmptyPage)
      /\ new.marked = u.marked /\ new.known = u.known
      /\ new.first_page_id = u.first_page_id
      /\ new.starting_rid = u.starting_rid /\ new.stopping_rid = u.stopping_rid
  BY <1>1 DEF newPage, Extended, n, TableFields
<1>. HIDE DEF new
<1>4. /\ DOMAIN linked = TableFields
      /\ linked.view = [new.view EXCEPT ![last] = page] /\ linked.stored = new.stored
      /\ linked.marked = new.marked /\ linked.known = new.known
      /\ linked.first_page_id = new.first_page_id
      /\ linked.starting_rid = new.starting_rid /\ linked.stopping_rid = new.stopping_rid
  BY <1>3 DEF Written, TableFields
<1>5. v = [Marked(linked, last) EXCEPT !.last_page_id = n]
  BY DEF extended, linked, new, page, n, last
<1>. HIDE DEF linked, v
<1>6. /\ DOMAIN v = TableFields
      /\ v.view = linked.view /\ v.stored = linked.stored
      /\ v.marked = linked.marked \cup {last} /\ v.known = linked.known
      /\ v.first_page_id = linked.first_page_id /\ v.last_page_id = n
      /\ v.starting_rid = linked.starting_rid /\ v.stopping_rid = linked.stopping_rid
  BY <1>4, <1>5 DEF Marked, TableFields
<1>7. /\ DOMAIN v.view = 1 .. n /\ DOMAIN v.stored = 1 .. n
      /\ v.view[n] = EmptyPage /\ v.stored[n] = EmptyPage
      /\ v.view[last] = page /\ v.stored[last] = u.stored[last]
      /\ \A p \in 1 .. last : p # last => v.view[p] = u.view[p]
      /\ \A p \in 1 .. last : v.stored[p] = u.stored[p]
      /\ v.marked = u.marked \cup {last}
  <2>1. /\ DOMAIN new.view = 1 .. n /\ DOMAIN new.stored = 1 .. n
        /\ new.view[n] = EmptyPage /\ new.stored[n] = EmptyPage
        /\ \A p \in 1 .. last : new.view[p] = u.view[p] /\ new.stored[p] = u.stored[p]
    <3>1. 1 .. last \cup {n} = 1 .. n /\ n \notin 1 .. last
      BY <1>1
    <3>. QED  BY <1>1, <1>3, <3>1 DEF Put
  <2>2. last \in 1 .. last /\ last \in 1 .. n /\ last # n /\ n \in 1 .. n
    BY <1>1
  <2>3. \A p \in 1 .. last : p \in 1 .. n /\ p # n
    BY <1>1
  <2>. QED  BY <1>3, <1>4, <1>6, <2>1, <2>2, <2>3
<1>8. \A p \in 1 .. n : p = n \/ p = last \/ (p \in 1 .. last /\ p # last)
  BY <1>1
<1>9. /\ NextPage(v, n) = -1 /\ NextPage(v, last) = n
      /\ \A p \in 1 .. last : p # last => NextPage(v, p) = NextPage(u, p)
  BY <1>1, <1>6 DEF NextPage, last
<1>10. EmptyPage \in Page /\ Fitting(EmptyPage) /\ EmptyPage.next_page_id = -1
  BY EmptyPageFits DEF EmptyPage
<1>11. ASSUME NEW p \in 1 .. n
       PROVE  /\ v.view[p] \in Page /\ Fitting(v.view[p])
              /\ v.stored[p] \in Page /\ Fitting(v.stored[p])
              /\ v.view[p].next_page_id = NextPage(v, p)
              /\ p \notin v.marked => v.stored[p].next_page_id = NextPage(v, p)
  <2>1. CASE p = n
    BY <1>7, <1>9, <1>10, <2>1
  <2>2. CASE p = last
    <3>1. u.stored[last] \in Page /\ Fitting(u.stored[last])
      BY <1>1, SoundFields
    <3>2. last \in v.marked
      BY <1>7
    <3>. QED  BY <1>2, <1>7, <1>9, <2>2, <3>1, <3>2
  <2>3. CASE p \in 1 .. last /\ p # last
    <3>1. /\ u.view[p] \in Page /\ Fitting(u.view[p])
          /\ u.stored[p] \in Page /\ Fitting(u.stored[p])
          /\ u.view[p].next_page_id = NextPage(u, p)
          /\ p \notin u.marked => u.stored[p].next_page_id = NextPage(u, p)
      BY <1>1, <2>3, SoundFields
    <3>2. v.view[p] = u.view[p] /\ v.stored[p] = u.stored[p] /\ NextPage(v, p) = NextPage(u, p)
      BY <1>7, <1>9, <2>3
    <3>3. p \notin v.marked => p \notin u.marked
      BY <1>7
    <3>. QED  BY <3>1, <3>2, <3>3
  <2>. QED  BY <1>8, <2>1, <2>2, <2>3
<1>12. Sound(v)
  <2>1. n \in 2 .. MaxPages /\ \A p \in 1 .. last : p \in 1 .. n
    BY <1>1
  <2>2. IsFile(v)
    BY <1>1, <1>3, <1>4, <1>6, <1>7, <2>1 DEF IsFile
  <2>. QED  BY <1>3, <1>4, <1>6, <1>7, <1>11, <2>1, <2>2, SoundFields DEF Sound
<1>13. lastPage(v) = EmptyPage
  BY <1>6, <1>7 DEF lastPage
<1>14. \A p \in 1 .. last : p \in 1 .. n /\ v.view[p].slots = u.view[p].slots
  BY <1>1, <1>2, <1>7
<1>18. ASSUME NEW p \in 1 .. last, NEW k, Found(u.view[p], k)
       PROVE  Found(v.view[p], k)
  <2>1. Fitting(u.view[p]) /\ Fitting(v.view[p]) /\ v.view[p].slots = u.view[p].slots
    BY <1>1, <1>7, <1>12, <1>14, SoundFields
  <2>2. HasSlot(u.view[p], k) /\ ~u.view[p].slots[k + 1].deleted
    BY <1>18, <2>1, FoundBySlot
  <2>3. HasSlot(v.view[p], k) /\ ~v.view[p].slots[k + 1].deleted
    BY <2>1, <2>2 DEF HasSlot
  <2>. QED  BY <2>1, <2>3, FoundBySlot
<1>15. StillPresent(u, v)
  BY <1>1, <1>7, <1>14, <1>18 DEF StillPresent, Present
<1>16. ASSUME NEW at, NEW others, Kept(u, at, others)
       PROVE  Kept(v, at, others)
  <2>1. \A p \in 1 .. last : \A k, x : Holds(u.view[p], k, x) => Holds(v.view[p], k, x)
    BY <1>14, <1>18 DEF Holds
  <2>. QED  BY <1>1, <1>7, <1>14, <1>16, <2>1 DEF Kept
<1>17. \A p \in DOMAIN v.view : p # v.last_page_id =>
         p \in DOMAIN u.view /\ v.view[p].slots = u.view[p].slots /\ v.stored[p] = u.stored[p]
  BY <1>1, <1>6, <1>7, <1>8, <1>14
<1>. QED  BY <1>3, <1>4, <1>6, <1>12, <1>13, <1>15, <1>16, <1>17 DEF n, v

(* Setting the rids a scan starts and stops at.                            *)
WithRids(u, a, b) == [u EXCEPT !.starting_rid = a, !.stopping_rid = b]

LEMMA RidsTable ==
  ASSUME NEW u, Sound(u), NEW a \in RID, NEW b \in RID
  PROVE  /\ Sound(WithRids(u, a, b))
         /\ WithRids(u, a, b).view = u.view /\ WithRids(u, a, b).stored = u.stored
         /\ WithRids(u, a, b).marked = u.marked
         /\ WithRids(u, a, b).last_page_id = u.last_page_id
         /\ WithRids(u, a, b).starting_rid = a /\ WithRids(u, a, b).stopping_rid = b
         /\ \A at, others : Kept(u, at, others) => Kept(WithRids(u, a, b), at, others)
<1>. DEFINE v == WithRids(u, a, b)
<1>1. DOMAIN u = TableFields
  BY SoundFields
<1>2. /\ DOMAIN v = TableFields
      /\ v.view = u.view /\ v.stored = u.stored /\ v.marked = u.marked /\ v.known = u.known
      /\ v.first_page_id = u.first_page_id /\ v.last_page_id = u.last_page_id
      /\ v.starting_rid = a /\ v.stopping_rid = b
  BY <1>1 DEF TableFields, WithRids
<1>. HIDE DEF v
<1>3. Sound(v)
  BY <1>2, SoundFields, SoundTable
<1>4. \A at, others : Kept(u, at, others) => Kept(v, at, others)
  BY <1>2 DEF Kept
<1>. QED  BY <1>2, <1>3, <1>4 DEF v

(* The tuple, if it fits at all, is where insertTuple says; nothing else   *)
(* moves.                                                                  *)
Room(u, tuple) == Fits(lastPage(u), tuple) \/ HasRoom(u)

LEMMA PlaceType ==
  ASSUME NEW u, Sound(u), NEW tuple \in Tuples, Room(u, tuple)
  PROVE  placeOf(u, tuple) \in Place /\ insertedRID(u, tuple) \in RID
<1>1. /\ u.last_page_id \in PageId /\ Len(lastPage(u).slots) \in Nat
  BY SoundFields, PageFields
<1>2. CASE Fits(lastPage(u), tuple)
  BY <1>1, <1>2 DEF placeOf, insertedRID, Place, RID
<1>3. CASE ~Fits(lastPage(u), tuple)
  BY <1>1, <1>3 DEF placeOf, insertedRID, Place, RID, Room, HasRoom
<1>. QED  BY <1>2, <1>3

LEMMA InsertedTable ==
  ASSUME NEW u, Sound(u), NEW tuple \in Tuples, Room(u, tuple)
  PROVE  LET v == insertTuple(u, tuple)
         IN  /\ Sound(v) /\ StillPresent(u, v)
             /\ \A at, others : Kept(u, at, others) =>
                  Kept(v, Stored(at, placeOf(u, tuple), tuple), others)
             /\ v.last_page_id = insertedRID(u, tuple).page
             /\ v.stopping_rid = insertedRID(u, tuple)
             /\ v.starting_rid = IF u.starting_rid.page = -1 THEN insertedRID(u, tuple)
                                 ELSE u.starting_rid
             /\ u.last_page_id <= v.last_page_id
             /\ \A p \in DOMAIN v.view : p # v.last_page_id =>
                  p \in DOMAIN u.view /\ v.view[p].slots = u.view[p].slots
                  /\ v.stored[p] = u.stored[p]
<1>. DEFINE ready  == IF Fits(lastPage(u), tuple) THEN u ELSE extended(u)
            last   == ready.last_page_id
            fits   == Fits(lastPage(ready), tuple)
            page   == pageInsert(lastPage(ready), tuple)
            stored == IF fits THEN Written(ready, last, page) ELSE ready
            marked == Marked(stored, last)
            rid    == insertedRID(u, tuple)
            place  == placeOf(u, tuple)
            v      == insertTuple(u, tuple)
<1>1. /\ Sound(ready) /\ StillPresent(u, ready)
      /\ place.page = last /\ (fits => place.slot = Len(lastPage(ready).slots))
      /\ Fits(EmptyPage, tuple) => fits
      /\ \A at, others : Kept(u, at, others) => Kept(ready, at, others)
      /\ rid.page = last /\ u.last_page_id <= last
      /\ ready.starting_rid = u.starting_rid
      /\ \A p \in DOMAIN ready.view : p # last =>
           p \in DOMAIN u.view /\ ready.view[p].slots = u.view[p].slots
           /\ ready.stored[p] = u.stored[p]
  <2>1. CASE Fits(lastPage(u), tuple)
    BY <2>1, SoundFields DEF StillPresent, placeOf, insertedRID
  <2>2. CASE ~Fits(lastPage(u), tuple)
    <3>1. ready = extended(u) /\ place = [page |-> NewPageId(u), slot |-> 0]
      BY <2>2 DEF placeOf
    <3>2. HasRoom(u)
      BY <2>2 DEF Room
    <3>3. Len(EmptyPage.slots) = 0
      BY DEF EmptyPage
    <3>4. rid.page = NewPageId(u) /\ u.last_page_id <= NewPageId(u)
      BY <2>2, SoundFields DEF insertedRID
    <3>. QED  BY <3>1, <3>2, <3>3, <3>4, ExtendedTable
  <2>. QED  BY <2>1, <2>2
<1>2. rid \in RID /\ place \in Place
  BY PlaceType
<1>3. v = [marked EXCEPT !.starting_rid = IF @.page = -1 THEN rid ELSE @, !.stopping_rid = rid]
  BY DEF insertTuple
<1>. HIDE DEF ready, rid, place, v
<1>4. /\ last \in DOMAIN ready.view /\ lastPage(ready) = ready.view[last]
      /\ ready.view[last] \in Page /\ Fitting(ready.view[last])
  BY <1>1, SoundFields
<1>5. fits => /\ page \in Page /\ Fitting(page)
              /\ page.next_page_id = ready.view[last].next_page_id
              /\ Holds(page, Len(lastPage(ready).slots), tuple)
              /\ \A n, x : Holds(ready.view[last], n, x) => Holds(page, n, x)
  BY <1>4, PageInserted
<1>. HIDE DEF page, last
<1>6. /\ Sound(stored) /\ stored.last_page_id = last
      /\ DOMAIN stored.view = DOMAIN ready.view
      /\ stored.stored = ready.stored /\ stored.starting_rid = ready.starting_rid
      /\ fits => stored.view[last] = page
      /\ \A p \in DOMAIN ready.view : stored.view[p] = ready.view[p]
                                      \/ (fits /\ p = last /\ stored.view[p] = page)
  <2>1. CASE fits
    <3>1. stored = Written(ready, last, page)
      BY <2>1
    <3>2. /\ Sound(stored) /\ stored.last_page_id = ready.last_page_id
          /\ stored.view = [ready.view EXCEPT ![last] = page]
          /\ stored.stored = ready.stored /\ stored.starting_rid = ready.starting_rid
      BY <1>1, <1>4, <1>5, <2>1, <3>1, WrittenTable
    <3>. HIDE DEF stored
    <3>3. stored.last_page_id = last
      BY <3>2 DEF last
    <3>. QED  BY <1>4, <2>1, <3>2, <3>3
  <2>2. CASE ~fits
    BY <1>1, <2>2 DEF last
  <2>. QED  BY <2>1, <2>2
<1>7. ASSUME NEW at, NEW others, Kept(ready, at, others)
      PROVE  Kept(stored, at, others)
  <2>1. CASE fits
    BY <1>1, <1>4, <1>5, <1>7, <2>1, WrittenKept
  <2>2. CASE ~fits
    BY <1>7, <2>2
  <2>. QED  BY <2>1, <2>2
<1>. HIDE DEF stored
<1>8. /\ Sound(marked) /\ marked.view = stored.view
      /\ marked.starting_rid = stored.starting_rid /\ marked.stored = stored.stored
      /\ marked.last_page_id = stored.last_page_id
      /\ last \in marked.marked
      /\ \A at, others : Kept(stored, at, others) => Kept(marked, at, others)
  BY <1>4, <1>6, MarkedTable
<1>. HIDE DEF marked
<1>9. /\ Sound(v) /\ v.view = marked.view /\ v.marked = marked.marked
      /\ v.stored = marked.stored /\ v.last_page_id = marked.last_page_id
      /\ v.starting_rid = (IF marked.starting_rid.page = -1 THEN rid ELSE marked.starting_rid)
      /\ v.stopping_rid = rid
      /\ \A at, others : Kept(marked, at, others) => Kept(v, at, others)
  <2>. DEFINE start == IF marked.starting_rid.page = -1 THEN rid ELSE marked.starting_rid
  <2>1. start \in RID
    BY <1>2, <1>8, SoundFields
  <2>2. v = WithRids(marked, start, rid)
    BY <1>3 DEF WithRids
  <2>3. rid \in RID /\ Sound(marked)
    BY <1>2, <1>8
  <2>. HIDE DEF start, v
  <2>4. /\ Sound(v) /\ v.view = marked.view /\ v.marked = marked.marked
        /\ v.stored = marked.stored /\ v.last_page_id = marked.last_page_id
        /\ v.starting_rid = start /\ v.stopping_rid = rid
        /\ \A at, others : Kept(marked, at, others) => Kept(v, at, others)
    BY <2>1, <2>2, <2>3, RidsTable
  <2>. QED  BY <2>4 DEF start
<1>10. \A p \in DOMAIN ready.view : \A n : Found(ready.view[p], n) => Found(v.view[p], n)
  <2>1. fits => \A n : Found(ready.view[last], n) => Found(page, n)
    BY <1>5 DEF Holds
  <2>. QED  BY <1>6, <1>8, <1>9, <2>1
<1>11. StillPresent(u, v)
  BY <1>1, <1>6, <1>8, <1>9, <1>10 DEF StillPresent, Present
<1>12. ASSUME NEW at, NEW others, Kept(u, at, others)
       PROVE  Kept(v, Stored(at, place, tuple), others)
  <2>1. Kept(v, at, others)
    BY <1>1, <1>7, <1>8, <1>9, <1>12
  <2>2. CASE Fits(EmptyPage, tuple)
    <3>1. Stored(at, place, tuple) = Put(at, place, tuple)
      BY <2>2 DEF Stored
    <3>2. fits /\ v.view[place.page] = page /\ place.page \in DOMAIN v.view
      BY <1>1, <1>4, <1>6, <1>8, <1>9, <2>2
    <3>3. Holds(v.view[place.page], place.slot, tuple) /\ place.page \in v.marked
      BY <1>1, <1>5, <1>8, <1>9, <3>2
    <3>4. \A r \in DOMAIN Put(at, place, tuple) \ others :
            \/ r = place /\ Put(at, place, tuple)[r] = tuple
            \/ r \in DOMAIN at \ others /\ Put(at, place, tuple)[r] = at[r]
      BY DEF Put
    <3>. HIDE DEF fits
    <3>. QED  BY <2>1, <3>1, <3>2, <3>3, <3>4 DEF Kept
  <2>3. CASE ~Fits(EmptyPage, tuple)
    BY <2>1, <2>3 DEF Stored
  <2>. QED  BY <2>2, <2>3
<1>13. /\ v.last_page_id = rid.page /\ v.stopping_rid = rid
       /\ v.starting_rid = (IF u.starting_rid.page = -1 THEN rid ELSE u.starting_rid)
       /\ u.last_page_id <= v.last_page_id
  BY <1>1, <1>6, <1>8, <1>9
<1>14. \A p \in DOMAIN v.view : p # v.last_page_id =>
         p \in DOMAIN u.view /\ v.view[p].slots = u.view[p].slots /\ v.stored[p] = u.stored[p]
  BY <1>1, <1>6, <1>8, <1>9
<1>. QED  BY <1>9, <1>11, <1>12, <1>13, <1>14 DEF v, place, rid

(* Deleting a tuple, and writing over one.                                 *)
LEMMA ChangedPage ==
  ASSUME NEW u, Sound(u), NEW rid \in Place, rid.page \in DOMAIN u.view,
         NEW page \in Page, Fitting(page),
         page.next_page_id = u.view[rid.page].next_page_id,
         \A m, x : m # rid.slot /\ Holds(u.view[rid.page], m, x) => Holds(page, m, x),
         NEW at, DOMAIN at \subseteq Place, NEW others, Kept(u, at, others)
  PROVE  Kept(Written(u, rid.page, page), at, others \cup {rid})
<1>1. Kept(u, at, others \cup {rid})
  BY DEF Kept
<1>2. ASSUME NEW r \in DOMAIN at \ (others \cup {rid}), r.page = rid.page
      PROVE  r.slot # rid.slot
  <2>1. r \in Place /\ r # rid
    OBVIOUS
  <2>. QED  BY <1>2, <2>1 DEF Place
<1>. QED  BY <1>1, <1>2, WrittenKept

LEMMA DeletedTable ==
  ASSUME NEW u, Sound(u), NEW rid \in Place, rid.page \in DOMAIN u.view
  PROVE  LET v == deleteTuple(u, rid)
         IN  /\ Sound(v) /\ DOMAIN v.view = DOMAIN u.view
             /\ v.last_page_id = u.last_page_id
             /\ lastPage(v).free_space_pointer = lastPage(u).free_space_pointer
             /\ Len(lastPage(v).slots) = Len(lastPage(u).slots)
             /\ \A r \in Place : r # rid /\ r.page \in DOMAIN u.view /\ Present(u, r) =>
                  Present(v, r)
             /\ \A at, others : DOMAIN at \subseteq Place /\ Kept(u, at, others) =>
                  Kept(v, at, others \cup {rid})
<1>. DEFINE old == u.view[rid.page]
            page == pageDelete(old, rid.slot)
            v == deleteTuple(u, rid)
<1>1. old \in Page /\ Fitting(old) /\ rid.slot \in Nat
  BY SoundFields DEF Place
<1>2. /\ page \in Page /\ Fitting(page) /\ page.next_page_id = old.next_page_id
      /\ page.free_space_pointer = old.free_space_pointer
      /\ Len(page.slots) = Len(old.slots)
      /\ \A m, x : m # rid.slot /\ Holds(old, m, x) => Holds(page, m, x)
      /\ \A m : m # rid.slot /\ Found(old, m) => Found(page, m)
  BY <1>1, PageDeleted
<1>3. v = Written(u, rid.page, page)
  BY DEF deleteTuple
<1>. HIDE DEF page, v
<1>4. /\ Sound(v) /\ v.last_page_id = u.last_page_id
      /\ v.view = [u.view EXCEPT ![rid.page] = page]
  BY <1>2, <1>3, WrittenTable
<1>5. /\ DOMAIN v.view = DOMAIN u.view /\ v.view[rid.page] = page
      /\ \A p \in DOMAIN u.view : p # rid.page => v.view[p] = u.view[p]
  BY <1>4
<1>6. /\ lastPage(v).free_space_pointer = lastPage(u).free_space_pointer
      /\ Len(lastPage(v).slots) = Len(lastPage(u).slots)
  <2>1. u.last_page_id \in DOMAIN u.view
    BY SoundFields
  <2>. QED  BY <1>2, <1>4, <1>5, <2>1 DEF lastPage
<1>7. ASSUME NEW r \in Place, r # rid, r.page \in DOMAIN u.view, Present(u, r)
      PROVE  Present(v, r)
  <2>1. r.page = rid.page => r.slot # rid.slot
    BY <1>7 DEF Place
  <2>. QED  BY <1>2, <1>5, <1>7, <2>1 DEF Present
<1>8. ASSUME NEW at, NEW others, DOMAIN at \subseteq Place, Kept(u, at, others)
      PROVE  Kept(v, at, others \cup {rid})
  BY <1>2, <1>3, <1>8, ChangedPage
<1>. QED  BY <1>4, <1>5, <1>6, <1>7, <1>8 DEF v

LEMMA OverwrittenTable ==
  ASSUME NEW u, Sound(u), NEW rid \in Place, rid.page \in DOMAIN u.view, Present(u, rid),
         NEW tuple \in Tuples, ~Grows(u, rid, tuple)
  PROVE  LET v == Written(u, rid.page, pageOverwrite(u.view[rid.page], rid.slot, tuple))
         IN  /\ Sound(v) /\ StillPresent(u, v)
             /\ \A at, others : DOMAIN at \subseteq Place /\ Kept(u, at, others) =>
                  Kept(v, at, others \cup {rid})
<1>. DEFINE old == u.view[rid.page]
            page == pageOverwrite(old, rid.slot, tuple)
            v == Written(u, rid.page, page)
<1>1. old \in Page /\ Fitting(old) /\ rid.slot \in Nat /\ Found(old, rid.slot)
  BY SoundFields DEF Place, Present
<1>2. TupleSize[tuple] <= TupleSize[old.slots[rid.slot + 1].tuple]
  <2>1. old.slots[rid.slot + 1].tuple \in Tuples
    <3>1. rid.slot \in 0 .. Len(old.slots) - 1
      BY <1>1 DEF Found, HasSlot
    <3>2. rid.slot + 1 \in DOMAIN old.slots
      BY <1>1, <3>1, PageFields
    <3>. QED  BY <1>1, <3>2, PageFields
  <2>2. TupleSize[tuple] \in Nat /\ TupleSize[old.slots[rid.slot + 1].tuple] \in Nat
    BY <2>1, PaddedSize
  <2>3. ~(TupleSize[old.slots[rid.slot + 1].tuple] < TupleSize[tuple])
    BY DEF Grows, getTuple
  <2>. HIDE DEF old
  <2>. QED  BY <2>2, <2>3
<1>3. /\ page \in Page /\ Fitting(page) /\ page.next_page_id = old.next_page_id
      /\ \A m, x : m # rid.slot /\ Holds(old, m, x) => Holds(page, m, x)
      /\ \A m : Found(old, m) => Found(page, m)
  BY <1>1, <1>2, PageOverwritten
<1>. HIDE DEF page
<1>4. Sound(v) /\ v.view = [u.view EXCEPT ![rid.page] = page]
  BY <1>3, WrittenTable
<1>5. ASSUME NEW at, NEW others, DOMAIN at \subseteq Place, Kept(u, at, others)
      PROVE  Kept(v, at, others \cup {rid})
  BY <1>3, <1>5, ChangedPage
<1>. HIDE DEF v
<1>6. /\ DOMAIN v.view = DOMAIN u.view /\ v.view[rid.page] = page
      /\ \A p \in DOMAIN u.view : p # rid.page => v.view[p] = u.view[p]
  BY <1>4
<1>7. StillPresent(u, v)
  BY <1>3, <1>6 DEF StillPresent, Present
<1>. QED  BY <1>4, <1>5, <1>7 DEF v, page

(* The history of a table that was updated.                                *)
LEMMA HistoryType ==
  ASSUME NEW at, DOMAIN at \subseteq Place, Range(at) \subseteq Tuples,
         NEW place \in Place, NEW tuple \in Tuples
  PROVE  /\ DOMAIN Put(at, place, tuple) \subseteq Place
         /\ Range(Put(at, place, tuple)) \subseteq Tuples
         /\ DOMAIN Stored(at, place, tuple) \subseteq Place
         /\ Range(Stored(at, place, tuple)) \subseteq Tuples
         /\ DOMAIN Erase(at, place) \subseteq Place
         /\ Range(Erase(at, place)) \subseteq Tuples
<1>1. /\ DOMAIN Put(at, place, tuple) \subseteq Place
      /\ Range(Put(at, place, tuple)) \subseteq Tuples
  BY DEF Put, Range
<1>2. DOMAIN Erase(at, place) \subseteq Place /\ Range(Erase(at, place)) \subseteq Tuples
  BY DEF Erase, Restrict, Range
<1>. QED  BY <1>1, <1>2 DEF Stored

(* An update; other rids keep their tuples.                                *)
LEMMA UpdatedTable ==
  ASSUME NEW u, Sound(u), NEW rid \in Place, rid.page \in DOMAIN u.view, Present(u, rid),
         NEW tuple \in Tuples, Grows(u, rid, tuple) => Room(u, tuple),
         NEW at, DOMAIN at \subseteq Place, Range(at) \subseteq Tuples,
         NEW others, Kept(u, at, others)
  PROVE  LET v == updateTuple(u, rid, tuple)
             new == Replaced(u, at, rid, tuple)
         IN  /\ Sound(v)
             /\ \A r \in Place : r # rid /\ r.page \in DOMAIN u.view /\ Present(u, r) =>
                  r.page \in DOMAIN v.view /\ Present(v, r)
             /\ Kept(v, new, others \cup {rid})
             /\ DOMAIN new \subseteq Place /\ Range(new) \subseteq Tuples
<1>. DEFINE v == updateTuple(u, rid, tuple)
            new == Replaced(u, at, rid, tuple)
<1>1. CASE Grows(u, rid, tuple)
  <2>. DEFINE w == deleteTuple(u, rid)
              erased == Erase(at, rid)
              place == placeOf(u, tuple)
  <2>1. v = insertTuple(w, tuple) /\ new = Stored(erased, place, tuple)
    BY <1>1 DEF updateTuple, deleteTuple, Replaced
  <2>2. /\ Sound(w) /\ DOMAIN w.view = DOMAIN u.view /\ w.last_page_id = u.last_page_id
        /\ lastPage(w).free_space_pointer = lastPage(u).free_space_pointer
        /\ Len(lastPage(w).slots) = Len(lastPage(u).slots)
        /\ \A r \in Place : r # rid /\ r.page \in DOMAIN u.view /\ Present(u, r) =>
             Present(w, r)
        /\ Kept(w, at, others \cup {rid})
    BY DeletedTable
  <2>. HIDE DEF w
  <2>3. /\ Fits(lastPage(w), tuple) <=> Fits(lastPage(u), tuple)
        /\ NewPageId(w) = NewPageId(u)
    BY <2>2 DEF Fits, FreeSize, NewPageId
  <2>4. Room(w, tuple) /\ placeOf(w, tuple) = place
    BY <1>1, <2>2, <2>3 DEF Room, HasRoom, placeOf, insertedRID
  <2>5. Kept(w, erased, others \cup {rid})
    <3>1. \A r \in DOMAIN erased : r \in DOMAIN at /\ erased[r] = at[r]
      BY DEF Erase, Restrict
    <3>. HIDE DEF erased
    <3>. QED  BY <2>2, <3>1 DEF Kept
  <2>6. DOMAIN erased \subseteq Place /\ Range(erased) \subseteq Tuples
    BY HistoryType
  <2>7. place \in Place
    BY <1>1, PlaceType
  <2>. HIDE DEF erased, place
  <2>8. Sound(v) /\ StillPresent(w, v) /\ Kept(v, new, others \cup {rid})
    BY <2>1, <2>2, <2>4, <2>5, InsertedTable
  <2>9. DOMAIN new \subseteq Place /\ Range(new) \subseteq Tuples
    BY <2>1, <2>6, <2>7, HistoryType
  <2>10. \A r \in Place : r # rid /\ r.page \in DOMAIN u.view /\ Present(u, r) =>
           r.page \in DOMAIN v.view /\ Present(v, r)
    BY <2>2, <2>8 DEF StillPresent
  <2>. QED  BY <2>8, <2>9, <2>10
<1>2. CASE ~Grows(u, rid, tuple)
  <2>1. /\ v = Written(u, rid.page, pageOverwrite(u.view[rid.page], rid.slot, tuple))
        /\ new = Put(at, rid, tuple)
    BY <1>2 DEF updateTuple, Replaced
  <2>2. Sound(v) /\ StillPresent(u, v) /\ Kept(v, at, others \cup {rid})
    BY <1>2, <2>1, OverwrittenTable
  <2>. HIDE DEF v
  <2>3. Kept(v, new, others \cup {rid})
    <3>1. \A r \in DOMAIN new : r # rid => r \in DOMAIN at /\ new[r] = at[r]
      BY <2>1 DEF Put
    <3>. HIDE DEF new
    <3>. QED  BY <2>2, <3>1 DEF Kept
  <2>4. DOMAIN new \subseteq Place /\ Range(new) \subseteq Tuples
    BY <2>1, HistoryType
  <2>. QED  BY <2>2, <2>3, <2>4 DEF StillPresent, v
<1>. QED  BY <1>1, <1>2

---------------------------------------------------------------------------
(* The chain.                                                              *)

WalkStep(u, at) ==
  [n \in 0 .. MaxPages |->
     IF n = 0 THEN u.first_page_id
     ELSE IF at[n - 1] \in DOMAIN u.view THEN u.view[at[n - 1]].next_page_id ELSE -1]

(* The pages are linked in order, and the last of them to another.         *)
Linked(u, last, past) ==
  /\ u.first_page_id = 1 /\ last \in 1 .. MaxPages /\ DOMAIN u.view = 1 .. last
  /\ \A p \in 1 .. last : u.view[p].next_page_id = IF p < last THEN p + 1 ELSE past

(* The walk along next_page_id meets the pages in the order of their       *)
(* numbers, then what the last one names, and ends there if that is none.  *)
LEMMA WalkAlong ==
  ASSUME NEW u, NEW last, NEW past \in Int, past \notin 1 .. last, Linked(u, last, past)
  PROVE  Walk(u) = [n \in 0 .. MaxPages |-> IF n < last THEN n + 1
                                            ELSE IF n = last THEN past ELSE -1]
<1>. DEFINE walk == [n \in 0 .. MaxPages |-> IF n < last THEN n + 1
                                              ELSE IF n = last THEN past ELSE -1]
            at   == Walk(u)
<1>1. /\ u.first_page_id = 1 /\ last \in Nat /\ last >= 1 /\ last <= MaxPages /\ MaxPages \in Nat
      /\ DOMAIN u.view = 1 .. last
      /\ \A p \in 1 .. last : u.view[p].next_page_id = IF p < last THEN p + 1 ELSE past
  BY PagesAssumption DEF Linked
<1>2. ASSUME NEW f, NEW n \in 1 .. MaxPages, f[n - 1] = walk[n - 1]
      PROVE  WalkStep(u, f)[n] = walk[n]
  <2>1. /\ n \in 0 .. MaxPages /\ n # 0 /\ n - 1 \in 0 .. MaxPages
        /\ walk[n - 1] = (IF n - 1 < last THEN n ELSE IF n - 1 = last THEN past ELSE -1)
        /\ walk[n] = (IF n < last THEN n + 1 ELSE IF n = last THEN past ELSE -1)
    BY <1>1
  <2>2. WalkStep(u, f)[n] = IF f[n - 1] \in DOMAIN u.view
                            THEN u.view[f[n - 1]].next_page_id ELSE -1
    BY <2>1 DEF WalkStep
  <2>. HIDE DEF walk
  <2>3. CASE n - 1 < last
    <3>1. f[n - 1] = n /\ n \in 1 .. last
      BY <1>1, <1>2, <2>1, <2>3
    <3>. QED  BY <1>1, <2>1, <2>2, <3>1
  <2>4. CASE ~(n - 1 < last)
    <3>1. f[n - 1] \notin 1 .. last /\ ~(n < last) /\ n # last
      BY <1>1, <1>2, <2>1, <2>4
    <3>. QED  BY <1>1, <2>1, <2>2, <3>1
  <2>. QED  BY <2>3, <2>4
<1>3. \A f : WalkStep(u, f)[0] = walk[0]
  BY <1>1 DEF WalkStep
<1>4. /\ DOMAIN walk = 0 .. MaxPages
      /\ \A f : DOMAIN WalkStep(u, f) = 0 .. MaxPages
  BY DEF WalkStep
<1>5. walk = WalkStep(u, walk)
  <2>1. \A n \in 0 .. MaxPages : n = 0 \/ n \in 1 .. MaxPages
    BY <1>1
  <2>2. \A n \in 0 .. MaxPages : WalkStep(u, walk)[n] = walk[n]
    BY <1>2, <1>3, <2>1
  <2>3. WalkStep(u, walk) = [n \in 0 .. MaxPages |-> WalkStep(u, walk)[n]]
    BY DEF WalkStep
  <2>4. walk = [n \in 0 .. MaxPages |-> walk[n]]
    OBVIOUS
  <2>. HIDE DEF walk
  <2>. QED  BY <2>2, <2>3, <2>4
<1>6. at = CHOOSE f : f = WalkStep(u, f)
  BY DEF Walk, WalkStep
<1>. HIDE DEF walk, at
<1>7. at = WalkStep(u, at)
  BY <1>5, <1>6
<1>8. \A n \in 0 .. MaxPages : at[n] = walk[n]
  <2>. DEFINE S == {n \in 0 .. MaxPages : at[n] # walk[n]}
  <2>1. SUFFICES ASSUME S # {} PROVE FALSE
    OBVIOUS
  <2>2. S \in SUBSET Nat
    BY <1>1
  <2>3. PICK n \in S : \A k \in S : n <= k
    BY <2>1, <2>2, LeastNumber
  <2>4. n # 0
    BY <1>3, <1>7
  <2>5. n \in 1 .. MaxPages /\ n - 1 \in 0 .. MaxPages /\ n - 1 \notin S
    BY <1>1, <2>2, <2>3, <2>4
  <2>6. at[n - 1] = walk[n - 1]
    BY <2>5
  <2>7. WalkStep(u, at)[n] = walk[n]
    BY <1>2, <2>5, <2>6
  <2>. QED  BY <1>7, <2>3, <2>7
<1>9. at = [n \in 0 .. MaxPages |-> at[n]]
  <2>1. WalkStep(u, at) = [n \in 0 .. MaxPages |-> WalkStep(u, at)[n]]
    BY DEF WalkStep
  <2>. QED  BY <1>7, <2>1
<1>10. walk = [n \in 0 .. MaxPages |-> walk[n]]
  BY DEF walk
<1>11. at = walk
  BY <1>8, <1>9, <1>10
<1>. QED  BY <1>11 DEF at, walk

LEMMA WalkInOrder ==
  ASSUME NEW u, Sound(u)
  PROVE  Walk(u) = [n \in 0 .. MaxPages |-> IF n < u.last_page_id THEN n + 1 ELSE -1]
<1>. DEFINE last == u.last_page_id
<1>1. last \in Nat /\ Linked(u, last, -1)
  BY SoundFields DEF NextPage, Linked
<1>. HIDE DEF last
<1>2. Walk(u) = [n \in 0 .. MaxPages |-> IF n < last THEN n + 1
                                         ELSE IF n = last THEN -1 ELSE -1]
  <2>1. -1 \in Int /\ -1 \notin 1 .. last
    BY <1>1
  <2>. QED  BY <1>1, <2>1, WalkAlong
<1>. QED  BY <1>2 DEF last

(* A chain whose last link leads out of the directory cannot be loaded.    *)
LEMMA LinkedPastEnd ==
  ASSUME NEW u, NEW last, Linked(u, last, last + 1)
  PROVE  ~ChainIntact(u)
<1>. DEFINE at == Walk(u)
<1>1. /\ last \in Nat /\ last >= 1 /\ last <= MaxPages /\ MaxPages \in Nat
      /\ DOMAIN u.view = 1 .. last
  BY PagesAssumption DEF Linked
<1>2. at = [n \in 0 .. MaxPages |-> IF n < last THEN n + 1
                                    ELSE IF n = last THEN last + 1 ELSE -1]
  <2>1. last + 1 \in Int /\ last + 1 \notin 1 .. last
    BY <1>1
  <2>. QED  BY <2>1, WalkAlong
<1>3. Chain(u) = [n \in 1 .. Cardinality({k \in 0 .. MaxPages : at[k] # -1}) |-> at[n - 1]]
  BY DEF Chain
<1>. HIDE DEF at
<1>4. {k \in 0 .. MaxPages : at[k] # -1} = 0 .. last
  <2>1. \A k \in 0 .. MaxPages : at[k] # -1 <=> k <= last
    BY <1>1, <1>2
  <2>. QED  BY <1>1, <2>1
<1>5. Cardinality(0 .. last) = last + 1
  BY <1>1, FS_Interval
<1>6. Chain(u)[last + 1] = last + 1 /\ last + 1 \in DOMAIN Chain(u)
  <2>1. Chain(u) = [n \in 1 .. last + 1 |-> at[n - 1]]
    BY <1>3, <1>4, <1>5
  <2>2. at[last] = last + 1
    BY <1>1, <1>2
  <2>. DEFINE past == last + 1
  <2>3. past \in 1 .. past /\ past - 1 = last
    BY <1>1
  <2>4. Chain(u) = [n \in 1 .. past |-> at[n - 1]]
    BY <2>1
  <2>5. at[last] = past
    BY <2>2
  <2>. HIDE DEF past
  <2>6. Chain(u)[past] = past /\ past \in DOMAIN Chain(u)
    BY <2>3, <2>4, <2>5
  <2>. QED  BY <2>6 DEF past
<1>7. last + 1 \in Range(Chain(u))
  BY <1>6 DEF Range
<1>. QED  BY <1>1, <1>7 DEF ChainIntact

LEMMA ChainInOrder ==
  ASSUME NEW u, Sound(u)
  PROVE  /\ Chain(u) = [n \in 1 .. u.last_page_id |-> n]
         /\ Range(Chain(u)) = DOMAIN u.view
         /\ Walk(u)[MaxPages] = -1
<1>. DEFINE last == u.last_page_id
            at == Walk(u)
<1>1. /\ last \in Nat /\ last >= 2 /\ last <= MaxPages /\ MaxPages \in Nat
      /\ DOMAIN u.view = 1 .. last
  BY SoundFields
<1>2. at = [n \in 0 .. MaxPages |-> IF n < last THEN n + 1 ELSE -1]
  BY WalkInOrder
<1>3. Chain(u) = [n \in 1 .. Cardinality({k \in 0 .. MaxPages : at[k] # -1}) |-> at[n - 1]]
  BY DEF Chain
<1>. HIDE DEF last, at
<1>4. {k \in 0 .. MaxPages : at[k] # -1} = 0 .. last - 1
  <2>1. \A k \in 0 .. MaxPages : at[k] # -1 <=> k < last
    BY <1>1, <1>2
  <2>. QED  BY <1>1, <2>1
<1>5. Cardinality(0 .. last - 1) = last
  BY <1>1, FS_Interval
<1>6. \A n \in 1 .. last : at[n - 1] = n
  BY <1>1, <1>2
<1>7. Chain(u) = [n \in 1 .. last |-> n]
  BY <1>3, <1>4, <1>5, <1>6
<1>8. Range(Chain(u)) = 1 .. last
  BY <1>7 DEF Range
<1>9. at[MaxPages] = -1
  BY <1>1, <1>2
<1>. QED  BY <1>1, <1>7, <1>8, <1>9 DEF last, at

(* What ChainWellFormed says of a table.                                   *)
LEMMA ChainOfSound ==
  ASSUME NEW u, Sound(u)
  PROVE  /\ ChainIntact(u) /\ IsInjective(Chain(u))
         /\ Range(Chain(u)) = DOMAIN u.view /\ Last(Chain(u)) = u.last_page_id
<1>. DEFINE last == u.last_page_id
<1>1. Chain(u) = [n \in 1 .. last |-> n] /\ last \in Nat /\ last >= 2
  BY ChainInOrder, SoundFields
<1>2. ChainIntact(u)
  BY ChainInOrder DEF ChainIntact
<1>. HIDE DEF last
<1>3. IsInjective(Chain(u))
  BY <1>1 DEF IsInjective
<1>4. Last(Chain(u)) = last
  <2>1. Len(Chain(u)) = last
    BY <1>1
  <2>. QED  BY <1>1, <2>1 DEF Last
<1>. QED  BY <1>2, <1>3, <1>4, ChainInOrder DEF last

---------------------------------------------------------------------------
(* Opening, closing and destroying a table.                                *)

LEMMA NewTableSound ==
  /\ Sound(NewTable)
  /\ \A others : Kept(NewTable, EmptyMap, others)
  /\ Bounded(NewTable)
<1>. DEFINE none == [view |-> EmptyMap, stored |-> EmptyMap, marked |-> {}, known |-> {},
                     first_page_id |-> 1, last_page_id |-> 2,
                     starting_rid |-> NoRID, stopping_rid |-> NoRID]
            one  == newPage(none)
            two  == newPage(one)
            page == [EmptyPage EXCEPT !.next_page_id = 2]
            w    == Written(two, 1, page)
            v    == Marked(w, 1)
<1>1. /\ DOMAIN none = TableFields
      /\ none.first_page_id = 1 /\ none.last_page_id = 2
      /\ none.starting_rid = NoRID /\ none.stopping_rid = NoRID
      /\ none.view = EmptyMap /\ none.stored = EmptyMap
      /\ none.marked = {} /\ none.known = {}
  BY DEF TableFields
<1>. HIDE DEF none
<1>2. DOMAIN EmptyMap = {}
  BY DEF EmptyMap
<1>3. NewPageId(none) = 1
  <2>1. Cardinality({}) = 0
    BY FS_EmptySet
  <2>. QED  BY <1>1, <1>2, <2>1 DEF NewPageId
<1>4. /\ DOMAIN one = TableFields
      /\ one.first_page_id = 1 /\ one.last_page_id = 2
      /\ one.starting_rid = NoRID /\ one.stopping_rid = NoRID
      /\ one.view = Put(EmptyMap, 1, EmptyPage) /\ one.stored = Put(EmptyMap, 1, EmptyPage)
      /\ one.marked = {} /\ one.known = {}
  BY <1>1, <1>3 DEF newPage, Extended, TableFields
<1>. HIDE DEF one
<1>5. DOMAIN one.view = {1} /\ one.view[1] = EmptyPage /\ one.stored = one.view
  BY <1>2, <1>4 DEF Put
<1>6. NewPageId(one) = 2
  <2>1. Cardinality({1}) = 1
    BY FS_Singleton
  <2>. QED  BY <1>5, <2>1 DEF NewPageId
<1>7. /\ DOMAIN two = TableFields
      /\ two.first_page_id = 1 /\ two.last_page_id = 2
      /\ two.starting_rid = NoRID /\ two.stopping_rid = NoRID
      /\ two.view = Put(one.view, 2, EmptyPage) /\ two.stored = Put(one.stored, 2, EmptyPage)
      /\ two.marked = {} /\ two.known = {}
  BY <1>4, <1>6 DEF newPage, Extended, TableFields
<1>. HIDE DEF two
<1>8. /\ DOMAIN two.view = {1, 2} /\ DOMAIN two.stored = {1, 2}
      /\ two.view[1] = EmptyPage /\ two.view[2] = EmptyPage
      /\ two.stored[1] = EmptyPage /\ two.stored[2] = EmptyPage
  BY <1>5, <1>7 DEF Put
<1>9. /\ DOMAIN w = TableFields
      /\ w.first_page_id = 1 /\ w.last_page_id = 2
      /\ w.starting_rid = NoRID /\ w.stopping_rid = NoRID
      /\ w.view = [two.view EXCEPT ![1] = page] /\ w.stored = two.stored
      /\ w.marked = {} /\ w.known = {}
  BY <1>7 DEF Written, TableFields
<1>. HIDE DEF w, page
<1>10. /\ DOMAIN v = TableFields
       /\ v.first_page_id = 1 /\ v.last_page_id = 2
       /\ v.starting_rid = NoRID /\ v.stopping_rid = NoRID
       /\ v.view = w.view /\ v.stored = two.stored
       /\ v.marked = {1} /\ v.known = {}
  BY <1>9 DEF Marked, TableFields
<1>11. v = NewTable
  BY DEF NewTable, v, w, two, one, none, page
<1>. HIDE DEF v
<1>12. /\ DOMAIN v.view = {1, 2} /\ DOMAIN v.stored = {1, 2}
       /\ v.view[1] = page /\ v.view[2] = EmptyPage
       /\ v.stored[1] = EmptyPage /\ v.stored[2] = EmptyPage
  BY <1>8, <1>9, <1>10
<1>13. EmptyPage \in Page /\ Fitting(EmptyPage) /\ EmptyPage.next_page_id = -1
  BY EmptyPageFits DEF EmptyPage
<1>14. page \in Page /\ Fitting(page) /\ page.next_page_id = 2
  <2>1. DOMAIN EmptyPage = {"next_page_id", "free_space_pointer", "slots", "flags", "meta"}
    BY <1>13, PageFields
  <2>2. /\ page.next_page_id = 2 /\ page.slots = EmptyPage.slots
        /\ page.free_space_pointer = EmptyPage.free_space_pointer
        /\ page.flags = EmptyPage.flags
    BY <2>1 DEF page
  <2>3. 2 \in PageId
    BY PagesAssumption DEF PageId
  <2>4. page \in Page
    BY <1>13, <2>3 DEF Page, page
  <2>5. Fitting(page)
    <3>. HIDE DEF page
    <3>. QED  BY <1>13, <2>2, SameBytes
  <2>. QED  BY <2>2, <2>4, <2>5
<1>15. NextPage(v, 1) = 2 /\ NextPage(v, 2) = -1
  BY <1>10 DEF NextPage
<1>16. Sound(v)
  <2>1. 2 \in 2 .. MaxPages /\ 1 .. 2 = {1, 2}
    BY PagesAssumption
  <2>2. NoRID \in RID
    BY DEF NoRID, RID
  <2>3. IsFile(v)
    BY <1>10, <1>12 DEF IsFile
  <2>4. \A p \in DOMAIN v.view :
          /\ v.view[p] \in Page /\ Fitting(v.view[p])
          /\ v.stored[p] \in Page /\ Fitting(v.stored[p])
          /\ v.view[p].next_page_id = NextPage(v, p)
          /\ p \notin v.marked => v.stored[p].next_page_id = NextPage(v, p)
    BY <1>10, <1>12, <1>13, <1>14, <1>15
  <2>. QED  BY <1>10, <1>12, <2>1, <2>2, <2>3, <2>4 DEF Sound
<1>17. \A others : Kept(v, EmptyMap, others)
  BY <1>2 DEF Kept
<1>18. Bounded(v)
  <2>1. page.slots = << >> /\ EmptyPage.slots = << >> /\ NoRID.page = -1
    BY DEF page, EmptyPage, NoRID
  <2>. QED  BY <1>10, <1>12, <2>1 DEF Bounded
<1>. QED  BY <1>11, <1>16, <1>17, <1>18

(* A closed table has its last page and its rids in the metadata page.     *)
LEMMA ClosedTable ==
  ASSUME NEW u, Sound(u)
  PROVE  LET v == Closed(u)
         IN  /\ Sound(v) /\ v.first_page_id = u.first_page_id
             /\ v.last_page_id = u.last_page_id
             /\ v.view[1].meta = [last_page_id |-> u.last_page_id,
                                  starting_rid |-> u.starting_rid,
                                  stopping_rid |-> u.stopping_rid]
             /\ v.starting_rid = u.starting_rid /\ v.stopping_rid = u.stopping_rid
             /\ \A at, others : Kept(u, at, others) => Kept(v, at, others)
             /\ Bounded(u) => Bounded(v)
<1>. DEFINE meta == [last_page_id |-> u.last_page_id, starting_rid |-> u.starting_rid,
                     stopping_rid |-> u.stopping_rid]
            page == [u.view[1] EXCEPT !.meta = meta]
            w    == Written(u, 1, page)
            m    == Marked(w, 1)
            e    == Evicted(m, DOMAIN m.view)
            v    == Closed(u)
<1>1. /\ u.first_page_id = 1 /\ 1 \in DOMAIN u.view
      /\ u.view[1] \in Page /\ Fitting(u.view[1])
      /\ u.last_page_id \in PageId /\ u.starting_rid \in RID /\ u.stopping_rid \in RID
  BY SoundFields
<1>2. v = [e EXCEPT !.known = DOMAIN m.view]
  BY <1>1 DEF Closed, Flushed, saveMetaData
<1>3. meta \in [last_page_id : PageId \cup {-1}, starting_rid : RID, stopping_rid : RID]
  BY <1>1
<1>. HIDE DEF meta
<1>4. /\ page.next_page_id = u.view[1].next_page_id /\ page.slots = u.view[1].slots
      /\ page.free_space_pointer = u.view[1].free_space_pointer /\ page.meta = meta
      /\ page.flags = u.view[1].flags
      /\ page \in Page /\ Fitting(page)
  <2>1. DOMAIN u.view[1] = {"next_page_id", "free_space_pointer", "slots", "flags", "meta"}
    BY <1>1, PageFields
  <2>2. /\ page.next_page_id = u.view[1].next_page_id /\ page.slots = u.view[1].slots
        /\ page.free_space_pointer = u.view[1].free_space_pointer /\ page.meta = meta
        /\ page.flags = u.view[1].flags
    BY <2>1
  <2>3. page \in Page
    BY <1>1, <1>3 DEF Page
  <2>4. Fitting(page)
    <3>. HIDE DEF page
    <3>. QED  BY <1>1, <2>2, SameBytes
  <2>. QED  BY <2>2, <2>3, <2>4
<1>. HIDE DEF page
<1>5. \A n, x : Holds(u.view[1], n, x) => Holds(page, n, x)
  BY <1>1, <1>4, SameBytes
<1>6. /\ Sound(w) /\ w.view = [u.view EXCEPT ![1] = page]
      /\ w.first_page_id = u.first_page_id /\ w.last_page_id = u.last_page_id
      /\ w.starting_rid = u.starting_rid /\ w.stopping_rid = u.stopping_rid
      /\ w.stored = u.stored
  BY <1>1, <1>4, WrittenTable
<1>7. ASSUME NEW at, NEW others, Kept(u, at, others)
      PROVE  Kept(w, at, others)
  BY <1>1, <1>4, <1>5, <1>7, WrittenKept
<1>. HIDE DEF w
<1>8. /\ Sound(m) /\ m.view = w.view /\ 1 \in m.marked
      /\ m.first_page_id = w.first_page_id /\ m.last_page_id = w.last_page_id
      /\ m.starting_rid = w.starting_rid /\ m.stopping_rid = w.stopping_rid
      /\ m.stored = w.stored
      /\ \A at, others : Kept(w, at, others) => Kept(m, at, others)
  BY <1>1, <1>6, MarkedTable
<1>. HIDE DEF m
<1>9. /\ Sound(e) /\ DOMAIN e.view = DOMAIN m.view
      /\ e.first_page_id = m.first_page_id /\ e.last_page_id = m.last_page_id
      /\ e.starting_rid = m.starting_rid /\ e.stopping_rid = m.stopping_rid
      /\ \A p \in DOMAIN m.view : {e.view[p], e.stored[p]} \subseteq {m.view[p], m.stored[p]}
      /\ \A p \in DOMAIN m.view : p \in m.marked => e.view[p] = m.view[p]
      /\ \A at, others : Kept(m, at, others) => Kept(e, at, others)
  BY <1>8, EvictedTable
<1>. HIDE DEF e, v
<1>10. DOMAIN e = TableFields /\ DOMAIN e.stored = DOMAIN e.view
  BY <1>9, SoundFields
<1>11. /\ DOMAIN v = TableFields
       /\ v.view = e.view /\ v.stored = e.stored /\ v.marked = e.marked
       /\ v.known = DOMAIN e.view
       /\ v.first_page_id = e.first_page_id /\ v.last_page_id = e.last_page_id
       /\ v.starting_rid = e.starting_rid /\ v.stopping_rid = e.stopping_rid
  BY <1>2, <1>9, <1>10 DEF TableFields
<1>12. Sound(v)
  <2>1. Sound(e)
    BY <1>9
  <2>2. /\ e.starting_rid \in RID /\ e.stopping_rid \in RID
        /\ e.marked \subseteq DOMAIN e.view
        /\ \A p \in DOMAIN e.view :
             /\ e.view[p] \in Page /\ Fitting(e.view[p])
             /\ e.stored[p] \in Page /\ Fitting(e.stored[p])
             /\ e.view[p].next_page_id = NextPage(e, p)
             /\ p \notin e.marked => e.stored[p].next_page_id = NextPage(e, p)
    BY <2>1, SoundFields
  <2>. QED  BY <1>10, <1>11, <2>1, <2>2, SoundTable
<1>13. \A at, others : Kept(e, at, others) => Kept(v, at, others)
  BY <1>11 DEF Kept
<1>14. v.view[1].meta = meta
  <2>1. 1 \in DOMAIN m.view /\ m.view[1] = page
    BY <1>1, <1>6, <1>8
  <2>. QED  BY <1>4, <1>8, <1>9, <1>11, <2>1
<1>15. /\ v.starting_rid = u.starting_rid /\ v.stopping_rid = u.stopping_rid
       /\ v.last_page_id = u.last_page_id
  BY <1>6, <1>8, <1>9, <1>11
<1>16. ASSUME Bounded(u) PROVE Bounded(v)
  <2>1. /\ DOMAIN w.view = DOMAIN u.view /\ w.view[1] = page
        /\ \A p \in DOMAIN u.view : p # 1 => w.view[p] = u.view[p]
    BY <1>1, <1>6
  <2>2. DOMAIN v.view = DOMAIN u.view
    BY <1>8, <1>9, <1>11, <2>1
  <2>3. ASSUME NEW p \in DOMAIN u.view, u.view[p].slots = << >>, u.stored[p].slots = << >>
        PROVE  v.view[p].slots = << >> /\ v.stored[p].slots = << >>
    <3>1. w.view[p].slots = << >> /\ w.stored[p].slots = << >>
      BY <1>4, <1>6, <2>1, <2>3
    <3>. QED  BY <1>8, <1>9, <1>11, <2>1, <3>1
  <2>. QED  BY <1>15, <1>16, <2>2, <2>3, StillBounded
<1>. QED  BY <1>6, <1>7, <1>8, <1>9, <1>11, <1>12, <1>13, <1>14, <1>15, <1>16 DEF v, meta

(* A table whose metadata names its last page can be loaded.               *)
LEMMA LoadedTable ==
  ASSUME NEW u, Sound(u), NEW a \in RID, NEW b \in RID,
         u.view[1].meta = [last_page_id |-> u.last_page_id,
                           starting_rid |-> a, stopping_rid |-> b]
  PROVE  LET v == loadMetaData(u)
         IN  /\ Sound(v) /\ v.first_page_id = u.first_page_id
             /\ \A at, others : Kept(u, at, others) => Kept(v, at, others)
             /\ Bounded(u) /\ a = u.starting_rid /\ b = u.stopping_rid => Bounded(v)
<1>. DEFINE v == loadMetaData(u)
<1>1. DOMAIN u = TableFields /\ u.first_page_id = 1
  BY SoundFields
<1>2. v = [u EXCEPT !.last_page_id = u.last_page_id, !.starting_rid = a, !.stopping_rid = b]
  <2>. DEFINE meta == u.view[u.first_page_id].meta
  <2>1. meta.last_page_id = u.last_page_id /\ meta.starting_rid = a /\ meta.stopping_rid = b
    BY <1>1
  <2>2. v = [u EXCEPT !.last_page_id = meta.last_page_id,
                      !.starting_rid = meta.starting_rid,
                      !.stopping_rid = meta.stopping_rid]
    BY DEF loadMetaData
  <2>. HIDE DEF meta, v
  <2>. QED  BY <2>1, <2>2
<1>. HIDE DEF v
<1>3. /\ DOMAIN v = TableFields
      /\ v.view = u.view /\ v.stored = u.stored /\ v.marked = u.marked /\ v.known = u.known
      /\ v.first_page_id = u.first_page_id /\ v.last_page_id = u.last_page_id
      /\ v.starting_rid = a /\ v.stopping_rid = b
  BY <1>1, <1>2 DEF TableFields
<1>4. Sound(v)
  BY <1>3, SoundFields, SoundTable
<1>5. \A at, others : Kept(u, at, others) => Kept(v, at, others)
  BY <1>3 DEF Kept
<1>6. Bounded(u) /\ a = u.starting_rid /\ b = u.stopping_rid => Bounded(v)
  BY <1>3, StillBounded
<1>. QED  BY <1>3, <1>4, <1>5, <1>6 DEF v

(* A table destroyed: the pool is done with its pages, and they are sound. *)
LEMMA DestroyedTable ==
  ASSUME NEW u, Sound(u)
  PROVE  LET v == deleteTableHeap(u)
         IN  /\ v.first_page_id = -1 /\ v.marked = {} /\ v.view = v.stored
             /\ Sound(Released(v))
             /\ \A at, others : Kept(u, at, others) => Kept(Released(v), at, others)
             /\ Bounded(u) => Bounded(Released(v))
<1>. DEFINE v == deleteTableHeap(u)
            e == Evicted(u, DOMAIN u.view)
<1>1. /\ DOMAIN u = TableFields /\ Range(Chain(u)) = DOMAIN u.view
      /\ DOMAIN u.view = 1 .. u.last_page_id /\ u.first_page_id = 1 /\ u.last_page_id \in Nat
      /\ u.marked \subseteq DOMAIN u.view
  BY SoundFields, ChainInOrder, PagesAssumption
<1>2. v = [e EXCEPT !.first_page_id = -1, !.last_page_id = -1]
  BY <1>1 DEF deleteTableHeap
<1>3. /\ DOMAIN e = TableFields
      /\ e.view = [p \in DOMAIN u.view |-> IF p \in u.marked THEN u.view[p] ELSE u.stored[p]]
      /\ e.stored = [p \in DOMAIN u.view |-> IF p \in u.marked THEN u.view[p] ELSE u.stored[p]]
      /\ e.marked = {}
  <2>1. \A p \in DOMAIN u.view : /\ p \in DOMAIN u.view \ u.marked <=> p \notin u.marked
                                 /\ p \in DOMAIN u.view \cap u.marked <=> p \in u.marked
    OBVIOUS
  <2>2. /\ DOMAIN e = TableFields /\ e.marked = u.marked \ DOMAIN u.view
        /\ e.view = [p \in DOMAIN u.view |->
                       IF p \in DOMAIN u.view \ u.marked THEN u.stored[p] ELSE u.view[p]]
        /\ e.stored = [p \in DOMAIN u.view |->
                         IF p \in DOMAIN u.view \cap u.marked THEN u.view[p] ELSE u.stored[p]]
    BY <1>1 DEF Evicted, TableFields
  <2>. HIDE DEF e
  <2>. QED  BY <1>1, <2>1, <2>2
<1>4. /\ Sound(e) /\ DOMAIN e.view = DOMAIN u.view
      /\ e.first_page_id = 1 /\ e.last_page_id = u.last_page_id
      /\ e.starting_rid = u.starting_rid /\ e.stopping_rid = u.stopping_rid
      /\ \A p \in DOMAIN u.view : {e.view[p], e.stored[p]} \subseteq {u.view[p], u.stored[p]}
      /\ \A at, others : Kept(u, at, others) => Kept(e, at, others)
  BY <1>1, EvictedTable
<1>5. Bounded(u) => Bounded(e)
  <2>1. \A p \in DOMAIN u.view : u.view[p].slots = << >> /\ u.stored[p].slots = << >> =>
          e.view[p].slots = << >> /\ e.stored[p].slots = << >>
    BY <1>4
  <2>. HIDE DEF e
  <2>. QED  BY <1>4, <2>1, StillBounded
<1>. HIDE DEF e
<1>6. /\ DOMAIN v = TableFields /\ v.first_page_id = -1
      /\ v.view = e.view /\ v.stored = e.stored /\ v.marked = e.marked /\ v.known = e.known
      /\ v.starting_rid = e.starting_rid /\ v.stopping_rid = e.stopping_rid
  BY <1>2, <1>3 DEF TableFields
<1>7. Cardinality(DOMAIN v.view) = u.last_page_id
  <2>1. DOMAIN v.view = 1 .. u.last_page_id
    BY <1>1, <1>4, <1>6
  <2>2. Cardinality(1 .. u.last_page_id) = u.last_page_id
    <3>1. u.last_page_id \in Nat /\ u.last_page_id \in Int /\ 1 \in Int
      BY <1>1
    <3>2. Cardinality(1 .. u.last_page_id)
            = IF 1 > u.last_page_id THEN 0 ELSE u.last_page_id - 1 + 1
      BY ONLY <3>1, FS_Interval
    <3>. QED  BY <3>1, <3>2
  <2>. QED  BY <2>1, <2>2
<1>. HIDE DEF v
<1>8. /\ DOMAIN Released(v) = TableFields
      /\ Released(v).first_page_id = 1 /\ Released(v).last_page_id = e.last_page_id
      /\ Released(v).view = e.view /\ Released(v).stored = e.stored
      /\ Released(v).marked = e.marked /\ Released(v).known = e.known
      /\ Released(v).starting_rid = e.starting_rid /\ Released(v).stopping_rid = e.stopping_rid
  BY <1>4, <1>6, <1>7 DEF Released, TableFields
<1>9. Released(v) = e
  <2>. DEFINE r == Released(v)
              Same(w) == w = [f \in TableFields |-> w[f]]
  <2>1. \A f \in TableFields : r[f] = e[f]
    BY <1>4, <1>8 DEF TableFields
  <2>2. Same(r) /\ Same(e)
    <3>1. DOMAIN e = TableFields /\ DOMAIN r = TableFields
      BY <1>3, <1>8
    <3>2. e = [f \in DOMAIN e |-> e[f]]
      BY DEF e, Evicted
    <3>3. r = [f \in DOMAIN r |-> r[f]]
      BY DEF Released
    <3>. HIDE DEF r
    <3>. QED  BY <3>1, <3>2, <3>3
  <2>. QED  BY <2>1, <2>2
<1>. QED  BY <1>3, <1>4, <1>5, <1>6, <1>9 DEF v

---------------------------------------------------------------------------
(* Where a scan starts and stops.                                          *)

LEMMA InsertBounded ==
  ASSUME NEW u, Sound(u), Bounded(u), NEW tuple \in Tuples, Room(u, tuple)
  PROVE  Bounded(insertTuple(u, tuple))
<1>. DEFINE v   == insertTuple(u, tuple)
            rid == insertedRID(u, tuple)
<1>1. /\ Sound(v) /\ v.last_page_id = rid.page /\ v.stopping_rid = rid
      /\ v.starting_rid = (IF u.starting_rid.page = -1 THEN rid ELSE u.starting_rid)
      /\ u.last_page_id <= v.last_page_id
      /\ \A p \in DOMAIN v.view : p # v.last_page_id =>
           p \in DOMAIN u.view /\ v.view[p].slots = u.view[p].slots /\ v.stored[p] = u.stored[p]
  BY InsertedTable
<1>2. /\ v.last_page_id \in Nat /\ 2 <= v.last_page_id /\ u.last_page_id \in Nat
      /\ DOMAIN v.view = 1 .. v.last_page_id
  BY <1>1, SoundFields
<1>3. u.starting_rid.page = -1 => rid.slot \in {-1, 0}
  <2>. SUFFICES ASSUME u.starting_rid.page = -1 PROVE rid.slot \in {-1, 0}
    OBVIOUS
  <2>1. lastPage(u).slots = << >>
    BY SoundFields DEF Bounded
  <2>2. Len(lastPage(u).slots) = 0
    BY <2>1
  <2>. QED  BY <2>2 DEF insertedRID
<1>. SUFFICES Bounded(v)
  OBVIOUS
<1>. HIDE DEF v, rid
<1>4. CASE u.starting_rid.page = -1
  <2>1. v.starting_rid = rid
    BY <1>1, <1>4
  <2>2. ASSUME NEW p \in DOMAIN v.view, p < rid.page
        PROVE  v.view[p].slots = << >> /\ v.stored[p].slots = << >>
    <3>1. p # v.last_page_id
      BY <1>1, <1>2, <2>2
    <3>. QED  BY <1>1, <1>4, <3>1 DEF Bounded
  <2>3. rid.page \in 2 .. v.last_page_id /\ rid.page # -1
    BY <1>1, <1>2
  <2>. QED  BY <1>1, <1>3, <1>4, <2>1, <2>2, <2>3 DEF Bounded
<1>5. CASE u.starting_rid.page # -1
  <2>1. /\ v.starting_rid = u.starting_rid
        /\ u.starting_rid.page \in 2 .. u.last_page_id /\ u.starting_rid.slot \in {-1, 0}
    BY <1>1, <1>5 DEF Bounded
  <2>2. ASSUME NEW p \in DOMAIN v.view, p < u.starting_rid.page
        PROVE  v.view[p].slots = << >> /\ v.stored[p].slots = << >>
    <3>1. p # v.last_page_id
      BY <1>1, <1>2, <2>1, <2>2
    <3>. QED  BY <1>1, <2>2, <3>1 DEF Bounded
  <2>3. u.starting_rid.page \in 2 .. v.last_page_id
    BY <1>1, <1>2, <2>1
  <2>. QED  BY <1>1, <1>5, <2>1, <2>2, <2>3 DEF Bounded
<1>. QED  BY <1>4, <1>5

(* A page that has a tuple is written.                                     *)
LEMMA WrittenBounded ==
  ASSUME NEW u, Sound(u), Bounded(u), NEW rid \in Place, rid.page \in DOMAIN u.view,
         Present(u, rid), NEW page
  PROVE  Bounded(Written(u, rid.page, page))
<1>. DEFINE v == Written(u, rid.page, page)
<1>1. DOMAIN u = TableFields
  BY SoundFields
<1>2. /\ v.view = [u.view EXCEPT ![rid.page] = page] /\ v.stored = u.stored
      /\ v.last_page_id = u.last_page_id
      /\ v.starting_rid = u.starting_rid /\ v.stopping_rid = u.stopping_rid
  BY <1>1 DEF Written, TableFields
<1>3. u.view[rid.page].slots # << >>
  <2>1. rid.slot \in Nat /\ rid.slot \in 0 .. Len(u.view[rid.page].slots) - 1
    BY DEF Present, Found, HasSlot, Place
  <2>2. ~(rid.slot \in 0 .. 0 - 1) /\ Len(<< >>) = 0
    BY <2>1
  <2>. QED  BY <2>1, <2>2
<1>. HIDE DEF v
<1>4. /\ DOMAIN v.view = DOMAIN u.view
      /\ \A p \in DOMAIN u.view : p # rid.page => v.view[p] = u.view[p]
  BY <1>2
<1>5. Bounded(v)
  BY <1>2, <1>3, <1>4, StillBounded
<1>. QED  BY <1>5 DEF v

LEMMA UpdateBounded ==
  ASSUME NEW u, Sound(u), Bounded(u), NEW rid \in Place, rid.page \in DOMAIN u.view,
         Present(u, rid), NEW tuple \in Tuples, Grows(u, rid, tuple) => Room(u, tuple)
  PROVE  Bounded(updateTuple(u, rid, tuple))
<1>1. CASE Grows(u, rid, tuple)
  <2>. DEFINE w == deleteTuple(u, rid)
  <2>1. updateTuple(u, rid, tuple) = insertTuple(w, tuple)
    BY <1>1 DEF updateTuple, deleteTuple
  <2>2. /\ Sound(w) /\ DOMAIN w.view = DOMAIN u.view
        /\ lastPage(w).free_space_pointer = lastPage(u).free_space_pointer
        /\ Len(lastPage(w).slots) = Len(lastPage(u).slots)
    BY DeletedTable
  <2>3. Bounded(w)
    BY WrittenBounded DEF deleteTuple
  <2>. HIDE DEF w
  <2>4. Room(w, tuple)
    BY <1>1, <2>2 DEF Room, HasRoom, Fits, FreeSize, NewPageId
  <2>. QED  BY <2>1, <2>2, <2>3, <2>4, InsertBounded
<1>2. CASE ~Grows(u, rid, tuple)
  <2>1. updateTuple(u, rid, tuple)
          = Written(u, rid.page, pageOverwrite(u.view[rid.page], rid.slot, tuple))
    BY <1>2 DEF updateTuple
  <2>. QED  BY <2>1, WrittenBounded
<1>. QED  BY <1>1, <1>2

---------------------------------------------------------------------------
(* The scans.                                                              *)

(* Where a scan may be, and the rids of all slots.                         *)
Spots(u) == {NoRID} \cup [page : DOMAIN u.view, slot : Nat \cup {-1}]

AllSlots(u) == UNION {Slots(u, p) : p \in DOMAIN u.view}


LEMMA SpotFields ==
  ASSUME NEW u, Sound(u), NEW a \in Spots(u)
  PROVE  /\ a.page \in Int /\ a.slot \in Nat \cup {-1}
         /\ a.page # -1 => /\ a \in [page : DOMAIN u.view, slot : Nat \cup {-1}]
                           /\ a.page \in DOMAIN u.view /\ a.page \in 1 .. u.last_page_id
                           /\ Len(u.view[a.page].slots) \in Nat
         /\ a.page = -1 => a = NoRID
<1>1. CASE a = NoRID
  BY <1>1 DEF NoRID
<1>2. CASE a \in [page : DOMAIN u.view, slot : Nat \cup {-1}]
  <2>1. a.page \in DOMAIN u.view /\ a.slot \in Nat \cup {-1}
    BY <1>2
  <2>2. a.page \in 1 .. u.last_page_id /\ u.view[a.page] \in Page
    BY <2>1, SoundFields
  <2>3. a.page \in Int /\ a.page # -1
    BY <2>2, SoundFields
  <2>. QED  BY <1>2, <2>1, <2>2, <2>3, PageFields
<1>. QED  BY <1>1, <1>2 DEF Spots

LEMMA SpotInts ==
  ASSUME NEW u, Sound(u), NEW a \in Spots(u)
  PROVE  a.page \in Int /\ a.slot \in Int
<1>1. a.page \in Int /\ a.slot \in Nat \cup {-1}
  BY SpotFields
<1>. QED  BY <1>1

LEMMA SlotSpots ==
  ASSUME NEW u, Sound(u)
  PROVE  /\ Rows(u) = {rid \in AllSlots(u) : Present(u, rid)}
         /\ \A rid \in AllSlots(u) :
              /\ rid \in [page : DOMAIN u.view, slot : Nat]
              /\ rid.page \in DOMAIN u.view /\ rid.page \in 1 .. u.last_page_id
              /\ rid.slot \in Nat /\ rid.slot < Len(u.view[rid.page].slots)
         /\ \A rid \in Spots(u) : rid.page # -1 /\ rid.slot >= 0
                                  /\ rid.slot < Len(u.view[rid.page].slots) =>
              rid \in AllSlots(u)
<1>1. Rows(u) = {rid \in AllSlots(u) : Present(u, rid)}
  BY ChainInOrder DEF Rows, AllSlots
<1>2. ASSUME NEW p \in DOMAIN u.view, NEW rid \in Slots(u, p)
      PROVE  /\ rid \in [page : DOMAIN u.view, slot : Nat] /\ rid.page = p
             /\ rid.slot \in Nat /\ rid.slot < Len(u.view[p].slots)
  <2>1. Len(u.view[p].slots) \in Nat
    BY SoundFields, PageFields
  <2>. QED  BY <2>1 DEF Slots
<1>3. ASSUME NEW rid \in Spots(u), rid.page # -1, rid.slot >= 0,
             rid.slot < Len(u.view[rid.page].slots)
      PROVE  rid \in AllSlots(u)
  <2>1. /\ rid \in [page : DOMAIN u.view, slot : Nat \cup {-1}]
        /\ rid.page \in DOMAIN u.view /\ Len(u.view[rid.page].slots) \in Nat
    BY <1>3, SpotFields
  <2>2. rid.slot \in 0 .. Len(u.view[rid.page].slots) - 1
    BY <1>3, <2>1
  <2>3. rid \in Slots(u, rid.page)
    BY <2>1, <2>2 DEF Slots
  <2>. QED  BY <2>1, <2>3 DEF AllSlots
<1>4. \A p \in DOMAIN u.view : p \in 1 .. u.last_page_id
  BY SoundFields
<1>. QED  BY <1>1, <1>2, <1>3, <1>4 DEF AllSlots

LEMMA StepsCounted ==
  ASSUME NEW u, Sound(u)
  PROVE  /\ IsFiniteSet(AllSlots(u)) /\ Cardinality(AllSlots(u)) \in Nat
         /\ ScanSteps(u) = 1 + u.last_page_id + Cardinality(AllSlots(u))
         /\ ScanSteps(u) \in Nat
<1>. DEFINE last == u.last_page_id
            all  == {Slots(u, p) : p \in DOMAIN u.view}
<1>1. last \in Nat /\ DOMAIN u.view = 1 .. last /\ Range(Chain(u)) = DOMAIN u.view
  BY SoundFields, ChainInOrder
<1>2. \A p \in DOMAIN u.view : IsFiniteSet(Slots(u, p))
  <2>. SUFFICES ASSUME NEW p \in DOMAIN u.view PROVE IsFiniteSet(Slots(u, p))
    OBVIOUS
  <2>. DEFINE n == Len(u.view[p].slots)
              I == 0 .. n - 1
              f == [k \in I |-> [page |-> p, slot |-> k]]
  <2>1. n \in Nat
    BY SoundFields, PageFields
  <2>2. IsFiniteSet(I)
    BY <2>1, FS_Interval
  <2>3. f \in Surjection(I, Slots(u, p))
    <3>1. Slots(u, p) = [page : {p}, slot : I]
      BY DEF Slots
    <3>. HIDE DEF I
    <3>2. \A k \in I : f[k] \in [page : {p}, slot : I]
      OBVIOUS
    <3>3. \A r \in [page : {p}, slot : I] : r.slot \in I /\ f[r.slot] = r
      OBVIOUS
    <3>. QED  BY <3>1, <3>2, <3>3 DEF Surjection
  <2>. QED  BY <2>2, <2>3, FS_Surjection
<1>3. IsFiniteSet(all)
  <2>. DEFINE f == [p \in DOMAIN u.view |-> Slots(u, p)]
  <2>1. f \in Surjection(DOMAIN u.view, all)
    BY DEF Surjection
  <2>2. IsFiniteSet(DOMAIN u.view)
    BY <1>1, FirstNumbers
  <2>. HIDE DEF f, all
  <2>. QED  BY <2>1, <2>2, FS_Surjection
<1>4. IsFiniteSet(AllSlots(u))
  BY <1>2, <1>3, FS_UNION DEF AllSlots
<1>5. Cardinality(AllSlots(u)) \in Nat
  BY <1>4, FS_CardinalityType
<1>6. Cardinality(Range(Chain(u))) = last
  <2>. HIDE DEF last
  <2>. QED  BY <1>1, FirstNumbers
<1>7. ScanSteps(u) = 1 + last + Cardinality(AllSlots(u))
  BY <1>1, <1>6 DEF ScanSteps, AllSlots
<1>. HIDE DEF last
<1>. QED  BY <1>1, <1>4, <1>5, <1>7 DEF last

(* One turn of getNext's loop: on, inside a page, to the next page, or out.*)
ScanStep(u, a) == IF a.page = -1 THEN NoRID ELSE scanNext(u, a)

LEMMA ScanStepForm ==
  ASSUME NEW u, Sound(u), u.stopping_rid.page = u.last_page_id,
         NEW a \in Spots(u), a.page # -1
  PROVE  LET len == Len(u.view[a.page].slots)
         IN  /\ scanNext(u, a) \in Spots(u) /\ readAt(u, a) \in Spots(u)
             /\ a.slot < len => /\ scanNext(u, a) = [page |-> a.page, slot |-> a.slot + 1]
                                /\ readAt(u, a) = a
             /\ ~(a.slot < len) /\ a.page < u.last_page_id =>
                  /\ scanNext(u, a) = [page |-> a.page + 1, slot |-> 1]
                  /\ readAt(u, a) = [page |-> a.page + 1, slot |-> 0]
             /\ ~(a.slot < len) /\ ~(a.page < u.last_page_id) =>
                  scanNext(u, a) = NoRID /\ readAt(u, a) = NoRID
<1>. DEFINE len  == Len(u.view[a.page].slots)
            last == u.last_page_id
            next == u.view[a.page].next_page_id
<1>1. /\ a.page \in DOMAIN u.view /\ a.page \in 1 .. last /\ last \in Nat
      /\ a.slot \in Nat \cup {-1} /\ len \in Nat /\ DOMAIN u.view = 1 .. last
      /\ next = IF a.page < last THEN a.page + 1 ELSE -1
  BY SpotFields, SoundFields DEF NextPage
<1>2. /\ scanNext(u, a) = IF a.slot < len THEN [page |-> a.page, slot |-> a.slot + 1]
                          ELSE IF next = -1 \/ next > last THEN NoRID
                          ELSE [page |-> next, slot |-> 1]
      /\ readAt(u, a) = IF a.slot < len THEN a
                        ELSE IF next = -1 \/ next > last THEN NoRID
                        ELSE [page |-> next, slot |-> 0]
  BY DEF scanNext, scanRead, readAt
<1>. HIDE DEF len, last, next
<1>3. CASE a.slot < len
  <2>1. a.slot + 1 \in Nat
    BY <1>1
  <2>2. scanNext(u, a) = [page |-> a.page, slot |-> a.slot + 1] /\ readAt(u, a) = a
    BY <1>2, <1>3
  <2>3. scanNext(u, a) \in Spots(u)
    BY <1>1, <2>1, <2>2 DEF Spots
  <2>. QED  BY <1>3, <2>2, <2>3 DEF len
<1>4. CASE ~(a.slot < len) /\ a.page < last
  <2>1. next = a.page + 1 /\ next \in 1 .. last /\ ~(next = -1 \/ next > last)
    BY <1>1, <1>4
  <2>2. scanNext(u, a) = [page |-> next, slot |-> 1] /\ readAt(u, a) = [page |-> next, slot |-> 0]
    BY <1>2, <1>4, <2>1
  <2>3. scanNext(u, a) \in Spots(u) /\ readAt(u, a) \in Spots(u)
    BY <1>1, <2>1, <2>2 DEF Spots
  <2>. QED  BY <1>4, <2>1, <2>2, <2>3 DEF len, last
<1>5. CASE ~(a.slot < len) /\ ~(a.page < last)
  <2>1. scanNext(u, a) = NoRID /\ readAt(u, a) = NoRID
    BY <1>1, <1>2, <1>5
  <2>2. NoRID \in Spots(u)
    BY DEF Spots
  <2>. QED  BY <1>5, <2>1, <2>2 DEF len, last
<1>. QED  BY <1>3, <1>4, <1>5

LEMMA PositionsForm ==
  ASSUME NEW u, ScanSteps(u) \in Nat, NEW D, NEW from \in D,
         \A a \in D : ScanStep(u, a) \in D
  PROVE  /\ Positions(u, from) \in [0 .. ScanSteps(u) -> D]
         /\ Positions(u, from)[0] = from
         /\ \A n \in 1 .. ScanSteps(u) :
              Positions(u, from)[n] = ScanStep(u, Positions(u, from)[n - 1])
<1>. DEFINE N == ScanSteps(u)
            at == Positions(u, from)
            step(f) == [n \in 0 .. N |-> IF n = 0 THEN from ELSE ScanStep(u, f[n - 1])]
<1>1. at = CHOOSE f : f = step(f)
  BY DEF Positions, ScanStep
<1>2. PICK f \in [0 .. N -> D] :
        f[0] = from /\ \A n \in 1 .. N : f[n] = ScanStep(u, f[n - 1])
  <2>. DEFINE g == [a \in D |-> ScanStep(u, a)]
  <2>1. Steps(D, g) /\ (\A a \in D : g[a] = ScanStep(u, a)) /\ N \in Nat
    BY DEF Steps
  <2>. HIDE DEF g, N
  <2>2. PICK f : IsRun(f, D, g, from, N)
    BY <2>1, Iterates
  <2>3. \A n \in 1 .. N : n - 1 \in 0 .. N
    BY <2>1
  <2>. QED  BY <2>1, <2>2, <2>3 DEF IsRun
<1>. HIDE DEF at
<1>3. \A n \in 0 .. N : n = 0 \/ (n \in 1 .. N /\ n - 1 \in 0 .. N)
  OBVIOUS
<1>4. f = step(f)
  <2>2. \A n \in 0 .. N : f[n] = step(f)[n]
    BY <1>2, <1>3
  <2>. QED  BY <2>2
<1>5. at = step(at)
  BY <1>1, <1>4
<1>6. at[0] = from /\ \A n \in 1 .. N : at[n] = ScanStep(u, at[n - 1])
  <2>1. 0 \in 0 .. N /\ \A n \in 1 .. N : n \in 0 .. N /\ n # 0
    OBVIOUS
  <2>2. \A n \in 0 .. N : at[n] = IF n = 0 THEN from ELSE ScanStep(u, at[n - 1])
    BY <1>5
  <2>. QED  BY <2>1, <2>2
<1>7. DOMAIN at = 0 .. N
  BY <1>5
<1>8. \A n \in 0 .. N : at[n] \in D
  <2>. DEFINE S == {n \in 0 .. N : at[n] \notin D}
  <2>. SUFFICES ASSUME S # {} PROVE FALSE
    OBVIOUS
  <2>1. S \in SUBSET Nat
    OBVIOUS
  <2>2. PICK n \in S : \A k \in S : n <= k
    <3>. HIDE DEF S
    <3>. QED  BY <2>1, LeastNumber
  <2>3. n # 0 /\ n \in 1 .. N /\ n - 1 \in 0 .. N
    BY <1>3, <1>6
  <2>4. n - 1 \notin S
    <3>. HIDE DEF S
    <3>. QED  BY <2>1, <2>2, <2>3
  <2>5. at[n - 1] \in D
    BY <2>3, <2>4
  <2>. QED  BY <1>6, <2>3, <2>5
<1>9. at = [n \in 0 .. N |-> at[n]]
  BY <1>5, <1>7
<1>. QED  BY <1>6, <1>8, <1>9 DEF at

(* What runs upwards.                                                      *)
Climbs(at, N) ==
  /\ \A n \in 0 .. N : at[n].page \in Int /\ at[n].slot \in Int
  /\ \A n \in 1 .. N : at[n].page # -1 =>
       at[n - 1].page # -1 /\ Before(at[n - 1], at[n])

LEMMA Ascending ==
  ASSUME NEW N \in Nat, NEW at, Climbs(at, N)
  PROVE  \A m, n \in 0 .. N : m < n /\ at[n].page # -1 =>
           at[m].page # -1 /\ Before(at[m], at[n])
<1>. DEFINE Over(m, n) == at[m].page # -1 /\ Before(at[m], at[n])
            S == {n \in 0 .. N : at[n].page # -1 /\ \E m \in 0 .. N : m < n /\ ~Over(m, n)}
<1>. SUFFICES ASSUME S # {} PROVE FALSE
  OBVIOUS
<1>1. S \in SUBSET Nat
  OBVIOUS
<1>2. PICK n \in S : \A k \in S : n <= k
  <2>. HIDE DEF S
  <2>. QED  BY <1>1, LeastNumber
<1>3. PICK m \in 0 .. N : m < n /\ ~Over(m, n)
  OBVIOUS
<1>4. n \in 1 .. N /\ n - 1 \in 0 .. N /\ at[n].page # -1 /\ n - 1 < n
  BY <1>3
<1>5. Over(n - 1, n)
  BY <1>4 DEF Climbs
<1>6. n - 1 \notin S
  <2>. HIDE DEF S
  <2>. QED  BY <1>1, <1>2, <1>4
<1>7. m # n - 1 /\ m < n - 1
  <2>. HIDE DEF S, Over
  <2>. QED  BY <1>3, <1>4, <1>5
<1>8. Over(m, n - 1)
  <2>1. at[n - 1].page # -1
    BY <1>5
  <2>. HIDE DEF Over
  <2>. QED  BY <1>4, <1>6, <1>7, <2>1
<1>9. Over(m, n)
  <2>1. /\ at[m].page \in Int /\ at[m].slot \in Int /\ at[n].page \in Int /\ at[n].slot \in Int
        /\ at[n - 1].page \in Int /\ at[n - 1].slot \in Int
    BY <1>4 DEF Climbs
  <2>. QED  BY <1>5, <1>8, <2>1 DEF Before
<1>. QED  BY <1>3, <1>9

(* The positions of a scan from anywhere in a table whose stopping rid is  *)
(* on the last page.                                                       *)
Scans(u, at, N) ==
  /\ Sound(u) /\ u.stopping_rid.page = u.last_page_id
  /\ N \in Nat /\ at \in [0 .. N -> Spots(u)]
  /\ \A n \in 1 .. N : at[n] = ScanStep(u, at[n - 1])

LEMMA ScanClimbs ==
  ASSUME NEW u, NEW N, NEW at, Scans(u, at, N)
  PROVE  /\ Climbs(at, N)
         /\ \A n \in 1 .. N : at[n].page # -1 => at[n].slot >= 0
<1>1. ASSUME NEW n \in 0 .. N PROVE at[n].page \in Int /\ at[n].slot \in Int
  BY SpotFields DEF Scans
<1>2. ASSUME NEW n \in 1 .. N, at[n].page # -1
      PROVE  at[n - 1].page # -1 /\ Before(at[n - 1], at[n]) /\ at[n].slot >= 0
  <2>1. at[n - 1].page # -1
    BY <1>2 DEF Scans, ScanStep, NoRID
  <2>. DEFINE a == at[n - 1]
              len == Len(u.view[a.page].slots)
              last == u.last_page_id
  <2>0. /\ a \in Spots(u) /\ at[n] = scanNext(u, a)
        /\ Sound(u) /\ u.stopping_rid.page = u.last_page_id
    <3>1. n - 1 \in 0 .. N /\ n \in 0 .. N
      BY DEF Scans
    <3>. QED  BY <2>1, <3>1 DEF Scans, ScanStep
  <2>2. a.page \in 1 .. last /\ a.slot \in Nat \cup {-1} /\ len \in Nat /\ last \in Nat
    BY <2>0, <2>1, SpotFields, SoundFields
  <2>3. \/ a.slot < len /\ at[n] = [page |-> a.page, slot |-> a.slot + 1]
        \/ ~(a.slot < len) /\ at[n] = [page |-> a.page + 1, slot |-> 1]
    <3>1. /\ a.slot < len => at[n] = [page |-> a.page, slot |-> a.slot + 1]
          /\ ~(a.slot < len) /\ a.page < last => at[n] = [page |-> a.page + 1, slot |-> 1]
          /\ ~(a.slot < len) /\ ~(a.page < last) => at[n] = NoRID
      BY <2>0, <2>1, ScanStepForm
    <3>2. at[n] # NoRID
      BY <1>2 DEF NoRID
    <3>. HIDE DEF a, len, last
    <3>. QED  BY <3>1, <3>2
  <2>. HIDE DEF a, len, last
  <2>4. Before(a, at[n]) /\ at[n].slot >= 0
    BY <2>2, <2>3 DEF Before
  <2>. QED  BY <2>1, <2>4 DEF a
<1>. QED  BY <1>1, <1>2 DEF Climbs

(* What two readings of one position are to each other.                    *)
UpTo(a, b) == a = b \/ Before(a, b)

LEMMA BeforeOrder ==
  ASSUME NEW a, NEW b, NEW c,
         a.page \in Int, a.slot \in Int, b.page \in Int, b.slot \in Int,
         c.page \in Int, c.slot \in Int
  PROVE  /\ ~Before(a, a)
         /\ Before(a, b) /\ UpTo(b, c) => Before(a, c)
         /\ UpTo(a, b) /\ Before(b, c) => Before(a, c)
BY DEF Before, UpTo

(* A position reads a slot that is not in front of it.                     *)
LEMMA ReadAhead ==
  ASSUME NEW u, Sound(u), u.stopping_rid.page = u.last_page_id,
         NEW b \in Spots(u), b.page # -1, readAt(u, b).page # -1
  PROVE  readAt(u, b) \in Spots(u) /\ UpTo(b, readAt(u, b))
<1>. DEFINE r   == readAt(u, b)
            len == Len(u.view[b.page].slots)
<1>1. /\ b.slot < len => r = b
      /\ ~(b.slot < len) /\ b.page < u.last_page_id => r = [page |-> b.page + 1, slot |-> 0]
      /\ ~(b.slot < len) /\ ~(b.page < u.last_page_id) => r = NoRID
      /\ r \in Spots(u)
  BY ScanStepForm
<1>2. r # NoRID
  BY DEF NoRID
<1>3. b.page \in Int
  BY SpotFields
<1>. HIDE DEF r, len
<1>4. r = b \/ r = [page |-> b.page + 1, slot |-> 0]
  BY <1>1, <1>2
<1>5. UpTo(b, r)
  BY <1>3, <1>4 DEF UpTo, Before
<1>. QED  BY <1>1, <1>5 DEF r

(* A scan reads in the order of the pages and of the slots in them.        *)
LEMMA ScanAscends ==
  ASSUME NEW u, NEW N, NEW at, Scans(u, at, N), NEW m \in 0 .. N, NEW n \in 0 .. N, m < n,
         readAt(u, at[m]).page # -1, readAt(u, at[n]).page # -1
  PROVE  Before(readAt(u, at[m]), readAt(u, at[n]))
<1>1. N \in Nat /\ n \in 1 .. N /\ m + 1 \in 1 .. N /\ m + 1 \in 0 .. N /\ (m + 1) - 1 = m
  BY DEF Scans
<1>2. at[m].page # -1 /\ at[n].page # -1
  BY DEF readAt, NoRID
<1>. DEFINE a    == at[m]
            b    == at[n]
            c    == at[m + 1]
            ra   == readAt(u, at[m])
            rb   == readAt(u, at[n])
<1>3. a \in Spots(u) /\ b \in Spots(u) /\ c \in Spots(u) /\ Sound(u)
      /\ u.stopping_rid.page = u.last_page_id
  BY <1>1 DEF Scans
<1>4. ra \in Spots(u) /\ rb \in Spots(u)
  BY <1>2, <1>3, ScanStepForm
<1>5. /\ a.page \in Int /\ a.slot \in Int /\ b.page \in Int /\ b.slot \in Int
      /\ c.page \in Int /\ c.slot \in Int /\ ra.page \in Int /\ ra.slot \in Int
      /\ rb.page \in Int /\ rb.slot \in Int
  <2>. HIDE DEF a, b, c, ra, rb
  <2>. QED  BY <1>3, <1>4, SpotInts
<1>6. UpTo(b, rb)
  BY <1>2, <1>3, ReadAhead
<1>7. Before(ra, c)
  <2>. DEFINE len == Len(u.view[a.page].slots)
  <2>1. /\ a.slot < len => c = [page |-> a.page, slot |-> a.slot + 1] /\ ra = a
        /\ ~(a.slot < len) /\ a.page < u.last_page_id =>
             c = [page |-> a.page + 1, slot |-> 1] /\ ra = [page |-> a.page + 1, slot |-> 0]
        /\ ~(a.slot < len) /\ ~(a.page < u.last_page_id) => c = NoRID /\ ra = NoRID
    <3>1. c = scanNext(u, a)
      BY <1>1, <1>2 DEF Scans, ScanStep
    <3>. QED  BY <1>2, <1>3, <3>1, ScanStepForm
  <2>2. ra # NoRID
    BY DEF NoRID
  <2>. HIDE DEF a, c, ra, len
  <2>3. \/ c = [page |-> a.page, slot |-> a.slot + 1] /\ ra = a
        \/ c = [page |-> a.page + 1, slot |-> 1] /\ ra = [page |-> a.page + 1, slot |-> 0]
    BY <2>1, <2>2
  <2>. QED  BY <1>5, <2>3 DEF Before
<1>8. UpTo(c, b)
  <2>1. m + 1 = n \/ m + 1 < n
    BY <1>1
  <2>2. Climbs(at, N)
    BY ScanClimbs
  <2>3. m + 1 < n => Before(c, b)
    BY <1>1, <1>2, <2>2, Ascending
  <2>. QED  BY <2>1, <2>3 DEF UpTo
<1>. HIDE DEF a, b, c, ra, rb
<1>9. Before(ra, b)
  BY <1>5, <1>7, <1>8, BeforeOrder
<1>10. Before(ra, rb)
  BY <1>5, <1>6, <1>9, BeforeOrder
<1>. QED  BY <1>10 DEF ra, rb

(* A scan takes no more steps than there are slots and pages: where it is  *)
(* in a slot, that slot, and where it leaves a page, the page, are new.    *)
LEMMA ScanEnds ==
  ASSUME NEW u, NEW at, Scans(u, at, ScanSteps(u))
  PROVE  at[ScanSteps(u)].page = -1
<1>. DEFINE N    == ScanSteps(u)
            last == u.last_page_id
            len(p) == Len(u.view[p].slots)
            ends == {[page |-> p, slot |-> -1] : p \in 1 .. last}
            All  == AllSlots(u) \cup ends
            f    == [n \in 1 .. N |-> IF at[n].slot < len(at[n].page) THEN at[n]
                                      ELSE [page |-> at[n].page, slot |-> -1]]
<1>. SUFFICES ASSUME at[N].page # -1 PROVE FALSE
  OBVIOUS
<1>1. /\ Sound(u) /\ u.stopping_rid.page = last
      /\ N \in Nat /\ at \in [0 .. N -> Spots(u)]
      /\ \A n \in 1 .. N : at[n] = ScanStep(u, at[n - 1])
  BY DEF Scans
<1>2. /\ last \in Nat /\ IsFiniteSet(AllSlots(u)) /\ Cardinality(AllSlots(u)) \in Nat
      /\ N = 1 + last + Cardinality(AllSlots(u))
  BY <1>1, StepsCounted, SoundFields
<1>3. IsFiniteSet(All) /\ Cardinality(All) < N
  <2>1. IsFiniteSet(ends) /\ Cardinality(ends) <= last
    <3>. DEFINE e == [p \in 1 .. last |-> [page |-> p, slot |-> -1]]
    <3>1. e \in Surjection(1 .. last, ends)
      BY DEF Surjection
    <3>2. IsFiniteSet(1 .. last) /\ Cardinality(1 .. last) = last
      <4>1. last \in Nat
        BY <1>2
      <4>. HIDE DEF last
      <4>. QED  BY <4>1, FirstNumbers
    <3>. HIDE DEF e, ends, last
    <3>. QED  BY <3>1, <3>2, FS_Surjection
  <2>. DEFINE A == AllSlots(u)
  <2>2. IsFiniteSet(A) /\ Cardinality(A) \in Nat /\ N = 1 + last + Cardinality(A)
    BY <1>2
  <2>. HIDE DEF ends, last, N, A
  <2>3. /\ IsFiniteSet(A \cup ends)
        /\ Cardinality(A \cup ends) = Cardinality(A) + Cardinality(ends) - Cardinality(A \cap ends)
    BY <2>1, <2>2, FS_Union
  <2>4. Cardinality(A \cap ends) \in Nat /\ Cardinality(ends) \in Nat
    <3>1. IsFiniteSet(A \cap ends)
      BY <2>2, FS_Subset
    <3>. QED  BY <2>1, <3>1, FS_CardinalityType
  <2>5. Cardinality(A \cup ends) < N
    BY <1>2, <2>1, <2>2, <2>3, <2>4
  <2>. QED  BY <2>3, <2>5 DEF A
<1>4. Climbs(at, N) /\ \A n \in 1 .. N : at[n].page # -1 => at[n].slot >= 0
  BY ScanClimbs
<1>5. \A m, n \in 0 .. N : m < n /\ at[n].page # -1 =>
        at[m].page # -1 /\ Before(at[m], at[n])
  <2>. HIDE DEF N
  <2>. QED  BY <1>1, <1>4, Ascending
<1>6. ASSUME NEW n \in 0 .. N PROVE at[n].page # -1
  <2>. HIDE DEF N
  <2>1. n = N \/ n < N
    BY <1>1
  <2>. QED  BY <1>1, <1>5, <2>1
<1>7. ASSUME NEW n \in 1 .. N
      PROVE  /\ f[n] \in All /\ at[n].page \in 1 .. last /\ at[n].slot \in Nat
             /\ at[n].page \in Int /\ len(at[n].page) \in Nat
             /\ at[n] \in Spots(u) /\ at[n].page # -1 /\ n \in 0 .. N
  <2>1. n \in 0 .. N /\ at[n] \in Spots(u) /\ at[n].page # -1
    BY <1>1, <1>6
  <2>2. at[n].page \in 1 .. last /\ at[n].slot \in Nat /\ len(at[n].page) \in Nat
        /\ at[n].page \in Int
    BY <1>1, <1>4, <2>1, SpotFields
  <2>3. at[n].slot < len(at[n].page) => at[n] \in AllSlots(u)
    BY <1>1, <2>1, <2>2, SlotSpots
  <2>. QED  BY <2>1, <2>2, <2>3
<1>8. f \in [1 .. N -> All]
  <2>. HIDE DEF All
  <2>. QED  BY <1>7
<1>9. PICK m, n \in 1 .. N : m < n /\ f[m] = f[n]
  <2>. HIDE DEF f, All, N
  <2>. QED  BY <1>1, <1>3, <1>8, TwoMeet
<1>. DEFINE a == at[m]
            b == at[n]
<1>10. Before(a, b) /\ a.page \in Int /\ b.page \in Int /\ a.slot \in Nat /\ b.slot \in Nat
  BY <1>5, <1>7, <1>9
<1>11. (a.slot < len(a.page) <=> b.slot < len(b.page)) /\ a.page = b.page
  <2>1. f[m] = IF a.slot < len(a.page) THEN a ELSE [page |-> a.page, slot |-> -1]
    OBVIOUS
  <2>2. f[n] = IF b.slot < len(b.page) THEN b ELSE [page |-> b.page, slot |-> -1]
    OBVIOUS
  <2>. DEFINE x == a.slot < len(a.page)
              y == b.slot < len(b.page)
              endA == [page |-> a.page, slot |-> -1]
              endB == [page |-> b.page, slot |-> -1]
  <2>3. /\ f[m] = (IF x THEN a ELSE endA) /\ f[n] = (IF y THEN b ELSE endB)
        /\ endA.page = a.page /\ endB.page = b.page
        /\ endA.slot # b.slot /\ endB.slot # a.slot
    BY <1>10, <2>1, <2>2
  <2>. HIDE DEF f, a, b, endA, endB
  <2>4. (x <=> y) /\ a.page = b.page
    <3>. HIDE DEF x, y
    <3>. QED  BY <1>9, <2>3
  <2>. QED  BY <2>4
<1>12. a.slot < len(a.page) => a = b
  <2>1. a.slot < len(a.page) => f[m] = a /\ f[n] = b
    BY <1>11
  <2>. HIDE DEF f, a, b, len
  <2>. QED  BY <1>9, <2>1
<1>13. ~(a.slot < len(a.page))
  <2>. HIDE DEF a, b, len
  <2>. QED  BY <1>10, <1>12 DEF Before
(* A scan past the last slot goes to a later page.                         *)
<1>. DEFINE c == at[m + 1]
<1>14. m + 1 \in 1 .. N /\ m + 1 \in 0 .. N /\ (m + 1) - 1 = m /\ (m + 1 = n \/ m + 1 < n)
  <2>. HIDE DEF N
  <2>. QED  BY <1>1, <1>9
<1>15. c = [page |-> a.page + 1, slot |-> 1]
  <2>1. c = scanNext(u, a) /\ c # NoRID
    BY <1>1, <1>7, <1>14 DEF ScanStep, NoRID
  <2>2. a \in Spots(u) /\ a.page # -1
    BY <1>7
  <2>. HIDE DEF c, a
  <2>. QED  BY <1>1, <1>13, <2>1, <2>2, ScanStepForm
<1>16. c.page <= b.page
  <2>1. c = b \/ Before(c, b)
    BY <1>5, <1>7, <1>14
  <2>2. c.page \in Int
    BY <1>10, <1>15
  <2>. HIDE DEF a, b, c
  <2>. QED  BY <1>10, <2>1, <2>2 DEF Before
<1>17. c.page = a.page + 1
  BY <1>15
<1>. HIDE DEF a, b, c
<1>. QED  BY <1>10, <1>11, <1>16, <1>17

(* A scan misses no slot from its first position on: until it has read a   *)
(* slot, it is not past it.                                                *)
LEMMA ScanCovers ==
  ASSUME NEW u, NEW at, Scans(u, at, ScanSteps(u)), NEW rid \in AllSlots(u),
         at[0].page # -1, UpTo(at[0], rid)
  PROVE  \E n \in 0 .. ScanSteps(u) : readAt(u, at[n]) = rid
<1>. DEFINE N    == ScanSteps(u)
            last == u.last_page_id
            len(p) == Len(u.view[p].slots)
            S == {n \in 0 .. N : ~(at[n].page # -1 /\ UpTo(at[n], rid))}
<1>. SUFFICES ASSUME \A n \in 0 .. N : readAt(u, at[n]) # rid PROVE FALSE
  OBVIOUS
<1>1. /\ Sound(u) /\ u.stopping_rid.page = last
      /\ N \in Nat /\ at \in [0 .. N -> Spots(u)]
      /\ \A n \in 1 .. N : at[n] = ScanStep(u, at[n - 1])
  BY DEF Scans
<1>2. /\ rid.page \in DOMAIN u.view /\ rid.page \in 1 .. last /\ rid.slot \in Nat
      /\ rid.slot < len(rid.page) /\ last \in Nat
  BY <1>1, SlotSpots, SoundFields
<1>3. S \in SUBSET Nat /\ S # {}
  <2>1. at[N].page = -1 /\ N \in 0 .. N
    BY <1>1, ScanEnds
  <2>. QED  BY <2>1
<1>4. PICK n \in S : \A k \in S : n <= k
  <2>. HIDE DEF S
  <2>. QED  BY <1>3, LeastNumber
<1>5. n # 0
  OBVIOUS
<1>6. n \in 1 .. N /\ n - 1 \in 0 .. N /\ n \in 0 .. N /\ n - 1 < n
  <2>1. n \in 0 .. N
    OBVIOUS
  <2>. HIDE DEF S, N
  <2>. QED  BY <1>1, <1>5, <2>1
<1>7. n - 1 \notin S
  <2>. HIDE DEF S
  <2>. QED  BY <1>3, <1>4, <1>6
<1>. DEFINE a == at[n - 1]
            b == at[n]
<1>8. a.page # -1 /\ UpTo(a, rid) /\ ~(b.page # -1 /\ UpTo(b, rid)) /\ a \in Spots(u)
      /\ b = scanNext(u, a) /\ readAt(u, a) # rid
  BY <1>1, <1>6, <1>7 DEF ScanStep
<1>9. /\ a.page \in 1 .. last /\ a.slot \in Nat \cup {-1} /\ len(a.page) \in Nat
      /\ a.slot < len(a.page) => b = [page |-> a.page, slot |-> a.slot + 1] /\ readAt(u, a) = a
      /\ ~(a.slot < len(a.page)) /\ a.page < last =>
           b = [page |-> a.page + 1, slot |-> 1]
           /\ readAt(u, a) = [page |-> a.page + 1, slot |-> 0]
  BY <1>1, <1>8, ScanStepForm, SpotFields
<1>10. rid = [page |-> rid.page, slot |-> rid.slot]
  <2>1. rid \in [page : DOMAIN u.view, slot : Nat]
    BY <1>1, SlotSpots
  <2>. QED  BY <2>1
<1>11. CASE a.slot < len(a.page)
  <2>1. Before(a, rid) /\ b = [page |-> a.page, slot |-> a.slot + 1]
    BY <1>8, <1>9, <1>11 DEF UpTo
  <2>2. b.page = a.page /\ b.slot = a.slot + 1
    BY <2>1
  <2>3. a.page = rid.page /\ a.slot + 1 = rid.slot => b = rid
    BY <1>10, <2>1
  <2>. HIDE DEF a, b
  <2>4. b.page # -1 /\ UpTo(b, rid)
    BY <1>2, <1>9, <2>1, <2>2, <2>3 DEF UpTo, Before
  <2>. QED  BY <1>8, <2>4
<1>12. CASE ~(a.slot < len(a.page))
  <2>1. a.page < rid.page
    <3>1. a = rid => a.slot < len(a.page)
      BY <1>2
    <3>2. Before(a, rid)
      BY <1>8, <1>12, <3>1 DEF UpTo
    <3>3. a.page = rid.page => len(a.page) = len(rid.page)
      OBVIOUS
    <3>. HIDE DEF a, len
    <3>. QED  BY <1>2, <1>9, <1>12, <3>2, <3>3 DEF Before
  <2>2. a.page < last
    <3>. HIDE DEF a, last
    <3>. QED  BY <1>2, <1>9, <2>1
  <2>3. b = [page |-> a.page + 1, slot |-> 1] /\ readAt(u, a) = [page |-> a.page + 1, slot |-> 0]
    BY <1>9, <1>12, <2>2
  <2>4. b.page = a.page + 1 /\ b.slot = 1
    BY <2>3
  <2>5. a.page + 1 = rid.page => rid.slot # 0
    BY <1>8, <1>10, <2>3
  <2>6. a.page + 1 = rid.page /\ rid.slot = 1 => b = rid
    BY <1>10, <2>3
  <2>. HIDE DEF a, b
  <2>7. b.page # -1 /\ UpTo(b, rid)
    BY <1>2, <1>9, <2>1, <2>4, <2>5, <2>6 DEF UpTo, Before
  <2>. QED  BY <1>8, <2>7
<1>. QED  BY <1>11, <1>12

LEMMA PositionsScan ==
  ASSUME NEW u, Sound(u), u.stopping_rid.page = u.last_page_id, NEW from \in Spots(u)
  PROVE  /\ Scans(u, Positions(u, from), ScanSteps(u))
         /\ Positions(u, from)[0] = from
<1>. DEFINE D == Spots(u)
<1>1. ScanSteps(u) \in Nat
  BY StepsCounted
<1>2. from \in D
  OBVIOUS
<1>3. \A a \in D : ScanStep(u, a) \in D
  <2>1. NoRID \in D
    BY DEF Spots
  <2>. HIDE DEF D
  <2>2. \A a \in D : a.page # -1 => scanNext(u, a) \in D
    BY ScanStepForm DEF D
  <2>. QED  BY <2>1, <2>2 DEF ScanStep
<1>. HIDE DEF D
<1>4. /\ Positions(u, from) \in [0 .. ScanSteps(u) -> D]
      /\ Positions(u, from)[0] = from
      /\ \A n \in 1 .. ScanSteps(u) :
           Positions(u, from)[n] = ScanStep(u, Positions(u, from)[n - 1])
  BY <1>1, <1>2, <1>3, PositionsForm
<1>. QED  BY <1>1, <1>4 DEF Scans, D

(* What a scan yields: the tuples in the slots from its first position on. *)
RowsFrom(u, from) == {rid \in AllSlots(u) : Present(u, rid) /\ UpTo(from, rid)}

LEMMA ScanReads ==
  ASSUME NEW u, NEW at, Scans(u, at, ScanSteps(u)), NEW n \in 0 .. ScanSteps(u),
         Yields(u, readAt(u, at[n]))
  PROVE  at[0].page # -1 /\ readAt(u, at[n]) \in RowsFrom(u, at[0])
<1>. DEFINE N == ScanSteps(u)
            a == at[0]
            b == at[n]
            r == readAt(u, b)
<1>1. r.page # -1 /\ Present(u, r) /\ b.page # -1
  BY DEF Yields, readAt, NoRID
<1>2. /\ Sound(u) /\ u.stopping_rid.page = u.last_page_id /\ N \in Nat /\ n \in 0 .. N
      /\ 0 \in 0 .. N /\ a \in Spots(u) /\ b \in Spots(u)
  BY DEF Scans
<1>3. r \in Spots(u)
  BY <1>1, <1>2, ScanStepForm
<1>4. a.page # -1 /\ UpTo(a, b)
  <2>1. Climbs(at, N) /\ (n = 0 \/ 0 < n)
    BY <1>2, ScanClimbs
  <2>. HIDE DEF N
  <2>2. 0 < n => at[0].page # -1 /\ Before(at[0], at[n])
    BY <1>1, <1>2, <2>1, Ascending
  <2>. QED  BY <1>1, <2>1, <2>2 DEF UpTo
<1>5. UpTo(b, r)
  BY <1>1, <1>2, ReadAhead
<1>6. UpTo(a, r)
  <2>1. /\ a.page \in Int /\ a.slot \in Int /\ b.page \in Int /\ b.slot \in Int
        /\ r.page \in Int /\ r.slot \in Int
    BY <1>2, <1>3, SpotFields
  <2>. HIDE DEF a, b, r
  <2>. QED  BY <1>4, <1>5, <2>1 DEF UpTo, Before
<1>7. r \in AllSlots(u)
  <2>1. Len(u.view[r.page].slots) \in Nat
    BY <1>1, <1>2, <1>3, SpotFields
  <2>2. r.slot >= 0 /\ r.slot < Len(u.view[r.page].slots)
    BY <1>1, <2>1 DEF Present, Found, HasSlot
  <2>. HIDE DEF r
  <2>. QED  BY <1>1, <1>2, <1>3, <2>2, SlotSpots
<1>. QED  BY <1>1, <1>4, <1>6, <1>7 DEF RowsFrom

LEMMA BeforePrecedes ==
  ASSUME NEW u, Sound(u), NEW a \in AllSlots(u), NEW b \in AllSlots(u), Before(a, b)
  PROVE  Precedes(Chain(u), a, b)
<1>. DEFINE chain == Chain(u)
<1>1. /\ DOMAIN chain = 1 .. u.last_page_id /\ \A i \in DOMAIN chain : chain[i] = i
  <2>1. chain = [n \in 1 .. u.last_page_id |-> n]
    BY ChainInOrder
  <2>. HIDE DEF chain
  <2>. QED  BY <2>1
<1>2. a.page \in 1 .. u.last_page_id /\ b.page \in 1 .. u.last_page_id
  BY SlotSpots
<1>. HIDE DEF chain
<1>. SUFFICES Precedes(chain, a, b)
  BY DEF chain
<1>3. CASE a.page < b.page
  BY <1>1, <1>2, <1>3 DEF Precedes
<1>4. CASE a.page = b.page /\ a.slot < b.slot
  BY <1>4 DEF Precedes
<1>. QED  BY <1>3, <1>4 DEF Before

(* No slot is in front of the starting rid.                                *)
LEMMA FirstSlot ==
  ASSUME NEW u, Sound(u), Bounded(u), u.starting_rid.page # -1, NEW rid \in AllSlots(u)
  PROVE  UpTo(u.starting_rid, rid)
<1>. DEFINE start == u.starting_rid
            last == u.last_page_id
            len(p) == Len(u.view[p].slots)
<1>1. /\ rid.page \in DOMAIN u.view /\ rid.page \in 1 .. last /\ rid.slot \in Nat
      /\ rid.slot < len(rid.page) /\ last \in Nat /\ rid \in [page : DOMAIN u.view, slot : Nat]
  BY SlotSpots, SoundFields
<1>2. rid.page < start.page => len(rid.page) = 0
  BY <1>1 DEF Bounded
<1>3. start.page \in 2 .. last /\ start.slot \in {-1, 0}
  BY DEF Bounded
<1>4. start = [page |-> start.page, slot |-> start.slot]
  BY SoundFields DEF RID
<1>5. rid = [page |-> rid.page, slot |-> rid.slot]
  BY <1>1
<1>. HIDE DEF start
<1>6. start.page = rid.page /\ start.slot = 0 /\ rid.slot = 0 => start = rid
  BY <1>4, <1>5
<1>7. UpTo(start, rid)
  BY <1>1, <1>2, <1>3, <1>6 DEF UpTo, Before
<1>. QED  BY <1>7 DEF start

(* A scan of a sound table yields the tuples of its chain, in order.       *)
LEMMA ScanExact ==
  ASSUME NEW u, Sound(u), Bounded(u)
  PROVE  YieldsRows(u, Scanned(u))
<1>. DEFINE N  == ScanSteps(u)
            at == Positions(u, u.starting_rid)
            K  == {k \in 0 .. N : Yields(u, readAt(u, at[k]))}
            rids == [n \in K |-> readAt(u, at[n])]
<1>. DEFINE start == u.starting_rid
<1>1. Rows(u) = {rid \in AllSlots(u) : Present(u, rid)}
  BY SlotSpots
<1>2. CASE u.starting_rid.page # -1
  <2>1. Scans(u, at, N) /\ at[0] = start /\ u.stopping_rid.page = u.last_page_id
    <3>1. start \in Spots(u)
      <4>1. start \in RID /\ start.page \in 2 .. u.last_page_id /\ start.page \in DOMAIN u.view
        BY <1>2, SoundFields DEF Bounded
      <4>. QED  BY <4>1 DEF RID, Spots
    <3>2. u.stopping_rid.page = u.last_page_id
      BY <1>2 DEF Bounded
    <3>. QED  BY <3>1, <3>2, PositionsScan
  <2>2. DOMAIN at = 0 .. N
    <3>. HIDE DEF at, N
    <3>. QED  BY <2>1 DEF Scans
  <2>3. Scanned(u) = rids
    BY <2>2 DEF Scanned
  <2>. HIDE DEF at, N
  <2>4. ASSUME NEW n \in K
        PROVE  readAt(u, at[n]) \in AllSlots(u) /\ readAt(u, at[n]) \in Rows(u)
               /\ readAt(u, at[n]).page # -1 /\ n \in 0 .. N
    <3>1. readAt(u, at[n]) \in RowsFrom(u, at[0])
      BY <2>1, ScanReads DEF N
    <3>. QED  BY <1>1, <3>1 DEF Yields, RowsFrom
  <2>5. Range(rids) = Rows(u)
    <3>1. ASSUME NEW r \in Rows(u) PROVE \E n \in K : rids[n] = r
      <4>1. r \in AllSlots(u) /\ Present(u, r)
        BY <1>1
      <4>2. PICK n \in 0 .. N : readAt(u, at[n]) = r
        <5>1. UpTo(start, r)
          BY <1>2, <4>1, FirstSlot
        <5>. QED  BY <1>2, <2>1, <4>1, <5>1, ScanCovers DEF N
      <4>3. r.page # -1
        BY <4>1, SlotSpots
      <4>4. n \in K
        BY <4>1, <4>2, <4>3 DEF Yields
      <4>. QED  BY <4>2, <4>4
    <3>2. \A n \in K : rids[n] \in Rows(u)
      BY <2>4
    <3>. HIDE DEF K
    <3>. QED  BY <3>1, <3>2 DEF Range
  <2>6. ASSUME NEW m \in K, NEW n \in K, m < n
        PROVE  Precedes(Chain(u), rids[m], rids[n])
    <3>1. Before(readAt(u, at[m]), readAt(u, at[n]))
      BY <2>1, <2>4, <2>6, ScanAscends
    <3>2. readAt(u, at[m]) \in AllSlots(u) /\ readAt(u, at[n]) \in AllSlots(u)
      BY <2>4
    <3>3. rids[m] = readAt(u, at[m]) /\ rids[n] = readAt(u, at[n])
      OBVIOUS
    <3>. QED  BY <3>1, <3>2, <3>3, BeforePrecedes
  <2>7. YieldsRows(u, rids)
    <3>1. DOMAIN rids = K
      OBVIOUS
    <3>. HIDE DEF rids, K
    <3>. QED  BY <2>5, <2>6, <3>1 DEF YieldsRows
  <2>. QED  BY <2>3, <2>7
<1>3. CASE u.starting_rid.page = -1
  <2>. DEFINE D == {rid \in RID : rid.page = -1}
  <2>1. u.starting_rid \in D /\ N \in Nat
    BY <1>3, StepsCounted, SoundFields
  <2>2. \A a \in D : ScanStep(u, a) \in D /\ readAt(u, a).page = -1
    BY DEF ScanStep, readAt, NoRID, RID
  <2>3. at \in [0 .. N -> D]
    <3>. HIDE DEF D
    <3>. QED  BY <2>1, <2>2, PositionsForm
  <2>4. Scanned(u) = rids
    <3>. HIDE DEF at, N
    <3>1. DOMAIN at = 0 .. N
      BY <2>3
    <3>. QED  BY <3>1 DEF Scanned, at, N
  <2>5. K = {}
    <3>. HIDE DEF at, N, D
    <3>. QED  BY <2>2, <2>3 DEF Yields
  <2>6. Rows(u) = {}
    <3>1. \A p \in DOMAIN u.view : u.view[p].slots = << >>
      BY <1>3 DEF Bounded
    <3>2. ASSUME NEW rid \in AllSlots(u) PROVE FALSE
      <4>1. rid.slot \in Nat /\ rid.slot < Len(u.view[rid.page].slots) /\ rid.page \in DOMAIN u.view
        BY SlotSpots
      <4>2. Len(u.view[rid.page].slots) = 0
        BY <3>1, <4>1
      <4>. QED  BY <4>1, <4>2
    <3>. QED  BY <1>1, <3>2
  <2>7. Range(rids) = {} /\ DOMAIN rids = {}
    BY <2>5 DEF Range
  <2>. HIDE DEF rids
  <2>. QED  BY <2>4, <2>6, <2>7 DEF YieldsRows
<1>. QED  BY <1>2, <1>3

---------------------------------------------------------------------------
(* The iterator.                                                           *)
IteratorEnd == [page |-> -1, slot |-> 0]

Turns(u) == AllSlots(u) \cup {IteratorEnd}

IteratorStep(u, a) == IF a.page = -1 THEN a ELSE iteratorNext(u, a)

(* What CREATE INDEX needs of a table: every page of tuples has one.       *)
NoPageEmpty(u) == \A p \in 2 .. u.last_page_id : u.view[p].slots # << >>

LEMMA SlotIsOne ==
  ASSUME NEW u, Sound(u), NEW p \in 1 .. u.last_page_id, NEW k \in Nat,
         k < Len(u.view[p].slots)
  PROVE  [page |-> p, slot |-> k] \in AllSlots(u)
<1>. DEFINE r == [page |-> p, slot |-> k]
<1>1. DOMAIN u.view = 1 .. u.last_page_id /\ p # -1
  BY SoundFields
<1>2. r \in Spots(u) /\ r.page = p /\ r.slot = k
  BY <1>1 DEF Spots
<1>. HIDE DEF r
<1>3. r \in AllSlots(u)
  BY <1>1, <1>2, SlotSpots
<1>. QED  BY <1>3 DEF r

LEMMA IteratorStepForm ==
  ASSUME NEW u, Sound(u), NoPageEmpty(u), NEW a \in AllSlots(u)
  PROVE  LET len == Len(u.view[a.page].slots)
         IN  /\ iteratorNext(u, a) \in Turns(u)
             /\ a.slot + 1 < len => iteratorNext(u, a) = [page |-> a.page, slot |-> a.slot + 1]
             /\ ~(a.slot + 1 < len) /\ a.page < u.last_page_id =>
                  iteratorNext(u, a) = [page |-> a.page + 1, slot |-> 0]
             /\ ~(a.slot + 1 < len) /\ ~(a.page < u.last_page_id) =>
                  iteratorNext(u, a) = IteratorEnd
<1>. DEFINE len  == Len(u.view[a.page].slots)
            last == u.last_page_id
            next == u.view[a.page].next_page_id
<1>1. /\ a.page \in DOMAIN u.view /\ a.page \in 1 .. last /\ last \in Nat
      /\ a.slot \in Nat /\ a.slot < len /\ DOMAIN u.view = 1 .. last
      /\ a = [page |-> a.page, slot |-> a.slot]
  <2>1. a \in [page : DOMAIN u.view, slot : Nat]
    BY SlotSpots
  <2>2. a = [page |-> a.page, slot |-> a.slot]
    BY <2>1
  <2>. QED  BY <2>2, SlotSpots, SoundFields
<1>2. len \in Nat /\ next = IF a.page < last THEN a.page + 1 ELSE -1
  <2>1. u.view[a.page] \in Page /\ next = NextPage(u, a.page)
    BY <1>1, SoundFields
  <2>2. len \in Nat
    BY <2>1, PageFields
  <2>. QED  BY <2>1, <2>2 DEF NextPage
<1>3. iteratorNext(u, a) = IF a.slot + 1 >= len THEN [page |-> next, slot |-> 0]
                           ELSE [page |-> a.page, slot |-> a.slot + 1]
  <2>1. [a EXCEPT !.slot = @ + 1] = [page |-> a.page, slot |-> a.slot + 1]
    BY <1>1
  <2>. QED  BY <2>1 DEF iteratorNext
<1>4. CASE a.slot + 1 < len
  <2>1. iteratorNext(u, a) = [page |-> a.page, slot |-> a.slot + 1]
    <3>. HIDE DEF len
    <3>. QED  BY <1>1, <1>2, <1>3, <1>4
  <2>2. [page |-> a.page, slot |-> a.slot + 1] \in AllSlots(u)
    <3>1. a.slot + 1 \in Nat
      BY <1>1
    <3>. QED  BY <1>1, <1>4, <3>1, SlotIsOne
  <2>. QED  BY <1>4, <2>1, <2>2 DEF Turns
<1>5. CASE ~(a.slot + 1 < len) /\ a.page < last
  <2>1. iteratorNext(u, a) = [page |-> a.page + 1, slot |-> 0]
    <3>. HIDE DEF len, next, last
    <3>. QED  BY <1>1, <1>2, <1>3, <1>5
  <2>2. a.page + 1 \in 2 .. last /\ a.page + 1 \in 1 .. last
    <3>. HIDE DEF last
    <3>. QED  BY <1>1, <1>5
  <2>3. 0 < Len(u.view[a.page + 1].slots)
    <3>1. u.view[a.page + 1].slots # << >> /\ u.view[a.page + 1] \in Page
      BY <1>1, <2>2, SoundFields DEF NoPageEmpty
    <3>. QED  BY <3>1, PageFields
  <2>4. [page |-> a.page + 1, slot |-> 0] \in AllSlots(u)
    BY <2>2, <2>3, SlotIsOne
  <2>. QED  BY <1>5, <2>1, <2>4 DEF Turns
<1>6. CASE ~(a.slot + 1 < len) /\ ~(a.page < last)
  <2>1. iteratorNext(u, a) = IteratorEnd
    <3>. HIDE DEF len, next, last
    <3>. QED  BY <1>1, <1>2, <1>3, <1>6 DEF IteratorEnd
  <2>. QED  BY <1>6, <2>1 DEF Turns
<1>. QED  BY <1>4, <1>5, <1>6

Passes(u, at, N) ==
  /\ Sound(u) /\ Bounded(u) /\ NoPageEmpty(u) /\ u.starting_rid \in AllSlots(u)
  /\ N \in Nat /\ at \in [0 .. N -> Turns(u)] /\ at[0] = u.starting_rid
  /\ \A n \in 1 .. N : at[n] = IteratorStep(u, at[n - 1])

LEMMA IteratorPasses ==
  ASSUME NEW u, Sound(u), Bounded(u), NoPageEmpty(u), u.starting_rid.slot >= 0
  PROVE  Passes(u, IteratorPositions(u, u.starting_rid), ScanSteps(u))
<1>. DEFINE from == u.starting_rid
            N == ScanSteps(u)
            D == Turns(u)
            last == u.last_page_id
            at == IteratorPositions(u, from)
            step(f) == [n \in 0 .. N |-> IF n = 0 THEN from ELSE IteratorStep(u, f[n - 1])]
<1>1. last \in Nat /\ 2 <= last /\ DOMAIN u.view = 1 .. last /\ N \in Nat
  BY SoundFields, StepsCounted
<1>2. from.page \in 2 .. last /\ from.slot = 0 /\ from = [page |-> from.page, slot |-> 0]
  <2>1. from.page # -1
    <3>1. u.view[2].slots # << >>
      BY <1>1 DEF NoPageEmpty
    <3>2. 2 \in DOMAIN u.view
      BY <1>1
    <3>. QED  BY <3>1, <3>2 DEF Bounded
  <2>2. from \in RID
    BY SoundFields
  <2>. QED  BY <2>1, <2>2 DEF Bounded, RID
<1>3. 0 < Len(u.view[from.page].slots) /\ from.page \in 1 .. last
  <2>1. from.page \in 1 .. last /\ u.view[from.page].slots # << >>
    BY <1>1, <1>2 DEF NoPageEmpty
  <2>2. u.view[from.page] \in Page
    BY <1>1, <2>1, SoundFields
  <2>. QED  BY <2>1, <2>2, PageFields
<1>4. from \in AllSlots(u)
  <2>. HIDE DEF from
  <2>1. [page |-> from.page, slot |-> 0] \in AllSlots(u)
    BY <1>3, SlotIsOne
  <2>. QED  BY <1>2, <2>1
<1>5. iteratorStart(u, from) = from
  <2>1. Len(u.view[from.page].slots) \in Nat
    BY <1>1, <1>3, SoundFields, PageFields
  <2>2. ~(Len(u.view[from.page].slots) <= from.slot)
    BY <1>2, <1>3, <2>1
  <2>. QED  BY <2>2 DEF iteratorStart
<1>6. \A a \in D : IteratorStep(u, a) \in D
  <2>1. ASSUME NEW a \in AllSlots(u) PROVE IteratorStep(u, a) \in D
    BY IteratorStepForm, SlotSpots DEF IteratorStep, Turns
  <2>2. IteratorStep(u, IteratorEnd) \in D
    BY DEF IteratorStep, Turns, IteratorEnd
  <2>. QED  BY <2>1, <2>2 DEF Turns
<1>7. at = CHOOSE f : f = step(f)
  BY <1>5 DEF IteratorPositions, IteratorStep
<1>8. PICK f \in [0 .. N -> D] :
        f[0] = from /\ \A n \in 1 .. N : f[n] = IteratorStep(u, f[n - 1])
  <2>. DEFINE g == [a \in D |-> IteratorStep(u, a)]
  <2>1. Steps(D, g) /\ (\A a \in D : g[a] = IteratorStep(u, a)) /\ N \in Nat /\ from \in D
    BY <1>1, <1>4, <1>6 DEF Steps, Turns
  <2>. HIDE DEF g, N, D, from
  <2>2. PICK f : IsRun(f, D, g, from, N)
    BY <2>1, Iterates
  <2>3. \A n \in 1 .. N : n - 1 \in 0 .. N
    BY <2>1
  <2>. QED  BY <2>1, <2>2, <2>3 DEF IsRun
<1>. HIDE DEF at, D
<1>9. \A n \in 0 .. N : n = 0 \/ (n \in 1 .. N /\ n - 1 \in 0 .. N)
  BY <1>1
<1>10. f = step(f)
  <2>1. \A n \in 0 .. N : f[n] = step(f)[n]
    BY <1>8, <1>9
  <2>. QED  BY <2>1
<1>11. at = step(at)
  BY <1>7, <1>10
<1>12. at[0] = from /\ \A n \in 1 .. N : at[n] = IteratorStep(u, at[n - 1])
  <2>1. 0 \in 0 .. N /\ \A n \in 1 .. N : n \in 0 .. N /\ n # 0
    BY <1>1
  <2>2. \A n \in 0 .. N : at[n] = IF n = 0 THEN from ELSE IteratorStep(u, at[n - 1])
    BY <1>11
  <2>. QED  BY <2>1, <2>2
<1>13. \A n \in 0 .. N : at[n] \in D
  <2>. DEFINE S == {n \in 0 .. N : at[n] \notin D}
  <2>. SUFFICES ASSUME S # {} PROVE FALSE
    OBVIOUS
  <2>1. S \in SUBSET Nat
    BY <1>1
  <2>2. PICK n \in S : \A k \in S : n <= k
    <3>. HIDE DEF S
    <3>. QED  BY <2>1, LeastNumber
  <2>3. n # 0 /\ n \in 1 .. N /\ n - 1 \in 0 .. N
    BY <1>4, <1>9, <1>12 DEF D, Turns
  <2>4. n - 1 \notin S
    <3>. HIDE DEF S
    <3>. QED  BY <2>1, <2>2, <2>3
  <2>5. at[n - 1] \in D
    BY <2>3, <2>4
  <2>. QED  BY <1>6, <1>12, <2>3, <2>5
<1>14. DOMAIN at = 0 .. N
  BY <1>11
<1>15. at \in [0 .. N -> D]
  <2>1. at = [n \in 0 .. N |-> at[n]]
    BY <1>11, <1>14
  <2>. QED  BY <1>13, <2>1
<1>. QED  BY <1>1, <1>4, <1>12, <1>15 DEF Passes, D, at

LEMMA IteratorClimbs ==
  ASSUME NEW u, NEW N, NEW at, Passes(u, at, N)
  PROVE  /\ Climbs(at, N)
         /\ \A n \in 0 .. N : at[n].page # -1 => at[n] \in AllSlots(u)
<1>1. ASSUME NEW n \in 0 .. N
      PROVE  at[n].page \in Int /\ at[n].slot \in Int /\ (at[n].page # -1 => at[n] \in AllSlots(u))
  <2>1. Sound(u) /\ (at[n] \in AllSlots(u) \/ at[n] = IteratorEnd)
    BY DEF Passes, Turns
  <2>2. CASE at[n] \in AllSlots(u)
    BY <2>1, <2>2, SlotSpots, SoundFields
  <2>3. CASE at[n] = IteratorEnd
    BY <2>3 DEF IteratorEnd
  <2>. QED  BY <2>1, <2>2, <2>3
<1>2. ASSUME NEW n \in 1 .. N, at[n].page # -1
      PROVE  at[n - 1].page # -1 /\ Before(at[n - 1], at[n])
  <2>. DEFINE a == at[n - 1]
              len == Len(u.view[a.page].slots)
              last == u.last_page_id
  <2>1. n - 1 \in 0 .. N /\ Sound(u) /\ NoPageEmpty(u) /\ at[n] = IteratorStep(u, a)
    BY DEF Passes
  <2>2. a.page # -1
    BY <1>2, <2>1 DEF IteratorStep
  <2>3. a \in AllSlots(u) /\ at[n] = iteratorNext(u, a) /\ at[n] # IteratorEnd
    BY <1>1, <1>2, <2>1, <2>2 DEF IteratorStep, IteratorEnd
  <2>4. \/ at[n] = [page |-> a.page, slot |-> a.slot + 1]
        \/ at[n] = [page |-> a.page + 1, slot |-> 0]
    BY <2>1, <2>3, IteratorStepForm
  <2>5. a.page \in Int /\ a.slot \in Int
    BY <1>1, <2>1
  <2>. HIDE DEF a
  <2>6. Before(a, at[n])
    BY <2>4, <2>5 DEF Before
  <2>. QED  BY <2>2, <2>6 DEF a
<1>. QED  BY <1>1, <1>2 DEF Climbs

(* It is in a new slot in every step, so it ends.                          *)
LEMMA IteratorEnds ==
  ASSUME NEW u, NEW at, Passes(u, at, ScanSteps(u))
  PROVE  at[ScanSteps(u)].page = -1
<1>. DEFINE N == ScanSteps(u)
            All == AllSlots(u)
            f == [n \in 1 .. N |-> at[n]]
<1>. SUFFICES ASSUME at[N].page # -1 PROVE FALSE
  OBVIOUS
<1>1. Sound(u) /\ N \in Nat
  BY DEF Passes
<1>2. IsFiniteSet(All) /\ Cardinality(All) < N
  <2>1. u.last_page_id \in Nat /\ IsFiniteSet(All) /\ Cardinality(All) \in Nat
        /\ N = 1 + u.last_page_id + Cardinality(All)
    BY <1>1, StepsCounted, SoundFields
  <2>. HIDE DEF All, N
  <2>. QED  BY <2>1
<1>3. Climbs(at, N) /\ \A n \in 0 .. N : at[n].page # -1 => at[n] \in All
  BY IteratorClimbs
<1>. HIDE DEF N
<1>4. \A m, n \in 0 .. N : m < n /\ at[n].page # -1 =>
        at[m].page # -1 /\ Before(at[m], at[n])
  BY <1>1, <1>3, Ascending
<1>5. \A n \in 0 .. N : at[n].page # -1
  <2>. SUFFICES ASSUME NEW n \in 0 .. N PROVE at[n].page # -1
    OBVIOUS
  <2>1. n = N \/ n < N
    BY <1>1
  <2>2. N \in 0 .. N
    BY <1>1
  <2>. QED  BY <1>4, <2>1, <2>2
<1>6. f \in [1 .. N -> All]
  <2>. HIDE DEF All
  <2>1. \A n \in 1 .. N : n \in 0 .. N
    BY <1>1
  <2>. QED  BY <1>3, <1>5, <2>1
<1>7. PICK m, n \in 1 .. N : m < n /\ f[m] = f[n]
  <2>. HIDE DEF f, All
  <2>. QED  BY <1>1, <1>2, <1>6, TwoMeet
<1>8. m \in 0 .. N /\ n \in 0 .. N /\ at[m] = at[n]
  BY <1>1, <1>7
<1>9. Before(at[m], at[m]) /\ at[m].page \in Int /\ at[m].slot \in Int
  BY <1>3, <1>4, <1>5, <1>7, <1>8 DEF Climbs
<1>. QED  BY <1>9 DEF Before

LEMMA IteratorCovers ==
  ASSUME NEW u, NEW at, Passes(u, at, ScanSteps(u)), NEW rid \in AllSlots(u)
  PROVE  \E n \in 0 .. ScanSteps(u) : at[n] = rid
<1>. DEFINE N == ScanSteps(u)
            last == u.last_page_id
            len(p) == Len(u.view[p].slots)
            S == {n \in 0 .. N : ~(at[n].page # -1 /\ UpTo(at[n], rid))}
<1>. SUFFICES ASSUME \A n \in 0 .. N : at[n] # rid PROVE FALSE
  OBVIOUS
<1>1. /\ Sound(u) /\ Bounded(u) /\ NoPageEmpty(u) /\ N \in Nat
      /\ at[0] = u.starting_rid /\ u.starting_rid \in AllSlots(u)
      /\ \A n \in 1 .. N : at[n] = IteratorStep(u, at[n - 1])
      /\ \A n \in 0 .. N : at[n].page # -1 => at[n] \in AllSlots(u)
  BY IteratorClimbs DEF Passes
<1>2. /\ rid.page \in DOMAIN u.view /\ rid.page \in 1 .. last /\ rid.slot \in Nat
      /\ rid.slot < len(rid.page) /\ last \in Nat
      /\ rid = [page |-> rid.page, slot |-> rid.slot]
  <2>1. rid \in [page : DOMAIN u.view, slot : Nat]
    BY <1>1, SlotSpots
  <2>2. rid = [page |-> rid.page, slot |-> rid.slot]
    BY <2>1
  <2>. QED  BY <1>1, <2>2, SlotSpots, SoundFields
<1>3. S \in SUBSET Nat /\ S # {}
  <2>1. at[N].page = -1 /\ N \in 0 .. N
    BY <1>1, IteratorEnds
  <2>. QED  BY <2>1
<1>4. PICK n \in S : \A k \in S : n <= k
  <2>. HIDE DEF S
  <2>. QED  BY <1>3, LeastNumber
<1>5. n # 0
  <2>1. u.starting_rid.page # -1
    BY <1>1, SlotSpots, SoundFields
  <2>2. UpTo(u.starting_rid, rid)
    BY <1>1, <2>1, FirstSlot
  <2>. QED  BY <1>1, <2>1, <2>2
<1>6. n \in 1 .. N /\ n - 1 \in 0 .. N /\ n \in 0 .. N /\ n - 1 < n
  <2>1. n \in 0 .. N
    OBVIOUS
  <2>. HIDE DEF S, N
  <2>. QED  BY <1>1, <1>5, <2>1
<1>7. n - 1 \notin S
  <2>. HIDE DEF S
  <2>. QED  BY <1>3, <1>4, <1>6
<1>. DEFINE a == at[n - 1]
            b == at[n]
<1>8. Before(a, rid) /\ ~(b.page # -1 /\ UpTo(b, rid)) /\ a \in AllSlots(u)
      /\ b = iteratorNext(u, a)
  <2>1. a.page # -1 /\ UpTo(a, rid) /\ a # rid /\ ~(b.page # -1 /\ UpTo(b, rid))
    BY <1>6, <1>7
  <2>. QED  BY <1>1, <1>6, <2>1 DEF IteratorStep, UpTo
<1>9. /\ a.page \in 1 .. last /\ a.slot \in Nat /\ a.slot < len(a.page) /\ len(a.page) \in Nat
      /\ a.slot + 1 < len(a.page) => b = [page |-> a.page, slot |-> a.slot + 1]
      /\ ~(a.slot + 1 < len(a.page)) /\ a.page < last =>
           b = [page |-> a.page + 1, slot |-> 0]
  <2>1. a.page \in DOMAIN u.view
    BY <1>1, <1>8, SlotSpots
  <2>2. len(a.page) \in Nat
    BY <1>1, <2>1, SoundFields, PageFields
  <2>. QED  BY <1>1, <1>8, <2>2, IteratorStepForm, SlotSpots
<1>10. CASE a.slot + 1 < len(a.page)
  <2>1. b = [page |-> a.page, slot |-> a.slot + 1]
    BY <1>9, <1>10
  <2>2. b.page = a.page /\ b.slot = a.slot + 1
    BY <2>1
  <2>3. a.page = rid.page /\ a.slot + 1 = rid.slot => b = rid
    BY <1>2, <2>1
  <2>. HIDE DEF a, b
  <2>4. b.page # -1 /\ UpTo(b, rid)
    BY <1>2, <1>8, <1>9, <2>2, <2>3 DEF UpTo, Before
  <2>. QED  BY <1>8, <2>4
<1>11. CASE ~(a.slot + 1 < len(a.page))
  <2>1. a.page < rid.page
    <3>1. a.page = rid.page => len(a.page) = len(rid.page)
      OBVIOUS
    <3>. HIDE DEF a, len
    <3>. QED  BY <1>2, <1>8, <1>9, <1>11, <3>1 DEF Before
  <2>2. a.page < last
    <3>. HIDE DEF a, last
    <3>. QED  BY <1>2, <1>9, <2>1
  <2>3. b = [page |-> a.page + 1, slot |-> 0]
    BY <1>9, <1>11, <2>2
  <2>4. b.page = a.page + 1 /\ b.slot = 0
    BY <2>3
  <2>5. a.page + 1 = rid.page /\ rid.slot = 0 => b = rid
    BY <1>2, <2>3
  <2>. HIDE DEF a, b
  <2>6. b.page # -1 /\ UpTo(b, rid)
    BY <1>2, <1>9, <2>1, <2>4, <2>5 DEF UpTo, Before
  <2>. QED  BY <1>8, <2>6
<1>. QED  BY <1>10, <1>11

LEMMA IteratorExact ==
  ASSUME NEW u, Sound(u), Bounded(u), NoPageEmpty(u), NoTupleDeleted(u),
         u.starting_rid.slot >= 0
  PROVE  LET rids == Iterated(u, u.starting_rid)
         IN  /\ YieldsRows(u, rids)
             /\ \A n \in DOMAIN rids : getTupleFromRID(u, rids[n]) # {}
<1>. DEFINE N  == ScanSteps(u)
            at == IteratorPositions(u, u.starting_rid)
            K  == {k \in 0 .. N : at[k].page # -1}
            rids == [n \in K |-> at[n]]
<1>1. Passes(u, at, N)
  BY IteratorPasses
<1>2. DOMAIN at = 0 .. N /\ N \in Nat
  <2>. HIDE DEF at, N
  <2>. QED  BY <1>1 DEF Passes
<1>3. Iterated(u, u.starting_rid) = rids
  BY <1>2 DEF Iterated
<1>. HIDE DEF at
<1>4. ASSUME NEW rid \in AllSlots(u) PROVE Present(u, rid)
  <2>1. /\ rid.page \in DOMAIN u.view /\ rid.slot \in Nat
        /\ rid.slot < Len(u.view[rid.page].slots)
    BY SlotSpots
  <2>2. /\ Len(u.view[rid.page].slots) \in Nat
        /\ DOMAIN u.view[rid.page].slots = 1 .. Len(u.view[rid.page].slots)
    BY <2>1, SoundFields, PageFields
  <2>3. rid.slot + 1 \in DOMAIN u.view[rid.page].slots
    BY <2>1, <2>2
  <2>4. ~u.view[rid.page].slots[rid.slot + 1].deleted
    BY <2>1, <2>3, ChainInOrder DEF NoTupleDeleted
  <2>5. Fitting(u.view[rid.page])
    BY <2>1, SoundFields
  <2>. QED  BY <2>1, <2>2, <2>4, <2>5, FoundBySlot DEF Present, HasSlot
<1>5. Rows(u) = AllSlots(u)
  BY <1>4, SlotSpots
<1>6. ASSUME NEW n \in K PROVE n \in 0 .. N /\ at[n].page # -1 /\ at[n] \in AllSlots(u)
  BY <1>1, IteratorClimbs
<1>7. Range(rids) = Rows(u)
  <2>1. ASSUME NEW r \in AllSlots(u) PROVE \E n \in K : rids[n] = r
    <3>1. PICK n \in 0 .. N : at[n] = r
      BY <1>1, IteratorCovers
    <3>2. r.page # -1
      BY SlotSpots, SoundFields
    <3>. QED  BY <3>1, <3>2
  <2>2. \A n \in K : rids[n] \in AllSlots(u)
    BY <1>6
  <2>. HIDE DEF K
  <2>. QED  BY <1>5, <2>1, <2>2 DEF Range
<1>8. ASSUME NEW m \in K, NEW n \in K, m < n PROVE Precedes(Chain(u), rids[m], rids[n])
  <2>1. Climbs(at, N)
    BY <1>1, IteratorClimbs
  <2>2. Before(at[m], at[n])
    <3>. HIDE DEF N
    <3>. QED  BY <1>2, <1>6, <1>8, <2>1, Ascending
  <2>3. at[m] \in AllSlots(u) /\ at[n] \in AllSlots(u)
    BY <1>6
  <2>4. rids[m] = at[m] /\ rids[n] = at[n]
    OBVIOUS
  <2>. QED  BY <2>2, <2>3, <2>4, BeforePrecedes
<1>9. \A n \in K : getTupleFromRID(u, rids[n]) # {}
  BY <1>4, <1>6 DEF getTupleFromRID
<1>10. DOMAIN rids = K
  OBVIOUS
<1>. HIDE DEF rids, K
<1>11. YieldsRows(u, rids)
  BY <1>7, <1>8, <1>10 DEF YieldsRows
<1>. QED  BY <1>3, <1>9, <1>10, <1>11

---------------------------------------------------------------------------
(* What the methods leave alone: they write to no page of the file, and not*)
(* to the metadata.                                                        *)

InMemory(u, v) ==
  /\ DOMAIN v = TableFields /\ v.first_page_id = u.first_page_id /\ v.known = u.known
  /\ u.last_page_id \in Int /\ v.last_page_id \in Int /\ u.last_page_id <= v.last_page_id
  /\ \A p \in DOMAIN u.view :
       p \in DOMAIN v.view /\ v.stored[p] = u.stored[p] /\ v.view[p].meta = u.view[p].meta

LEMMA InMemoryAgain ==
  ASSUME NEW u, NEW v, NEW w, InMemory(u, v), InMemory(v, w)
  PROVE  InMemory(u, w)
BY DEF InMemory

LEMMA InMemorySelf ==
  ASSUME NEW u, Sound(u)
  PROVE  InMemory(u, u)
BY SoundFields DEF InMemory

LEMMA WrittenInMemory ==
  ASSUME NEW u, Sound(u), NEW p \in DOMAIN u.view, NEW page, page.meta = u.view[p].meta
  PROVE  InMemory(u, Written(u, p, page))
<1>. DEFINE v == Written(u, p, page)
<1>1. /\ DOMAIN u = TableFields /\ u.last_page_id \in Int
  BY SoundFields
<1>2. /\ DOMAIN v = TableFields /\ v.first_page_id = u.first_page_id /\ v.known = u.known
      /\ v.last_page_id = u.last_page_id /\ v.stored = u.stored
      /\ v.view = [u.view EXCEPT ![p] = page]
  BY <1>1 DEF Written, TableFields
<1>. HIDE DEF v
<1>3. \A q \in DOMAIN u.view : q \in DOMAIN v.view /\ v.view[q].meta = u.view[q].meta
  BY <1>2
<1>. QED  BY <1>1, <1>2, <1>3 DEF InMemory, v

LEMMA MarkedInMemory ==
  ASSUME NEW u, Sound(u), NEW p
  PROVE  InMemory(u, Marked(u, p))
<1>. DEFINE v == Marked(u, p)
<1>1. /\ DOMAIN u = TableFields /\ u.last_page_id \in Int
  BY SoundFields
<1>2. /\ DOMAIN v = TableFields /\ v.first_page_id = u.first_page_id /\ v.known = u.known
      /\ v.last_page_id = u.last_page_id /\ v.stored = u.stored /\ v.view = u.view
  BY <1>1 DEF Marked, TableFields
<1>. HIDE DEF v
<1>. QED  BY <1>1, <1>2 DEF InMemory, v

LEMMA ExtendedInMemory ==
  ASSUME NEW u, Sound(u)
  PROVE  InMemory(u, extended(u))
<1>. DEFINE n == NewPageId(u)
            last == u.last_page_id
            page == [lastPage(u) EXCEPT !.next_page_id = n]
            new == newPage(u)
            linked == Written(new, last, page)
            v == extended(u)
<1>1. /\ DOMAIN u = TableFields /\ n = last + 1 /\ last \in Nat
      /\ last \in DOMAIN u.view /\ DOMAIN u.view = 1 .. last /\ DOMAIN u.stored = 1 .. last
      /\ lastPage(u) = u.view[last]
  BY SoundFields
<1>2. page.meta = u.view[last].meta
  <2>1. u.view[last] \in Page
    BY <1>1, SoundFields
  <2>. QED  BY <1>1, <2>1, PageFields
<1>. HIDE DEF n, last, page
<1>3. /\ DOMAIN new = TableFields
      /\ new.view = Put(u.view, n, EmptyPage) /\ new.stored = Put(u.stored, n, EmptyPage)
      /\ new.known = u.known /\ new.first_page_id = u.first_page_id
  BY <1>1 DEF newPage, Extended, n, TableFields
<1>. HIDE DEF new
<1>4. /\ DOMAIN linked = TableFields
      /\ linked.view = [new.view EXCEPT ![last] = page] /\ linked.stored = new.stored
      /\ linked.known = new.known /\ linked.first_page_id = new.first_page_id
  BY <1>3 DEF Written, TableFields
<1>5. v = [Marked(linked, last) EXCEPT !.last_page_id = n]
  BY DEF extended, linked, new, page, n, last
<1>. HIDE DEF linked, v
<1>6. /\ DOMAIN v = TableFields /\ v.view = linked.view /\ v.stored = linked.stored
      /\ v.known = linked.known /\ v.first_page_id = linked.first_page_id
      /\ v.last_page_id = n
  BY <1>4, <1>5 DEF Marked, TableFields
<1>7. ASSUME NEW p \in 1 .. last
      PROVE  /\ p \in DOMAIN v.view /\ v.stored[p] = u.stored[p]
             /\ v.view[p].meta = u.view[p].meta
  <2>1. p # n /\ p \in DOMAIN new.view
    BY <1>1, <1>3 DEF Put
  <2>2. new.view[p] = u.view[p] /\ new.stored[p] = u.stored[p]
    BY <1>1, <1>3, <2>1 DEF Put
  <2>. QED  BY <1>2, <1>4, <1>6, <2>1, <2>2
<1>. QED  BY <1>1, <1>3, <1>4, <1>6, <1>7 DEF InMemory, v, last

LEMMA InsertInMemory ==
  ASSUME NEW u, Sound(u), NEW tuple \in Tuples, Room(u, tuple)
  PROVE  InMemory(u, insertTuple(u, tuple))
<1>. DEFINE ready  == IF Fits(lastPage(u), tuple) THEN u ELSE extended(u)
            last   == ready.last_page_id
            fits   == Fits(lastPage(ready), tuple)
            page   == pageInsert(lastPage(ready), tuple)
            stored == IF fits THEN Written(ready, last, page) ELSE ready
            marked == Marked(stored, last)
            rid    == insertedRID(u, tuple)
            v      == insertTuple(u, tuple)
<1>1. Sound(ready) /\ InMemory(u, ready)
  <2>1. CASE Fits(lastPage(u), tuple)
    BY <2>1, InMemorySelf
  <2>2. CASE ~Fits(lastPage(u), tuple)
    <3>1. ready = extended(u) /\ HasRoom(u)
      BY <2>2 DEF Room
    <3>. QED  BY <3>1, ExtendedTable, ExtendedInMemory
  <2>. QED  BY <2>1, <2>2
<1>2. v = [marked EXCEPT !.starting_rid = IF @.page = -1 THEN rid ELSE @, !.stopping_rid = rid]
  BY DEF insertTuple
<1>. HIDE DEF ready, rid, v
<1>3. /\ last \in DOMAIN ready.view /\ lastPage(ready) = ready.view[last]
      /\ ready.view[last] \in Page /\ Fitting(ready.view[last])
  BY <1>1, SoundFields
<1>4. fits => /\ page \in Page /\ Fitting(page)
              /\ page.next_page_id = ready.view[last].next_page_id
  BY <1>3, PageInserted
<1>5. page.meta = ready.view[last].meta
  BY <1>3, PageFields DEF pageInsert
<1>. HIDE DEF page
<1>6. Sound(stored) /\ InMemory(ready, stored)
  <2>1. CASE fits
    BY <1>1, <1>3, <1>4, <1>5, <2>1, WrittenTable, WrittenInMemory
  <2>2. CASE ~fits
    BY <1>1, <2>2, InMemorySelf
  <2>. QED  BY <2>1, <2>2
<1>. HIDE DEF stored
<1>7. InMemory(stored, marked)
  BY <1>6, MarkedInMemory
<1>8. InMemory(u, marked)
  BY <1>1, <1>6, <1>7, InMemoryAgain
<1>. HIDE DEF marked
<1>9. /\ DOMAIN v = TableFields /\ v.first_page_id = marked.first_page_id
      /\ v.known = marked.known /\ v.last_page_id = marked.last_page_id
      /\ v.view = marked.view /\ v.stored = marked.stored
  <2>1. DOMAIN marked = TableFields
    BY <1>8 DEF InMemory
  <2>. QED  BY <1>2, <2>1 DEF TableFields
<1>. QED  BY <1>8, <1>9 DEF InMemory, v


(* A deletion, also where there is no slot, and an update.                 *)
LEMMA DeleteInMemory ==
  ASSUME NEW u, Sound(u), NEW rid \in RID, rid.page \in DOMAIN u.view
  PROVE  LET v == deleteTuple(u, rid)
         IN  /\ Sound(v) /\ InMemory(u, v) /\ DOMAIN v.view = DOMAIN u.view
             /\ v.last_page_id = u.last_page_id
             /\ v.starting_rid = u.starting_rid /\ v.stopping_rid = u.stopping_rid
<1>. DEFINE page == u.view[rid.page]
            new  == pageDelete(page, rid.slot)
<1>1. page \in Page /\ Fitting(page)
  BY SoundFields
<1>2. new \in Page /\ Fitting(new) /\ new.next_page_id = page.next_page_id
  <2>1. CASE rid.slot \in Nat
    BY <1>1, <2>1, PageDeleted
  <2>2. CASE rid.slot = -1
    <3>1. ~HasSlot(page, rid.slot)
      <4>1. -1 \notin 0 .. Len(page.slots) - 1
        BY <1>1, PageFields
      <4>. QED  BY <2>2, <4>1 DEF HasSlot
    <3>. QED  BY <1>1, <3>1 DEF pageDelete
  <2>. QED  BY <2>1, <2>2 DEF RID
<1>3. new.meta = page.meta
  BY <1>1, PageFields DEF pageDelete
<1>4. deleteTuple(u, rid) = Written(u, rid.page, new)
  BY DEF deleteTuple
<1>. HIDE DEF new
<1>5. InMemory(u, Written(u, rid.page, new))
  BY <1>3, WrittenInMemory
<1>6. LET v == Written(u, rid.page, new)
      IN  /\ Sound(v) /\ v.view = [u.view EXCEPT ![rid.page] = new]
          /\ v.last_page_id = u.last_page_id
          /\ v.starting_rid = u.starting_rid /\ v.stopping_rid = u.stopping_rid
  BY <1>2, WrittenTable
<1>. QED  BY <1>4, <1>5, <1>6

LEMMA OverwriteInMemory ==
  ASSUME NEW u, Sound(u), NEW rid \in RID, rid.page \in DOMAIN u.view, Present(u, rid),
         NEW tuple \in Tuples, ~Grows(u, rid, tuple)
  PROVE  LET v == updateTuple(u, rid, tuple)
         IN  /\ Sound(v) /\ InMemory(u, v) /\ DOMAIN v.view = DOMAIN u.view
             /\ v.last_page_id = u.last_page_id
             /\ v.starting_rid = u.starting_rid /\ v.stopping_rid = u.stopping_rid
<1>. DEFINE page == u.view[rid.page]
            new  == pageOverwrite(page, rid.slot, tuple)
<1>1. page \in Page /\ Fitting(page)
  BY SoundFields
<1>2. new \in Page /\ Fitting(new) /\ new.next_page_id = page.next_page_id
  <2>1. Found(page, rid.slot) /\ page.slots[rid.slot + 1].tuple \in Tuples
    <3>1. Found(page, rid.slot) /\ rid.slot + 1 \in DOMAIN page.slots
      BY <1>1, PageFields DEF Present, Found, HasSlot
    <3>. QED  BY <1>1, <3>1, PageFields
  <2>2. TupleSize[tuple] <= TupleSize[page.slots[rid.slot + 1].tuple]
    <3>1. ~(TupleSize[page.slots[rid.slot + 1].tuple] < TupleSize[tuple])
      BY DEF Grows, getTuple
    <3>2. TupleSize[tuple] \in Nat /\ TupleSize[page.slots[rid.slot + 1].tuple] \in Nat
      BY <2>1, PaddedSize
    <3>. HIDE DEF page
    <3>. QED  BY <3>1, <3>2
  <2>. QED  BY <1>1, <2>1, <2>2, PageOverwritten
<1>3. new.meta = page.meta
  BY <1>1, PageFields DEF pageOverwrite
<1>4. updateTuple(u, rid, tuple) = Written(u, rid.page, new)
  BY DEF updateTuple
<1>. HIDE DEF new
<1>5. InMemory(u, Written(u, rid.page, new))
  BY <1>3, WrittenInMemory
<1>6. LET v == Written(u, rid.page, new)
      IN  /\ Sound(v) /\ v.view = [u.view EXCEPT ![rid.page] = new]
          /\ v.last_page_id = u.last_page_id
          /\ v.starting_rid = u.starting_rid /\ v.stopping_rid = u.stopping_rid
  BY <1>2, WrittenTable
<1>. QED  BY <1>4, <1>5, <1>6

(* A tuple is deleted before it is inserted again, which takes no room away*)
(* and gives none back.                                                    *)
LEMMA MoveInMemory ==
  ASSUME NEW u, Sound(u), NEW rid \in RID, rid.page \in DOMAIN u.view, Present(u, rid),
         NEW tuple \in Tuples, Grows(u, rid, tuple), Room(u, tuple)
  PROVE  LET w == deleteTuple(u, rid)
             v == updateTuple(u, rid, tuple)
         IN  /\ v = insertTuple(w, tuple) /\ Room(w, tuple)
             /\ insertedRID(w, tuple) = insertedRID(u, tuple)
             /\ Sound(w) /\ Sound(v) /\ InMemory(u, v)
<1>. DEFINE w == deleteTuple(u, rid)
            v == updateTuple(u, rid, tuple)
<1>1. v = insertTuple(w, tuple)
  BY DEF updateTuple, deleteTuple
<1>2. Sound(w) /\ InMemory(u, w) /\ w.last_page_id = u.last_page_id
  BY DeleteInMemory
<1>3. rid \in Place
  BY SoundFields DEF RID, Place, Present, Found, HasSlot
<1>4. /\ lastPage(w).free_space_pointer = lastPage(u).free_space_pointer
      /\ Len(lastPage(w).slots) = Len(lastPage(u).slots)
  BY <1>3, DeletedTable
<1>. HIDE DEF w
<1>5. Fits(lastPage(w), tuple) = Fits(lastPage(u), tuple)
  BY <1>4 DEF Fits, FreeSize
<1>6. NewPageId(w) = NewPageId(u)
  BY <1>2, SoundFields
<1>7. Room(w, tuple) /\ insertedRID(w, tuple) = insertedRID(u, tuple)
  BY <1>2, <1>4, <1>5, <1>6 DEF Room, HasRoom, insertedRID
<1>8. Sound(v) /\ InMemory(w, v)
  BY <1>1, <1>2, <1>7, InsertedTable, InsertInMemory
<1>. QED  BY <1>1, <1>2, <1>7, <1>8, InMemoryAgain DEF w

---------------------------------------------------------------------------
(* The rows of a table after a method.                                     *)
LEMMA SlotIsThere ==
  ASSUME NEW u, Sound(u)
  PROVE  /\ \A x \in AllSlots(u) : /\ x \in Place /\ x.page \in DOMAIN u.view
                                   /\ HasSlot(u.view[x.page], x.slot)
                                   /\ x.slot + 1 \in DOMAIN u.view[x.page].slots
         /\ \A x \in RID : x.page \in DOMAIN u.view /\ HasSlot(u.view[x.page], x.slot) =>
              x \in AllSlots(u)
         /\ \A x \in Rows(u) : x \in AllSlots(u) /\ Present(u, x)
         /\ \A x \in AllSlots(u) : Present(u, x) => x \in Rows(u)
<1>1. ASSUME NEW x \in AllSlots(u)
      PROVE  /\ x \in Place /\ x.page \in DOMAIN u.view
             /\ HasSlot(u.view[x.page], x.slot)
             /\ x.slot + 1 \in DOMAIN u.view[x.page].slots
  <2>1. /\ x \in [page : DOMAIN u.view, slot : Nat] /\ x.page \in DOMAIN u.view
        /\ x.slot \in Nat /\ x.slot < Len(u.view[x.page].slots)
    BY SlotSpots
  <2>2. /\ Len(u.view[x.page].slots) \in Nat /\ x.page \in PageId
        /\ DOMAIN u.view[x.page].slots = 1 .. Len(u.view[x.page].slots)
    BY <2>1, SoundFields, PageFields
  <2>3. \A p \in DOMAIN u.view : p \in PageId
    BY SoundFields
  <2>. QED  BY <2>1, <2>2, <2>3 DEF Place, HasSlot
<1>2. ASSUME NEW x \in RID, x.page \in DOMAIN u.view, HasSlot(u.view[x.page], x.slot)
      PROVE  x \in AllSlots(u)
  <2>1. x \in Slots(u, x.page)
    BY <1>2 DEF Slots, HasSlot, RID
  <2>. QED  BY <1>2, <2>1 DEF AllSlots
<1>3. Rows(u) = {x \in AllSlots(u) : Present(u, x)}
  BY SlotSpots
<1>. QED  BY <1>1, <1>2, <1>3

(* A slot of the old table is what it was.                                 *)
SameSlot(u, v, x) ==
  /\ x \in AllSlots(v) /\ getTuple(v, x) = getTuple(u, x)
  /\ Present(u, x) => Present(v, x)
  /\ Present(v, x) => Present(u, x)

LEMMA SlotsInserted ==
  ASSUME NEW page \in Page, NEW tuple \in Tuples
  PROVE  LET new == pageInsert(page, tuple)
         IN  /\ Len(new.slots) = Len(page.slots) + 1
             /\ \A n \in 1 .. Len(page.slots) : new.slots[n] = page.slots[n]
             /\ new.slots[Len(page.slots) + 1].tuple = tuple
             /\ ~new.slots[Len(page.slots) + 1].deleted
<1>. DEFINE offset == page.free_space_pointer - Padded(TupleSize[tuple])
            s    == [tuple |-> tuple, deleted |-> FALSE, offset |-> offset]
            new  == pageInsert(page, tuple)
            all  == Append(page.slots, s)
<1>1. /\ page.slots \in Seq(Slot) /\ Len(page.slots) \in Nat
      /\ DOMAIN page = {"next_page_id", "free_space_pointer", "slots", "flags", "meta"}
  BY PageFields
<1>2. new.slots = all
  BY <1>1 DEF pageInsert
<1>3. s.tuple = tuple /\ ~s.deleted
  OBVIOUS
<1>. HIDE DEF s
<1>4. /\ Len(all) = Len(page.slots) + 1 /\ all[Len(page.slots) + 1] = s
      /\ \A i \in 1 .. Len(page.slots) : all[i] = page.slots[i]
  BY <1>1
<1>. HIDE DEF all, new
<1>5. /\ Len(new.slots) = Len(page.slots) + 1
      /\ \A n \in 1 .. Len(page.slots) : new.slots[n] = page.slots[n]
      /\ new.slots[Len(page.slots) + 1].tuple = tuple
      /\ ~new.slots[Len(page.slots) + 1].deleted
  BY <1>2, <1>3, <1>4
<1>. QED  BY <1>5 DEF new

(* An insertion leaves every slot as it is, and the one it adds has its    *)
(* tuple; it adds one when the tuple fits in the last page or an empty one.*)
LEMMA InsertAdds ==
  ASSUME NEW u, Sound(u), NEW tuple \in Tuples, Room(u, tuple)
  PROVE  LET v     == insertTuple(u, tuple)
             place == placeOf(u, tuple)
         IN  /\ \A x \in AllSlots(u) : SameSlot(u, v, x)
             /\ place \notin AllSlots(u)
             /\ \A x \in AllSlots(v) : x \in AllSlots(u) \/ x = place
             /\ place \in AllSlots(v) => Present(v, place) /\ getTuple(v, place) = tuple
             /\ Fits(lastPage(u), tuple) \/ Fits(EmptyPage, tuple) => place \in AllSlots(v)
<1>. DEFINE ready  == IF Fits(lastPage(u), tuple) THEN u ELSE extended(u)
            last   == ready.last_page_id
            fits   == Fits(lastPage(ready), tuple)
            page   == pageInsert(lastPage(ready), tuple)
            stored == IF fits THEN Written(ready, last, page) ELSE ready
            marked == Marked(stored, last)
            rid    == insertedRID(u, tuple)
            place  == placeOf(u, tuple)
            v      == insertTuple(u, tuple)
<1>1. v = [marked EXCEPT !.starting_rid = IF @.page = -1 THEN rid ELSE @, !.stopping_rid = rid]
  BY DEF insertTuple
<1>2. Sound(v) /\ place \in Place
  BY InsertedTable, PlaceType
<1>. HIDE DEF rid, v
<1>3. /\ Sound(ready)
      /\ \A p \in DOMAIN u.view : p \in DOMAIN ready.view /\ ready.view[p].slots = u.view[p].slots
      /\ \A p \in DOMAIN ready.view : p \notin DOMAIN u.view => ready.view[p].slots = << >>
      /\ place = [page |-> last, slot |-> Len(lastPage(ready).slots)]
      /\ Fits(lastPage(u), tuple) \/ Fits(EmptyPage, tuple) => fits
  <2>1. CASE Fits(lastPage(u), tuple)
    BY <2>1 DEF placeOf, insertedRID
  <2>2. CASE ~Fits(lastPage(u), tuple)
    <3>. DEFINE e == extended(u)
    <3>1. ready = e /\ HasRoom(u) /\ place = [page |-> NewPageId(u), slot |-> 0]
      BY <2>2 DEF Room, placeOf
    <3>2. /\ Sound(e) /\ lastPage(e) = EmptyPage /\ e.last_page_id = NewPageId(u)
          /\ lastPage(e) = e.view[e.last_page_id]
          /\ \A p \in DOMAIN e.view : p # e.last_page_id =>
               p \in DOMAIN u.view /\ e.view[p].slots = u.view[p].slots
      BY <3>1, ExtendedTable DEF lastPage
    <3>3. EmptyPage.slots = << >> /\ Len(EmptyPage.slots) = 0
      BY DEF EmptyPage
    <3>. HIDE DEF e, ready, place
    <3>4. /\ DOMAIN e.view = 1 .. e.last_page_id /\ DOMAIN u.view = 1 .. u.last_page_id
          /\ e.last_page_id = u.last_page_id + 1 /\ u.last_page_id \in Nat
      BY <3>2, SoundFields
    <3>5. \A p \in DOMAIN u.view : p \in DOMAIN e.view /\ p # e.last_page_id
      BY <3>4
    <3>6. \A p \in DOMAIN e.view : p \notin DOMAIN u.view => p = e.last_page_id
      BY <3>2
    <3>. QED  BY <2>2, <3>1, <3>2, <3>3, <3>5, <3>6
  <2>. QED  BY <2>1, <2>2
<1>. HIDE DEF ready, place
<1>4. /\ last \in DOMAIN ready.view /\ lastPage(ready) = ready.view[last]
      /\ ready.view[last] \in Page /\ Fitting(ready.view[last])
      /\ \A p \in DOMAIN ready.view : Len(ready.view[p].slots) \in Nat
  BY <1>3, SoundFields, PageFields
<1>. DEFINE old == ready.view[last].slots
<1>5. fits => /\ page \in Page /\ Fitting(page)
              /\ page.next_page_id = ready.view[last].next_page_id
  BY <1>4, PageInserted
<1>6. /\ Len(page.slots) = Len(old) + 1 /\ Len(old) \in Nat
      /\ \A n \in 1 .. Len(old) : page.slots[n] = old[n]
      /\ page.slots[Len(old) + 1].tuple = tuple /\ ~page.slots[Len(old) + 1].deleted
  <2>1. page = pageInsert(ready.view[last], tuple)
    BY <1>4
  <2>. HIDE DEF page
  <2>. QED  BY <1>4, <2>1, SlotsInserted
<1>. HIDE DEF page
<1>7. /\ Sound(stored) /\ DOMAIN stored.view = DOMAIN ready.view
      /\ \A p \in DOMAIN ready.view :
           stored.view[p] = IF fits /\ p = last THEN page ELSE ready.view[p]
  <2>1. CASE fits
    <3>1. stored = Written(ready, last, page)
      BY <2>1
    <3>2. Sound(stored) /\ stored.view = [ready.view EXCEPT ![last] = page]
      BY <1>3, <1>4, <1>5, <2>1, <3>1, WrittenTable
    <3>. HIDE DEF stored
    <3>. QED  BY <1>4, <2>1, <3>2
  <2>2. CASE ~fits
    BY <1>3, <2>2
  <2>. QED  BY <2>1, <2>2
<1>. HIDE DEF stored, fits
<1>8. v.view = stored.view
  <2>1. marked.view = stored.view /\ DOMAIN marked = TableFields
    BY <1>7, SoundFields DEF Marked, TableFields
  <2>. HIDE DEF marked
  <2>. QED  BY <1>1, <2>1 DEF TableFields
<1>9. /\ DOMAIN v.view = DOMAIN ready.view /\ place.page = last /\ place.slot = Len(old)
      /\ place \in RID /\ \A x \in Place : x \in RID
      /\ \A p \in DOMAIN v.view : Len(v.view[p].slots) \in Nat
      /\ \A p \in DOMAIN v.view : p # last \/ ~fits => v.view[p].slots = ready.view[p].slots
      /\ fits => v.view[last].slots = page.slots
  <2>1. \A x \in Place : x \in RID
    BY DEF Place, RID, PageId
  <2>2. \A p \in DOMAIN v.view : Len(v.view[p].slots) \in Nat
    BY <1>2, SoundFields, PageFields
  <2>. QED  BY <1>2, <1>3, <1>4, <1>7, <1>8, <2>1, <2>2
<1>. HIDE DEF last
<1>10. ASSUME NEW x \in AllSlots(u) PROVE SameSlot(u, v, x) /\ x # place
  <2>1. /\ x \in Place /\ x.page \in DOMAIN u.view /\ x.slot \in Nat
        /\ HasSlot(u.view[x.page], x.slot) /\ u.view[x.page].slots = ready.view[x.page].slots
        /\ x.page \in DOMAIN v.view /\ x \in RID
    BY <1>3, <1>9, SlotIsThere DEF Place
  <2>2. /\ HasSlot(v.view[x.page], x.slot)
        /\ v.view[x.page].slots[x.slot + 1] = u.view[x.page].slots[x.slot + 1]
    <3>1. CASE x.page # last \/ ~fits
      BY <1>9, <2>1, <3>1 DEF HasSlot
    <3>2. CASE x.page = last /\ fits
      <4>1. x.slot \in 0 .. Len(old) - 1 /\ x.slot + 1 \in 1 .. Len(old)
        BY <1>6, <2>1, <3>2 DEF HasSlot
      <4>2. v.view[x.page].slots = page.slots /\ u.view[x.page].slots = old
        BY <1>9, <2>1, <3>2
      <4>3. page.slots[x.slot + 1] = old[x.slot + 1]
        BY <1>6, <4>1
      <4>4. x.slot \in 0 .. Len(page.slots) - 1
        <5>1. Len(page.slots) = Len(old) + 1 /\ Len(old) \in Nat
          BY <1>6
        <5>. HIDE DEF old, page
        <5>. QED  BY <4>1, <5>1
      <4>. QED  BY <4>2, <4>3, <4>4 DEF HasSlot
    <3>. QED  BY <3>1, <3>2
  <2>3. x # place
    <3>1. x.page = last => x.slot < Len(old)
      BY <1>6, <2>1 DEF HasSlot
    <3>. QED  BY <1>6, <1>9, <2>1, <3>1
  <2>4. x \in AllSlots(v)
    BY <1>2, <2>1, <2>2, SlotIsThere
  <2>5. Fitting(u.view[x.page]) /\ Fitting(v.view[x.page])
    BY <1>2, <2>1, SoundFields
  <2>6. Present(v, x) <=> Present(u, x)
    BY <2>1, <2>2, <2>5, FoundBySlot DEF Present
  <2>. QED  BY <2>1, <2>2, <2>3, <2>4, <2>6 DEF SameSlot, getTuple
<1>11. ASSUME NEW x \in AllSlots(v), x \notin AllSlots(u)
       PROVE  fits /\ x = place
  <2>1. /\ x \in Place /\ x \in RID /\ x.page \in DOMAIN v.view /\ x.slot \in Nat
        /\ HasSlot(v.view[x.page], x.slot) /\ place \in Place
    BY <1>2, <1>9, SlotIsThere DEF Place
  <2>2. ~HasSlot(ready.view[x.page], x.slot)
    <3>1. CASE x.page \in DOMAIN u.view
      <4>1. ~HasSlot(u.view[x.page], x.slot)
        BY <1>11, <2>1, <3>1, SlotIsThere
      <4>. QED  BY <1>3, <3>1, <4>1 DEF HasSlot
    <3>2. CASE x.page \notin DOMAIN u.view
      <4>1. ready.view[x.page].slots = << >> /\ Len(<< >>) = 0
        BY <1>3, <1>9, <2>1, <3>2
      <4>. QED  BY <4>1 DEF HasSlot
    <3>. QED  BY <3>1, <3>2
  <2>3. x.page = last /\ fits
    BY <1>9, <2>1, <2>2 DEF HasSlot
  <2>4. x.slot = Len(old)
    <3>1. /\ v.view[x.page].slots = page.slots /\ ready.view[x.page].slots = old
      BY <1>9, <2>3
    <3>2. x.slot \in 0 .. Len(page.slots) - 1 /\ x.slot \notin 0 .. Len(old) - 1
      BY <2>1, <2>2, <3>1 DEF HasSlot
    <3>. QED  BY <1>6, <3>2
  <2>. QED  BY <1>9, <2>1, <2>3, <2>4 DEF Place
<1>12. ASSUME fits PROVE place \in AllSlots(v) /\ Present(v, place) /\ getTuple(v, place) = tuple
  <2>1. HasSlot(v.view[place.page], place.slot)
    BY <1>4, <1>6, <1>9, <1>12 DEF HasSlot, last
  <2>2. place.page \in DOMAIN v.view
    BY <1>4, <1>9 DEF last
  <2>3. place \in AllSlots(v)
    BY <1>2, <1>9, <2>1, <2>2, SlotIsThere
  <2>4. Fitting(v.view[place.page])
    BY <1>2, <2>2, SoundFields
  <2>5. /\ v.view[place.page].slots[place.slot + 1].tuple = tuple
        /\ ~v.view[place.page].slots[place.slot + 1].deleted
    BY <1>6, <1>9, <1>12
  <2>. QED  BY <2>1, <2>3, <2>4, <2>5, FoundBySlot DEF Present, getTuple
<1>13. place \in AllSlots(v) => fits
  BY <1>10, <1>11
<1>14. Fits(lastPage(u), tuple) \/ Fits(EmptyPage, tuple) => fits
  BY <1>3 DEF fits
<1>. QED  BY <1>10, <1>11, <1>12, <1>13, <1>14 DEF v, place

(* A deletion takes its row away, an overwrite changes its row, and a move *)
(* takes it away and adds one; every other slot is what it was.            *)
LEMMA DeleteTakes ==
  ASSUME NEW u, Sound(u), NEW rid \in AllSlots(u)
  PROVE  LET v == deleteTuple(u, rid)
         IN  /\ Sound(v) /\ AllSlots(v) = AllSlots(u) /\ ~Present(v, rid)
             /\ \A x \in AllSlots(u) : x # rid => SameSlot(u, v, x)
<1>. DEFINE page == u.view[rid.page]
            new  == pageDelete(page, rid.slot)
            v    == deleteTuple(u, rid)
<1>1. /\ page \in Page /\ Fitting(page) /\ rid.slot \in Nat /\ rid.page \in DOMAIN u.view
      /\ rid \in Place /\ rid.slot + 1 \in DOMAIN page.slots
      /\ Len(page.slots) \in Nat /\ DOMAIN page.slots = 1 .. Len(page.slots)
      /\ \A n \in DOMAIN page.slots : DOMAIN page.slots[n] = {"tuple", "offset", "deleted"}
  BY SlotIsThere, SoundFields, PageFields DEF Place
<1>2. new \in Page /\ Fitting(new) /\ new.next_page_id = page.next_page_id
  BY <1>1, PageDeleted
<1>3. /\ ~Found(new, rid.slot) /\ DOMAIN new.slots = DOMAIN page.slots
      /\ \A n \in DOMAIN page.slots :
           /\ new.slots[n].tuple = page.slots[n].tuple
           /\ n # rid.slot + 1 => new.slots[n].deleted = page.slots[n].deleted
  <2>. DEFINE there == HasSlot(page, rid.slot) /\ ~page.slots[rid.slot + 1].deleted
  <2>1. CASE there
    <3>1. DOMAIN page = {"next_page_id", "free_space_pointer", "slots", "flags", "meta"}
      BY <1>1, PageFields
    <3>2. new.slots = [page.slots EXCEPT ![rid.slot + 1].deleted = TRUE]
      <4>. DEFINE s1 == [page.slots EXCEPT ![rid.slot + 1].deleted = TRUE]
                  old == page.slots[rid.slot + 1]
                  f1 == (page.flags \cup {rid.slot})
                          \ Cleared(page, rid.slot, old.offset, old.tuple)
      <4>1. new = [page EXCEPT !.slots = s1, !.flags = f1]
        BY <2>1, <3>1 DEF pageDelete
      <4>. HIDE DEF new, s1, f1, page
      <4>2. new.slots = s1
        BY <3>1, <4>1
      <4>. QED  BY <4>2 DEF s1
    <3>. HIDE DEF page, new
    <3>3. new.slots[rid.slot + 1].deleted /\ DOMAIN new.slots = DOMAIN page.slots
      BY <1>1, <3>2
    <3>4. ASSUME NEW n \in DOMAIN page.slots
          PROVE  /\ new.slots[n].tuple = page.slots[n].tuple
                 /\ n # rid.slot + 1 => new.slots[n].deleted = page.slots[n].deleted
      <4>1. CASE n = rid.slot + 1
        <5>1. new.slots[n] = [page.slots[n] EXCEPT !.deleted = TRUE]
          BY <3>2, <3>4, <4>1
        <5>2. DOMAIN page.slots[n] = {"tuple", "offset", "deleted"}
          BY <1>1, <3>4
        <5>. QED  BY <4>1, <5>1, <5>2
      <4>2. CASE n # rid.slot + 1
        <5>1. new.slots[n] = page.slots[n]
          BY <3>2, <3>4, <4>2
        <5>. QED  BY <5>1
      <4>. QED  BY <4>1, <4>2
    <3>. QED  BY <3>3, <3>4 DEF Found
  <2>2. CASE ~there
    <3>1. new = page
      BY <2>2 DEF pageDelete
    <3>2. ~Found(page, rid.slot)
      BY <2>2 DEF Found
    <3>. HIDE DEF page, new
    <3>. QED  BY <3>1, <3>2
  <2>. QED  BY <2>1, <2>2
<1>4. Len(new.slots) = Len(page.slots)
  <2>1. Len(new.slots) \in Nat /\ DOMAIN new.slots = 1 .. Len(new.slots)
    BY <1>2, PageFields
  <2>2. DOMAIN new.slots = DOMAIN page.slots
    BY <1>3
  <2>3. Len(page.slots) \in Nat /\ DOMAIN page.slots = 1 .. Len(page.slots)
    BY <1>1
  <2>. HIDE DEF page, new
  <2>. QED  BY <2>1, <2>2, <2>3
<1>5. v = Written(u, rid.page, new)
  BY DEF deleteTuple
<1>. HIDE DEF new, v
<1>6. Sound(v) /\ v.view = [u.view EXCEPT ![rid.page] = new]
  BY <1>1, <1>2, <1>5, WrittenTable
<1>7. AllSlots(v) = AllSlots(u)
  <2>1. /\ DOMAIN v.view = DOMAIN u.view
        /\ \A p \in DOMAIN u.view : Len(v.view[p].slots) = Len(u.view[p].slots)
    BY <1>1, <1>4, <1>6
  <2>. QED  BY <2>1 DEF AllSlots, Slots
<1>8. ~Present(v, rid)
  BY <1>1, <1>3, <1>6 DEF Present
<1>9. ASSUME NEW x \in AllSlots(u), x # rid PROVE SameSlot(u, v, x)
  <2>1. /\ x \in Place /\ x.page \in DOMAIN u.view /\ x.slot \in Nat
        /\ x.slot + 1 \in DOMAIN u.view[x.page].slots
    BY SlotIsThere DEF Place
  <2>2. CASE x.page = rid.page
    <3>1. x.slot # rid.slot
      BY <1>1, <1>9, <2>1, <2>2 DEF Place
    <3>2. x.slot + 1 # rid.slot + 1
      BY <1>1, <2>1, <3>1
    <3>3. v.view[x.page] = new /\ u.view[x.page] = page
      BY <1>1, <1>6, <2>2
    <3>4. /\ new.slots[x.slot + 1].tuple = page.slots[x.slot + 1].tuple
          /\ new.slots[x.slot + 1].deleted = page.slots[x.slot + 1].deleted
      BY <1>3, <2>1, <3>2, <3>3
    <3>. HIDE DEF page
    <3>5. /\ getTuple(v, x) = getTuple(u, x)
          /\ HasSlot(v.view[x.page], x.slot) <=> HasSlot(u.view[x.page], x.slot)
      BY <1>4, <3>3, <3>4 DEF getTuple, HasSlot
    <3>6. Fitting(v.view[x.page]) /\ Fitting(u.view[x.page])
      BY <1>1, <1>2, <3>3 DEF page
    <3>7. Present(v, x) <=> Present(u, x)
      BY <3>3, <3>4, <3>5, <3>6, FoundBySlot DEF Present
    <3>. QED  BY <1>7, <1>9, <3>5, <3>7 DEF SameSlot
  <2>3. CASE x.page # rid.page
    BY <1>6, <1>7, <1>9, <2>1, <2>3 DEF SameSlot, getTuple, Present
  <2>. QED  BY <2>2, <2>3
<1>. QED  BY <1>6, <1>7, <1>8, <1>9 DEF v

LEMMA OverwriteKeeps ==
  ASSUME NEW u, Sound(u), NEW rid \in AllSlots(u), Present(u, rid),
         NEW tuple \in Tuples, ~Grows(u, rid, tuple)
  PROVE  LET v == updateTuple(u, rid, tuple)
         IN  /\ AllSlots(v) = AllSlots(u)
             /\ Present(v, rid) /\ getTuple(v, rid) = tuple
             /\ \A x \in AllSlots(u) : x # rid => SameSlot(u, v, x)
<1>. DEFINE page == u.view[rid.page]
            new  == pageOverwrite(page, rid.slot, tuple)
            v    == updateTuple(u, rid, tuple)
<1>1. /\ page \in Page /\ Fitting(page) /\ rid.slot \in Nat /\ rid.page \in DOMAIN u.view
      /\ rid \in Place /\ rid.slot + 1 \in DOMAIN page.slots /\ Found(page, rid.slot)
      /\ Len(page.slots) \in Nat /\ DOMAIN page.slots = 1 .. Len(page.slots)
      /\ "slots" \in DOMAIN page /\ page.slots[rid.slot + 1].tuple \in Tuples
      /\ \A n \in DOMAIN page.slots : DOMAIN page.slots[n] = {"tuple", "offset", "deleted"}
  BY SlotIsThere, SoundFields, PageFields DEF Place, Present
<1>2. TupleSize[tuple] <= TupleSize[page.slots[rid.slot + 1].tuple]
  <2>1. ~(TupleSize[page.slots[rid.slot + 1].tuple] < TupleSize[tuple])
    BY DEF Grows, getTuple
  <2>2. TupleSize[page.slots[rid.slot + 1].tuple] \in Nat /\ TupleSize[tuple] \in Nat
    BY <1>1, PaddedSize
  <2>. HIDE DEF page
  <2>. QED  BY <2>1, <2>2
<1>3. new \in Page /\ Fitting(new) /\ new.next_page_id = page.next_page_id
  BY <1>1, <1>2, PageOverwritten
<1>4. new.slots = [page.slots EXCEPT ![rid.slot + 1].tuple = tuple]
  BY <1>1 DEF pageOverwrite
<1>5. v = Written(u, rid.page, new)
  BY DEF updateTuple
<1>. HIDE DEF page, new, v
<1>6. /\ DOMAIN new.slots = DOMAIN page.slots /\ new.slots[rid.slot + 1].tuple = tuple
      /\ \A n \in DOMAIN page.slots :
           /\ new.slots[n].deleted = page.slots[n].deleted
           /\ n # rid.slot + 1 => new.slots[n] = page.slots[n]
  BY <1>1, <1>4
<1>7. Len(new.slots) = Len(page.slots)
  <2>1. Len(new.slots) \in Nat /\ DOMAIN new.slots = 1 .. Len(new.slots)
    BY <1>3, PageFields
  <2>. QED  BY <1>1, <1>6, <2>1
<1>8. v.view = [u.view EXCEPT ![rid.page] = new]
  BY <1>1, <1>3, <1>5, WrittenTable DEF page
<1>9. AllSlots(v) = AllSlots(u)
  <2>1. /\ DOMAIN v.view = DOMAIN u.view
        /\ \A p \in DOMAIN u.view : Len(v.view[p].slots) = Len(u.view[p].slots)
    BY <1>1, <1>7, <1>8 DEF page
  <2>. QED  BY <2>1 DEF AllSlots, Slots
<1>10. Present(v, rid) /\ getTuple(v, rid) = tuple
  <2>1. v.view[rid.page] = new
    BY <1>1, <1>8
  <2>2. HasSlot(new, rid.slot) /\ ~new.slots[rid.slot + 1].deleted
    BY <1>1, <1>6, <1>7 DEF Found, HasSlot
  <2>. QED  BY <1>3, <1>6, <2>1, <2>2, FoundBySlot DEF Present, getTuple
<1>11. ASSUME NEW x \in AllSlots(u), x # rid PROVE SameSlot(u, v, x)
  <2>1. /\ x \in Place /\ x.page \in DOMAIN u.view /\ x.slot \in Nat
        /\ x.slot + 1 \in DOMAIN u.view[x.page].slots
    BY SlotIsThere DEF Place
  <2>2. CASE x.page = rid.page
    <3>1. x.slot # rid.slot
      BY <1>1, <1>11, <2>1, <2>2 DEF Place
    <3>2. x.slot + 1 # rid.slot + 1
      BY <1>1, <2>1, <3>1
    <3>3. v.view[x.page] = new /\ u.view[x.page] = page
      BY <1>1, <1>8, <2>2 DEF page
    <3>4. /\ new.slots[x.slot + 1] = page.slots[x.slot + 1]
          /\ HasSlot(new, x.slot) <=> HasSlot(page, x.slot)
      BY <1>6, <1>7, <2>1, <3>2, <3>3 DEF HasSlot
    <3>5. Found(new, x.slot) <=> Found(page, x.slot)
      BY <1>1, <1>3, <3>4, FoundBySlot
    <3>. QED  BY <1>9, <1>11, <3>3, <3>4, <3>5 DEF SameSlot, getTuple, Present
  <2>3. CASE x.page # rid.page
    BY <1>8, <1>9, <1>11, <2>1, <2>3 DEF SameSlot, getTuple, Present
  <2>. QED  BY <2>2, <2>3
<1>. QED  BY <1>9, <1>10, <1>11 DEF v

LEMMA MoveAdds ==
  ASSUME NEW u, Sound(u), NEW rid \in AllSlots(u), Present(u, rid),
         NEW tuple \in Tuples, Grows(u, rid, tuple), Room(u, tuple)
  PROVE  LET v     == updateTuple(u, rid, tuple)
             place == placeOf(u, tuple)
         IN  /\ rid \in AllSlots(v) /\ ~Present(v, rid)
             /\ \A x \in AllSlots(u) : x # rid => SameSlot(u, v, x)
             /\ place \notin AllSlots(u)
             /\ \A x \in AllSlots(v) : x \in AllSlots(u) \/ x = place
             /\ place \in AllSlots(v) => Present(v, place) /\ getTuple(v, place) = tuple
             /\ Fits(EmptyPage, tuple) => place \in AllSlots(v)
<1>. DEFINE w == deleteTuple(u, rid)
            v == updateTuple(u, rid, tuple)
            place == placeOf(u, tuple)
<1>1. rid \in RID /\ rid.page \in DOMAIN u.view
  BY SlotIsThere, SoundFields DEF Place, RID, PageId
<1>2. v = insertTuple(w, tuple) /\ Room(w, tuple) /\ Sound(w)
  BY <1>1, MoveInMemory
<1>3. /\ AllSlots(w) = AllSlots(u) /\ ~Present(w, rid)
      /\ \A x \in AllSlots(u) : x # rid => SameSlot(u, w, x)
  BY DeleteTakes
<1>4. placeOf(w, tuple) = place
  <2>1. insertedRID(w, tuple) = insertedRID(u, tuple)
    BY <1>1, MoveInMemory
  <2>2. /\ lastPage(w).free_space_pointer = lastPage(u).free_space_pointer
        /\ Len(lastPage(w).slots) = Len(lastPage(u).slots)
        /\ w.last_page_id = u.last_page_id
    BY <1>1, SlotIsThere, DeletedTable
  <2>. HIDE DEF w
  <2>3. Fits(lastPage(w), tuple) = Fits(lastPage(u), tuple)
    BY <2>2 DEF Fits, FreeSize
  <2>4. NewPageId(w) = NewPageId(u)
    BY <1>2, <2>2, SoundFields
  <2>. QED  BY <2>1, <2>3, <2>4 DEF placeOf
<1>. HIDE DEF w, v, place
<1>5. /\ \A x \in AllSlots(w) : SameSlot(w, v, x)
      /\ place \notin AllSlots(w)
      /\ \A x \in AllSlots(v) : x \in AllSlots(w) \/ x = place
      /\ place \in AllSlots(v) => Present(v, place) /\ getTuple(v, place) = tuple
      /\ Fits(EmptyPage, tuple) => place \in AllSlots(v)
  BY <1>2, <1>4, InsertAdds
<1>6. \A x \in AllSlots(u) : x # rid => SameSlot(u, v, x)
  BY <1>3, <1>5 DEF SameSlot
<1>7. rid \in AllSlots(v) /\ ~Present(v, rid)
  BY <1>3, <1>5 DEF SameSlot
<1>. QED  BY <1>3, <1>5, <1>6, <1>7 DEF v, place

(* The position a scan goes on from is the one behind the row it read.     *)
LEMMA ScanPasses ==
  ASSUME NEW u, Sound(u), u.stopping_rid.page = u.last_page_id,
         NEW a \in Spots(u), a.page # -1, readAt(u, a).page # -1
  PROVE  scanNext(u, a) = [page |-> readAt(u, a).page, slot |-> readAt(u, a).slot + 1]
<1>. DEFINE len == Len(u.view[a.page].slots)
<1>1. /\ a.slot < len => /\ scanNext(u, a) = [page |-> a.page, slot |-> a.slot + 1]
                         /\ readAt(u, a) = a
      /\ ~(a.slot < len) /\ a.page < u.last_page_id =>
           /\ scanNext(u, a) = [page |-> a.page + 1, slot |-> 1]
           /\ readAt(u, a) = [page |-> a.page + 1, slot |-> 0]
      /\ ~(a.slot < len) /\ ~(a.page < u.last_page_id) =>
           scanNext(u, a) = NoRID /\ readAt(u, a) = NoRID
  BY ScanStepForm
<1>2. NoRID.page = -1
  BY DEF NoRID
<1>. HIDE DEF len
<1>. QED  BY <1>1, <1>2

(* The rows that a scan still has ahead of it, of the table before and     *)
(* after a method that changed the row it read.                            *)
LEMMA RowsPassed ==
  ASSUME NEW u, Sound(u), NEW v, Sound(v), NEW from \in Spots(u),
         NEW rid \in RowsFrom(u, from),
         NEW x \in RowsFrom(v, [page |-> rid.page, slot |-> rid.slot + 1])
  PROVE  /\ x \in AllSlots(v) /\ x # rid /\ Present(v, x)
         /\ x \in AllSlots(u) /\ Present(u, x) => x \in RowsFrom(u, from)
<1>. DEFINE pos == [page |-> rid.page, slot |-> rid.slot + 1]
<1>1. /\ rid \in AllSlots(u) /\ UpTo(from, rid)
      /\ x \in AllSlots(v) /\ Present(v, x) /\ UpTo(pos, x)
  BY DEF RowsFrom
<1>2. /\ rid.page \in Int /\ rid.slot \in Int
      /\ x \in [page : DOMAIN v.view, slot : Nat] /\ x.page \in Nat /\ x.slot \in Nat
  BY <1>1, SlotSpots
<1>3. from.page \in Int /\ from.slot \in Int
  BY SpotFields
<1>4. Before(rid, x)
  BY <1>1, <1>2 DEF UpTo, Before
<1>5. x # rid /\ UpTo(from, x)
  BY <1>1, <1>2, <1>3, <1>4, BeforeOrder DEF UpTo
<1>. QED  BY <1>1, <1>5 DEF RowsFrom

---------------------------------------------------------------------------
(* A tuple on a page would fit in an empty one: the ends of the tuples go  *)
(* down, from the end of the page to the free space.                       *)
LEMMA EndsDescend ==
  ASSUME NEW page \in Page, Fitting(page), NEW m \in 1 .. Len(page.slots) + 1
  PROVE  /\ End(page, m) \in Nat /\ End(page, m) <= PageSpace
         /\ page.free_space_pointer <= End(page, m)
<1>. DEFINE len == Len(page.slots)
            e(n) == End(page, n)
            fsp == page.free_space_pointer
<1>1. /\ len \in Nat /\ PageSpace \in Nat /\ fsp \in Nat /\ fsp = e(len + 1)
      /\ DOMAIN page.slots = 1 .. len
      /\ \A n \in 1 .. len : page.slots[n].offset \in Nat /\ page.slots[n].tuple \in Tuples
  BY PageFields, SizeAssumption DEF Fitting
<1>2. e(1) = PageSpace /\ \A n \in 1 .. len : e(n + 1) = page.slots[n].offset
  BY <1>1 DEF End
<1>3. \A n \in 1 .. len + 1 : e(n) \in Nat
  <2>1. \A n \in 1 .. len + 1 : n = 1 \/ (n - 1 \in 1 .. len /\ n = (n - 1) + 1)
    BY <1>1
  <2>. HIDE DEF e
  <2>. QED  BY <1>1, <1>2, <2>1
<1>4. \A n \in 1 .. len : e(n + 1) <= e(n)
  <2>. SUFFICES ASSUME NEW n \in 1 .. len PROVE e(n + 1) <= e(n)
    OBVIOUS
  <2>1. page.slots[n].offset + Padded(TupleSize[page.slots[n].tuple]) <= e(n)
    BY <1>1 DEF Fitting
  <2>2. Padded(TupleSize[page.slots[n].tuple]) \in Nat
    BY <1>1, PaddedSize
  <2>3. e(n) \in Nat
    BY <1>1, <1>3
  <2>. HIDE DEF e
  <2>. QED  BY <1>1, <1>2, <2>1, <2>2, <2>3
<1>. HIDE DEF e, len, fsp
<1>5. e(m) <= PageSpace
  <2>. DEFINE S == {n \in 1 .. len + 1 : ~(e(n) <= PageSpace)}
  <2>1. SUFFICES ASSUME S # {} PROVE FALSE
    BY DEF len
  <2>2. S \in SUBSET Nat
    BY <1>1
  <2>3. PICK n \in S : \A k \in S : n <= k
    <3>. HIDE DEF S
    <3>. QED  BY <2>1, <2>2, LeastNumber
  <2>4. n # 1 /\ n - 1 \in 1 .. len /\ n - 1 \notin S /\ (n - 1) + 1 = n
    BY <1>1, <1>2, <2>3
  <2>5. e(n) <= e(n - 1) /\ e(n - 1) <= PageSpace
    BY <1>1, <1>4, <2>4
  <2>6. e(n) \in Nat /\ e(n - 1) \in Nat
    BY <1>1, <1>3, <2>4
  <2>. QED  BY <1>1, <2>3, <2>5, <2>6
<1>6. fsp <= e(m)
  <2>. DEFINE S == {n \in 1 .. len + 1 : ~(fsp <= e(n))}
  <2>1. SUFFICES ASSUME S # {} PROVE FALSE
    BY DEF len
  <2>2. S \in SUBSET Nat /\ len + 1 \in Nat /\ \A k \in S : k <= len + 1
    BY <1>1
  <2>3. PICK n \in S : \A k \in S : n >= k
    <3>. HIDE DEF S
    <3>. QED  BY <2>1, <2>2, GreatestNumber
  <2>4. n # len + 1 /\ n \in 1 .. len /\ n + 1 \in 1 .. len + 1 /\ n + 1 \notin S
    BY <1>1, <2>3
  <2>5. e(n + 1) <= e(n) /\ fsp <= e(n + 1)
    BY <1>4, <2>4
  <2>6. e(n) \in Nat /\ e(n + 1) \in Nat
    BY <1>3, <2>4
  <2>. QED  BY <1>1, <2>3, <2>5, <2>6
<1>. QED  BY <1>3, <1>5, <1>6 DEF e, len, fsp

LEMMA RowFits ==
  ASSUME NEW u, Sound(u), NEW rid \in AllSlots(u)
  PROVE  getTuple(u, rid) \in Tuples /\ Fits(EmptyPage, getTuple(u, rid))
<1>. DEFINE page == u.view[rid.page]
            len  == Len(page.slots)
            n    == rid.slot + 1
            size == Padded(TupleSize[page.slots[n].tuple])
            fsp  == page.free_space_pointer
<1>1. /\ page \in Page /\ Fitting(page) /\ n \in DOMAIN page.slots
  BY SlotIsThere, SoundFields
<1>. HIDE DEF page, n
<1>2. /\ len \in Nat /\ fsp \in Nat /\ PageSpace \in Nat /\ SlotSize \in Nat
      /\ DOMAIN page.slots = 1 .. len
      /\ page.slots[n].offset \in Nat /\ page.slots[n].tuple \in Tuples
  BY <1>1, PageFields, SizeAssumption
<1>3. size \in Nat
  BY <1>2, PaddedSize
<1>4. page.slots[n].offset + size <= End(page, n) /\ len * SlotSize <= fsp
  BY <1>1, <1>2 DEF Fitting
<1>5. n \in 1 .. len + 1 /\ n + 1 \in 1 .. len + 1 /\ n \in Nat \ {0} /\ len >= 1
  BY <1>1, <1>2
<1>6. End(page, n + 1) = page.slots[n].offset
  BY <1>5 DEF End
<1>7. /\ End(page, n) \in Nat /\ End(page, n) <= PageSpace
      /\ fsp <= page.slots[n].offset
  BY <1>1, <1>5, <1>6, EndsDescend
<1>8. SlotSize <= len * SlotSize /\ len * SlotSize \in Nat
  <2>1. len * SlotSize = (len - 1) * SlotSize + SlotSize /\ (len - 1) * SlotSize \in Nat
    <3>. HIDE DEF len
    <3>1. len - 1 \in Nat
      BY <1>2, <1>5
    <3>. QED  BY <1>2, <3>1
  <2>. HIDE DEF len
  <2>. QED  BY <1>2, <2>1
<1>9. PageSpace >= size + SlotSize
  <2>. HIDE DEF len, size, fsp
  <2>. QED  BY <1>2, <1>3, <1>4, <1>7, <1>8
<1>10. FreeSize(EmptyPage) = PageSpace
  BY <1>2 DEF FreeSize, EmptyPage
<1>11. getTuple(u, rid) = page.slots[n].tuple
  BY DEF getTuple, page, n
<1>. QED  BY <1>2, <1>9, <1>10, <1>11 DEF Fits

(* The rows after each method.                                             *)
LEMMA InsertedRows ==
  ASSUME NEW u, Sound(u), NEW tuple \in Tuples, Room(u, tuple),
         Fits(lastPage(u), tuple) \/ Fits(EmptyPage, tuple)
  PROVE  LET v     == insertTuple(u, tuple)
             place == placeOf(u, tuple)
         IN  /\ Rows(v) = Rows(u) \cup {place} /\ place \notin AllSlots(u)
             /\ getTuple(v, place) = tuple
             /\ \A x \in AllSlots(u) : SameSlot(u, v, x)
<1>. DEFINE v     == insertTuple(u, tuple)
            place == placeOf(u, tuple)
<1>1. Sound(v)
  BY InsertedTable
<1>2. /\ \A x \in AllSlots(u) : SameSlot(u, v, x)
      /\ \A x \in AllSlots(v) : x \in AllSlots(u) \/ x = place
      /\ place \in AllSlots(v) /\ Present(v, place) /\ getTuple(v, place) = tuple
      /\ place \notin AllSlots(u)
  BY InsertAdds
<1>. HIDE DEF v, place
<1>3. /\ \A x \in Rows(u) : x \in AllSlots(u) /\ Present(u, x)
      /\ \A x \in AllSlots(u) : Present(u, x) => x \in Rows(u)
      /\ \A x \in Rows(v) : x \in AllSlots(v) /\ Present(v, x)
      /\ \A x \in AllSlots(v) : Present(v, x) => x \in Rows(v)
  BY <1>1, SlotIsThere
<1>4. Rows(v) = Rows(u) \cup {place}
  BY <1>2, <1>3 DEF SameSlot
<1>. QED  BY <1>2, <1>4 DEF v, place

LEMMA DeletedRows ==
  ASSUME NEW u, Sound(u), NEW rid \in AllSlots(u)
  PROVE  LET v == deleteTuple(u, rid)
         IN  Rows(v) = Rows(u) \ {rid}
<1>. DEFINE v == deleteTuple(u, rid)
<1>1. /\ Sound(v) /\ AllSlots(v) = AllSlots(u) /\ ~Present(v, rid)
      /\ \A x \in AllSlots(u) : x # rid => SameSlot(u, v, x)
  BY DeleteTakes
<1>. HIDE DEF v
<1>2. /\ \A x \in Rows(u) : x \in AllSlots(u) /\ Present(u, x)
      /\ \A x \in AllSlots(u) : Present(u, x) => x \in Rows(u)
      /\ \A x \in Rows(v) : x \in AllSlots(v) /\ Present(v, x)
      /\ \A x \in AllSlots(v) : Present(v, x) => x \in Rows(v)
  BY <1>1, SlotIsThere
<1>3. Rows(v) = Rows(u) \ {rid}
  BY <1>1, <1>2 DEF SameSlot
<1>. QED  BY <1>3 DEF v

LEMMA OverwrittenRows ==
  ASSUME NEW u, Sound(u), NEW rid \in AllSlots(u), Present(u, rid),
         NEW tuple \in Tuples, ~Grows(u, rid, tuple)
  PROVE  LET v == updateTuple(u, rid, tuple)
         IN  Rows(v) = Rows(u)
<1>. DEFINE v == updateTuple(u, rid, tuple)
<1>1. Sound(v)
  <2>1. rid \in RID /\ rid.page \in DOMAIN u.view
    BY SlotIsThere DEF Place, RID, PageId
  <2>. QED  BY <2>1, OverwriteInMemory
<1>2. /\ AllSlots(v) = AllSlots(u) /\ Present(v, rid)
      /\ \A x \in AllSlots(u) : x # rid => SameSlot(u, v, x)
  BY OverwriteKeeps
<1>. HIDE DEF v
<1>3. /\ \A x \in Rows(u) : x \in AllSlots(u) /\ Present(u, x)
      /\ \A x \in AllSlots(u) : Present(u, x) => x \in Rows(u)
      /\ \A x \in Rows(v) : x \in AllSlots(v) /\ Present(v, x)
      /\ \A x \in AllSlots(v) : Present(v, x) => x \in Rows(v)
  BY <1>1, SlotIsThere
<1>4. Rows(v) = Rows(u)
  BY <1>2, <1>3 DEF SameSlot
<1>. QED  BY <1>4 DEF v

LEMMA MovedRows ==
  ASSUME NEW u, Sound(u), NEW rid \in AllSlots(u), Present(u, rid),
         NEW tuple \in Tuples, Grows(u, rid, tuple), Room(u, tuple), Fits(EmptyPage, tuple)
  PROVE  LET v     == updateTuple(u, rid, tuple)
             place == placeOf(u, tuple)
         IN  /\ Rows(v) = (Rows(u) \ {rid}) \cup {place} /\ place \notin AllSlots(u)
             /\ getTuple(v, place) = tuple
<1>. DEFINE v     == updateTuple(u, rid, tuple)
            place == placeOf(u, tuple)
<1>1. Sound(v)
  <2>1. rid \in RID /\ rid.page \in DOMAIN u.view
    BY SlotIsThere DEF Place, RID, PageId
  <2>. QED  BY <2>1, MoveInMemory
<1>2. /\ rid \in AllSlots(v) /\ ~Present(v, rid)
      /\ \A x \in AllSlots(u) : x # rid => SameSlot(u, v, x)
      /\ \A x \in AllSlots(v) : x \in AllSlots(u) \/ x = place
      /\ place \in AllSlots(v) /\ Present(v, place) /\ getTuple(v, place) = tuple
      /\ place \notin AllSlots(u)
  BY MoveAdds
<1>. HIDE DEF v, place
<1>3. /\ \A x \in Rows(u) : x \in AllSlots(u) /\ Present(u, x)
      /\ \A x \in AllSlots(u) : Present(u, x) => x \in Rows(u)
      /\ \A x \in Rows(v) : x \in AllSlots(v) /\ Present(v, x)
      /\ \A x \in AllSlots(v) : Present(v, x) => x \in Rows(v)
  BY <1>1, SlotIsThere
<1>4. Rows(v) = (Rows(u) \ {rid}) \cup {place}
  BY <1>2, <1>3 DEF SameSlot
<1>. QED  BY <1>2, <1>4 DEF v, place
=============================================================================
