---------------------------- MODULE DiskManager ----------------------------
(***************************************************************************)
(* The disk manager (Storage/Disk/DiskManager.c++): one database file, cut *)
(* into 4096-byte slots, and an in-memory directory from page ids to slots.*)
(* Slot 0 holds the header: the directory, the freed slots and the         *)
(* capacity as they were when saveMetaData last ran.                       *)
(*                                                                         *)
(* A disk is a record, and every method of the class is an operator from   *)
(* disks to disks, so that the buffer pool can call several of them within *)
(* one step.  An offset is divided by PAGE_SIZE throughout: it is the slot *)
(* it points at.  DiskUnit drives these operators the way the unit tests   *)
(* do; BufferPool drives them the way the engine does.                     *)
(***************************************************************************)
EXTENDS Integers, FiniteSets, SequencesExt, Maps

CONSTANTS
  MaxSlot,        \* bound of the model: the last slot a run may use
  PageIds,        \* bound of the model: the page ids a run may use
  Contents,       \* what a page image may be, as far as a property can tell
  FreshPage,      \* the image of a newly constructed Page
  ZeroPage,       \* the image resize_file leaves in a slot never written
  FILE_CAPACITY   \* slots of a new database file (100 in the code)

ASSUME SlotAssumption     == MaxSlot \in Nat \ {0}
ASSUME PageIdAssumption   == 1 .. MaxSlot \subseteq PageIds /\ PageIds \subseteq Nat \ {0}
ASSUME CapacityAssumption == FILE_CAPACITY \in Nat \ {0}
ASSUME ContentsAssumption == FreshPage \in Contents /\ ZeroPage \in Contents

Slot == 1 .. MaxSlot

(* DiskManager(file_name) on a file that does not exist: saveMetaData has  *)
(* written the empty directory.                                            *)
NewDisk ==
  LET header == [pages_table |-> EmptyMap, deleted_slots |-> << >>,
                 capacity |-> FILE_CAPACITY]
  IN  [pages_table   |-> header.pages_table,
       deleted_slots |-> header.deleted_slots,
       capacity      |-> header.capacity,
       file          |-> [s \in Slot |-> ZeroPage],
       header        |-> header]

(* As a close that forgets the directory would leave the header.           *)
saveWithoutDirectory(d) ==
  [d EXCEPT !.header.deleted_slots = d.deleted_slots, !.header.capacity = d.capacity]

(* Run by that constructor and by the destructor, and by nothing else.     *)
saveMetaData(d) ==
  [d EXCEPT !.header = [pages_table   |-> d.pages_table,
                        deleted_slots |-> d.deleted_slots,
                        capacity      |-> d.capacity]]

(* The constructor on an existing file: memory is rebuilt from slot 0.     *)
loadMetaData(d) ==
  [d EXCEPT !.pages_table   = d.header.pages_table,
            !.deleted_slots = d.header.deleted_slots,
            !.capacity      = d.header.capacity]

Allocated(d) == DOMAIN d.pages_table

(* The id of the next page to be constructed: pages_table.size() + 1.      *)
NewId(d) == Cardinality(Allocated(d)) + 1

(* The model's bound on the file: no constructed page falls outside Slot.  *)
HasRoom(d) == d.deleted_slots # << >> \/ NewId(d) \in Slot

(* As the number of the last page, and as a file that grows one page late. *)
lastSlot(d) ==
  IF d.deleted_slots # << >> THEN Last(d.deleted_slots) ELSE NewId(d) - 1

resizedLate(d) ==
  IF NewId(d) > d.capacity THEN 2 * d.capacity ELSE d.capacity

(* allocatePage returns the slot freed last, which it does NOT enter in    *)
(* the directory; when none is free it constructs page size()+1 in the     *)
(* slot of that number and enters it, after doubling a file that is full.  *)
allocatedSlot(d) ==
  IF d.deleted_slots # << >> THEN Last(d.deleted_slots) ELSE NewId(d)

resizedCapacity(d) ==
  IF NewId(d) >= d.capacity THEN 2 * d.capacity ELSE d.capacity

(* As an allocation that does not enter the page it constructs.            *)
allocateUnentered(d) ==
  IF d.deleted_slots # << >>
  THEN [d EXCEPT !.deleted_slots = Front(d.deleted_slots)]
  ELSE [d EXCEPT !.capacity = resizedCapacity(d), !.file[NewId(d)] = FreshPage]

allocatePage(d) ==
  IF d.deleted_slots # << >>
  THEN [d EXCEPT !.deleted_slots = Front(d.deleted_slots)]
  ELSE [d EXCEPT !.capacity        = resizedCapacity(d),
                 !.file[NewId(d)]  = FreshPage,
                 !.pages_table     = Put(d.pages_table, NewId(d), NewId(d))]

(* A page that is not in the directory gets an allocated slot, entered     *)
(* under the id the caller gave.                                           *)
writePage(d, id, data) ==
  LET known == id \in Allocated(d)
      slot  == IF known THEN d.pages_table[id] ELSE allocatedSlot(d)
      ready == IF known THEN d ELSE allocatePage(d)
  IN  [ready EXCEPT !.file[slot] = data,
                    !.pages_table = Put(ready.pages_table, id, slot)]

(* A page that is not in the directory leaves the caller's buffer alone.   *)
readPage(d, id, buffer) ==
  IF id \in Allocated(d) THEN d.file[d.pages_table[id]] ELSE buffer

deletePage(d, id) ==
  IF id \in Allocated(d)
  THEN [d EXCEPT !.deleted_slots = Append(d.deleted_slots, d.pages_table[id]),
                 !.pages_table   = Erase(d.pages_table, id)]
  ELSE d

(* The types of what the header holds, and of a disk.                      *)
Header == [pages_table   : MapOf(PageIds, Slot),
           deleted_slots : Seq(Slot),
           capacity      : Nat \ {0}]

Disk == [pages_table   : MapOf(PageIds, Slot),
         deleted_slots : Seq(Slot),
         capacity      : Nat \ {0},
         file          : [Slot -> Contents],
         header        : Header]

(* The directory a caller builds that enters ids in order and deletes      *)
(* none: pages 1 .. n, page p in slot p, and nothing freed; slot 0's copy  *)
(* is a prefix of it.                                                      *)
DenseDisk(d) ==
  /\ \E n \in 0 .. MaxSlot : Allocated(d) = 1 .. n
  /\ \E n \in 0 .. MaxSlot : DOMAIN d.header.pages_table = 1 .. n
  /\ DOMAIN d.header.pages_table \subseteq Allocated(d)
  /\ \A p \in Allocated(d) : d.pages_table[p] = p
  /\ \A p \in DOMAIN d.header.pages_table : d.header.pages_table[p] = p
  /\ d.deleted_slots = << >> /\ d.header.deleted_slots = << >>
=============================================================================
