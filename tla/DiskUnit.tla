------------------------------ MODULE DiskUnit ------------------------------
(***************************************************************************)
(* The disk manager on its own, driven as its unit tests drive it          *)
(* (Testing/Storage/Disk): a caller may write any page id, delete pages,   *)
(* close and reopen the file, or die between two calls.                    *)
(***************************************************************************)
EXTENDS DiskManager

CONSTANT MaxDeleted   \* bound of the model: slots waiting to be reused

VARIABLES
  disk,        \* the DiskManager object and its file
  written,     \* history: the last image written under each live id
  sequential   \* history: ids were entered in order 1, 2, ... and none deleted

vars == <<disk, written, sequential>>

Init ==
  /\ disk = NewDisk
  /\ written = EmptyMap
  /\ sequential = TRUE

Write(id, data) ==
  /\ id \in Allocated(disk) \/ HasRoom(disk)
  /\ disk' = writePage(disk, id, data)
  /\ written' = Put(written, id, data)
  /\ sequential' = (sequential /\ (id \in Allocated(disk) \/ id = NewId(disk)))

Allocate ==
  /\ HasRoom(disk)
  /\ disk' = allocatePage(disk)
  /\ UNCHANGED <<written, sequential>>

Delete(id) ==
  /\ disk' = deletePage(disk, id)
  /\ Len(disk'.deleted_slots) <= MaxDeleted
  /\ written' = Erase(written, id)
  /\ sequential' = FALSE

(* ~DiskManager, then the constructor on the same file.                    *)
Reopen ==
  /\ disk' = loadMetaData(saveMetaData(disk))
  /\ UNCHANGED <<written, sequential>>

(* The process dies and the file is opened again.  writePage flushes the   *)
(* stream, so the images are in the file; the directory is not.            *)
Crash ==
  /\ disk' = loadMetaData(disk)
  /\ written' = Restrict(written, DOMAIN written \cap Allocated(disk'))
  /\ UNCHANGED sequential

Next ==
  \/ \E id \in PageIds, data \in Contents : Write(id, data)
  \/ Allocate
  \/ \E id \in PageIds : Delete(id)
  \/ Reopen
  \/ Crash

Spec == Init /\ [][Next]_vars

---------------------------------------------------------------------------
TypeOK ==
  /\ disk \in Disk
  /\ written \in MapOf(PageIds, Contents)
  /\ sequential \in BOOLEAN

(* Every slot the directory or the free list names, in memory or in the    *)
(* header, lies inside the file as long as that copy says it is.           *)
InsideFile ==
  \A h \in {disk, disk.header} :
    /\ \A p \in DOMAIN h.pages_table : h.pages_table[p] < h.capacity
    /\ \A i \in DOMAIN h.deleted_slots : h.deleted_slots[i] < h.capacity

(* A caller that enters ids in order and deletes none reads back what it   *)
(* wrote last under every id, across reopening and across crashes for the  *)
(* pages the header knows.                                                 *)
SequentialReadsBack == sequential =>
  \A p \in DOMAIN written : readPage(disk, p, ZeroPage) = written[p]

(* Why the file is always long enough: a directory and the free list in    *)
(* front of it name no more slots than the file has, whatever was shared,  *)
(* freed and reused.  A file of one slot, which doubling would not help    *)
(* twice, is one that names none.                                          *)
Accounted(h) ==
  /\ IsFiniteSet(DOMAIN h.pages_table)
  /\ Cardinality(DOMAIN h.pages_table) + Len(h.deleted_slots) <= h.capacity
  /\ h.capacity = 1 => DOMAIN h.pages_table = {} /\ h.deleted_slots = << >>

(* What is under the ids of a caller that enters them in order.            *)
ReadsBack ==
  /\ DenseDisk(disk)
  /\ DOMAIN written \subseteq Allocated(disk)
  /\ \A p \in DOMAIN written : disk.file[p] = written[p]

(* The inductive invariant.                                                *)
IInv ==
  /\ TypeOK
  /\ Accounted(disk) /\ Accounted(disk.header)
  /\ InsideFile
  /\ sequential => ReadsBack
=============================================================================
