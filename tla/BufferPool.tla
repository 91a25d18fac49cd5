----------------------------- MODULE BufferPool -----------------------------
(***************************************************************************)
(* The buffer pool manager (Buffer/BufferPoolManager.c++) over an LRU list *)
(* and a disk.  The pool never pins: fetchPage returns a bare pointer into *)
(* a frame, and nothing stops the frame from being given to another page   *)
(* while the caller still writes through it.  What saves the callers is    *)
(* that they touch few pages between taking a pointer and using it for the *)
(* last time; `touched' records the pages they may still have pointers to, *)
(* and Window how many that is.                                            *)
(*                                                                         *)
(* pin_count is not modelled: it is 0 at construction, no method raises it *)
(* and unpinPage lowers only what is positive.                             *)
(***************************************************************************)
EXTENDS DiskManager, LRU

CONSTANTS
  Window,   \* pages a caller keeps pointers to at once (2 in the heap)
  Garbage   \* the bytes `new char[PAGE_SIZE]' may leave in a frame

ASSUME WindowAssumption == Window \in Nat /\ Window < BUFFER_SIZE
ASSUME GarbageAssumption == Garbage \subseteq Contents

VARIABLES
  disk,             \* the disk manager
  frames,           \* the image in each frame
  page_table,       \* map: resident page |-> its frame
  pages_ids,        \* the page in each frame, -1 for none
  is_dirty,         \* the frames to write back
  free_frames_ids,  \* the stack of frames that hold no page, top last
  lru,              \* the frames that hold a page, most recently used first
  touched           \* callers: the pages used last, each with the frame
                    \* fetchPage returned for it, most recent first

poolVars == <<frames, page_table, pages_ids, is_dirty, free_frames_ids, lru>>
vars == <<disk, poolVars, touched>>

FrameId == 0 .. BUFFER_SIZE - 1

Resident == DOMAIN page_table

Pointer == [page : Slot, frame : FrameId]

---------------------------------------------------------------------------
(* The constructor: `new char[PAGE_SIZE]' leaves any bytes in a frame, and *)
(* the free stack ends with the last frame.                                *)
AllFreeFromOne == [i \in 1 .. BUFFER_SIZE |-> i]   \* as numbered from 1

NoPages     == [f \in FrameId |-> -1]
AllClean    == [f \in FrameId |-> FALSE]
AllFree     == [i \in 1 .. BUFFER_SIZE |-> i - 1]
AnyBytes    == [FrameId -> Garbage]

Init ==
  /\ disk = NewDisk
  /\ frames \in AnyBytes
  /\ page_table = EmptyMap /\ pages_ids = NoPages /\ is_dirty = AllClean
  /\ free_frames_ids = AllFree /\ lru = << >> /\ touched = << >>

---------------------------------------------------------------------------
(* Both fetchPage on a miss and newPage take the top of the free stack, or *)
(* evict the tail of the list after writing it back when it is dirty.      *)
MustEvict == free_frames_ids = << >>
Victim    == IF MustEvict THEN evicted(lru) ELSE Last(free_frames_ids)

(* As an eviction that skips the write-back, or the erasure of the entry.  *)
DiskWithoutWriteBack == disk
TableNotErased == page_table

DiskAfterEviction ==
  IF MustEvict /\ is_dirty[Victim]
  THEN writePage(disk, pages_ids[Victim], frames[Victim])
  ELSE disk

TableAfterEviction ==
  IF MustEvict THEN Erase(page_table, pages_ids[Victim]) ELSE page_table

FreeAfterEviction ==
  IF MustEvict THEN free_frames_ids ELSE Front(free_frames_ids)

LruAfterEviction == IF MustEvict THEN evict_frame(lru) ELSE lru

(* The victim frame receives page id as disk d has it.                     *)
Load(id, d) ==
  /\ disk' = d
  /\ frames' = [frames EXCEPT ![Victim] = readPage(d, id, frames[Victim])]
  /\ pages_ids' = [pages_ids EXCEPT ![Victim] = id]
  /\ is_dirty' = [is_dirty EXCEPT ![Victim] = FALSE]
  /\ page_table' = Put(TableAfterEviction, id, Victim)
  /\ free_frames_ids' = FreeAfterEviction
  /\ lru' = put_frame(LruAfterEviction, Victim)

(* A caller's last Window pages, once it has used page id in frame f.      *)
TouchedPages == {touched[i].page : i \in DOMAIN touched}

Untouched(id) ==
  IF id \in TouchedPages
  THEN RemoveAt(touched, CHOOSE i \in DOMAIN touched : touched[i].page = id)
  ELSE touched

Newest(s) == SubSeq(s, 1, IF Len(s) < Window THEN Len(s) ELSE Window)

Touch(id, f) ==
  touched' = Newest(<<[page |-> id, frame |-> f]>> \o Untouched(id))

FetchHit(id) ==
  /\ id \in Resident
  /\ lru' = get_frame(lru, page_table[id])
  /\ Touch(id, page_table[id])
  /\ UNCHANGED <<disk, frames, page_table, pages_ids, is_dirty, free_frames_ids>>

FetchMiss(id) ==
  /\ id \notin Resident
  /\ Load(id, DiskAfterEviction)
  /\ Touch(id, Victim)

(* Callers fetch ids that newPage gave out.  (fetchPage(-1) is nullptr and *)
(* changes nothing.)                                                       *)
fetchPage(id) ==
  /\ id \in Allocated(disk)
  /\ FetchHit(id) \/ FetchMiss(id)

newPage ==
  /\ HasRoom(disk)
  /\ LET id == allocatedSlot(DiskAfterEviction)
     IN  /\ Load(id, allocatePage(DiskAfterEviction))
         /\ Touch(id, Victim)

(* A caller writes through a pointer it still holds: the bytes land in the *)
(* frame, whatever page that frame holds by now.                           *)
Store(i, c) ==
  /\ frames' = [frames EXCEPT ![touched[i].frame] = c]
  /\ UNCHANGED <<disk, page_table, pages_ids, is_dirty, free_frames_ids, lru, touched>>

(* `page_table[page_id]' enters a page that is not resident under frame 0. *)
markAsDirty(id) ==
  LET frame == IF id \in Resident THEN page_table[id] ELSE 0
  IN  /\ id \in TouchedPages
      /\ page_table' = Put(page_table, id, frame)
      /\ is_dirty' = [is_dirty EXCEPT ![frame] = TRUE]
      /\ UNCHANGED <<disk, frames, pages_ids, free_frames_ids, lru, touched>>

unpinPage(id, is_dirty_flag) ==
  /\ id \in TouchedPages /\ id \in Resident
  /\ is_dirty' = [is_dirty EXCEPT ![page_table[id]] = @ \/ is_dirty_flag]
  /\ UNCHANGED <<disk, frames, page_table, pages_ids, free_frames_ids, lru, touched>>

(* Dropping a page from the pool; the disk keeps it.                       *)
DropPage(id) ==
  LET frame == page_table[id]
  IN  /\ id \in Resident
      /\ disk' = IF is_dirty[frame] THEN writePage(disk, id, frames[frame]) ELSE disk
      /\ page_table' = Erase(page_table, id)
      /\ pages_ids' = [pages_ids EXCEPT ![frame] = -1]
      /\ is_dirty' = [is_dirty EXCEPT ![frame] = FALSE]
      /\ free_frames_ids' = Append(free_frames_ids, frame)
      /\ lru' = remove_frame(lru, frame)
      /\ touched' = Untouched(id)
      /\ UNCHANGED frames

(* ~BufferPoolManager writes every dirty frame (resident pages are in the  *)
(* directory, so writePage never allocates here) and closes the disk; a    *)
(* later start opens the file again under an empty pool.                   *)
DirtyFrames(s) ==
  {f \in FrameId : /\ is_dirty[f] /\ pages_ids[f] # -1
                   /\ disk.pages_table[pages_ids[f]] = s}

FlushedFile ==
  [s \in Slot |-> IF DirtyFrames(s) # {}
                  THEN frames[CHOOSE f \in DirtyFrames(s) : TRUE]
                  ELSE disk.file[s]]

Reopen(d) ==
  /\ disk' = loadMetaData(d)
  /\ frames' \in AnyBytes
  /\ page_table' = EmptyMap /\ pages_ids' = NoPages /\ is_dirty' = AllClean
  /\ free_frames_ids' = AllFree /\ lru' = << >> /\ touched' = << >>

Restart == Reopen(saveMetaData([disk EXCEPT !.file = FlushedFile]))

(* The process dies: the frames and the directory in memory are gone, the  *)
(* slots and the header as they were last written are not.                 *)
Crash == Reopen(disk)

Next ==
  \/ newPage
  \/ \E id \in Slot : fetchPage(id)
  \/ \E i \in DOMAIN touched, c \in Contents \ {ZeroPage} : Store(i, c)
  \/ \E id \in Slot : markAsDirty(id)
  \/ \E id \in Slot, flag \in BOOLEAN : unpinPage(id, flag)
  \/ \E id \in Slot : DropPage(id)
  \/ Restart
  \/ Crash

Spec == Init /\ [][Next]_vars

---------------------------------------------------------------------------
TypeOK ==
  /\ disk \in Disk
  /\ frames \in [FrameId -> Contents]
  /\ page_table \in MapOf(Slot, FrameId)
  /\ pages_ids \in [FrameId -> Slot \cup {-1}]
  /\ is_dirty \in [FrameId -> BOOLEAN]
  /\ free_frames_ids \in Seq(FrameId)
  /\ lru \in Seq(FrameId)
  /\ touched \in Seq(Pointer)

(* page_table and pages_ids are inverse to each other: no frame is shared, *)
(* no eviction erases the entry of another page.                           *)
TableMatchesFrames ==
  /\ \A p \in Resident : pages_ids[page_table[p]] = p
  /\ \A f \in FrameId :
        pages_ids[f] # -1 => /\ pages_ids[f] \in Resident
                             /\ page_table[pages_ids[f]] = f

(* Every frame is on the free stack or on the LRU list, once, and it is on *)
(* the list exactly when it holds a page: there is always a victim, and a  *)
(* frame given away is never one that is still in use.                     *)
FramesAccounted ==
  /\ IsInjective(free_frames_ids) /\ IsInjective(lru)
  /\ Range(lru) = {f \in FrameId : pages_ids[f] # -1}
  /\ Range(free_frames_ids) = FrameId \ Range(lru)

(* Every page of the pool is in a directory that has no holes, so writing  *)
(* one back never allocates.                                               *)
DirectoryDense == DenseDisk(disk) /\ Resident \subseteq Allocated(disk)

(* A pointer to one of the last Window pages still points at that page:    *)
(* LRU alone does the work of the pins that are never taken.               *)
PointersValid ==
  \A i \in DOMAIN touched :
    /\ touched[i].page \in Resident
    /\ page_table[touched[i].page] = touched[i].frame

(* What makes the last one inductive: `touched' is a prefix of the LRU     *)
(* list, shorter than the list is whenever its tail may be evicted.        *)
RecentlyTouched ==
  /\ Len(touched) <= Window /\ Len(touched) <= Len(lru)
  /\ \A i \in 1 .. Len(touched) : /\ touched[i].frame = lru[i]
                                  /\ pages_ids[lru[i]] = touched[i].page

IInv == /\ TypeOK /\ TableMatchesFrames /\ FramesAccounted
        /\ DirectoryDense /\ RecentlyTouched

---------------------------------------------------------------------------
(* What the pool promises (PageCache), in terms of what it has: users see  *)
(* a resident page in its frame and any other in its slot.                 *)
view ==
  [p \in Allocated(disk) |-> IF p \in Resident THEN frames[page_table[p]]
                             ELSE disk.file[disk.pages_table[p]]]
stored == [p \in Allocated(disk) |-> disk.file[disk.pages_table[p]]]
marked == {p \in Resident : is_dirty[page_table[p]]}
known  == DOMAIN disk.header.pages_table

Cache == INSTANCE PageCache WITH Ids <- Slot

ImplementsPageCache == Cache!Spec
=============================================================================
