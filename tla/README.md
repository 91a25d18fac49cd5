# TLA+ models of Database_Engine

This directory is the verification project of the database engine in `src/`:
TLA+ modules of its storage, its transactions, its indexes and its queries, TLC
configurations that check them on small instances, and TLAPS proofs about its disk
manager, buffer pool, table heap, log and catalog. File names below are relative to `src/src/` unless they start with `src/`.

## 1. The system

The engine is a single-threaded, single-user SQL program. `main`
(`Executer/ExecuterFactory.c++`) reads a statement, hands it to the external
hsql parser, the binder, the planner and an executer, and prints the result.
Below the executers are the table heap, the catalog and the indexes, which keep
everything in 4 KiB pages obtained from a buffer pool over one file per
database (and one per catalog). A transaction manager and a write-ahead log
(`wal.bin`) stand beside the executers of INSERT, UPDATE and DELETE.

| Component | State | Operations | Correct when |
|---|---|---|---|
| Disk manager (`Storage/Disk`) | directory page id -> slot, freed slots, capacity; slot 0 holds them as last saved | read, write (allocates an unknown id), allocate, delete, save, load | every slot named lies in the file; ids written in order read back |
| LRU replacer (`Buffer`) | list of frames, by recency | get, put, evict, remove | every resident frame is on it once |
| Buffer pool (`Buffer`) | frames, page_table, pages_ids, is_dirty, free stack | fetchPage, newPage, markAsDirty, unpinPage, deletePage, destructor | callers see a page cache; a pointer stays valid as long as it is used |
| Page, table heap, scan (`Storage/Page`, `Storage/Table`, `Q_Execution/seq_scan_operator.c++`) | chain of slotted pages; first, last page; starting, stopping rid | insert, update, delete, get, scan, save and load metadata | no page or tuple is lost; a scan yields every row once |
| DML executers, transaction manager | current transaction, write set, next id | insert, update, delete a row; begin, commit, abort | a rollback restores; a statement ends |
| WAL and recovery (`Recovery`) | log file; committed ids | add_record, recover, clear | recovery brings back exactly the committed rows |
| Statement loop, lifecycle (`Executer`) | current database and its objects | implicit BEGIN, auto-commit, CONNECT, exit | statements and transactions nest as typed |
| Catalog (`Catalog`) | table and index tables, catalog pages | create, drop, get, save, load | what is reloaded is what was created and not dropped |
| Hash index, B+ tree (`Storage/Indexing`) | bucket chains; a tree of nodes | insert, remove, search, range, rehash, save, load | search agrees with the entries |
| Query operators (`Q_Execution`) | iterators over children | getNext | the rows of the relational operator |
| Binder, planner (`Binder`, `QueryPlan`) | the bind context: the tables of every statement so far | translation of a statement to executers | references resolve to the statement's own tables |
| Values, predicates | none | comparison, AND, OR | comparisons agree with the values |

They interact by plain calls. The shared state is the pool: every fetch may
evict some other component's page, and a page that nobody marked is dropped
with its changes. What makes the code hard to test is therefore (a) evictions
between any two calls, (b) bare pointers into frames, since pins are never
taken, (c) the process dying between any two steps, with the log, the page
images and the directory reaching the file at different times, (d) statements
that fail half way with the transaction left open, (e) a scan over the table
the statement is changing, (f) what outlives a statement without anyone clearing it
(the bind context, a heap's name, the static pointers of the merge join), (g) the
indexes, which live beside rows that change without them, and whose nodes exist
twice, in memory and on a page. There are no threads.

## 2. Modules

    Maps            std::unordered_map as functions
    DiskManager     the disk manager, an operator per method on a disk record
      DiskUnit      ... driven on its own, as Testing/Storage/Disk drives it
    LRU             the replacer, an operator per method on a sequence
    BufferPool      the pool over DiskManager and LRU (a state machine)
    PageCache       what the pool promises: pages, views, marks, evictions
    CachedFile      PageCache's steps as operators on a record
    TableHeap       pages, heap and scan, an operator per method on a table record
      TableUnit     ... driven on its own, with evictions and restarts
    Session         statements, transactions, the log and recovery, over TableHeap
    Catalog         the catalog's file beside the database's (a state machine)
    HashIndex       the static hash index, an operator per method
    BPlusTree       the B+ tree index, an operator per method
      IndexUnit     ... either of them on a column of a table that changes
    Values          fields, columns, comparisons, predicates
    Executers       open and getNext of every executer that yields rows (recursive)
    Binder          bind context, binder, planner and executer factory
      Queries       ... statements one after another over a few tables
    CollectionLemmas                        lemmas on maps, sequences, sums
    TableHeap_proofs                        lemmas on the operators of TableHeap
    DiskUnit_proofs, BufferPool_proofs, TableUnit_proofs,
    Session_proofs, Catalog_proofs, IndexUnit_proofs        the theorems
    MC*             constants for TLC

`BufferPool` EXTENDS `DiskManager` and `LRU` and is shown to implement
`PageCache` by the mapping at its end (a page's view is its frame when it is
resident and its slot when it is not). `TableHeap` and `Catalog` are written over
the page cache, not over frames: their records carry `view`, `stored`, `marked` and
`known` of `PageCache`, and the operators of `CachedFile` are its steps; `Evict`
actions may happen between any two steps of theirs. A step of `PageCache` evicts at most
one page, as a call of the pool does. Replacing the pool by the
cache is justified by the refinement, and treating writes through pointers as
writes to the view by `PointersValid`.

State and actions correspond to the code as follows.

* **DiskManager, DiskUnit.** `disk` is the object's `pages_table`,
  `deleted_slots` and `capacity`, the file's slots, and `header`, slot 0 as it
  was last written. Offsets are divided by `PAGE_SIZE`. `writePage` of an
  unknown id allocates a slot under that id, as the code does; `Reopen` is the
  destructor and the constructor, `Crash` the constructor alone.
* **LRU, BufferPool.** One action per method. `Load` is the common part of
  `fetchPage` on a miss and `newPage` (pick a frame, write the victim back,
  erase its entry, read). `touched` is a history: the pointers callers may
  still hold, at most `Window` of them; `Store` writes through one, into
  whatever page its frame holds by then. `pin_count` is never raised by any
  method and is left out. `Garbage` is what `new char[PAGE_SIZE]` may hold.
* **TableHeap, TableUnit.** `Fits` is the free-space test with padding and
  slot; a tuple that spills is given the rid with slot -1 that `insertTuple`
  returns; `updateTuple` moves a tuple that grew and leaves its page unmarked,
  `deleteTuple` too. Its overload for a list of rids is `updateTuples` (`UpdateBoth` gives it
  two): it goes through the whole list (`Storage/Table/TableHeap.c++:165-195`), and nothing in it
  stops at a tuple that finds no place or looks at what the insertion returned; the model only asks
  that the file's bound leaves room for both. `flags` are the deleted flags in the tuples' own first bytes, beside
  those of the slots. A text is written with a NUL behind it (`Storage/Page/Field.c++:292`), which
  `getTupleSize` does not count: `Extent` counts it, for the tuples of `EndInText`, whose last field is a
  text. Where the padding leaves no room for it, the byte lands on the first byte of the tuple inserted
  before, that is on its deleted flag, and clears it (`Cleared`); behind the first tuple of a page it
  lands one byte past the 4096 of the frame, in what the allocator rounds up, and is not a byte of the model.
  `Destroy` is `deleteTableHeap`: it takes the pages of the chain out of the pool
  (`Buffer/BufferPoolManager.c++:141-159`), never asks the disk manager to delete them, and sets the object's ids
  to -1: the pages stay in the file's directory, with what was last written to them (`Released` is the
  table they still hold, which nobody can reach). `iteratorNext` is the
  `TableIterator` that indexes are built with. `scanNext` and `scanRead` are one turn of `getNext`'s
  loop. `Loads` is what reopening asks of the chain: `setAllRIDs` throws when it
  meets a deleted tuple. In `TableUnit`, `rows` and `changed` are histories.
* **Session.** One table and one database. `StartStatement`, `InsertRow`,
  `UpdateRow`, `DeleteRow`, `PredicateFails` and `Finish` are the turns of
  `main` and of the executers' loops; a row changed, entered in the write set
  and logged is one step because the pages it changes are the ones used last,
  which the pool does not evict (`RecentlyTouched`) before `add_record` has
  flushed the record; a crash between the two loses the change with the frames,
  which is the crash before it. `Replay` and `ReplayFails` handle
  one log record each, so crashes and evictions also come between them.
  `UndoWrite`, `UndoFails` and `FinishRollback` do the same for the write set
  under ROLLBACK. `add_record` may fail (`faults` counts that): the exception ends at
  the prompt, with the row changed and in the write set, the log without the
  record, and the transaction open. `NothingOpen` is COMMIT or ROLLBACK without a transaction,
  which dereferences a null pointer. `PredicateFails` is a comparison of a NULL with
  a value, which ends the program in an assertion. `status = "lost"` means the code
  reads bytes it never wrote (a page the directory does not know, the fields of
  a tuple without fields); nothing is said from there on. `begun`, `before`,
  `committed`, `quiet` and `pristine` are histories; those of a transaction are reset when
  it is gone (`NoTxnLeft`).

* **Catalog.** `tables` and `tables_ids_map` hold TableInfos; `catalog` is the
  catalog's file (the header on page 1, a page per table), `db` the metadata pages of
  the heaps. `CreateTable` is the binder's check and `Catalog::CreateTable`;
  `CreateFails` the same with a constraint that does not resolve, after the heap
  and the id are taken. `CloseCatalog` and `CloseDB` are the two destructors in
  their order, with a crash possible between. `LastBy` is the loop of
  `load_catalog`: a later page wins a name or an id. DROP TABLE of an unknown
  name dereferences a null pointer, which is `Crash`. `closed`, `whole` and
  `happened` are histories. What rows a table has is not part of this module. `load_catalog`
  builds no index (`Catalog/Catalog.c++:371-416`), so a table always comes back with none.
* **HashIndex, BPlusTree, IndexUnit.** An index is a record of its object's fields;
  `getValue`, `insertIndex`, `deleteIndex` and the rehashing of the wrapper are one
  operator each, and so are `splitChild`, `borrowFromPrev`, `borrowFromNext`, `merge`
  and the descents that call them: a descent that calls itself on a child is its step,
  `Repeated` as often as the tree has pages, which no path exceeds. The `next_page_id` of a leaf
  that nothing linked is never set (`src/Include/Storage/Indexing/BPlusTreeIndex.h:39`): it is `Wild`. A scan ends only at an id of
  -1 or less (`Storage/Indexing/BPlusTreeIndex.c++:789-791`, `825-827`), so at a `Wild` id it may end
  or go on to an unknown page: `ScanFrom`, `findValue` and `rangeQuery` yield the set of outcomes, each with the
  rids found and whether the scan `strays`. Nodes are in `nodes` (memory) and `disk` (images);
  `broken` marks a read through the end of an empty vector: the removal that would make
  it ends the run (`alive`). `IndexUnit` has the three
  parties: statements change `rows` and ask no index, `CreateIndex` and `AddRow` add
  entries, `RemoveKey` and `UpdateEntry` take them, and `Reopen` saves and loads
  through the wrapper's destructor, as the tests do it: the engine never
  destroys the wrappers (section 5). `told` and `touched` are histories: what the index was
  given, and the rows whose key or entry changed since.
* **Values, Executers.** A field is an integer, a fraction, a text or NULL. An
  executer is a record with its children inside it; `opened` and `getNext` return the
  executer after the call and `"row"`, `"end"`, `"threw"` (an exception, caught at the
  prompt) or `"dead"` (an assertion, or undefined behaviour). Pages of sorted runs
  are sequences of `PageRows` rows, the memory an unknown sort key reads is a choice
  (`Memory`).
* **Binder, Queries.** `Select`, `Change` and `Insert` take a parsed statement from the
  binder to an open executer; `Fetch` is one `getNext` of the printing loop;
  `UpdateRow`, `DeleteRow` and `PassRow` are the turns of the changing loops. `Drive`
  opens executers that no SQL text reaches (joins on columns, the hash
  aggregation), as the tests do. `context`, the names in `heaps` and `pointers`
  outlive statements. Tables here are rows in slots: pages, eviction and transactions are in
  `TableUnit` and `Session`.

Undefined behaviour is a choice: the bytes of new frames, the id read from a
deleted transaction (`{txn.id, GarbageId}`), the `table_id` of a loaded heap
(`{"own", "other"}`). The log file of the code is a fixed path, which may or may
not be the file `exit` truncates: `Exit` chooses.

## 3. What is checked

| Run | Question | Distinct states |
|---|---|---|
| DiskUnit | Any order of writes to ids 1..3, allocations, deletions, reopenings and crashes, in a file of 2 slots that doubles: slots stay inside the file (`InsideFile`), sequential callers read back what they wrote (`SequentialReadsBack`) | 611,812 |
| BufferPool | Three frames, four pages, two images, window 2: the pool implements `PageCache` (`ImplementsPageCache`); no frame is shared or lost (`TableMatchesFrames`, `FramesAccounted`); the directory it builds has no holes (`DirectoryDense`); pointers stay valid without pins (`PointersValid`, `RecentlyTouched`) | 744,088 |
| Table | Three pages of two narrow tuples each, a wide one that just fits beside a narrow one, one that fits nowhere; two changed rows: the chain is whole (`ChainWellFormed`), on every page, in memory and in the file, slots end before tuples begin, the tuples' counted bytes do not overlap, and the NUL behind a text reaches one byte at most, a deleted flag that the neighbour's slot also keeps (`PagesFit`), a scan yields each row once (`ScanYieldsRows`), the iterator the same rows wherever it does not end the program (`IteratorYieldsRows`), inserted rows stay (`InsertsStay`) | 185,033 |
| TableRestart (violation) | Does a clean restart keep every row? No: updates and deletions do not mark the page | |
| Session | Five statements, three of them typed (BEGIN counts), three exits or crashes, of which a failed write to the log takes two: below | 1,216,355 |
| Rollback (violation) | Does ROLLBACK undo what followed BEGIN? No: each DML statement commits | |
| Recovery (violation) | Does recovery leave the committed rows? No: redo repeats insertions | |
| Catalog | Two names, three creations, three exits or crashes: ids are never given twice (`IdsFresh`), the two maps agree and heaps are not shared (`TablesAgree`), each table is on a page (`TablesRecorded`), the tables that were closed come back, without their indexes, and a complete close can be opened (`ClosedTablesComeBack`) | 480,707 |
| CatalogDrop (violation) | Does a restart rebuild the tables when one was dropped? No: pages are counted, and the dropped one's is still there | |
| Indexes | A column of 5 rows and a hash index of capacity 2, or of 7 and a B+ tree of minimum degree 2: below | 932,568 |
| Queries | Three statements over two tables with duplicates, NULLs and more rows than a page: below | 260,983 |
| Sorting (violation) | Do merge joins, ORDER BY and grouping by sorting answer what they should? No: the merge join loses the last batch | |

`TablesAgree` and `ClosedTablesComeBack` are about histories without DROP TABLE:
CatalogDrop shows what a drop does to them. `ClosedTablesComeBack` covers crashes
too: a start after one either finds exactly the tables of the last close or
reads bytes nobody wrote (`StartLost`), which it cannot do after a complete
close.

Session checks `LogSerial` (recovery decides by id: ids in a log are distinct
and nothing comes between the changes of one transaction, through restarts,
failed statements, failed writes and interrupted recoveries), `WriteSetIsLogged` (what
ROLLBACK would undo is, row by row and in the same order, what recovery would, but for as many
records as could not be written), `StatementsShrink` (the scan
under an UPDATE meets the rows it moved again, and a variant still decreases
with every row, so the statement ends), and two positive results that delimit
the violations: `InsertsRecovered` (insert-only transactions, nothing evicted: the log
brings back exactly the committed rows, also when recovery itself was interrupted)
and `RollbackRestores` (a transaction that a failed write left open is undone exactly, if
one statement changed its rows, nothing was evicted, no undo meets a moved row, and no
insertion took a new page). TLC asked for each of these conditions; section 5 says why.

DiskUnit: `SequentialReadsBack` speaks of a caller that enters ids in order until it first deletes a
page; that two ids may share a slot afterwards is behaviour of the model that no property forbids.

Table: `PagesFit` does not say that no byte of a tuple is ever written over. It says where the one that is
may be: the NUL behind a text may clear the deleted flag in the neighbour's first byte, and the
neighbour's slot still says that it is deleted, so no lookup changes its answer.

Indexes checks that lookups are exact: `HashLookupsExact` through collisions, rehashing
and rebuilding, `TreeLookupsExact` (search, findValue and range query) through splits and
reloads until the first removal, on the tree's own leaves: a scan may stray from the last of them to
an unknown page, but only if the tree has no key above its upper bound; that removals keep the tree sorted between its
separators (`TreeOrdered`), equally deep and filled (`TreeBalanced`) and take at most
one entry (`RemovalTakesOne`); that memory and pages agree (`TreeOnPages`); and exactly
how stale an index is that nobody maintains: it differs from the table in
the rows changed since, and in no other (`StaleOnlyWhereTouched`).

Queries checks what a statement that ends has answered, against its relational
definition over the tables as they were: `AnswersExact` for queries of one table, cut
by LIMIT and OFFSET, and for UPDATE and DELETE, although the bind context still has
the tables of every earlier statement and an UPDATE meets the rows it moved;
`JoinsExact` for the joins by nested loops, by hashing and over an index, pair by pair. `AnswersExact` does not
speak of queries after an alias renamed the heap (`Plain`), and takes any window of the right
length for a LIMIT without OFFSET, whose start is an uninitialised read. `SortsAndGroups` says what holds of sorting: a sort
that its constructor opened, and nobody again, yields each row once and in order, if the table
knows the key and has no NULL under it; grouping by hashing is exact, for a MAX when some value is not negative and a MIN
when some is not positive, since both start from 0; ORDER BY and grouping by sorting lose and invent no row
and no key, which is all that holds of them. `ChangesFinish` is liveness: see below.

Sorting states what the readme promises of the rest (`SortedAnswersExact`): an ORDER BY that
prints the rows once and in order, groupings by hashing and by sorting with the right results, and a merge join that makes
the pairs of the join. TLC's trace is a merge join of keys 0, 1 with key 1 that yields nothing; the ORDER BY and the
grouping, checked one by one, fail as well (section 5).

Bounds. Three frames are the least that a caller with two pointers needs; one page more than there are frames makes every call able to
evict. The file of two slots doubles at the first allocation. Three table pages
are the metadata page, one full page and one extension. Two or three statements
and three stops are enough for: a transaction left open by a statement that
failed, with or without changes, and continued by another; a clean close, a crash in the next session and a
crash in the recovery after it. For the catalog two names and three ids let a name
be created again after a drop, and three stops separate a close, a partial close and
a start. Keys 0 and 20 of the indexes share a bucket before and after the rehash to
20 buckets, 3 does not; seven entries split a tree of degree 2 into three levels,
and two changes are a removal followed by a reload, or the other way round. When a row is
inserted or added a change counts as two, so that a change early on goes with fewer rows, and
the table with all its rows or one less has one change. Pages of
two rows and tables of up to three make the sorter merge two runs. Three statements are
one that leaves something behind, one that it misleads, and one after it. Counters are bounded in guards:
`MaxSlot`, `MaxDeleted`, `MaxPages`, `MaxChanged`, `MaxStatements`, `MaxStops`, `MaxTables`, `MaxRows`, `MaxEntries`,
`MaxPending`, `MaxChangedRows`, `MaxChanges`, `MaxSlots`;
`HasRoom` and `RoomFor` keep a run inside its file. No symmetry is used.
Deadlock is not checked: the bounds, a program that died, and a database that
cannot be opened again all stop the system.

Fairness and liveness. The program is one thread that never waits: whatever it
has to do next is enabled, so the only thing that can fail to happen is that a
loop ends. The loop that may not is UPDATE over the table it extends.
`Queries` states weak fairness of `ChangeStep`, the turns of the loop of one UPDATE or
DELETE, which the thread runs without waiting for anyone; what the user types, and
the fetching of a SELECT's rows, get none. Under it `ChangesFinish` says that the loop
ends. In `Session` the same loop is interrupted by crashes, and its end is checked
as a variant (`StatementsShrink`), an action property that needs no fairness.

Every property of a passing run is accompanied by a mutant, a named operator
"As a ..." next to the definition it replaces, that TLC finds to violate it.

## 4. What is proved

Each `*_proofs` module is about the module it is named after and holds for every value of
the constants that the ASSUMEs of that module allow: numbers of frames, pages and ids,
images, sizes of tuples and pages, names, statements, bounds. The assumptions are those
named ASSUMEs only; TLC evaluates all of them in the runs. A theorem rests on an inductive
invariant `IInv` of its module (and, for `Session`, `TableUnit` and `IndexUnit`, on a second one that
uses the first), which TLC has checked on the instance of the run, with one lemma for each
action. Of the properties of passing runs these are theorems:

| Module | Theorems | Property |
|---|---|---|
| DiskUnit_proofs | TypeCorrect, NeverPastTheEnd, WrittenIsRead | `TypeOK`, `InsideFile`, `SequentialReadsBack` |
| BufferPool_proofs | TypeCorrect, TableInverse, NoFrameLost, DirectoryHasNoHoles, TouchedFirst, PointersStayValid, Refinement | `TypeOK`, `TableMatchesFrames`, `FramesAccounted`, `DirectoryDense`, `RecentlyTouched`, `PointersValid`, `ImplementsPageCache` |
| TableUnit_proofs | TypeCorrect, ChainComplete, NoOverlap, InsertedIsFound, ScanComplete, IteratorComplete | `TypeOK`, `ChainWellFormed`, `PagesFit`, `InsertsStay`, `ScanYieldsRows`, `IteratorYieldsRows` |
| Session_proofs | TypeCorrect, SerialLog, WritesLogged, ScansEnd, RowsRestored, RowsRecovered | `TypeOK`, `LogSerial`, `WriteSetIsLogged`, `StatementsShrink`, `RollbackRestores`, `InsertsRecovered` |
| Catalog_proofs | TypeCorrect, FreshIds, MapsAgree, Recording, Restart | `TypeOK`, `IdsFresh`, `TablesAgree`, `TablesRecorded`, `ClosedTablesComeBack` |
| IndexUnit_proofs | TypeCorrect, LookupsExact, HashStaleOnlyWhereTouched | `TypeOK`, `HashLookupsExact`, `StaleOnlyWhereTouched` of the hash index |

**Disk manager.** `IInv` is `TypeOK`, `Accounted` of the object and of the header it last
saved, `InsideFile`, and `ReadsBack` while the caller is sequential. `Accounted` says that the
directory and the list of freed slots together name no more slots than the capacity
they come with: an id gets a new slot numbered by the size of the directory, so it lies in
the file although the test that doubles the file looks at the directory alone.
A crash puts the header's directory, which is accounted for too, beside a file that has only
grown since. `SequentialReadsBack` needs that the directory of a caller who enters ids in
order gives each id the slot of its own number; with any other order two ids may share one.

**Buffer pool.** `IInv` is the type invariant, the two bookkeeping invariants,
`DirectoryDense` and `RecentlyTouched`. None is inductive alone. `PointersValid` needs that
the touched pages are a prefix of the LRU list (`RecentlyTouched`), so that its tail, the
victim, is not one of them: the list is longer than the window whenever it is full, which
takes `FramesAccounted` (an empty free stack means all frames are on the list) and
Window < BUFFER_SIZE. `TypeOK` needs `FramesAccounted` too (the list is not empty when a
victim is taken), and `FramesAccounted` needs `TableMatchesFrames` (a frame that is given
away is one page's only). `DirectoryDense` makes the write-back of a victim never allocate a
slot, which keeps the disk's type and the id of the next page.

`Refinement` is `Spec => Cache!Spec`, step by step under the mapping at the end of
`BufferPool`: a hit changes nothing the cache shows; a load evicts the page of its victim,
and no other page's view changes because the frame was that page's only; `Store` writes
the view of one page because `PointersValid` says that the frame still holds the caller's.

**Table heap.** `TableHeap_proofs` has the lemmas on the operators: what each method
preserves of `Sound` (the pages are 1 .. last, each linked to the next, whole in memory and
in the file, and a page that is not marked has its link in the file already), of `Kept` (a
history of rows is in the table) and of `Bounded` (no page before the starting rid
ever had a tuple, and the stopping rid is on the last page). `Sound` is why losing the
writes to an unmarked page never cuts the chain: the only writes that go unmarked
are those that change slots, never links. `IInv` of `TableUnit` is these and what the file's metadata
says of the table while it is closed.

`NoOverlap` follows because `Sound` has each page `Fitting`: a slot's tuple ends, in counted bytes, no later than the one
before it begins, which an insertion keeps by `Fits` and an update in place because it only shortens; one uncounted
byte then meets the neighbour's first byte at most. The flag it may clear is never the only record of a
deletion: only slots that are deleted are in `flags`.

The scan's theorem compares what the steps of `getNext` read with the set of rows. The
positions, a recursive function, are first shown to satisfy their recursion at every
number (by a least counterexample: induction by the library's theorem is not available); each step
goes forward in the order of pages and slots, so what is read is read in order and once;
more steps than slots and pages would visit a place twice, so the scan has ended within
`ScanSteps`; and the first step that passes a slot without reading it cannot exist, so every row is
read. `ScanYieldsRows` says this of the function from steps to rids: each row is the result of one
step, and a later step reads a later row of the chain. The iterator's theorem goes the same way.

**Session.** `IInv` (record types of the open transaction, `StatementOpen`, `IdsGiven`,
`OpenIsLast`, `LogSerial`): while the program runs, no record has an id that `begin` could
still give, the open transaction has the last id given, and the records with its id end the log. That is
what survives a failed write and a crash in the middle of recovery, because recovery does not append to the log,
and ids start again from 0 only after it was cleared.
`Tracked` adds `WriteSetIsLogged`, whose witness grows by one pair or one lost record with each row.

`TypeOK` needs more than types: `Held`. While the process runs the table is `Sound` and scans
stop on its last page. After a crash the file has what the last clean close saved, but for one
link: an extension marks and writes the page it links from, while the directory
does not know the page it links to. Loading then follows a link past the last known page, which is not `Readable`
(`LinkedPastEnd`), so `Start` never takes such a table for a table. The rids in the write set and of
the scan are on the table's pages; those in the log may not be (`PageKnown`).

`ScansEnd`, an action property, takes the scan's lemmas: the rows ahead of a position are exactly the rows
behind it in the chain. A row overwritten or deleted is no longer ahead and nothing joins; a row
that moved to the end is ahead again, but as large as the statement makes it, so it is not among those
that would move, and there is one less of these.

`RowsRestored` needs `Undoable`: while the transaction's changes are one statement's and nothing was
evicted, the rows there were at its begin are, each as often, the rows no write is about and the old tuples of its
updates and deletions, in the state of every step before and during the undo. One write is about a rid at most,
because the scan has left the changed rows behind, and a row that the undo inserts again fits a page,
because it was on one. A row that moved is the exception: the write set then holds an update whose row is not at its
rid, no step changes that, and the undo of it ends the process instead of finishing.

`RowsRecovered` needs `Recoverable`. While nothing is evicted no method writes to the known pages of the file, so the
table that reopening the file would give stays the same, after a crash too. The tables
that the log's insertions make of that one, record by record, are witnessed by a function that grows with
the log (no fold, hence no induction on data): each record's rid is where its insertion goes, the session's table is
like the last of them, the rows of the last commit are those after the first k records, the insertions
up to k are the committed ones, and behind k is at most the open transaction's. During recovery the table is like the
one after the records redone so far. The record behind k is undone at a rid that has no slot yet, so
nothing changes, and an interruption starts from the same table again.

**Catalog.** The names and ids in memory and the pages of the file are related by `PagesKept`, `IdsKept`,
`TablesRecorded` (every table that can be named has a page that says so) and, while nothing was
dropped, `ClosedAreKnown`, `ClosedWhole` and `TablesArePages` (the number of pages is the number
of tables, so the loop that counts them reads them all). `Restart` follows: the next start finds exactly
the tables of the last close, or a page that the directory does not know.

**Hash index.** `IInv` is `Typed` (the type invariant) and `HashHolds`: a hash index in use finds for every key the
rids it was told, in the order it was told them, and is one of `GoodTables`, where every entry is in the
bucket its key is hashed to. What lookups find is not inductive without that: a removal and an update
take the first entry of the key from its chain, and the chain of a bucket has the entries of other keys between,
which must find what they did; a rehash moves every chain, and a key finds the same
afterwards only because all its entries came from one chain, in order. `TookOver` says so for a rehash that has
done n chains: a key whose old bucket is below n finds what it did, any other nothing yet.
A statement asks no index, so it keeps `HashHolds`; `Reopen` and `CreateIndex` build the table again, from the pages or from
the rows, one insertion after the other.

The functions that do this (`RidsUnder`, `insertedAll`, `rehashed`, `insertedRows`) are recursive, and the lemma `Unfolds`
shows by a least counterexample that each satisfies its recursion.

`HashStaleOnlyWhereTouched` needs a second invariant, `Fresh`: a row that nothing touched since the index was built or told
of it is listed under its key in the history exactly when it is live. It is about the hash index alone. The
assumptions are that keys are natural numbers and that the table starts with a bucket (`SizeAssumption`, without which
the hash divides by zero); the steps of the tree are among those the theorems range over, but what a tree
finds is in none of them.

**Model-checked only.** Liveness (`ChangesFinish`) and ENABLED are beyond the prover.
Of `IndexUnit`, what is about the tree: `TreeLookupsExact`, `TreeOrdered`, `TreeBalanced`, `TreeOnPages`,
`RemovalTakesOne`, and `StaleOnlyWhereTouched` while the index is a tree. The tree is written with functions
the prover can reason about, but an invariant of trees of any height, through splits, borrowing
and merging, has not been proved. Everything of `Queries`: predicates and executers
are written with recursive operators (`Values`, `Executers`), which the prover cannot reason
about. These are checked on the instances of section 3 only.

## 5. Divergences found

1. `updateTuple` and `deleteTuple` do not mark the page: changes are lost when
   it is evicted or the database closed (`RestartKeepsRows`; `src/readme.md:397`).
2. A DML statement commits the transaction the user began (`RollbackUndoes`;
   `src/readme.md:140`).
3. Redo is not idempotent (`RecoveryRestores`; `src/readme.md:152`).
4. After a drop and a restart the dropped table is back and the newest is gone
   (`RestartRebuildsTables`; `src/readme.md:159`).
5. A merge join loses the batch of pairs it found last, an ORDER BY prints every row three times, and
   grouping by sorting doubles its sums (`SortedAnswersExact`; `src/readme.md:126`, `144-145`, `196`).

The models hold others, as behaviour of their actions; those that limit what a
property can say are in its comment, and the main ones are hazards in PROJECT.json.

* *Restart*: `src/readme.md:159` says "tables and indexes rebuilt from disk on restart". The half about
  indexes holds for no index: `load_catalog` builds none, and `ClosedTablesComeBack` says that each table
  comes back without those it had. Only a clean close writes the directory: after a crash every page allocated
  since is unknown.
* *Storage and transactions*: deleting a table never frees its pages in the file; the log truncated before the pool is flushed, the
  uninitialised `table_id`, deletions logged as updates to an empty tuple, the
  id read after `delete`, tables that cannot be reopened once a deletion reached
  the file. Since every DML statement commits, ROLLBACK has something to undo only after
  a record could not be written; even then it leaves a row whose insertion took a new page
  (its rid has slot -1), puts a row that was inserted and deleted back for good,
  and follows a null pointer at a row that was moved.
* *Hash index*: `deleteIndex` follows a null pointer when the entry is the last of
  two or more, reads an empty optional in an empty bucket, and does not count an entry
  off that is not first; loading adds every row to the saved number of
  entries; `serializeHashIndex` and its inverse, which nothing calls, disagree on offsets.
* *B+ tree*: removing a key that is also a separator removes its predecessor
  (`Storage/Indexing/BPlusTreeIndex.c++:448-475`); merged leaves keep a link to the freed page; the
  first leaf's link is never set, and splits hand it on to the last, so that a scan past it may read an unknown
  page; leaves read back have no keys, so removal takes
  them for empty and merges full ones; `findValue` misses duplicates left of an equal
  separator.
* *Indexes in the engine*: no statement maintains them; CREATE INDEX always makes a
  hash index, adds every entry again when there is one, and dereferences null at
  a deleted tuple; the heap's destructor does not destroy the wrappers, so their
  meta pages are never saved by the engine itself.
* *Binding*: the context is never cleared; a column without its table is never
  found; an alias renames the heap for good, and later queries without it print empty
  rows; INSERT into a table that does not exist follows a null pointer, and takes its values in
  the order of the schema whatever columns were named.
* *Joins*: a JOIN on columns always throws, since the scan doubles the prefix of a
  name it is asked for, and the join type is ignored; `MergeJoin` sorts both sides by a key
  its sort does not find, loses the pairs of its last batch, and its pointers are static, so that a second merge join of the same
  tables starts behind their rows and yields nothing.
* *Sorting and grouping*: ORDER BY does not find its key, reads the memory behind the row
  and yields every row three times; NULL keys among values leave the rows in no order;
  GROUP BY without HAVING follows a null pointer, HAVING over a function aborts;
  the sorted aggregation prints sums twice as large and counts of 0, and the maxima and minima of both
  groupings start at 0 (`src/readme.md:120-127` lists these features).
* *Limits and changes*: LIMIT without OFFSET reads an uninitialised pointer (so any window may come out), OFFSET without
  LIMIT a null one; UPDATE and DELETE without WHERE end the program at the first row;
  comparing a NULL with a number is an assertion failure.

## 6. Not modelled, and the plan

Not modelled: the parser (external), several databases and DROP DATABASE, the bytes
of serialised fields (but for the NUL behind a text) and of the directory, whose entries `saveMetaData` puts into a buffer of
one page without counting them (`Storage/Disk/DiskManager.c++:62`: it holds some 340 pages, and the models' files are smaller), booleans (no statement stores
one), arithmetic in expressions beyond its refusal by the factory, the
printed traces, and a record of which only a part was written (a write to the log
fails as a whole in `Session`). INSERT, UPDATE and DELETE of `Queries` do not log: `Session` has the
log and takes the rows a predicate accepts from a set.

The modules planned at first are all written, and the properties of the disk manager,
the pool, the table heap, the session, the catalog and the hash index are all theorems, except that
`UPDATE` ends (`ChangesFinish`), which is liveness. What is left is the tree: an
inductive invariant of `BPlusTree` (order and balance of every subtree, and the list of
leaves) would turn its five properties into theorems. `Queries` would first need its recursive
operators as functions.
