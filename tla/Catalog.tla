------------------------------ MODULE Catalog ------------------------------
(***************************************************************************)
(* The catalog (Catalog/Catalog.c++) over its own file, beside the file of *)
(* the database.  Page 1 of the catalog's file is a header, as save_catalog*)
(* last wrote it; every table created adds a page that is never written    *)
(* again.  A restart finds the tables by counting: the header says how     *)
(* many there are, and they are taken to be on pages 2, 3, ...             *)
(*                                                                         *)
(* Of the database's file only the metadata page of each table is kept,    *)
(* under the number of its heap; its image is "saved" once saveMetaData    *)
(* filled it (tables with deleted tuples, which do not load, are TableUnit's*)
(* subject).  Primary keys, unique and foreign keys are left out: they are *)
(* resolved, which may fail, and never serialized, and only printed.       *)
(***************************************************************************)
EXTENDS FiniteSetsExt, CachedFile

CONSTANTS
  Names,       \* table names
  IndexNames,  \* index names
  MaxTables,   \* bound of the model: CREATE TABLE statements, failing ones included
  MaxStops     \* bound of the model: exits and crashes

ASSUME MaxTablesAssumption == MaxTables \in Nat

VARIABLES
  status,          \* "open", "closing" between the two files, "down",
                   \* "lost" once a load read bytes that were never written
  tables,          \* map: name |-> its TableInfo
  tables_ids_map,  \* map: table id |-> its TableInfo
  next_table_id,
  catalog,         \* the catalog's file
  db,              \* the database's file: the metadata pages
  closed,          \* history: the tables when the catalog was last closed
  whole,           \* history: the database's file was closed with it
  happened,        \* history: "drop" and "crash", once there was one
  stops            \* exits and crashes so far

objects == <<tables, tables_ids_map, next_table_id>>
history == <<closed, whole, happened, stops>>
vars == <<status, objects, catalog, db, history>>

---------------------------------------------------------------------------
(* A TableInfo is what serializeTableInfo writes of it; a new Page is      *)
(* neither one nor a header.                                               *)
(* (InfoOfLastId: as an id read before the counter is raised.)             *)
InfoOfLastId(name, id, heap) ==
  [name |-> name, table_id |-> id - 1, first_page_id |-> heap, indexes |-> {}]

Info(name, id, heap) ==
  [name |-> name, table_id |-> id, first_page_id |-> heap, indexes |-> {}]

FreshPage == [next_page_id |-> -1]

Header(next, count) == [next_table_id |-> next, num_of_tables |-> count]

IsInfo(image) == "name" \in DOMAIN image

(* save_catalog, with the counters of the catalog object.                  *)
(* (savedWithoutIds: as a header that leaves next_table_id out.)           *)
savedWithoutIds(c, next, count) == Marked(Written(c, 1, Header(0, count)), 1)

saved(c, next, count) == Marked(Written(c, 1, Header(next, count)), 1)

(* The page of a new table.                                                *)
(* As a CREATE TABLE that does not mark it.                                *)
addedUnmarked(c, info) == Written(Extended(c, FreshPage), NewPageId(c), info)

added(c, info) ==
  Marked(Written(Extended(c, FreshPage), NewPageId(c), info), NewPageId(c))

(* The constructor of TableHeap for a new table, and its saveMetaData.     *)
withHeap(d) == Marked(Written(Extended(d, "fresh"), NewPageId(d), "linked"), NewPageId(d))

withMetaData(d, heaps) ==
  [d EXCEPT !.view = [h \in DOMAIN d.view |-> IF h \in heaps THEN "saved" ELSE d.view[h]],
            !.marked = @ \cup heaps]

Init ==
  /\ status = "open"
  /\ tables = EmptyMap /\ tables_ids_map = EmptyMap /\ next_table_id = 0
  /\ catalog = saved(Extended(NoFile, FreshPage), 0, 0)
  /\ db = NoFile
  /\ closed = EmptyMap /\ whole = TRUE /\ happened = {} /\ stops = 0

---------------------------------------------------------------------------
(* CREATE TABLE.  A name that exists ends the statement before anything is *)
(* done.  A constraint that does not resolve ends it when the heap and the *)
(* id are already taken.                                                   *)
(* (NameIsAny: as a creation that does not look the name up.)              *)
NameIsAny(name) == TRUE

NameIsNew(name) == name \notin DOMAIN tables

CreateTable(name) ==
  LET info == Info(name, next_table_id + 1, NewPageId(db))
  IN  /\ status = "open" /\ next_table_id < MaxTables
      /\ NameIsNew(name)
      /\ tables' = Emplaced(tables, name, info)
      /\ tables_ids_map' = Emplaced(tables_ids_map, info.table_id, info)
      /\ next_table_id' = info.table_id
      /\ catalog' = added(catalog, info)
      /\ db' = withHeap(db)
      /\ UNCHANGED <<status, history>>

CreateFails ==
  /\ status = "open" /\ next_table_id < MaxTables
  /\ next_table_id' = next_table_id + 1
  /\ db' = withHeap(db)
  /\ UNCHANGED <<status, tables, tables_ids_map, catalog, history>>

(* DROP TABLE.  deleteTableHeap takes the heap's pages out of the pool, a  *)
(* marked one being written first: both files keep what they have.  (A     *)
(* name that does not exist ends the process: see Crash.)                  *)
DropTable(name) ==
  /\ status = "open" /\ name \in DOMAIN tables
  /\ db' = Evicted(db, {tables[name].first_page_id})
  /\ tables' = Erase(tables, name)
  /\ tables_ids_map' = Erase(tables_ids_map, tables[name].table_id)
  /\ happened' = happened \cup {"drop"}
  /\ UNCHANGED <<status, next_table_id, catalog, closed, whole, stops>>

(* AddIndex, after CREATE INDEX built the index in the heap: the TableInfo *)
(* both maps point to gets it, and save_catalog writes the header only.    *)
AddIndex(name, index) ==
  /\ status = "open" /\ name \in DOMAIN tables
  /\ index \notin tables[name].indexes
  /\ LET old == tables[name]
         new == [old EXCEPT !.indexes = @ \cup {index}]
     IN  /\ tables' = [tables EXCEPT ![name] = new]
         /\ tables_ids_map' = [id \in DOMAIN tables_ids_map |->
              IF tables_ids_map[id] = old THEN new ELSE tables_ids_map[id]]
  /\ catalog' = saved(catalog, next_table_id, Cardinality(DOMAIN tables))
  /\ UNCHANGED <<status, next_table_id, db, history>>

(* Other calls push pages out of either pool.                              *)
EvictCatalog(p) ==
  /\ status = "open"
  /\ catalog' = Evicted(catalog, {p})
  /\ UNCHANGED <<status, objects, db, history>>

EvictDB(h) ==
  /\ status = "open"
  /\ db' = Evicted(db, {h})
  /\ UNCHANGED <<status, objects, catalog, history>>

---------------------------------------------------------------------------
(* exit and CONNECT: ~Catalog and the pool of its file, then the pool of   *)
(* the database's.  The objects stay as they are until the next start.     *)
Heaps == {info.first_page_id : info \in Range(tables_ids_map)}

CloseCatalog ==
  /\ status = "open" /\ stops < MaxStops
  /\ catalog' = Flushed(saved(catalog, next_table_id, Cardinality(DOMAIN tables)))
  /\ db' = withMetaData(db, Heaps)
  /\ closed' = tables
  /\ whole' = FALSE
  /\ status' = "closing" /\ stops' = stops + 1
  /\ UNCHANGED <<objects, happened>>

CloseDB ==
  /\ status = "closing"
  /\ db' = Flushed(db)
  /\ whole' = TRUE
  /\ status' = "down"
  /\ UNCHANGED <<objects, catalog, closed, happened, stops>>

(* The process dies, in a session or between the two files.                *)
Crash ==
  /\ status \in {"open", "closing"}
  /\ status = "open" => stops < MaxStops
  /\ catalog' = Crashed(catalog) /\ db' = Crashed(db)
  /\ whole' = FALSE
  /\ status' = "down"
  /\ stops' = IF status = "open" THEN stops + 1 ELSE stops
  /\ happened' = happened \cup {"crash"}
  /\ UNCHANGED <<objects, closed>>

---------------------------------------------------------------------------
(* load_catalog: as many pages as the header counts, from page 2 on; a     *)
(* later page wins a name or an id.  What is not in a directory, and the   *)
(* metadata of a heap that was never closed, are bytes nobody wrote.       *)
(* (pagesCountedFrom1: as a loop that takes page i for table i.)           *)
pagesCountedFrom1(count) == 1 .. count

pagesCounted(count) == 2 .. count + 1

TablePages == pagesCounted(catalog.view[1].num_of_tables)

HeapLoads(h) == h \in DOMAIN db.view /\ db.view[h] = "saved"

CatalogLoads ==
  /\ 1 \in DOMAIN catalog.view
  /\ \A p \in TablePages : /\ p \in DOMAIN catalog.view
                           /\ IsInfo(catalog.view[p])
                           /\ HeapLoads(catalog.view[p].first_page_id)

(* The TableInfo last read for each value of a field, name or table_id.    *)
LastBy(field) ==
  [k \in {catalog.view[p][field] : p \in TablePages} |->
     catalog.view[Max({p \in TablePages : catalog.view[p][field] = k})]]

Start ==
  /\ status = "down" /\ CatalogLoads
  /\ tables' = LastBy("name")
  /\ tables_ids_map' = LastBy("table_id")
  /\ next_table_id' = catalog.view[1].next_table_id
  /\ status' = "open"
  /\ UNCHANGED <<catalog, db, history>>

StartLost ==
  /\ status = "down" /\ ~CatalogLoads
  /\ status' = "lost"
  /\ UNCHANGED <<objects, catalog, db, history>>

Next ==
  \/ \E name \in Names : CreateTable(name) \/ DropTable(name)
  \/ CreateFails
  \/ \E name \in Names, index \in IndexNames : AddIndex(name, index)
  \/ \E p \in DOMAIN catalog.view : EvictCatalog(p)
  \/ \E h \in DOMAIN db.view : EvictDB(h)
  \/ CloseCatalog \/ CloseDB \/ Crash
  \/ Start \/ StartLost

Spec == Init /\ [][Next]_vars

---------------------------------------------------------------------------
Infos == [name : Names, table_id : 1 .. MaxTables, first_page_id : Nat \ {0},
          indexes : SUBSET IndexNames]

TypeOK ==
  /\ status \in {"open", "closing", "down", "lost"}
  /\ tables \in MapOf(Names, Range(tables)) /\ Range(tables) \subseteq Infos
  /\ tables_ids_map \in MapOf(1 .. MaxTables, Range(tables_ids_map))
  /\ Range(tables_ids_map) \subseteq Infos
  /\ next_table_id \in 0 .. MaxTables
  /\ happened \subseteq {"drop", "crash"}
  /\ IsFile(catalog) /\ IsFile(db)
  /\ Range(db.view) \cup Range(db.stored) \subseteq {"fresh", "linked", "saved"}
  /\ \A p \in DOMAIN catalog.view \ {1} :
        {catalog.view[p], catalog.stored[p]} \subseteq Infos \cup {FreshPage}

TableInfoPages == {p \in DOMAIN catalog.view : IsInfo(catalog.view[p])}

(* No two pages of tables carry one id, and the next id is above them all, *)
(* through failed creations, drops, crashes and reloads: a foreign key     *)
(* never comes to mean another table.                                      *)
IdsFresh == status = "open" =>
  /\ \A p, q \in TableInfoPages :
        p # q => catalog.view[p].table_id # catalog.view[q].table_id
  /\ \A p \in TableInfoPages : catalog.view[p].table_id <= next_table_id

(* While nothing is dropped the two maps hold the same tables, each under  *)
(* its own name and id, and no two of them share a heap, whichever of the  *)
(* files a crash took back to an earlier state.                            *)
TablesAgree == status = "open" /\ "drop" \notin happened =>
  /\ Range(tables) = Range(tables_ids_map)
  /\ \A name \in DOMAIN tables : tables[name].name = name
  /\ \A id \in DOMAIN tables_ids_map : tables_ids_map[id].table_id = id
  /\ Cardinality(Heaps) = Cardinality(DOMAIN tables_ids_map)

(* Every table that can be named has a page that says so, whatever was     *)
(* evicted, dropped or reloaded.                                           *)
TablesRecorded == status = "open" =>
  \A name \in DOMAIN tables :
    \E p \in TableInfoPages : [tables[name] EXCEPT !.indexes = {}] = catalog.view[p]

(* The readme promises "Full crash recovery -- tables and indexes rebuilt   *)
(* from disk on restart" (readme.md:159).  Of the tables that much holds   *)
(* until one is dropped: those of the last close come back, and no others, *)
(* and after a close of both files the catalog can always be loaded.  Of   *)
(* the indexes nothing holds: no page of the catalog has one and           *)
(* load_catalog rebuilds none, so that every table comes back without its  *)
(* indexes.  (Catalog.c++:371-416)                                         *)
WithoutIndexes(m) == [k \in DOMAIN m |-> [m[k] EXCEPT !.indexes = {}]]

ClosedTablesComeBack ==
  [][status = "down" /\ "drop" \notin happened =>
       /\ whole => status' = "open"
       /\ status' = "open" => tables' = WithoutIndexes(closed)]_vars

(* The same of tables that may be dropped, which the readme's sentence     *)
(* does not except, in a program that always exits.                        *)
RestartRebuildsTables ==
  [][status = "down" /\ status' = "open" /\ "crash" \notin happened =>
       tables' = WithoutIndexes(closed)]_vars

---------------------------------------------------------------------------
(* What makes them inductive.                                              *)
Headers == [next_table_id : 0 .. MaxTables, num_of_tables : Nat]

Bare(info) == [info EXCEPT !.indexes = {}]

Pages == DOMAIN catalog.view \ {1}

(* Page 1 is a header and every other the page of a table, as it was       *)
(* written when the table was created; so is what the file has of a page   *)
(* that its directory knows or that need not be written.                   *)
PagesKept ==
  /\ status \in {"open", "closing"} => 1 \in DOMAIN catalog.view
  /\ \A p \in DOMAIN catalog.view \cap {1} :
       /\ catalog.view[p] \in Headers
       /\ p \in catalog.known \/ p \notin catalog.marked => catalog.stored[p] \in Headers
  /\ \A p \in Pages :
       /\ catalog.view[p] \in Infos /\ catalog.view[p].indexes = {}
       /\ p \in catalog.known \/ p \notin catalog.marked => catalog.stored[p] = catalog.view[p]

FilesNumbered == Numbered(catalog) /\ Numbered(db)

TablesFinite == IsFiniteSet(DOMAIN tables)

(* Every table the ids lead to has its heap in the database's file.        *)
HeapsKept == status = "open" =>
  \A id \in DOMAIN tables_ids_map : tables_ids_map[id].first_page_id \in DOMAIN db.view

(* An id once given is above no counter that can come back.                *)
IdsKept ==
  /\ \A p, q \in Pages : p # q => catalog.view[p].table_id # catalog.view[q].table_id
  /\ \A p \in Pages :
       /\ status = "open" => catalog.view[p].table_id <= next_table_id
       /\ status \in {"closing", "down"} =>
            catalog.view[p].table_id <= catalog.view[1].next_table_id
       /\ p \in catalog.known =>
            /\ catalog.view[p].table_id <= catalog.view[1].next_table_id
            /\ catalog.view[p].table_id <= catalog.stored[1].next_table_id

(* While nothing is dropped: the tables are the pages.                     *)
TablesArePages == status = "open" =>
  /\ DOMAIN tables = {catalog.view[p].name : p \in Pages}
  /\ DOMAIN tables_ids_map = {catalog.view[p].table_id : p \in Pages}
  /\ \A p \in Pages :
       /\ Bare(tables[catalog.view[p].name]) = catalog.view[p]
       /\ tables_ids_map[catalog.view[p].table_id] = tables[catalog.view[p].name]
       /\ catalog.view[p].first_page_id \in DOMAIN db.view

(* No name and no heap is on two pages; the pages the directory knows are  *)
(* the tables of the last close, and a header that can come back counts    *)
(* no fewer.                                                               *)
ClosedAreKnown ==
  /\ \A p, q \in Pages : p # q =>
       /\ catalog.view[p].name # catalog.view[q].name
       /\ catalog.view[p].first_page_id # catalog.view[q].first_page_id
  /\ 1 \in catalog.known =>
       /\ DOMAIN closed = {catalog.view[p].name : p \in catalog.known \ {1}}
       /\ \A p \in catalog.known \ {1} : Bare(closed[catalog.view[p].name]) = catalog.view[p]
       /\ \A p \in catalog.known : /\ p <= catalog.view[1].num_of_tables + 1
                                   /\ p <= catalog.stored[1].num_of_tables + 1

(* Between a close of the catalog and the next start; and what a close of  *)
(* both files leaves.                                                      *)
HeapsSaved ==
  \A p \in Pages : LET h == catalog.view[p].first_page_id
                   IN  h \in DOMAIN db.view /\ db.view[h] = "saved"

ClosedWhole ==
  /\ status \in {"closing", "down"} => catalog.known = DOMAIN catalog.view
  /\ status = "closing" \/ (status = "down" /\ whole) =>
       /\ 1 \in catalog.known /\ HeapsSaved
       /\ catalog.view[1].num_of_tables + 1 \in catalog.known
  /\ status = "closing" => \A p \in Pages : catalog.view[p].first_page_id \in db.marked

(* The inductive invariant.                                                *)
IInv ==
  /\ TypeOK /\ FilesNumbered /\ TablesFinite /\ HeapsKept
  /\ PagesKept /\ IdsKept /\ TablesRecorded
  /\ "drop" \notin happened => ClosedAreKnown /\ ClosedWhole /\ TablesArePages
=============================================================================
