--------------------------- MODULE Catalog_proofs ---------------------------
(***************************************************************************)
(* Proofs about the catalog, for every set of table names and index names  *)
(* and any number of creations, exits and crashes: the inductive invariant *)
(* IInv of Catalog, and from it the invariants TLC checks on two names and *)
(* what a restart brings back.                                             *)
(***************************************************************************)
EXTENDS Catalog, CollectionLemmas

---------------------------------------------------------------------------
(* What the operators on a cached file do to a numbered one: the fields    *)
(* they leave, and that the pages stay numbered from 1.                    *)

(* The fields of a file, and that its pages are natural numbers.           *)
LEMMA FileFields ==
  ASSUME NEW t, Numbered(t)
  PROVE  /\ DOMAIN t = {"view", "stored", "marked", "known"}
         /\ DOMAIN t.stored = DOMAIN t.view
         /\ t.marked \subseteq DOMAIN t.view /\ t.known \subseteq DOMAIN t.view
         /\ Cardinality(DOMAIN t.view) \in Nat /\ Cardinality(t.known) \in Nat
         /\ IsFiniteSet(t.known)
         /\ DOMAIN t.view \subseteq Nat \ {0}
         /\ 1 \in DOMAIN t.view <=> DOMAIN t.view # {}
         /\ 1 \in t.known <=> t.known # {}
<1>1. DOMAIN t = {"view", "stored", "marked", "known"}
  BY DEF Numbered, NoFile
<1>2. /\ DOMAIN t.stored = DOMAIN t.view
      /\ t.marked \subseteq DOMAIN t.view /\ t.known \subseteq DOMAIN t.view
      /\ IsFiniteSet(DOMAIN t.view)
      /\ DOMAIN t.view = 1 .. Cardinality(DOMAIN t.view)
      /\ t.known = 1 .. Cardinality(t.known)
  BY DEF Numbered, IsFile
<1>3. Cardinality(DOMAIN t.view) \in Nat
  BY <1>2, FS_CardinalityType
<1>4. IsFiniteSet(t.known) /\ Cardinality(t.known) \in Nat
  BY <1>2, FS_Subset, FS_CardinalityType
<1>5. DOMAIN t.view \subseteq Nat \ {0} /\ (1 \in DOMAIN t.view <=> DOMAIN t.view # {})
  BY <1>2, <1>3
<1>6. 1 \in t.known <=> t.known # {}
  BY <1>2, <1>4
<1>. QED  BY <1>1, <1>2, <1>3, <1>4, <1>5, <1>6

(* A file with the same pages, and the same or all of them known.          *)
LEMMA SamePages ==
  ASSUME NEW t, Numbered(t), NEW u,
         DOMAIN u = {"view", "stored", "marked", "known"},
         DOMAIN u.view = DOMAIN t.view, DOMAIN u.stored = DOMAIN t.view,
         u.marked \subseteq DOMAIN t.view,
         u.known = t.known \/ u.known = DOMAIN t.view
  PROVE  Numbered(u)
<1>1. /\ DOMAIN t.stored = DOMAIN t.view
      /\ t.marked \subseteq DOMAIN t.view /\ t.known \subseteq DOMAIN t.view
      /\ IsFiniteSet(DOMAIN t.view)
      /\ DOMAIN t.view = 1 .. Cardinality(DOMAIN t.view)
      /\ t.known = 1 .. Cardinality(t.known)
  BY DEF Numbered, IsFile
<1>2. DOMAIN u = DOMAIN NoFile
  BY DEF NoFile
<1>3. u.known = 1 .. Cardinality(u.known) /\ u.known \subseteq DOMAIN u.view
  BY <1>1
<1>. QED  BY <1>1, <1>2, <1>3 DEF Numbered, IsFile

(* A new page has the number after the last.                               *)
LEMMA ExtendedFile ==
  ASSUME NEW t, Numbered(t), NEW image
  PROVE  LET n == NewPageId(t)
             u == Extended(t, image)
         IN  /\ Numbered(u)
             /\ n \in Nat \ {0} /\ n \notin DOMAIN t.view
             /\ n = 1 <=> DOMAIN t.view = {}
             /\ DOMAIN u.view = DOMAIN t.view \cup {n}
             /\ u.view[n] = image /\ u.stored[n] = image
             /\ \A p \in DOMAIN t.view : u.view[p] = t.view[p] /\ u.stored[p] = t.stored[p]
             /\ u.marked = t.marked /\ u.known = t.known
<1>. DEFINE n == NewPageId(t)
            u == Extended(t, image)
            c == Cardinality(DOMAIN t.view)
<1>1. /\ DOMAIN t = {"view", "stored", "marked", "known"}
      /\ DOMAIN t.stored = DOMAIN t.view
      /\ t.marked \subseteq DOMAIN t.view /\ t.known \subseteq DOMAIN t.view
      /\ c \in Nat
  BY FileFields
<1>2. IsFiniteSet(DOMAIN t.view) /\ DOMAIN t.view = 1 .. c /\ t.known = 1 .. Cardinality(t.known)
  BY DEF Numbered
<1>3. n = c + 1
  BY DEF NewPageId
<1>. HIDE DEF n, c
<1>4. n \in Nat \ {0} /\ n \notin DOMAIN t.view /\ (n = 1 <=> DOMAIN t.view = {})
  BY <1>1, <1>2, <1>3
<1>5. /\ DOMAIN u = {"view", "stored", "marked", "known"}
      /\ u.view = Put(t.view, n, image) /\ u.stored = Put(t.stored, n, image)
      /\ u.marked = t.marked /\ u.known = t.known
  BY <1>1 DEF Extended, n
<1>. HIDE DEF u
<1>6. /\ DOMAIN u.view = DOMAIN t.view \cup {n} /\ DOMAIN u.stored = DOMAIN u.view
      /\ u.view[n] = image /\ u.stored[n] = image
      /\ \A p \in DOMAIN t.view : u.view[p] = t.view[p] /\ u.stored[p] = t.stored[p]
  BY <1>1, <1>4, <1>5 DEF Put
<1>7. IsFiniteSet(DOMAIN u.view) /\ Cardinality(DOMAIN u.view) = n
  <2>. DEFINE S == DOMAIN t.view
  <2>1. IsFiniteSet(S) /\ n \notin S
    BY <1>2, <1>4
  <2>. HIDE DEF S
  <2>2. IsFiniteSet(S \cup {n}) /\ Cardinality(S \cup {n}) = Cardinality(S) + 1
    BY <2>1, FS_AddElement
  <2>. QED  BY <1>3, <1>6, <2>2 DEF c, S
<1>8. DOMAIN u.view = 1 .. n
  BY <1>1, <1>2, <1>3, <1>6
<1>9. Numbered(u)
  BY <1>1, <1>2, <1>5, <1>6, <1>7, <1>8 DEF Numbered, IsFile, NoFile
<1>. QED  BY <1>4, <1>5, <1>6, <1>9 DEF n, u

(* Writing to a page, and marking pages.                                   *)
LEMMA WrittenFile ==
  ASSUME NEW t, Numbered(t), NEW p \in DOMAIN t.view, NEW image
  PROVE  LET u == Written(t, p, image)
         IN  /\ Numbered(u)
             /\ DOMAIN u.view = DOMAIN t.view /\ u.view[p] = image
             /\ \A q \in DOMAIN t.view : q # p => u.view[q] = t.view[q]
             /\ u.stored = t.stored /\ u.marked = t.marked /\ u.known = t.known
<1>. DEFINE u == Written(t, p, image)
<1>1. /\ DOMAIN t = {"view", "stored", "marked", "known"}
      /\ DOMAIN t.stored = DOMAIN t.view /\ t.marked \subseteq DOMAIN t.view
  BY FileFields
<1>2. /\ DOMAIN u = {"view", "stored", "marked", "known"}
      /\ u.view = [t.view EXCEPT ![p] = image]
      /\ u.stored = t.stored /\ u.marked = t.marked /\ u.known = t.known
  BY <1>1 DEF Written
<1>. HIDE DEF u
<1>3. Numbered(u)
  BY <1>1, <1>2, SamePages
<1>. QED  BY <1>2, <1>3 DEF u

LEMMA MarkedFile ==
  ASSUME NEW t, Numbered(t), NEW p \in DOMAIN t.view
  PROVE  LET u == Marked(t, p)
         IN  /\ Numbered(u)
             /\ u.view = t.view /\ u.stored = t.stored
             /\ u.marked = t.marked \cup {p} /\ u.known = t.known
<1>. DEFINE u == Marked(t, p)
<1>1. /\ DOMAIN t = {"view", "stored", "marked", "known"}
      /\ DOMAIN t.stored = DOMAIN t.view /\ t.marked \subseteq DOMAIN t.view
  BY FileFields
<1>2. /\ DOMAIN u = {"view", "stored", "marked", "known"}
      /\ u.view = t.view /\ u.stored = t.stored
      /\ u.marked = t.marked \cup {p} /\ u.known = t.known
  BY <1>1 DEF Marked
<1>. HIDE DEF u
<1>3. Numbered(u)
  BY <1>1, <1>2, SamePages
<1>. QED  BY <1>2, <1>3 DEF u

(* An eviction: afterwards, a page evicted is the same in both places.     *)
LEMMA EvictedFile ==
  ASSUME NEW t, Numbered(t), NEW E
  PROVE  LET u == Evicted(t, E)
         IN  /\ Numbered(u)
             /\ DOMAIN u.view = DOMAIN t.view
             /\ \A p \in DOMAIN t.view :
                  /\ u.view[p] = IF p \in E \ t.marked THEN t.stored[p] ELSE t.view[p]
                  /\ u.stored[p] = IF p \in E \cap t.marked THEN t.view[p] ELSE t.stored[p]
             /\ u.marked = t.marked \ E /\ u.known = t.known
<1>. DEFINE u == Evicted(t, E)
<1>1. /\ DOMAIN t = {"view", "stored", "marked", "known"}
      /\ DOMAIN t.stored = DOMAIN t.view /\ t.marked \subseteq DOMAIN t.view
  BY FileFields
<1>2. /\ DOMAIN u = {"view", "stored", "marked", "known"}
      /\ u.view = [p \in DOMAIN t.view |->
                     IF p \in E \ t.marked THEN t.stored[p] ELSE t.view[p]]
      /\ u.stored = [p \in DOMAIN t.view |->
                       IF p \in E \cap t.marked THEN t.view[p] ELSE t.stored[p]]
      /\ u.marked = t.marked \ E /\ u.known = t.known
  BY <1>1 DEF Evicted
<1>. HIDE DEF u
<1>3. Numbered(u)
  BY <1>1, <1>2, SamePages
<1>. QED  BY <1>2, <1>3 DEF u

(* A clean close: everything is known, and the same in both places.        *)
LEMMA FlushedFile ==
  ASSUME NEW t, Numbered(t)
  PROVE  LET u == Flushed(t)
         IN  /\ Numbered(u)
             /\ DOMAIN u.view = DOMAIN t.view /\ u.known = DOMAIN t.view /\ u.marked = {}
             /\ \A p \in DOMAIN t.view :
                  /\ u.view[p] = IF p \in t.marked THEN t.view[p] ELSE t.stored[p]
                  /\ u.stored[p] = u.view[p]
<1>. DEFINE e == Evicted(t, DOMAIN t.view)
            u == Flushed(t)
<1>1. /\ Numbered(e)
      /\ DOMAIN e.view = DOMAIN t.view
      /\ \A p \in DOMAIN t.view :
           /\ e.view[p] = IF p \in t.marked THEN t.view[p] ELSE t.stored[p]
           /\ e.stored[p] = IF p \in t.marked THEN t.view[p] ELSE t.stored[p]
      /\ e.marked = {}
  <2>1. t.marked \subseteq DOMAIN t.view
    BY FileFields
  <2>. QED  BY <2>1, EvictedFile
<1>2. u = [e EXCEPT !.known = DOMAIN t.view]
  BY DEF Flushed
<1>. HIDE DEF e, u
<1>3. DOMAIN e = {"view", "stored", "marked", "known"} /\ DOMAIN e.stored = DOMAIN e.view
  BY <1>1, FileFields
<1>4. /\ DOMAIN u = {"view", "stored", "marked", "known"}
      /\ u.view = e.view /\ u.stored = e.stored /\ u.marked = e.marked
      /\ u.known = DOMAIN e.view
  BY <1>1, <1>2, <1>3
<1>5. Numbered(u)
  BY <1>1, <1>3, <1>4, SamePages
<1>. QED  BY <1>1, <1>4, <1>5 DEF u

(* A crash: what the directory knows, as it is in the file.                *)
LEMMA CrashedFile ==
  ASSUME NEW t, Numbered(t)
  PROVE  LET u == Crashed(t)
         IN  /\ Numbered(u)
             /\ DOMAIN u.view = t.known /\ u.known = t.known /\ u.marked = {}
             /\ \A p \in t.known : u.view[p] = t.stored[p] /\ u.stored[p] = t.stored[p]
<1>. DEFINE u == Crashed(t)
<1>1. /\ DOMAIN t = {"view", "stored", "marked", "known"}
      /\ IsFiniteSet(t.known) /\ t.known = 1 .. Cardinality(t.known)
  BY FileFields DEF Numbered
<1>2. /\ DOMAIN u = {"view", "stored", "marked", "known"}
      /\ u.view = [p \in t.known |-> t.stored[p]] /\ u.stored = [p \in t.known |-> t.stored[p]]
      /\ u.marked = {} /\ u.known = t.known
  BY <1>1 DEF Crashed, Restrict
<1>. HIDE DEF u
<1>3. Numbered(u)
  BY <1>1, <1>2 DEF Numbered, IsFile, NoFile
<1>. QED  BY <1>2, <1>3 DEF u

---------------------------------------------------------------------------
(* The invariant's parts, as the proofs use them.                          *)

Images == {"fresh", "linked", "saved"}

(* The type invariant, but for what FilesNumbered and PagesKept say.       *)
Typed ==
  /\ status \in {"open", "closing", "down", "lost"}
  /\ tables \in MapOf(Names, Infos)
  /\ tables_ids_map \in MapOf(1 .. MaxTables, Infos)
  /\ next_table_id \in 0 .. MaxTables
  /\ happened \subseteq {"drop", "crash"}
  /\ \A h \in DOMAIN db.view : db.view[h] \in Images /\ db.stored[h] \in Images
  /\ \A p \in Pages : catalog.stored[p] \in Infos \cup {FreshPage}

(* A map into the values it takes.                                         *)
LEMMA MapIntoRange ==
  ASSUME NEW K, NEW V, NEW m
  PROVE  m \in MapOf(K, Range(m)) /\ Range(m) \subseteq V <=> m \in MapOf(K, V)
<1>1. ASSUME m \in MapOf(K, Range(m)), Range(m) \subseteq V
      PROVE  m \in MapOf(K, V)
  <2>1. PICK S \in SUBSET K : m \in [S -> Range(m)]
    BY <1>1 DEF MapOf
  <2>2. m \in [S -> V]
    BY <1>1, <2>1
  <2>. QED  BY <2>2 DEF MapOf
<1>2. ASSUME m \in MapOf(K, V)
      PROVE  m \in MapOf(K, Range(m)) /\ Range(m) \subseteq V
  <2>1. PICK S \in SUBSET K : m \in [S -> V]
    BY <1>2 DEF MapOf
  <2>2. m \in [S -> Range(m)] /\ Range(m) \subseteq V
    BY <2>1 DEF Range
  <2>. QED  BY <2>2 DEF MapOf
<1>. QED  BY <1>1, <1>2

LEMMA TypedParts == FilesNumbered /\ PagesKept => (TypeOK <=> Typed)
<1>. SUFFICES ASSUME FilesNumbered, PagesKept
              PROVE  TypeOK <=> Typed
  OBVIOUS
<1>1. /\ tables \in MapOf(Names, Range(tables)) /\ Range(tables) \subseteq Infos
         <=> tables \in MapOf(Names, Infos)
      /\ tables_ids_map \in MapOf(1 .. MaxTables, Range(tables_ids_map))
         /\ Range(tables_ids_map) \subseteq Infos
         <=> tables_ids_map \in MapOf(1 .. MaxTables, Infos)
  BY MapIntoRange
<1>2. IsFile(catalog) /\ IsFile(db)
  BY DEF FilesNumbered, Numbered
<1>3. Range(db.view) \cup Range(db.stored) \subseteq Images
      <=> \A h \in DOMAIN db.view : db.view[h] \in Images /\ db.stored[h] \in Images
  BY <1>2 DEF Range, IsFile
<1>4. (\A p \in DOMAIN catalog.view \ {1} :
         {catalog.view[p], catalog.stored[p]} \subseteq Infos \cup {FreshPage})
      <=> \A p \in Pages : catalog.stored[p] \in Infos \cup {FreshPage}
  BY DEF PagesKept, Pages
<1>. QED  BY <1>1, <1>2, <1>3, <1>4 DEF TypeOK, Typed, Images

(* The pages of tables are all but the first.                              *)
LEMMA InfoPages ==
  ASSUME NEW c, NEW p \in DOMAIN c.view
  PROVE  /\ c.view[p] \in Infos => IsInfo(c.view[p])
         /\ c.view[p] \in Headers => ~IsInfo(c.view[p])
BY DEF Infos, Headers, IsInfo

LEMMA PagesOfTables == PagesKept => TableInfoPages = Pages
<1>. SUFFICES ASSUME PagesKept
              PROVE  TableInfoPages = Pages
  OBVIOUS
<1>1. \A p \in Pages : IsInfo(catalog.view[p])
  BY InfoPages DEF PagesKept, Pages
<1>2. 1 \in DOMAIN catalog.view => ~IsInfo(catalog.view[1])
  BY InfoPages DEF PagesKept
<1>. QED  BY <1>1, <1>2 DEF TableInfoPages, Pages

(* What load_catalog makes of the pages it counts.                         *)
LEMMA LastByField ==
  ASSUME PagesKept, FilesNumbered, CatalogLoads, NEW field
  PROVE  /\ TablePages \subseteq Pages /\ IsFiniteSet(TablePages)
         /\ DOMAIN LastBy(field) = {catalog.view[p][field] : p \in TablePages}
         /\ IsFiniteSet(DOMAIN LastBy(field))
         /\ \A k \in DOMAIN LastBy(field) :
              \E p \in TablePages : /\ catalog.view[p][field] = k
                                    /\ LastBy(field)[k] = catalog.view[p]
<1>. DEFINE count == catalog.view[1].num_of_tables
<1>1. count \in Nat /\ TablePages = 2 .. count + 1
  BY DEF CatalogLoads, PagesKept, Headers, TablePages, pagesCounted
<1>2. TablePages \subseteq Pages
  BY <1>1 DEF CatalogLoads, Pages
<1>3. IsFiniteSet(TablePages) /\ TablePages \subseteq Nat /\ \A p \in TablePages : p <= count + 1
  BY <1>1, FS_Interval
<1>4. DOMAIN LastBy(field) = {catalog.view[p][field] : p \in TablePages}
  BY DEF LastBy
<1>5. IsFiniteSet({catalog.view[p][field] : p \in TablePages})
  <2>. DEFINE K == {catalog.view[p][field] : p \in TablePages}
              f == [p \in TablePages |-> catalog.view[p][field]]
  <2>1. f \in Surjection(TablePages, K)
    BY DEF Surjection
  <2>. QED  BY <1>3, <2>1, FS_Surjection
<1>6. ASSUME NEW k \in DOMAIN LastBy(field)
      PROVE  \E p \in TablePages : /\ catalog.view[p][field] = k
                                   /\ LastBy(field)[k] = catalog.view[p]
  <2>. DEFINE S == {p \in TablePages : catalog.view[p][field] = k}
  <2>1. S # {} /\ S \in SUBSET Nat /\ \A p \in S : p <= count + 1
    BY <1>3, <1>4, <1>6
  <2>2. \E x \in S : \A y \in S : x >= y
    <3>. HIDE DEF S, count
    <3>1. count + 1 \in Nat
      BY <1>1
    <3>. QED  BY <2>1, <3>1, GreatestNumber
  <2>3. Max(S) \in S
    BY <2>2 DEF Max
  <2>4. LastBy(field)[k] = catalog.view[Max(S)]
    BY <1>4, <1>6 DEF LastBy
  <2>. QED  BY <2>3, <2>4
<1>. QED  BY <1>2, <1>3, <1>4, <1>5, <1>6

(* ... by name, and by id.                                                 *)
LEMMA LastByName ==
  ASSUME PagesKept, FilesNumbered, CatalogLoads
  PROVE  /\ TablePages \subseteq Pages /\ IsFiniteSet(DOMAIN LastBy("name"))
         /\ DOMAIN LastBy("name") = {catalog.view[p].name : p \in TablePages}
         /\ \A k \in DOMAIN LastBy("name") :
              \E p \in TablePages : /\ catalog.view[p].name = k
                                    /\ LastBy("name")[k] = catalog.view[p]
BY LastByField, Zenon

LEMMA LastById ==
  ASSUME PagesKept, FilesNumbered, CatalogLoads
  PROVE  /\ DOMAIN LastBy("table_id") = {catalog.view[p].table_id : p \in TablePages}
         /\ \A k \in DOMAIN LastBy("table_id") :
              \E p \in TablePages : /\ catalog.view[p].table_id = k
                                    /\ LastBy("table_id")[k] = catalog.view[p]
BY LastByField, Zenon

(* The invariant after a step, from its parts.                             *)
LEMMA Assembled ==
  /\ Typed' /\ FilesNumbered' /\ TablesFinite' /\ HeapsKept'
  /\ PagesKept' /\ IdsKept' /\ TablesRecorded'
  /\ ("drop" \notin happened)' => ClosedAreKnown' /\ ClosedWhole' /\ TablesArePages'
  => IInv'
<1>1. (FilesNumbered /\ PagesKept => (TypeOK <=> Typed))'
  BY TypedParts, PTL
<1>. QED  BY <1>1 DEF IInv

---------------------------------------------------------------------------
(* What the statements do to the files.                                    *)

(* The page of a new table.                                                *)
LEMMA AddedFile ==
  ASSUME NEW c, Numbered(c), NEW info
  PROVE  LET n == NewPageId(c)
             u == added(c, info)
         IN  /\ Numbered(u)
             /\ n \in Nat \ {0} /\ n \notin DOMAIN c.view
             /\ n = 1 <=> DOMAIN c.view = {}
             /\ DOMAIN u.view = DOMAIN c.view \cup {n}
             /\ u.view[n] = info /\ u.stored[n] = FreshPage
             /\ \A p \in DOMAIN c.view : u.view[p] = c.view[p] /\ u.stored[p] = c.stored[p]
             /\ u.marked = c.marked \cup {n} /\ u.known = c.known
<1>. DEFINE n == NewPageId(c)
            e == Extended(c, FreshPage)
            w == Written(e, n, info)
            u == Marked(w, n)
<1>1. /\ Numbered(e)
      /\ n \in Nat \ {0} /\ n \notin DOMAIN c.view
      /\ n = 1 <=> DOMAIN c.view = {}
      /\ DOMAIN e.view = DOMAIN c.view \cup {n}
      /\ e.stored[n] = FreshPage
      /\ \A p \in DOMAIN c.view : e.view[p] = c.view[p] /\ e.stored[p] = c.stored[p]
      /\ e.marked = c.marked /\ e.known = c.known
  BY ExtendedFile
<1>. HIDE DEF e, n
<1>2. /\ Numbered(w) /\ DOMAIN w.view = DOMAIN e.view /\ w.view[n] = info
      /\ \A q \in DOMAIN e.view : q # n => w.view[q] = e.view[q]
      /\ w.stored = e.stored /\ w.marked = e.marked /\ w.known = e.known
  BY <1>1, WrittenFile
<1>. HIDE DEF w
<1>3. /\ Numbered(u) /\ u.view = w.view /\ u.stored = w.stored
      /\ u.marked = w.marked \cup {n} /\ u.known = w.known
  BY <1>1, <1>2, MarkedFile
<1>4. u = added(c, info)
  BY DEF added, w, e, n
<1>. HIDE DEF u
<1>. QED  BY <1>1, <1>2, <1>3, <1>4 DEF n

(* The metadata page of a new heap.                                        *)
LEMMA HeapFile ==
  ASSUME NEW d, Numbered(d)
  PROVE  LET n == NewPageId(d)
             u == withHeap(d)
         IN  /\ Numbered(u)
             /\ n \in Nat \ {0} /\ n \notin DOMAIN d.view
             /\ DOMAIN u.view = DOMAIN d.view \cup {n}
             /\ u.view[n] = "linked" /\ u.stored[n] = "fresh"
             /\ \A p \in DOMAIN d.view : u.view[p] = d.view[p] /\ u.stored[p] = d.stored[p]
             /\ u.known = d.known
<1>. DEFINE n == NewPageId(d)
            e == Extended(d, "fresh")
            w == Written(e, n, "linked")
            u == Marked(w, n)
<1>1. /\ Numbered(e)
      /\ n \in Nat \ {0} /\ n \notin DOMAIN d.view
      /\ DOMAIN e.view = DOMAIN d.view \cup {n}
      /\ e.stored[n] = "fresh"
      /\ \A p \in DOMAIN d.view : e.view[p] = d.view[p] /\ e.stored[p] = d.stored[p]
      /\ e.known = d.known
  BY ExtendedFile
<1>. HIDE DEF e, n
<1>2. /\ Numbered(w) /\ DOMAIN w.view = DOMAIN e.view /\ w.view[n] = "linked"
      /\ \A q \in DOMAIN e.view : q # n => w.view[q] = e.view[q]
      /\ w.stored = e.stored /\ w.known = e.known
  BY <1>1, WrittenFile
<1>. HIDE DEF w
<1>3. Numbered(u) /\ u.view = w.view /\ u.stored = w.stored /\ u.known = w.known
  BY <1>1, <1>2, MarkedFile
<1>4. u = withHeap(d)
  BY DEF withHeap, w, e, n
<1>. HIDE DEF u
<1>. QED  BY <1>1, <1>2, <1>3, <1>4 DEF n

(* The header.                                                             *)
LEMMA SavedFile ==
  ASSUME NEW c, Numbered(c), 1 \in DOMAIN c.view, NEW next, NEW count
  PROVE  LET u == saved(c, next, count)
         IN  /\ Numbered(u)
             /\ DOMAIN u.view = DOMAIN c.view /\ u.view[1] = Header(next, count)
             /\ \A p \in DOMAIN c.view \ {1} : u.view[p] = c.view[p]
             /\ u.stored = c.stored /\ u.marked = c.marked \cup {1} /\ u.known = c.known
<1>. DEFINE w == Written(c, 1, Header(next, count))
            u == Marked(w, 1)
<1>1. /\ Numbered(w) /\ DOMAIN w.view = DOMAIN c.view /\ w.view[1] = Header(next, count)
      /\ \A q \in DOMAIN c.view : q # 1 => w.view[q] = c.view[q]
      /\ w.stored = c.stored /\ w.marked = c.marked /\ w.known = c.known
  BY WrittenFile
<1>. HIDE DEF w
<1>2. /\ Numbered(u) /\ u.view = w.view /\ u.stored = w.stored
      /\ u.marked = w.marked \cup {1} /\ u.known = w.known
  BY <1>1, MarkedFile
<1>3. u = saved(c, next, count)
  BY DEF saved, w
<1>. HIDE DEF u
<1>. QED  BY <1>1, <1>2, <1>3

(* The metadata the destructors of the heaps save.                         *)
LEMMA MetaDataFile ==
  ASSUME NEW d, Numbered(d), NEW heaps, heaps \subseteq DOMAIN d.view
  PROVE  LET u == withMetaData(d, heaps)
         IN  /\ Numbered(u)
             /\ DOMAIN u.view = DOMAIN d.view
             /\ \A h \in DOMAIN d.view :
                  u.view[h] = IF h \in heaps THEN "saved" ELSE d.view[h]
             /\ u.stored = d.stored /\ u.marked = d.marked \cup heaps /\ u.known = d.known
<1>. DEFINE u == withMetaData(d, heaps)
<1>1. /\ DOMAIN d = {"view", "stored", "marked", "known"}
      /\ DOMAIN d.stored = DOMAIN d.view /\ d.marked \subseteq DOMAIN d.view
  BY FileFields
<1>2. /\ DOMAIN u = {"view", "stored", "marked", "known"}
      /\ u.view = [h \in DOMAIN d.view |-> IF h \in heaps THEN "saved" ELSE d.view[h]]
      /\ u.stored = d.stored /\ u.marked = d.marked \cup heaps /\ u.known = d.known
  BY <1>1 DEF withMetaData
<1>. HIDE DEF u
<1>3. Numbered(u)
  BY <1>1, <1>2, SamePages
<1>. QED  BY <1>2, <1>3 DEF u

---------------------------------------------------------------------------
(* The steps.                                                              *)

(* The invariant before a step, in parts.                                  *)
LEMMA Parts ==
  ASSUME IInv
  PROVE  /\ Typed /\ Numbered(catalog) /\ Numbered(db) /\ TablesFinite /\ HeapsKept
         /\ PagesKept /\ IdsKept
         /\ DOMAIN catalog.stored = DOMAIN catalog.view /\ DOMAIN db.stored = DOMAIN db.view
         /\ catalog.known \subseteq DOMAIN catalog.view
         /\ catalog.marked \subseteq DOMAIN catalog.view
         /\ db.marked \subseteq DOMAIN db.view
         /\ status = "open" => \A name \in DOMAIN tables :
              \E p \in Pages : Bare(tables[name]) = catalog.view[p]
<1>1. /\ TypeOK /\ FilesNumbered /\ TablesFinite /\ HeapsKept
      /\ PagesKept /\ IdsKept /\ TablesRecorded
  BY DEF IInv
<1>2. Typed
  BY <1>1, TypedParts
<1>3. TableInfoPages = Pages
  BY <1>1, PagesOfTables
<1>. QED  BY <1>1, <1>2, <1>3, FileFields DEF FilesNumbered, TablesRecorded, Bare

(* What the pages of tables are, of which the statements make use.         *)
LEMMA Recorded ==
  PagesKept' /\ (status' = "open" => \A name \in DOMAIN tables' :
     \E p \in Pages' : [tables'[name] EXCEPT !.indexes = {}] = catalog'.view[p])
  => TablesRecorded'
<1>1. (PagesKept => TableInfoPages = Pages)'
  BY PagesOfTables, PTL
<1>. QED  BY <1>1 DEF TablesRecorded

(* While the directory knows the same pages, they are the same tables.     *)
LEMMA KnownKept ==
  ASSUME ClosedAreKnown, catalog'.known = catalog.known, closed' = closed,
         \A p \in catalog.known : p # 1 => catalog'.view[p] = catalog.view[p],
         \A p \in catalog.known : 1 \in catalog.known =>
            /\ p <= catalog'.view[1].num_of_tables + 1
            /\ p <= catalog'.stored[1].num_of_tables + 1,
         \A p, q \in Pages' : p # q =>
            /\ catalog'.view[p].name # catalog'.view[q].name
            /\ catalog'.view[p].first_page_id # catalog'.view[q].first_page_id
  PROVE  ClosedAreKnown'
<1>1. {catalog'.view[p].name : p \in catalog'.known \ {1}}
        = {catalog.view[p].name : p \in catalog.known \ {1}}
  OBVIOUS
<1>. QED  BY <1>1 DEF ClosedAreKnown

LEMMA CreatePreserves ==
  ASSUME IInv, NEW name \in Names, CreateTable(name)
  PROVE  IInv'
<1>. DEFINE n == NewPageId(catalog)
            h == NewPageId(db)
            id == next_table_id + 1
            info == Info(name, id, h)
<1>1. /\ Typed /\ Numbered(catalog) /\ Numbered(db) /\ TablesFinite /\ HeapsKept
      /\ PagesKept /\ IdsKept
      /\ DOMAIN catalog.stored = DOMAIN catalog.view /\ DOMAIN db.stored = DOMAIN db.view
      /\ catalog.known \subseteq DOMAIN catalog.view
      /\ status = "open" => \A x \in DOMAIN tables :
           \E p \in Pages : Bare(tables[x]) = catalog.view[p]
  BY Parts
<1>2. /\ status = "open" /\ next_table_id < MaxTables /\ name \notin DOMAIN tables
      /\ tables' = Put(tables, name, info)
      /\ tables_ids_map' = Emplaced(tables_ids_map, info.table_id, info)
      /\ next_table_id' = info.table_id
      /\ catalog' = added(catalog, info) /\ db' = withHeap(db)
      /\ status' = status /\ closed' = closed /\ whole' = whole /\ happened' = happened
  BY DEF CreateTable, NameIsNew, Emplaced, history
<1>3. /\ Numbered(catalog')
      /\ n \in Nat \ {0} /\ n \notin DOMAIN catalog.view
      /\ n = 1 <=> DOMAIN catalog.view = {}
      /\ DOMAIN catalog'.view = DOMAIN catalog.view \cup {n}
      /\ catalog'.view[n] = info /\ catalog'.stored[n] = FreshPage
      /\ \A p \in DOMAIN catalog.view : /\ catalog'.view[p] = catalog.view[p]
                                       /\ catalog'.stored[p] = catalog.stored[p]
      /\ catalog'.marked = catalog.marked \cup {n} /\ catalog'.known = catalog.known
  <2>. HIDE DEF n, info
  <2>. QED  BY <1>1, <1>2, AddedFile DEF n
<1>4. /\ Numbered(db')
      /\ h \in Nat \ {0} /\ h \notin DOMAIN db.view
      /\ DOMAIN db'.view = DOMAIN db.view \cup {h}
      /\ db'.view[h] = "linked" /\ db'.stored[h] = "fresh"
      /\ \A p \in DOMAIN db.view : /\ db'.view[p] = db.view[p]
                                  /\ db'.stored[p] = db.stored[p]
  <2>. HIDE DEF h
  <2>. QED  BY <1>1, <1>2, HeapFile DEF h
<1>. HIDE DEF n, h
<1>5. /\ info \in Infos /\ info.indexes = {} /\ info.name = name /\ info.table_id = id
      /\ info.first_page_id = h /\ [info EXCEPT !.indexes = {}] = info
      /\ id \in 1 .. MaxTables
  <2>1. id \in 1 .. MaxTables
    BY <1>1, <1>2, MaxTablesAssumption DEF Typed
  <2>2. info = [name |-> name, table_id |-> id, first_page_id |-> h, indexes |-> {}]
    BY DEF Info
  <2>3. info \in Infos
    BY <1>4, <2>1, <2>2 DEF Infos
  <2>4. [info EXCEPT !.indexes = {}] = info
    BY <2>2
  <2>. HIDE DEF info, id
  <2>. QED  BY <2>1, <2>2, <2>3, <2>4
<1>. HIDE DEF info
<1>6. /\ 1 \in DOMAIN catalog.view /\ n # 1 /\ Pages' = Pages \cup {n} /\ n \notin Pages
      /\ \A p \in Pages : catalog'.view[p] = catalog.view[p]
      /\ catalog'.view[1] = catalog.view[1] /\ catalog'.stored[1] = catalog.stored[1]
  <2>1. 1 \in DOMAIN catalog.view
    BY <1>1, <1>2 DEF PagesKept
  <2>. QED  BY <1>3, <2>1 DEF Pages
<1>7. /\ DOMAIN tables' = DOMAIN tables \cup {name} /\ tables'[name] = info
      /\ \A x \in DOMAIN tables : tables'[x] = tables[x]
      /\ tables' \in MapOf(Names, Infos)
  <2>1. tables \in MapOf(Names, Infos)
    BY <1>1 DEF Typed
  <2>. QED  BY <1>2, <1>5, <2>1, PutType DEF Put
<1>8. /\ tables_ids_map' \in MapOf(1 .. MaxTables, Infos)
      /\ \A i \in DOMAIN tables_ids_map' :
           \/ tables_ids_map'[i] = info
           \/ i \in DOMAIN tables_ids_map /\ tables_ids_map'[i] = tables_ids_map[i]
  <2>1. tables_ids_map \in MapOf(1 .. MaxTables, Infos)
    BY <1>1 DEF Typed
  <2>2. Put(tables_ids_map, id, info) \in MapOf(1 .. MaxTables, Infos)
    BY <1>5, <2>1, PutType
  <2>. QED  BY <1>2, <1>5, <2>1, <2>2 DEF Emplaced, Put
<1>9. Typed'
  <2>1. \A x \in DOMAIN db'.view : db'.view[x] \in Images /\ db'.stored[x] \in Images
    BY <1>1, <1>4 DEF Typed, Images
  <2>2. \A p \in Pages' : catalog'.stored[p] \in Infos \cup {FreshPage}
    BY <1>1, <1>3, <1>6 DEF Typed, Pages
  <2>3. next_table_id' \in 0 .. MaxTables
    BY <1>2, <1>5
  <2>. QED  BY <1>1, <1>2, <1>7, <1>8, <2>1, <2>2, <2>3 DEF Typed
<1>10. FilesNumbered' /\ TablesFinite' /\ HeapsKept'
  <2>1. FilesNumbered'
    BY <1>3, <1>4 DEF FilesNumbered
  <2>2. TablesFinite'
    BY <1>1, <1>7, FS_AddElement DEF TablesFinite
  <2>3. HeapsKept'
    BY <1>1, <1>2, <1>4, <1>5, <1>8 DEF HeapsKept
  <2>. QED  BY <2>1, <2>2, <2>3
<1>11. PagesKept'
  <2>1. \A p \in Pages' :
          /\ catalog'.view[p] \in Infos /\ catalog'.view[p].indexes = {}
          /\ p \in catalog'.known \/ p \notin catalog'.marked
               => catalog'.stored[p] = catalog'.view[p]
    BY <1>1, <1>3, <1>5, <1>6 DEF PagesKept, Pages
  <2>2. \A p \in DOMAIN catalog'.view \cap {1} :
          /\ catalog'.view[p] \in Headers
          /\ p \in catalog'.known \/ p \notin catalog'.marked => catalog'.stored[p] \in Headers
    BY <1>1, <1>3, <1>6 DEF PagesKept
  <2>. QED  BY <1>3, <1>6, <2>1, <2>2 DEF PagesKept
<1>12. IdsKept'
  <2>1. \A p \in Pages : /\ catalog.view[p].table_id \in Int
                         /\ catalog.view[p].table_id <= next_table_id /\ next_table_id \in Int
    BY <1>1, <1>2 DEF IdsKept, PagesKept, Infos, Typed
  <2>2. \A p \in Pages : catalog'.view[p].table_id <= next_table_id'
                         /\ catalog'.view[p].table_id # id
    BY <1>2, <1>5, <1>6, <2>1
  <2>3. next_table_id' <= next_table_id'
    BY <1>2, <1>5
  <2>. QED  BY <1>1, <1>2, <1>3, <1>5, <1>6, <2>2, <2>3 DEF IdsKept
<1>13. TablesRecorded'
  <2>1. \A x \in DOMAIN tables' :
          \E p \in Pages' : [tables'[x] EXCEPT !.indexes = {}] = catalog'.view[p]
    <3>1. ASSUME NEW x \in DOMAIN tables
          PROVE  \E p \in Pages' : [tables'[x] EXCEPT !.indexes = {}] = catalog'.view[p]
      <4>1. PICK p \in Pages : Bare(tables[x]) = catalog.view[p]
        BY <1>1, <1>2
      <4>. QED  BY <1>6, <1>7, <4>1 DEF Bare
    <3>2. [tables'[name] EXCEPT !.indexes = {}] = catalog'.view[n] /\ n \in Pages'
      BY <1>3, <1>5, <1>6, <1>7
    <3>. QED  BY <1>7, <3>1, <3>2
  <2>. QED  BY <1>11, <2>1, Recorded
<1>14. ASSUME "drop" \notin happened
       PROVE  ClosedAreKnown' /\ ClosedWhole' /\ TablesArePages'
  <2>1. ClosedAreKnown /\ TablesArePages
    BY <1>14 DEF IInv
  <2>2. \A p \in Pages : /\ catalog.view[p].name \in DOMAIN tables
                         /\ catalog.view[p].first_page_id \in DOMAIN db.view
                         /\ catalog.view[p].table_id \in DOMAIN tables_ids_map
    BY <1>2, <2>1 DEF TablesArePages
  <2>3. ClosedAreKnown'
    <3>1. \A p, q \in Pages' : p # q =>
            /\ catalog'.view[p].name # catalog'.view[q].name
            /\ catalog'.view[p].first_page_id # catalog'.view[q].first_page_id
      BY <1>2, <1>3, <1>4, <1>5, <1>6, <2>1, <2>2 DEF ClosedAreKnown
    <3>2. \A p \in catalog.known : catalog'.view[p] = catalog.view[p]
      BY <1>1, <1>3
    <3>3. /\ catalog'.known = catalog.known /\ closed' = closed
          /\ catalog'.view[1] = catalog.view[1] /\ catalog'.stored[1] = catalog.stored[1]
      BY <1>2, <1>3, <1>6
    <3>4. \A p \in catalog.known : 1 \in catalog.known =>
            /\ p <= catalog'.view[1].num_of_tables + 1
            /\ p <= catalog'.stored[1].num_of_tables + 1
      BY <2>1, <3>3 DEF ClosedAreKnown
    <3>. QED  BY <2>1, <3>1, <3>2, <3>3, <3>4, KnownKept
  <2>4. ClosedWhole'
    BY <1>2 DEF ClosedWhole
  <2>5. id \notin DOMAIN tables_ids_map
    <3>1. \A p \in Pages : catalog.view[p].table_id \in Int
                           /\ catalog.view[p].table_id <= next_table_id /\ next_table_id \in Int
      BY <1>1, <1>2 DEF IdsKept, PagesKept, Infos, Typed
    <3>. QED  BY <1>2, <2>1, <3>1 DEF TablesArePages
  <2>6. /\ DOMAIN tables_ids_map' = DOMAIN tables_ids_map \cup {id}
        /\ tables_ids_map'[id] = info
        /\ \A i \in DOMAIN tables_ids_map : tables_ids_map'[i] = tables_ids_map[i]
    BY <1>2, <1>5, <2>5 DEF Emplaced, Put
  <2>7. TablesArePages'
    <3>1. DOMAIN tables' = {catalog'.view[p].name : p \in Pages'}
      <4>1. DOMAIN tables = {catalog.view[p].name : p \in Pages}
        BY <1>2, <2>1 DEF TablesArePages
      <4>2. {catalog'.view[p].name : p \in Pages \cup {n}}
              = {catalog.view[p].name : p \in Pages} \cup {name}
        BY <1>3, <1>5, <1>6
      <4>. QED  BY <1>6, <1>7, <4>1, <4>2
    <3>2. DOMAIN tables_ids_map' = {catalog'.view[p].table_id : p \in Pages'}
      <4>1. DOMAIN tables_ids_map = {catalog.view[p].table_id : p \in Pages}
        BY <1>2, <2>1 DEF TablesArePages
      <4>2. {catalog'.view[p].table_id : p \in Pages \cup {n}}
              = {catalog.view[p].table_id : p \in Pages} \cup {id}
        BY <1>3, <1>5, <1>6
      <4>. QED  BY <1>6, <2>6, <4>1, <4>2
    <3>3. \A p \in Pages' :
            /\ Bare(tables'[catalog'.view[p].name]) = catalog'.view[p]
            /\ tables_ids_map'[catalog'.view[p].table_id] = tables'[catalog'.view[p].name]
            /\ catalog'.view[p].first_page_id \in DOMAIN db'.view
      <4>1. ASSUME NEW p \in Pages
            PROVE  /\ Bare(tables'[catalog'.view[p].name]) = catalog'.view[p]
                   /\ tables_ids_map'[catalog'.view[p].table_id] = tables'[catalog'.view[p].name]
                   /\ catalog'.view[p].first_page_id \in DOMAIN db'.view
        <5>1. /\ Bare(tables[catalog.view[p].name]) = catalog.view[p]
              /\ tables_ids_map[catalog.view[p].table_id] = tables[catalog.view[p].name]
              /\ catalog.view[p].first_page_id \in DOMAIN db.view
          BY <1>2, <2>1 DEF TablesArePages
        <5>. QED  BY <1>4, <1>6, <1>7, <2>2, <2>6, <5>1
      <4>2. /\ Bare(tables'[catalog'.view[n].name]) = catalog'.view[n]
            /\ tables_ids_map'[catalog'.view[n].table_id] = tables'[catalog'.view[n].name]
            /\ catalog'.view[n].first_page_id \in DOMAIN db'.view
        BY <1>3, <1>4, <1>5, <1>7, <2>6 DEF Bare
      <4>. QED  BY <1>6, <4>1, <4>2
    <3>. QED  BY <3>1, <3>2, <3>3 DEF TablesArePages
  <2>. QED  BY <2>3, <2>4, <2>7
<1>. QED  BY <1>2, <1>9, <1>10, <1>11, <1>12, <1>13, <1>14, Assembled

(* A step that leaves the catalog's file, its objects and the history of   *)
(* the closes alone, and keeps the pages of the database's file.           *)
LEMMA CatalogKept ==
  ASSUME IInv, catalog' = catalog, status' = status, tables' = tables,
         tables_ids_map' = tables_ids_map, next_table_id' \in next_table_id .. MaxTables,
         closed' = closed, whole' = whole, happened' = happened,
         Numbered(db'), DOMAIN db.view \subseteq DOMAIN db'.view,
         \A h \in DOMAIN db'.view : db'.view[h] \in Images /\ db'.stored[h] \in Images,
         status # "open" => db' = db
  PROVE  IInv'
<1>1. /\ Typed /\ Numbered(catalog) /\ Numbered(db) /\ TablesFinite /\ HeapsKept
      /\ PagesKept /\ IdsKept
      /\ DOMAIN catalog.stored = DOMAIN catalog.view /\ DOMAIN db.stored = DOMAIN db.view
      /\ catalog.known \subseteq DOMAIN catalog.view
      /\ catalog.marked \subseteq DOMAIN catalog.view
      /\ db.marked \subseteq DOMAIN db.view
      /\ status = "open" => \A x \in DOMAIN tables :
           \E p \in Pages : Bare(tables[x]) = catalog.view[p]
  BY Parts
<1>2. Pages' = Pages
  BY DEF Pages
<1>3. Typed'
  <2>1. next_table_id' \in 0 .. MaxTables
    BY <1>1, MaxTablesAssumption DEF Typed
  <2>. QED  BY <1>1, <1>2, <2>1 DEF Typed
<1>4. FilesNumbered' /\ TablesFinite' /\ HeapsKept'
  BY <1>1 DEF FilesNumbered, TablesFinite, HeapsKept
<1>5. PagesKept'
  BY <1>1, <1>2 DEF PagesKept
<1>6. IdsKept'
  <2>1. \A p \in Pages : status = "open" =>
          catalog.view[p].table_id <= next_table_id'
    BY <1>1 DEF IdsKept, PagesKept, Infos, Typed
  <2>. QED  BY <1>1, <1>2, <2>1 DEF IdsKept
<1>7. TablesRecorded'
  <2>1. status' = "open" => \A x \in DOMAIN tables' :
          \E p \in Pages' : [tables'[x] EXCEPT !.indexes = {}] = catalog'.view[p]
    BY <1>1, <1>2 DEF Bare
  <2>. QED  BY <1>5, <2>1, Recorded
<1>8. ASSUME "drop" \notin happened
      PROVE  ClosedAreKnown' /\ ClosedWhole' /\ TablesArePages'
  <2>1. ClosedAreKnown /\ ClosedWhole /\ TablesArePages
    BY <1>8 DEF IInv
  <2>2. ClosedAreKnown'
    BY <1>2, <2>1 DEF ClosedAreKnown
  <2>3. ClosedWhole'
    BY <1>2, <2>1 DEF ClosedWhole, HeapsSaved
  <2>4. TablesArePages'
    BY <1>2, <2>1 DEF TablesArePages
  <2>. QED  BY <2>2, <2>3, <2>4
<1>. QED  BY <1>3, <1>4, <1>5, <1>6, <1>7, <1>8, Assembled

LEMMA CreateFailsPreserves ==
  ASSUME IInv, CreateFails
  PROVE  IInv'
<1>. DEFINE h == NewPageId(db)
<1>1. Typed /\ Numbered(db)
  BY Parts
<1>2. /\ status = "open" /\ next_table_id < MaxTables /\ next_table_id' = next_table_id + 1
      /\ db' = withHeap(db)
      /\ status' = status /\ tables' = tables /\ tables_ids_map' = tables_ids_map
      /\ catalog' = catalog /\ closed' = closed /\ whole' = whole /\ happened' = happened
  BY DEF CreateFails, history
<1>3. /\ Numbered(db')
      /\ DOMAIN db'.view = DOMAIN db.view \cup {h}
      /\ db'.view[h] = "linked" /\ db'.stored[h] = "fresh"
      /\ \A p \in DOMAIN db.view : /\ db'.view[p] = db.view[p]
                                  /\ db'.stored[p] = db.stored[p]
  BY <1>1, <1>2, HeapFile
<1>. HIDE DEF h
<1>4. \A x \in DOMAIN db'.view : db'.view[x] \in Images /\ db'.stored[x] \in Images
  BY <1>1, <1>3 DEF Typed, Images
<1>5. next_table_id' \in next_table_id .. MaxTables
  BY <1>1, <1>2, MaxTablesAssumption DEF Typed
<1>. QED  BY <1>2, <1>3, <1>4, <1>5, CatalogKept

(* Evicting pages of the database's file.                                  *)
LEMMA EvictedImages ==
  ASSUME Typed, Numbered(db), NEW E
  PROVE  LET u == Evicted(db, E)
         IN  /\ Numbered(u) /\ DOMAIN u.view = DOMAIN db.view
             /\ \A h \in DOMAIN u.view : u.view[h] \in Images /\ u.stored[h] \in Images
<1>. DEFINE u == Evicted(db, E)
<1>1. /\ Numbered(u)
      /\ DOMAIN u.view = DOMAIN db.view
      /\ \A p \in DOMAIN db.view :
           /\ u.view[p] = IF p \in E \ db.marked THEN db.stored[p] ELSE db.view[p]
           /\ u.stored[p] = IF p \in E \cap db.marked THEN db.view[p] ELSE db.stored[p]
  BY EvictedFile
<1>. HIDE DEF u
<1>2. \A h \in DOMAIN db.view : db.view[h] \in Images /\ db.stored[h] \in Images
  BY DEF Typed
<1>. QED  BY <1>1, <1>2 DEF u

LEMMA EvictDBPreserves ==
  ASSUME IInv, NEW h, EvictDB(h)
  PROVE  IInv'
<1>1. Typed /\ Numbered(db) /\ next_table_id \in 0 .. MaxTables
  BY Parts DEF Typed
<1>2. /\ status = "open" /\ db' = Evicted(db, {h})
      /\ status' = status /\ tables' = tables /\ tables_ids_map' = tables_ids_map
      /\ next_table_id' = next_table_id
      /\ catalog' = catalog /\ closed' = closed /\ whole' = whole /\ happened' = happened
  BY DEF EvictDB, history, objects
<1>3. /\ Numbered(db') /\ DOMAIN db'.view = DOMAIN db.view
      /\ \A x \in DOMAIN db'.view : db'.view[x] \in Images /\ db'.stored[x] \in Images
  BY <1>1, <1>2, EvictedImages
<1>4. next_table_id' \in next_table_id .. MaxTables
  BY <1>1, <1>2, MaxTablesAssumption
<1>. QED  BY <1>2, <1>3, <1>4, CatalogKept

LEMMA UnchangedPreserves ==
  ASSUME IInv, UNCHANGED vars
  PROVE  IInv'
<1>1. Typed /\ Numbered(db) /\ next_table_id \in 0 .. MaxTables
  BY Parts DEF Typed
<1>2. /\ status' = status /\ tables' = tables /\ tables_ids_map' = tables_ids_map
      /\ next_table_id' = next_table_id /\ db' = db
      /\ catalog' = catalog /\ closed' = closed /\ whole' = whole /\ happened' = happened
  BY DEF vars, objects, history
<1>3. next_table_id' \in next_table_id .. MaxTables
  BY <1>1, <1>2, MaxTablesAssumption
<1>4. \A x \in DOMAIN db'.view : db'.view[x] \in Images /\ db'.stored[x] \in Images
  BY <1>1, <1>2 DEF Typed
<1>. QED  BY <1>1, <1>2, <1>3, <1>4, CatalogKept

(* A table leaving the maps.                                               *)
LEMMA NameLeaves ==
  ASSUME NEW m \in MapOf(Names, Infos), NEW k \in Names
  PROVE  /\ Erase(m, k) \in MapOf(Names, Infos)
         /\ DOMAIN Erase(m, k) = DOMAIN m \ {k}
         /\ \A x \in DOMAIN m : x # k => Erase(m, k)[x] = m[x]
BY EraseType

LEMMA IdLeaves ==
  ASSUME NEW m \in MapOf(1 .. MaxTables, Infos), NEW k \in 1 .. MaxTables
  PROVE  /\ Erase(m, k) \in MapOf(1 .. MaxTables, Infos)
         /\ DOMAIN Erase(m, k) = DOMAIN m \ {k}
         /\ \A x \in DOMAIN m : x # k => Erase(m, k)[x] = m[x]
<1>1. DOMAIN m \subseteq 1 .. MaxTables /\ \A x \in DOMAIN m : m[x] \in Infos
  BY DEF MapOf
<1>2. Erase(m, k) \in [DOMAIN m \ {k} -> Infos]
  BY <1>1 DEF Erase, Restrict
<1>3. DOMAIN m \ {k} \in SUBSET (1 .. MaxTables)
  BY <1>1
<1>. QED  BY <1>2, <1>3 DEF MapOf, Erase, Restrict

LEMMA DropPreserves ==
  ASSUME IInv, NEW name \in Names, DropTable(name)
  PROVE  IInv'
<1>1. /\ Typed /\ Numbered(catalog) /\ Numbered(db) /\ TablesFinite /\ HeapsKept
      /\ PagesKept /\ IdsKept
      /\ DOMAIN catalog.stored = DOMAIN catalog.view /\ DOMAIN db.stored = DOMAIN db.view
      /\ catalog.known \subseteq DOMAIN catalog.view
      /\ catalog.marked \subseteq DOMAIN catalog.view
      /\ db.marked \subseteq DOMAIN db.view
      /\ status = "open" => \A x \in DOMAIN tables :
           \E p \in Pages : Bare(tables[x]) = catalog.view[p]
  BY Parts
<1>2. /\ status = "open" /\ status' = status /\ "drop" \in happened'
      /\ name \in DOMAIN tables /\ tables' = Erase(tables, name)
      /\ tables_ids_map' = Erase(tables_ids_map, tables[name].table_id)
      /\ db' = Evicted(db, {tables[name].first_page_id})
      /\ next_table_id' = next_table_id /\ catalog' = catalog
      /\ happened' = happened \cup {"drop"}
  BY DEF DropTable
<1>3. /\ Numbered(db') /\ DOMAIN db'.view = DOMAIN db.view
      /\ \A x \in DOMAIN db'.view : db'.view[x] \in Images /\ db'.stored[x] \in Images
  BY <1>1, <1>2, EvictedImages
<1>4. Pages' = Pages
  BY <1>2 DEF Pages
<1>5. /\ tables \in MapOf(Names, Infos) /\ tables_ids_map \in MapOf(1 .. MaxTables, Infos)
      /\ tables[name] \in Infos
  BY <1>1, <1>2 DEF Typed, MapOf
<1>6. /\ tables' \in MapOf(Names, Infos) /\ DOMAIN tables' = DOMAIN tables \ {name}
      /\ \A x \in DOMAIN tables' : tables'[x] = tables[x]
  <2>. DEFINE m == Erase(tables, name)
  <2>1. /\ m \in MapOf(Names, Infos) /\ DOMAIN m = DOMAIN tables \ {name}
        /\ \A x \in DOMAIN tables : x # name => m[x] = tables[x]
    BY <1>5, NameLeaves
  <2>2. tables' = m
    BY <1>2
  <2>. HIDE DEF m
  <2>. QED  BY <2>1, <2>2
<1>7. /\ tables_ids_map' \in MapOf(1 .. MaxTables, Infos)
      /\ DOMAIN tables_ids_map' \subseteq DOMAIN tables_ids_map
      /\ \A i \in DOMAIN tables_ids_map' : tables_ids_map'[i] = tables_ids_map[i]
  <2>. DEFINE id == tables[name].table_id
  <2>1. id \in 1 .. MaxTables /\ tables_ids_map' = Erase(tables_ids_map, id)
    BY <1>2, <1>5 DEF Infos
  <2>. DEFINE m == Erase(tables_ids_map, id)
  <2>2. /\ m \in MapOf(1 .. MaxTables, Infos) /\ DOMAIN m = DOMAIN tables_ids_map \ {id}
        /\ \A i \in DOMAIN tables_ids_map : i # id => m[i] = tables_ids_map[i]
    <3>. HIDE DEF id
    <3>. QED  BY <1>5, <2>1, IdLeaves
  <2>. HIDE DEF id, m
  <2>. QED  BY <2>1, <2>2 DEF m
<1>8. Typed'
  BY <1>1, <1>2, <1>3, <1>4, <1>6, <1>7 DEF Typed
<1>9. FilesNumbered' /\ TablesFinite' /\ HeapsKept'
  BY <1>1, <1>2, <1>3, <1>6, <1>7, FS_RemoveElement DEF FilesNumbered, TablesFinite, HeapsKept
<1>10. PagesKept' /\ IdsKept'
  BY <1>1, <1>2, <1>4 DEF PagesKept, IdsKept
<1>11. TablesRecorded'
  <2>1. \A x \in DOMAIN tables' :
          \E p \in Pages' : [tables'[x] EXCEPT !.indexes = {}] = catalog'.view[p]
    BY <1>1, <1>2, <1>4, <1>6 DEF Bare
  <2>. QED  BY <1>10, <2>1, Recorded
<1>. QED  BY <1>2, <1>8, <1>9, <1>10, <1>11, Assembled

LEMMA EvictCatalogPreserves ==
  ASSUME IInv, NEW e, EvictCatalog(e)
  PROVE  IInv'
<1>1. /\ Typed /\ Numbered(catalog) /\ Numbered(db) /\ TablesFinite /\ HeapsKept
      /\ PagesKept /\ IdsKept
      /\ catalog.known \subseteq DOMAIN catalog.view
      /\ status = "open" => \A x \in DOMAIN tables :
           \E p \in Pages : Bare(tables[x]) = catalog.view[p]
  BY Parts
<1>2. /\ status = "open" /\ catalog' = Evicted(catalog, {e})
      /\ status' = status /\ tables' = tables /\ tables_ids_map' = tables_ids_map
      /\ next_table_id' = next_table_id /\ db' = db
      /\ closed' = closed /\ whole' = whole /\ happened' = happened
  BY DEF EvictCatalog, history, objects
<1>3. /\ Numbered(catalog')
      /\ DOMAIN catalog'.view = DOMAIN catalog.view
      /\ \A p \in DOMAIN catalog.view :
           /\ catalog'.view[p] = IF p \in {e} \ catalog.marked THEN catalog.stored[p]
                                                             ELSE catalog.view[p]
           /\ catalog'.stored[p] = IF p \in {e} \cap catalog.marked THEN catalog.view[p]
                                                                 ELSE catalog.stored[p]
      /\ catalog'.marked = catalog.marked \ {e} /\ catalog'.known = catalog.known
  BY <1>1, <1>2, EvictedFile
<1>4. Pages' = Pages
  BY <1>3 DEF Pages
<1>5. 1 \in DOMAIN catalog.view => /\ catalog'.view[1] \in {catalog.view[1], catalog.stored[1]}
                                  /\ catalog'.stored[1] \in {catalog.view[1], catalog.stored[1]}
  BY <1>3
<1>6. \A p \in Pages : catalog'.view[p] = catalog.view[p]
  BY <1>1, <1>3 DEF PagesKept, Pages
<1>7. Typed'
  <2>1. \A p \in Pages : catalog'.stored[p] \in Infos \cup {FreshPage}
    BY <1>1, <1>3 DEF Typed, PagesKept, Pages
  <2>. QED  BY <1>1, <1>2, <1>4, <2>1 DEF Typed
<1>8. FilesNumbered' /\ TablesFinite' /\ HeapsKept'
  BY <1>1, <1>2, <1>3 DEF FilesNumbered, TablesFinite, HeapsKept
<1>9. PagesKept'
  <2>1. \A p \in Pages : p \in catalog'.known \/ p \notin catalog'.marked
                          => catalog'.stored[p] = catalog'.view[p]
    BY <1>1, <1>3 DEF PagesKept, Pages
  <2>2. 1 \in DOMAIN catalog.view =>
          /\ catalog'.view[1] \in Headers
          /\ 1 \in catalog'.known \/ 1 \notin catalog'.marked => catalog'.stored[1] \in Headers
    BY <1>1, <1>3 DEF PagesKept
  <2>. QED  BY <1>1, <1>2, <1>3, <1>4, <1>6, <2>1, <2>2 DEF PagesKept
<1>10. IdsKept'
  <2>1. 1 \in DOMAIN catalog.view
    BY <1>1, <1>2 DEF PagesKept
  <2>2. \A p \in Pages : p \in catalog.known =>
           /\ catalog.view[p].table_id <= catalog'.view[1].next_table_id
           /\ catalog.view[p].table_id <= catalog'.stored[1].next_table_id
    BY <1>1, <1>5, <2>1 DEF IdsKept
  <2>3. \A p, q \in Pages : p # q => catalog.view[p].table_id # catalog.view[q].table_id
    BY <1>1 DEF IdsKept
  <2>4. \A p \in Pages : catalog.view[p].table_id <= next_table_id
    BY <1>1, <1>2 DEF IdsKept
  <2>5. catalog'.known = catalog.known /\ status' = "open" /\ next_table_id' = next_table_id
    BY <1>2, <1>3
  <2>. QED  BY <1>4, <1>6, <2>2, <2>3, <2>4, <2>5 DEF IdsKept
<1>11. TablesRecorded'
  <2>1. \A x \in DOMAIN tables' :
          \E p \in Pages' : [tables'[x] EXCEPT !.indexes = {}] = catalog'.view[p]
    BY <1>1, <1>2, <1>4, <1>6 DEF Bare
  <2>. QED  BY <1>9, <2>1, Recorded
<1>12. ASSUME "drop" \notin happened
       PROVE  ClosedAreKnown' /\ ClosedWhole' /\ TablesArePages'
  <2>1. ClosedAreKnown /\ TablesArePages
    BY <1>12 DEF IInv
  <2>2. \A p, q \in Pages' : p # q =>
           /\ catalog'.view[p].name # catalog'.view[q].name
           /\ catalog'.view[p].first_page_id # catalog'.view[q].first_page_id
    BY <1>4, <1>6, <2>1 DEF ClosedAreKnown
  <2>3. \A p \in catalog.known : p # 1 => catalog'.view[p] = catalog.view[p]
    BY <1>1, <1>6 DEF Pages
  <2>4. \A p \in catalog.known : 1 \in catalog.known =>
           /\ p <= catalog'.view[1].num_of_tables + 1
           /\ p <= catalog'.stored[1].num_of_tables + 1
    <3>1. \A p \in catalog.known : 1 \in catalog.known =>
             /\ p <= catalog.view[1].num_of_tables + 1
             /\ p <= catalog.stored[1].num_of_tables + 1
      BY <2>1 DEF ClosedAreKnown
    <3>2. \A p \in catalog.known : 1 \in DOMAIN catalog.view
      BY <1>1, <1>2 DEF PagesKept
    <3>. QED  BY <1>5, <3>1, <3>2
  <2>5. ClosedAreKnown'
    BY <1>2, <1>3, <2>1, <2>2, <2>3, <2>4, KnownKept
  <2>6. ClosedWhole'
    BY <1>2 DEF ClosedWhole
  <2>7. TablesArePages'
    <3>1. /\ {catalog'.view[p].name : p \in Pages} = {catalog.view[p].name : p \in Pages}
          /\ {catalog'.view[p].table_id : p \in Pages} = {catalog.view[p].table_id : p \in Pages}
      BY <1>6
    <3>. QED  BY <1>2, <1>4, <1>6, <2>1, <3>1 DEF TablesArePages
  <2>. QED  BY <2>5, <2>6, <2>7
<1>. QED  BY <1>2, <1>7, <1>8, <1>9, <1>10, <1>11, <1>12, Assembled

(* While nothing is dropped the maps hold as many tables as there are pages.*)
LEMMA TablesCounted ==
  ASSUME IInv, "drop" \notin happened, status = "open"
  PROVE  /\ Cardinality(DOMAIN tables) \in Nat
         /\ Cardinality(DOMAIN catalog.view) = Cardinality(DOMAIN tables) + 1
         /\ DOMAIN catalog.view = 1 .. Cardinality(DOMAIN tables) + 1
<1>. DEFINE V == DOMAIN catalog.view
            T == DOMAIN tables
            f == [p \in Pages |-> catalog.view[p].name]
<1>1. /\ Numbered(catalog) /\ PagesKept /\ ClosedAreKnown /\ TablesArePages
      /\ 1 \in V
  BY Parts DEF IInv, PagesKept
<1>2. IsFiniteSet(V) /\ V = 1 .. Cardinality(V)
  BY <1>1 DEF Numbered
<1>3. T = {catalog.view[p].name : p \in Pages}
  BY <1>1 DEF TablesArePages
<1>4. \A p, q \in Pages : p # q => catalog.view[p].name # catalog.view[q].name
  BY <1>1 DEF ClosedAreKnown
<1>5. f \in Bijection(Pages, T)
  <2>1. f \in [Pages -> T] /\ \A x \in T : \E p \in Pages : f[p] = x
    BY <1>3
  <2>. QED  BY <1>4, <2>1 DEF Bijection, Injection, Surjection, IsInjective
<1>6. Pages = V \ {1}
  BY DEF Pages
<1>. HIDE DEF V, T, f
<1>7. IsFiniteSet(Pages) /\ Cardinality(Pages) = Cardinality(V) - 1 /\ Cardinality(V) \in Nat
  <2>. DEFINE R == V \ {1}
  <2>1. IsFiniteSet(R) /\ Cardinality(R) = Cardinality(V) - 1
    BY <1>1, <1>2, FS_RemoveElement DEF V
  <2>. QED  BY <1>2, <1>6, <2>1, FS_CardinalityType
<1>8. IsFiniteSet(T) /\ Cardinality(T) = Cardinality(Pages)
  BY <1>5, <1>7, FS_Bijection DEF ExistsBijection
<1>9. Cardinality(T) \in Nat /\ Cardinality(V) = Cardinality(T) + 1
  BY <1>7, <1>8, FS_CardinalityType
<1>. QED  BY <1>2, <1>9 DEF V, T

(* What the header that save_catalog writes lets a restart count.          *)
LEMMA HeaderCounts ==
  ASSUME IInv, status = "open"
  PROVE  /\ Header(next_table_id, Cardinality(DOMAIN tables)) \in Headers
         /\ "drop" \notin happened =>
              \A p \in DOMAIN catalog.view : p <= Cardinality(DOMAIN tables) + 1
<1>1. IsFiniteSet(DOMAIN tables) /\ next_table_id \in 0 .. MaxTables
  BY Parts DEF TablesFinite, Typed
<1>2. Header(next_table_id, Cardinality(DOMAIN tables)) \in Headers
  BY <1>1, FS_CardinalityType DEF Header, Headers
<1>3. ASSUME "drop" \notin happened
      PROVE  \A p \in DOMAIN catalog.view : p <= Cardinality(DOMAIN tables) + 1
  BY <1>3, TablesCounted
<1>. QED  BY <1>2, <1>3

LEMMA AddIndexPreserves ==
  ASSUME IInv, NEW name \in Names, NEW index \in IndexNames, AddIndex(name, index)
  PROVE  IInv'
<1>. DEFINE old == tables[name]
            new == [old EXCEPT !.indexes = @ \cup {index}]
            count == Cardinality(DOMAIN tables)
<1>1. /\ Typed /\ Numbered(catalog) /\ Numbered(db) /\ TablesFinite /\ HeapsKept
      /\ PagesKept /\ IdsKept
      /\ catalog.known \subseteq DOMAIN catalog.view
      /\ status = "open" => \A x \in DOMAIN tables :
           \E p \in Pages : Bare(tables[x]) = catalog.view[p]
  BY Parts
<1>2. /\ status = "open" /\ name \in DOMAIN tables
      /\ tables' = [tables EXCEPT ![name] = new]
      /\ tables_ids_map' = [id \in DOMAIN tables_ids_map |->
           IF tables_ids_map[id] = old THEN new ELSE tables_ids_map[id]]
      /\ catalog' = saved(catalog, next_table_id, count)
      /\ status' = status /\ next_table_id' = next_table_id /\ db' = db
      /\ closed' = closed /\ whole' = whole /\ happened' = happened
  BY DEF AddIndex, history
<1>3. /\ tables \in [DOMAIN tables -> Infos] /\ DOMAIN tables \in SUBSET Names
      /\ tables_ids_map \in [DOMAIN tables_ids_map -> Infos]
      /\ DOMAIN tables_ids_map \in SUBSET (1 .. MaxTables)
  BY <1>1 DEF Typed, MapOf
<1>4. /\ old \in Infos /\ new \in Infos /\ Bare(new) = Bare(old)
      /\ new.first_page_id = old.first_page_id /\ new.name = old.name
  BY <1>2, <1>3 DEF Infos, Bare
<1>. HIDE DEF old, new
<1>5. /\ tables' \in [DOMAIN tables -> Infos] /\ DOMAIN tables' = DOMAIN tables
      /\ tables'[name] = new
      /\ \A x \in DOMAIN tables : x # name => tables'[x] = tables[x]
      /\ \A x \in DOMAIN tables : Bare(tables'[x]) = Bare(tables[x])
  BY <1>2, <1>3, <1>4 DEF old
<1>6. /\ tables_ids_map' \in [DOMAIN tables_ids_map -> Infos]
      /\ DOMAIN tables_ids_map' = DOMAIN tables_ids_map
      /\ \A id \in DOMAIN tables_ids_map :
           /\ tables_ids_map'[id] = IF tables_ids_map[id] = old THEN new ELSE tables_ids_map[id]
           /\ tables_ids_map'[id].first_page_id = tables_ids_map[id].first_page_id
  BY <1>2, <1>3, <1>4
<1>7. 1 \in DOMAIN catalog.view
  BY <1>1, <1>2 DEF PagesKept
<1>8. /\ Numbered(catalog')
      /\ DOMAIN catalog'.view = DOMAIN catalog.view
      /\ catalog'.view[1] = Header(next_table_id, count)
      /\ \A p \in DOMAIN catalog.view \ {1} : catalog'.view[p] = catalog.view[p]
      /\ catalog'.stored = catalog.stored /\ catalog'.marked = catalog.marked \cup {1}
      /\ catalog'.known = catalog.known
  BY <1>1, <1>2, <1>7, SavedFile
<1>9. Header(next_table_id, count) \in Headers
  BY <1>2, HeaderCounts
<1>10. Pages' = Pages /\ \A p \in Pages : catalog'.view[p] = catalog.view[p]
  BY <1>8 DEF Pages
<1>11. Typed'
  <2>1. tables' \in MapOf(Names, Infos) /\ tables_ids_map' \in MapOf(1 .. MaxTables, Infos)
    BY <1>3, <1>5, <1>6 DEF MapOf
  <2>. QED  BY <1>1, <1>2, <1>8, <1>10, <2>1 DEF Typed
<1>12. FilesNumbered' /\ TablesFinite' /\ HeapsKept'
  BY <1>1, <1>2, <1>5, <1>6, <1>8 DEF FilesNumbered, TablesFinite, HeapsKept
<1>13. PagesKept'
  BY <1>1, <1>7, <1>8, <1>9, <1>10 DEF PagesKept
<1>14. IdsKept'
  <2>1. catalog'.view[1].next_table_id = next_table_id
    BY <1>8 DEF Header
  <2>2. \A p \in Pages : catalog.view[p].table_id <= next_table_id
    BY <1>1, <1>2 DEF IdsKept
  <2>. QED  BY <1>1, <1>2, <1>8, <1>10, <2>1, <2>2 DEF IdsKept
<1>15. TablesRecorded'
  <2>1. \A x \in DOMAIN tables' :
          \E p \in Pages' : [tables'[x] EXCEPT !.indexes = {}] = catalog'.view[p]
    <3>. TAKE x \in DOMAIN tables'
    <3>1. x \in DOMAIN tables /\ Bare(tables'[x]) = Bare(tables[x])
      BY <1>5
    <3>2. PICK p \in Pages : Bare(tables[x]) = catalog.view[p]
      BY <1>1, <1>2, <3>1
    <3>3. p \in Pages' /\ Bare(tables'[x]) = catalog'.view[p]
      BY <1>10, <3>1, <3>2
    <3>. QED  BY <3>3 DEF Bare
  <2>. QED  BY <1>13, <2>1, Recorded
<1>16. ASSUME "drop" \notin happened
       PROVE  ClosedAreKnown' /\ ClosedWhole' /\ TablesArePages'
  <2>1. ClosedAreKnown /\ TablesArePages
    BY <1>16 DEF IInv
  <2>2. \A p \in DOMAIN catalog.view : p <= count + 1
    BY <1>2, <1>16, HeaderCounts
  <2>3. ClosedAreKnown'
    <3>1. \A p, q \in Pages' : p # q =>
             /\ catalog'.view[p].name # catalog'.view[q].name
             /\ catalog'.view[p].first_page_id # catalog'.view[q].first_page_id
      BY <1>10, <2>1 DEF ClosedAreKnown
    <3>2. \A p \in catalog.known : p # 1 => catalog'.view[p] = catalog.view[p]
      BY <1>1, <1>8
    <3>3. catalog'.view[1].num_of_tables = count
      BY <1>8 DEF Header
    <3>4. \A p \in catalog.known : 1 \in catalog.known =>
             /\ p <= catalog'.view[1].num_of_tables + 1
             /\ p <= catalog'.stored[1].num_of_tables + 1
      BY <1>1, <1>8, <2>1, <2>2, <3>3 DEF ClosedAreKnown
    <3>. QED  BY <1>2, <1>8, <2>1, <3>1, <3>2, <3>4, KnownKept
  <2>4. ClosedWhole'
    BY <1>2 DEF ClosedWhole
  <2>5. TablesArePages'
    <3>1. /\ DOMAIN tables = {catalog.view[p].name : p \in Pages}
          /\ DOMAIN tables_ids_map = {catalog.view[p].table_id : p \in Pages}
      BY <1>2, <2>1 DEF TablesArePages
    <3>2. /\ {catalog'.view[p].name : p \in Pages} = {catalog.view[p].name : p \in Pages}
          /\ {catalog'.view[p].table_id : p \in Pages} = {catalog.view[p].table_id : p \in Pages}
      BY <1>10
    <3>3. ASSUME NEW p \in Pages
          PROVE  /\ Bare(tables'[catalog'.view[p].name]) = catalog'.view[p]
                 /\ tables_ids_map'[catalog'.view[p].table_id] = tables'[catalog'.view[p].name]
                 /\ catalog'.view[p].first_page_id \in DOMAIN db'.view
      <4>. DEFINE x == catalog.view[p].name
                  id == catalog.view[p].table_id
      <4>1. /\ x \in DOMAIN tables /\ id \in DOMAIN tables_ids_map
            /\ Bare(tables[x]) = catalog.view[p]
            /\ tables_ids_map[id] = tables[x]
            /\ catalog.view[p].first_page_id \in DOMAIN db.view
        BY <1>2, <2>1, <3>1 DEF TablesArePages
      <4>2. tables[x].name = x /\ old.name = name
        <5>1. \A y \in DOMAIN tables : tables[y].name = Bare(tables[y]).name
          BY <1>3 DEF Bare, Infos
        <5>2. PICK q \in Pages : name = catalog.view[q].name
          BY <1>2, <3>1
        <5>3. Bare(tables[name]) = catalog.view[q]
          BY <1>2, <2>1, <5>2 DEF TablesArePages
        <5>. QED  BY <1>2, <4>1, <5>1, <5>2, <5>3 DEF old
      <4>3. tables_ids_map'[id] = tables'[x]
        <5>1. CASE x = name
          BY <1>5, <1>6, <4>1, <5>1 DEF old
        <5>2. CASE x # name
          BY <1>5, <1>6, <4>1, <4>2, <5>2
        <5>. QED  BY <5>1, <5>2
      <4>. QED  BY <1>2, <1>5, <1>10, <4>1, <4>3
    <3>. QED  BY <1>2, <1>5, <1>6, <1>10, <3>1, <3>2, <3>3 DEF TablesArePages
  <2>. QED  BY <2>3, <2>4, <2>5
<1>. QED  BY <1>2, <1>11, <1>12, <1>13, <1>14, <1>15, <1>16, Assembled

(* The pages of tables hold what they held, as the files are closed.       *)
LEMMA CloseCatalogPreserves ==
  ASSUME IInv, CloseCatalog
  PROVE  IInv'
<1>. DEFINE count == Cardinality(DOMAIN tables)
            c == saved(catalog, next_table_id, count)
<1>1. /\ Typed /\ Numbered(catalog) /\ Numbered(db) /\ TablesFinite /\ HeapsKept
      /\ PagesKept /\ IdsKept
      /\ catalog.known \subseteq DOMAIN catalog.view
  BY Parts
<1>2. /\ status = "open" /\ catalog' = Flushed(c) /\ db' = withMetaData(db, Heaps)
      /\ closed' = tables /\ status' = "closing"
      /\ tables' = tables /\ tables_ids_map' = tables_ids_map
      /\ next_table_id' = next_table_id /\ happened' = happened
  BY DEF CloseCatalog, objects
<1>3. 1 \in DOMAIN catalog.view
  BY <1>1, <1>2 DEF PagesKept
<1>4. /\ Numbered(c)
      /\ DOMAIN c.view = DOMAIN catalog.view
      /\ c.view[1] = Header(next_table_id, count)
      /\ \A p \in DOMAIN catalog.view \ {1} : c.view[p] = catalog.view[p]
      /\ c.stored = catalog.stored /\ c.marked = catalog.marked \cup {1}
  BY <1>1, <1>3, SavedFile
<1>. HIDE DEF c
<1>5. /\ Numbered(catalog')
      /\ DOMAIN catalog'.view = DOMAIN catalog.view
      /\ catalog'.known = DOMAIN catalog.view /\ catalog'.marked = {}
      /\ \A p \in DOMAIN catalog.view :
           /\ catalog'.view[p] = IF p \in c.marked THEN c.view[p] ELSE c.stored[p]
           /\ catalog'.stored[p] = catalog'.view[p]
  BY <1>2, <1>4, FlushedFile
<1>6. Pages' = Pages /\ \A p \in Pages : catalog'.view[p] = catalog.view[p]
  BY <1>1, <1>4, <1>5 DEF Pages, PagesKept
<1>7. catalog'.view[1] = Header(next_table_id, count)
  BY <1>3, <1>4, <1>5
<1>8. /\ Header(next_table_id, count) \in Headers
      /\ "drop" \notin happened => \A p \in DOMAIN catalog.view : p <= count + 1
  BY <1>2, HeaderCounts
<1>9. Heaps \subseteq DOMAIN db.view
  BY <1>1, <1>2 DEF Heaps, HeapsKept, Range
<1>10. /\ Numbered(db')
       /\ DOMAIN db'.view = DOMAIN db.view
       /\ \A h \in DOMAIN db.view : db'.view[h] = IF h \in Heaps THEN "saved" ELSE db.view[h]
       /\ db'.stored = db.stored /\ db'.marked = db.marked \cup Heaps
  BY <1>1, <1>2, <1>9, MetaDataFile
<1>11. Typed'
  <2>1. \A p \in Pages' : catalog'.stored[p] \in Infos \cup {FreshPage}
    BY <1>1, <1>5, <1>6 DEF PagesKept, Pages
  <2>2. \A h \in DOMAIN db'.view : db'.view[h] \in Images /\ db'.stored[h] \in Images
    BY <1>1, <1>10 DEF Typed, Images
  <2>. QED  BY <1>1, <1>2, <2>1, <2>2 DEF Typed
<1>12. FilesNumbered' /\ TablesFinite' /\ HeapsKept'
  BY <1>1, <1>2, <1>5, <1>10 DEF FilesNumbered, TablesFinite, HeapsKept
<1>13. PagesKept'
  BY <1>1, <1>3, <1>5, <1>6, <1>7, <1>8 DEF PagesKept, Pages
<1>14. IdsKept'
  <2>1. catalog'.view[1].next_table_id = next_table_id /\ catalog'.stored[1] = catalog'.view[1]
    BY <1>3, <1>5, <1>7 DEF Header
  <2>2. \A p \in Pages : catalog.view[p].table_id <= next_table_id
    BY <1>1, <1>2 DEF IdsKept
  <2>. QED  BY <1>1, <1>2, <1>6, <2>1, <2>2 DEF IdsKept
<1>15. TablesRecorded'
  BY <1>2, <1>13, Recorded
<1>16. ASSUME "drop" \notin happened
       PROVE  ClosedAreKnown' /\ ClosedWhole' /\ TablesArePages'
  <2>1. ClosedAreKnown /\ TablesArePages
    BY <1>16 DEF IInv
  <2>2. catalog'.known \ {1} = Pages
    BY <1>5 DEF Pages
  <2>3. ClosedAreKnown'
    <3>1. \A p, q \in Pages' : p # q =>
             /\ catalog'.view[p].name # catalog'.view[q].name
             /\ catalog'.view[p].first_page_id # catalog'.view[q].first_page_id
      BY <1>6, <2>1 DEF ClosedAreKnown
    <3>2. DOMAIN closed' = {catalog'.view[p].name : p \in Pages}
      <4>1. DOMAIN tables = {catalog.view[p].name : p \in Pages}
        BY <1>2, <2>1 DEF TablesArePages
      <4>. QED  BY <1>2, <1>6, <4>1
    <3>3. \A p \in Pages : Bare(closed'[catalog'.view[p].name]) = catalog'.view[p]
      BY <1>2, <1>6, <2>1 DEF TablesArePages
    <3>4. catalog'.view[1].num_of_tables = count /\ catalog'.stored[1] = catalog'.view[1]
      BY <1>3, <1>5, <1>7 DEF Header
    <3>. QED  BY <1>5, <1>8, <1>16, <2>2, <3>1, <3>2, <3>3, <3>4 DEF ClosedAreKnown
  <2>4. ClosedWhole'
    <3>1. \A p \in Pages : catalog.view[p].first_page_id \in Heaps
      <4>. TAKE p \in Pages
      <4>. DEFINE id == catalog.view[p].table_id
                  x == catalog.view[p].name
      <4>1. /\ id \in DOMAIN tables_ids_map /\ x \in DOMAIN tables
            /\ tables_ids_map[id] = tables[x] /\ Bare(tables[x]) = catalog.view[p]
        BY <1>2, <2>1 DEF TablesArePages
      <4>2. tables[x] \in Infos
        BY <1>1, <4>1 DEF Typed, MapOf
      <4>3. tables[x].first_page_id = Bare(tables[x]).first_page_id
        BY <4>2 DEF Bare, Infos
      <4>4. tables_ids_map[id].first_page_id = catalog.view[p].first_page_id
        BY <4>1, <4>3
      <4>. QED  BY <4>1, <4>4 DEF Heaps, Range
    <3>2. HeapsSaved'
      BY <1>6, <1>9, <1>10, <3>1 DEF HeapsSaved
    <3>3. \A p \in Pages' : catalog'.view[p].first_page_id \in db'.marked
      BY <1>6, <1>10, <3>1
    <3>4. count + 1 \in DOMAIN catalog.view
      <4>1. count \in Nat /\ DOMAIN catalog.view = 1 .. count + 1
        BY <1>2, <1>16, TablesCounted
      <4>. QED  BY <4>1
    <3>5. catalog'.view[1].num_of_tables = count
      BY <1>7 DEF Header
    <3>. QED  BY <1>2, <1>3, <1>5, <3>2, <3>3, <3>4, <3>5 DEF ClosedWhole
  <2>5. TablesArePages'
    BY <1>2 DEF TablesArePages
  <2>. QED  BY <2>3, <2>4, <2>5
<1>. QED  BY <1>2, <1>11, <1>12, <1>13, <1>14, <1>15, <1>16, Assembled

LEMMA CloseDBPreserves ==
  ASSUME IInv, CloseDB
  PROVE  IInv'
<1>1. /\ Typed /\ Numbered(catalog) /\ Numbered(db) /\ TablesFinite
      /\ PagesKept /\ IdsKept
      /\ catalog.known \subseteq DOMAIN catalog.view
  BY Parts
<1>2. /\ status = "closing" /\ db' = Flushed(db) /\ status' = "down"
      /\ tables' = tables /\ tables_ids_map' = tables_ids_map
      /\ next_table_id' = next_table_id /\ happened' = happened
      /\ catalog' = catalog /\ closed' = closed
  BY DEF CloseDB, objects
<1>3. /\ Numbered(db') /\ DOMAIN db'.view = DOMAIN db.view
      /\ \A h \in DOMAIN db.view :
           /\ db'.view[h] = IF h \in db.marked THEN db.view[h] ELSE db.stored[h]
           /\ db'.stored[h] = db'.view[h]
  BY <1>1, <1>2, FlushedFile
<1>4. Pages' = Pages
  BY <1>2 DEF Pages
<1>5. Typed'
  BY <1>1, <1>2, <1>3, <1>4 DEF Typed
<1>6. FilesNumbered' /\ TablesFinite' /\ HeapsKept'
  BY <1>1, <1>2, <1>3 DEF FilesNumbered, TablesFinite, HeapsKept
<1>7. PagesKept' /\ IdsKept'
  BY <1>1, <1>2, <1>4 DEF PagesKept, IdsKept
<1>8. TablesRecorded'
  BY <1>2, <1>7, Recorded
<1>9. ASSUME "drop" \notin happened
      PROVE  ClosedAreKnown' /\ ClosedWhole' /\ TablesArePages'
  <2>1. ClosedAreKnown /\ ClosedWhole
    BY <1>9 DEF IInv
  <2>2. ClosedAreKnown'
    BY <1>2, <1>4, <2>1 DEF ClosedAreKnown
  <2>3. HeapsSaved'
    BY <1>2, <1>3, <1>4, <2>1 DEF ClosedWhole, HeapsSaved
  <2>4. ClosedWhole'
    BY <1>2, <2>1, <2>3 DEF ClosedWhole
  <2>5. TablesArePages'
    BY <1>2 DEF TablesArePages
  <2>. QED  BY <2>2, <2>4, <2>5
<1>. QED  BY <1>2, <1>5, <1>6, <1>7, <1>8, <1>9, Assembled

(* A crash takes both files back to what their directories know.           *)
LEMMA CrashPreserves ==
  ASSUME IInv, Crash
  PROVE  IInv'
<1>1. /\ Typed /\ Numbered(catalog) /\ Numbered(db) /\ TablesFinite
      /\ PagesKept /\ IdsKept
      /\ catalog.known \subseteq DOMAIN catalog.view
      /\ DOMAIN db.stored = DOMAIN db.view /\ db.known \subseteq DOMAIN db.view
  BY Parts, FileFields
<1>2. /\ catalog' = Crashed(catalog) /\ db' = Crashed(db)
      /\ whole' = FALSE /\ status' = "down"
      /\ tables' = tables /\ tables_ids_map' = tables_ids_map
      /\ next_table_id' = next_table_id /\ closed' = closed
      /\ happened' = happened \cup {"crash"}
  BY DEF Crash, objects
<1>3. /\ Numbered(catalog')
      /\ DOMAIN catalog'.view = catalog.known /\ catalog'.known = catalog.known
      /\ catalog'.marked = {}
      /\ \A p \in catalog.known : /\ catalog'.view[p] = catalog.stored[p]
                                 /\ catalog'.stored[p] = catalog.stored[p]
  BY <1>1, <1>2, CrashedFile
<1>4. /\ Numbered(db') /\ DOMAIN db'.view = db.known
      /\ \A h \in db.known : db'.view[h] = db.stored[h] /\ db'.stored[h] = db.stored[h]
  BY <1>1, <1>2, CrashedFile
<1>5. /\ Pages' = catalog.known \ {1} /\ Pages' \subseteq Pages
      /\ \A p \in Pages' : catalog'.view[p] = catalog.view[p] /\ catalog'.stored[p] = catalog.view[p]
  BY <1>1, <1>3 DEF Pages, PagesKept
<1>6. Typed'
  <2>1. \A p \in Pages' : catalog'.stored[p] \in Infos \cup {FreshPage}
    BY <1>1, <1>5 DEF PagesKept
  <2>2. \A h \in DOMAIN db'.view : db'.view[h] \in Images /\ db'.stored[h] \in Images
    BY <1>1, <1>4 DEF Typed
  <2>. QED  BY <1>1, <1>2, <2>1, <2>2 DEF Typed
<1>7. FilesNumbered' /\ TablesFinite' /\ HeapsKept'
  BY <1>1, <1>2, <1>3, <1>4 DEF FilesNumbered, TablesFinite, HeapsKept
<1>8. PagesKept'
  BY <1>1, <1>2, <1>3, <1>5 DEF PagesKept
<1>9. IdsKept'
  <2>1. \A p \in Pages' : /\ 1 \in catalog.known
                          /\ catalog.view[p].table_id <= catalog.stored[1].next_table_id
    <3>1. \A p \in Pages' : p \in catalog.known
      BY <1>5
    <3>2. 1 \in catalog.known <=> catalog.known # {}
      BY <1>1, FileFields
    <3>. QED  BY <1>1, <1>5, <3>1, <3>2 DEF IdsKept
  <2>2. \A p \in Pages' : /\ catalog'.view[1] = catalog.stored[1]
                          /\ catalog'.stored[1] = catalog.stored[1]
    BY <1>3, <2>1
  <2>. QED  BY <1>1, <1>2, <1>5, <2>1, <2>2 DEF IdsKept
<1>10. TablesRecorded'
  BY <1>2, <1>8, Recorded
<1>11. ASSUME "drop" \notin happened'
       PROVE  ClosedAreKnown' /\ ClosedWhole' /\ TablesArePages'
  <2>1. ClosedAreKnown
    BY <1>2, <1>11 DEF IInv
  <2>2. \A p, q \in Pages' : p # q =>
           /\ catalog'.view[p].name # catalog'.view[q].name
           /\ catalog'.view[p].first_page_id # catalog'.view[q].first_page_id
    BY <1>5, <2>1 DEF ClosedAreKnown
  <2>3. \A p \in catalog.known : p # 1 => catalog'.view[p] = catalog.view[p]
    BY <1>5
  <2>4. \A p \in catalog.known : 1 \in catalog.known =>
           /\ p <= catalog'.view[1].num_of_tables + 1
           /\ p <= catalog'.stored[1].num_of_tables + 1
    BY <1>3, <2>1 DEF ClosedAreKnown
  <2>5. ClosedAreKnown'
    BY <1>2, <1>3, <2>1, <2>2, <2>3, <2>4, KnownKept
  <2>6. ClosedWhole' /\ TablesArePages'
    BY <1>2, <1>3 DEF ClosedWhole, TablesArePages
  <2>. QED  BY <2>5, <2>6
<1>. QED  BY <1>2, <1>6, <1>7, <1>8, <1>9, <1>10, <1>11, Assembled

(* What load_catalog makes of the pages it counts is made of tables.       *)
LEMMA LoadedTables ==
  ASSUME Typed, PagesKept, FilesNumbered, CatalogLoads
  PROVE  /\ LastBy("name") \in MapOf(Names, Infos)
         /\ LastBy("table_id") \in MapOf(1 .. MaxTables, Infos)
<1>1. TablePages \subseteq Pages
  BY LastByName
<1>2. \A p \in TablePages : /\ catalog.view[p] \in Infos
                           /\ catalog.view[p].name \in Names
                           /\ catalog.view[p].table_id \in 1 .. MaxTables
  BY <1>1 DEF PagesKept, Infos
<1>3. LastBy("name") \in MapOf(Names, Infos)
  <2>. DEFINE m == LastBy("name")
  <2>1. /\ DOMAIN m = {catalog.view[p].name : p \in TablePages}
        /\ \A k \in DOMAIN m : \E p \in TablePages : m[k] = catalog.view[p]
    BY LastByName
  <2>2. m = [k \in DOMAIN m |-> m[k]]
    BY DEF LastBy
  <2>. HIDE DEF m
  <2>3. m \in [DOMAIN m -> Infos] /\ DOMAIN m \in SUBSET Names
    BY <1>2, <2>1, <2>2
  <2>. QED  BY <2>3 DEF MapOf, m
<1>4. LastBy("table_id") \in MapOf(1 .. MaxTables, Infos)
  <2>. DEFINE m == LastBy("table_id")
  <2>1. /\ DOMAIN m = {catalog.view[p].table_id : p \in TablePages}
        /\ \A k \in DOMAIN m : \E p \in TablePages : m[k] = catalog.view[p]
    BY LastById
  <2>2. m = [k \in DOMAIN m |-> m[k]]
    BY DEF LastBy
  <2>. HIDE DEF m
  <2>3. m \in [DOMAIN m -> Infos] /\ DOMAIN m \in SUBSET (1 .. MaxTables)
    BY <1>2, <2>1, <2>2
  <2>. QED  BY <2>3 DEF MapOf, m
<1>. QED  BY <1>3, <1>4

(* While nothing is dropped, the pages it counts are all there are.        *)
LEMMA AllTablesCounted ==
  ASSUME IInv, "drop" \notin happened, status = "down", CatalogLoads
  PROVE  TablePages = Pages /\ 1 \in catalog.known
<1>1. /\ PagesKept /\ Numbered(catalog) /\ ClosedAreKnown /\ ClosedWhole
      /\ FilesNumbered
  BY Parts DEF IInv
<1>2. 1 \in DOMAIN catalog.view /\ catalog.known = DOMAIN catalog.view
  BY <1>1 DEF ClosedWhole, CatalogLoads
<1>3. TablePages \subseteq Pages
  BY <1>1, LastByName
<1>4. \A p \in Pages : /\ p \in Nat \ {0, 1}
                      /\ p <= catalog.view[1].num_of_tables + 1
  BY <1>1, <1>2, FileFields DEF ClosedAreKnown, Pages
<1>5. catalog.view[1].num_of_tables \in Nat
  BY <1>1, <1>2 DEF PagesKept, Headers
<1>6. Pages \subseteq TablePages
  BY <1>4, <1>5 DEF TablePages, pagesCounted
<1>. QED  BY <1>2, <1>3, <1>6

LEMMA StartPreserves ==
  ASSUME IInv, Start
  PROVE  IInv'
<1>1. /\ Typed /\ FilesNumbered /\ PagesKept /\ IdsKept
  BY Parts DEF IInv
<1>2. /\ status = "down" /\ CatalogLoads /\ status' = "open"
      /\ tables' = LastBy("name") /\ tables_ids_map' = LastBy("table_id")
      /\ next_table_id' = catalog.view[1].next_table_id
      /\ catalog' = catalog /\ db' = db
      /\ closed' = closed /\ whole' = whole /\ happened' = happened
  BY DEF Start, history
<1>3. /\ TablePages \subseteq Pages
      /\ IsFiniteSet(DOMAIN tables')
      /\ DOMAIN tables' = {catalog.view[p].name : p \in TablePages}
      /\ \A k \in DOMAIN tables' :
           \E p \in TablePages : /\ catalog.view[p].name = k
                                 /\ tables'[k] = catalog.view[p]
  BY <1>1, <1>2, LastByName
<1>4. /\ DOMAIN tables_ids_map' = {catalog.view[p].table_id : p \in TablePages}
      /\ \A k \in DOMAIN tables_ids_map' :
           \E p \in TablePages : /\ catalog.view[p].table_id = k
                                 /\ tables_ids_map'[k] = catalog.view[p]
  BY <1>1, <1>2, LastById
<1>5. Pages' = Pages
  BY <1>2 DEF Pages
<1>6. \A p \in TablePages : catalog.view[p].first_page_id \in DOMAIN db.view
  BY <1>2 DEF CatalogLoads, HeapLoads
<1>7. \A p \in Pages : Bare(catalog.view[p]) = catalog.view[p]
  BY <1>1 DEF PagesKept, Infos, Bare
<1>8. Typed'
  <2>1. /\ tables' \in MapOf(Names, Infos)
        /\ tables_ids_map' \in MapOf(1 .. MaxTables, Infos)
    BY <1>1, <1>2, LoadedTables
  <2>2. next_table_id' \in 0 .. MaxTables
    BY <1>1, <1>2 DEF CatalogLoads, PagesKept, Headers
  <2>. QED  BY <1>1, <1>2, <1>5, <2>1, <2>2 DEF Typed
<1>9. FilesNumbered' /\ TablesFinite' /\ HeapsKept'
  BY <1>1, <1>2, <1>3, <1>4, <1>6 DEF FilesNumbered, TablesFinite, HeapsKept
<1>10. PagesKept'
  BY <1>1, <1>2, <1>5 DEF PagesKept, CatalogLoads
<1>11. IdsKept'
  BY <1>1, <1>2, <1>5 DEF IdsKept
<1>12. TablesRecorded'
  <2>1. \A x \in DOMAIN tables' :
          \E p \in Pages' : [tables'[x] EXCEPT !.indexes = {}] = catalog'.view[p]
    <3>. TAKE x \in DOMAIN tables'
    <3>1. PICK p \in TablePages : tables'[x] = catalog.view[p]
      BY <1>3
    <3>2. p \in Pages' /\ Bare(tables'[x]) = catalog'.view[p]
      BY <1>2, <1>3, <1>5, <1>7, <3>1
    <3>. QED  BY <3>2 DEF Bare
  <2>. QED  BY <1>10, <2>1, Recorded
<1>13. ASSUME "drop" \notin happened
       PROVE  ClosedAreKnown' /\ ClosedWhole' /\ TablesArePages'
  <2>1. ClosedAreKnown /\ TablePages = Pages
    BY <1>2, <1>13, AllTablesCounted DEF IInv
  <2>2. ClosedAreKnown'
    BY <1>2, <1>5, <2>1 DEF ClosedAreKnown
  <2>3. ClosedWhole'
    BY <1>2 DEF ClosedWhole
  <2>4. TablesArePages'
    <3>1. ASSUME NEW p \in Pages
          PROVE  /\ tables'[catalog.view[p].name] = catalog.view[p]
                 /\ tables_ids_map'[catalog.view[p].table_id] = catalog.view[p]
      <4>1. \A q \in Pages : q # p => /\ catalog.view[q].name # catalog.view[p].name
                                      /\ catalog.view[q].table_id # catalog.view[p].table_id
        BY <1>1, <2>1 DEF ClosedAreKnown, IdsKept
      <4>2. tables'[catalog.view[p].name] = catalog.view[p]
        BY <1>3, <2>1, <4>1
      <4>3. tables_ids_map'[catalog.view[p].table_id] = catalog.view[p]
        BY <1>4, <2>1, <4>1
      <4>. QED  BY <4>2, <4>3
    <3>2. /\ DOMAIN tables' = {catalog.view[p].name : p \in Pages}
          /\ DOMAIN tables_ids_map' = {catalog.view[p].table_id : p \in Pages}
      BY <1>3, <1>4, <2>1
    <3>. QED  BY <1>2, <1>5, <1>6, <1>7, <2>1, <3>1, <3>2 DEF TablesArePages
  <2>. QED  BY <2>2, <2>3, <2>4
<1>. QED  BY <1>2, <1>8, <1>9, <1>10, <1>11, <1>12, <1>13, Assembled

LEMMA StartLostPreserves ==
  ASSUME IInv, StartLost
  PROVE  IInv'
<1>1. /\ Typed /\ FilesNumbered /\ TablesFinite /\ PagesKept /\ IdsKept
  BY Parts DEF IInv
<1>2. /\ status = "down" /\ status' = "lost"
      /\ tables' = tables /\ tables_ids_map' = tables_ids_map
      /\ next_table_id' = next_table_id /\ catalog' = catalog /\ db' = db
      /\ closed' = closed /\ whole' = whole /\ happened' = happened
  BY DEF StartLost, history, objects
<1>3. Pages' = Pages
  BY <1>2 DEF Pages
<1>4. Typed'
  BY <1>1, <1>2, <1>3 DEF Typed
<1>5. FilesNumbered' /\ TablesFinite' /\ HeapsKept'
  BY <1>1, <1>2 DEF FilesNumbered, TablesFinite, HeapsKept
<1>6. PagesKept' /\ IdsKept'
  BY <1>1, <1>2, <1>3 DEF PagesKept, IdsKept
<1>7. TablesRecorded'
  BY <1>2, <1>6, Recorded
<1>8. ASSUME "drop" \notin happened
      PROVE  ClosedAreKnown' /\ ClosedWhole' /\ TablesArePages'
  <2>1. ClosedAreKnown
    BY <1>8 DEF IInv
  <2>2. ClosedAreKnown'
    BY <1>2, <1>3, <2>1 DEF ClosedAreKnown
  <2>3. ClosedWhole' /\ TablesArePages'
    BY <1>2 DEF ClosedWhole, TablesArePages
  <2>. QED  BY <2>2, <2>3
<1>. QED  BY <1>2, <1>4, <1>5, <1>6, <1>7, <1>8, Assembled

---------------------------------------------------------------------------
(* A new database: no pages but the header's.                              *)
LEMMA NewFile == Numbered(NoFile) /\ DOMAIN NoFile.view = {}
<1>1. /\ NoFile.view = EmptyMap /\ NoFile.stored = EmptyMap
      /\ NoFile.marked = {} /\ NoFile.known = {}
  BY DEF NoFile
<1>2. DOMAIN EmptyMap = {}
  BY DEF EmptyMap
<1>3. IsFiniteSet({}) /\ Cardinality({}) = 0
  BY FS_EmptySet
<1>4. 1 .. 0 = {}
  OBVIOUS
<1>5. IsFile(NoFile)
  BY <1>1, <1>2 DEF IsFile
<1>. QED  BY <1>1, <1>2, <1>3, <1>4, <1>5 DEF Numbered

LEMMA InitIInv == Init => IInv
<1>. SUFFICES ASSUME Init
              PROVE  IInv
  OBVIOUS
<1>. DEFINE e == Extended(NoFile, FreshPage)
<1>1. /\ status = "open" /\ tables = EmptyMap /\ tables_ids_map = EmptyMap
      /\ next_table_id = 0 /\ catalog = saved(e, 0, 0) /\ db = NoFile
      /\ closed = EmptyMap /\ whole = TRUE /\ happened = {}
  BY DEF Init
<1>2. /\ DOMAIN EmptyMap = {}
      /\ EmptyMap \in MapOf(Names, Infos) /\ EmptyMap \in MapOf(1 .. MaxTables, Infos)
  BY DEF EmptyMap, MapOf
<1>3. /\ Numbered(e) /\ DOMAIN e.view = {1} /\ e.marked = {} /\ e.known = {}
  <2>1. NewPageId(NoFile) = 1 /\ NoFile.marked = {} /\ NoFile.known = {}
    BY NewFile, ExtendedFile DEF NoFile
  <2>. QED  BY <2>1, NewFile, ExtendedFile
<1>. HIDE DEF e
<1>4. /\ Numbered(catalog) /\ DOMAIN catalog.view = {1}
      /\ catalog.view[1] = Header(0, 0)
      /\ catalog.marked = {1} /\ catalog.known = {}
  BY <1>1, <1>3, SavedFile
<1>5. Pages = {}
  BY <1>4 DEF Pages
<1>6. DOMAIN db.view = {}
  BY <1>1, NewFile
<1>7. Header(0, 0) \in Headers
  BY MaxTablesAssumption DEF Header, Headers
<1>8. FilesNumbered
  BY <1>1, <1>4, NewFile DEF FilesNumbered
<1>9. PagesKept
  BY <1>4, <1>5, <1>7 DEF PagesKept
<1>10. Typed
  BY <1>1, <1>2, <1>5, <1>6, MaxTablesAssumption DEF Typed
<1>11. TablesFinite /\ HeapsKept /\ IdsKept /\ TablesRecorded
  BY <1>1, <1>2, <1>5, FS_EmptySet DEF TablesFinite, HeapsKept, IdsKept, TablesRecorded
<1>12. ClosedAreKnown /\ ClosedWhole
  BY <1>1, <1>4, <1>5 DEF ClosedAreKnown, ClosedWhole
<1>13. TablesArePages
  BY <1>1, <1>2, <1>5 DEF TablesArePages
<1>. QED  BY <1>8, <1>9, <1>10, <1>11, <1>12, <1>13, TypedParts DEF IInv

LEMMA NextIInv == IInv /\ [Next]_vars => IInv'
<1>. SUFFICES ASSUME IInv, [Next]_vars
              PROVE  IInv'
  OBVIOUS
<1>1. ASSUME NEW name \in Names, CreateTable(name)
      PROVE  IInv'
  BY <1>1, CreatePreserves
<1>2. ASSUME NEW name \in Names, DropTable(name)
      PROVE  IInv'
  BY <1>2, DropPreserves
<1>3. CASE CreateFails
  BY <1>3, CreateFailsPreserves
<1>4. ASSUME NEW name \in Names, NEW index \in IndexNames, AddIndex(name, index)
      PROVE  IInv'
  BY <1>4, AddIndexPreserves
<1>5. ASSUME NEW p \in DOMAIN catalog.view, EvictCatalog(p)
      PROVE  IInv'
  BY <1>5, EvictCatalogPreserves
<1>6. ASSUME NEW h \in DOMAIN db.view, EvictDB(h)
      PROVE  IInv'
  BY <1>6, EvictDBPreserves
<1>7. CASE CloseCatalog
  BY <1>7, CloseCatalogPreserves
<1>8. CASE CloseDB
  BY <1>8, CloseDBPreserves
<1>9. CASE Crash
  BY <1>9, CrashPreserves
<1>10. CASE Start
  BY <1>10, StartPreserves
<1>11. CASE StartLost
  BY <1>11, StartLostPreserves
<1>12. CASE UNCHANGED vars
  BY <1>12, UnchangedPreserves
<1>. QED
  BY <1>1, <1>2, <1>3, <1>4, <1>5, <1>6, <1>7, <1>8, <1>9, <1>10, <1>11, <1>12 DEF Next

---------------------------------------------------------------------------
(* The results.                                                            *)

(* The invariant holds whatever the statements, evictions, exits, crashes  *)
(* and restarts of Catalog.c++, in whatever order.                         *)
THEOREM Invariance == Spec => []IInv
BY InitIInv, NextIInv, PTL DEF Spec

(* The catalog's two maps, its counter and the images of both files keep   *)
(* the types the code gives them.                                          *)
THEOREM TypeCorrect == Spec => []TypeOK
<1>1. IInv => TypeOK
  BY DEF IInv
<1>. QED  BY <1>1, Invariance, PTL

(* Every table of the catalog's maps is on a page save_catalog and         *)
(* create_table have written, whatever was evicted, dropped or reloaded.   *)
THEOREM Recording == Spec => []TablesRecorded
<1>1. IInv => TablesRecorded
  BY DEF IInv
<1>. QED  BY <1>1, Invariance, PTL

(* next_table_id is above every id on a page, and no two pages carry one:  *)
(* the counter that the header brings back after a crash is no lower than  *)
(* the ids of the tables that the directory brings back.                   *)
THEOREM FreshIds == Spec => []IdsFresh
<1>1. IInv => IdsFresh
  BY PagesOfTables DEF IInv, IdsKept, IdsFresh
<1>. QED  BY <1>1, Invariance, PTL

(* While no table is dropped, the maps by name and by id hold the same     *)
(* tables, and no two of them a heap.                                      *)
LEMMA Agreement == IInv => TablesAgree
<1>. SUFFICES ASSUME IInv, status = "open", "drop" \notin happened
              PROVE  /\ Range(tables) = Range(tables_ids_map)
                     /\ \A name \in DOMAIN tables : tables[name].name = name
                     /\ \A id \in DOMAIN tables_ids_map : tables_ids_map[id].table_id = id
                     /\ Cardinality(Heaps) = Cardinality(DOMAIN tables_ids_map)
  BY DEF TablesAgree
<1>1. /\ Typed /\ Numbered(catalog) /\ PagesKept /\ IdsKept /\ ClosedAreKnown /\ TablesArePages
  BY Parts DEF IInv
<1>2. /\ DOMAIN tables = {catalog.view[p].name : p \in Pages}
      /\ DOMAIN tables_ids_map = {catalog.view[p].table_id : p \in Pages}
      /\ \A p \in Pages :
           /\ Bare(tables[catalog.view[p].name]) = catalog.view[p]
           /\ tables_ids_map[catalog.view[p].table_id] = tables[catalog.view[p].name]
  BY <1>1 DEF TablesArePages
<1>3. /\ \A x \in DOMAIN tables : tables[x] \in Infos
      /\ \A id \in DOMAIN tables_ids_map : tables_ids_map[id] \in Infos
      /\ tables_ids_map \in MapOf(1 .. MaxTables, Infos)
  BY <1>1 DEF Typed, MapOf
<1>4. \A info \in Infos : /\ Bare(info).name = info.name
                          /\ Bare(info).table_id = info.table_id
                          /\ Bare(info).first_page_id = info.first_page_id
  BY DEF Bare, Infos
<1>5. Range(tables) = Range(tables_ids_map)
  <2>1. \A x \in DOMAIN tables : \E id \in DOMAIN tables_ids_map : tables_ids_map[id] = tables[x]
    BY <1>2
  <2>2. \A id \in DOMAIN tables_ids_map : \E x \in DOMAIN tables : tables_ids_map[id] = tables[x]
    BY <1>2
  <2>. QED  BY <2>1, <2>2 DEF Range
<1>6. \A name \in DOMAIN tables : tables[name].name = name
  BY <1>2, <1>3, <1>4
<1>7. \A id \in DOMAIN tables_ids_map : tables_ids_map[id].table_id = id
  BY <1>2, <1>3, <1>4
<1>8. \A i, j \in DOMAIN tables_ids_map :
         i # j => tables_ids_map[i].first_page_id # tables_ids_map[j].first_page_id
  <2>. SUFFICES ASSUME NEW i \in DOMAIN tables_ids_map, NEW j \in DOMAIN tables_ids_map, i # j
                PROVE  tables_ids_map[i].first_page_id # tables_ids_map[j].first_page_id
    OBVIOUS
  <2>1. PICK p \in Pages : i = catalog.view[p].table_id
    BY <1>2
  <2>2. PICK q \in Pages : j = catalog.view[q].table_id
    BY <1>2
  <2>3. catalog.view[p].first_page_id # catalog.view[q].first_page_id
    BY <1>1, <2>1, <2>2 DEF ClosedAreKnown
  <2>4. /\ tables_ids_map[i].first_page_id = catalog.view[p].first_page_id
        /\ tables_ids_map[j].first_page_id = catalog.view[q].first_page_id
    <3>1. /\ Bare(tables_ids_map[i]) = catalog.view[p]
          /\ Bare(tables_ids_map[j]) = catalog.view[q]
      BY <1>2, <2>1, <2>2
    <3>. QED  BY <1>3, <1>4, <3>1
  <2>. QED  BY <2>3, <2>4
<1>9. Cardinality(Heaps) = Cardinality(DOMAIN tables_ids_map)
  <2>. DEFINE D == DOMAIN tables_ids_map
              f == [id \in D |-> tables_ids_map[id].first_page_id]
  <2>1. f \in [D -> Heaps] /\ \A h \in Heaps : \E id \in D : f[id] = h
    BY DEF Heaps, Range
  <2>2. f \in Bijection(D, Heaps)
    BY <1>8, <2>1 DEF Bijection, Injection, Surjection, IsInjective
  <2>3. D \in SUBSET (1 .. MaxTables)
    BY <1>1 DEF Typed, MapOf
  <2>4. IsFiniteSet(1 .. MaxTables)
    BY MaxTablesAssumption, FS_Interval
  <2>5. IsFiniteSet(D)
    BY <2>3, <2>4, FS_Subset
  <2>. HIDE DEF D, f
  <2>6. Cardinality(Heaps) = Cardinality(D)
    BY <2>2, <2>5, FS_Bijection DEF ExistsBijection
  <2>. QED  BY <2>6 DEF D
<1>. QED  BY <1>5, <1>6, <1>7, <1>9

(* While no table is dropped, the maps by name and by id agree, and no two *)
(* tables share a heap, whichever file a crash took back.                  *)
THEOREM MapsAgree == Spec => []TablesAgree
BY Agreement, Invariance, PTL

(* After a close of both files the catalog can be loaded.                  *)
LEMMA WholeLoads ==
  ASSUME IInv, "drop" \notin happened, status = "down", whole
  PROVE  CatalogLoads
<1>. DEFINE last == catalog.view[1].num_of_tables + 1
<1>1. /\ PagesKept /\ Numbered(catalog) /\ ClosedWhole
      /\ catalog.known \subseteq DOMAIN catalog.view
  BY Parts DEF IInv
<1>2. /\ 1 \in DOMAIN catalog.view /\ last \in DOMAIN catalog.view /\ HeapsSaved
  BY <1>1 DEF ClosedWhole
<1>3. catalog.view[1].num_of_tables \in Nat
  BY <1>1, <1>2 DEF PagesKept, Headers
<1>4. TablePages = 2 .. last
  BY DEF TablePages, pagesCounted
<1>5. /\ DOMAIN catalog.view = 1 .. Cardinality(DOMAIN catalog.view)
      /\ Cardinality(DOMAIN catalog.view) \in Nat
  BY <1>1, FileFields DEF Numbered
<1>6. TablePages \subseteq Pages
  <2>. HIDE DEF last
  <2>1. last \in Nat
    BY <1>3 DEF last
  <2>. QED  BY <1>2, <1>4, <1>5, <2>1 DEF Pages
<1>7. \A p \in Pages : IsInfo(catalog.view[p])
  BY <1>1, InfoPages DEF PagesKept, Pages
<1>. QED  BY <1>2, <1>6, <1>7 DEF CatalogLoads, HeapLoads, HeapsSaved, Pages

(* A load that succeeds brings back the tables of the last close.          *)
LEMMA ClosedComeBack ==
  ASSUME IInv, "drop" \notin happened, status = "down", CatalogLoads
  PROVE  LastBy("name") = WithoutIndexes(closed)
<1>1. /\ FilesNumbered /\ PagesKept /\ ClosedAreKnown /\ Typed
      /\ TablePages = Pages /\ 1 \in catalog.known /\ catalog.known = DOMAIN catalog.view
  BY AllTablesCounted, Parts DEF IInv, ClosedWhole
<1>2. catalog.known \ {1} = Pages
  BY <1>1 DEF Pages
<1>3. /\ DOMAIN closed = {catalog.view[p].name : p \in Pages}
      /\ \A p \in Pages : Bare(closed[catalog.view[p].name]) = catalog.view[p]
  BY <1>1, <1>2 DEF ClosedAreKnown
<1>4. /\ DOMAIN LastBy("name") = {catalog.view[p].name : p \in TablePages}
      /\ \A k \in DOMAIN LastBy("name") :
           \E p \in TablePages : /\ catalog.view[p].name = k
                                 /\ LastBy("name")[k] = catalog.view[p]
  BY <1>1, LastByName
<1>. DEFINE m == LastBy("name")
<1>5. m = [k \in DOMAIN m |-> m[k]]
  BY DEF LastBy
<1>. HIDE DEF m
<1>6. DOMAIN m = DOMAIN closed
  BY <1>1, <1>3, <1>4 DEF m
<1>7. \A k \in DOMAIN m : m[k] = Bare(closed[k])
  BY <1>1, <1>3, <1>4 DEF m
<1>8. m = [k \in DOMAIN closed |-> Bare(closed[k])]
  BY <1>5, <1>6, <1>7
<1>. QED  BY <1>8 DEF m, WithoutIndexes, Bare

(* While no table is dropped, a restart of Catalog.c++ brings back the     *)
(* tables of the last close, none of them with its indexes, and no others, *)
(* or nothing at all, and after a close of both files it brings them back. *)
THEOREM Restart == Spec => ClosedTablesComeBack
<1>. DEFINE A == status = "down" /\ "drop" \notin happened =>
                   /\ whole => status' = "open"
                   /\ status' = "open" => tables' = WithoutIndexes(closed)
<1>1. IInv /\ [Next]_vars => [A]_vars
  <2>. SUFFICES ASSUME IInv, Next, status = "down", "drop" \notin happened
                PROVE  /\ whole => status' = "open"
                       /\ status' = "open" => tables' = WithoutIndexes(closed)
    OBVIOUS
  <2>1. Start \/ StartLost
    BY DEF Next, CreateTable, CreateFails, DropTable, AddIndex, EvictCatalog, EvictDB,
           CloseCatalog, CloseDB, Crash
  <2>2. CASE Start
    BY <2>2, ClosedComeBack DEF Start
  <2>3. CASE StartLost
    BY <2>3, WholeLoads DEF StartLost
  <2>. QED  BY <2>1, <2>2, <2>3
<1>. QED  BY <1>1, Invariance, PTL DEF Spec, ClosedTablesComeBack
=============================================================================
