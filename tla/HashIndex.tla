----------------------------- MODULE HashIndex -----------------------------
(***************************************************************************)
(* The static hash index (Storage/Indexing/static_hash_index.c++) under    *)
(* its wrapper (StaticHashIndexWrapper.c++): a vector of buckets, each a   *)
(* chain of entries, and a chain of pages the wrapper appends entries to   *)
(* and nothing reads back.                                                 *)
(*                                                                         *)
(* An index is a record of the object's fields; a method is an operator on *)
(* indexes.  Keys are the integers the hash function hashes as themselves. *)
(***************************************************************************)
EXTENDS SequencesExt

CONSTANTS
  Keys,         \* the keys
  PageEntries   \* index entries that fit on a page

ASSUME KeysAssumption == Keys \subseteq Nat

Entry(key, rid) == [key |-> key, rid |-> rid]

NoBuckets(capacity) == [slot \in 0 .. capacity - 1 |-> << >>]

(* The constructor takes two pages and links them; the first gets no entry.*)
NewHashIndex(tablesize) ==
  [capacity |-> tablesize, number_of_entries |-> 0,
   hashTable |-> NoBuckets(tablesize), pages |-> << << >>, << >> >>]

hashFunction(h, key) == key % h.capacity

bucket(h, key) == h.hashTable[hashFunction(h, key)]

insertIndex(h, key, rid) ==
  [h EXCEPT !.hashTable[hashFunction(h, key)] = Append(@, Entry(key, rid)),
            !.number_of_entries = @ + 1]

(* The rids of a key, in the order of the entries.                         *)
RidsUnder(entries, key) ==
  LET found[n \in 0 .. Len(entries)] ==
        IF n = 0 THEN << >>
        ELSE IF entries[n].key = key THEN Append(found[n - 1], entries[n].rid)
        ELSE found[n - 1]
  IN  found[Len(entries)]

(* getHashEntryPtr and getValue: from the first entry of the key on, the   *)
(* chain is walked to its end.                                             *)
getValue(h, key) == RidsUnder(bucket(h, key), key)

(* The first entry of the key takes the new rid.                           *)
updateIndex(h, key, rid) ==
  LET n == SelectInSeq(bucket(h, key), LAMBDA e : e.key = key)
  IN  IF n = 0 THEN h
      ELSE [h EXCEPT !.hashTable[hashFunction(h, key)][n].rid = rid]

---------------------------------------------------------------------------
(* deleteIndex unlinks the first entry of the key, and then follows the    *)
(* entry behind it without asking whether there is one: that ends the      *)
(* program when the key's entry was the last of two or more.  Only an      *)
(* entry at the head of its chain is counted off.                          *)
UnlinkedAt(h, key) == SelectInSeq(bucket(h, key), LAMBDA e : e.key = key)

DeleteCrashes(h, key) ==
  LET n == UnlinkedAt(h, key) chain == bucket(h, key)
  IN  \/ n = 1 /\ Len(chain) = 2
      \/ n > 1 /\ n = Len(chain)

(* In an empty bucket the key compared is left-over memory: when it equals *)
(* the key the entry is counted off once more; otherwise value() throws.   *)
deleteIndex(h, key) ==
  LET n == UnlinkedAt(h, key) slot == hashFunction(h, key)
  IN  IF bucket(h, key) = << >> THEN {h, [h EXCEPT !.number_of_entries = @ - 1]}
      ELSE IF n = 0 THEN {h}
      ELSE {[h EXCEPT !.hashTable[slot] = RemoveAt(@, n),
                      !.number_of_entries = IF n = 1 THEN @ - 1 ELSE @]}

---------------------------------------------------------------------------
(* The wrapper.  At a load of three quarters every chain is inserted, in   *)
(* order, into a table ten times as large over the same pages.             *)
Full(h) == 4 * h.number_of_entries >= 3 * h.capacity

insertedAll(h, entries) ==
  LET filled[n \in 0 .. Len(entries)] ==
        IF n = 0 THEN h ELSE insertIndex(filled[n - 1], entries[n].key, entries[n].rid)
  IN  filled[Len(entries)]

(* As a rehash that copies only the head of every chain.                   *)
rehashedHeads(h) ==
  LET moved[n \in 0 .. h.capacity] ==
        IF n = 0 THEN [NewHashIndex(10 * h.capacity) EXCEPT !.pages = h.pages]
        ELSE LET chain == h.hashTable[n - 1]
             IN  insertedAll(moved[n - 1], IF chain = << >> THEN chain ELSE <<Head(chain)>>)
  IN  moved[h.capacity]

rehashed(h) ==
  LET moved[n \in 0 .. h.capacity] ==
        IF n = 0 THEN [NewHashIndex(10 * h.capacity) EXCEPT !.pages = h.pages]
        ELSE insertedAll(moved[n - 1], h.hashTable[n - 1])
  IN  moved[h.capacity]

(* insertData into the last page, or into a new one linked behind it.      *)
pagesWith(pages, entry) ==
  IF Len(Last(pages)) < PageEntries
  THEN [pages EXCEPT ![Len(pages)] = Append(@, entry)]
  ELSE Append(pages, <<entry>>)

hashInsert(h, key, rid) ==
  LET ready == IF Full(h) THEN rehashed(h) ELSE h
  IN  insertIndex([ready EXCEPT !.pages = pagesWith(@, Entry(key, rid))], key, rid)

---------------------------------------------------------------------------
(* The wrapper's destructor saves the capacity and the number of entries   *)
(* in the first page.  When the table is opened again load_hash_table      *)
(* fills a table of that capacity from the rows, counting each once more.  *)
saveIndexMeta(h) == [capacity |-> h.capacity, number_of_entries |-> h.number_of_entries,
                     pages |-> h.pages]

Emptied(meta) ==
  [NewHashIndex(meta.capacity) EXCEPT !.number_of_entries = meta.number_of_entries,
                                      !.pages = meta.pages]

(* As a load that puts a row in its bucket without chaining it.            *)
loadUnchained(meta, rows) ==
  LET loaded[n \in 0 .. Len(rows)] ==
        IF n = 0 THEN Emptied(meta)
        ELSE [loaded[n - 1] EXCEPT
                !.hashTable[rows[n].key % meta.capacity] = <<Entry(rows[n].key, rows[n].rid)>>]
  IN  loaded[Len(rows)]

loadHashIndex(meta, rows) == insertedAll(Emptied(meta), rows)
=============================================================================
