----------------------------- MODULE CachedFile -----------------------------
(***************************************************************************)
(* A file as the code above the buffer pool sees it: PageCache's state as  *)
(* a record, view, stored, marked and known, and its steps as operators on *)
(* any record with these fields, so that an object and the file it lives   *)
(* in can be one value.                                                    *)
(***************************************************************************)
EXTENDS Integers, FiniteSets, Functions, Maps

NoFile == [view |-> EmptyMap, stored |-> EmptyMap, marked |-> {}, known |-> {}]

(* newPage, a write through a pointer, and markAsDirty.                    *)
NewPageId(t) == Cardinality(DOMAIN t.view) + 1

Extended(t, image) ==
  [t EXCEPT !.view   = Put(t.view, NewPageId(t), image),
            !.stored = Put(t.stored, NewPageId(t), image)]

Written(t, p, image) == [t EXCEPT !.view[p] = image]
Marked(t, p)         == [t EXCEPT !.marked = @ \cup {p}]

(* An eviction writes a marked page, and forgets the writes to another; so *)
(* does the pool's deletePage, which the directory of the file never hears *)
(* of: a page that left the pool for good keeps its slot and its image.    *)
Evicted(t, E) ==
  [t EXCEPT !.view   = [p \in DOMAIN t.view |->
                          IF p \in E \ t.marked THEN t.stored[p] ELSE t.view[p]],
            !.stored = [p \in DOMAIN t.view |->
                          IF p \in E \cap t.marked THEN t.view[p] ELSE t.stored[p]],
            !.marked = @ \ E]

(* A clean close writes the marked pages and the directory; a crash keeps  *)
(* the images and the directory the file has.                              *)
Flushed(t) == [Evicted(t, DOMAIN t.view) EXCEPT !.known = DOMAIN t.view]

Crashed(t) ==
  [t EXCEPT !.view = Restrict(t.stored, t.known), !.stored = Restrict(t.stored, t.known),
            !.marked = {}]

IsFile(t) == /\ DOMAIN t.stored = DOMAIN t.view
             /\ t.marked \subseteq DOMAIN t.view /\ t.known \subseteq DOMAIN t.view

(* As newPage and the crashes leave it: the pages are numbered from 1, and *)
(* the directory knows those up to some number.                            *)
Numbered(t) ==
  /\ DOMAIN t = DOMAIN NoFile /\ IsFile(t)
  /\ IsFiniteSet(DOMAIN t.view)
  /\ DOMAIN t.view = 1 .. Cardinality(DOMAIN t.view)
  /\ t.known = 1 .. Cardinality(t.known)
=============================================================================
