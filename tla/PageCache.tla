----------------------------- MODULE PageCache -----------------------------
(***************************************************************************)
(* What the buffer pool promises the code above it, without frames, slots  *)
(* or recency.  Every page has an image its users see and an image in the  *)
(* file; a user changes the first through a pointer and may then mark the  *)
(* page.  At any time the pool may evict a page: a marked one is written,  *)
(* an unmarked one reverts to the image in the file.  Allocation, like any *)
(* call, evicts at most one.  A clean shutdown writes what is marked; a    *)
(* crash keeps the file and forgets the pages allocated since the pool was *)
(* opened.  A call may also change nothing that the users or the file show.*)
(***************************************************************************)
EXTENDS Integers, Maps

CONSTANTS
  Ids,       \* page ids
  Contents,  \* page images
  FreshPage  \* the image of a new page

VARIABLES
  view,     \* the image each allocated page has for its users
  stored,   \* the image each allocated page has in the file
  marked,   \* the pages whose view the pool must write before it forgets it
  known     \* the pages that a crash does not forget

vars == <<view, stored, marked, known>>

Pages == DOMAIN view

Init ==
  /\ view = EmptyMap /\ stored = EmptyMap
  /\ marked = {} /\ known = {}

(* The views and the file once page q has left the pool.                   *)
Seen(q)    == [view EXCEPT ![q] = IF q \in marked THEN @ ELSE stored[q]]
Written(q) == [stored EXCEPT ![q] = IF q \in marked THEN view[q] ELSE @]

Evict(q) ==
  /\ q \in Pages
  /\ marked' = marked \ {q} /\ UNCHANGED known
  /\ view' = Seen(q) /\ stored' = Written(q)

(* Page p is added to views v and a file s.                                *)
Add(p, v, s) ==
  /\ p \notin Pages
  /\ view' = Put(v, p, FreshPage) /\ stored' = Put(s, p, FreshPage)
  /\ UNCHANGED known

New(p)            == Add(p, view, stored) /\ UNCHANGED marked
NewEvicting(p, q) == Add(p, Seen(q), Written(q)) /\ marked' = marked \ {q}

Store(p, c) ==
  /\ p \in Pages
  /\ UNCHANGED <<marked, known, stored>>
  /\ view' = [view EXCEPT ![p] = c]

Mark(p) ==
  /\ p \in Pages
  /\ marked' = marked \cup {p}
  /\ UNCHANGED <<view, stored, known>>

Flushed == [p \in Pages |-> IF p \in marked THEN view[p] ELSE stored[p]]

Shutdown ==
  /\ known' = Pages /\ marked' = {}
  /\ view' = Flushed /\ stored' = Flushed

Crash ==
  /\ UNCHANGED known /\ marked' = {}
  /\ view' = Restrict(stored, known) /\ stored' = Restrict(stored, known)

Next ==
  \/ UNCHANGED vars
  \/ Crash
  \/ Shutdown
  \/ \E p \in Pages : Mark(p)
  \/ \E q \in Pages : Evict(q)
  \/ \E p \in Pages, c \in Contents : Store(p, c)
  \/ \E p \in Ids : New(p)
  \/ \E p \in Ids, q \in Pages : NewEvicting(p, q)

Spec == Init /\ [][Next]_vars
=============================================================================
