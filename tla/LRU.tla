-------------------------------- MODULE LRU --------------------------------
(***************************************************************************)
(* The LRU replacer (Buffer/LRU_replacement.c++): a doubly linked list     *)
(* between D_head and D_tail, and a hash map into its nodes.  The list is  *)
(* a sequence of frame ids here, the head (most recently used) first; the  *)
(* map is the position of a frame in it.                                   *)
(***************************************************************************)
EXTENDS Integers, SequencesExt

CONSTANT BUFFER_SIZE   \* frames of the pool, and capacity of the list

ASSUME BufferAssumption == BUFFER_SIZE \in Nat \ {0}

Position(s, x) == CHOOSE i \in DOMAIN s : s[i] = x

Unlink(s, f) == RemoveAt(s, Position(s, f))

(* As a first-in first-out list: a hit or a new node does not come first.  *)
get_unmoved(s, f) == s
put_last(s, f) == IF f \in Range(s) THEN s ELSE Append(s, f)

(* A hit moves the node behind the head; a miss changes nothing.           *)
get_frame(s, f) ==
  IF f \in Range(s) THEN <<f>> \o Unlink(s, f) ELSE s

(* A new node goes behind the head; a full list first drops its tail.      *)
put_frame(s, f) ==
  IF f \in Range(s) THEN <<f>> \o Unlink(s, f)
  ELSE IF Len(s) = BUFFER_SIZE THEN <<f>> \o Front(s)
  ELSE <<f>> \o s

(* evict_frame returns the frame at the tail, -1 for an empty list.        *)
evicted(s)     == IF s = << >> THEN -1 ELSE Last(s)
evict_frame(s) == IF s = << >> THEN s ELSE Front(s)

(* As a dropped page whose node stays in the list.                         *)
remove_nothing(s, f) == s

remove_frame(s, f) == Unlink(s, f)
=============================================================================
