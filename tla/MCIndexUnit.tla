---------------------------- MODULE MCIndexUnit ----------------------------
(* A tree deep enough for inner nodes to split, borrow and merge, and a    *)
(* hash table small enough to be rehashed, with keys that collide before  *)
(* and after it (0 and 20).                                                *)
EXTENDS IndexUnit

MCKeys == {0, 3, 20}
MCMaxRows == [k \in {"hash", "tree"} |-> IF k = "hash" THEN 5 ELSE 7]
MCMaxChangedRows == [k \in {"hash", "tree"} |-> IF k = "hash" THEN 3 ELSE 1]
MCMaxEntries == [k \in {"hash", "tree"} |-> IF k = "hash" THEN 6 ELSE 7]
=============================================================================
