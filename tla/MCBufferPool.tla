---------------------------- MODULE MCBufferPool ----------------------------
(* A pool smaller than the file, so that every call can evict, with three  *)
(* frames so that the LRU list has a middle; and two images, to tell a     *)
(* page that was written to from a page that was not.                      *)
EXTENDS BufferPool

MCContents == {"fresh", "x"}
MCGarbage  == {"x"}
=============================================================================
