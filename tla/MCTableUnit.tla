---------------------------- MODULE MCTableUnit ----------------------------
(* A table of two narrow tuples to a page; with a tuple that only just fits*)
(* beside one of them, and ends in a text that fills it, and one that an   *)
(* empty page has no slot for.                                             *)
EXTENDS TableUnit

MCTuples == {"a", "wide", "huge"}
MCTupleSize == [x \in MCTuples |-> CASE x = "wide" -> 24 [] x = "huge" -> 48 [] OTHER -> 11]
MCEndInText == {"wide"}
=============================================================================
