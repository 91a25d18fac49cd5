----------------------------- MODULE MCDiskUnit -----------------------------
(* DiskUnit with a file that must double, and ids written in any order: a  *)
(* page entered out of sequence and a freed slot reused are both reached.  *)
EXTENDS DiskUnit

MCContents == {"blank", "x"}
=============================================================================
