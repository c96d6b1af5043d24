----------------------------- MODULE MCFsWrite -----------------------------
(* Instances of FsWrite for TLC: texts of two and three blocks, so that a    *)
(* write can be cut before, between and after its blocks, and one inode more *)
(* than the names and streams of a run can hold at a time.                   *)
EXTENDS FsWrite

MCOldText == <<"o1", "o2">>
MCNewText == <<"n1", "n2", "n3">>
=============================================================================
