----------------------------- MODULE MCFmtRun ------------------------------
(* An instance of FmtRun for TLC:                                            *)
(*     1/  2.do  3/  4.do  5.txt  6.do  7.git/  8.do                         *)
(* 3/ holds 4.do and 5.txt, 7.git is dotted and holds 8.do.  The command     *)
(* names 1/ and then 5.txt, whose extension only a walk would mind.          *)
EXTENDS FmtRun, TLC

MCNodes == 1 .. 8
MCDirs == {1, 3, 7}
MCKids == 1 :> {2, 3, 6, 7} @@ 3 :> {4, 5} @@ 7 :> {8}
MCDot == {7}
MCDoExt == {2, 4, 6, 8}
MCArgs == <<1, 5>>
=============================================================================
