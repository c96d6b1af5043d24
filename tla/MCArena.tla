------------------------------ MODULE MCArena ------------------------------
(* An instance of Buf and Arena for TLC, scaled down: chunks of 4 doubling   *)
(* to 8, headers of 2, chunks aligned to 2 and blocks to 4 or, for the       *)
(* buffer, to nothing; 6-bit sizes.  A block is larger than a first chunk or *)
(* near SIZE_MAX: 57, whose chunk of 61 with its header is 63, so that the   *)
(* sum the budget looks at wraps as soon as anything is reserved             *)
(* (arena.c:127) and only malloc refuses; 59, whose chunk of 63 leaves no    *)
(* room for a header (arena.c:123); and 63, which fails before any chunk is  *)
(* looked for (arena.c:176).  The buffer has 2 bytes to begin with and gets  *)
(* 2 or 62 at a time.                                                        *)
EXTENDS Buf
MCSizes == {5, 57, 59, 63}
MCAligns == {4}
MCCaps == {0}
MCAppends == {2, 62}
=============================================================================
