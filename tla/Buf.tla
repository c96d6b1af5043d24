-------------------------------- MODULE Buf --------------------------------
(* The growable byte buffer (src/src/base/buf.c) as one more client of the   *)
(* arena: its block is one of the blocks in use, it grows it with            *)
(* arena_extend while others allocate, save, roll back and reset around it.  *)
(* Bytes are told apart by their place: the k-th byte appended belongs at    *)
(* the k-th place.                                                           *)

EXTENDS Arena

CONSTANTS
    DefaultCap, \* BUF_DEFAULT_CAP
    Caps,       \* the initial capacities asked for, 0 for the default
    Appends,    \* how many bytes are appended at a time
    MaxLen      \* bound: bytes a buffer gets to hold

(* Nothing of SIZE_MAX bytes can be appended: no object is that large.       *)
ASSUME BufAssumption ==
    /\ DefaultCap \in 1 .. SizeMax
    /\ Caps \subseteq 0 .. SizeMax
    /\ Appends \subseteq 0 .. SizeMax - 1
    /\ MaxLen \in Nat

VARIABLES
    b,          \* struct buf, with its block for its data and cap
    kept,       \* how many bytes at the front of the block are those appended
    sent        \* history: how many bytes were accepted since it was empty

bufvars == <<vars, b, kept, sent>>

NoBlock == [chunk |-> NoChunk, at |-> 0, size |-> 0, align |-> 1]
NoBuf == [block |-> NoBlock, len |-> 0, failed |-> FALSE, ready |-> FALSE]

BufInit == Init /\ b = NoBuf /\ kept = 0 /\ sent = 0

cap == b.block.size

-----------------------------------------------------------------------------
(* A call that was refused memory: the buffer remembers it for good.         *)
Fails ==
    /\ b' = [b EXCEPT !.failed = TRUE, !.ready = TRUE]
    /\ answer' = "NULL"
    /\ UNCHANGED <<live, kept, sent>>

(* What a call does to a buffer once the arena has answered it.              *)
Takes(r, size, len) ==
    LET block == Given(r, size, 1) IN
    /\ a' = r.ar
    /\ IF r.chunk = NoChunk
       THEN IF a.fatal THEN answer' = "abort" /\ UNCHANGED <<live, b, kept, sent>> ELSE Fails
       ELSE /\ b' = [b EXCEPT !.block = block, !.len = len, !.ready = TRUE]
            /\ live' = (live \ {b.block}) \cup {block}
            /\ answer' = "ok"
            /\ kept' = (IF kept < cap THEN kept ELSE cap) + (len - b.len)
            /\ sent' = len

buf_init ==
    /\ Running /\ ~ b.ready /\ Cardinality(live) < MaxLive
    /\ \E c \in Caps :
         LET initial == IF c = 0 THEN DefaultCap ELSE c IN
         \E r \in arena_alloc(a, initial, 1) : Takes(r, initial, 0)
    /\ UNCHANGED marks

(* Fault: the spare byte is not counted. *)
FitsExactly(n) == n <= cap - b.len

(* There is room for n bytes and one spare.                                  *)
Fits(n) == n < cap - b.len

(* The capacity doubles until it holds what is wanted, and is exactly that   *)
(* where doubling would overflow.                                            *)
Grown(want) ==
    LET from[c \in 1 .. SizeMax] ==
          IF c >= want THEN c ELSE IF c > SizeMax \div 2 THEN want ELSE from[2 * c]
    IN from[cap]

(* buf_reserve(n), and then `extra` bytes are written.                       *)
Reserve(n, extra) ==
    IF b.failed
    THEN answer' = "NULL" /\ UNCHANGED <<a, live, b, kept, sent>>
    ELSE IF Fits(n)
    THEN /\ b' = [b EXCEPT !.len = @ + extra]
         /\ kept' = kept + extra /\ sent' = sent + extra
         /\ answer' = "ok" /\ UNCHANGED <<a, live>>
    ELSE IF b.len > SizeMax - n - 1
    THEN Fails /\ UNCHANGED a
    ELSE LET size == Grown(b.len + n + 1) IN
         \E r \in arena_extend(a, b.block, size, 1) : Takes(r, size, b.len + extra)

(* buf_append, and append_byte, append_repeat and printf, which differ in    *)
(* what the bytes are.                                                       *)
buf_append ==
    /\ Running /\ b.ready
    /\ \E n \in Appends :
         /\ b.len + n <= MaxLen \/ n > MaxLen
         /\ Reserve(n, n)
    /\ UNCHANGED marks

(* The NUL is not counted, and a byte is reserved for it all the same.       *)
buf_cstr ==
    /\ Running /\ b.ready
    /\ Reserve(1, 0)
    /\ UNCHANGED marks

(* Fault: a buffer that is emptied has not failed. *)
buf_clear_all ==
    /\ Running /\ b.ready
    /\ b' = [b EXCEPT !.len = 0, !.failed = FALSE] /\ kept' = 0 /\ sent' = 0 /\ answer' = "ok"
    /\ UNCHANGED <<a, live, marks>>

buf_clear ==
    /\ Running /\ b.ready
    /\ b' = [b EXCEPT !.len = 0] /\ kept' = 0 /\ sent' = 0 /\ answer' = "ok"
    /\ UNCHANGED <<a, live, marks>>

(* The other clients leave the block of the buffer alone; a buffer whose     *)
(* block a reset or a rollback took away is not used again.                  *)
Others ==
    \/ /\ Alloc \/ Extend \/ SetLimit \/ Save
       /\ b.block \in live' \cup {NoBlock}
       /\ UNCHANGED <<b, kept, sent>>
    \/ /\ Reset \/ Rollback
       /\ IF b.block \in live' THEN UNCHANGED <<b, kept, sent>>
          ELSE b' = NoBuf /\ kept' = 0 /\ sent' = 0

BufNext == buf_init \/ buf_append \/ buf_cstr \/ buf_clear \/ Others

BufSpec == BufInit /\ [][BufNext]_bufvars

-----------------------------------------------------------------------------
(* Properties.                                                               *)

(* A buffer holds what was appended to it and accepted, in a block that is   *)
(* its own, with a byte to spare for the NUL, through every move to another  *)
(* block and after a failure too (buf.h:8-10, buf.c:29).                     *)
BufferHolds ==
    b.block # NoBlock => /\ b.block \in live
                         /\ b.len = sent /\ kept >= b.len
                         /\ b.len < cap

(* A buffer that was refused memory once says so ever after, whatever is     *)
(* asked of it and however much memory there is by then, and takes nothing   *)
(* more: a caller may append freely and check once at the end (buf.h:8-10).  *)
FailureIsRemembered ==
    [][b.failed /\ b' # NoBuf => b'.failed /\ b'.len <= b.len /\ b'.block = b.block]_bufvars
=============================================================================
