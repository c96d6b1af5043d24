------------------------------- MODULE Arena -------------------------------
(* The chunked bump allocator (src/src/base/arena.c) and a client of it.     *)
(* The arena is the record `a`, whose fields are those of struct arena and   *)
(* of its chunks; arena_grow, arena_alloc and arena_extend are operators     *)
(* that return the set of their outcomes, because malloc may fail and may    *)
(* place a chunk anywhere that is max-aligned.  An address is a chunk and an *)
(* offset into its data.                                                     *)

EXTENDS Integers, Sequences, SequencesExt

CONSTANTS
    Hdr,        \* header_size()
    MaxChunk,   \* ARENA_MAX_CHUNK
    SizeMax,    \* SIZE_MAX: sizes are taken modulo SizeMax + 1
    AlignMax,   \* DOOT_ALIGN_MAX, what malloc and the header guarantee
    Chunks,     \* bound: chunks the system can provide, as numbers
    FirstChunk, \* chunk_size, already defaulted
    Sizes,      \* the sizes a client asks for
    Aligns,     \* the alignments it asks for, powers of two
    Limits,     \* the budgets it sets, 0 for none
    MaxLive,    \* bound: blocks a client holds at a time
    MaxMarks    \* bound: positions it has saved at a time

ASSUME ArenaAssumption ==
    /\ Hdr \in Nat /\ MaxChunk \in Nat /\ SizeMax \in Nat
    /\ AlignMax \in Nat \ {0}
    /\ Hdr % AlignMax = 0
    /\ Chunks \subseteq Nat \ {0}
    /\ FirstChunk \in Nat \ {0} /\ FirstChunk <= SizeMax
    /\ Sizes \subseteq 0 .. SizeMax
    /\ Aligns \subseteq 1 .. SizeMax
    /\ Limits \subseteq 0 .. SizeMax

VARIABLES
    a,          \* struct arena
    live,       \* the blocks the client may use
    marks,      \* the positions it has saved, innermost last
    answer      \* how the last call ended: "ok", "NULL" or "abort"

vars == <<a, live, marks, answer>>

NoChunk == 0

(* Strings and buffers ask for no alignment, which is 1. *)
Block == [chunk : Chunks, at : Nat, size : Nat, align : Aligns \cup {1}]
Mark  == [chunk : Chunks \cup {NoChunk}, used : Nat, live : SUBSET Block]

TypeOK ==
    /\ a.current \in Seq(Chunks) /\ a.spare \in Seq(Chunks)
    /\ a.cap \in [Chunks -> Nat] /\ a.used \in [Chunks -> Nat] /\ a.base \in [Chunks -> Nat]
    /\ \A c \in Chunks : a.used[c] <= a.cap[c]
    /\ a.next_chunk \in 1 .. (IF FirstChunk > MaxChunk THEN FirstChunk ELSE MaxChunk)
    /\ a.reserved \in 0 .. SizeMax /\ a.peak \in 0 .. SizeMax /\ a.limit \in 0 .. SizeMax
    /\ a.fatal \in BOOLEAN /\ a.exhausted \in BOOLEAN
    /\ live \in SUBSET Block
    /\ marks \in Seq(Mark)
    /\ answer \in {"ok", "NULL", "abort"}

Init ==
    /\ a \in [current : {<<>>}, spare : {<<>>},
              cap : {[c \in Chunks |-> 0]}, used : {[c \in Chunks |-> 0]},
              base : {[c \in Chunks |-> 0]},
              next_chunk : {FirstChunk}, reserved : {0}, peak : {0}, limit : {0},
              fatal : BOOLEAN, exhausted : {FALSE}]
    /\ live = {}
    /\ marks = <<>>
    /\ answer = "ok"

-----------------------------------------------------------------------------
(* The functions of arena.c.                                                 *)

Mod(n) == n % (SizeMax + 1)

Held(s) == {s[i] : i \in DOMAIN s}
Owned(ar) == Held(ar.current) \cup Held(ar.spare)
Smallest(S) == CHOOSE x \in S : \A y \in S : x <= y

(* The doubling loop: the first of cap, 2*cap, 4*cap, ... that holds `need`, *)
(* and exactly `need` once doubling would pass ARENA_MAX_CHUNK.              *)
CapFor(cap, need) ==
    LET reachable == {d \in cap .. 2 * (MaxChunk \div 2) : \E k \in 0 .. d : d = cap * 2^k}
        enough == {d \in reachable : d >= need}
    IN  IF cap >= need THEN cap ELSE IF enough # {} THEN Smallest(enough) ELSE need

(* Fault: chunks go on doubling. *)
NextChunkUncapped(n) == n * 2

(* What the next chunk will ask for, up to ARENA_MAX_CHUNK. *)
NextChunk(n) ==
    IF n >= MaxChunk THEN n ELSE IF n * 2 > MaxChunk THEN MaxChunk ELSE n * 2

(* Fault: an aligned offset is taken for an aligned address. *)
PadAtOffset(ar, c, at, align) == IF at % align = 0 THEN 0 ELSE align - (at % align)

(* Padding that aligns offset `at` of chunk c. *)
PadAt(ar, c, at, align) ==
    LET offset == (ar.base[c] + at) % align
    IN  IF offset = 0 THEN 0 ELSE align - offset

(* The bytes the chunks of S take, headers included.                         *)
Total(cap, S) == MapThenSumSet(LAMBDA c : Hdr + cap[c], S)

(* malloc(n): no object is larger than half the address space, all of them   *)
(* lie apart in it, and the system may be out of memory at any time.         *)
MallocCan(ar, n) ==
    /\ n <= SizeMax \div 2 /\ n <= SizeMax - Total(ar.cap, Owned(ar))
    /\ Chunks \ Owned(ar) # {}

(* Where malloc can put a chunk: any max-aligned address, which matters only *)
(* modulo the alignments asked for.                                          *)
Bases == {b \in 0 .. SizeMax : b % AlignMax = 0 /\ \E al \in Aligns : b < al}

(* Fault: what is asked for now is not counted. *)
OverLimitBefore(ar, cap) == ar.limit # 0 /\ ar.reserved > ar.limit

(* The budget of arena_set_limit, in size_t arithmetic. *)
OverLimit(ar, cap) == ar.limit # 0 /\ Mod(ar.reserved + Hdr + cap) > ar.limit

(* Takes a chunk with at least `need` usable bytes: the first spare one that *)
(* has them, or a new one.  next_chunk moves on even when this fails.        *)
arena_grow(ar, need) ==
    LET fits == {i \in DOMAIN ar.spare : ar.cap[ar.spare[i]] >= need}
        Reuse(i) == [ar EXCEPT !.spare = RemoveAt(@, i),
                               !.current = <<ar.spare[i]>> \o @,
                               !.used[ar.spare[i]] = 0]
        cap == CapFor(ar.next_chunk, need)
        stepped == [ar EXCEPT !.next_chunk = NextChunk(@)]
        refused == [ok |-> FALSE, ar |-> [stepped EXCEPT !.exhausted = TRUE]]
        total == Mod(ar.reserved + Hdr + cap)
        Obtain(c, b) == [stepped EXCEPT !.current = <<c>> \o @,
                                        !.cap[c] = cap, !.used[c] = 0, !.base[c] = b,
                                        !.reserved = total,
                                        !.peak = IF total > @ THEN total ELSE @]
    IN  IF fits # {}
        THEN {[ok |-> TRUE, ar |-> Reuse(Smallest(fits))]}
        ELSE IF \/ cap > SizeMax - Hdr
                \/ OverLimit(ar, cap)
                \/ ~ MallocCan(ar, Hdr + cap)
        THEN {refused}
        ELSE {refused} \cup
             {[ok |-> TRUE, ar |-> Obtain(Smallest(Chunks \ Owned(ar)), b)] : b \in Bases}

(* The outcomes of arena_alloc: the arena after it, and where the block is,  *)
(* in no chunk when it failed.                                               *)
arena_alloc(ar, asked, align) ==
    LET size == IF asked = 0 THEN 1 ELSE asked
        top == Head(ar.current)
        pad == PadAt(ar, top, ar.used[top], align)
        room == ar.cap[top] - ar.used[top]
        Failed(b) == [ar |-> b, chunk |-> NoChunk, at |-> 0]
        Fresh(b) == LET c == Head(b.current)
                        p == PadAt(b, c, 0, align)
                    IN  [ar |-> [b EXCEPT !.used[c] = p + size], chunk |-> c, at |-> p]
    IN  IF ar.current # <<>> /\ pad <= room /\ size <= room - pad
        THEN {[ar |-> [ar EXCEPT !.used[top] = @ + pad + size],
               chunk |-> top, at |-> ar.used[top] + pad]}
        ELSE IF size > SizeMax - align
        THEN {Failed([ar EXCEPT !.exhausted = TRUE])}
        ELSE {IF g.ok THEN Fresh(g.ar) ELSE Failed(g.ar) : g \in arena_grow(ar, size + align)}

(* Fault: any block of the current chunk is grown where it is. *)
arena_extend_anywhere(ar, b, size, align) ==
    LET extra == size - b.size
    IN  IF /\ b.size # 0 /\ ar.current # <<>> /\ b.chunk = Head(ar.current)
           /\ extra <= ar.cap[b.chunk] - ar.used[b.chunk]
        THEN {[ar |-> [ar EXCEPT !.used[b.chunk] = @ + extra], chunk |-> b.chunk, at |-> b.at]}
        ELSE arena_alloc(ar, size, align)

(* arena_extend(p, old_size, new_size): in place when p ends where the       *)
(* current chunk's allocations end and the chunk has room.                   *)
arena_extend(ar, b, size, align) ==
    LET last == /\ ar.current # <<>>
                /\ b.chunk = Head(ar.current)
                /\ b.at + b.size = ar.used[b.chunk]
        extra == size - b.size
    IN  IF b.size # 0 /\ last /\ extra <= ar.cap[b.chunk] - ar.used[b.chunk]
        THEN {[ar |-> [ar EXCEPT !.used[b.chunk] = @ + extra], chunk |-> b.chunk, at |-> b.at]}
        ELSE arena_alloc(ar, size, align)

(* Every chunk of `current`, the newest first, is pushed on `spare`. *)
arena_reset(ar) ==
    [ar EXCEPT !.spare = Reverse(ar.current) \o @,
               !.current = <<>>,
               !.used = [c \in Chunks |-> IF c \in Held(ar.current) THEN 0 ELSE @[c]],
               !.exhausted = FALSE]

(* Fault: the chunks above the mark's are forgotten. *)
arena_rollback_dropping(ar, m, n) ==
    LET cut == [ar EXCEPT !.current = SubSeq(@, n + 1, Len(@))]
    IN  IF m.chunk = NoChunk THEN cut ELSE [cut EXCEPT !.used[m.chunk] = m.used]

(* Fault: the mark's own chunk is emptied. *)
arena_rollback_to_chunk(ar, m, n) ==
    LET above == SubSeq(ar.current, 1, n)
        cut == [ar EXCEPT !.current = SubSeq(@, n + 1, Len(@)),
                          !.spare = Reverse(above) \o @,
                          !.used = [c \in Chunks |-> IF c \in Held(above) THEN 0 ELSE @[c]]]
    IN  IF m.chunk = NoChunk THEN cut ELSE [cut EXCEPT !.used[m.chunk] = 0]

(* The chunks above the mark's are pushed on `spare`, and its own is cut     *)
(* back; n is how many are above it.                                         *)
arena_rollback(ar, m, n) ==
    LET above == SubSeq(ar.current, 1, n)
        cut == [ar EXCEPT !.current = SubSeq(@, n + 1, Len(@)),
                          !.spare = Reverse(above) \o @,
                          !.used = [c \in Chunks |-> IF c \in Held(above) THEN 0 ELSE @[c]]]
    IN  IF m.chunk = NoChunk THEN cut ELSE [cut EXCEPT !.used[m.chunk] = m.used]

-----------------------------------------------------------------------------
(* A client that keeps the contract of arena.h: it grows only blocks it      *)
(* holds, gives their true size, and rolls back to marks in the order of a   *)
(* stack, as a nested scope does.                                            *)

Running == answer # "abort"

(* A fatal arena ends the process instead of returning NULL. *)
Refused == IF a.fatal THEN "abort" ELSE "NULL"

Given(r, n, al) == [chunk |-> r.chunk, at |-> r.at, size |-> n, align |-> al]

(* Fault: the failure is returned whatever the policy of the arena. *)
AllocNeverAborts ==
    /\ Running /\ Cardinality(live) < MaxLive
    /\ \E n \in Sizes, al \in Aligns : \E r \in arena_alloc(a, n, al) :
          /\ a' = r.ar
          /\ IF r.chunk = NoChunk
             THEN answer' = "NULL" /\ UNCHANGED live
             ELSE answer' = "ok" /\ live' = live \cup {Given(r, n, al)}
    /\ UNCHANGED marks

(* arena_alloc as a client sees it: a block, NULL, or the end of the process. *)
Alloc ==
    /\ Running /\ Cardinality(live) < MaxLive
    /\ \E n \in Sizes, al \in Aligns : \E r \in arena_alloc(a, n, al) :
          /\ a' = r.ar
          /\ IF r.chunk = NoChunk
             THEN answer' = Refused /\ UNCHANGED live
             ELSE answer' = "ok" /\ live' = live \cup {Given(r, n, al)}
    /\ UNCHANGED marks

Extend ==
    /\ Running
    /\ \E b \in live, n \in Sizes : n >= b.size /\ \E r \in arena_extend(a, b, n, b.align) :
          /\ a' = r.ar
          /\ IF r.chunk = NoChunk
             THEN answer' = Refused /\ UNCHANGED live
             ELSE answer' = "ok" /\ live' = (live \ {b}) \cup {Given(r, n, b.align)}
    /\ UNCHANGED marks

Reset ==
    /\ Running
    /\ a' = arena_reset(a)
    /\ live' = {}
    /\ marks' = <<>>
    /\ answer' = "ok"

Save ==
    /\ Running /\ Len(marks) < MaxMarks
    /\ marks' = Append(marks,
          IF a.current = <<>>
          THEN [chunk |-> NoChunk, used |-> 0, live |-> live]
          ELSE [chunk |-> Head(a.current), used |-> a.used[Head(a.current)], live |-> live])
    /\ answer' = "ok"
    /\ UNCHANGED <<a, live>>

(* How many chunks of `current` are above the mark's. *)
Above(m) ==
    IF m.chunk = NoChunk THEN Len(a.current)
    ELSE Smallest({i \in DOMAIN a.current : a.current[i] = m.chunk}) - 1

Rollback ==
    /\ Running
    /\ \E k \in DOMAIN marks :
          /\ a' = arena_rollback(a, marks[k], Above(marks[k]))
          /\ live' = marks[k].live
          /\ marks' = SubSeq(marks, 1, k - 1)
    /\ answer' = "ok"

SetLimit ==
    /\ Running
    /\ \E n \in Limits : n # a.limit /\ a' = [a EXCEPT !.limit = n]
    /\ answer' = "ok"
    /\ UNCHANGED <<live, marks>>

Next == Alloc \/ Extend \/ Reset \/ Save \/ Rollback \/ SetLimit

Spec == Init /\ [][Next]_vars

-----------------------------------------------------------------------------
(* Properties.                                                               *)

(* The bytes of a block; a block of no bytes is given one, so that its       *)
(* address is its own (arena.c:161).                                         *)
End(b) == b.at + (IF b.size = 0 THEN 1 ELSE b.size)

Apart(b, c) == b.chunk # c.chunk \/ End(b) <= c.at \/ End(c) <= b.at

(* No two blocks in use share a byte, and each lies in the allocated part of *)
(* a chunk that the next allocations leave alone, whatever was extended,     *)
(* reset, rolled back and reused before.                                     *)
BlocksApart ==
    /\ \A b \in live : b.chunk \in Held(a.current) /\ End(b) <= a.used[b.chunk]
    /\ \A b, c \in live : b # c => Apart(b, c)
    /\ \A b \in live : (a.base[b.chunk] + b.at) % b.align = 0

(* Every chunk obtained is in exactly one of the two lists, once, and        *)
(* `reserved` is what they hold: what arena_destroy frees is what was taken. *)
ChunksAccountedFor ==
    /\ Len(a.current) + Len(a.spare) = Cardinality(Owned(a))
    /\ a.reserved = Total(a.cap, Owned(a))
    /\ a.peak >= a.reserved

(* A position saved stays good until it is used: rolling back finds its      *)
(* chunk (the assertions of arena_rollback hold), and every block held when  *)
(* it was saved is there, untouched by any block handed out since, one that  *)
(* was grown in place apart.                                                 *)
MarksHold ==
    \A k \in DOMAIN marks :
        LET m == marks[k]
        IN  /\ m.chunk # NoChunk => m.chunk \in Held(a.current) /\ m.used <= a.used[m.chunk]
            /\ \A b \in m.live :
                  /\ b.chunk \in Held(a.current)
                  /\ End(b) <= a.used[b.chunk]
                  /\ b.chunk = m.chunk => End(b) <= m.used
                  /\ \A c \in live : Apart(b, c) \/ (b.chunk = c.chunk /\ b.at = c.at)

(* The arena never takes from the system what its budget does not allow:     *)
(* counted in the bytes its chunks take, and not in the size_t that          *)
(* arena_grow compares, which wraps for sizes near SIZE_MAX (arena.h:38).    *)
WithinBudget ==
    [][LET taken == Total(a.cap, Owned(a))
       IN  taken' > taken => a.limit = 0 \/ taken' <= a.limit]_vars

(* A request that fails says so and costs nothing: an arena that is not      *)
(* fatal returns NULL and is as it was, a fatal one does not return          *)
(* (arena.h:11-13).                                                          *)
RefusalIsHarmless ==
    [][answer' = "NULL" /\ a' # a =>
         /\ ~ a.fatal
         /\ a'.exhausted
         /\ live' = live
         /\ a' = [a EXCEPT !.next_chunk = a'.next_chunk, !.exhausted = TRUE]]_vars

=============================================================================
