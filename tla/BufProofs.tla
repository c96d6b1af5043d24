----------------------------- MODULE BufProofs -----------------------------
(* A growable buffer as one client of the arena among others: what it holds, *)
(* and that it is failed for good once it was refused memory, for every      *)
(* arena, every size and whatever the other clients do between two calls.    *)
EXTENDS Buf, ArenaProofs

(* Only a buffer that was set up has failed, and it counts its bytes.        *)
BufInv ==
    /\ b = [block |-> b.block, len |-> b.len, failed |-> b.failed, ready |-> b.ready]
    /\ b.len \in Nat
    /\ b.failed \in BOOLEAN /\ b.ready \in BOOLEAN
    /\ b.failed => b.ready

Remembered == b.failed /\ b' # NoBuf => b'.failed /\ b'.len <= b.len /\ b'.block = b.block

LEMMA NoBufIsBuf == b' = NoBuf => BufInv'
BY DEF NoBuf, BufInv

LEMMA FailsKeeps == BufInv /\ Fails => BufInv'
BY DEF BufInv, Fails

(* What the arena answers makes a buffer of a buffer. *)
LEMMA TakesKeeps ==
    ASSUME BufInv, NEW r, NEW size, NEW len \in Nat, Takes(r, size, len), ~ b.failed
    PROVE  BufInv'
<1>1. CASE r.chunk = NoChunk /\ a.fatal
  BY <1>1 DEF Takes, BufInv
<1>2. CASE r.chunk = NoChunk /\ ~ a.fatal
  BY <1>2, FailsKeeps DEF Takes
<1>3. CASE r.chunk # NoChunk
  <2> DEFINE block == Given(r, size, 1)
  <2>1. b' = [b EXCEPT !.block = block, !.len = len, !.ready = TRUE]
    BY <1>3 DEF Takes
  <2> HIDE DEF block
  <2> QED BY <2>1 DEF BufInv
<1> QED BY <1>1, <1>2, <1>3

(* A reservation keeps a buffer one, and leaves a failed one alone. *)
LEMMA ReserveKeeps ==
    ASSUME BufInv, NEW n, NEW extra \in Nat, Reserve(n, extra)
    PROVE  BufInv' /\ (b.failed => b' = b)
<1>1. CASE b.failed
  BY <1>1 DEF Reserve, BufInv
<1>2. CASE ~ b.failed /\ Fits(n)
  <2>1. b' = [b EXCEPT !.len = b.len + extra]
    BY <1>2 DEF Reserve
  <2>2. BufInv'
    BY <2>1 DEF BufInv
  <2> QED BY <1>2, <2>2
<1>3. CASE ~ b.failed /\ ~ Fits(n) /\ b.len > SizeMax - n - 1
  BY <1>3, FailsKeeps DEF Reserve
<1>4. CASE ~ b.failed /\ ~ Fits(n) /\ ~ b.len > SizeMax - n - 1
  <2> DEFINE size == Grown(b.len + n + 1)
  <2>1. PICK r \in arena_extend(a, b.block, size, 1) : Takes(r, size, b.len + extra)
    BY <1>4 DEF Reserve
  <2>2. b.len + extra \in Nat
    BY DEF BufInv
  <2> HIDE DEF size
  <2> QED BY <1>4, <2>1, <2>2, TakesKeeps
<1> QED BY <1>1, <1>2, <1>3, <1>4

(* Every step keeps a buffer one, and a failed buffer failed. *)
LEMMA StepRemembers == BufInv /\ [BufNext]_bufvars => BufInv' /\ Remembered
<1> SUFFICES ASSUME BufInv, [BufNext]_bufvars
             PROVE  BufInv' /\ Remembered
  OBVIOUS
<1>0. ASSUME b' = b PROVE BufInv' /\ Remembered
  BY <1>0 DEF BufInv, Remembered
<1>1. CASE buf_init
  <2>1. ~ b.ready /\ ~ b.failed
    BY <1>1 DEF buf_init, BufInv
  <2>2. PICK c \in Caps :
           LET initial == IF c = 0 THEN DefaultCap ELSE c
           IN \E r \in arena_alloc(a, initial, 1) : Takes(r, initial, 0)
    BY <1>1 DEF buf_init
  <2> DEFINE initial == IF c = 0 THEN DefaultCap ELSE c
  <2>3. PICK r \in arena_alloc(a, initial, 1) : Takes(r, initial, 0)
    BY <2>2
  <2> HIDE DEF initial
  <2>4. BufInv'
    BY <2>1, <2>3, TakesKeeps
  <2> QED BY <2>1, <2>4 DEF Remembered
<1>2. CASE buf_append
  <2>1. PICK n \in Appends : Reserve(n, n)
    BY <1>2 DEF buf_append
  <2>2. n \in Nat
    BY BufAssumption, ArenaAssumption
  <2>3. BufInv' /\ (b.failed => b' = b)
    BY <2>1, <2>2, ReserveKeeps
  <2> QED BY <2>3, <1>0 DEF Remembered
<1>3. CASE buf_cstr
  <2>1. BufInv' /\ (b.failed => b' = b)
    BY <1>3, ReserveKeeps DEF buf_cstr
  <2> QED BY <2>1, <1>0 DEF Remembered
<1>4. CASE buf_clear
  <2>1. b' = [b EXCEPT !.len = 0]
    BY <1>4 DEF buf_clear
  <2> QED BY <2>1 DEF BufInv, Remembered
<1>5. CASE Others
  <2>1. b' = b \/ b' = NoBuf
    BY <1>5 DEF Others
  <2>2. CASE b' = NoBuf
    BY <2>2, NoBufIsBuf DEF Remembered
  <2> QED BY <2>1, <2>2, <1>0
<1>6. CASE UNCHANGED bufvars
  BY <1>6, <1>0 DEF bufvars
<1> QED BY <1>1, <1>2, <1>3, <1>4, <1>5, <1>6 DEF BufNext

-----------------------------------------------------------------------------
(* Doubling the capacity.                                                    *)

(* f is what doubling comes to, from every capacity of S.                    *)
Doubling(f, want, S) ==
    f = [c \in S |-> IF c >= want THEN c ELSE IF c > SizeMax \div 2 THEN want ELSE f[2 * c]]

LEMMA DoublingExists ==
    ASSUME NEW want \in 1 .. SizeMax
    PROVE  \E f : Doubling(f, want, 1 .. SizeMax)
<1> DEFINE From(k) == SizeMax - k + 1 .. SizeMax
           X == {k \in 0 .. SizeMax : ~ \E f : Doubling(f, want, From(k))}
<1>0. SizeMax \in Nat
  BY ArenaAssumption
<1> SUFFICES ASSUME X # {} PROVE FALSE
  <2>1. From(SizeMax) = 1 .. SizeMax
    BY <1>0
  <2>2. SizeMax \in 0 .. SizeMax
    BY <1>0
  <2> QED BY <2>1, <2>2
<1>1. PICK k \in X : \A j \in X : k <= j
  <2>1. X \subseteq Nat
    BY <1>0
  <2> HIDE DEF X
  <2> QED BY <2>1, LeastExists
<1>2. k \in 0 .. SizeMax /\ ~ \E f : Doubling(f, want, From(k))
  OBVIOUS
<1>3. k # 0
  <2>1. From(0) = {}
    BY <1>0
  <2>2. Doubling([c \in {} |-> 0], want, {})
    BY DEF Doubling
  <2> QED BY <1>2, <2>1, <2>2
<1>4. k - 1 \in 0 .. SizeMax /\ k - 1 \notin X
  BY <1>0, <1>1, <1>2, <1>3
<1>5. PICK f : Doubling(f, want, From(k - 1))
  BY <1>4
<1> DEFINE e == SizeMax - k + 1
           v == IF e >= want THEN e ELSE IF e > SizeMax \div 2 THEN want ELSE f[2 * e]
           g == [c \in From(k) |-> IF c = e THEN v ELSE f[c]]
<1>6. From(k) = {e} \cup From(k - 1) /\ e \notin From(k - 1) /\ e \in 1 .. SizeMax
  BY <1>0, <1>2, <1>3
<1>7. \A c \in From(k) : c \in Nat /\ c >= e /\ (c <= SizeMax \div 2 => 2 * c \in From(k - 1))
  BY <1>0, <1>2, <1>3
<1> HIDE DEF e, From, X
<1>8. ASSUME NEW c \in From(k)
      PROVE  g[c] = IF c >= want THEN c ELSE IF c > SizeMax \div 2 THEN want ELSE g[2 * c]
  <2>1. CASE c >= want \/ c > SizeMax \div 2
    BY <1>5, <1>6, <2>1 DEF Doubling
  <2>2. CASE ~ (c >= want) /\ ~ (c > SizeMax \div 2)
    <3>1. 2 * c \in From(k - 1)
      BY <1>0, <1>7, <2>2
    <3>2. g[2 * c] = f[2 * c]
      BY <1>6, <3>1
    <3>3. g[c] = f[2 * c]
      BY <1>5, <1>6, <2>2 DEF Doubling
    <3> QED BY <2>2, <3>2, <3>3
  <2> QED BY <2>1, <2>2
<1>9. Doubling(g, want, From(k))
  <2> DEFINE h == [c \in From(k) |-> IF c >= want THEN c ELSE IF c > SizeMax \div 2 THEN want ELSE g[2 * c]]
  <2>1. \A c \in From(k) : g[c] = h[c]
    BY <1>8
  <2>2. g = h
    BY <2>1
  <2> QED BY <2>2 DEF Doubling
<1> QED BY <1>2, <1>9

(* The capacity it ends with holds what is wanted and is a size.             *)
LEMMA GrownHolds ==
    ASSUME NEW want \in 1 .. SizeMax, cap \in 1 .. SizeMax
    PROVE  Grown(want) \in want .. SizeMax
<1> DEFINE f == CHOOSE from : Doubling(from, want, 1 .. SizeMax)
           Y == {k \in 0 .. SizeMax - 1 : f[SizeMax - k] \notin want .. SizeMax}
<1>0. SizeMax \in Nat
  BY ArenaAssumption
<1>1. Grown(want) = f[cap]
  BY DEF Grown, Doubling
<1>2. Doubling(f, want, 1 .. SizeMax)
  BY DoublingExists
<1> HIDE DEF f
<1>3. Y = {}
  <2> SUFFICES ASSUME Y # {} PROVE FALSE
    OBVIOUS
  <2>1. PICK k \in Y : \A j \in Y : k <= j
    <3>1. Y \subseteq Nat
      BY <1>0
    <3> HIDE DEF Y
    <3> QED BY <3>1, LeastExists
  <2> DEFINE c == SizeMax - k
  <2>2. k \in 0 .. SizeMax - 1 /\ f[c] \notin want .. SizeMax /\ c \in 1 .. SizeMax
    BY <1>0
  <2>3. f[c] = IF c >= want THEN c ELSE IF c > SizeMax \div 2 THEN want ELSE f[2 * c]
    BY <1>2, <2>2 DEF Doubling
  <2>4. ~ (c >= want) /\ ~ (c > SizeMax \div 2)
    BY <1>0, <2>2, <2>3
  <2>5. SizeMax - 2 * c \in 0 .. SizeMax - 1 /\ SizeMax - 2 * c < k /\ SizeMax - (SizeMax - 2 * c) = 2 * c
    BY <1>0, <2>2, <2>4
  <2>6. SizeMax - 2 * c \notin Y
    BY <1>0, <2>1, <2>2, <2>5
  <2>7. f[2 * c] \in want .. SizeMax
    BY <2>5, <2>6
  <2> QED BY <2>2, <2>3, <2>4, <2>7
<1>4. SizeMax - cap \in 0 .. SizeMax - 1 /\ SizeMax - (SizeMax - cap) = cap
  BY <1>0
<1>5. f[cap] \in want .. SizeMax
  BY <1>3, <1>4
<1> QED BY <1>1, <1>5

-----------------------------------------------------------------------------
(* A buffer among the clients of the arena.                                  *)

(* What a buffer with a block holds, of the blocks in use.                   *)
Holds ==
    /\ b.block \in live /\ b.block.align = 1 /\ b.block.size \in 1 .. SizeMax
    /\ b.len = sent /\ kept >= b.len /\ b.len < cap

(* A buffer that has no block was not set up, or has failed.                 *)
BufWorld ==
    /\ BufInv
    /\ kept \in Nat
    /\ ~ b.ready => b = NoBuf
    /\ b.block # NoBlock => Holds
    /\ b.block = NoBlock /\ b.ready => b.failed

LEMMA NoBufWorld == b' = NoBuf /\ kept' = 0 => BufWorld'
<1> SUFFICES ASSUME b' = NoBuf, kept' = 0 PROVE BufWorld'
  OBVIOUS
<1>1. BufInv'
  BY NoBufIsBuf
<1>2. b'.block = NoBlock /\ ~ b'.ready
  BY DEF NoBuf
<1> QED BY <1>1, <1>2 DEF BufWorld

(* A step that leaves the buffer alone and its block in use.                 *)
LEMMA SameBufWorld ==
    ASSUME BufWorld, b' = b, kept' = kept, sent' = sent, b.block \in live => b.block \in live'
    PROVE  BufWorld'
<1>1. BufInv'
  BY DEF BufWorld, BufInv
<1>2. Holds => Holds'
  BY DEF Holds, cap
<1> QED BY <1>1, <1>2 DEF BufWorld

(* What the arena answers, taken: a block in which there is room for what is *)
(* held and a byte more, or a failure.                                       *)
LEMMA TakesWorld ==
    ASSUME BufWorld, ~ b.failed, NEW r, NEW size \in 1 .. SizeMax,
           NEW len \in Nat, b.len <= len, len < size, Takes(r, size, len),
           b.block = NoBlock => b.len = 0
    PROVE  BufWorld'
<1>1. BufInv /\ BufInv' /\ kept \in Nat /\ b.len \in Nat
  BY TakesKeeps DEF BufWorld, BufInv
<1>2. CASE r.chunk = NoChunk /\ a.fatal
  BY <1>2, SameBufWorld DEF Takes
<1>3. CASE r.chunk = NoChunk /\ ~ a.fatal
  <2>1. /\ b'.block = b.block /\ b'.len = b.len /\ b'.failed /\ b'.ready
        /\ live' = live /\ kept' = kept /\ sent' = sent
    BY <1>1, <1>3 DEF Takes, Fails, BufInv
  <2>2. Holds => Holds'
    BY <2>1 DEF Holds, cap
  <2> QED BY <1>1, <2>1, <2>2 DEF BufWorld
<1>4. CASE r.chunk # NoChunk
  <2> DEFINE block == Given(r, size, 1)
  <2>1. /\ b' = [b EXCEPT !.block = block, !.len = len, !.ready = TRUE]
        /\ live' = (live \ {b.block}) \cup {block}
        /\ kept' = (IF kept < cap THEN kept ELSE cap) + (len - b.len)
        /\ sent' = len
    BY <1>4 DEF Takes
  <2>2. block.align = 1 /\ block.size = size /\ block # NoBlock
    BY <1>4 DEF Given, NoBlock
  <2> HIDE DEF block
  <2>3. b'.block = block /\ b'.len = len /\ b'.ready /\ b'.failed = b.failed
    BY <1>1, <2>1 DEF BufInv
  <2>4. cap \in Nat /\ b.len <= kept /\ b.len <= cap
    <3>1. CASE b.block = NoBlock
      <4>1. cap = 0
        BY <3>1 DEF cap, NoBlock
      <4> QED BY <1>1, <3>1, <4>1
    <3>2. CASE b.block # NoBlock
      <4>1. Holds
        BY <3>2 DEF BufWorld
      <4>2. cap \in Nat
        BY <4>1, ArenaAssumption DEF Holds, cap
      <4> QED BY <1>1, <4>1, <4>2 DEF Holds
    <3> QED BY <3>1, <3>2
  <2>5. kept' \in Nat /\ kept' >= len
    BY <1>1, <2>1, <2>4
  <2>6. cap' = size
    BY <2>2, <2>3 DEF cap
  <2>7. Holds'
    BY <2>1, <2>2, <2>3, <2>5, <2>6 DEF Holds
  <2> QED BY <1>1, <2>2, <2>3, <2>5, <2>7 DEF BufWorld
<1> QED BY <1>2, <1>3, <1>4

(* ... and the arena and the blocks in use after it.                         *)
LEMMA TakesArena ==
    ASSUME ArenaInv, marks' = marks, NEW r, NEW size, NEW len, Takes(r, size, len),
           Budget(a, r.ar),
           r.chunk = NoChunk => World(r.ar, live, marks) /\ Refusal(a, r.ar),
           r.chunk # NoChunk => World(r.ar, (live \ {b.block}) \cup {Given(r, size, 1)}, marks)
    PROVE  ArenaInv' /\ Frugal /\ Harmless
<1>1. Good(a) /\ a' = r.ar
  BY WorldFields DEF ArenaInv, Takes
<1>2. CASE r.chunk = NoChunk
  <2>1. live' = live /\ answer' \in {"NULL", "abort"} /\ (answer' = "NULL" => ~ a.fatal)
    BY <1>2 DEF Takes, Fails
  <2>2. Refusal(a, a') /\ a'.exhausted
    BY <1>1, <1>2, RefusalKeeps
  <2> QED BY <1>1, <1>2, <2>1, <2>2 DEF ArenaInv, Frugal, Harmless, Budget, Refusal
<1>3. CASE r.chunk # NoChunk
  <2>1. live' = (live \ {b.block}) \cup {Given(r, size, 1)} /\ answer' = "ok"
    BY <1>3 DEF Takes
  <2> QED BY <1>1, <1>3, <2>1 DEF ArenaInv, Frugal, Harmless, Budget
<1> QED BY <1>2, <1>3

BufArenaInv == ArenaInv /\ BufWorld
Keeps == ArenaInv' /\ BufWorld' /\ Frugal /\ Harmless

LEMMA InitKeeps == BufArenaInv /\ buf_init => Keeps
<1> SUFFICES ASSUME BufArenaInv, buf_init PROVE Keeps
  OBVIOUS
<1>1. World(a, live, marks) /\ live \in SUBSET Block /\ b = NoBuf
  BY WorldFields DEF BufArenaInv, ArenaInv, BufWorld, buf_init
<1>2. b.block = NoBlock /\ b.len = 0 /\ ~ b.failed
  BY <1>1 DEF NoBuf
<1>3. NoBlock \notin live
  BY <1>1, BlockFields DEF NoBlock
<1>4. PICK c \in Caps :
           LET initial == IF c = 0 THEN DefaultCap ELSE c
           IN \E r \in arena_alloc(a, initial, 1) : Takes(r, initial, 0)
  BY DEF buf_init
<1> DEFINE initial == IF c = 0 THEN DefaultCap ELSE c
<1>5. PICK r \in arena_alloc(a, initial, 1) : Takes(r, initial, 0)
  BY <1>4
<1>6. initial \in 1 .. SizeMax
  BY BufAssumption, ArenaAssumption
<1> HIDE DEF initial
<1>7. initial \in 0 .. SizeMax /\ 0 < initial
  BY <1>6, ArenaAssumption
<1>8. /\ Budget(a, r.ar)
      /\ r.chunk = NoChunk => World(r.ar, live, marks) /\ Refusal(a, r.ar)
      /\ r.chunk # NoChunk => World(r.ar, live \cup {Given(r, initial, 1)}, marks)
  BY <1>1, <1>5, <1>7, AllocWorld
<1>9. live \cup {Given(r, initial, 1)} = (live \ {b.block}) \cup {Given(r, initial, 1)}
  BY <1>2, <1>3
<1>10. ArenaInv' /\ Frugal /\ Harmless
  BY <1>5, <1>8, <1>9, TakesArena DEF BufArenaInv, buf_init
<1>11. BufWorld'
  BY <1>2, <1>5, <1>6, <1>7, TakesWorld DEF BufArenaInv
<1> QED BY <1>10, <1>11 DEF Keeps

LEMMA ReserveHolds ==
    ASSUME BufArenaInv, b.ready, marks' = marks,
           NEW n \in 0 .. SizeMax, NEW extra \in 0 .. n, Reserve(n, extra)
    PROVE  Keeps
<1>1. /\ World(a, live, marks) /\ live \in SUBSET Block /\ Good(a) /\ BufInv /\ BufWorld /\ ArenaInv
      /\ a.reserved \in Nat /\ n \in Nat /\ extra \in Nat /\ extra <= n /\ SizeMax \in Nat
      /\ b.len \in Nat /\ kept \in Nat
  BY WorldFields, GoodFields, ArenaAssumption DEF BufArenaInv, ArenaInv, BufWorld, BufInv
<1>2. ASSUME a' = a, live' = live, answer' \in {"ok", "NULL", "abort"} PROVE ArenaInv' /\ Frugal /\ Harmless
  BY <1>1, <1>2 DEF ArenaInv, Frugal, Harmless
<1>3. CASE b.failed
  <2>1. a' = a /\ live' = live /\ b' = b /\ kept' = kept /\ sent' = sent /\ answer' = "NULL"
    BY <1>3 DEF Reserve
  <2>2. BufWorld'
    BY <1>1, <2>1, SameBufWorld
  <2> QED BY <1>2, <2>1, <2>2 DEF Keeps
<1>4. CASE ~ b.failed
  <2>1. b.block # NoBlock /\ Holds
    BY <1>1, <1>4 DEF BufWorld
  <2>2. /\ b.block \in live /\ b.block.align = 1 /\ cap \in 1 .. SizeMax /\ cap = b.block.size
        /\ b.len = sent /\ kept >= b.len /\ b.len < cap
    BY <2>1 DEF Holds, cap
  <2>3. CASE Fits(n)
    <3>1. /\ b' = [b EXCEPT !.len = b.len + extra] /\ kept' = kept + extra /\ sent' = sent + extra
          /\ a' = a /\ live' = live /\ answer' = "ok"
      BY <1>4, <2>3 DEF Reserve
    <3>2. b'.len = b.len + extra /\ b'.block = b.block /\ b'.ready = b.ready /\ b'.failed = b.failed
      BY <1>1, <3>1 DEF BufInv
    <3>3. b.len + extra < cap /\ cap' = cap /\ kept' \in Nat /\ kept' >= b.len + extra
      BY <1>1, <2>2, <2>3, <3>1, <3>2 DEF Fits, cap
    <3>4. BufInv'
      BY <1>1, ReserveKeeps
    <3>5. Holds'
      BY <2>1, <2>2, <3>1, <3>2, <3>3 DEF Holds
    <3>6. BufWorld'
      BY <1>4, <2>1, <3>2, <3>3, <3>4, <3>5 DEF BufWorld
    <3> QED BY <1>2, <3>1, <3>6 DEF Keeps
  <2>4. CASE ~ Fits(n) /\ b.len > SizeMax - n - 1
    <3>1. a' = a /\ Fails
      BY <1>4, <2>4 DEF Reserve
    <3>2. /\ b'.block = b.block /\ b'.len = b.len /\ b'.failed /\ b'.ready
          /\ live' = live /\ kept' = kept /\ sent' = sent /\ answer' = "NULL"
      BY <1>1, <3>1 DEF Fails, BufInv
    <3>3. BufInv'
      BY <1>1, <3>1, FailsKeeps
    <3>4. Holds'
      BY <2>1, <3>2 DEF Holds, cap
    <3>5. BufWorld'
      BY <1>1, <2>1, <3>2, <3>3, <3>4 DEF BufWorld
    <3> QED BY <1>2, <3>1, <3>2, <3>5 DEF Keeps
  <2>5. CASE ~ Fits(n) /\ ~ (b.len > SizeMax - n - 1)
    <3> DEFINE want == b.len + n + 1
               size == Grown(want)
    <3>1. PICK r \in arena_extend(a, b.block, size, 1) : Takes(r, size, b.len + extra)
      BY <1>4, <2>5 DEF Reserve
    <3>2. want \in 1 .. SizeMax /\ b.block.size <= want /\ b.len + extra < want
      BY <1>1, <2>2, <2>5 DEF Fits
    <3> HIDE DEF want
    <3>3. size \in want .. SizeMax
      BY <2>2, <3>2, GrownHolds
    <3> HIDE DEF size
    <3>4. size \in 0 .. SizeMax /\ size \in 1 .. SizeMax /\ b.block.size <= size /\ b.len + extra < size
          /\ b.len + extra \in Nat /\ b.len <= b.len + extra
      BY <1>1, <2>2, <3>2, <3>3
    <3>5. /\ Budget(a, r.ar)
          /\ r.chunk = NoChunk => World(r.ar, live, marks) /\ Refusal(a, r.ar)
          /\ r.chunk # NoChunk => World(r.ar, (live \ {b.block}) \cup {Given(r, size, b.block.align)}, marks)
      BY <1>1, <2>2, <3>1, <3>4, ExtendWorld
    <3>6. ArenaInv' /\ Frugal /\ Harmless
      BY <1>1, <2>2, <3>1, <3>5, TakesArena
    <3>7. BufWorld'
      BY <1>1, <1>4, <2>1, <3>1, <3>4, TakesWorld
    <3> QED BY <3>6, <3>7 DEF Keeps
  <2> QED BY <2>3, <2>4, <2>5
<1> QED BY <1>3, <1>4

LEMMA ClearKeeps == BufArenaInv /\ buf_clear => Keeps
<1> SUFFICES ASSUME BufArenaInv, buf_clear PROVE Keeps
  OBVIOUS
<1>1. /\ World(a, live, marks) /\ Good(a) /\ BufInv /\ BufWorld /\ a.reserved \in Nat
      /\ b.ready /\ SizeMax \in Nat
  BY WorldFields, GoodFields, ArenaAssumption DEF BufArenaInv, ArenaInv, BufWorld, buf_clear
<1>2. /\ b' = [b EXCEPT !.len = 0] /\ kept' = 0 /\ sent' = 0
      /\ a' = a /\ live' = live /\ marks' = marks /\ answer' = "ok"
  BY DEF buf_clear
<1>3. b'.len = 0 /\ b'.block = b.block /\ b'.ready = b.ready /\ b'.failed = b.failed /\ BufInv'
  BY <1>1, <1>2 DEF BufInv
<1>4. ASSUME Holds PROVE Holds'
  <2>1. cap' = cap /\ 0 < cap
    BY <1>1, <1>3, <1>4 DEF Holds, cap
  <2> QED BY <1>2, <1>3, <1>4, <2>1 DEF Holds
<1>5. BufWorld'
  BY <1>1, <1>2, <1>3, <1>4 DEF BufWorld
<1>6. ArenaInv' /\ Frugal /\ Harmless
  BY <1>1, <1>2 DEF ArenaInv, Frugal, Harmless
<1> QED BY <1>5, <1>6 DEF Keeps

LEMMA OthersKeep == BufArenaInv /\ Others => Keeps
<1> SUFFICES ASSUME BufArenaInv, Others PROVE Keeps
  OBVIOUS
<1>1. ArenaInv /\ BufWorld
  BY DEF BufArenaInv
<1>2. ArenaInv' /\ Frugal /\ Harmless
  BY <1>1, AllocKeeps, ExtendKeeps, ResetKeeps, SaveKeeps, RollbackKeeps, SetLimitKeeps DEF Others
<1>3. NoBlock \notin live
  <2>1. live \in SUBSET Block
    BY <1>1, WorldFields DEF ArenaInv
  <2> QED BY <2>1, BlockFields DEF NoBlock
<1>4. \/ b' = b /\ kept' = kept /\ sent' = sent /\ b.block \in live' \cup {NoBlock}
      \/ b' = NoBuf /\ kept' = 0
  BY DEF Others
<1>5. BufWorld'
  <2>1. CASE b' = NoBuf /\ kept' = 0
    BY <2>1, NoBufWorld
  <2>2. CASE b' = b /\ kept' = kept /\ sent' = sent /\ b.block \in live' \cup {NoBlock}
    BY <1>1, <1>3, <2>2, SameBufWorld
  <2> QED BY <1>4, <2>1, <2>2
<1> QED BY <1>2, <1>5 DEF Keeps

LEMMA BufStepKeeps ==
    BufArenaInv /\ [BufNext]_bufvars => BufArenaInv' /\ Frugal /\ (vars' # vars => Harmless)
<1> SUFFICES ASSUME BufArenaInv, [BufNext]_bufvars
             PROVE  BufArenaInv' /\ Frugal /\ (vars' # vars => Harmless)
  OBVIOUS
<1>1. ASSUME Keeps PROVE BufArenaInv' /\ Frugal /\ (vars' # vars => Harmless)
  BY <1>1 DEF Keeps, BufArenaInv
<1>2. CASE buf_init
  BY <1>1, <1>2, InitKeeps
<1>3. CASE buf_append
  <2>1. PICK n \in Appends : Reserve(n, n)
    BY <1>3 DEF buf_append
  <2>2. n \in 0 .. SizeMax /\ n \in 0 .. n
    BY BufAssumption, ArenaAssumption
  <2>3. b.ready /\ marks' = marks
    BY <1>3 DEF buf_append
  <2> QED BY <1>1, <2>1, <2>2, <2>3, ReserveHolds
<1>4. CASE buf_cstr
  <2>1. b.ready /\ marks' = marks /\ Reserve(1, 0)
    BY <1>4 DEF buf_cstr
  <2>2. 1 \in 0 .. SizeMax /\ 0 \in 0 .. 1
    BY ArenaAssumption
  <2> QED BY <1>1, <2>1, <2>2, ReserveHolds
<1>5. CASE buf_clear
  BY <1>1, <1>5, ClearKeeps
<1>6. CASE Others
  BY <1>1, <1>6, OthersKeep
<1>7. CASE UNCHANGED bufvars
  <2>1. a.reserved \in Nat
    BY WorldFields, GoodFields DEF BufArenaInv, ArenaInv
  <2>2. vars' = vars /\ a' = a /\ live' = live /\ marks' = marks /\ answer' = answer
    BY <1>7 DEF bufvars, vars
  <2>3. b' = b /\ kept' = kept /\ sent' = sent
    BY <1>7 DEF bufvars
  <2>4. BufWorld'
    BY <2>2, <2>3, SameBufWorld DEF BufArenaInv
  <2> QED BY <2>1, <2>2, <2>4 DEF BufArenaInv, ArenaInv, Frugal
<1> QED BY <1>2, <1>3, <1>4, <1>5, <1>6, <1>7 DEF BufNext

LEMMA BufStartsWell == BufInit => BufArenaInv
<1> SUFFICES ASSUME BufInit PROVE BufArenaInv
  OBVIOUS
<1>1. b.block = NoBlock /\ ~ b.ready /\ BufInv /\ kept = 0
  BY DEF BufInit, NoBuf, BufInv
<1> QED BY <1>1, StartsWell DEF BufInit, BufArenaInv, BufWorld

LEMMA AlwaysBufArenaInv == BufSpec => []BufArenaInv
BY BufStartsWell, BufStepKeeps, PTL DEF BufSpec

(* A buffer's block is its own and holds, in order, every byte accepted      *)
(* since it was empty, with one to spare, whatever moves, resets and         *)
(* refusals come between: buf_cstr's NUL is always inside (buf.c:29-110).    *)
THEOREM BuffersHold == BufSpec => []BufferHolds
<1>1. BufArenaInv => BufferHolds
  BY DEF BufArenaInv, BufWorld, Holds, BufferHolds
<1> QED BY <1>1, AlwaysBufArenaInv, PTL

(* What is proved of the arena and its clients still holds when one of them  *)
(* is a buffer, which asks for sizes of its own and extends its own block.   *)
THEOREM ArenaServesBuffers ==
    BufSpec => /\ [](TypeOK /\ BlocksApart /\ ChunksAccountedFor /\ MarksHold)
               /\ WithinBudget /\ RefusalIsHarmless
<1>1. BufArenaInv => TypeOK /\ BlocksApart /\ ChunksAccountedFor /\ MarksHold
  BY InvIsTyped, InvKeepsApart, InvCounts, InvHoldsMarks DEF BufArenaInv
<1>2. BufArenaInv /\ BufArenaInv' /\ [BufNext]_bufvars => [InBudget]_vars /\ [Harmless]_vars
  BY BufStepKeeps, CountedInBudget DEF BufArenaInv
<1>3. BufSpec => [](TypeOK /\ BlocksApart /\ ChunksAccountedFor /\ MarksHold)
  BY <1>1, AlwaysBufArenaInv, PTL
<1>4. BufSpec => [][InBudget]_vars /\ [][Harmless]_vars
  BY <1>2, AlwaysBufArenaInv, PTL DEF BufSpec
<1> QED BY <1>3, <1>4 DEF WithinBudget, RefusalIsHarmless, InBudget, Harmless

-----------------------------------------------------------------------------

(* A buffer that was refused memory once says so ever after, takes nothing   *)
(* more and keeps its block (buf.h:8-10).                                    *)
THEOREM FailureSticks == BufSpec => FailureIsRemembered
<1>1. BufInit => BufInv
  BY DEF BufInit, NoBuf, BufInv
<1>2. BufInv /\ [BufNext]_bufvars => BufInv'
  BY StepRemembers
<1>3. BufInv /\ [BufNext]_bufvars => [Remembered]_bufvars
  BY StepRemembers
<1>4. BufSpec => [][Remembered]_bufvars
  BY <1>1, <1>2, <1>3, PTL DEF BufSpec
<1> QED BY <1>4 DEF FailureIsRemembered, Remembered
=============================================================================
