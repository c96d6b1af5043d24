---------------------------- MODULE ArenaProofs ----------------------------
(* The allocator and its clients, for every number and size of chunks and    *)
(* every sequence of calls.  First what the functions of the allocator       *)
(* compute with (numbers, lists of chunks and the bytes they take), then one *)
(* lemma for each of them, and last the invariant of the clients.            *)
EXTENDS Arena, FiniteSetTheorems, SequenceTheorems, WellFoundedInduction, TLAPS

-----------------------------------------------------------------------------
(* Numbers.                                                                  *)

LEMMA LeastExists ==
    ASSUME NEW S, S \subseteq Nat, S # {}
    PROVE  \E x \in S : \A y \in S : x <= y
<1> DEFINE R == OpToRel(<, Nat)
<1>1. IsWellFoundedOn(R, Nat)
  BY NatLessThanWellFounded
<1>2. \A x, y \in Nat : x < y => <<x, y>> \in R
  BY DEF OpToRel
<1> HIDE DEF R
<1>3. PICK x \in S : \A y \in S : ~ (<<y, x>> \in R)
  BY <1>1, WFMin
<1>4. \A y \in S : ~ (y < x)
  BY <1>2, <1>3
<1> QED BY <1>3, <1>4

LEMMA SmallestIsIn ==
    ASSUME NEW S, S \subseteq Nat, S # {}
    PROVE  Smallest(S) \in S
BY LeastExists DEF Smallest

LEMMA Multiple ==
    ASSUME NEW q \in Nat, NEW al \in Nat \ {0}
    PROVE  al * q \in Nat /\ (al * q) % al = 0 /\ al * q + al = al * (q + 1)
OBVIOUS

LEMMA Divided ==
    ASSUME NEW x \in Nat, NEW al \in Nat \ {0}
    PROVE  (x % al) \in 0 .. al - 1 /\ x \div al \in Nat /\ x = al * (x \div al) + (x % al)
OBVIOUS

(* The padding of an address is less than the alignment, and aligns it.      *)
LEMMA PaddingAligns ==
    ASSUME NEW x \in Nat, NEW al \in Nat \ {0}, NEW off, off = x % al,
           NEW pad, pad = IF off = 0 THEN 0 ELSE al - off
    PROVE  pad \in 0 .. al - 1 /\ (x + pad) % al = 0
<1>1. off \in 0 .. al - 1 /\ x \div al \in Nat /\ x = al * (x \div al) + off
  BY Divided
<1>2. PICK q \in Nat : x = al * q + off
  BY <1>1
<1>3. al * q \in Nat /\ (al * q) % al = 0 /\ al * q + al = al * (q + 1)
  BY <1>2, Multiple
<1>4. q + 1 \in Nat
  BY <1>2
<1>5. (al * (q + 1)) % al = 0
  BY <1>4, Multiple
<1>6. CASE off = 0
  <2>1. x + pad = al * q /\ pad = 0
    BY <1>2, <1>3, <1>6
  <2> QED BY <1>3, <2>1
<1>7. CASE off # 0
  <2>1. x + pad = al * (q + 1)
    BY <1>1, <1>2, <1>3, <1>7
  <2>2. pad \in 0 .. al - 1
    BY <1>1, <1>7
  <2> QED BY <1>5, <2>1, <2>2
<1> QED BY <1>6, <1>7

-----------------------------------------------------------------------------
(* Lists of chunks.                                                          *)

(* No chunk is twice in a list. *)
Once(s) == \A i, j \in DOMAIN s : s[i] = s[j] => i = j

LEMMA Joined ==
    ASSUME NEW s \in Seq(Chunks), NEW t \in Seq(Chunks)
    PROVE  /\ s \o t \in Seq(Chunks) /\ Held(s \o t) = Held(s) \cup Held(t)
           /\ Once(s) /\ Once(t) /\ Held(s) \cap Held(t) = {} => Once(s \o t)
<1> DEFINE u == s \o t
<1>1. /\ u \in Seq(Chunks) /\ Len(u) = Len(s) + Len(t) /\ DOMAIN u = 1 .. Len(u)
      /\ \A i \in DOMAIN u : u[i] = IF i <= Len(s) THEN s[i] ELSE t[i - Len(s)]
  OBVIOUS
<1>2. Len(s) \in Nat /\ Len(t) \in Nat /\ DOMAIN s = 1 .. Len(s) /\ DOMAIN t = 1 .. Len(t)
  OBVIOUS
<1> HIDE DEF u
<1>3. \A i \in DOMAIN s : i \in DOMAIN u /\ u[i] = s[i]
  BY <1>1, <1>2
<1>4. \A i \in DOMAIN t : i + Len(s) \in DOMAIN u /\ u[i + Len(s)] = t[i]
  BY <1>1, <1>2
<1>5. ASSUME NEW i \in DOMAIN u
      PROVE  \/ i \in DOMAIN s /\ u[i] = s[i]
             \/ i - Len(s) \in DOMAIN t /\ i > Len(s) /\ u[i] = t[i - Len(s)]
  <2>1. CASE i <= Len(s)
    BY <1>1, <1>2, <2>1
  <2>2. CASE i > Len(s)
    BY <1>1, <1>2, <2>2
  <2> QED BY <1>1, <1>2, <2>1, <2>2
<1>6. Held(u) = Held(s) \cup Held(t)
  BY <1>3, <1>4, <1>5 DEF Held
<1>7. ASSUME Once(s), Once(t), Held(s) \cap Held(t) = {}, NEW i \in DOMAIN u, NEW j \in DOMAIN u, u[i] = u[j]
      PROVE  i = j
  <2>1. i \in Int /\ j \in Int
    BY <1>1
  <2>2. \A k \in DOMAIN s, l \in DOMAIN t : s[k] # t[l]
    BY <1>7 DEF Held
  <2>3. CASE i \in DOMAIN s /\ u[i] = s[i] /\ j \in DOMAIN s /\ u[j] = s[j]
    BY <1>7, <2>3 DEF Once
  <2>4. CASE i - Len(s) \in DOMAIN t /\ u[i] = t[i - Len(s)] /\ j - Len(s) \in DOMAIN t /\ u[j] = t[j - Len(s)]
    <3>1. i - Len(s) = j - Len(s)
      BY <1>7, <2>4 DEF Once
    <3> QED BY <1>2, <2>1, <3>1
  <2> QED BY <1>5, <1>7, <2>2, <2>3, <2>4
<1> QED BY <1>1, <1>6, <1>7 DEF Once, u

LEMMA Pushed ==
    ASSUME NEW s \in Seq(Chunks), NEW c \in Chunks
    PROVE  /\ <<c>> \o s \in Seq(Chunks) /\ Held(<<c>> \o s) = Held(s) \cup {c}
           /\ Len(<<c>> \o s) = Len(s) + 1 /\ <<c>> \o s # <<>> /\ Head(<<c>> \o s) = c
           /\ (<<c>> \o s)[1] = c
           /\ \A i \in 1 .. Len(s) : (<<c>> \o s)[i + 1] = s[i]
           /\ Once(s) /\ c \notin Held(s) => Once(<<c>> \o s)
<1>1. <<c>> \in Seq(Chunks) /\ Held(<<c>>) = {c} /\ Once(<<c>>)
  BY DEF Held, Once
<1>2. /\ Len(<<c>> \o s) = Len(s) + 1 /\ <<c>> \o s # <<>> /\ Head(<<c>> \o s) = c
      /\ (<<c>> \o s)[1] = c /\ \A i \in 1 .. Len(s) : (<<c>> \o s)[i + 1] = s[i]
  OBVIOUS
<1>3. Once(s) /\ c \notin Held(s) => Held(<<c>>) \cap Held(s) = {}
  BY <1>1
<1>4. /\ <<c>> \o s \in Seq(Chunks) /\ Held(<<c>> \o s) = Held(<<c>>) \cup Held(s)
      /\ Once(<<c>>) /\ Once(s) /\ Held(<<c>>) \cap Held(s) = {} => Once(<<c>> \o s)
  BY <1>1, Joined
<1> HIDE DEF Held, Once
<1> QED BY <1>1, <1>2, <1>3, <1>4

(* A part of a list. *)
LEMMA Part ==
    ASSUME NEW s \in Seq(Chunks), NEW m \in 1 .. Len(s) + 1, NEW n \in 0 .. Len(s)
    PROVE  /\ SubSeq(s, m, n) \in Seq(Chunks)
           /\ Held(SubSeq(s, m, n)) = {s[i] : i \in m .. n}
           /\ Once(s) => Once(SubSeq(s, m, n))
<1> DEFINE u == SubSeq(s, m, n)
<1>1. /\ u \in Seq(Chunks) /\ DOMAIN u = 1 .. Len(u)
      /\ Len(u) = IF m <= n THEN n - m + 1 ELSE 0
      /\ \A i \in 1 .. Len(u) : u[i] = s[m + i - 1]
  OBVIOUS
<1>2. Len(s) \in Nat /\ DOMAIN s = 1 .. Len(s)
  OBVIOUS
<1> HIDE DEF u
<1>3. ASSUME NEW i \in m .. n PROVE i - m + 1 \in DOMAIN u /\ u[i - m + 1] = s[i]
  BY <1>1, <1>2
<1>4. ASSUME NEW i \in DOMAIN u PROVE m + i - 1 \in m .. n /\ m + i - 1 \in DOMAIN s /\ u[i] = s[m + i - 1]
  BY <1>1, <1>2
<1>5. Held(u) = {s[i] : i \in m .. n}
  BY <1>3, <1>4 DEF Held
<1>6. ASSUME Once(s), NEW i \in DOMAIN u, NEW j \in DOMAIN u, u[i] = u[j] PROVE i = j
  <2>1. m + i - 1 = m + j - 1
    BY <1>4, <1>6 DEF Once
  <2> QED BY <2>1, <1>1
<1> QED BY <1>1, <1>5, <1>6 DEF Once, u

LEMMA Reversed ==
    ASSUME NEW s \in Seq(Chunks)
    PROVE  /\ Reverse(s) \in Seq(Chunks) /\ Held(Reverse(s)) = Held(s)
           /\ Once(s) => Once(Reverse(s))
<1> DEFINE u == Reverse(s)
<1>1. /\ Len(s) \in Nat /\ DOMAIN s = 1 .. Len(s) /\ u = [i \in 1 .. Len(s) |-> s[(Len(s) - i) + 1]]
      /\ DOMAIN u = 1 .. Len(s)
  BY DEF Reverse
<1>2. u \in [1 .. Len(s) -> Chunks]
  BY <1>1
<1>3. u \in Seq(Chunks)
  BY <1>1, <1>2
<1>4. \A i \in DOMAIN s : Len(s) - i + 1 \in DOMAIN u /\ u[i] = s[Len(s) - i + 1] /\ u[Len(s) - i + 1] = s[i]
  BY <1>1
<1> HIDE DEF u
<1>5. Held(u) = Held(s)
  BY <1>1, <1>4 DEF Held
<1>6. ASSUME Once(s), NEW i \in DOMAIN u, NEW j \in DOMAIN u, u[i] = u[j] PROVE i = j
  <2>1. Len(s) - i + 1 = Len(s) - j + 1
    BY <1>1, <1>4, <1>6 DEF Once
  <2> QED BY <2>1, <1>1
<1> QED BY <1>3, <1>5, <1>6 DEF Once, u

LEMMA Taken ==
    ASSUME NEW s \in Seq(Chunks), NEW i \in DOMAIN s, Once(s)
    PROVE  /\ RemoveAt(s, i) \in Seq(Chunks) /\ Once(RemoveAt(s, i))
           /\ Held(RemoveAt(s, i)) = Held(s) \ {s[i]} /\ s[i] \in Held(s)
<1> DEFINE u == SubSeq(s, 1, i - 1)
           v == SubSeq(s, i + 1, Len(s))
<1>1. Len(s) \in Nat /\ DOMAIN s = 1 .. Len(s) /\ i \in 1 .. Len(s)
  OBVIOUS
<1>2. u \in Seq(Chunks) /\ Once(u) /\ Held(u) = {s[j] : j \in 1 .. i - 1}
  <2>1. i - 1 \in 0 .. Len(s) /\ 1 \in 1 .. Len(s) + 1
    BY <1>1
  <2> QED BY <2>1, Part
<1>3. v \in Seq(Chunks) /\ Once(v) /\ Held(v) = {s[j] : j \in i + 1 .. Len(s)}
  <2>1. i + 1 \in 1 .. Len(s) + 1 /\ Len(s) \in 0 .. Len(s)
    BY <1>1
  <2> QED BY <2>1, Part
<1>4. RemoveAt(s, i) = u \o v
  BY DEF RemoveAt
<1> HIDE DEF u, v
<1>5. Held(s) = {s[j] : j \in 1 .. Len(s)}
  BY <1>1 DEF Held
<1>7. \A j, k \in 1 .. Len(s) : s[j] = s[k] => j = k
  BY <1>1 DEF Once
<1>8. Held(u) \cap Held(v) = {}
  BY <1>1, <1>2, <1>3, <1>7
<1>9. Held(u) \cup Held(v) = Held(s) \ {s[i]}
  <2>1. 1 .. Len(s) = (1 .. i - 1) \cup {i} \cup (i + 1 .. Len(s))
    BY <1>1
  <2>2. 1 .. i - 1 \subseteq 1 .. Len(s) /\ i + 1 .. Len(s) \subseteq 1 .. Len(s)
        /\ i \notin 1 .. i - 1 /\ i \notin i + 1 .. Len(s)
    BY <1>1
  <2> QED BY <1>1, <1>2, <1>3, <1>5, <1>7, <2>1, <2>2
<1>6. s[i] \in Held(s)
  BY DEF Held
<1> QED BY <1>2, <1>3, <1>4, <1>6, <1>8, <1>9, Joined

-----------------------------------------------------------------------------
(* The bytes of a set of chunks.                                             *)

(* Among some of the subsets of a finite set one has no other of them in it. *)
LEMMA SmallestSet ==
    ASSUME NEW S, IsFiniteSet(S), NEW X \in SUBSET SUBSET S, X # {}
    PROVE  \E T \in X : \A U \in X : U \subseteq T => U = T
<1>1. IsWellFoundedOn(StrictSubsetOrdering(S), FiniteSubsetsOf(S))
  BY FS_StrictSubsetOrderingWellFounded
<1>2. \A T \in SUBSET S : T \in FiniteSubsetsOf(S)
  BY FS_Subset DEF FiniteSubsetsOf
<1>3. \A T, U \in SUBSET S : U \subseteq T /\ U # T => <<U, T>> \in StrictSubsetOrdering(S)
  BY DEF StrictSubsetOrdering
<1>4. X \subseteq FiniteSubsetsOf(S)
  BY <1>2
<1>5. PICK T \in X : \A U \in X : ~ (<<U, T>> \in StrictSubsetOrdering(S))
  BY <1>1, <1>4, WFMin
<1> QED BY <1>3, <1>5

Pick(s) == CHOOSE x \in s : TRUE

(* The function that Total is defined by. *)
SumOn(cap, S, g) ==
    g = [s \in SUBSET S |-> IF s = {} THEN 0 ELSE (Hdr + cap[Pick(s)]) + g[s \ {Pick(s)}]]

LEMMA TotalIsSum == \A cap, S : Total(cap, S) = (CHOOSE g : SumOn(cap, S, g))[S]
BY DEF Total, MapThenSumSet, MapThenFoldSet, SumOn, Pick

LEMMA SumValue ==
    ASSUME NEW cap, NEW S, NEW g, SumOn(cap, S, g), NEW s \in SUBSET S
    PROVE  g[s] = IF s = {} THEN 0 ELSE (Hdr + cap[Pick(s)]) + g[s \ {Pick(s)}]
BY DEF SumOn

LEMMA SumsAgree ==
    ASSUME NEW cap, NEW S, IsFiniteSet(S), NEW T, NEW g, SumOn(cap, S, g), NEW h, SumOn(cap, T, h),
           NEW s, s \subseteq S, s \subseteq T
    PROVE  g[s] = h[s]
<1> DEFINE X == {u \in SUBSET S : u \subseteq T /\ g[u] # h[u]}
<1> SUFFICES ASSUME X # {} PROVE FALSE
  OBVIOUS
<1>1. X \in SUBSET SUBSET S
  OBVIOUS
<1>2. PICK u \in X : \A v \in X : v \subseteq u => v = u
  <2> HIDE DEF X
  <2> QED BY <1>1, SmallestSet
<1>3. u \subseteq S /\ u \subseteq T /\ g[u] # h[u]
  BY <1>2
<1>4. CASE u = {}
  BY <1>3, <1>4, SumValue
<1>5. CASE u # {}
  <2> DEFINE v == u \ {Pick(u)}
  <2>1. Pick(u) \in u
    BY <1>5 DEF Pick
  <2>2. v \subseteq u /\ v # u
    BY <2>1
  <2>3. g[v] = h[v]
    BY <1>2, <1>3, <2>2
  <2>4. g[u] = (Hdr + cap[Pick(u)]) + g[v] /\ h[u] = (Hdr + cap[Pick(u)]) + h[v]
    BY <1>3, <1>5, SumValue
  <2> QED BY <1>3, <2>3, <2>4
<1> QED BY <1>4, <1>5

LEMMA SumsExist ==
    ASSUME NEW cap, NEW S, IsFiniteSet(S)
    PROVE  \E g : SumOn(cap, S, g)
<1> DEFINE X == {T \in SUBSET S : ~ \E g : SumOn(cap, T, g)}
<1> SUFFICES ASSUME X # {} PROVE FALSE
  OBVIOUS
<1>1. X \in SUBSET SUBSET S
  OBVIOUS
<1>2. PICK T \in X : \A U \in X : U \subseteq T => U = T
  <2> HIDE DEF X
  <2> QED BY <1>1, SmallestSet
<1>3. T \subseteq S /\ \A U \in SUBSET T : U # T => \E g : SumOn(cap, U, g)
  BY <1>2
<1> DEFINE F(r) == CHOOSE h : SumOn(cap, r, h)
           G(r) == F(r)[r]
           g == [s \in SUBSET T |-> IF s = {} THEN 0 ELSE (Hdr + cap[Pick(s)]) + G(s \ {Pick(s)})]
<1>4. \A r \in SUBSET T : r # T => SumOn(cap, r, F(r))
  BY <1>3
<1>5. \A s \in SUBSET T : g[s] = IF s = {} THEN 0 ELSE (Hdr + cap[Pick(s)]) + G(s \ {Pick(s)})
  OBVIOUS
<1> HIDE DEF F, g
<1>6. ASSUME NEW r \in SUBSET T, r # T PROVE g[r] = G(r)
  <2>1. G(r) = IF r = {} THEN 0 ELSE (Hdr + cap[Pick(r)]) + F(r)[r \ {Pick(r)}]
    BY <1>4, <1>6, SumValue
  <2>2. CASE r = {}
    BY <1>5, <2>1, <2>2
  <2>3. CASE r # {}
    <3> DEFINE q == r \ {Pick(r)}
    <3>1. Pick(r) \in r
      BY <2>3 DEF Pick
    <3>2. q \in SUBSET T /\ q # T /\ q \subseteq r
      BY <1>6, <3>1
    <3>3. SumOn(cap, r, F(r)) /\ SumOn(cap, q, F(q)) /\ IsFiniteSet(r)
      BY <1>3, <1>4, <1>6, <3>2, FS_Subset
    <3> HIDE DEF q
    <3>4. F(r)[q] = F(q)[q]
      BY <3>2, <3>3, SumsAgree
    <3> QED BY <1>5, <2>1, <2>3, <3>4 DEF q
  <2> QED BY <2>2, <2>3
<1>7. SumOn(cap, T, g)
  <2>1. ASSUME NEW s \in SUBSET T, s # {} PROVE g[s \ {Pick(s)}] = G(s \ {Pick(s)})
    <3>1. Pick(s) \in s
      BY <2>1 DEF Pick
    <3>2. s \ {Pick(s)} \in SUBSET T /\ s \ {Pick(s)} # T
      BY <3>1
    <3> QED BY <1>6, <3>2
  <2>2. g = [s \in SUBSET T |-> IF s = {} THEN 0 ELSE (Hdr + cap[Pick(s)]) + g[s \ {Pick(s)}]]
    BY <2>1 DEF g
  <2> QED BY <2>2 DEF SumOn
<1> QED BY <1>2, <1>7

LEMMA TotalStep ==
    ASSUME NEW cap, NEW S, IsFiniteSet(S)
    PROVE  Total(cap, S) = IF S = {} THEN 0 ELSE (Hdr + cap[Pick(S)]) + Total(cap, S \ {Pick(S)})
<1> DEFINE g == CHOOSE f : SumOn(cap, S, f)
           r == S \ {Pick(S)}
           h == CHOOSE f : SumOn(cap, r, f)
<1>1. IsFiniteSet(r) /\ r \subseteq S
  BY FS_RemoveElement
<1>2. SumOn(cap, S, g) /\ SumOn(cap, r, h)
  BY <1>1, SumsExist
<1>3. Total(cap, S) = g[S] /\ Total(cap, r) = h[r]
  BY TotalIsSum
<1> HIDE DEF g, h
<1>4. g[r] = h[r]
  BY <1>1, <1>2, SumsAgree
<1>5. g[S] = IF S = {} THEN 0 ELSE (Hdr + cap[Pick(S)]) + g[r]
  BY <1>2, SumValue
<1> QED BY <1>3, <1>4, <1>5

(* Every chunk counts, in any order. *)
LEMMA TotalSplit ==
    ASSUME NEW cap \in [Chunks -> Nat], NEW S \in SUBSET Chunks, IsFiniteSet(S)
    PROVE  /\ Total(cap, S) \in Nat
           /\ \A c \in S : Total(cap, S) = (Hdr + cap[c]) + Total(cap, S \ {c})
<1> DEFINE Splits(T) == /\ Total(cap, T) \in Nat
                        /\ \A c \in T : Total(cap, T) = (Hdr + cap[c]) + Total(cap, T \ {c})
           X == {T \in SUBSET S : ~ Splits(T)}
<1> SUFFICES ASSUME X # {} PROVE FALSE
  OBVIOUS
<1>1. X \in SUBSET SUBSET S
  OBVIOUS
<1>2. PICK T \in X : \A U \in X : U \subseteq T => U = T
  <2> HIDE DEF X
  <2> QED BY <1>1, SmallestSet
<1>3. T \subseteq S /\ ~ Splits(T) /\ \A U \in SUBSET T : U # T => Splits(U)
  BY <1>2
<1> HIDE DEF X
<1>4. \A U \in SUBSET T : IsFiniteSet(U)
  BY <1>3, FS_Subset
<1>5. CASE T = {}
  <2>1. Total(cap, T) = 0
    BY <1>4, <1>5, TotalStep
  <2>2. Splits(T)
    BY <1>5, <2>1
  <2> QED BY <1>3, <2>2
<1>6. CASE T # {}
  <2> DEFINE x == Pick(T)
  <2>1. x \in T
    BY <1>6 DEF Pick
  <2>2. Total(cap, T) = (Hdr + cap[x]) + Total(cap, T \ {x})
    BY <1>4, <1>6, TotalStep
  <2> HIDE DEF x
  <2>3. \A c \in T : Hdr + cap[c] \in Nat
    BY <1>3, ArenaAssumption
  <2>4. Splits(T \ {x})
    BY <1>3, <2>1
  <2>5. Total(cap, T) \in Nat
    BY <2>1, <2>2, <2>3, <2>4
  <2>6. ASSUME NEW c \in T, c # x PROVE Total(cap, T) = (Hdr + cap[c]) + Total(cap, T \ {c})
    <3>1. (T \ {x}) \ {c} = (T \ {c}) \ {x} /\ c \in T \ {x} /\ x \in T \ {c} /\ T \ {c} # T
          /\ (T \ {c}) \ {x} # T /\ (T \ {c}) \ {x} \subseteq T
      BY <2>1, <2>6
    <3>2. Splits(T \ {c}) /\ Splits((T \ {c}) \ {x})
      BY <1>3, <3>1
    <3> DEFINE n == Total(cap, (T \ {c}) \ {x})
    <3>3. Total(cap, T \ {x}) = (Hdr + cap[c]) + n /\ Total(cap, T \ {c}) = (Hdr + cap[x]) + n /\ n \in Nat
      BY <2>4, <3>1, <3>2
    <3>4. Hdr + cap[c] \in Nat /\ Hdr + cap[x] \in Nat
      BY <2>1, <2>3
    <3> HIDE DEF n, Splits
    <3> QED BY <2>2, <3>3, <3>4
  <2> QED BY <1>3, <2>2, <2>5, <2>6
<1> QED BY <1>5, <1>6

LEMMA TotalSame ==
    ASSUME NEW cap \in [Chunks -> Nat], NEW cap2 \in [Chunks -> Nat], NEW S \in SUBSET Chunks, IsFiniteSet(S),
           \A c \in S : cap2[c] = cap[c]
    PROVE  Total(cap2, S) = Total(cap, S)
<1> DEFINE X == {T \in SUBSET S : Total(cap2, T) # Total(cap, T)}
<1> SUFFICES ASSUME X # {} PROVE FALSE
  OBVIOUS
<1>1. X \in SUBSET SUBSET S
  OBVIOUS
<1>2. PICK T \in X : \A U \in X : U \subseteq T => U = T
  <2> HIDE DEF X
  <2> QED BY <1>1, SmallestSet
<1>3. T \subseteq S /\ Total(cap2, T) # Total(cap, T)
      /\ \A U \in SUBSET T : U # T => Total(cap2, U) = Total(cap, U)
  BY <1>2
<1> HIDE DEF X
<1>4. IsFiniteSet(T)
  BY <1>3, FS_Subset
<1>5. CASE T = {}
  BY <1>3, <1>4, <1>5, TotalStep
<1>6. CASE T # {}
  <2>1. Pick(T) \in T
    BY <1>6 DEF Pick
  <2>2. Total(cap2, T \ {Pick(T)}) = Total(cap, T \ {Pick(T)})
    BY <1>3, <2>1
  <2>3. cap2[Pick(T)] = cap[Pick(T)]
    BY <1>3, <2>1
  <2> QED BY <1>3, <1>4, <1>6, <2>2, <2>3, TotalStep
<1> QED BY <1>5, <1>6

(* A chunk more, and nothing else changed. *)
LEMMA TotalAdds ==
    ASSUME NEW cap \in [Chunks -> Nat], NEW cap2 \in [Chunks -> Nat], NEW S \in SUBSET Chunks, IsFiniteSet(S),
           NEW c \in Chunks \ S, \A d \in S : cap2[d] = cap[d]
    PROVE  Total(cap2, S \cup {c}) = Total(cap, S) + (Hdr + cap2[c])
<1>1. (S \cup {c}) \ {c} = S /\ IsFiniteSet(S \cup {c}) /\ S \cup {c} \in SUBSET Chunks /\ c \in S \cup {c}
  BY FS_AddElement
<1>2. Total(cap2, S \cup {c}) = (Hdr + cap2[c]) + Total(cap2, S)
  BY <1>1, TotalSplit
<1>3. Total(cap2, S) = Total(cap, S) /\ Total(cap, S) \in Nat
  BY TotalSame, TotalSplit
<1>4. Hdr + cap2[c] \in Nat
  BY ArenaAssumption
<1> QED BY <1>2, <1>3, <1>4

(* A list that holds no chunk twice is as long as its chunks are many. *)
LEMMA HeldCount ==
    ASSUME NEW s \in Seq(Chunks), Once(s)
    PROVE  IsFiniteSet(Held(s)) /\ Cardinality(Held(s)) = Len(s)
<1>1. Len(s) \in Nat /\ DOMAIN s = 1 .. Len(s) /\ s = [i \in 1 .. Len(s) |-> s[i]]
  OBVIOUS
<1>2. s \in [1 .. Len(s) -> Held(s)]
  BY <1>1 DEF Held
<1>3. s \in Surjection(1 .. Len(s), Held(s))
  BY <1>1, <1>2 DEF Surjection, Held
<1>4. s \in Injection(1 .. Len(s), Held(s))
  BY <1>1, <1>2 DEF Injection, IsInjective, Once
<1>5. IsFiniteSet(1 .. Len(s)) /\ Cardinality(1 .. Len(s)) = Len(s)
  <2>1. 1 \in Int /\ Len(s) \in Int
    BY <1>1
  <2>2. IsFiniteSet(1 .. Len(s)) /\ Cardinality(1 .. Len(s)) = IF 1 > Len(s) THEN 0 ELSE Len(s) - 1 + 1
    BY <2>1, FS_Interval
  <2> QED BY <1>1, <2>2
<1> QED BY <1>3, <1>4, <1>5, FS_Surjection

-----------------------------------------------------------------------------
(* A well-formed arena.                                                      *)

NextChunks == 1 .. (IF FirstChunk > MaxChunk THEN FirstChunk ELSE MaxChunk)
ArenaSet ==
    [current : Seq(Chunks), spare : Seq(Chunks),
     cap : [Chunks -> Nat], used : [Chunks -> Nat], base : [Chunks -> Nat],
     next_chunk : NextChunks, reserved : 0 .. SizeMax, peak : 0 .. SizeMax, limit : 0 .. SizeMax,
     fatal : BOOLEAN, exhausted : BOOLEAN]

(* What the chunks take is counted.                                          *)
Balanced(ar) == ar.reserved = Total(ar.cap, Owned(ar)) /\ ar.peak >= ar.reserved

(* Its lists hold no chunk twice, and no chunk in common.                    *)
Good(ar) ==
    /\ ar \in ArenaSet
    /\ \A c \in Chunks : ar.used[c] <= ar.cap[c]
    /\ Once(ar.current) /\ Once(ar.spare) /\ Held(ar.current) \cap Held(ar.spare) = {}
    /\ Balanced(ar)

LEMMA CapForHolds ==
    ASSUME NEW cap \in Nat, NEW need \in Nat
    PROVE  CapFor(cap, need) \in Nat /\ CapFor(cap, need) >= need
<1> DEFINE reachable == {d \in cap .. 2 * (MaxChunk \div 2) : \E k \in 0 .. d : d = cap * 2^k}
           enough == {d \in reachable : d >= need}
<1>1. enough \subseteq Nat /\ \A d \in enough : d >= need
  OBVIOUS
<1>2. CapFor(cap, need) = IF cap >= need THEN cap ELSE IF enough # {} THEN Smallest(enough) ELSE need
  BY DEF CapFor
<1> HIDE DEF enough, reachable
<1>3. CASE cap >= need
  BY <1>2, <1>3
<1>4. CASE ~ cap >= need /\ enough # {}
  <2>1. Smallest(enough) \in enough
    BY <1>1, <1>4, SmallestIsIn
  <2>2. CapFor(cap, need) = Smallest(enough)
    BY <1>2, <1>4
  <2> QED BY <1>1, <2>1, <2>2
<1>5. CASE ~ cap >= need /\ ~ enough # {}
  BY <1>2, <1>5
<1> QED BY <1>3, <1>4, <1>5

LEMMA NextChunkType == ASSUME NEW n \in NextChunks PROVE NextChunk(n) \in NextChunks /\ n \in Nat
BY ArenaAssumption DEF NextChunks, NextChunk

LEMMA ModType == ASSUME NEW n \in Nat PROVE Mod(n) \in 0 .. SizeMax
<1> DEFINE m == SizeMax + 1
<1>1. m \in Nat \ {0} /\ 0 .. m - 1 = 0 .. SizeMax /\ Mod(n) = n % m
  BY ArenaAssumption DEF Mod
<1> HIDE DEF m
<1>2. (n % m) \in 0 .. m - 1
  BY <1>1, Divided
<1> QED BY <1>1, <1>2

LEMMA ModSmall == ASSUME NEW n \in 0 .. SizeMax PROVE Mod(n) = n
<1> DEFINE m == SizeMax + 1
<1>1. m \in Nat \ {0} /\ n \in 0 .. m - 1 /\ Mod(n) = n % m
  BY ArenaAssumption DEF Mod
<1> HIDE DEF m
<1> QED BY <1>1

LEMMA PadAtAligns ==
    ASSUME NEW ar, Good(ar), NEW c \in Chunks, NEW at \in Nat, NEW al \in Nat \ {0}
    PROVE  PadAt(ar, c, at, al) \in 0 .. al - 1 /\ (ar.base[c] + (at + PadAt(ar, c, at, al))) % al = 0
<1>1. ar.base[c] \in Nat
  BY DEF Good, ArenaSet
<1> DEFINE x == ar.base[c] + at
           off == x % al
           pad == IF off = 0 THEN 0 ELSE al - off
<1>2. PadAt(ar, c, at, al) = pad
  BY DEF PadAt
<1>3. x \in Nat
  BY <1>1
<1> HIDE DEF x
<1>4. pad \in 0 .. al - 1 /\ (x + pad) % al = 0
  BY <1>3, PaddingAligns
<1> HIDE DEF pad
<1>5. x + pad = ar.base[c] + (at + pad)
  BY <1>1, <1>4 DEF x
<1> QED BY <1>2, <1>4, <1>5

-----------------------------------------------------------------------------
(* What the functions of arena.c do to a well-formed arena.                  *)

(* A request that failed: nothing but the size of the next chunk and the     *)
(* flag is changed.                                                          *)
Refusal(ar, br) == br = [ar EXCEPT !.next_chunk = br.next_chunk, !.exhausted = TRUE]

Budget(ar, br) == br.reserved > ar.reserved => ar.limit = 0 \/ br.reserved <= ar.limit

(* The chunks in use stay where they were, used at least as far, and at most *)
(* one chunk is put on top of them.                                          *)
Kept(ar, br) ==
    /\ \/ br.current = ar.current
       \/ \E c \in Chunks \ Held(ar.current) : br.current = <<c>> \o ar.current
    /\ \A c \in Held(ar.current) : br.base[c] = ar.base[c] /\ br.used[c] >= ar.used[c]
    /\ br.fatal = ar.fatal /\ br.limit = ar.limit

(* A new chunk is on top of those in use.                                    *)
Grew(ar, need, br) ==
    \E c \in Chunks \ Held(ar.current) :
        /\ br.current = <<c>> \o ar.current
        /\ br.used[c] = 0 /\ br.cap[c] >= need
        /\ \A d \in Held(ar.current) : br.base[d] = ar.base[d] /\ br.used[d] = ar.used[d]
        /\ br.fatal = ar.fatal /\ br.limit = ar.limit

LEMMA HeldType == ASSUME NEW s \in Seq(Chunks) PROVE Held(s) \subseteq Chunks /\ \A i \in DOMAIN s : s[i] \in Held(s)
BY DEF Held

LEMMA GoodFields ==
    ASSUME NEW ar, Good(ar)
    PROVE  /\ ar \in ArenaSet /\ Balanced(ar)
           /\ ar.current \in Seq(Chunks) /\ ar.spare \in Seq(Chunks) /\ ar.next_chunk \in NextChunks
           /\ ar.cap \in [Chunks -> Nat] /\ ar.used \in [Chunks -> Nat] /\ ar.base \in [Chunks -> Nat]
           /\ ar.reserved \in Nat /\ ar.peak \in 0 .. SizeMax /\ ar.limit \in Nat
           /\ \A c \in Chunks : ar.used[c] <= ar.cap[c]
           /\ Once(ar.current) /\ Once(ar.spare) /\ Held(ar.current) \cap Held(ar.spare) = {}
<1>1. ar \in ArenaSet
  BY DEF Good
<1>2. ar.reserved \in Nat /\ ar.limit \in Nat
  BY <1>1, ArenaAssumption DEF ArenaSet
<1>3. /\ ar.current \in Seq(Chunks) /\ ar.spare \in Seq(Chunks) /\ ar.next_chunk \in NextChunks
      /\ ar.cap \in [Chunks -> Nat] /\ ar.used \in [Chunks -> Nat] /\ ar.base \in [Chunks -> Nat]
      /\ ar.peak \in 0 .. SizeMax
  BY <1>1 DEF ArenaSet
<1> QED BY <1>1, <1>2, <1>3 DEF Good

(* An arena whose fields are given anew.                                     *)
Rebuilt(ar, cur, sp, p, u, s, n, r, k) ==
    [ar EXCEPT !.current = cur, !.spare = sp, !.cap = p, !.used = u, !.base = s,
               !.next_chunk = n, !.reserved = r, !.peak = k]

(* arena_grow takes the first spare chunk that is large enough ... *)
Reused(ar, i) ==
    [ar EXCEPT !.spare = RemoveAt(@, i), !.current = <<ar.spare[i]>> \o @, !.used[ar.spare[i]] = 0]

LEMMA Reuses ==
    ASSUME NEW ar, Good(ar), NEW need \in Nat, NEW i \in DOMAIN ar.spare, ar.cap[ar.spare[i]] >= need,
           NEW br, br = Reused(ar, i)
    PROVE  Good(br) /\ Budget(ar, br) /\ Grew(ar, need, br)
<1>0. /\ ar \in ArenaSet /\ Balanced(ar)
      /\ ar.current \in Seq(Chunks) /\ ar.spare \in Seq(Chunks) /\ ar.next_chunk \in NextChunks
      /\ ar.cap \in [Chunks -> Nat] /\ ar.used \in [Chunks -> Nat] /\ ar.base \in [Chunks -> Nat]
      /\ ar.reserved \in Nat /\ ar.peak \in 0 .. SizeMax /\ ar.limit \in Nat
      /\ \A d \in Chunks : ar.used[d] <= ar.cap[d]
      /\ Once(ar.current) /\ Once(ar.spare) /\ Held(ar.current) \cap Held(ar.spare) = {}
  BY GoodFields
<1> DEFINE c == ar.spare[i]
           cur == <<c>> \o ar.current
           sp == RemoveAt(ar.spare, i)
           u == [ar.used EXCEPT ![c] = 0]
<1>1. sp \in Seq(Chunks) /\ Once(sp) /\ Held(sp) = Held(ar.spare) \ {c} /\ c \in Held(ar.spare)
  BY <1>0, Taken
<1>2. c \in Chunks /\ c \notin Held(ar.current)
  BY <1>1, <1>0, HeldType
<1>3. cur \in Seq(Chunks) /\ Once(cur) /\ Held(cur) = Held(ar.current) \cup {c}
  BY <1>2, <1>0, Pushed
<1>4. u \in [Chunks -> Nat] /\ u[c] = 0 /\ \A d \in Chunks \ {c} : u[d] = ar.used[d]
  BY <1>2, <1>0
<1>5. br = Rebuilt(ar, cur, sp, ar.cap, u, ar.base, ar.next_chunk, ar.reserved, ar.peak)
  <2>1. ar \in ArenaSet
    BY <1>0
  <2> QED BY <2>1 DEF Rebuilt, Reused, ArenaSet
<1>6. ar.reserved \in 0 .. SizeMax
  BY <1>0 DEF ArenaSet
<1>16. ar.cap[c] >= need
  OBVIOUS
<1> HIDE DEF c, cur, sp, u
<1>7. /\ br \in ArenaSet
      /\ br.current = cur /\ br.spare = sp /\ br.cap = ar.cap /\ br.used = u /\ br.base = ar.base
      /\ br.reserved = ar.reserved /\ br.peak = ar.peak /\ br.limit = ar.limit /\ br.fatal = ar.fatal
  <2>1. /\ ar \in ArenaSet /\ ar.cap \in [Chunks -> Nat] /\ ar.base \in [Chunks -> Nat]
        /\ ar.next_chunk \in NextChunks /\ ar.reserved \in 0 .. SizeMax /\ ar.peak \in 0 .. SizeMax
    BY <1>0, <1>6
  <2>2. cur \in Seq(Chunks) /\ sp \in Seq(Chunks) /\ u \in [Chunks -> Nat]
    BY <1>1, <1>3, <1>4
  <2> QED BY <1>5, <2>1, <2>2 DEF Rebuilt, ArenaSet
<1>8. \A d \in Chunks : br.used[d] <= br.cap[d]
  <2> SUFFICES ASSUME NEW d \in Chunks PROVE u[d] <= ar.cap[d]
    BY <1>7
  <2>1. ar.used[d] <= ar.cap[d] /\ ar.cap[d] \in Nat
    BY <1>0
  <2> QED BY <1>4, <2>1
<1>9. Owned(br) = Owned(ar)
  BY <1>1, <1>3, <1>7 DEF Owned
<1>10. Balanced(br)
  BY <1>7, <1>9, <1>0 DEF Balanced
<1>11. Held(br.current) \cap Held(br.spare) = {}
  BY <1>1, <1>2, <1>3, <1>7, <1>0
<1>12. Good(br)
  BY <1>1, <1>3, <1>7, <1>8, <1>10, <1>11 DEF Good
<1>13. Budget(ar, br)
  BY <1>7, <1>0 DEF Budget
<1>14. Held(ar.current) \subseteq Chunks \ {c}
  BY <1>2, <1>0, HeldType
<1>15. Grew(ar, need, br)
  <2>1. br.used[c] = 0 /\ br.cap[c] >= need
    BY <1>4, <1>7, <1>16
  <2>2. \A d \in Held(ar.current) : br.base[d] = ar.base[d] /\ br.used[d] = ar.used[d]
    BY <1>4, <1>7, <1>14
  <2>3. br.current = <<c>> \o ar.current
    BY <1>7 DEF cur
  <2> QED BY <1>2, <1>7, <2>1, <2>2, <2>3 DEF Grew
<1> QED BY <1>12, <1>13, <1>15

LEMMA OwnedType ==
    ASSUME NEW ar, Good(ar)
    PROVE  /\ Owned(ar) \in SUBSET Chunks /\ IsFiniteSet(Owned(ar)) /\ Total(ar.cap, Owned(ar)) \in Nat
           /\ Cardinality(Owned(ar)) = Len(ar.current) + Len(ar.spare)
<1>1. ar.current \in Seq(Chunks) /\ ar.spare \in Seq(Chunks) /\ ar.cap \in [Chunks -> Nat]
  BY DEF Good, ArenaSet
<1>2. Owned(ar) \in SUBSET Chunks
  BY <1>1, HeldType DEF Owned
<1>3. /\ IsFiniteSet(Held(ar.current)) /\ Cardinality(Held(ar.current)) = Len(ar.current)
      /\ IsFiniteSet(Held(ar.spare)) /\ Cardinality(Held(ar.spare)) = Len(ar.spare)
  BY <1>1, HeldCount DEF Good
<1>4. IsFiniteSet(Owned(ar)) /\ Cardinality(Owned(ar)) = Len(ar.current) + Len(ar.spare)
  <2>1. Held(ar.current) \cap Held(ar.spare) = {} /\ Len(ar.current) \in Nat /\ Len(ar.spare) \in Nat
    BY <1>1 DEF Good
  <2>2. /\ IsFiniteSet(Owned(ar))
        /\ Cardinality(Owned(ar)) = Cardinality(Held(ar.current)) + Cardinality(Held(ar.spare))
                                     - Cardinality(Held(ar.current) \cap Held(ar.spare))
    BY <1>3, FS_Union DEF Owned
  <2>3. Cardinality(Held(ar.current) \cap Held(ar.spare)) = 0
    BY <2>1, FS_EmptySet
  <2> QED BY <1>3, <2>1, <2>2, <2>3
<1> QED BY <1>1, <1>2, <1>4, TotalSplit

(* What a new chunk takes can be counted: all chunks lie apart. *)
LEMMA Counted ==
    ASSUME NEW ar, Good(ar), NEW cap \in Nat, MallocCan(ar, Hdr + cap)
    PROVE  /\ ar.reserved + Hdr + cap \in 0 .. SizeMax
           /\ Mod(ar.reserved + Hdr + cap) = ar.reserved + Hdr + cap
<1>1. ar.reserved \in Nat /\ Hdr \in Nat /\ SizeMax \in Nat
  BY ArenaAssumption DEF Good, ArenaSet
<1>2. ar.reserved = Total(ar.cap, Owned(ar))
  BY DEF Good, Balanced
<1>3. Hdr + cap <= SizeMax - ar.reserved
  BY <1>2 DEF MallocCan
<1>4. ar.reserved + Hdr + cap \in 0 .. SizeMax
  BY <1>1, <1>3
<1> QED BY <1>4, ModSmall

(* ... or takes a new one from the system ... *)
Obtained(ar, c, cap, b, n, total) ==
    [[ar EXCEPT !.next_chunk = n]
        EXCEPT !.current = <<c>> \o @, !.cap[c] = cap, !.used[c] = 0, !.base[c] = b,
               !.reserved = total, !.peak = IF total > @ THEN total ELSE @]

LEMMA Obtains ==
    ASSUME NEW ar, Good(ar), NEW need \in Nat, NEW cap \in Nat, cap >= need,
           NEW total \in 0 .. SizeMax, total = ar.reserved + Hdr + cap,
           ar.limit = 0 \/ total <= ar.limit,
           NEW c \in Chunks \ Owned(ar), NEW b \in Nat, NEW n \in NextChunks,
           NEW br, br = Obtained(ar, c, cap, b, n, total)
    PROVE  Good(br) /\ Budget(ar, br) /\ Grew(ar, need, br)
<1>0. /\ ar \in ArenaSet /\ Balanced(ar)
      /\ ar.current \in Seq(Chunks) /\ ar.spare \in Seq(Chunks) /\ ar.next_chunk \in NextChunks
      /\ ar.cap \in [Chunks -> Nat] /\ ar.used \in [Chunks -> Nat] /\ ar.base \in [Chunks -> Nat]
      /\ ar.reserved \in Nat /\ ar.peak \in 0 .. SizeMax /\ ar.limit \in Nat
      /\ \A d \in Chunks : ar.used[d] <= ar.cap[d]
      /\ Once(ar.current) /\ Once(ar.spare) /\ Held(ar.current) \cap Held(ar.spare) = {}
  BY GoodFields
<1>1. c \in Chunks /\ c \notin Held(ar.current) /\ c \notin Held(ar.spare)
  BY DEF Owned
<1>17. Hdr \in Nat /\ SizeMax \in Nat
  BY ArenaAssumption
<1> DEFINE cur == <<c>> \o ar.current
           u == [ar.used EXCEPT ![c] = 0]
           p == [ar.cap EXCEPT ![c] = cap]
           s == [ar.base EXCEPT ![c] = b]
           k == IF total > ar.peak THEN total ELSE ar.peak
<1>2. cur \in Seq(Chunks) /\ Once(cur) /\ Held(cur) = Held(ar.current) \cup {c}
  BY <1>1, <1>0, Pushed
<1>3. u \in [Chunks -> Nat] /\ u[c] = 0 /\ \A d \in Chunks \ {c} : u[d] = ar.used[d]
  BY <1>1, <1>0
<1>4. p \in [Chunks -> Nat] /\ p[c] = cap /\ \A d \in Chunks \ {c} : p[d] = ar.cap[d]
  BY <1>1, <1>0
<1>5. s \in [Chunks -> Nat] /\ \A d \in Chunks \ {c} : s[d] = ar.base[d]
  BY <1>1, <1>0
<1>6. k \in 0 .. SizeMax /\ k >= total
  <2> HIDE DEF cur, u, p, s
  <2>1. ar.peak \in 0 .. SizeMax /\ total \in 0 .. SizeMax
    BY <1>0
  <2> QED BY <2>1, <1>17
<1>7. br = Rebuilt(ar, cur, ar.spare, p, u, s, n, total, k)
  <2>1. ar \in ArenaSet
    BY <1>0
  <2> QED BY <2>1 DEF Rebuilt, Obtained, ArenaSet
<1> HIDE DEF cur, u, p, s, k
<1>8. /\ br \in ArenaSet
      /\ br.current = cur /\ br.spare = ar.spare /\ br.cap = p /\ br.used = u /\ br.base = s
      /\ br.reserved = total /\ br.peak = k /\ br.limit = ar.limit /\ br.fatal = ar.fatal
  <2>1. ar \in ArenaSet /\ ar.spare \in Seq(Chunks)
    BY <1>0
  <2>2. /\ cur \in Seq(Chunks) /\ u \in [Chunks -> Nat] /\ p \in [Chunks -> Nat] /\ s \in [Chunks -> Nat]
        /\ k \in 0 .. SizeMax
    BY <1>2, <1>3, <1>4, <1>5, <1>6
  <2>3. total \in 0 .. SizeMax /\ n \in NextChunks
    OBVIOUS
  <2> QED BY <1>7, <2>1, <2>2, <2>3 DEF Rebuilt, ArenaSet
<1>9. \A d \in Chunks : br.used[d] <= br.cap[d]
  <2> SUFFICES ASSUME NEW d \in Chunks PROVE u[d] <= p[d]
    BY <1>8
  <2>1. ar.used[d] <= ar.cap[d] /\ ar.cap[d] \in Nat
    BY <1>0
  <2>2. CASE d = c
    BY <1>3, <1>4, <2>2
  <2>3. CASE d # c
    BY <1>3, <1>4, <2>1, <2>3
  <2> QED BY <2>2, <2>3
<1>10. Owned(br) = Owned(ar) \cup {c}
  BY <1>2, <1>8 DEF Owned
<1>11. Balanced(br)
  <2>1. Owned(ar) \in SUBSET Chunks /\ IsFiniteSet(Owned(ar))
    BY OwnedType
  <2>2. \A d \in Owned(ar) : p[d] = ar.cap[d]
    BY <1>4, <2>1
  <2>3. Total(p, Owned(ar) \cup {c}) = Total(ar.cap, Owned(ar)) + (Hdr + p[c])
    <3> DEFINE S == Owned(ar)
    <3>1. S \in SUBSET Chunks /\ IsFiniteSet(S) /\ c \in Chunks \ S /\ \A d \in S : p[d] = ar.cap[d]
      BY <2>1, <2>2
    <3>2. ar.cap \in [Chunks -> Nat] /\ p \in [Chunks -> Nat]
      BY <1>0, <1>4
    <3> HIDE DEF S
    <3>3. Total(p, S \cup {c}) = Total(ar.cap, S) + (Hdr + p[c])
      BY <3>1, <3>2, TotalAdds
    <3> QED BY <3>3 DEF S
  <2>4. total = ar.reserved + (Hdr + cap)
    BY <1>0, <1>17
  <2> QED BY <1>4, <1>6, <1>8, <1>10, <2>3, <2>4, <1>0 DEF Balanced
<1>12. Held(br.current) \cap Held(br.spare) = {}
  BY <1>1, <1>2, <1>8, <1>0
<1>13. Good(br)
  BY <1>2, <1>8, <1>9, <1>11, <1>12, <1>0 DEF Good
<1>14. Budget(ar, br)
  BY <1>8 DEF Budget
<1>15. Held(ar.current) \subseteq Chunks \ {c}
  BY <1>1, <1>0, HeldType
<1>16. Grew(ar, need, br)
  <2>1. br.used[c] = 0 /\ br.cap[c] >= need
    BY <1>3, <1>4, <1>8
  <2>2. \A d \in Held(ar.current) : br.base[d] = ar.base[d] /\ br.used[d] = ar.used[d]
    BY <1>3, <1>5, <1>8, <1>15
  <2>3. br.current = <<c>> \o ar.current
    BY <1>8 DEF cur
  <2> QED BY <1>1, <1>8, <2>1, <2>2, <2>3 DEF Grew
<1> QED BY <1>13, <1>14, <1>16

(* ... or fails, having made up its mind about the next one. *)
LEMMA Refuses ==
    ASSUME NEW ar, Good(ar),
           NEW br, \/ br = [ar EXCEPT !.exhausted = TRUE]
                   \/ br = [[ar EXCEPT !.next_chunk = NextChunk(@)] EXCEPT !.exhausted = TRUE]
    PROVE  Good(br) /\ Budget(ar, br) /\ Refusal(ar, br)
<1>1. ar \in ArenaSet
  BY DEF Good
<1>2. NextChunk(ar.next_chunk) \in NextChunks
  BY <1>1, NextChunkType DEF ArenaSet
<1>3. PICK n \in NextChunks : br = [ar EXCEPT !.next_chunk = n, !.exhausted = TRUE]
  BY <1>1, <1>2 DEF ArenaSet
<1>4. br \in ArenaSet /\ Refusal(ar, br)
  BY <1>1, <1>3 DEF ArenaSet, Refusal
<1>5. /\ br.current = ar.current /\ br.spare = ar.spare /\ br.used = ar.used /\ br.cap = ar.cap
      /\ br.reserved = ar.reserved /\ br.peak = ar.peak
  BY <1>1, <1>3 DEF ArenaSet
<1>6. Good(br)
  BY <1>4, <1>5 DEF Good, Balanced, Owned
<1>7. Budget(ar, br)
  <2>1. ar.reserved \in Nat
    BY <1>1, ArenaAssumption DEF ArenaSet
  <2> QED BY <1>5, <2>1 DEF Budget
<1> QED BY <1>4, <1>6, <1>7

LEMMA Grows ==
    ASSUME NEW ar, Good(ar), NEW need \in Nat, NEW g \in arena_grow(ar, need)
    PROVE  /\ Good(g.ar) /\ Budget(ar, g.ar)
           /\ IF g.ok THEN Grew(ar, need, g.ar) ELSE Refusal(ar, g.ar)
<1> DEFINE fits == {i \in DOMAIN ar.spare : ar.cap[ar.spare[i]] >= need}
           cap == CapFor(ar.next_chunk, need)
           total == Mod(ar.reserved + Hdr + cap)
           n == NextChunk(ar.next_chunk)
           no == cap > SizeMax - Hdr \/ OverLimit(ar, cap) \/ ~ MallocCan(ar, Hdr + cap)
           Reuse(i) == Reused(ar, i)
           Obtain(c, b) == Obtained(ar, c, cap, b, n, total)
           refused == [ok |-> FALSE, ar |-> [[ar EXCEPT !.next_chunk = n] EXCEPT !.exhausted = TRUE]]
           fresh == Smallest(Chunks \ Owned(ar))
<1>1. \/ fits # {} /\ g = [ok |-> TRUE, ar |-> Reuse(Smallest(fits))]
      \/ g = refused
      \/ ~ no /\ \E b \in Bases : g = [ok |-> TRUE, ar |-> Obtain(fresh, b)]
  <2>1. \A c, b : Obtain(c, b) = [[ar EXCEPT !.next_chunk = n] EXCEPT !.current = <<c>> \o @,
                       !.cap[c] = cap, !.used[c] = 0, !.base[c] = b,
                       !.reserved = total, !.peak = IF total > @ THEN total ELSE @]
    BY DEF Obtained
  <2> QED BY <2>1 DEF arena_grow, Reused, Obtained
<1>2. CASE fits # {} /\ g = [ok |-> TRUE, ar |-> Reuse(Smallest(fits))]
  <2>1. fits \subseteq Nat
    BY GoodFields
  <2> HIDE DEF fits
  <2>2. Smallest(fits) \in fits
    BY <1>2, <2>1, SmallestIsIn
  <2>3. Smallest(fits) \in DOMAIN ar.spare /\ ar.cap[ar.spare[Smallest(fits)]] >= need
    BY <2>2 DEF fits
  <2>4. g.ok = TRUE /\ g.ar = Reuse(Smallest(fits))
    BY <1>2
  <2> QED BY <2>3, <2>4, Reuses
<1>3. CASE g = refused
  <2>1. g.ok = FALSE /\ g.ar = [[ar EXCEPT !.next_chunk = n] EXCEPT !.exhausted = TRUE]
    BY <1>3
  <2> QED BY <2>1, Refuses
<1>4. CASE ~ no /\ \E b \in Bases : g = [ok |-> TRUE, ar |-> Obtain(fresh, b)]
  <2>1. PICK b \in Bases : g = [ok |-> TRUE, ar |-> Obtain(fresh, b)]
    BY <1>4
  <2>2. g.ok = TRUE /\ g.ar = Obtain(fresh, b)
    BY <2>1
  <2>3. fresh \in Chunks \ Owned(ar)
    <3>1. Chunks \ Owned(ar) \subseteq Nat /\ Chunks \ Owned(ar) # {}
      BY <1>4, ArenaAssumption DEF MallocCan
    <3> QED BY <3>1, SmallestIsIn
  <2>4. cap \in Nat /\ cap >= need /\ n \in NextChunks
    BY GoodFields, CapForHolds, NextChunkType
  <2>5. b \in Nat
    BY ArenaAssumption DEF Bases
  <2>6. total = ar.reserved + Hdr + cap /\ total \in 0 .. SizeMax
    BY <1>4, <2>4, Counted
  <2>7. ar.limit = 0 \/ total <= ar.limit
    <3>1. ar.limit \in Nat /\ total \in Nat
      BY <2>6, GoodFields, ArenaAssumption
    <3>2. ~ (ar.limit # 0 /\ total > ar.limit)
      BY <1>4 DEF OverLimit
    <3> HIDE DEF total
    <3> QED BY <3>1, <3>2
  <2>8. g.ar = Obtained(ar, fresh, cap, b, n, total)
    BY <2>2
  <2> HIDE DEF fresh, cap, total, n, Obtain
  <2>9. Good(g.ar) /\ Budget(ar, g.ar) /\ Grew(ar, need, g.ar)
    BY <2>3, <2>4, <2>5, <2>6, <2>7, <2>8, Obtains
  <2> QED BY <2>2, <2>9
<1> HIDE DEF fits, no, refused, Reuse, Obtain, fresh
<1> QED BY <1>1, <1>2, <1>3, <1>4

(* A block has been placed in the topmost chunk, past what was used of it.   *)
Bytes(n) == IF n = 0 THEN 1 ELSE n
Placed(ar, br, c, at, n, al) ==
    /\ Kept(ar, br)
    /\ c \in Chunks /\ br.current # <<>> /\ Head(br.current) = c
    /\ at \in Nat /\ at + Bytes(n) <= br.used[c]
    /\ c \in Held(ar.current) => at >= ar.used[c]
    /\ (br.base[c] + at) % al = 0

WithUsed(ar, c, v) == [ar EXCEPT !.used[c] = v]

LEMMA UsedUp ==
    ASSUME NEW ar, Good(ar), NEW c \in Chunks, NEW v \in Nat, v <= ar.cap[c],
           NEW br, br = WithUsed(ar, c, v)
    PROVE  /\ Good(br)
           /\ br.current = ar.current /\ br.cap = ar.cap /\ br.base = ar.base
           /\ br.reserved = ar.reserved /\ br.limit = ar.limit /\ br.fatal = ar.fatal
           /\ br.used[c] = v /\ \A d \in Chunks \ {c} : br.used[d] = ar.used[d]
<1>1. /\ ar \in ArenaSet /\ Balanced(ar) /\ \A d \in Chunks : ar.used[d] <= ar.cap[d]
      /\ Once(ar.current) /\ Once(ar.spare) /\ Held(ar.current) \cap Held(ar.spare) = {}
      /\ ar.used \in [Chunks -> Nat] /\ ar.cap \in [Chunks -> Nat]
  BY GoodFields
<1> DEFINE u == [ar.used EXCEPT ![c] = v]
<1>2. u \in [Chunks -> Nat] /\ u[c] = v /\ \A d \in Chunks \ {c} : u[d] = ar.used[d]
  BY <1>1
<1>3. br = [ar EXCEPT !.used = u]
  BY DEF WithUsed
<1> HIDE DEF u
<1>4. /\ br \in ArenaSet
      /\ br.current = ar.current /\ br.spare = ar.spare /\ br.cap = ar.cap /\ br.base = ar.base
      /\ br.reserved = ar.reserved /\ br.peak = ar.peak /\ br.limit = ar.limit /\ br.fatal = ar.fatal
      /\ br.used = u
  BY <1>1, <1>2, <1>3 DEF ArenaSet
<1>5. \A d \in Chunks : br.used[d] <= br.cap[d]
  BY <1>1, <1>2, <1>4
<1>6. Balanced(br)
  BY <1>1, <1>4 DEF Balanced, Owned
<1> QED BY <1>1, <1>2, <1>4, <1>5, <1>6 DEF Good

(* More of the topmost chunk is used.                                        *)
LEMMA Bumps ==
    ASSUME NEW ar, Good(ar), ar.current # <<>>, NEW c, c = Head(ar.current),
           NEW v \in Nat, ar.used[c] <= v, v <= ar.cap[c],
           NEW br, br = WithUsed(ar, c, v)
    PROVE  /\ Good(br) /\ Budget(ar, br) /\ Kept(ar, br)
           /\ c \in Chunks /\ br.current = ar.current /\ br.base = ar.base
           /\ br.used[c] = v /\ \A d \in Chunks \ {c} : br.used[d] = ar.used[d]
<1>1. ar.current \in Seq(Chunks) /\ ar.used \in [Chunks -> Nat] /\ ar.reserved \in Nat
  BY GoodFields
<1>2. c \in Chunks
  BY <1>1
<1>3. /\ Good(br)
      /\ br.current = ar.current /\ br.cap = ar.cap /\ br.base = ar.base
      /\ br.reserved = ar.reserved /\ br.limit = ar.limit /\ br.fatal = ar.fatal
      /\ br.used[c] = v /\ \A d \in Chunks \ {c} : br.used[d] = ar.used[d]
  BY <1>2, UsedUp
<1>4. Budget(ar, br)
  BY <1>1, <1>3 DEF Budget
<1>5. Kept(ar, br)
  <2>1. ASSUME NEW d \in Held(ar.current) PROVE br.used[d] >= ar.used[d]
    <3>1. d \in Chunks
      BY <1>1, HeldType
    <3>2. ar.used[d] \in Nat
      BY <1>1, <3>1
    <3> QED BY <1>3, <3>1, <3>2
  <2> QED BY <1>3, <2>1 DEF Kept
<1> QED BY <1>2, <1>3, <1>4, <1>5

(* The room left in the topmost chunk is used first ...                      *)
LEMMA AllocatesHere ==
    ASSUME NEW ar, Good(ar), ar.current # <<>>, NEW n \in Nat, NEW al \in Nat \ {0},
           NEW c, c = Head(ar.current), NEW at \in Nat, ar.used[c] <= at, at + Bytes(n) <= ar.cap[c],
           (ar.base[c] + at) % al = 0,
           NEW br, br = WithUsed(ar, c, at + Bytes(n))
    PROVE  Good(br) /\ Budget(ar, br) /\ Placed(ar, br, c, at, n, al)
<1> DEFINE v == at + Bytes(n)
<1>1. c \in Chunks /\ ar.used[c] \in Nat
  BY GoodFields
<1>2. v \in Nat /\ at <= v
  BY DEF Bytes
<1>3. ar.used[c] <= v
  BY <1>1, <1>2
<1>4. v <= ar.cap[c] /\ br = WithUsed(ar, c, v) /\ at + Bytes(n) = v
  OBVIOUS
<1> HIDE DEF v
<1>5. /\ Good(br) /\ Budget(ar, br) /\ Kept(ar, br)
      /\ br.current = ar.current /\ br.base = ar.base /\ br.used[c] = v
  BY <1>2, <1>3, <1>4, Bumps
<1>6. at + Bytes(n) <= br.used[c]
  BY <1>2, <1>4, <1>5
<1> QED BY <1>1, <1>5, <1>6 DEF Placed

(* ... and then a chunk that has room for it wherever it is.                 *)
LEMMA AllocatesFresh ==
    ASSUME NEW ar, Good(ar), NEW need \in Nat, NEW n \in Nat, NEW al \in Nat \ {0},
           NEW gr, Good(gr), Budget(ar, gr), Grew(ar, need, gr),
           NEW c, c = Head(gr.current), NEW at \in Nat, at + Bytes(n) <= need,
           (gr.base[c] + at) % al = 0,
           NEW br, br = WithUsed(gr, c, at + Bytes(n))
    PROVE  Good(br) /\ Budget(ar, br) /\ Placed(ar, br, c, at, n, al)
<1>1. PICK d \in Chunks \ Held(ar.current) :
         /\ gr.current = <<d>> \o ar.current
         /\ gr.used[d] = 0 /\ gr.cap[d] >= need
         /\ \A e \in Held(ar.current) : gr.base[e] = ar.base[e] /\ gr.used[e] = ar.used[e]
         /\ gr.fatal = ar.fatal /\ gr.limit = ar.limit
  BY DEF Grew
<1>2. /\ ar.current \in Seq(Chunks) /\ ar.used \in [Chunks -> Nat]
  BY GoodFields
<1>3. /\ gr.used \in [Chunks -> Nat] /\ gr.cap \in [Chunks -> Nat]
  BY GoodFields
<1>4. c = d /\ gr.current # <<>>
  BY <1>1, <1>2, Pushed
<1>5. c \in Chunks /\ c \notin Held(ar.current) /\ gr.used[c] = 0 /\ gr.cap[c] >= need /\ gr.cap[c] \in Nat
  BY <1>1, <1>3, <1>4
<1> DEFINE v == at + Bytes(n)
<1>6. v \in Nat
  BY DEF Bytes
<1>7. v <= gr.cap[c] /\ br = WithUsed(gr, c, v) /\ at + Bytes(n) = v
  <2>1. v <= need
    OBVIOUS
  <2> HIDE DEF v
  <2>2. v <= gr.cap[c]
    BY <1>5, <1>6, <2>1
  <2> QED BY <2>2 DEF v
<1> HIDE DEF v
<1>8. /\ Good(br)
      /\ br.current = gr.current /\ br.base = gr.base
      /\ br.reserved = gr.reserved /\ br.limit = gr.limit /\ br.fatal = gr.fatal
      /\ br.used[c] = v /\ \A e \in Chunks \ {c} : br.used[e] = gr.used[e]
  BY <1>5, <1>6, <1>7, UsedUp
<1>9. Budget(ar, br)
  BY <1>8 DEF Budget
<1>10. Held(ar.current) \subseteq Chunks \ {c}
  BY <1>2, <1>5, HeldType
<1>11. Kept(ar, br)
  <2>1. \E e \in Chunks \ Held(ar.current) : br.current = <<e>> \o ar.current
    BY <1>1, <1>8
  <2>2. ASSUME NEW e \in Held(ar.current) PROVE br.base[e] = ar.base[e] /\ br.used[e] >= ar.used[e]
    <3>1. e \in Chunks /\ br.used[e] = ar.used[e] /\ br.base[e] = ar.base[e]
      BY <1>1, <1>8, <1>10
    <3>2. ar.used[e] \in Nat
      BY <1>2, <3>1
    <3> QED BY <3>1, <3>2
  <2> QED BY <1>1, <1>8, <2>1, <2>2 DEF Kept
<1>12. at + Bytes(n) <= br.used[c]
  BY <1>6, <1>7, <1>8
<1>13. (br.base[c] + at) % al = 0
  BY <1>8
<1> QED BY <1>4, <1>5, <1>8, <1>9, <1>11, <1>12, <1>13 DEF Placed

(* How arena_alloc ends: as it was but for the flag, or with a block.        *)
Answered(ar, r, n, al) ==
    /\ Good(r.ar) /\ Budget(ar, r.ar)
    /\ IF r.chunk = NoChunk THEN Refusal(ar, r.ar) ELSE Placed(ar, r.ar, r.chunk, r.at, n, al)

LEMMA Allocates ==
    ASSUME NEW ar, Good(ar), NEW n \in 0 .. SizeMax, NEW al \in 1 .. SizeMax,
           NEW r \in arena_alloc(ar, n, al)
    PROVE  Answered(ar, r, n, al)
<1> DEFINE size == Bytes(n)
           top == Head(ar.current)
           pad == PadAt(ar, top, ar.used[top], al)
           room == ar.cap[top] - ar.used[top]
           here == ar.current # <<>> /\ pad <= room /\ size <= room - pad
           Failed(b) == [ar |-> b, chunk |-> NoChunk, at |-> 0]
           Fresh(b) == LET c == Head(b.current)
                           p == PadAt(b, c, 0, al)
                       IN  [ar |-> [b EXCEPT !.used[c] = p + size], chunk |-> c, at |-> p]
<1>1. n \in Nat /\ al \in Nat \ {0} /\ size \in Nat \ {0} /\ SizeMax \in Nat
  BY ArenaAssumption DEF Bytes
<1>2. \/ here /\ r = [ar |-> [ar EXCEPT !.used[top] = @ + pad + size], chunk |-> top, at |-> ar.used[top] + pad]
      \/ r = Failed([ar EXCEPT !.exhausted = TRUE])
      \/ \E g \in arena_grow(ar, size + al) : r = IF g.ok THEN Fresh(g.ar) ELSE Failed(g.ar)
  BY DEF arena_alloc, Bytes
<1>3. \A c \in Chunks : c # NoChunk
  BY ArenaAssumption DEF NoChunk
<1>4. CASE here /\ r = [ar |-> [ar EXCEPT !.used[top] = @ + pad + size], chunk |-> top, at |-> ar.used[top] + pad]
  <2>1. /\ top \in Chunks /\ ar.used[top] \in Nat /\ ar.cap[top] \in Nat /\ ar.base[top] \in Nat
    BY <1>4, GoodFields
  <2>2. pad \in 0 .. al - 1 /\ (ar.base[top] + (ar.used[top] + pad)) % al = 0
    BY <1>1, <2>1, PadAtAligns
  <2> DEFINE at == ar.used[top] + pad
  <2>3. r.ar = WithUsed(ar, top, at + size) /\ r.chunk = top /\ r.at = at
    BY <1>4 DEF WithUsed
  <2>4. at \in Nat /\ ar.used[top] <= at /\ at + size <= ar.cap[top]
    <3>1. pad <= ar.cap[top] - ar.used[top] /\ size <= (ar.cap[top] - ar.used[top]) - pad /\ pad \in Nat
      BY <1>1, <1>4, <2>2
    <3> HIDE DEF size, pad, top
    <3> QED BY <1>1, <2>1, <3>1
  <2>5. ar.current # <<>> /\ top = Head(ar.current) /\ (ar.base[top] + at) % al = 0
    BY <1>4, <2>2
  <2> HIDE DEF top, at
  <2>6. Good(r.ar) /\ Budget(ar, r.ar) /\ Placed(ar, r.ar, top, at, n, al)
    BY <1>1, <2>3, <2>4, <2>5, AllocatesHere
  <2> QED BY <1>3, <2>1, <2>3, <2>6 DEF Answered
<1>5. CASE r = Failed([ar EXCEPT !.exhausted = TRUE])
  <2>1. r.ar = [ar EXCEPT !.exhausted = TRUE] /\ r.chunk = NoChunk
    BY <1>5
  <2> QED BY <2>1, Refuses DEF Answered
<1>6. ASSUME NEW g \in arena_grow(ar, size + al), r = IF g.ok THEN Fresh(g.ar) ELSE Failed(g.ar)
      PROVE  Answered(ar, r, n, al)
  <2>1. size + al \in Nat
    BY <1>1
  <2>2. /\ Good(g.ar) /\ Budget(ar, g.ar)
        /\ IF g.ok THEN Grew(ar, size + al, g.ar) ELSE Refusal(ar, g.ar)
    BY <2>1, Grows
  <2>3. CASE g.ok
    <3> DEFINE gr == g.ar
               c == Head(gr.current)
               p == PadAt(gr, c, 0, al)
    <3>1. r.ar = WithUsed(gr, c, p + size) /\ r.chunk = c /\ r.at = p
      BY <1>6, <2>3 DEF WithUsed
    <3>2. Good(gr) /\ Budget(ar, gr) /\ Grew(ar, size + al, gr)
      BY <2>2, <2>3
    <3> HIDE DEF gr
    <3>3. c \in Chunks
      <4>1. ar.current \in Seq(Chunks)
        BY GoodFields
      <4> QED BY <3>2, <4>1, Pushed DEF Grew
    <3>4. p \in 0 .. al - 1 /\ (gr.base[c] + (0 + p)) % al = 0
      BY <1>1, <3>2, <3>3, PadAtAligns
    <3>5. p \in Nat /\ p + size <= size + al /\ 0 + p = p
      <4> HIDE DEF p, size
      <4> QED BY <1>1, <3>4
    <3>6. c = Head(gr.current) /\ (gr.base[c] + p) % al = 0
      BY <3>4, <3>5
    <3> HIDE DEF c, p
    <3>7. Good(r.ar) /\ Budget(ar, r.ar) /\ Placed(ar, r.ar, c, p, n, al)
      BY <1>1, <2>1, <3>1, <3>2, <3>5, <3>6, AllocatesFresh
    <3> QED BY <1>3, <3>1, <3>3, <3>7 DEF Answered
  <2>4. CASE ~ g.ok
    <3>1. r.ar = g.ar /\ r.chunk = NoChunk
      BY <1>6, <2>4
    <3> QED BY <2>2, <2>4, <3>1 DEF Answered
  <2> QED BY <2>3, <2>4
<1> HIDE DEF here, Failed, Fresh
<1> QED BY <1>2, <1>4, <1>5, <1>6

(* How arena_extend ends, besides: with the block a bit longer.              *)
Stretched(ar, r, b, n) ==
    /\ Good(r.ar) /\ Budget(ar, r.ar) /\ Kept(ar, r.ar)
    /\ b.size # 0 /\ ar.current # <<>> /\ b.chunk = Head(ar.current)
    /\ b.at + b.size = ar.used[b.chunk]
    /\ r.chunk = b.chunk /\ r.at = b.at /\ r.chunk # NoChunk
    /\ r.ar.current = ar.current /\ r.ar.base = ar.base
    /\ r.ar.used[b.chunk] = b.at + n
    /\ \A d \in Chunks \ {b.chunk} : r.ar.used[d] = ar.used[d]

LEMMA Extends ==
    ASSUME NEW ar, Good(ar), NEW n \in 0 .. SizeMax, NEW al \in 1 .. SizeMax,
           NEW b, b.at \in Nat, b.size \in Nat, b.size <= n,
           NEW r \in arena_extend(ar, b, n, al)
    PROVE  Answered(ar, r, n, al) \/ Stretched(ar, r, b, n)
<1> DEFINE last == ar.current # <<>> /\ b.chunk = Head(ar.current) /\ b.at + b.size = ar.used[b.chunk]
           extra == n - b.size
           here == b.size # 0 /\ last /\ extra <= ar.cap[b.chunk] - ar.used[b.chunk]
<1>1. \/ here /\ r = [ar |-> [ar EXCEPT !.used[b.chunk] = @ + extra], chunk |-> b.chunk, at |-> b.at]
      \/ r \in arena_alloc(ar, n, al)
  BY DEF arena_extend
<1>2. CASE here /\ r = [ar |-> [ar EXCEPT !.used[b.chunk] = @ + extra], chunk |-> b.chunk, at |-> b.at]
  <2> DEFINE c == b.chunk
             v == ar.used[c] + extra
  <2>1. r.ar = WithUsed(ar, c, v) /\ r.chunk = c /\ r.at = b.at
    BY <1>2 DEF WithUsed
  <2>2. c \in Chunks /\ ar.used[c] \in Nat /\ ar.cap[c] \in Nat
    BY <1>2, GoodFields
  <2>3. ar.current # <<>> /\ c = Head(ar.current) /\ b.at + b.size = ar.used[c] /\ b.size # 0
    BY <1>2
  <2>4. v \in Nat /\ ar.used[c] <= v /\ v <= ar.cap[c] /\ v = b.at + n
    <3>1. extra <= ar.cap[c] - ar.used[c]
      BY <1>2
    <3>2. n \in Nat
      BY ArenaAssumption
    <3> QED BY <2>2, <2>3, <3>1, <3>2
  <2>5. c # NoChunk
    BY <2>2, ArenaAssumption DEF NoChunk
  <2>6. c = b.chunk
    OBVIOUS
  <2> HIDE DEF c, v
  <2>7. /\ Good(r.ar) /\ Budget(ar, r.ar) /\ Kept(ar, r.ar)
        /\ r.ar.current = ar.current /\ r.ar.base = ar.base
        /\ r.ar.used[c] = v /\ \A d \in Chunks \ {c} : r.ar.used[d] = ar.used[d]
    BY <2>1, <2>3, <2>4, Bumps
  <2> QED BY <2>1, <2>3, <2>4, <2>5, <2>6, <2>7 DEF Stretched
<1>3. CASE r \in arena_alloc(ar, n, al)
  BY <1>3, Allocates
<1> QED BY <1>1, <1>2, <1>3

(* A mark brings back the chunks it was saved with, its own as full as then. *)
Reaches(ar, m, n) ==
    m.chunk # NoChunk => /\ m.chunk \in {ar.current[i] : i \in n + 1 .. Len(ar.current)}
                         /\ m.used \in Nat /\ m.used <= ar.used[m.chunk]

LEMMA RollsBack ==
    ASSUME NEW ar, Good(ar), NEW n \in 0 .. Len(ar.current),
           NEW m, Reaches(ar, m, n),
           NEW br, br = arena_rollback(ar, m, n)
    PROVE  /\ Good(br) /\ br.current = SubSeq(ar.current, n + 1, Len(ar.current))
           /\ br.base = ar.base /\ br.reserved = ar.reserved
           /\ Held(br.current) = {ar.current[i] : i \in n + 1 .. Len(ar.current)}
           /\ m.chunk # NoChunk => br.used[m.chunk] = m.used
           /\ \A c \in Held(br.current) \ {m.chunk} : br.used[c] = ar.used[c]
<1>0. /\ ar \in ArenaSet /\ Balanced(ar)
      /\ ar.current \in Seq(Chunks) /\ ar.spare \in Seq(Chunks)
      /\ ar.cap \in [Chunks -> Nat] /\ ar.used \in [Chunks -> Nat]
      /\ \A d \in Chunks : ar.used[d] <= ar.cap[d]
      /\ Once(ar.current) /\ Once(ar.spare) /\ Held(ar.current) \cap Held(ar.spare) = {}
  BY GoodFields
<1> DEFINE len == Len(ar.current)
           above == SubSeq(ar.current, 1, n)
           cur == SubSeq(ar.current, n + 1, len)
           sp == Reverse(above) \o ar.spare
           z == [c \in Chunks |-> IF c \in Held(above) THEN 0 ELSE ar.used[c]]
           u == IF m.chunk = NoChunk THEN z ELSE [z EXCEPT ![m.chunk] = m.used]
<1>1. len \in Nat /\ DOMAIN ar.current = 1 .. len /\ n \in 0 .. len
  BY <1>0
<1>2. above \in Seq(Chunks) /\ Once(above) /\ Held(above) = {ar.current[i] : i \in 1 .. n}
  <2>1. 1 \in 1 .. len + 1
    BY <1>1
  <2> QED BY <1>0, <1>1, <2>1, Part
<1>3. cur \in Seq(Chunks) /\ Once(cur) /\ Held(cur) = {ar.current[i] : i \in n + 1 .. len}
  <2>1. n + 1 \in 1 .. len + 1 /\ len \in 0 .. len
    BY <1>1
  <2> QED BY <1>0, <1>1, <2>1, Part
<1>4. Held(above) \cap Held(cur) = {} /\ Held(above) \cup Held(cur) = Held(ar.current)
  <2>1. Held(ar.current) = {ar.current[i] : i \in 1 .. len}
    BY <1>1 DEF Held
  <2>2. 1 .. len = (1 .. n) \cup (n + 1 .. len) /\ (1 .. n) \cap (n + 1 .. len) = {}
    BY <1>1
  <2>3. \A i, j \in 1 .. len : ar.current[i] = ar.current[j] => i = j
    BY <1>0, <1>1 DEF Once
  <2> HIDE DEF len, above, cur, sp, z, u
  <2>4. Held(above) \cap Held(cur) = {}
    <3>1. ASSUME NEW i \in 1 .. n, NEW j \in n + 1 .. len, ar.current[i] = ar.current[j] PROVE FALSE
      <4>1. i \in 1 .. len /\ j \in 1 .. len
        BY <2>2
      <4>2. i = j
        BY <2>3, <3>1, <4>1
      <4> QED BY <2>2, <4>2
    <3> QED BY <1>2, <1>3, <3>1
  <2>5. Held(above) \cup Held(cur) = Held(ar.current)
    BY <1>2, <1>3, <2>1, <2>2
  <2> QED BY <2>4, <2>5
<1>5. /\ sp \in Seq(Chunks) /\ Once(sp) /\ Held(sp) = Held(above) \cup Held(ar.spare)
  <2>1. Reverse(above) \in Seq(Chunks) /\ Held(Reverse(above)) = Held(above) /\ Once(Reverse(above))
    BY <1>2, Reversed
  <2>2. Held(Reverse(above)) \cap Held(ar.spare) = {}
    BY <1>0, <1>4, <2>1
  <2> HIDE DEF above
  <2> QED BY <1>0, <2>1, <2>2, Joined
<1>6. m.chunk # NoChunk => m.chunk \in Held(cur) /\ m.used \in Nat /\ m.used <= ar.used[m.chunk]
  BY <1>3 DEF Reaches
<1>7. Held(cur) \subseteq Chunks
  BY <1>3, HeldType
<1>8. z \in [Chunks -> Nat] /\ \A c \in Chunks : z[c] = IF c \in Held(above) THEN 0 ELSE ar.used[c]
  BY <1>0
<1> HIDE DEF z
<1>9. /\ u \in [Chunks -> Nat]
      /\ m.chunk # NoChunk => u[m.chunk] = m.used
      /\ \A c \in Chunks \ {m.chunk} : u[c] = z[c]
  <2>1. CASE m.chunk = NoChunk
    BY <1>8, <2>1
  <2>2. CASE m.chunk # NoChunk
    BY <1>6, <1>7, <1>8, <2>2
  <2> QED BY <2>1, <2>2
<1>10. br = [ar EXCEPT !.current = cur, !.spare = sp, !.used = u]
  <2>2. br = IF m.chunk = NoChunk THEN [ar EXCEPT !.current = cur, !.spare = sp, !.used = z]
             ELSE [[ar EXCEPT !.current = cur, !.spare = sp, !.used = z] EXCEPT !.used[m.chunk] = m.used]
    BY Zenon DEF arena_rollback, z
  <2> HIDE DEF cur, sp
  <2>3. CASE m.chunk = NoChunk
    BY <2>2, <2>3
  <2>4. CASE m.chunk # NoChunk
    <3>1. u = [z EXCEPT ![m.chunk] = m.used]
      BY <2>4
    <3> HIDE DEF u
    <3> QED BY <1>0, <2>2, <2>4, <3>1 DEF ArenaSet
  <2> QED BY <2>3, <2>4
<1>11. \A c \in Chunks : u[c] <= ar.cap[c]
  <2> SUFFICES ASSUME NEW c \in Chunks PROVE u[c] <= ar.cap[c]
    OBVIOUS
  <2> HIDE DEF cur, sp, above, u
  <2>4. ar.used[c] <= ar.cap[c] /\ ar.used[c] \in Nat /\ ar.cap[c] \in Nat
    BY <1>0
  <2>1. ar.used[c] <= ar.cap[c] /\ ar.used[c] \in Nat /\ ar.cap[c] \in Nat /\ z[c] <= ar.cap[c]
    BY <2>4, <1>8
  <2>2. CASE c = m.chunk
    <3>1. c # NoChunk
      BY ArenaAssumption DEF NoChunk
    <3>2. u[c] = m.used /\ m.used \in Nat /\ m.used <= ar.used[c]
      BY <1>6, <1>9, <2>2, <3>1
    <3> HIDE DEF u
    <3> QED BY <2>1, <3>2
  <2>3. CASE c # m.chunk
    BY <1>9, <2>1, <2>3
  <2> QED BY <2>2, <2>3
<1> HIDE DEF u, cur, sp, above
<1>12. /\ br \in ArenaSet
       /\ br.current = cur /\ br.spare = sp /\ br.used = u /\ br.cap = ar.cap /\ br.base = ar.base
       /\ br.reserved = ar.reserved /\ br.peak = ar.peak
  BY <1>0, <1>3, <1>5, <1>9, <1>10 DEF ArenaSet
<1>13. Owned(br) = Owned(ar)
  BY <1>4, <1>5, <1>12 DEF Owned
<1>14. Balanced(br)
  BY <1>0, <1>12, <1>13 DEF Balanced
<1>15. Held(br.current) \cap Held(br.spare) = {}
  BY <1>0, <1>4, <1>5, <1>12
<1>16. Good(br)
  BY <1>3, <1>5, <1>11, <1>12, <1>14, <1>15 DEF Good
<1>17. \A c \in Held(br.current) \ {m.chunk} : br.used[c] = ar.used[c]
  BY <1>4, <1>7, <1>8, <1>9, <1>12
<1>18. br.current = SubSeq(ar.current, n + 1, Len(ar.current))
  BY <1>12 DEF cur
<1> QED BY <1>3, <1>9, <1>12, <1>16, <1>17, <1>18

(* A reset is a return to an empty arena that forgets its failure too.       *)
LEMMA Resets ==
    ASSUME NEW ar, Good(ar), NEW br, br = arena_reset(ar)
    PROVE  Good(br) /\ br.current = <<>> /\ br.reserved = ar.reserved
<1> DEFINE m == [chunk |-> NoChunk]
           n == Len(ar.current)
           cr == arena_rollback(ar, m, n)
<1>1. ar.current \in Seq(Chunks) /\ n \in Nat /\ n \in 0 .. n
  BY GoodFields
<1>2. m.chunk = NoChunk
  OBVIOUS
<1>3. SubSeq(ar.current, 1, n) = ar.current /\ SubSeq(ar.current, n + 1, n) = <<>>
  BY <1>1
<1>4. cr = LET above == ar.current
               cut == [ar EXCEPT !.current = <<>>, !.spare = Reverse(above) \o @,
                                 !.used = [c \in Chunks |-> IF c \in Held(above) THEN 0 ELSE @[c]]]
           IN  cut
  BY <1>2, <1>3 DEF arena_rollback
<1>5. br = [[ar EXCEPT !.current = <<>>, !.spare = Reverse(ar.current) \o @,
                       !.used = [c \in Chunks |-> IF c \in Held(ar.current) THEN 0 ELSE @[c]]]
               EXCEPT !.exhausted = FALSE]
  <2>1. ar \in ArenaSet
    BY GoodFields
  <2> QED BY <2>1 DEF arena_reset, ArenaSet
<1>6. Good(cr) /\ cr.current = <<>> /\ cr.reserved = ar.reserved
  <2>1. Reaches(ar, m, n)
    BY <1>2 DEF Reaches
  <2>2. ASSUME NEW k \in 0 .. Len(ar.current), NEW l, Reaches(ar, l, k), NEW dr, dr = arena_rollback(ar, l, k)
        PROVE  Good(dr) /\ dr.current = SubSeq(ar.current, k + 1, Len(ar.current)) /\ dr.reserved = ar.reserved
    BY <2>2, RollsBack
  <2> QED BY <1>1, <1>3, <2>1, <2>2
<1>7. br = [cr EXCEPT !.exhausted = FALSE]
  BY <1>4, <1>5
<1> HIDE DEF cr
<1>8. cr \in ArenaSet
  BY <1>6, GoodFields
<1>9. /\ br \in ArenaSet
      /\ br.current = cr.current /\ br.spare = cr.spare /\ br.used = cr.used /\ br.cap = cr.cap
      /\ br.reserved = cr.reserved /\ br.peak = cr.peak
  BY <1>7, <1>8 DEF ArenaSet
<1>10. Good(br)
  BY <1>6, <1>9 DEF Good, Balanced, Owned
<1> QED BY <1>6, <1>9, <1>10


-----------------------------------------------------------------------------
(* What a position promises.                                                 *)

(* Chunk c is chunk d or older, in a list with the newest first.             *)
Beneath(s, c, d) == \E i, j \in DOMAIN s : j <= i /\ s[i] = c /\ s[j] = d

(* The position that would be saved now.                                     *)
Now(ar, lv) ==
    [chunk |-> IF ar.current = <<>> THEN NoChunk ELSE Head(ar.current),
     used |-> IF ar.current = <<>> THEN 0 ELSE ar.used[Head(ar.current)],
     live |-> lv]

(* The blocks of a position lie beneath it, in what is allocated, apart from *)
(* each other and aligned.                                                   *)
Lies(ar, m, x) ==
    /\ Beneath(ar.current, x.chunk, m.chunk)
    /\ End(x) <= ar.used[x.chunk]
    /\ x.chunk = m.chunk => End(x) <= m.used
    /\ (ar.base[x.chunk] + x.at) % x.align = 0

Lasts(ar, m) ==
    /\ m \in Mark
    /\ IF m.chunk = NoChunk THEN m.used = 0 /\ m.live = {}
       ELSE m.chunk \in Held(ar.current) /\ m.used <= ar.used[m.chunk]
    /\ \A x \in m.live : Lies(ar, m, x)
    /\ \A x, y \in m.live : x # y => Apart(x, y)

(* Position m is not above position l, and a block of both may have been     *)
(* grown in place, but no other shares a byte.                               *)
SamePlace(x, y) == x.chunk = y.chunk /\ x.at = y.at
Follows(s, m, l) ==
    /\ m.chunk # NoChunk => Beneath(s, m.chunk, l.chunk)
    /\ m.chunk = l.chunk => m.used <= l.used
    /\ \A x \in m.live, y \in l.live : Apart(x, y) \/ SamePlace(x, y)

(* The arena, the blocks in use and the positions saved belong together.     *)
World(ar, lv, ms) ==
    /\ Good(ar)
    /\ ms \in Seq(Mark)
    /\ Lasts(ar, Now(ar, lv))
    /\ \A k \in DOMAIN ms : Lasts(ar, ms[k]) /\ Follows(ar.current, ms[k], Now(ar, lv))
    /\ \A k, l \in DOMAIN ms : k < l => Follows(ar.current, ms[k], ms[l])

LEMMA BeneathIsHeld == ASSUME NEW s, NEW c, NEW d, Beneath(s, c, d) PROVE c \in Held(s) /\ d \in Held(s)
BY DEF Beneath, Held

LEMMA BeneathTop ==
    ASSUME NEW s \in Seq(Chunks), NEW c \in Held(s)
    PROVE  s # <<>> /\ Beneath(s, c, Head(s))
<1>1. Len(s) \in Nat /\ DOMAIN s = 1 .. Len(s)
  OBVIOUS
<1>2. PICK i \in DOMAIN s : s[i] = c
  BY DEF Held
<1>3. s # <<>> /\ 1 \in DOMAIN s /\ Head(s) = s[1] /\ 1 <= i
  BY <1>1, <1>2
<1> QED BY <1>2, <1>3 DEF Beneath

LEMMA BeneathPush ==
    ASSUME NEW s \in Seq(Chunks), NEW x \in Chunks, NEW c, NEW d, Beneath(s, c, d)
    PROVE  Beneath(<<x>> \o s, c, d)
<1> DEFINE t == <<x>> \o s
<1>1. PICK i, j \in DOMAIN s : j <= i /\ s[i] = c /\ s[j] = d
  BY DEF Beneath
<1>2. /\ Len(s) \in Nat /\ DOMAIN s = 1 .. Len(s) /\ DOMAIN t = 1 .. Len(s) + 1
      /\ \A k \in 1 .. Len(s) : t[k + 1] = s[k]
  BY Pushed
<1> HIDE DEF t
<1>3. i + 1 \in DOMAIN t /\ j + 1 \in DOMAIN t /\ j + 1 <= i + 1 /\ t[i + 1] = c /\ t[j + 1] = d
  BY <1>1, <1>2
<1> QED BY <1>3 DEF Beneath, t

LEMMA BeneathOrder ==
    ASSUME NEW s \in Seq(Chunks), Once(s), NEW c, NEW d, NEW e, Beneath(s, c, d)
    PROVE  /\ Beneath(s, d, e) => Beneath(s, c, e)
           /\ Beneath(s, d, c) => c = d
<1>1. PICK i, j \in DOMAIN s : j <= i /\ s[i] = c /\ s[j] = d
  BY DEF Beneath
<1>2. DOMAIN s \subseteq Nat
  OBVIOUS
<1>3. ASSUME Beneath(s, d, e) PROVE Beneath(s, c, e)
  <2>1. PICK k, l \in DOMAIN s : l <= k /\ s[k] = d /\ s[l] = e
    BY <1>3 DEF Beneath
  <2>2. k = j
    BY <1>1, <2>1 DEF Once
  <2>3. l <= i
    BY <1>1, <1>2, <2>1, <2>2
  <2> QED BY <1>1, <2>1, <2>3 DEF Beneath
<1>4. ASSUME Beneath(s, d, c) PROVE c = d
  <2>1. PICK k, l \in DOMAIN s : l <= k /\ s[k] = d /\ s[l] = c
    BY <1>4 DEF Beneath
  <2>2. k = j /\ l = i
    BY <1>1, <2>1 DEF Once
  <2>3. i = j
    BY <1>1, <1>2, <2>1, <2>2
  <2> QED BY <1>1, <2>3
<1> QED BY <1>3, <1>4

(* What is beneath the first chunk that is left is left too.                 *)
LEMMA BeneathRest ==
    ASSUME NEW s \in Seq(Chunks), Once(s), NEW n \in 0 .. Len(s) - 1, NEW c, NEW d,
           Beneath(s, c, d), Beneath(s, d, s[n + 1])
    PROVE  Beneath(SubSeq(s, n + 1, Len(s)), c, d)
<1> DEFINE t == SubSeq(s, n + 1, Len(s))
<1>1. PICK i, j \in DOMAIN s : j <= i /\ s[i] = c /\ s[j] = d
  BY DEF Beneath
<1>2. PICK k, l \in DOMAIN s : l <= k /\ s[k] = d /\ s[l] = s[n + 1]
  BY DEF Beneath
<1>3. Len(s) \in Nat /\ DOMAIN s = 1 .. Len(s) /\ n + 1 \in DOMAIN s
  OBVIOUS
<1>4. k = j /\ l = n + 1
  BY <1>1, <1>2, <1>3 DEF Once
<1>5. /\ DOMAIN t = 1 .. Len(s) - n
      /\ \A h \in 1 .. Len(s) - n : t[h] = s[n + h]
  BY <1>3
<1> HIDE DEF t
<1>6. i - n \in DOMAIN t /\ j - n \in DOMAIN t /\ j - n <= i - n
  BY <1>1, <1>2, <1>3, <1>4, <1>5
<1>7. n + (i - n) = i /\ n + (j - n) = j
  BY <1>1, <1>3
<1>8. t[i - n] = c /\ t[j - n] = d
  BY <1>1, <1>5, <1>6, <1>7
<1> QED BY <1>6, <1>8 DEF Beneath, t

-----------------------------------------------------------------------------
(* What the calls do to it.                                                  *)

LEMMA BlockFields ==
    ASSUME NEW x \in Block
    PROVE  /\ x.chunk \in Chunks /\ x.chunk # NoChunk /\ x.at \in Nat /\ x.size \in Nat
           /\ x.align \in Aligns \cup {1} /\ x.align \in 1 .. SizeMax \cup {1}
           /\ End(x) \in Nat /\ x.at < End(x) /\ End(x) = x.at + Bytes(x.size)
<1>1. /\ x.chunk \in Chunks /\ x.at \in Nat /\ x.size \in Nat /\ x.align \in Aligns \cup {1}
  BY DEF Block
<1>2. x.chunk # NoChunk
  BY <1>1, ArenaAssumption DEF NoChunk
<1>3. End(x) \in Nat /\ x.at < End(x) /\ End(x) = x.at + Bytes(x.size)
  BY <1>1 DEF End, Bytes
<1>4. x.align \in 1 .. SizeMax \cup {1}
  BY <1>1, ArenaAssumption
<1> QED BY <1>1, <1>2, <1>3, <1>4

LEMMA MarkFields ==
    ASSUME NEW m \in Mark
    PROVE  /\ m.chunk \in Chunks \cup {NoChunk} /\ m.used \in Nat /\ m.live \in SUBSET Block
           /\ m = [chunk |-> m.chunk, used |-> m.used, live |-> m.live]
BY DEF Mark

LEMMA NowFields ==
    ASSUME NEW ar, NEW lv
    PROVE  /\ Now(ar, lv).live = lv
           /\ ar.current = <<>> => Now(ar, lv).chunk = NoChunk /\ Now(ar, lv).used = 0
           /\ ar.current # <<>> => Now(ar, lv).chunk = Head(ar.current) /\ Now(ar, lv).used = ar.used[Head(ar.current)]
BY DEF Now

LEMMA NowIsMark ==
    ASSUME NEW ar, Good(ar), NEW lv \in SUBSET Block
    PROVE  Now(ar, lv) \in Mark
<1>1. ar.current \in Seq(Chunks) /\ ar.used \in [Chunks -> Nat]
  BY GoodFields
<1>2. CASE ar.current = <<>>
  BY <1>2 DEF Now, Mark
<1>3. CASE ar.current # <<>>
  <2>1. Head(ar.current) \in Chunks
    BY <1>1, <1>3
  <2>2. ar.used[Head(ar.current)] \in Nat
    BY <1>1, <2>1
  <2> QED BY <1>3, <2>1, <2>2 DEF Now, Mark
<1> QED BY <1>2, <1>3

(* The chunks in use stay in use, in their order.                            *)
LEMMA KeptOrder ==
    ASSUME NEW ar, Good(ar), NEW br, Kept(ar, br)
    PROVE  /\ Held(ar.current) \subseteq Held(br.current)
           /\ \A c, d : Beneath(ar.current, c, d) => Beneath(br.current, c, d)
<1>1. ar.current \in Seq(Chunks)
  BY GoodFields
<1>2. CASE br.current = ar.current
  BY <1>2
<1>3. ASSUME NEW c \in Chunks \ Held(ar.current), br.current = <<c>> \o ar.current
      PROVE  /\ Held(ar.current) \subseteq Held(br.current)
             /\ \A e, d : Beneath(ar.current, e, d) => Beneath(br.current, e, d)
  BY <1>1, <1>3, Pushed, BeneathPush
<1> QED BY <1>2, <1>3 DEF Kept

(* A position lasts while the chunks in use are kept ...                     *)
LEMMA KeptLies ==
    ASSUME NEW ar, Good(ar), NEW br, Good(br), Kept(ar, br), NEW m, NEW x \in Block, Lies(ar, m, x)
    PROVE  Lies(br, m, x)
<1>1. /\ ar.current \in Seq(Chunks) /\ ar.used \in [Chunks -> Nat]
  BY GoodFields
<1>2. br.used \in [Chunks -> Nat]
  BY GoodFields
<1>3. x.chunk \in Chunks /\ End(x) \in Nat
  BY BlockFields
<1>4. x.chunk \in Held(ar.current)
  BY BeneathIsHeld DEF Lies
<1>5. br.base[x.chunk] = ar.base[x.chunk] /\ br.used[x.chunk] >= ar.used[x.chunk]
  BY <1>4 DEF Kept
<1>6. ar.used[x.chunk] \in Nat /\ br.used[x.chunk] \in Nat
  BY <1>1, <1>2, <1>3
<1>7. End(x) <= br.used[x.chunk]
  BY <1>3, <1>5, <1>6 DEF Lies
<1>8. Beneath(br.current, x.chunk, m.chunk)
  BY KeptOrder DEF Lies
<1> QED BY <1>5, <1>7, <1>8 DEF Lies

LEMMA KeptLasts ==
    ASSUME NEW ar, Good(ar), NEW br, Good(br), Kept(ar, br), NEW m, Lasts(ar, m)
    PROVE  Lasts(br, m)
<1>1. m \in Mark /\ m.used \in Nat /\ m.live \in SUBSET Block
  BY MarkFields DEF Lasts
<1>2. \A x \in m.live : Lies(br, m, x)
  BY <1>1, KeptLies DEF Lasts
<1>3. CASE m.chunk = NoChunk
  BY <1>1, <1>2, <1>3 DEF Lasts
<1>4. CASE m.chunk # NoChunk
  <2>1. m.chunk \in Held(ar.current) /\ m.used <= ar.used[m.chunk] /\ m.chunk \in Chunks
    BY <1>1, <1>4, MarkFields DEF Lasts
  <2>2. ar.used[m.chunk] \in Nat /\ br.used[m.chunk] \in Nat
    BY <2>1, GoodFields
  <2>3. br.used[m.chunk] >= ar.used[m.chunk]
    BY <2>1 DEF Kept
  <2>4. m.chunk \in Held(br.current)
    BY <2>1, KeptOrder
  <2>5. m.used <= br.used[m.chunk]
    BY <1>1, <2>1, <2>2, <2>3
  <2> QED BY <1>1, <1>2, <1>4, <2>4, <2>5 DEF Lasts
<1> QED BY <1>3, <1>4

(* ... and so does the order of two.                                         *)
LEMMA KeptFollows ==
    ASSUME NEW ar, Good(ar), NEW br, Kept(ar, br), NEW m, NEW l, Follows(ar.current, m, l)
    PROVE  Follows(br.current, m, l)
BY KeptOrder DEF Follows

(* A step that keeps the chunks in use leaves the positions saved good; what *)
(* is left to see is the present one.                                        *)
LEMMA KeptWorld ==
    ASSUME NEW ar, NEW lv, NEW ms, World(ar, lv, ms), NEW br, Good(br), Kept(ar, br),
           NEW lw, Lasts(br, Now(br, lw)),
           \A k \in DOMAIN ms : Follows(br.current, ms[k], Now(br, lw))
    PROVE  World(br, lw, ms)
<1>1. Good(ar) /\ ms \in Seq(Mark)
  BY DEF World
<1>2. \A k \in DOMAIN ms : Lasts(br, ms[k])
  BY <1>1, KeptLasts DEF World
<1>3. \A k, l \in DOMAIN ms : k < l => Follows(br.current, ms[k], ms[l])
  BY <1>1, KeptFollows DEF World
<1> QED BY <1>1, <1>2, <1>3 DEF World

(* A block that lies in none of the room that was in use.                    *)
LEMMA PlacedApart ==
    ASSUME NEW ar, Good(ar), NEW br, NEW c, NEW at, NEW n, NEW al, Placed(ar, br, c, at, n, al),
           NEW m, NEW x \in Block, Lies(ar, m, x), NEW y \in Block, y.chunk = c, y.at = at
    PROVE  Apart(x, y) /\ Apart(y, x)
<1>1. x.chunk \in Chunks /\ End(x) \in Nat /\ y.at \in Nat
  BY BlockFields
<1>2. x.chunk \in Held(ar.current) /\ End(x) <= ar.used[x.chunk]
  BY BeneathIsHeld DEF Lies
<1>3. ar.used[x.chunk] \in Nat
  BY <1>1, GoodFields
<1>4. CASE x.chunk = c
  <2>1. at >= ar.used[x.chunk]
    BY <1>2, <1>4 DEF Placed
  <2>2. End(x) <= y.at
    BY <1>1, <1>2, <1>3, <2>1
  <2> QED BY <2>2 DEF Apart
<1>5. CASE x.chunk # c
  BY <1>5 DEF Apart
<1> QED BY <1>4, <1>5

LEMMA NewBlock ==
    ASSUME NEW c \in Chunks, NEW at \in Nat, NEW n \in Nat, NEW al \in Aligns \cup {1}
    PROVE  LET x == [chunk |-> c, at |-> at, size |-> n, align |-> al]
           IN  x \in Block /\ x.chunk = c /\ x.at = at /\ x.size = n /\ x.align = al
BY DEF Block

(* The blocks in use are beneath the topmost chunk, whichever it is.         *)
LEMMA LiesNow ==
    ASSUME NEW ar, Good(ar), NEW m, NEW lv, NEW x \in Block, Lies(ar, m, x)
    PROVE  Lies(ar, Now(ar, lv), x) /\ ar.current # <<>>
<1>1. ar.current \in Seq(Chunks)
  BY GoodFields
<1>2. x.chunk \in Held(ar.current)
  BY BeneathIsHeld DEF Lies
<1>3. ar.current # <<>> /\ Beneath(ar.current, x.chunk, Head(ar.current))
  BY <1>1, <1>2, BeneathTop
<1>4. Now(ar, lv).chunk = Head(ar.current) /\ Now(ar, lv).used = ar.used[Head(ar.current)]
  BY <1>3, NowFields
<1> QED BY <1>3, <1>4 DEF Lies

(* The present position lasts, given that its blocks do and are apart.       *)
LEMMA NowLasts ==
    ASSUME NEW ar, Good(ar), NEW lv \in SUBSET Block,
           \A x \in lv : \E m : Lies(ar, m, x),
           \A x, y \in lv : x # y => Apart(x, y)
    PROVE  Lasts(ar, Now(ar, lv))
<1> DEFINE now == Now(ar, lv)
<1>1. now \in Mark /\ now.live = lv
  BY NowIsMark, NowFields
<1>2. \A x \in lv : Lies(ar, now, x) /\ ar.current # <<>>
  BY LiesNow
<1>3. CASE ar.current = <<>>
  <2>1. now.chunk = NoChunk /\ now.used = 0 /\ lv = {}
    BY <1>2, <1>3, NowFields
  <2> QED BY <1>1, <2>1 DEF Lasts
<1>4. CASE ar.current # <<>>
  <2>1. now.chunk = Head(ar.current) /\ now.used = ar.used[Head(ar.current)]
    BY <1>4, NowFields
  <2>2. ar.current \in Seq(Chunks) /\ ar.used \in [Chunks -> Nat]
    BY GoodFields
  <2>3. Head(ar.current) \in Chunks /\ Head(ar.current) \in Held(ar.current) /\ Head(ar.current) # NoChunk
    BY <1>4, <2>2, ArenaAssumption DEF Held, NoChunk
  <2>4. ar.used[Head(ar.current)] \in Nat
    BY <2>2, <2>3
  <2>5. now.used <= ar.used[now.chunk]
    BY <2>1, <2>4
  <2> QED BY <1>1, <1>2, <2>1, <2>3, <2>5 DEF Lasts
<1> QED BY <1>3, <1>4

(* A position is not above the present one.                                  *)
LEMMA NowFollows ==
    ASSUME NEW ar, Good(ar), NEW m, Lasts(ar, m), NEW lv,
           \A x \in m.live, y \in lv : Apart(x, y) \/ SamePlace(x, y)
    PROVE  Follows(ar.current, m, Now(ar, lv))
<1> DEFINE now == Now(ar, lv)
<1>1. ar.current \in Seq(Chunks) /\ now.live = lv /\ m.used \in Nat
  BY GoodFields, NowFields, MarkFields DEF Lasts
<1>2. CASE m.chunk = NoChunk
  <2>1. m.used = 0 /\ m.live = {}
    BY <1>2 DEF Lasts
  <2>2. now.chunk = NoChunk => now.used = 0
    <3>1. CASE ar.current = <<>>
      BY <3>1, NowFields
    <3>2. CASE ar.current # <<>>
      <4>1. Head(ar.current) \in Chunks
        BY <1>1, <3>2
      <4> QED BY <3>2, <4>1, NowFields, ArenaAssumption DEF NoChunk
    <3> QED BY <3>1, <3>2
  <2> QED BY <1>2, <2>1, <2>2 DEF Follows
<1>3. CASE m.chunk # NoChunk
  <2>1. m.chunk \in Held(ar.current) /\ m.used <= ar.used[m.chunk]
    BY <1>3 DEF Lasts
  <2>2. ar.current # <<>> /\ Beneath(ar.current, m.chunk, Head(ar.current))
    BY <1>1, <2>1, BeneathTop
  <2>3. now.chunk = Head(ar.current) /\ now.used = ar.used[Head(ar.current)]
    BY <2>2, NowFields
  <2> QED BY <1>1, <1>3, <2>1, <2>2, <2>3 DEF Follows
<1> QED BY <1>2, <1>3

(* What World says of the blocks in use. *)
LEMMA WorldFields ==
    ASSUME NEW ar, NEW lv, NEW ms, World(ar, lv, ms)
    PROVE  /\ Good(ar) /\ ms \in Seq(Mark) /\ lv \in SUBSET Block
           /\ \A x \in lv : Lies(ar, Now(ar, lv), x)
           /\ \A x, y \in lv : x # y => Apart(x, y)
           /\ \A k \in DOMAIN ms : /\ Lasts(ar, ms[k]) /\ ms[k] \in Mark /\ ms[k].live \in SUBSET Block
                                   /\ \A x \in ms[k].live : Lies(ar, ms[k], x)
                                   /\ \A x \in ms[k].live, y \in lv : Apart(x, y) \/ SamePlace(x, y)
<1>1. Good(ar) /\ ms \in Seq(Mark) /\ Lasts(ar, Now(ar, lv))
  BY DEF World
<1>2. Now(ar, lv).live = lv
  BY NowFields
<1>3. lv \in SUBSET Block
  BY <1>1, <1>2, MarkFields DEF Lasts
<1>4. ASSUME NEW k \in DOMAIN ms
      PROVE  /\ Lasts(ar, ms[k]) /\ ms[k] \in Mark /\ ms[k].live \in SUBSET Block
             /\ \A x \in ms[k].live : Lies(ar, ms[k], x)
             /\ \A x \in ms[k].live, y \in lv : Apart(x, y) \/ SamePlace(x, y)
  <2>1. Lasts(ar, ms[k]) /\ Follows(ar.current, ms[k], Now(ar, lv))
    BY DEF World
  <2>2. ms[k] \in Mark /\ \A x \in ms[k].live : Lies(ar, ms[k], x)
    BY <2>1 DEF Lasts
  <2>3. ms[k].live \in SUBSET Block
    BY <2>2, MarkFields
  <2>4. \A x \in ms[k].live, y \in lv : Apart(x, y) \/ SamePlace(x, y)
    BY <1>2, <2>1 DEF Follows
  <2> QED BY <2>1, <2>2, <2>3, <2>4
<1>5. /\ \A x \in lv : Lies(ar, Now(ar, lv), x)
      /\ \A x, y \in lv : x # y => Apart(x, y)
  BY <1>1, <1>2 DEF Lasts
<1> QED BY <1>1, <1>3, <1>4, <1>5

(* So much is enough after a call that keeps the chunks in use.              *)
LEMMA NextWorld ==
    ASSUME NEW ar, NEW lv, NEW ms, World(ar, lv, ms), NEW br, Good(br), Kept(ar, br),
           NEW lw \in SUBSET Block,
           \A x \in lw : \E m : Lies(br, m, x),
           \A x, y \in lw : x # y => Apart(x, y),
           \A k \in DOMAIN ms : \A x \in ms[k].live, y \in lw : Apart(x, y) \/ SamePlace(x, y)
    PROVE  World(br, lw, ms)
<1>1. Lasts(br, Now(br, lw))
  BY NowLasts
<1>2. Good(ar)
  BY DEF World
<1>3. ASSUME NEW k \in DOMAIN ms PROVE Follows(br.current, ms[k], Now(br, lw))
  <2>1. Lasts(br, ms[k])
    BY <1>2, KeptLasts DEF World
  <2> QED BY <2>1, NowFollows
<1> QED BY <1>1, <1>3, KeptWorld

LEMMA SameWorld ==
    ASSUME NEW ar, NEW lv, NEW ms, World(ar, lv, ms), NEW br, Good(br), Kept(ar, br),
           NEW lw, lw \subseteq lv
    PROVE  World(br, lw, ms)
<1>1. /\ Good(ar) /\ lv \in SUBSET Block
      /\ \A x \in lv : Lies(ar, Now(ar, lv), x)
      /\ \A x, y \in lv : x # y => Apart(x, y)
      /\ \A k \in DOMAIN ms : \A x \in ms[k].live, y \in lv : Apart(x, y) \/ SamePlace(x, y)
  BY WorldFields
<1>2. \A x \in lw : Lies(br, Now(ar, lv), x)
  BY <1>1, KeptLies
<1>3. lw \in SUBSET Block
  BY <1>1
<1>4. \A x \in lw : \E m : Lies(br, m, x)
  BY <1>2
<1>5. /\ \A x, y \in lw : x # y => Apart(x, y)
      /\ \A k \in DOMAIN ms : \A x \in ms[k].live, y \in lw : Apart(x, y) \/ SamePlace(x, y)
  BY <1>1
<1> QED BY <1>3, <1>4, <1>5, NextWorld

(* A new block. *)
LEMMA GainsWorld ==
    ASSUME NEW ar, NEW lv, NEW ms, World(ar, lv, ms), NEW br, Good(br),
           NEW c, NEW at, NEW n \in Nat, NEW al \in Aligns \cup {1}, Placed(ar, br, c, at, n, al),
           NEW x, x = [chunk |-> c, at |-> at, size |-> n, align |-> al]
    PROVE  x \in Block /\ World(br, lv \cup {x}, ms)
<1>1. /\ Good(ar) /\ lv \in SUBSET Block /\ ms \in Seq(Mark)
      /\ \A y \in lv : Lies(ar, Now(ar, lv), y)
      /\ \A y, z \in lv : y # z => Apart(y, z)
      /\ \A k \in DOMAIN ms : /\ ms[k].live \in SUBSET Block
                              /\ \A y \in ms[k].live : Lies(ar, ms[k], y)
                              /\ \A y \in ms[k].live, z \in lv : Apart(y, z) \/ SamePlace(y, z)
  BY WorldFields
<1>2. Kept(ar, br) /\ c \in Chunks /\ at \in Nat /\ br.current # <<>> /\ Head(br.current) = c
      /\ at + Bytes(n) <= br.used[c] /\ (br.base[c] + at) % al = 0
  BY DEF Placed
<1>3. x \in Block /\ x.chunk = c /\ x.at = at /\ x.size = n /\ x.align = al
  BY <1>2, NewBlock
<1>4. br.current \in Seq(Chunks)
  BY GoodFields
<1>5. End(x) <= br.used[c]
  BY <1>2, <1>3, BlockFields
<1>6. Lies(br, Now(br, lv), x)
  <2>1. c \in Held(br.current)
    BY <1>2, <1>4 DEF Held
  <2>2. Beneath(br.current, c, Head(br.current))
    BY <1>4, <2>1, BeneathTop
  <2>3. Now(br, lv).chunk = c /\ Now(br, lv).used = br.used[c]
    BY <1>2, NowFields
  <2> QED BY <1>2, <1>3, <1>5, <2>2, <2>3 DEF Lies
<1>7. \A y \in lv : Lies(br, Now(ar, lv), y)
  BY <1>1, <1>2, KeptLies
<1>8. \A y \in lv : Apart(x, y) /\ Apart(y, x)
  BY <1>1, <1>3, PlacedApart
<1>9. ASSUME NEW k \in DOMAIN ms, NEW y \in ms[k].live, NEW z \in lv \cup {x} PROVE Apart(y, z) \/ SamePlace(y, z)
  <2>1. y \in Block /\ Lies(ar, ms[k], y)
    BY <1>1
  <2>2. Apart(y, x)
    BY <1>1, <1>3, <2>1, PlacedApart
  <2> QED BY <1>1, <2>2
<1>10. \A y \in lv \cup {x} : \E m : Lies(br, m, y)
  BY <1>6, <1>7
<1>11. \A y, z \in lv \cup {x} : y # z => Apart(y, z)
  BY <1>1, <1>8
<1>12. lv \cup {x} \in SUBSET Block
  BY <1>1, <1>3
<1>13. World(br, lv \cup {x}, ms)
  BY <1>2, <1>9, <1>10, <1>11, <1>12, NextWorld
<1> QED BY <1>3, <1>13

(* A block grown in place: it was the last of its chunk, so what was apart   *)
(* from it was before it, or elsewhere.                                      *)
LEMMA StretchesApart ==
    ASSUME NEW ar, Good(ar), NEW x \in Block, NEW n \in Nat, x.size <= n, x.size # 0,
           x.at + x.size = ar.used[x.chunk],
           NEW y, y = [chunk |-> x.chunk, at |-> x.at, size |-> n, align |-> x.align],
           NEW z \in Block, NEW m, Lies(ar, m, z), Apart(z, x)
    PROVE  Apart(z, y) /\ Apart(y, z)
<1>1. /\ x.at \in Nat /\ x.size \in Nat /\ x.chunk \in Chunks /\ x.align \in Aligns \cup {1} /\ End(x) = x.at + Bytes(x.size)
      /\ z.at \in Nat /\ End(z) \in Nat /\ z.at < End(z)
  BY BlockFields
<1>2. y.chunk = x.chunk /\ y.at = x.at
  OBVIOUS
<1>3. CASE z.chunk # x.chunk
  BY <1>2, <1>3 DEF Apart
<1>4. CASE z.chunk = x.chunk
  <2>1. End(z) <= ar.used[x.chunk] /\ ar.used[x.chunk] \in Nat
    BY <1>1, <1>4, GoodFields DEF Lies
  <2>2. End(x) = ar.used[x.chunk]
    BY <1>1 DEF Bytes
  <2>3. ~ (End(x) <= z.at)
    BY <1>1, <2>1, <2>2
  <2>4. End(z) <= x.at
    BY <1>4, <2>3 DEF Apart
  <2> QED BY <1>2, <2>4 DEF Apart
<1> QED BY <1>3, <1>4

LEMMA StretchWorld ==
    ASSUME NEW ar, NEW lv, NEW ms, World(ar, lv, ms), NEW x \in lv, NEW n \in Nat, x.size <= n,
           NEW r, Stretched(ar, r, x, n),
           NEW y, y = [chunk |-> x.chunk, at |-> x.at, size |-> n, align |-> x.align]
    PROVE  y \in Block /\ World(r.ar, (lv \ {x}) \cup {y}, ms)
<1> DEFINE br == r.ar
           lw == (lv \ {x}) \cup {y}
<1>1. /\ Good(ar) /\ lv \in SUBSET Block
      /\ \A z \in lv : Lies(ar, Now(ar, lv), z)
      /\ \A z, w \in lv : z # w => Apart(z, w)
      /\ \A k \in DOMAIN ms : /\ ms[k].live \in SUBSET Block
                              /\ \A z \in ms[k].live : Lies(ar, ms[k], z)
                              /\ \A z \in ms[k].live, w \in lv : Apart(z, w) \/ SamePlace(z, w)
  BY WorldFields
<1>2. /\ Good(br) /\ Kept(ar, br)
      /\ x.size # 0 /\ ar.current # <<>> /\ x.chunk = Head(ar.current)
      /\ x.at + x.size = ar.used[x.chunk]
      /\ br.current = ar.current /\ br.base = ar.base /\ br.used[x.chunk] = x.at + n
  BY DEF Stretched
<1> HIDE DEF br
<1>3. /\ x \in Block /\ x.at \in Nat /\ x.size \in Nat /\ x.chunk \in Chunks /\ x.align \in Aligns \cup {1}
  BY <1>1, BlockFields
<1>4. y \in Block /\ y.chunk = x.chunk /\ y.at = x.at /\ y.size = n /\ y.align = x.align
  BY <1>3, NewBlock
<1>5. ASSUME NEW z \in Block, NEW m, Lies(ar, m, z), Apart(z, x) PROVE Apart(z, y) /\ Apart(y, z)
  BY <1>1, <1>2, <1>3, <1>5, StretchesApart
<1>6. End(y) = br.used[x.chunk]
  BY <1>2, <1>3, <1>4, BlockFields DEF Bytes
<1>7. Lies(br, Now(br, lv), y)
  <2>1. Now(br, lv).chunk = x.chunk /\ Now(br, lv).used = br.used[x.chunk]
    BY <1>2, NowFields
  <2>2. Lies(ar, Now(ar, lv), x)
    BY <1>1
  <2>3. Beneath(br.current, x.chunk, x.chunk)
    <3>1. Now(ar, lv).chunk = x.chunk
      BY <1>2, NowFields
    <3> QED BY <1>2, <2>2, <3>1 DEF Lies
  <2>4. (br.base[y.chunk] + y.at) % y.align = 0
    BY <1>2, <1>4, <2>2 DEF Lies
  <2>5. br.used[x.chunk] \in Nat /\ End(y) <= br.used[x.chunk]
    BY <1>2, <1>3, <1>6
  <2> QED BY <1>4, <2>1, <2>3, <2>4, <2>5 DEF Lies
<1>8. \A z \in lw : \E m : Lies(br, m, z)
  <2>1. \A z \in lv : Lies(br, Now(ar, lv), z)
    BY <1>1, <1>2, KeptLies
  <2> QED BY <1>7, <2>1
<1>9. \A z, w \in lw : z # w => Apart(z, w)
  <2>1. \A z \in lv \ {x} : Apart(z, y) /\ Apart(y, z)
    BY <1>1, <1>5
  <2> QED BY <1>1, <2>1
<1>10. ASSUME NEW k \in DOMAIN ms, NEW z \in ms[k].live, NEW w \in lw PROVE Apart(z, w) \/ SamePlace(z, w)
  <2>1. CASE w \in lv
    BY <1>1, <2>1
  <2>2. CASE w = y
    <3>1. Apart(z, x) \/ SamePlace(z, x)
      BY <1>1
    <3>2. CASE Apart(z, x)
      BY <1>1, <1>5, <2>2, <3>2
    <3>3. CASE SamePlace(z, x)
      BY <1>4, <2>2, <3>3 DEF SamePlace
    <3> QED BY <3>1, <3>2, <3>3
  <2> QED BY <2>1, <2>2
<1>11. lw \in SUBSET Block
  BY <1>1, <1>4
<1> HIDE DEF lw
<1>12. World(br, lw, ms)
  BY <1>2, <1>8, <1>9, <1>10, <1>11, NextWorld
<1> QED BY <1>4, <1>12 DEF br, lw

(* The present position is saved. *)
LEMMA SaveWorld ==
    ASSUME NEW ar, NEW lv, NEW ms, World(ar, lv, ms)
    PROVE  World(ar, lv, Append(ms, Now(ar, lv)))
<1> DEFINE now == Now(ar, lv)
           mt == Append(ms, now)
<1>1. Good(ar) /\ ms \in Seq(Mark) /\ Lasts(ar, now) /\ now \in Mark
  BY DEF World, Lasts
<1>2. now.live = lv /\ \A x, y \in lv : x # y => Apart(x, y)
  BY WorldFields, NowFields
<1>3. /\ mt \in Seq(Mark) /\ Len(ms) \in Nat /\ DOMAIN ms = 1 .. Len(ms) /\ DOMAIN mt = 1 .. Len(ms) + 1
      /\ mt[Len(ms) + 1] = now
      /\ \A k \in 1 .. Len(ms) : mt[k] = ms[k]
  BY <1>1
<1>4. Follows(ar.current, now, now)
  <2>1. \A x, y \in now.live : Apart(x, y) \/ SamePlace(x, y)
    BY <1>2 DEF SamePlace
  <2> QED BY <1>1, <1>2, <2>1, NowFollows
<1>5. \A k \in DOMAIN ms : Lasts(ar, ms[k]) /\ Follows(ar.current, ms[k], now)
  BY DEF World
<1>6. \A k, l \in DOMAIN ms : k < l => Follows(ar.current, ms[k], ms[l])
  BY DEF World
<1> HIDE DEF now, mt
<1>7. \A k \in DOMAIN mt : k \in DOMAIN ms \/ k = Len(ms) + 1
  BY <1>3
<1>8. \A k \in DOMAIN mt : Lasts(ar, mt[k]) /\ Follows(ar.current, mt[k], now)
  BY <1>1, <1>3, <1>4, <1>5, <1>7
<1>9. ASSUME NEW k \in DOMAIN mt, NEW l \in DOMAIN mt, k < l PROVE Follows(ar.current, mt[k], mt[l])
  <2>1. k \in DOMAIN ms
    BY <1>3, <1>9
  <2>2. CASE l \in DOMAIN ms
    BY <1>3, <1>6, <1>9, <2>1, <2>2
  <2>3. CASE l = Len(ms) + 1
    BY <1>3, <1>5, <2>1, <2>3
  <2> QED BY <1>7, <2>2, <2>3
<1>10. World(ar, lv, mt)
  BY <1>1, <1>3, <1>8, <1>9 DEF World, now
<1> QED BY <1>10 DEF mt, now

(* Everything is taken back. *)
LEMMA ResetWorld ==
    ASSUME NEW ar, Good(ar), NEW br, br = arena_reset(ar)
    PROVE  World(br, {}, <<>>)
<1>1. Good(br)
  BY Resets
<1>2. Lasts(br, Now(br, {}))
  BY <1>1, NowLasts
<1>3. <<>> \in Seq(Mark) /\ DOMAIN <<>> = {}
  OBVIOUS
<1> QED BY <1>1, <1>2, <1>3 DEF World

(* A position that is not above the one rolled back to lasts.                *)
NotAbove(s, l, m) ==
    /\ l.chunk # NoChunk => Beneath(s, l.chunk, m.chunk)
    /\ l.chunk = m.chunk => l.used <= m.used

CutBack(ar, br, m, n) ==
    /\ Good(br) /\ br.current = SubSeq(ar.current, n + 1, Len(ar.current))
    /\ br.base = ar.base /\ br.reserved = ar.reserved
    /\ m.chunk # NoChunk => br.used[m.chunk] = m.used
    /\ \A c \in Held(br.current) \ {m.chunk} : br.used[c] = ar.used[c]

(* n chunks are above position m.                                            *)
Stands(ar, m, n) ==
    /\ m.chunk = NoChunk => n = Len(ar.current)
    /\ m.chunk # NoChunk => n \in 0 .. Len(ar.current) - 1 /\ m.chunk = ar.current[n + 1]

LEMMA IsCutBack ==
    ASSUME NEW ar, Good(ar), NEW n \in 0 .. Len(ar.current), NEW m, Reaches(ar, m, n)
    PROVE  CutBack(ar, arena_rollback(ar, m, n), m, n)
BY RollsBack DEF CutBack

LEMMA RollLasts ==
    ASSUME NEW ar, Good(ar), NEW m, Lasts(ar, m), NEW n \in 0 .. Len(ar.current),
           Stands(ar, m, n), NEW br, CutBack(ar, br, m, n),
           NEW l, Lasts(ar, l), NotAbove(ar.current, l, m)
    PROVE  Lasts(br, l)
<1>0. /\ m.chunk # NoChunk => n \in 0 .. Len(ar.current) - 1 /\ m.chunk = ar.current[n + 1]
      /\ br.base = ar.base
      /\ br.current = SubSeq(ar.current, n + 1, Len(ar.current))
      /\ m.chunk # NoChunk => br.used[m.chunk] = m.used
      /\ \A c \in Held(br.current) \ {m.chunk} : br.used[c] = ar.used[c]
      /\ Good(br)
  BY DEF Stands, CutBack
<1>00. m \in Mark
  BY DEF Lasts
<1>01. br.used \in [Chunks -> Nat]
  BY <1>0, GoodFields
<1>1. ar.current \in Seq(Chunks) /\ Once(ar.current) /\ ar.used \in [Chunks -> Nat]
  BY GoodFields
<1>2. l \in Mark /\ l.used \in Nat /\ l.live \in SUBSET Block /\ m.used \in Nat
  BY MarkFields DEF Lasts
<1>3. \A x, y \in l.live : x # y => Apart(x, y)
  BY DEF Lasts
<1>4. CASE l.chunk = NoChunk
  BY <1>2, <1>4 DEF Lasts
<1>5. CASE l.chunk # NoChunk
  <2>1. Beneath(ar.current, l.chunk, m.chunk) /\ l.chunk \in Held(ar.current) /\ m.chunk \in Held(ar.current)
    BY <1>5, BeneathIsHeld DEF NotAbove
  <2>2. m.chunk \in Chunks /\ m.chunk # NoChunk /\ l.chunk \in Chunks
    BY <1>1, <2>1, HeldType, ArenaAssumption DEF NoChunk
  <2>3. /\ n \in 0 .. Len(ar.current) - 1 /\ m.chunk = ar.current[n + 1] /\ br.used[m.chunk] = m.used
    BY <1>0, <2>2
  <2>4. ASSUME NEW c, NEW d, Beneath(ar.current, c, d), Beneath(ar.current, d, m.chunk)
        PROVE  Beneath(br.current, c, d)
    BY <1>0, <1>1, <2>3, <2>4, BeneathRest
  <2>5. Beneath(ar.current, m.chunk, m.chunk)
    BY <2>1 DEF Beneath, Held
  <2>6. l.chunk \in Held(br.current)
    BY <2>1, <2>4, <2>5, BeneathIsHeld
  <2>7. l.used <= br.used[l.chunk]
    <3>1. CASE l.chunk = m.chunk
      BY <2>3, <3>1 DEF NotAbove
    <3>2. CASE l.chunk # m.chunk
      BY <1>0, <1>5, <2>6, <3>2 DEF Lasts
    <3> QED BY <3>1, <3>2
  <2>8. ASSUME NEW x \in l.live PROVE Lies(br, l, x)
    <3>1. x \in Block /\ Lies(ar, l, x)
      BY <1>2 DEF Lasts
    <3>2. End(x) \in Nat
      BY <3>1, BlockFields
    <3>3. Beneath(ar.current, x.chunk, l.chunk) /\ End(x) <= ar.used[x.chunk]
          /\ (x.chunk = l.chunk => End(x) <= l.used) /\ (ar.base[x.chunk] + x.at) % x.align = 0
      BY <3>1 DEF Lies
    <3>4. Beneath(br.current, x.chunk, l.chunk)
      BY <2>1, <2>4, <3>3
    <3>5. End(x) <= br.used[x.chunk]
      <4>1. CASE x.chunk = m.chunk
        <5>1. l.chunk = m.chunk
          BY <1>1, <2>1, <3>3, <4>1, BeneathOrder
        <5>2. End(x) <= l.used /\ l.used <= m.used
          BY <3>3, <4>1, <5>1 DEF NotAbove
        <5>3. End(x) <= m.used
          BY <1>2, <3>2, <5>2
        <5> QED BY <2>3, <4>1, <5>3
      <4>2. CASE x.chunk # m.chunk
        <5>1. x.chunk \in Held(br.current)
          BY <3>4, BeneathIsHeld
        <5> QED BY <1>0, <3>3, <4>2, <5>1
      <4> QED BY <4>1, <4>2
    <3> QED BY <1>0, <3>3, <3>4, <3>5 DEF Lies
  <2> QED BY <1>2, <1>3, <1>5, <2>6, <2>7, <2>8 DEF Lasts
<1> QED BY <1>4, <1>5

(* How many chunks are above a position's. *)
AboveIn(ar, m) ==
    IF m.chunk = NoChunk THEN Len(ar.current)
    ELSE Smallest({i \in DOMAIN ar.current : ar.current[i] = m.chunk}) - 1

LEMMA RollWorld ==
    ASSUME NEW ar, NEW lv, NEW ms, World(ar, lv, ms), NEW k \in DOMAIN ms,
           NEW n, n = AboveIn(ar, ms[k]),
           NEW br, br = arena_rollback(ar, ms[k], n)
    PROVE  World(br, ms[k].live, SubSeq(ms, 1, k - 1)) /\ br.reserved = ar.reserved
<1> DEFINE m == ms[k]
           mt == SubSeq(ms, 1, k - 1)
           len == Len(ar.current)
<1>1. Good(ar) /\ ms \in Seq(Mark) /\ \A l \in DOMAIN ms : Lasts(ar, ms[l])
  BY DEF World
<1>2. /\ ar.current \in Seq(Chunks) /\ Once(ar.current) /\ len \in Nat /\ DOMAIN ar.current = 1 .. len
  BY <1>1, GoodFields
<1>3. Lasts(ar, m) /\ m \in Mark /\ m.used \in Nat
      /\ m = [chunk |-> m.chunk, used |-> m.used, live |-> m.live]
  BY <1>1, MarkFields DEF Lasts
<1>4. br = arena_rollback(ar, m, n)
  OBVIOUS
<1>5. /\ n \in 0 .. len
      /\ m.chunk = NoChunk => n = len
      /\ m.chunk # NoChunk => n \in 0 .. len - 1 /\ m.chunk = ar.current[n + 1]
  <2>1. CASE m.chunk = NoChunk
    BY <1>2, <2>1 DEF AboveIn
  <2>2. CASE m.chunk # NoChunk
    <3> DEFINE I == {i \in DOMAIN ar.current : ar.current[i] = m.chunk}
    <3>1. I \subseteq Nat /\ I # {}
      BY <1>2, <1>3, <2>2 DEF Lasts, Held
    <3>2. n = Smallest(I) - 1
      BY <2>2 DEF AboveIn
    <3> HIDE DEF I
    <3>3. Smallest(I) \in I
      BY <3>1, SmallestIsIn
    <3>4. Smallest(I) \in 1 .. len /\ ar.current[Smallest(I)] = m.chunk
      BY <1>2, <3>3 DEF I
    <3>5. n \in 0 .. len - 1 /\ n + 1 = Smallest(I)
      BY <1>2, <3>2, <3>4
    <3>6. n \in 0 .. len
      BY <1>2, <3>5
    <3> QED BY <2>2, <3>4, <3>5, <3>6
  <2> QED BY <2>1, <2>2
<1> HIDE DEF m, mt
<1>6. Reaches(ar, m, n)
  <2> SUFFICES ASSUME m.chunk # NoChunk
               PROVE  m.chunk \in {ar.current[i] : i \in n + 1 .. len} /\ m.used <= ar.used[m.chunk]
    BY <1>3 DEF Reaches
  <2>1. n + 1 \in n + 1 .. len
    BY <1>2, <1>5
  <2> QED BY <1>3, <1>5, <2>1 DEF Lasts
<1>70. CutBack(ar, br, m, n)
  BY <1>1, <1>2, <1>4, <1>5, <1>6, IsCutBack
<1>7. /\ Good(br) /\ br.current = SubSeq(ar.current, n + 1, Len(ar.current))
      /\ br.base = ar.base /\ br.reserved = ar.reserved
      /\ m.chunk # NoChunk => br.used[m.chunk] = m.used
  BY <1>70 DEF CutBack
<1>8. br.used \in [Chunks -> Nat] /\ br.current \in Seq(Chunks)
  BY <1>7, GoodFields
<1>9. ASSUME NEW l, Lasts(ar, l), NotAbove(ar.current, l, m) PROVE Lasts(br, l)
  <2>1. Stands(ar, m, n)
    BY <1>5 DEF Stands
  <2> QED BY <1>1, <1>2, <1>3, <1>5, <1>70, <1>9, <2>1, RollLasts
<1>10. Now(br, m.live) = m
  <2>1. CASE m.chunk = NoChunk
    <3>1. br.current = <<>>
      BY <1>2, <1>5, <1>7, <2>1
    <3>2. m.used = 0
      <4> HIDE DEF len
      <4> QED BY <1>3, <2>1 DEF Lasts
    <3> QED BY <1>3, <2>1, <3>1, <3>2 DEF Now
  <2>2. CASE m.chunk # NoChunk
    <3>1. br.current # <<>> /\ Head(br.current) = m.chunk
      <4>1. n \in 0 .. Len(ar.current) - 1 /\ m.chunk = ar.current[n + 1]
        BY <1>5, <2>2
      <4>2. ASSUME NEW s \in Seq(Chunks), NEW i \in 0 .. Len(s) - 1
            PROVE  SubSeq(s, i + 1, Len(s)) # <<>> /\ Head(SubSeq(s, i + 1, Len(s))) = s[i + 1]
        <5> DEFINE t == SubSeq(s, i + 1, Len(s))
        <5>1. Len(s) \in Nat /\ i \in Nat
          OBVIOUS
        <5>2. DOMAIN t = 1 .. Len(s) - i /\ \A h \in 1 .. Len(s) - i : t[h] = s[i + h]
          BY <5>1
        <5>3. t \in Seq(Chunks)
          BY <5>1, Part
        <5>30. 1 \in 1 .. Len(s) - i
          BY <5>1
        <5> HIDE DEF t
        <5>31. 1 \in DOMAIN t /\ t[1] = s[i + 1]
          BY <5>1, <5>2, <5>30
        <5>4. t # <<>> /\ Head(t) = t[1]
          BY <5>3, <5>31
        <5> QED BY <5>31, <5>4 DEF t
      <4> QED BY <1>2, <1>7, <4>1, <4>2
    <3> QED BY <1>3, <1>7, <2>2, <3>1 DEF Now
  <2> QED BY <2>1, <2>2
<1>11. NotAbove(ar.current, m, m)
  <2>1. ASSUME m.chunk # NoChunk PROVE Beneath(ar.current, m.chunk, m.chunk)
    <3>1. m.chunk \in Held(ar.current)
      BY <1>3, <2>1 DEF Lasts
    <3>2. PICK i \in DOMAIN ar.current : ar.current[i] = m.chunk
      BY <3>1 DEF Held
    <3>3. i <= i
      BY <1>2
    <3> QED BY <3>2, <3>3 DEF Beneath
  <2> QED BY <1>3, <2>1 DEF NotAbove
<1>12. Lasts(br, m)
  BY <1>3, <1>9, <1>11
<1>13. /\ mt \in Seq(Mark) /\ DOMAIN mt = 1 .. k - 1 /\ \A l \in 1 .. k - 1 : mt[l] = ms[l] /\ l \in DOMAIN ms /\ l < k
       /\ k \in Nat
  BY <1>1 DEF mt
<1>14. ASSUME NEW l \in DOMAIN mt PROVE mt[l] = ms[l] /\ Follows(ar.current, mt[l], m) /\ NotAbove(ar.current, mt[l], m)
  <2>1. mt[l] = ms[l] /\ l \in DOMAIN ms /\ l < k
    BY <1>13
  <2>2. Follows(ar.current, ms[l], m)
    BY <2>1 DEF World, m
  <2> QED BY <2>1, <2>2 DEF Follows, NotAbove
<1>15. \A l \in DOMAIN mt : Lasts(br, mt[l])
  BY <1>1, <1>9, <1>13, <1>14
<1>16. ASSUME NEW l, NEW j, Follows(ar.current, l, j), NotAbove(ar.current, j, m), Lasts(ar, j)
       PROVE  Follows(br.current, l, j)
  <2>1. CASE l.chunk = NoChunk
    BY <1>16, <2>1 DEF Follows
  <2>2. CASE l.chunk # NoChunk
    <3>1. Beneath(ar.current, l.chunk, j.chunk) /\ j.chunk \in Chunks
      BY <1>2, <1>16, <2>2, BeneathIsHeld, HeldType DEF Follows
    <3>2. Beneath(ar.current, j.chunk, m.chunk)
      BY <1>16, <3>1, ArenaAssumption DEF NotAbove, NoChunk
    <3>3. m.chunk \in Chunks /\ m.chunk # NoChunk
      BY <1>2, <3>2, BeneathIsHeld, HeldType, ArenaAssumption DEF NoChunk
    <3>4. n \in 0 .. Len(ar.current) - 1 /\ m.chunk = ar.current[n + 1]
      BY <1>5, <3>3
    <3>5. Beneath(br.current, l.chunk, j.chunk)
      BY <1>2, <1>7, <3>1, <3>2, <3>4, BeneathRest
    <3> QED BY <1>16, <3>5 DEF Follows
  <2> QED BY <2>1, <2>2
<1>17. \A l \in DOMAIN mt : Follows(br.current, mt[l], m)
  BY <1>3, <1>11, <1>14, <1>16
<1>18. ASSUME NEW l \in DOMAIN mt, NEW j \in DOMAIN mt, l < j PROVE Follows(br.current, mt[l], mt[j])
  <2>1. Follows(ar.current, mt[l], mt[j])
    BY <1>13, <1>14, <1>18 DEF World
  <2>2. Lasts(ar, mt[j])
    BY <1>1, <1>13
  <2> QED BY <1>14, <1>16, <2>1, <2>2
<1>19. World(br, m.live, mt)
  BY <1>7, <1>10, <1>12, <1>13, <1>15, <1>17, <1>18 DEF World
<1> QED BY <1>7, <1>19 DEF m, mt

-----------------------------------------------------------------------------
(* What one call does, whoever makes it.                                     *)

LEMMA RefusalKeeps ==
    ASSUME NEW ar, Good(ar), NEW br, Refusal(ar, br)
    PROVE  /\ Kept(ar, br) /\ br.exhausted /\ br.reserved = ar.reserved
           /\ br.current = ar.current /\ br.used = ar.used /\ br.base = ar.base
<1>1. ar \in ArenaSet /\ ar.current \in Seq(Chunks) /\ ar.used \in [Chunks -> Nat]
  BY GoodFields
<1>2. /\ br.current = ar.current /\ br.used = ar.used /\ br.base = ar.base
      /\ br.fatal = ar.fatal /\ br.limit = ar.limit /\ br.exhausted /\ br.reserved = ar.reserved
  BY <1>1 DEF Refusal, ArenaSet
<1>3. \A c \in Held(ar.current) : br.used[c] >= ar.used[c]
  BY <1>1, <1>2, HeldType
<1> QED BY <1>2, <1>3 DEF Kept

(* Setting the budget changes nothing else.                                  *)
WithLimit(ar, n) == [ar EXCEPT !.limit = n]

LEMMA LimitSet ==
    ASSUME NEW ar, Good(ar), NEW n \in 0 .. SizeMax
    PROVE  Good(WithLimit(ar, n)) /\ WithLimit(ar, n).reserved = ar.reserved
<1> DEFINE br == WithLimit(ar, n)
<1>1. ar \in ArenaSet
  BY GoodFields
<1>2. /\ br \in ArenaSet
      /\ br.current = ar.current /\ br.spare = ar.spare /\ br.cap = ar.cap /\ br.used = ar.used
      /\ br.base = ar.base /\ br.reserved = ar.reserved /\ br.peak = ar.peak
  BY <1>1 DEF ArenaSet, WithLimit
<1> HIDE DEF br
<1>3. Owned(br) = Owned(ar)
  BY <1>2 DEF Owned
<1>4. Good(br)
  BY <1>2, <1>3 DEF Good, Balanced
<1> QED BY <1>2, <1>4 DEF br

LEMMA LimitWorld ==
    ASSUME NEW ar, NEW lv, NEW ms, World(ar, lv, ms), NEW n \in 0 .. SizeMax
    PROVE  World(WithLimit(ar, n), lv, ms) /\ WithLimit(ar, n).reserved = ar.reserved
<1> DEFINE br == WithLimit(ar, n)
<1>1. Good(ar)
  BY WorldFields
<1>2. Good(br) /\ br.reserved = ar.reserved
  BY <1>1, LimitSet
<1>3. br.current = ar.current /\ br.used = ar.used /\ br.base = ar.base
  <2>1. ar \in ArenaSet
    BY <1>1, GoodFields
  <2> QED BY <2>1 DEF WithLimit, ArenaSet
<1> HIDE DEF br
<1>4. \A m \in Mark : Lasts(ar, m) => Lasts(br, m)
  BY <1>3 DEF Lasts, Lies
<1>5. Now(br, lv) = Now(ar, lv)
  BY <1>3 DEF Now
<1>6. World(br, lv, ms)
  BY <1>2, <1>3, <1>4, <1>5 DEF World, Lasts
<1> QED BY <1>2, <1>6 DEF br

(* A block that was asked for is one more block in use, apart from all the   *)
(* others; a request that was refused leaves every block as it was.          *)
LEMMA AnsweredWorld ==
    ASSUME NEW ar, NEW lv, NEW ms, World(ar, lv, ms), NEW n \in Nat, NEW al \in Aligns \cup {1},
           NEW r, Answered(ar, r, n, al)
    PROVE  /\ r.chunk = NoChunk => World(r.ar, lv, ms)
           /\ r.chunk # NoChunk => Given(r, n, al) \in Block /\ World(r.ar, lv \cup {Given(r, n, al)}, ms)
<1>1. Good(ar) /\ Good(r.ar)
  BY WorldFields DEF Answered
<1>2. ASSUME r.chunk = NoChunk PROVE World(r.ar, lv, ms)
  <2>1. Kept(ar, r.ar)
    BY <1>1, <1>2, RefusalKeeps DEF Answered
  <2> QED BY <1>1, <2>1, SameWorld
<1>3. ASSUME r.chunk # NoChunk
      PROVE  Given(r, n, al) \in Block /\ World(r.ar, lv \cup {Given(r, n, al)}, ms)
  <2>1. Placed(ar, r.ar, r.chunk, r.at, n, al)
    BY <1>3 DEF Answered
  <2>2. ASSUME NEW br, Good(br), NEW c, NEW at, Placed(ar, br, c, at, n, al),
               NEW x, x = [chunk |-> c, at |-> at, size |-> n, align |-> al]
        PROVE  x \in Block /\ World(br, lv \cup {x}, ms)
    BY <2>2, GainsWorld
  <2> QED BY <1>1, <2>1, <2>2 DEF Given
<1> QED BY <1>2, <1>3

LEMMA AllocWorld ==
    ASSUME NEW ar, NEW lv, NEW ms, World(ar, lv, ms), NEW n \in 0 .. SizeMax, NEW al \in Aligns \cup {1},
           NEW r \in arena_alloc(ar, n, al)
    PROVE  /\ Budget(ar, r.ar)
           /\ r.chunk = NoChunk => World(r.ar, lv, ms) /\ Refusal(ar, r.ar)
           /\ r.chunk # NoChunk => Given(r, n, al) \in Block /\ World(r.ar, lv \cup {Given(r, n, al)}, ms)
<1>1. Good(ar) /\ al \in 1 .. SizeMax /\ n \in Nat
  BY WorldFields, ArenaAssumption
<1>2. Answered(ar, r, n, al)
  BY <1>1, Allocates
<1>3. /\ r.chunk = NoChunk => World(r.ar, lv, ms)
      /\ r.chunk # NoChunk => Given(r, n, al) \in Block /\ World(r.ar, lv \cup {Given(r, n, al)}, ms)
  BY <1>1, <1>2, AnsweredWorld
<1> QED BY <1>2, <1>3 DEF Answered

(* A block that is grown is replaced, where it was or elsewhere.             *)
LEMMA ExtendWorld ==
    ASSUME NEW ar, NEW lv, NEW ms, World(ar, lv, ms), NEW x \in lv, NEW n \in 0 .. SizeMax, x.size <= n,
           NEW r \in arena_extend(ar, x, n, x.align)
    PROVE  /\ Budget(ar, r.ar)
           /\ r.chunk = NoChunk => World(r.ar, lv, ms) /\ Refusal(ar, r.ar)
           /\ r.chunk # NoChunk => /\ Given(r, n, x.align) \in Block
                                   /\ World(r.ar, (lv \ {x}) \cup {Given(r, n, x.align)}, ms)
<1>1. Good(ar) /\ x \in Block /\ n \in Nat
  BY WorldFields, ArenaAssumption
<1>2. x.at \in Nat /\ x.size \in Nat /\ x.align \in Aligns \cup {1} /\ x.align \in 1 .. SizeMax
  BY <1>1, BlockFields, ArenaAssumption
<1>3. Answered(ar, r, n, x.align) \/ Stretched(ar, r, x, n)
  BY <1>1, <1>2, Extends
<1>4. CASE Answered(ar, r, n, x.align)
  <2>1. \A y \in {lv, lv \ {x}} : World(ar, y, ms)
    <3>1. Kept(ar, ar)
      <4>1. ar.current \in Seq(Chunks) /\ ar.used \in [Chunks -> Nat]
        BY <1>1, GoodFields
      <4> QED BY <4>1, HeldType DEF Kept
    <3> QED BY <1>1, <3>1, SameWorld
  <2>2. ASSUME NEW lw, World(ar, lw, ms)
        PROVE  /\ r.chunk = NoChunk => World(r.ar, lw, ms)
               /\ r.chunk # NoChunk => /\ Given(r, n, x.align) \in Block
                                       /\ World(r.ar, lw \cup {Given(r, n, x.align)}, ms)
    BY <1>1, <1>2, <1>4, <2>2, AnsweredWorld
  <2> QED BY <1>4, <2>1, <2>2 DEF Answered
<1>5. CASE Stretched(ar, r, x, n)
  <2>1. Budget(ar, r.ar) /\ r.chunk # NoChunk /\ r.chunk = x.chunk /\ r.at = x.at
    BY <1>5 DEF Stretched
  <2>2. Given(r, n, x.align) = [chunk |-> x.chunk, at |-> x.at, size |-> n, align |-> x.align]
    BY <2>1 DEF Given
  <2>3. Given(r, n, x.align) \in Block /\ World(r.ar, (lv \ {x}) \cup {Given(r, n, x.align)}, ms)
    BY <1>1, <1>5, <2>2, StretchWorld
  <2> QED BY <2>1, <2>3
<1> QED BY <1>3, <1>4, <1>5

-----------------------------------------------------------------------------
(* The inductive invariant, and what each of its parts says of it.           *)

ArenaInv == World(a, live, marks) /\ answer \in {"ok", "NULL", "abort"}

(* What a step may not do: outgrow the budget, or fail at a cost.            *)
Frugal == a'.reserved > a.reserved => a.limit = 0 \/ a'.reserved <= a.limit
Harmless ==
    answer' = "NULL" /\ a' # a =>
        /\ ~ a.fatal
        /\ a'.exhausted
        /\ live' = live
        /\ a' = [a EXCEPT !.next_chunk = a'.next_chunk, !.exhausted = TRUE]

LEMMA StartsWell == Init => ArenaInv
<1> SUFFICES ASSUME Init PROVE ArenaInv
  OBVIOUS
<1>1. /\ a \in ArenaSet /\ a.current = <<>> /\ a.spare = <<>> /\ a.used = [c \in Chunks |-> 0]
      /\ a.cap = [c \in Chunks |-> 0] /\ a.reserved = 0 /\ a.peak = 0
  <2>1. FirstChunk \in NextChunks /\ 0 \in 0 .. SizeMax
    BY ArenaAssumption DEF NextChunks
  <2> DEFINE z == [c \in Chunks |-> 0]
  <2>2. z \in [Chunks -> Nat] /\ <<>> \in Seq(Chunks)
    OBVIOUS
  <2>3. a \in [current : {<<>>}, spare : {<<>>}, cap : {z}, used : {z}, base : {z},
               next_chunk : {FirstChunk}, reserved : {0}, peak : {0}, limit : {0},
               fatal : BOOLEAN, exhausted : {FALSE}]
    BY DEF Init
  <2> HIDE DEF z
  <2>4. /\ a.current = <<>> /\ a.spare = <<>> /\ a.cap = z /\ a.used = z /\ a.reserved = 0 /\ a.peak = 0
    BY <2>3
  <2>5. a \in ArenaSet
    BY <2>1, <2>2, <2>3 DEF ArenaSet
  <2> QED BY <2>4, <2>5 DEF z
<1>2. Owned(a) = {}
  BY <1>1 DEF Owned, Held
<1>3. Total(a.cap, {}) = 0
  BY FS_EmptySet, TotalStep
<1>4. Good(a)
  <2>1. Once(<<>>) /\ Held(<<>>) = {}
    BY DEF Once, Held
  <2> QED BY <1>1, <1>2, <1>3, <2>1 DEF Good, Balanced
<1>5. Lasts(a, Now(a, {}))
  BY <1>4, NowLasts
<1>6. <<>> \in Seq(Mark) /\ DOMAIN <<>> = {}
  OBVIOUS
<1> QED BY <1>4, <1>5, <1>6 DEF Init, ArenaInv, World

LEMMA AllocKeeps == ArenaInv /\ Alloc => ArenaInv' /\ Frugal /\ Harmless
<1> SUFFICES ASSUME ArenaInv, Alloc PROVE ArenaInv' /\ Frugal /\ Harmless
  OBVIOUS
<1>1. PICK n \in Sizes, al \in Aligns : \E r \in arena_alloc(a, n, al) :
          /\ a' = r.ar
          /\ IF r.chunk = NoChunk
             THEN answer' = Refused /\ UNCHANGED live
             ELSE answer' = "ok" /\ live' = live \cup {Given(r, n, al)}
  BY DEF Alloc
<1>2. PICK r \in arena_alloc(a, n, al) :
          /\ a' = r.ar
          /\ IF r.chunk = NoChunk
             THEN answer' = Refused /\ UNCHANGED live
             ELSE answer' = "ok" /\ live' = live \cup {Given(r, n, al)}
  BY <1>1
<1>3. World(a, live, marks) /\ Good(a) /\ n \in 0 .. SizeMax /\ marks' = marks
  BY ArenaAssumption, WorldFields DEF ArenaInv, Alloc
<1>4. /\ Budget(a, r.ar)
      /\ r.chunk = NoChunk => World(r.ar, live, marks) /\ Refusal(a, r.ar)
      /\ r.chunk # NoChunk => World(r.ar, live \cup {Given(r, n, al)}, marks)
  BY <1>3, AllocWorld
<1>5. CASE r.chunk = NoChunk
  BY <1>2, <1>3, <1>4, <1>5, RefusalKeeps DEF ArenaInv, Frugal, Harmless, Budget, Refused, Refusal
<1>6. CASE r.chunk # NoChunk
  BY <1>2, <1>3, <1>4, <1>6 DEF ArenaInv, Frugal, Harmless, Budget
<1> QED BY <1>5, <1>6

LEMMA ExtendKeeps == ArenaInv /\ Extend => ArenaInv' /\ Frugal /\ Harmless
<1> SUFFICES ASSUME ArenaInv, Extend PROVE ArenaInv' /\ Frugal /\ Harmless
  OBVIOUS
<1>1. PICK x \in live, n \in Sizes : n >= x.size /\ \E r \in arena_extend(a, x, n, x.align) :
          /\ a' = r.ar
          /\ IF r.chunk = NoChunk
             THEN answer' = Refused /\ UNCHANGED live
             ELSE answer' = "ok" /\ live' = (live \ {x}) \cup {Given(r, n, x.align)}
  BY DEF Extend
<1>2. PICK r \in arena_extend(a, x, n, x.align) :
          /\ a' = r.ar
          /\ IF r.chunk = NoChunk
             THEN answer' = Refused /\ UNCHANGED live
             ELSE answer' = "ok" /\ live' = (live \ {x}) \cup {Given(r, n, x.align)}
  BY <1>1
<1>3. World(a, live, marks) /\ Good(a) /\ n \in 0 .. SizeMax /\ marks' = marks /\ x \in Block
  BY ArenaAssumption, WorldFields DEF ArenaInv, Extend
<1>31. x.size <= n
  BY <1>1, <1>3, BlockFields, ArenaAssumption
<1>4. /\ Budget(a, r.ar)
      /\ r.chunk = NoChunk => World(r.ar, live, marks) /\ Refusal(a, r.ar)
      /\ r.chunk # NoChunk => World(r.ar, (live \ {x}) \cup {Given(r, n, x.align)}, marks)
  BY <1>3, <1>31, ExtendWorld
<1>5. CASE r.chunk = NoChunk
  BY <1>2, <1>3, <1>4, <1>5, RefusalKeeps DEF ArenaInv, Frugal, Harmless, Budget, Refused, Refusal
<1>6. CASE r.chunk # NoChunk
  BY <1>2, <1>3, <1>4, <1>6 DEF ArenaInv, Frugal, Harmless, Budget
<1> QED BY <1>5, <1>6

LEMMA ResetKeeps == ArenaInv /\ Reset => ArenaInv' /\ Frugal /\ Harmless
<1> SUFFICES ASSUME ArenaInv, Reset PROVE ArenaInv' /\ Frugal /\ Harmless
  OBVIOUS
<1>1. Good(a) /\ a.reserved \in Nat
  BY WorldFields, GoodFields DEF ArenaInv
<1>2. a' = arena_reset(a) /\ live' = {} /\ marks' = <<>> /\ answer' = "ok"
  BY DEF Reset
<1>3. World(a', {}, <<>>) /\ a'.reserved = a.reserved
  BY <1>1, <1>2, ResetWorld, Resets
<1> QED BY <1>1, <1>2, <1>3 DEF ArenaInv, Frugal, Harmless

LEMMA SaveKeeps == ArenaInv /\ Save => ArenaInv' /\ Frugal /\ Harmless
<1> SUFFICES ASSUME ArenaInv, Save PROVE ArenaInv' /\ Frugal /\ Harmless
  OBVIOUS
<1>1. World(a, live, marks) /\ a.reserved \in Nat
  BY WorldFields, GoodFields DEF ArenaInv
<1>2. marks' = Append(marks, Now(a, live)) /\ a' = a /\ live' = live /\ answer' = "ok"
  <2>1. CASE a.current = <<>>
    BY <2>1 DEF Save, Now
  <2>2. CASE a.current # <<>>
    BY <2>2 DEF Save, Now
  <2> QED BY <2>1, <2>2
<1>3. World(a', live', marks')
  BY <1>1, <1>2, SaveWorld
<1> QED BY <1>1, <1>2, <1>3 DEF ArenaInv, Frugal, Harmless

LEMMA RollbackKeeps == ArenaInv /\ Rollback => ArenaInv' /\ Frugal /\ Harmless
<1> SUFFICES ASSUME ArenaInv, Rollback PROVE ArenaInv' /\ Frugal /\ Harmless
  OBVIOUS
<1>1. World(a, live, marks) /\ a.reserved \in Nat
  BY WorldFields, GoodFields DEF ArenaInv
<1>2. PICK k \in DOMAIN marks :
          /\ a' = arena_rollback(a, marks[k], Above(marks[k]))
          /\ live' = marks[k].live
          /\ marks' = SubSeq(marks, 1, k - 1)
  BY DEF Rollback
<1>3. Above(marks[k]) = AboveIn(a, marks[k])
  BY DEF Above, AboveIn
<1>4. World(a', live', marks') /\ a'.reserved = a.reserved
  BY <1>1, <1>2, <1>3, RollWorld
<1>5. answer' = "ok"
  BY DEF Rollback
<1> QED BY <1>1, <1>4, <1>5 DEF ArenaInv, Frugal, Harmless

LEMMA SetLimitKeeps == ArenaInv /\ SetLimit => ArenaInv' /\ Frugal /\ Harmless
<1> SUFFICES ASSUME ArenaInv, SetLimit PROVE ArenaInv' /\ Frugal /\ Harmless
  OBVIOUS
<1>1. World(a, live, marks) /\ a.reserved \in Nat
  BY WorldFields, GoodFields DEF ArenaInv
<1>2. PICK n \in Limits : a' = WithLimit(a, n)
  BY DEF SetLimit, WithLimit
<1>3. n \in 0 .. SizeMax
  BY ArenaAssumption
<1>4. World(a', live, marks) /\ a'.reserved = a.reserved
  BY <1>1, <1>2, <1>3, LimitWorld
<1>5. live' = live /\ marks' = marks /\ answer' = "ok"
  BY DEF SetLimit
<1> QED BY <1>1, <1>4, <1>5 DEF ArenaInv, Frugal, Harmless

LEMMA StepKeeps == ArenaInv /\ [Next]_vars => ArenaInv' /\ Frugal /\ (vars' # vars => Harmless)
<1> SUFFICES ASSUME ArenaInv, [Next]_vars PROVE ArenaInv' /\ Frugal /\ (vars' # vars => Harmless)
  OBVIOUS
<1>1. CASE UNCHANGED vars
  <2>1. a.reserved \in Nat
    BY WorldFields, GoodFields DEF ArenaInv
  <2> QED BY <1>1, <2>1 DEF vars, ArenaInv, Frugal
<1> QED BY <1>1, AllocKeeps, ExtendKeeps, ResetKeeps, SaveKeeps, RollbackKeeps, SetLimitKeeps DEF Next

LEMMA InvIsTyped == ArenaInv => TypeOK
<1> SUFFICES ASSUME ArenaInv PROVE TypeOK
  OBVIOUS
<1>1. Good(a) /\ live \in SUBSET Block /\ marks \in Seq(Mark)
  BY WorldFields DEF ArenaInv
<1>2. a \in ArenaSet /\ \A c \in Chunks : a.used[c] <= a.cap[c]
  BY <1>1 DEF Good
<1> QED BY <1>1, <1>2 DEF TypeOK, ArenaInv, ArenaSet, NextChunks

LEMMA InvKeepsApart == ArenaInv => BlocksApart
<1> SUFFICES ASSUME ArenaInv PROVE BlocksApart
  OBVIOUS
<1>1. /\ \A x \in live : Lies(a, Now(a, live), x)
      /\ \A x, y \in live : x # y => Apart(x, y)
  BY WorldFields DEF ArenaInv
<1>2. ASSUME NEW x \in live
      PROVE  /\ x.chunk \in Held(a.current) /\ End(x) <= a.used[x.chunk]
             /\ (a.base[x.chunk] + x.at) % x.align = 0
  BY <1>1, BeneathIsHeld DEF Lies
<1> QED BY <1>1, <1>2 DEF BlocksApart

LEMMA InvCounts == ArenaInv => ChunksAccountedFor
<1> SUFFICES ASSUME ArenaInv PROVE ChunksAccountedFor
  OBVIOUS
<1>1. Good(a)
  BY WorldFields DEF ArenaInv
<1>2. Cardinality(Owned(a)) = Len(a.current) + Len(a.spare)
  BY <1>1, OwnedType
<1>3. Balanced(a)
  BY <1>1, GoodFields
<1> QED BY <1>2, <1>3 DEF ChunksAccountedFor, Balanced

LEMMA InvHoldsMarks == ArenaInv => MarksHold
<1> SUFFICES ASSUME ArenaInv, NEW k \in DOMAIN marks
    PROVE  LET m == marks[k]
           IN  /\ m.chunk # NoChunk => m.chunk \in Held(a.current) /\ m.used <= a.used[m.chunk]
               /\ \A x \in m.live :
                     /\ x.chunk \in Held(a.current)
                     /\ End(x) <= a.used[x.chunk]
                     /\ x.chunk = m.chunk => End(x) <= m.used
                     /\ \A c \in live : Apart(x, c) \/ (x.chunk = c.chunk /\ x.at = c.at)
  BY DEF MarksHold
<1> DEFINE m == marks[k]
<1>1. /\ Lasts(a, m)
      /\ \A x \in m.live : Lies(a, m, x)
      /\ \A x \in m.live, y \in live : Apart(x, y) \/ SamePlace(x, y)
  BY WorldFields DEF ArenaInv
<1> HIDE DEF m
<1>2. m.chunk # NoChunk => m.chunk \in Held(a.current) /\ m.used <= a.used[m.chunk]
  BY <1>1 DEF Lasts
<1>3. ASSUME NEW x \in m.live
      PROVE  /\ x.chunk \in Held(a.current)
             /\ End(x) <= a.used[x.chunk]
             /\ x.chunk = m.chunk => End(x) <= m.used
             /\ \A c \in live : Apart(x, c) \/ (x.chunk = c.chunk /\ x.at = c.at)
  BY <1>1, BeneathIsHeld DEF Lies, SamePlace
<1> QED BY <1>2, <1>3 DEF m

(* `reserved` counts what the chunks take, so a step that keeps the one      *)
(* within the budget keeps the other.                                        *)
InBudget ==
    LET taken == Total(a.cap, Owned(a))
    IN  taken' > taken => a.limit = 0 \/ taken' <= a.limit

LEMMA CountedInBudget == ArenaInv /\ ArenaInv' /\ [Frugal]_vars => [InBudget]_vars
<1> SUFFICES ASSUME ArenaInv, ArenaInv', Frugal PROVE InBudget
  OBVIOUS
<1>1. a.reserved = Total(a.cap, Owned(a))
  BY InvCounts DEF ChunksAccountedFor
<1>2. ChunksAccountedFor'
  BY InvCounts, PTL
<1>3. a'.reserved = Total(a.cap, Owned(a))'
  BY <1>2 DEF ChunksAccountedFor
<1> QED BY <1>1, <1>3 DEF InBudget, Frugal

-----------------------------------------------------------------------------

LEMMA AlwaysArenaInv == Spec => []ArenaInv
BY StartsWell, StepKeeps, PTL DEF Spec

(* The lists of chunks, the blocks and the positions are what they should be *)
(* whatever is asked: no chunk is used beyond its end, and the next one that *)
(* is asked for keeps within ARENA_MAX_CHUNK (arena.c:91-151).               *)
THEOREM ArenaIsTyped == Spec => []TypeOK
BY AlwaysArenaInv, InvIsTyped, PTL

(* Blocks in use never share a byte, lie in what is allocated and are        *)
(* aligned as asked, for every order of allocating, growing, resetting and   *)
(* rolling back (arena.c:153-317).                                           *)
THEOREM BlocksStayApart == Spec => []BlocksApart
BY AlwaysArenaInv, InvKeepsApart, PTL

(* No chunk is lost or listed twice, and `reserved` counts them all          *)
(* (arena.c:134-151, 275-317).                                               *)
THEOREM ChunksStayCounted == Spec => []ChunksAccountedFor
BY AlwaysArenaInv, InvCounts, PTL

(* A position stays good until it is rolled back to or past: its chunk is    *)
(* found, and what it keeps was not handed out again (arena.c:300-317).      *)
THEOREM PositionsHold == Spec => []MarksHold
BY AlwaysArenaInv, InvHoldsMarks, PTL

(* The bytes the chunks take never grow past the budget: where the sum that  *)
(* is compared in size_t wraps, malloc refuses (arena.c:122-138).            *)
THEOREM BudgetIsKept == Spec => WithinBudget
<1>1. ArenaInv /\ ArenaInv' /\ [Next]_vars => [InBudget]_vars
  BY StepKeeps, CountedInBudget
<1>2. Spec => [][InBudget]_vars
  BY <1>1, AlwaysArenaInv, PTL DEF Spec
<1> QED BY <1>2 DEF WithinBudget, InBudget

(* A request that fails is answered and leaves the arena as it was, but for  *)
(* the size the next chunk starts from (arena.c:111-138, 175-189).             *)
THEOREM RefusalsAreHarmless == Spec => RefusalIsHarmless
<1>1. ArenaInv /\ [Next]_vars => [Harmless]_vars
  BY StepKeeps
<1>2. Spec => [][Harmless]_vars
  BY <1>1, AlwaysArenaInv, PTL DEF Spec
<1> QED BY <1>2 DEF RefusalIsHarmless, Harmless

=============================================================================
