---------------------------- MODULE ParserProofs ----------------------------
(* What the parser gives back, for every stream of tokens and every depth    *)
(* bound: each function leaves the depth, the loops and the flags as it      *)
(* found them, whichever of its returns it takes.  And what it says: tokens  *)
(* are passed over, and statements share a line, only after a report.        *)
EXTENDS Parser, FiniteSetTheorems, FunctionTheorems, SequenceTheorems, TLAPS

-----------------------------------------------------------------------------
(* Words on the stack that stand for something to give back, or that must    *)
(* stand before something; the others are plain.                             *)

Levels == {"leave", "end_element"}
Loops == {"loop_end"}
Marks == {"progress", "progress_in_braces", "force"}
Flags == {"no_struct", "struct"}
Methods == {"fn_name", "receiver"}
Held == Levels \cup Loops \cup Marks \cup Flags \cup Methods \cup {"fn_end", "stream_end", "unit"}
Plain(x) == x \notin Held \cup {"more"}
IsStack(s) == \E S : s \in Seq(S)

Tally(s, W) == Cardinality({j \in 1 .. Len(s) : s[j] \in W})
One(x, W) == IF x \in W THEN 1 ELSE 0
Later(s, j, W) == \E k \in j + 1 .. Len(s) : s[k] \in W

(* `more` has its loop after it. *)
GoesOn(s) == \A j \in 1 .. Len(s) : s[j] = "more" => j < Len(s) /\ Plain(s[j + 1])
Harmless(w) == IsStack(w) /\ (\A j \in 1 .. Len(w) : w[j] \notin Held) /\ GoesOn(w)

(* The stack s says what the fields c and the number of marks b are to be    *)
(* when it is done: nothing of theirs is forgotten or given back twice.      *)
Kept(s, c, b) ==
    /\ c.depth = Tally(s, Levels) /\ c.loop_depth = Tally(s, Loops) /\ b = Tally(s, Marks)
    /\ \A j \in 1 .. Len(s) : s[j] = "unit" => j = Len(s)
    /\ \A j \in 1 .. Len(s) : s[j] \in Methods => Later(s, j, {"fn_end"})
    /\ c.in_method => Later(s, 0, {"fn_end"})
    /\ c.in_stream => Later(s, 0, {"stream_end"})
    /\ \A j \in 1 .. Len(s) : s[j] = "no_struct" => Later(s, j, Flags)
    /\ c.no_struct => Later(s, 0, Flags)
    /\ GoesOn(s)

-----------------------------------------------------------------------------
(* Sequences.                                                                *)

LEMMA StackHasLen ==
    ASSUME NEW s, IsStack(s)
    PROVE  Len(s) \in Nat
BY DEF IsStack

LEMMA OneAlphabet ==
    ASSUME NEW s, IsStack(s), NEW t, IsStack(t)
    PROVE  \E S : s \in Seq(S) /\ t \in Seq(S)
<1>1. PICK A : s \in Seq(A)
  BY DEF IsStack
<1>2. PICK B : t \in Seq(B)
  BY DEF IsStack
<1>3. A \subseteq A \cup B /\ B \subseteq A \cup B
  OBVIOUS
<1> DEFINE S == A \cup B
<1> HIDE DEF S
<1>4. s \in Seq(S) /\ t \in Seq(S)
  BY <1>1, <1>2, <1>3, SeqMonotonic DEF S
<1> QED BY <1>4

LEMMA ConcatIs ==
    ASSUME NEW s, IsStack(s), NEW t, IsStack(t)
    PROVE  /\ IsStack(s \o t)
           /\ Len(s \o t) = Len(s) + Len(t)
           /\ \A j \in 1 .. Len(s) : (s \o t)[j] = s[j]
           /\ \A j \in 1 .. Len(t) : (s \o t)[Len(s) + j] = t[j]
           /\ \A j \in 1 .. Len(s) + Len(t) :
                  j \in 1 .. Len(s) \/ (j - Len(s) \in 1 .. Len(t) /\ (s \o t)[j] = t[j - Len(s)])
<1>0. PICK S : s \in Seq(S) /\ t \in Seq(S)
  BY OneAlphabet
<1>1. /\ s \o t \in Seq(S)
      /\ Len(s \o t) = Len(s) + Len(t)
      /\ \A j \in 1 .. Len(s) + Len(t) : (s \o t)[j] = IF j <= Len(s) THEN s[j] ELSE t[j - Len(s)]
  BY <1>0, ConcatProperties
<1>2. Len(s) \in Nat /\ Len(t) \in Nat
  BY <1>0
<1> DEFINE u == s \o t
           m == Len(s)
           n1 == Len(t)
<1> HIDE DEF u, m, n1
<1>3. \A j \in 1 .. m + n1 : u[j] = IF j <= m THEN s[j] ELSE t[j - m]
  BY <1>1 DEF u, m, n1
<1>4. m \in Nat /\ n1 \in Nat
  BY <1>2 DEF m, n1
<1>5. \A j \in 1 .. m : u[j] = s[j]
  BY <1>3, <1>4
<1>6. ASSUME NEW j \in 1 .. n1 PROVE u[m + j] = t[j]
  <2>1. m + j \in 1 .. m + n1 /\ ~ (m + j <= m) /\ (m + j) - m = j
    BY <1>4
  <2>2. u[m + j] = t[(m + j) - m]
    BY <1>3, <2>1
  <2> QED BY <2>1, <2>2
<1>7. \A j \in 1 .. m + n1 : j \in 1 .. m \/ (j - m \in 1 .. n1 /\ u[j] = t[j - m])
  BY <1>3, <1>4
<1> QED BY <1>1, <1>5, <1>6, <1>7 DEF u, m, n1, IsStack

LEMMA TailIs ==
    ASSUME NEW s, IsStack(s), s # <<>>
    PROVE  /\ IsStack(Tail(s))
           /\ Len(s) \in Nat /\ Len(s) >= 1 /\ Len(Tail(s)) = Len(s) - 1
           /\ Head(s) = s[1]
           /\ \A j \in 1 .. Len(s) - 1 : Tail(s)[j] = s[j + 1]
<1>0. PICK S : s \in Seq(S)
  BY DEF IsStack
<1>1. /\ Tail(s) \in Seq(S)
      /\ Len(Tail(s)) = Len(s) - 1
      /\ \A i \in 1 .. Len(Tail(s)) : Tail(s)[i] = s[i + 1]
  BY <1>0, HeadTailProperties
<1>2. Len(s) \in Nat /\ Len(s) # 0
  BY <1>0, EmptySeq
<1>3. Head(s) = s[1]
  BY <1>0
<1> QED BY <1>1, <1>2, <1>3 DEF IsStack

LEMMA TallyIsNat ==
    ASSUME NEW s, IsStack(s), NEW W
    PROVE  /\ IsFiniteSet({j \in 1 .. Len(s) : s[j] \in W}) /\ Tally(s, W) \in Nat
           /\ (\A j \in 1 .. Len(s) : s[j] \notin W) => Tally(s, W) = 0
<1>1. IsFiniteSet(1 .. Len(s))
  BY StackHasLen, FS_Interval
<1>2. IsFiniteSet({j \in 1 .. Len(s) : s[j] \in W})
  BY <1>1, FS_Subset
<1>3. Tally(s, W) \in Nat
  BY <1>2, FS_CardinalityType DEF Tally
<1>4. ASSUME \A j \in 1 .. Len(s) : s[j] \notin W PROVE Tally(s, W) = 0
  <2>1. {j \in 1 .. Len(s) : s[j] \in W} = {}
    BY <1>4
  <2> QED BY <2>1, FS_EmptySet DEF Tally
<1> QED BY <1>2, <1>3, <1>4

LEMMA TallyConcat ==
    ASSUME NEW s, IsStack(s), NEW t, IsStack(t), NEW W
    PROVE  Tally(s \o t, W) = Tally(s, W) + Tally(t, W)
<1> DEFINE A == {j \in 1 .. Len(s) : s[j] \in W}
           B == {j \in 1 .. Len(t) : t[j] \in W}
           C == {j \in 1 .. Len(s \o t) : (s \o t)[j] \in W}
           f == [j \in B |-> Len(s) + j]
           D == {Len(s) + j : j \in B}
<1>1. Len(s) \in Nat /\ Len(t) \in Nat
  BY StackHasLen
<1>2. IsFiniteSet(A) /\ IsFiniteSet(B) /\ Tally(s, W) = Cardinality(A) /\ Tally(t, W) = Cardinality(B)
  BY TallyIsNat DEF Tally
<1>3. f \in Bijection(B, D)
  <2>1. f \in [B -> D]
    OBVIOUS
  <2>2. \A a, b \in B : f[a] = f[b] => a = b
    <3>1. \A a \in B : f[a] = Len(s) + a /\ a \in Nat
      BY <1>1
    <3> HIDE DEF f
    <3> QED BY <1>1, <3>1
  <2>3. \A d \in D : \E a \in B : f[a] = d
    OBVIOUS
  <2> HIDE DEF f, B, D
  <2>4. f \in Surjection(B, D)
    BY <2>1, <2>3 DEF Surjection
  <2> QED BY <2>1, <2>2, <2>4, Fun_IsBij
<1>4. IsFiniteSet(D) /\ Cardinality(D) = Cardinality(B)
  <2>1. ExistsBijection(B, D)
    BY <1>3 DEF ExistsBijection
  <2> QED BY <1>2, <2>1, FS_Bijection
<1>5. A \cap D = {}
  BY <1>1
<1>6. C = A \cup D
  <2>1. ASSUME NEW j \in C PROVE j \in A \cup D
    <3>1. j \in 1 .. Len(s) + Len(t) /\ (s \o t)[j] \in W
      BY ConcatIs
    <3>2. CASE j \in 1 .. Len(s)
      <4>1. s[j] \in W
        BY <3>1, <3>2, ConcatIs
      <4> QED BY <3>2, <4>1
    <3>3. CASE j - Len(s) \in 1 .. Len(t) /\ (s \o t)[j] = t[j - Len(s)]
      <4>1. j - Len(s) \in B /\ j = Len(s) + (j - Len(s))
        BY <1>1, <3>1, <3>3
      <4> QED BY <4>1
    <3> QED BY <3>1, <3>2, <3>3, ConcatIs
  <2>2. ASSUME NEW j \in A PROVE j \in C
    BY <1>1, <2>2, ConcatIs
  <2>3. ASSUME NEW j \in B PROVE Len(s) + j \in C
    <3>1. Len(s) + j \in 1 .. Len(s) + Len(t) /\ (s \o t)[Len(s) + j] = t[j]
      BY <1>1, <2>3, ConcatIs
    <3> QED BY <2>3, <3>1, ConcatIs
  <2> QED BY <2>1, <2>2, <2>3
<1>7. Cardinality(C) = Cardinality(A) + Cardinality(D)
  <2> HIDE DEF A, B, C, D, f
  <2>1. Cardinality(A \cup D) = Cardinality(A) + Cardinality(D) - Cardinality(A \cap D)
    BY <1>2, <1>4, FS_Union
  <2>2. Cardinality(A \cap D) = 0
    BY <1>5, FS_EmptySet
  <2>3. Cardinality(A) \in Nat /\ Cardinality(D) \in Nat
    BY <1>2, <1>4, FS_CardinalityType
  <2> QED BY <1>6, <2>1, <2>2, <2>3
<1> QED BY <1>2, <1>4, <1>7 DEF Tally

LEMMA TallyOne ==
    ASSUME NEW x, NEW W
    PROVE  IsStack(<<x>>) /\ Tally(<<x>>, W) = One(x, W)
<1>1. IsStack(<<x>>)
  <2>1. <<x>> \in Seq({x})
    OBVIOUS
  <2> QED BY <2>1 DEF IsStack
<1>2. Len(<<x>>) = 1 /\ <<x>>[1] = x
  OBVIOUS
<1>3. CASE x \in W
  <2>1. {j \in 1 .. Len(<<x>>) : <<x>>[j] \in W} = {1}
    BY <1>2, <1>3
  <2> QED BY <1>1, <1>3, <2>1, FS_Singleton DEF Tally, One
<1>4. CASE x \notin W
  <2>1. \A j \in 1 .. Len(<<x>>) : <<x>>[j] \notin W
    BY <1>2, <1>4
  <2> QED BY <1>1, <1>4, <2>1, TallyIsNat DEF One
<1> QED BY <1>3, <1>4, <1>1

LEMMA HeadAndTail ==
    ASSUME NEW s, IsStack(s), s # <<>>
    PROVE  s = <<Head(s)>> \o Tail(s)
<1> DEFINE h == <<Head(s)>>
           t == Tail(s)
           u == h \o t
<1>1. /\ IsStack(t) /\ Len(s) \in Nat /\ Len(s) >= 1 /\ Len(t) = Len(s) - 1 /\ Head(s) = s[1]
      /\ \A j \in 1 .. Len(s) - 1 : t[j] = s[j + 1]
  BY TailIs
<1>2. IsStack(h) /\ Len(h) = 1 /\ h[1] = s[1]
  BY <1>1, TallyOne
<1> HIDE DEF h, t
<1>3. /\ IsStack(u) /\ Len(u) = 1 + Len(t)
      /\ \A j \in 1 .. Len(h) : u[j] = h[j]
      /\ \A j \in 1 .. Len(t) : u[Len(h) + j] = t[j]
  <2>0. IsStack(h) /\ IsStack(t)
    BY <1>1, <1>2
  <2>1. IsStack(h \o t) /\ Len(h \o t) = Len(h) + Len(t)
    BY <2>0, ConcatIs
  <2>2. \A j \in 1 .. Len(h) : (h \o t)[j] = h[j]
    BY <2>0, ConcatIs
  <2>3. \A j \in 1 .. Len(t) : (h \o t)[Len(h) + j] = t[j]
    BY <2>0, ConcatIs
  <2> QED BY <1>2, <2>1, <2>2, <2>3
<1> HIDE DEF u
<1>4. ASSUME NEW j \in 1 .. Len(s) PROVE u[j] = s[j]
  <2>1. CASE j = 1
    BY <1>2, <1>3, <2>1
  <2>2. CASE j # 1
    <3>1. j - 1 \in 1 .. Len(t) /\ 1 + (j - 1) = j /\ (j - 1) + 1 = j /\ j - 1 \in 1 .. Len(s) - 1
      BY <1>1, <2>2
    <3>2. u[1 + (j - 1)] = t[j - 1] /\ t[j - 1] = s[(j - 1) + 1]
      BY <1>1, <1>2, <1>3, <3>1
    <3> QED BY <3>1, <3>2
  <2> QED BY <2>1, <2>2
<1>5. Len(u) = Len(s)
  BY <1>1, <1>3
<1>6. PICK S : u \in Seq(S) /\ s \in Seq(S)
  BY <1>3, OneAlphabet
<1>7. u = s
  BY <1>4, <1>5, <1>6, SeqEqual
<1> QED BY <1>7 DEF u, h, t

LEMMA TallyTail ==
    ASSUME NEW s, IsStack(s), s # <<>>, NEW W
    PROVE  Tally(s, W) = Tally(Tail(s), W) + One(Head(s), W)
<1>1. IsStack(<<Head(s)>>) /\ IsStack(Tail(s))
  <2>1. <<Head(s)>> \in Seq({Head(s)})
    OBVIOUS
  <2> QED BY <2>1, TailIs DEF IsStack
<1>2. <<Head(s)>> \o Tail(s) = s
  BY HeadAndTail
<1>3. Tally(s, W) = Tally(<<Head(s)>>, W) + Tally(Tail(s), W)
  <2> DEFINE h == <<Head(s)>>
             t == Tail(s)
  <2>1. Tally(h \o t, W) = Tally(h, W) + Tally(t, W)
    BY <1>1, TallyConcat
  <2> QED BY <1>2, <2>1
<1>4. Tally(<<Head(s)>>, W) = One(Head(s), W)
  BY TallyOne
<1>5. Tally(Tail(s), W) \in Nat
  BY <1>1, TallyIsNat
<1> QED BY <1>3, <1>4, <1>5 DEF One

LEMMA LaterConcat ==
    ASSUME NEW s, IsStack(s), NEW t, IsStack(t), NEW j \in Nat, NEW W, Later(t, j, W)
    PROVE  Later(s \o t, Len(s) + j, W) /\ Later(s \o t, 0, W)
<1>1. PICK k \in j + 1 .. Len(t) : t[k] \in W
  BY DEF Later
<1>2. Len(s) \in Nat /\ Len(t) \in Nat
  BY StackHasLen
<1>3. k \in 1 .. Len(t) /\ (s \o t)[Len(s) + k] = t[k] /\ Len(s \o t) = Len(s) + Len(t)
  BY <1>1, <1>2, ConcatIs
<1>4. Len(s) + k \in Len(s) + j + 1 .. Len(s \o t) /\ Len(s) + k \in 0 + 1 .. Len(s \o t)
  BY <1>1, <1>2, <1>3
<1> QED BY <1>1, <1>3, <1>4 DEF Later

LEMMA LaterTail ==
    ASSUME NEW s, IsStack(s), s # <<>>, NEW W
    PROVE  /\ Later(s, 0, W) => Head(s) \in W \/ Later(Tail(s), 0, W)
           /\ \A j \in 1 .. Len(s) - 1 : Later(s, j + 1, W) => Later(Tail(s), j, W)
           /\ Later(s, 1, W) => Later(Tail(s), 0, W)
<1> DEFINE t == Tail(s)
           m == Len(s)
<1>1. m \in Nat /\ m >= 1 /\ Len(t) = m - 1 /\ \A k \in 1 .. m - 1 : t[k] = s[k + 1]
  BY TailIs
<1>2. Head(s) = s[1]
  BY TailIs
<1> HIDE DEF t
<1>3. ASSUME NEW j \in 0 .. m - 1, NEW k \in j + 2 .. m, s[k] \in W PROVE Later(t, j, W)
  <2>1. k - 1 \in j + 1 .. Len(t) /\ k - 1 \in 1 .. m - 1 /\ (k - 1) + 1 = k
    BY <1>1
  <2>2. t[k - 1] = s[(k - 1) + 1]
    BY <1>1, <2>1
  <2> QED BY <1>3, <2>1, <2>2 DEF Later
<1>4. ASSUME Later(s, 0, W) PROVE Head(s) \in W \/ Later(t, 0, W)
  <2>1. PICK k \in 1 .. m : s[k] \in W
    BY <1>4 DEF Later
  <2>2. k = 1 \/ (k \in 0 + 2 .. m /\ 0 \in 0 .. m - 1)
    BY <1>1
  <2> QED BY <1>2, <1>3, <2>1, <2>2
<1>5. ASSUME NEW j \in 0 .. m - 1, Later(s, j + 1, W) PROVE Later(t, j, W)
  <2>1. PICK k \in j + 1 + 1 .. m : s[k] \in W
    BY <1>5 DEF Later
  <2>2. k \in j + 2 .. m
    OBVIOUS
  <2> QED BY <1>3, <2>1, <2>2
<1>6. 0 \in 0 .. m - 1 /\ 0 + 1 = 1 /\ \A j \in 1 .. m - 1 : j \in 0 .. m - 1
  BY <1>1
<1> QED BY <1>4, <1>5, <1>6 DEF t

-----------------------------------------------------------------------------
(* What is pushed and what is popped.                                        *)

LEMMA KeptPush ==
    ASSUME NEW t, IsStack(t), NEW w, Harmless(w), NEW c, NEW b, Kept(t, c, b)
    PROVE  IsStack(w \o t) /\ Kept(w \o t, c, b)
<1> DEFINE s == w \o t
           m == Len(w)
<1>1. IsStack(w) /\ GoesOn(w) /\ \A j \in 1 .. m : w[j] \notin Held
  BY DEF Harmless
<1>2. m \in Nat /\ Len(t) \in Nat
  BY <1>1, StackHasLen
<1>3. /\ IsStack(s) /\ Len(s) = m + Len(t)
      /\ \A j \in 1 .. m : s[j] = w[j]
      /\ \A j \in 1 .. Len(t) : s[m + j] = t[j]
      /\ \A j \in 1 .. m + Len(t) : j \in 1 .. m \/ (j - m \in 1 .. Len(t) /\ s[j] = t[j - m])
  BY <1>1, ConcatIs
<1>4. \A W \in SUBSET Held : Tally(s, W) = Tally(t, W)
  <2> SUFFICES ASSUME NEW W \in SUBSET Held PROVE Tally(s, W) = Tally(t, W)
    OBVIOUS
  <2>1. \A j \in 1 .. m : w[j] \notin W
    BY <1>1
  <2>2. Tally(w, W) = 0 /\ Tally(t, W) \in Nat
    BY <1>1, <2>1, TallyIsNat
  <2> QED BY <1>1, <2>2, TallyConcat
<1>5. \A W : \A j \in Nat : Later(t, j, W) => Later(s, m + j, W) /\ Later(s, 0, W)
  BY <1>1, LaterConcat
<1>6. \A j \in 1 .. Len(s) : s[j] \in Held => j - m \in 1 .. Len(t) /\ s[j] = t[j - m] /\ m + (j - m) = j
  <2> SUFFICES ASSUME NEW j \in 1 .. Len(s), s[j] \in Held
               PROVE  j - m \in 1 .. Len(t) /\ s[j] = t[j - m] /\ m + (j - m) = j
    OBVIOUS
  <2>1. j \notin 1 .. m
    BY <1>1, <1>3
  <2> QED BY <1>2, <1>3, <2>1
<1>7. GoesOn(s)
  <2> SUFFICES ASSUME NEW j \in 1 .. Len(s), s[j] = "more" PROVE j < Len(s) /\ Plain(s[j + 1])
    BY DEF GoesOn
  <2>1. CASE j \in 1 .. m
    <3>1. j < m /\ Plain(w[j + 1])
      BY <1>1, <1>3, <2>1 DEF GoesOn
    <3>2. j + 1 \in 1 .. m /\ j < m + Len(t)
      BY <1>2, <2>1, <3>1
    <3> QED BY <1>3, <3>1, <3>2
  <2>2. CASE j \notin 1 .. m
    <3>1. j - m \in 1 .. Len(t) /\ t[j - m] = "more"
      BY <1>3, <2>2
    <3>2. j - m < Len(t) /\ Plain(t[(j - m) + 1])
      BY <3>1 DEF Kept, GoesOn
    <3>3. (j - m) + 1 \in 1 .. Len(t) /\ m + ((j - m) + 1) = j + 1 /\ j < m + Len(t)
      BY <1>2, <3>1, <3>2
    <3> QED BY <1>3, <3>2, <3>3
  <2> QED BY <2>1, <2>2
<1> HIDE DEF s, m
<1>8. Levels \in SUBSET Held /\ Loops \in SUBSET Held /\ Marks \in SUBSET Held /\ "unit" \in Held
      /\ Methods \in SUBSET Held /\ "no_struct" \in Held
  BY DEF Held, Levels, Loops, Marks, Flags, Methods
<1>9. \A j \in 1 .. Len(s) : s[j] = "unit" => j = Len(s)
  BY <1>2, <1>3, <1>6, <1>8 DEF Kept
<1>10. ASSUME NEW j \in 1 .. Len(s), s[j] \in Methods PROVE Later(s, j, {"fn_end"})
  <2>1. j - m \in 1 .. Len(t) /\ s[j] = t[j - m] /\ m + (j - m) = j /\ j - m \in Nat
    BY <1>6, <1>8, <1>10
  <2>2. Later(t, j - m, {"fn_end"})
    BY <1>10, <2>1 DEF Kept
  <2> QED BY <1>5, <2>1, <2>2
<1>11. ASSUME NEW j \in 1 .. Len(s), s[j] = "no_struct" PROVE Later(s, j, Flags)
  <2>1. j - m \in 1 .. Len(t) /\ s[j] = t[j - m] /\ m + (j - m) = j /\ j - m \in Nat
    BY <1>6, <1>8, <1>11
  <2>2. Later(t, j - m, Flags)
    BY <1>11, <2>1 DEF Kept
  <2> QED BY <1>5, <2>1, <2>2
<1>12. 0 \in Nat
  OBVIOUS
<1>13. Kept(s, c, b)
  <2>1. c.depth = Tally(s, Levels) /\ c.loop_depth = Tally(s, Loops) /\ b = Tally(s, Marks)
    BY <1>4, <1>8 DEF Kept
  <2>2. /\ c.in_method => Later(s, 0, {"fn_end"})
        /\ c.in_stream => Later(s, 0, {"stream_end"})
        /\ c.no_struct => Later(s, 0, Flags)
    BY <1>5, <1>12 DEF Kept
  <2> QED BY <1>7, <1>9, <1>10, <1>11, <2>1, <2>2 DEF Kept
<1> QED BY <1>3, <1>13 DEF s

(* A word that holds something is pushed with what it holds.                 *)
LEMMA KeptPushOne ==
    ASSUME NEW t, IsStack(t), NEW c, NEW b, Kept(t, c, b),
           NEW x, x # "more", x = "unit" => t = <<>>,
           x \in Methods => Later(t, 0, {"fn_end"}), x = "no_struct" => c.no_struct,
           NEW c2, NEW b2, c.depth \in Int, c.loop_depth \in Int, b \in Int,
           c2.depth = c.depth + One(x, Levels), c2.loop_depth = c.loop_depth + One(x, Loops),
           b2 = b + One(x, Marks),
           c2.in_method => c.in_method \/ x = "fn_end",
           c2.in_stream => c.in_stream \/ x = "stream_end",
           c2.no_struct => c.no_struct \/ x \in Flags
    PROVE  IsStack(<<x>> \o t) /\ Kept(<<x>> \o t, c2, b2)
<1> DEFINE h == <<x>>
           s == h \o t
<1>1. IsStack(h) /\ Len(h) = 1 /\ h[1] = x
  <2>1. h \in Seq({x})
    OBVIOUS
  <2> QED BY <2>1 DEF IsStack
<1>2. Len(t) \in Nat
  BY StackHasLen
<1> HIDE DEF h
<1>3. /\ IsStack(s) /\ Len(s) = 1 + Len(t) /\ s[1] = x
      /\ \A j \in 1 .. Len(t) : s[1 + j] = t[j]
      /\ \A j \in 1 .. Len(s) : j = 1 \/ (j - 1 \in 1 .. Len(t) /\ s[j] = t[j - 1])
  <2>1. /\ IsStack(s) /\ Len(s) = Len(h) + Len(t)
        /\ \A j \in 1 .. Len(h) : s[j] = h[j]
    <3>1. IsStack(h)
      BY <1>1
    <3> QED BY <3>1, ConcatIs
  <2>2. \A j \in 1 .. Len(t) : s[Len(h) + j] = t[j]
    <3>1. IsStack(h)
      BY <1>1
    <3> QED BY <3>1, ConcatIs
  <2>3. \A j \in 1 .. Len(h) + Len(t) : j \in 1 .. Len(h) \/ (j - Len(h) \in 1 .. Len(t) /\ s[j] = t[j - Len(h)])
    <3>1. IsStack(h)
      BY <1>1
    <3> QED BY <3>1, ConcatIs
  <2> HIDE DEF s
  <2>4. 1 \in 1 .. Len(h)
    BY <1>1
  <2>5. \A j \in 1 .. Len(t) : s[1 + j] = t[j]
    BY <1>1, <2>2
  <2>6. \A j \in 1 .. 1 + Len(t) : j \in 1 .. 1 \/ (j - 1 \in 1 .. Len(t) /\ s[j] = t[j - 1])
    BY <1>1, <2>3
  <2>7. Len(s) = 1 + Len(t) /\ s[1] = x
    BY <1>1, <2>1, <2>4
  <2> QED BY <1>2, <2>1, <2>5, <2>6, <2>7
<1>4. \A W : Tally(s, W) = One(x, W) + Tally(t, W)
  <2> SUFFICES ASSUME NEW W PROVE Tally(s, W) = One(x, W) + Tally(t, W)
    OBVIOUS
  <2>1. Tally(s, W) = Tally(h, W) + Tally(t, W)
    BY <1>1, TallyConcat
  <2>2. Tally(h, W) = One(x, W)
    BY TallyOne DEF h
  <2> QED BY <2>1, <2>2
<1>5. \A W : \A j \in Nat : Later(t, j, W) => Later(s, 1 + j, W) /\ Later(s, 0, W)
  BY <1>1, LaterConcat
<1> HIDE DEF s
<1>6. \A W : x \in W => Later(s, 0, W)
  <2>1. 1 \in 0 + 1 .. Len(s)
    BY <1>2, <1>3
  <2> QED BY <1>3, <2>1 DEF Later
<1>7. GoesOn(s)
  <2> SUFFICES ASSUME NEW j \in 1 .. Len(s), s[j] = "more" PROVE j < Len(s) /\ Plain(s[j + 1])
    BY DEF GoesOn
  <2>1. j - 1 \in 1 .. Len(t) /\ t[j - 1] = "more"
    BY <1>3
  <2>2. j - 1 < Len(t) /\ Plain(t[(j - 1) + 1])
    BY <2>1 DEF Kept, GoesOn
  <2>3. (j - 1) + 1 \in 1 .. Len(t) /\ 1 + ((j - 1) + 1) = j + 1 /\ j < Len(s)
    BY <1>2, <1>3, <2>1, <2>2
  <2> QED BY <1>3, <2>2, <2>3
<1>8. ASSUME NEW j \in 1 .. Len(s), s[j] = "unit" PROVE j = Len(s)
  <2>1. CASE j = 1
    <3>1. t = <<>>
      BY <1>3, <1>8, <2>1
    <3> QED BY <1>3, <2>1, <3>1
  <2>2. CASE j # 1
    <3>1. j - 1 \in 1 .. Len(t) /\ t[j - 1] = "unit"
      BY <1>3, <1>8, <2>2
    <3>2. j - 1 = Len(t)
      BY <3>1 DEF Kept
    <3> QED BY <1>2, <1>3, <3>2
  <2> QED BY <2>1, <2>2
<1>9. ASSUME NEW j \in 1 .. Len(s), s[j] \in Methods PROVE Later(s, j, {"fn_end"})
  <2>1. CASE j = 1
    <3>1. Later(t, 0, {"fn_end"}) /\ 0 \in Nat /\ 1 + 0 = 1
      BY <1>3, <1>9, <2>1
    <3>2. Later(s, 1 + 0, {"fn_end"})
      BY <1>5, <3>1
    <3> QED BY <2>1, <3>1, <3>2
  <2>2. CASE j # 1
    <3>1. j - 1 \in 1 .. Len(t) /\ t[j - 1] \in Methods /\ j - 1 \in Nat /\ 1 + (j - 1) = j
      BY <1>3, <1>9, <2>2
    <3>2. Later(t, j - 1, {"fn_end"})
      BY <3>1 DEF Kept
    <3>3. Later(s, 1 + (j - 1), {"fn_end"})
      BY <1>5, <3>1, <3>2
    <3> QED BY <3>1, <3>3
  <2> QED BY <2>1, <2>2
<1>10. ASSUME NEW j \in 1 .. Len(s), s[j] = "no_struct" PROVE Later(s, j, Flags)
  <2>1. CASE j = 1
    <3>1. Later(t, 0, Flags) /\ 0 \in Nat /\ 1 + 0 = 1
      BY <1>3, <1>10, <2>1 DEF Kept
    <3>2. Later(s, 1 + 0, Flags)
      BY <1>5, <3>1
    <3> QED BY <2>1, <3>1, <3>2
  <2>2. CASE j # 1
    <3>1. j - 1 \in 1 .. Len(t) /\ t[j - 1] = "no_struct" /\ j - 1 \in Nat /\ 1 + (j - 1) = j
      BY <1>3, <1>10, <2>2
    <3>2. Later(t, j - 1, Flags)
      BY <3>1 DEF Kept
    <3>3. Later(s, 1 + (j - 1), Flags)
      BY <1>5, <3>1, <3>2
    <3> QED BY <3>1, <3>3
  <2> QED BY <2>1, <2>2
<1>11. c2.depth = Tally(s, Levels) /\ c2.loop_depth = Tally(s, Loops) /\ b2 = Tally(s, Marks)
  <2>1. c.depth = Tally(t, Levels) /\ c.loop_depth = Tally(t, Loops) /\ b = Tally(t, Marks)
    BY DEF Kept
  <2>2. /\ Tally(s, Levels) = One(x, Levels) + Tally(t, Levels)
        /\ Tally(s, Loops) = One(x, Loops) + Tally(t, Loops)
        /\ Tally(s, Marks) = One(x, Marks) + Tally(t, Marks)
    BY <1>4
  <2>3. One(x, Levels) \in Int /\ One(x, Loops) \in Int /\ One(x, Marks) \in Int
    BY DEF One
  <2> QED BY <2>1, <2>2, <2>3
<1>12. /\ c2.in_method => Later(s, 0, {"fn_end"})
       /\ c2.in_stream => Later(s, 0, {"stream_end"})
       /\ c2.no_struct => Later(s, 0, Flags)
  <2>1. /\ c.in_method => Later(t, 0, {"fn_end"})
        /\ c.in_stream => Later(t, 0, {"stream_end"})
        /\ c.no_struct => Later(t, 0, Flags)
    BY DEF Kept
  <2>2. \A W : Later(t, 0, W) => Later(s, 0, W)
    <3>1. 0 \in Nat
      OBVIOUS
    <3> QED BY <1>5, <3>1
  <2> QED BY <1>6, <2>1, <2>2
<1>13. Kept(s, c2, b2)
  BY <1>7, <1>8, <1>9, <1>10, <1>11, <1>12 DEF Kept
<1> QED BY <1>3, <1>13 DEF s, h

(* A word that held something is popped with it.                             *)
LEMMA KeptPop ==
    ASSUME NEW s, IsStack(s), s # <<>>, NEW c, NEW b, Kept(s, c, b),
           NEW x, x = Head(s), NEW c2, NEW b2, c.depth \in Int, c.loop_depth \in Int, b \in Int,
           c2.depth = c.depth - One(x, Levels), c2.loop_depth = c.loop_depth - One(x, Loops),
           b2 = b - One(x, Marks),
           c2.in_method => (c.in_method /\ x # "fn_end") \/ x \in Methods,
           c2.in_stream => c.in_stream /\ x # "stream_end",
           c2.no_struct => x = "no_struct" \/ (c.no_struct /\ x \notin Flags)
    PROVE  IsStack(Tail(s)) /\ Kept(Tail(s), c2, b2)
<1> DEFINE t == Tail(s)
           m == Len(s)
<1>1. /\ IsStack(t) /\ m \in Nat /\ m >= 1 /\ Len(t) = m - 1 /\ x = s[1]
      /\ \A j \in 1 .. m - 1 : t[j] = s[j + 1]
  BY TailIs
<1>2. \A W : Tally(s, W) = Tally(t, W) + One(x, W)
  BY TallyTail
<1>3. /\ \A W : Later(s, 0, W) => x \in W \/ Later(t, 0, W)
      /\ \A W : \A j \in 1 .. m - 1 : Later(s, j + 1, W) => Later(t, j, W)
      /\ \A W : Later(s, 1, W) => Later(t, 0, W)
  BY LaterTail
<1> HIDE DEF t
<1>4. \A j \in 1 .. Len(t) : j \in 1 .. m - 1 /\ j + 1 \in 1 .. m /\ t[j] = s[j + 1]
  BY <1>1
<1>5. c2.depth = Tally(t, Levels) /\ c2.loop_depth = Tally(t, Loops) /\ b2 = Tally(t, Marks)
  <2>1. c.depth = Tally(s, Levels) /\ c.loop_depth = Tally(s, Loops) /\ b = Tally(s, Marks)
    BY DEF Kept
  <2>2. /\ Tally(s, Levels) = Tally(t, Levels) + One(x, Levels)
        /\ Tally(s, Loops) = Tally(t, Loops) + One(x, Loops)
        /\ Tally(s, Marks) = Tally(t, Marks) + One(x, Marks)
    BY <1>2
  <2>3. One(x, Levels) \in Int /\ One(x, Loops) \in Int /\ One(x, Marks) \in Int
    BY DEF One
  <2>4. Tally(t, Levels) \in Nat /\ Tally(t, Loops) \in Nat /\ Tally(t, Marks) \in Nat
    BY <1>1, TallyIsNat
  <2> QED BY <2>1, <2>2, <2>3, <2>4
<1>6. \A j \in 1 .. Len(t) : t[j] = "unit" => j = Len(t)
  <2> SUFFICES ASSUME NEW j \in 1 .. Len(t), t[j] = "unit" PROVE j = Len(t)
    OBVIOUS
  <2>1. j + 1 \in 1 .. m /\ s[j + 1] = "unit"
    BY <1>4
  <2>2. j + 1 = m
    BY <2>1 DEF Kept
  <2> QED BY <1>1, <2>2
<1>7. ASSUME NEW j \in 1 .. Len(t), t[j] \in Methods PROVE Later(t, j, {"fn_end"})
  <2>1. j + 1 \in 1 .. m /\ s[j + 1] \in Methods /\ j \in 1 .. m - 1
    BY <1>4, <1>7
  <2>2. Later(s, j + 1, {"fn_end"})
    BY <2>1 DEF Kept
  <2> QED BY <1>3, <2>1, <2>2
<1>8. ASSUME NEW j \in 1 .. Len(t), t[j] = "no_struct" PROVE Later(t, j, Flags)
  <2>1. j + 1 \in 1 .. m /\ s[j + 1] = "no_struct" /\ j \in 1 .. m - 1
    BY <1>4, <1>8
  <2>2. Later(s, j + 1, Flags)
    BY <2>1 DEF Kept
  <2> QED BY <1>3, <2>1, <2>2
<1>9. GoesOn(t)
  <2> SUFFICES ASSUME NEW j \in 1 .. Len(t), t[j] = "more" PROVE j < Len(t) /\ Plain(t[j + 1])
    BY DEF GoesOn
  <2>1. j + 1 \in 1 .. m /\ s[j + 1] = "more"
    BY <1>4
  <2>2. j + 1 < m /\ Plain(s[(j + 1) + 1])
    BY <2>1 DEF Kept, GoesOn
  <2>3. j + 1 \in 1 .. Len(t) /\ j < Len(t)
    BY <1>1, <2>2
  <2>4. t[j + 1] = s[(j + 1) + 1]
    BY <1>4, <2>3
  <2> QED BY <2>2, <2>3, <2>4
<1>10. c2.in_method => Later(t, 0, {"fn_end"})
  <2>1. ASSUME x \in Methods PROVE Later(t, 0, {"fn_end"})
    <3>1. 1 \in 1 .. m /\ s[1] \in Methods
      BY <1>1, <2>1
    <3>2. Later(s, 1, {"fn_end"})
      BY <3>1 DEF Kept
    <3> QED BY <1>3, <3>2
  <2>2. ASSUME c.in_method, x # "fn_end" PROVE Later(t, 0, {"fn_end"})
    <3>1. Later(s, 0, {"fn_end"})
      BY <2>2 DEF Kept
    <3> QED BY <1>3, <2>2, <3>1
  <2> QED BY <2>1, <2>2
<1>11. c2.in_stream => Later(t, 0, {"stream_end"})
  <2> SUFFICES ASSUME c.in_stream, x # "stream_end" PROVE Later(t, 0, {"stream_end"})
    OBVIOUS
  <2>1. Later(s, 0, {"stream_end"})
    BY DEF Kept
  <2> QED BY <1>3, <2>1
<1>12. c2.no_struct => Later(t, 0, Flags)
  <2>1. ASSUME x = "no_struct" PROVE Later(t, 0, Flags)
    <3>1. 1 \in 1 .. m /\ s[1] = "no_struct"
      BY <1>1, <2>1
    <3>2. Later(s, 1, Flags)
      BY <3>1 DEF Kept
    <3> QED BY <1>3, <3>2
  <2>2. ASSUME c.no_struct, x \notin Flags PROVE Later(t, 0, Flags)
    <3>1. Later(s, 0, Flags)
      BY <2>2 DEF Kept
    <3> QED BY <1>3, <2>2, <3>1
  <2> QED BY <2>1, <2>2
<1>13. Kept(t, c2, b2)
  BY <1>5, <1>6, <1>7, <1>8, <1>9, <1>10, <1>11, <1>12 DEF Kept
<1> QED BY <1>1, <1>13 DEF t

-----------------------------------------------------------------------------
(* The invariant, and the steps that keep it.                                *)

Contexts ==
    [depth : Int, loop_depth : Int, in_method : BOOLEAN, in_stream : BOOLEAN,
     no_struct : BOOLEAN, depth_reported : BOOLEAN]

(* The depth, the loops, the marks and the flags are what the stack says.    *)
StackInv ==
    /\ IsStack(todo) /\ Kept(todo, cx, Len(before))
    /\ cx \in Contexts /\ cx.depth <= MaxDepth
    /\ at \in Nat /\ before \in Seq(0 .. at)

OnPlain == todo # <<>> /\ Plain(Head(todo))
Moves == at' = at \/ at' = at + 1

LEMMA TakeMoves ==
    ASSUME NEW o, TakeIn(o)
    PROVE  Moves
BY DEF TakeIn, Moves

LEMMA MarksStay ==
    ASSUME at \in Nat, before \in Seq(0 .. at), Moves
    PROVE  at' \in Nat /\ before \in Seq(0 .. at') /\ at <= at'
<1>1. at' \in Nat /\ at <= at'
  BY DEF Moves
<1>2. 0 .. at \subseteq 0 .. at'
  BY <1>1
<1>3. before \in Seq(0 .. at')
  BY <1>2, SeqMonotonic
<1> QED BY <1>1, <1>3

(* A plain word holds nothing.                                               *)
LEMMA PlainPop ==
    ASSUME StackInv, OnPlain
    PROVE  IsStack(Tail(todo)) /\ Kept(Tail(todo), cx, Len(before))
<1>1. /\ One(Head(todo), Levels) = 0 /\ One(Head(todo), Loops) = 0 /\ One(Head(todo), Marks) = 0
      /\ Head(todo) \notin {"fn_end", "stream_end"} \cup Flags
  BY DEF OnPlain, Plain, Held, One
<1>2. cx.depth \in Int /\ cx.loop_depth \in Int /\ Len(before) \in Int
  BY DEF StackInv, Contexts
<1>3. /\ cx.depth = cx.depth - One(Head(todo), Levels)
      /\ cx.loop_depth = cx.loop_depth - One(Head(todo), Loops)
      /\ Len(before) = Len(before) - One(Head(todo), Marks)
  BY <1>1, <1>2
<1>4. IsStack(todo) /\ todo # <<>> /\ Kept(todo, cx, Len(before))
  BY DEF StackInv, OnPlain
<1> DEFINE x == Head(todo)
           b == Len(before)
<1>5. /\ cx.in_method => (cx.in_method /\ x # "fn_end") \/ x \in Methods
      /\ cx.in_stream => cx.in_stream /\ x # "stream_end"
      /\ cx.no_struct => x = "no_struct" \/ (cx.no_struct /\ x \notin Flags)
  BY <1>1
<1> QED BY <1>2, <1>3, <1>4, <1>5, KeptPop

LEMMA PlainDo ==
    ASSUME StackInv, OnPlain, NEW w, Harmless(w), Do(w),
           cx' = cx \/ cx' = [cx EXCEPT !.depth_reported = TRUE], before' = before, Moves
    PROVE  StackInv'
<1>1. IsStack(Tail(todo)) /\ Kept(Tail(todo), cx, Len(before))
  BY PlainPop
<1>2. IsStack(w \o Tail(todo)) /\ Kept(w \o Tail(todo), cx, Len(before))
  BY <1>1, KeptPush
<1>3. cx' \in Contexts /\ cx'.depth <= MaxDepth
      /\ cx'.depth = cx.depth /\ cx'.loop_depth = cx.loop_depth /\ cx'.in_method = cx.in_method
      /\ cx'.in_stream = cx.in_stream /\ cx'.no_struct = cx.no_struct
  BY DEF StackInv, Contexts
<1>4. Kept(w \o Tail(todo), cx', Len(before))
  <2> DEFINE s == w \o Tail(todo)
  <2> HIDE DEF s
  <2> QED BY <1>2, <1>3 DEF Kept, s
<1>5. at' \in Nat /\ before \in Seq(0 .. at')
  BY MarksStay DEF StackInv
<1>6. todo' = w \o Tail(todo)
  BY DEF Do
<1> QED BY <1>2, <1>3, <1>4, <1>5, <1>6 DEF StackInv

LEMMA PlainSteps ==
    ASSUME StackInv, OnPlain, NEW w, Harmless(w)
    PROVE  /\ Go(w) => StackInv'
           /\ Eat(w) => StackInv'
           /\ Unexpected(w) => StackInv'
           /\ Report(w) => StackInv'
           /\ EatReporting(w) => StackInv'
<1>1. Go(w) => Do(w) /\ cx' = cx /\ before' = before /\ Moves
  BY DEF Go, Moves, input
<1>2. Eat(w) => Do(w) /\ cx' = cx /\ before' = before /\ Moves
  BY TakeMoves DEF Eat, Take
<1>3. Unexpected(w) => Do(w) /\ cx' = cx /\ before' = before /\ Moves
  BY DEF Unexpected, Moves, input
<1>4. Report(w) => Do(w) /\ cx' = cx /\ before' = before /\ Moves
  BY DEF Report, Moves, input
<1>5. EatReporting(w) => Do(w) /\ cx' = cx /\ before' = before /\ Moves
  BY TakeMoves DEF EatReporting, Take
<1> QED BY <1>1, <1>2, <1>3, <1>4, <1>5, PlainDo

LEMMA NothingIsHarmless == Harmless(<<>>)
<1>1. <<>> \in Seq({}) /\ Len(<<>>) = 0
  OBVIOUS
<1> QED BY <1>1 DEF Harmless, GoesOn, IsStack

LEMMA PlainChoices ==
    ASSUME StackInv, OnPlain, NEW w, Harmless(w), NEW k
    PROVE  /\ Match(k, w) => StackInv'
           /\ NameOr(k, w) => StackInv'
           /\ TooDeep => StackInv'
<1>1. TooDeep => Do(<<>>) /\ cx' = [cx EXCEPT !.depth_reported = TRUE] /\ before' = before /\ Moves
  BY DEF TooDeep, Moves, input
<1> QED BY <1>1, PlainDo, PlainSteps, NothingIsHarmless DEF Match, NameOr

(* The words that hold nothing. *)
PlainWords ==
    {"add", "advance", "alternatives", "and", "args", "arm_body", "as",
     "assign", "attr", "attr_args", "attr_value", "attributes", "attrs",
     "base_type", "block", "chain", "children", "closing_name",
     "closing_tag", "cmp", "coalesce", "coalesce_returns", "comma", "cond",
     "ctrl", "ctrl_returns", "decl", "declaration", "default", "drop",
     "element_entering", "element_nested", "elements", "else", "else_body",
     "entries", "expr", "fallback", "fallible", "field_end", "field_inits",
     "fields", "for_arm", "for_arm_seen", "for_arms", "for_arms_seen",
     "for_else", "for_else_seen", "group_body", "group_items",
     "group_returns", "ident", "if_arm", "if_arm_seen", "if_arms",
     "if_arms_seen", "if_else", "if_else_seen", "if_end", "if_returns",
     "indexes", "lambda_body", "let_type", "loop_body", "make_binary",
     "match_arms", "match_body", "method", "mul", "name", "no_pattern",
     "not", "not_returns", "operand", "optional", "or", "params", "path",
     "path_postfix", "postfix", "primary", "pub", "quoted", "return_value",
     "returns", "second_name", "send_value", "single_pattern",
     "skip_newlines", "spread", "stmt", "stmt_end", "stmts", "strays",
     "stream_body", "string", "synchronize", "tag_end", "tag_name",
     "to_ctrl_end", "type", "type_arg", "type_args", "type_body",
     "type_name", "types", "unary", "unary_returns", "value", "variants",
     "LPAREN", "RPAREN", "LBRACE", "RBRACE", "RBRACKET", "COLON", "EQ",
     "ARROW", "KW_IN", "INTERP_END", "CTRL_END", "TAG_END"}

LEMMA WordsArePlain ==
    \A x \in PlainWords : Plain(x)
BY DEF PlainWords, Plain, Held, Levels, Loops, Marks, Flags, Methods

LEMMA MoreIsSoft == "more" \notin Held
BY DEF Held, Levels, Loops, Marks, Flags, Methods

(* The lists of words that are pushed.                                       *)
Soft(x) == x \notin Held

LEMMA HarmlessList ==
    ASSUME NEW w \in Seq(PlainWords)
    PROVE  Harmless(w)
<1>1. IsStack(w) /\ \A j \in 1 .. Len(w) : w[j] \in PlainWords
  BY DEF IsStack
<1>2. \A j \in 1 .. Len(w) : w[j] \notin Held /\ w[j] # "more"
  BY <1>1, WordsArePlain DEF Plain
<1> QED BY <1>1, <1>2 DEF Harmless, GoesOn

(* The rest of a list, with its loop at the end. *)
LEMMA HarmlessLoop ==
    ASSUME NEW w \in Seq(PlainWords \cup {"more"}),
           NEW n \in Nat, Len(w) = n + 1, w[n + 1] \in PlainWords,
           \A j \in 1 .. n : w[j] = "more" => j = n
    PROVE  Harmless(w)
<1>1. IsStack(w) /\ \A j \in 1 .. Len(w) : w[j] \in PlainWords \cup {"more"}
  BY DEF IsStack
<1>2. \A j \in 1 .. Len(w) : w[j] \notin Held
  BY <1>1, WordsArePlain, MoreIsSoft DEF Plain
<1>3. ASSUME NEW j \in 1 .. Len(w), w[j] = "more" PROVE j < Len(w) /\ Plain(w[j + 1])
  <2>1. w[n + 1] # "more" /\ Plain(w[n + 1])
    BY WordsArePlain DEF Plain
  <2>2. j = n
    BY <1>3, <2>1
  <2> QED BY <2>1, <2>2
<1> QED BY <1>1, <1>2, <1>3 DEF Harmless, GoesOn

LEMMA HarmlessConcat ==
    ASSUME NEW v, Harmless(v), NEW w, Harmless(w)
    PROVE  Harmless(v \o w)
<1> DEFINE s == v \o w
           m == Len(v)
           n1 == Len(w)
<1>1. IsStack(v) /\ IsStack(w) /\ GoesOn(v) /\ GoesOn(w)
      /\ (\A j \in 1 .. m : v[j] \notin Held) /\ \A j \in 1 .. n1 : w[j] \notin Held
  BY DEF Harmless
<1>2. m \in Nat /\ n1 \in Nat
  BY <1>1, StackHasLen
<1>3. /\ IsStack(s) /\ Len(s) = m + n1
      /\ \A j \in 1 .. m : s[j] = v[j]
      /\ \A j \in 1 .. n1 : s[m + j] = w[j]
      /\ \A j \in 1 .. m + n1 : j \in 1 .. m \/ (j - m \in 1 .. n1 /\ s[j] = w[j - m])
  BY <1>1, ConcatIs
<1> HIDE DEF s, m, n1
<1>4. \A j \in 1 .. Len(s) : s[j] \notin Held
  BY <1>1, <1>3
<1>5. ASSUME NEW j \in 1 .. Len(s), s[j] = "more" PROVE j < Len(s) /\ Plain(s[j + 1])
  <2>1. CASE j \in 1 .. m
    <3>1. j < m /\ Plain(v[j + 1])
      BY <1>1, <1>3, <1>5, <2>1 DEF GoesOn, m
    <3>2. j + 1 \in 1 .. m /\ j < m + n1
      BY <1>2, <2>1, <3>1
    <3> QED BY <1>3, <3>1, <3>2
  <2>2. CASE j \notin 1 .. m
    <3>1. j - m \in 1 .. n1 /\ w[j - m] = "more"
      BY <1>3, <1>5, <2>2
    <3>2. j - m < n1 /\ Plain(w[(j - m) + 1])
      BY <1>1, <3>1 DEF GoesOn, n1
    <3>3. (j - m) + 1 \in 1 .. n1 /\ m + ((j - m) + 1) = j + 1 /\ j < m + n1
      BY <1>2, <3>1, <3>2
    <3> QED BY <1>3, <3>2, <3>3
  <2> QED BY <2>1, <2>2
<1>6. Harmless(s)
  BY <1>3, <1>4, <1>5 DEF Harmless, GoesOn
<1> QED BY <1>6 DEF s

LEMMA AtPlain ==
    ASSUME NEW x \in PlainWords, At(x)
    PROVE  OnPlain
BY WordsArePlain DEF At, OnPlain

-----------------------------------------------------------------------------
(* The actions that hold nothing.                                            *)

LEMMA StringKeeps ==
    ASSUME StackInv, String
    PROVE  StackInv'
<1>1. OnPlain
  <2>1. "string" \in PlainWords
    BY DEF PlainWords
  <2> QED BY <2>1, AtPlain DEF String
<1>2. <<"string">> \in Seq(PlainWords) /\ <<"expr", "INTERP_END", "string">> \in Seq(PlainWords)
  BY DEF PlainWords
<1>3. Harmless(<<"string">>) /\ Harmless(<<"expr", "INTERP_END", "string">>) /\ Harmless(<<>>)
  BY <1>2, HarmlessList, NothingIsHarmless
<1> QED BY <1>1, <1>3, PlainSteps DEF String

LEMMA PathKeeps ==
    ASSUME StackInv, Path
    PROVE  StackInv'
<1>1. OnPlain
  <2>1. "path" \in PlainWords
    BY DEF PlainWords
  <2> QED BY <2>1, AtPlain DEF Path
<1>2. <<"advance", "advance", "path">> \in Seq(PlainWords)
  BY DEF PlainWords
<1>3. Harmless(<<"advance", "advance", "path">>) /\ Harmless(<<>>)
  BY <1>2, HarmlessList, NothingIsHarmless
<1> QED BY <1>1, <1>3, PlainSteps, PlainDo DEF Path, Peek, Moves

LEMMA AdvanceKeeps ==
    ASSUME StackInv, Advance
    PROVE  StackInv'
<1>1. OnPlain
  <2>1. "advance" \in PlainWords
    BY DEF PlainWords
  <2> QED BY <2>1, AtPlain DEF Advance
<1> QED BY <1>1, NothingIsHarmless, PlainSteps, PlainChoices
  DEF Advance

LEMMA SkipNewlinesKeeps ==
    ASSUME StackInv, SkipNewlines
    PROVE  StackInv'
<1>1. OnPlain
  <2>1. "skip_newlines" \in PlainWords
    BY DEF PlainWords
  <2> QED BY <2>1, AtPlain DEF SkipNewlines
<1>2. /\ <<"skip_newlines">> \in Seq(PlainWords)
  BY DEF PlainWords
<1>3. /\ Harmless(<<"skip_newlines">>)
  BY <1>2, HarmlessList
<1> QED BY <1>1, <1>3, NothingIsHarmless, PlainSteps, PlainChoices
  DEF SkipNewlines

LEMMA ExpectStmtEndKeeps ==
    ASSUME StackInv, ExpectStmtEnd
    PROVE  StackInv'
<1>1. OnPlain
  <2>1. "stmt_end" \in PlainWords
    BY DEF PlainWords
  <2> QED BY <2>1, AtPlain DEF ExpectStmtEnd
<1> QED BY <1>1, NothingIsHarmless, PlainSteps, PlainChoices
  DEF ExpectStmtEnd

LEMMA SynchronizeKeeps ==
    ASSUME StackInv, Synchronize
    PROVE  StackInv'
<1>1. OnPlain
  <2>1. "synchronize" \in PlainWords
    BY DEF PlainWords
  <2> QED BY <2>1, AtPlain DEF Synchronize
<1>2. /\ <<"synchronize">> \in Seq(PlainWords)
  BY DEF PlainWords
<1>3. /\ Harmless(<<"synchronize">>)
  BY <1>2, HarmlessList
<1> QED BY <1>1, <1>3, NothingIsHarmless, PlainSteps, PlainChoices
  DEF Synchronize

LEMMA ANameKeeps ==
    ASSUME StackInv, AName
    PROVE  StackInv'
<1>1. OnPlain
  <2>1. "name" \in PlainWords /\ "ident" \in PlainWords
    BY DEF PlainWords
  <2> QED BY <2>1, AtPlain DEF AName
<1> QED BY <1>1, NothingIsHarmless, PlainSteps, PlainChoices
  DEF AName

LEMMA PatternKeeps ==
    ASSUME StackInv, Pattern
    PROVE  StackInv'
<1>1. OnPlain
  <2>1. "single_pattern" \in PlainWords /\ "no_pattern" \in PlainWords /\ "alternatives" \in PlainWords
    BY DEF PlainWords
  <2> QED BY <2>1, AtPlain DEF Pattern
<1>2. /\ <<"name">> \in Seq(PlainWords)
      /\ <<"string">> \in Seq(PlainWords)
      /\ <<"advance", "advance">> \in Seq(PlainWords)
      /\ <<"no_pattern">> \in Seq(PlainWords)
      /\ <<"single_pattern", "alternatives">> \in Seq(PlainWords)
  BY DEF PlainWords
<1>3. /\ Harmless(<<"name">>)
      /\ Harmless(<<"string">>)
      /\ Harmless(<<"advance", "advance">>)
      /\ Harmless(<<"no_pattern">>)
      /\ Harmless(<<"single_pattern", "alternatives">>)
  BY <1>2, HarmlessList
<1> QED BY <1>1, <1>3, NothingIsHarmless, PlainSteps, PlainChoices, PlainDo
  DEF Pattern, Peek, Moves

LEMMA CastKeeps ==
    ASSUME StackInv, Cast
    PROVE  StackInv'
<1>1. OnPlain
  <2>1. "as" \in PlainWords
    BY DEF PlainWords
  <2> QED BY <2>1, AtPlain DEF Cast
<1>2. /\ <<"type", "as">> \in Seq(PlainWords)
  BY DEF PlainWords
<1>3. /\ Harmless(<<"type", "as">>)
  BY <1>2, HarmlessList
<1> QED BY <1>1, <1>3, NothingIsHarmless, PlainSteps, PlainChoices
  DEF Cast

LEMMA UnaryKeeps ==
    ASSUME StackInv, Unary
    PROVE  StackInv'
<1>1. OnPlain
  <2>1. "unary" \in PlainWords /\ "operand" \in PlainWords
    BY DEF PlainWords
  <2> QED BY <2>1, AtPlain DEF Unary
<1>2. /\ <<"advance", "advance">> \in Seq(PlainWords)
      /\ <<"advance", "operand">> \in Seq(PlainWords)
      /\ <<"primary">> \in Seq(PlainWords)
      /\ <<"unary", "unary_returns">> \in Seq(PlainWords)
  BY DEF PlainWords
<1>3. /\ Harmless(<<"advance", "advance">>)
      /\ Harmless(<<"advance", "operand">>)
      /\ Harmless(<<"primary">>)
      /\ Harmless(<<"unary", "unary_returns">>)
  BY <1>2, HarmlessList
<1> QED BY <1>1, <1>3, NothingIsHarmless, PlainSteps, PlainChoices, PlainDo
  DEF Unary, Peek, Moves

LEMMA FieldInitsKeeps ==
    ASSUME StackInv, FieldInits
    PROVE  StackInv'
<1>1. OnPlain
  <2>1. "field_inits" \in PlainWords /\ "field_end" \in PlainWords
    BY DEF PlainWords
  <2> QED BY <2>1, AtPlain DEF FieldInits
<1>2. /\ <<"COLON", "expr", "field_end">> \in Seq(PlainWords)
      /\ <<"skip_newlines", "field_inits">> \in Seq(PlainWords)
  BY DEF PlainWords
<1>3. /\ Harmless(<<"COLON", "expr", "field_end">>)
      /\ Harmless(<<"skip_newlines", "field_inits">>)
  BY <1>2, HarmlessList
<1> QED BY <1>1, <1>3, NothingIsHarmless, PlainSteps, PlainChoices
  DEF FieldInits

LEMMA LambdaKeeps ==
    ASSUME StackInv, Lambda
    PROVE  StackInv'
<1>1. OnPlain
  <2>1. "lambda_body" \in PlainWords
    BY DEF PlainWords
  <2> QED BY <2>1, AtPlain DEF Lambda
<1>2. /\ <<"expr">> \in Seq(PlainWords)
      /\ <<"block">> \in Seq(PlainWords)
  BY DEF PlainWords
<1>3. /\ Harmless(<<"expr">>)
      /\ Harmless(<<"block">>)
  BY <1>2, HarmlessList
<1> QED BY <1>1, <1>3, NothingIsHarmless, PlainSteps, PlainChoices
  DEF Lambda

LEMMA DropKeeps ==
    ASSUME StackInv, Drop
    PROVE  StackInv'
<1>1. OnPlain
  <2>1. "drop" \in PlainWords
    BY DEF PlainWords
  <2> QED BY <2>1, AtPlain DEF Drop
<1> QED BY <1>1, NothingIsHarmless, PlainSteps, PlainChoices
  DEF Drop

LEMMA AttributesKeeps ==
    ASSUME StackInv, Attributes
    PROVE  StackInv'
<1>1. OnPlain
  <2>1. "tag_name" \in PlainWords /\ "attributes" \in PlainWords /\ "attr_value" \in PlainWords /\ "value" \in PlainWords /\ "spread" \in PlainWords
    BY DEF PlainWords
  <2> QED BY <2>1, AtPlain DEF Attributes
<1>2. /\ <<"attr_value", "attributes">> \in Seq(PlainWords)
      /\ <<"spread", "attributes">> \in Seq(PlainWords)
      /\ <<"value">> \in Seq(PlainWords)
      /\ <<"string">> \in Seq(PlainWords)
      /\ <<"expr", "INTERP_END">> \in Seq(PlainWords)
  BY DEF PlainWords
<1>3. /\ Harmless(<<"attr_value", "attributes">>)
      /\ Harmless(<<"spread", "attributes">>)
      /\ Harmless(<<"value">>)
      /\ Harmless(<<"string">>)
      /\ Harmless(<<"expr", "INTERP_END">>)
  BY <1>2, HarmlessList
<1> QED BY <1>1, <1>3, NothingIsHarmless, PlainSteps, PlainChoices
  DEF Attributes

LEMMA StraysKeeps ==
    ASSUME StackInv, Strays
    PROVE  StackInv'
<1>1. OnPlain
  <2>1. "strays" \in PlainWords /\ "to_ctrl_end" \in PlainWords
    BY DEF PlainWords
  <2> QED BY <2>1, AtPlain DEF Strays
<1>2. /\ <<"to_ctrl_end", "children", "strays">> \in Seq(PlainWords)
      /\ <<"to_ctrl_end">> \in Seq(PlainWords)
  BY DEF PlainWords
<1>3. /\ Harmless(<<"to_ctrl_end", "children", "strays">>)
      /\ Harmless(<<"to_ctrl_end">>)
  BY <1>2, HarmlessList
<1> QED BY <1>1, <1>3, NothingIsHarmless, PlainSteps, PlainChoices
  DEF Strays

LEMMA ClosingTagKeeps ==
    ASSUME StackInv, ClosingTag
    PROVE  StackInv'
<1>1. OnPlain
  <2>1. "closing_tag" \in PlainWords /\ "closing_name" \in PlainWords
    BY DEF PlainWords
  <2> QED BY <2>1, AtPlain DEF ClosingTag
<1>2. /\ <<"closing_name", "TAG_END">> \in Seq(PlainWords)
  BY DEF PlainWords
<1>3. /\ Harmless(<<"closing_name", "TAG_END">>)
  BY <1>2, HarmlessList
<1> QED BY <1>1, <1>3, NothingIsHarmless, PlainSteps, PlainChoices
  DEF ClosingTag

LEMMA ChildrenKeeps ==
    ASSUME StackInv, Children
    PROVE  StackInv'
<1>1. OnPlain
  <2>1. "children" \in PlainWords
    BY DEF PlainWords
  <2> QED BY <2>1, AtPlain DEF Children
<1>2. /\ <<"children">> \in Seq(PlainWords)
      /\ <<"expr", "INTERP_END", "children">> \in Seq(PlainWords)
      /\ <<"element_nested", "children">> \in Seq(PlainWords)
      /\ <<"advance", "ctrl", "children">> \in Seq(PlainWords)
  BY DEF PlainWords
<1>3. /\ Harmless(<<"children">>)
      /\ Harmless(<<"expr", "INTERP_END", "children">>)
      /\ Harmless(<<"element_nested", "children">>)
      /\ Harmless(<<"advance", "ctrl", "children">>)
  BY <1>2, HarmlessList
<1> QED BY <1>1, <1>3, NothingIsHarmless, PlainSteps, PlainChoices, PlainDo
  DEF Children, Peek, Moves

LEMMA CtrlKeeps ==
    ASSUME StackInv, Ctrl
    PROVE  StackInv'
<1>1. OnPlain
  <2>1. "ctrl" \in PlainWords /\ "second_name" \in PlainWords
    BY DEF PlainWords
  <2> QED BY <2>1, AtPlain DEF Ctrl
<1>2. /\ <<"expr", "CTRL_END", "children", "if_arms", "ctrl_returns">> \in Seq(PlainWords)
      /\ <<"ident", "second_name", "KW_IN", "expr", "CTRL_END", "children", "for_arms", "ctrl_returns">> \in Seq(PlainWords)
      /\ <<"to_ctrl_end">> \in Seq(PlainWords)
      /\ <<"ident">> \in Seq(PlainWords)
  BY DEF PlainWords
<1>3. /\ Harmless(<<"expr", "CTRL_END", "children", "if_arms", "ctrl_returns">>)
      /\ Harmless(<<"ident", "second_name", "KW_IN", "expr", "CTRL_END", "children", "for_arms", "ctrl_returns">>)
      /\ Harmless(<<"to_ctrl_end">>)
      /\ Harmless(<<"ident">>)
  BY <1>2, HarmlessList
<1> QED BY <1>1, <1>3, NothingIsHarmless, PlainSteps, PlainChoices
  DEF Ctrl

LEMMA AttrsKeeps ==
    ASSUME StackInv, Attrs
    PROVE  StackInv'
<1>1. OnPlain
  <2>1. "attrs" \in PlainWords /\ "attr" \in PlainWords /\ "attr_args" \in PlainWords
    BY DEF PlainWords
  <2> QED BY <2>1, AtPlain DEF Attrs
<1>2. /\ <<"attr">> \in Seq(PlainWords)
      /\ <<"attr_args", "skip_newlines", "attrs">> \in Seq(PlainWords)
      /\ <<"skip_newlines", "args", "RPAREN">> \in Seq(PlainWords)
  BY DEF PlainWords
<1>3. /\ Harmless(<<"attr">>)
      /\ Harmless(<<"attr_args", "skip_newlines", "attrs">>)
      /\ Harmless(<<"skip_newlines", "args", "RPAREN">>)
  BY <1>2, HarmlessList
<1> QED BY <1>1, <1>3, NothingIsHarmless, PlainSteps, PlainChoices
  DEF Attrs

LEMMA LetTypeKeeps ==
    ASSUME StackInv, LetType
    PROVE  StackInv'
<1>1. OnPlain
  <2>1. "let_type" \in PlainWords
    BY DEF PlainWords
  <2> QED BY <2>1, AtPlain DEF LetType
<1>2. /\ <<"type">> \in Seq(PlainWords)
  BY DEF PlainWords
<1>3. /\ Harmless(<<"type">>)
  BY <1>2, HarmlessList
<1> QED BY <1>1, <1>3, NothingIsHarmless, PlainSteps, PlainChoices
  DEF LetType

LEMMA IfKeeps ==
    ASSUME StackInv, If
    PROVE  StackInv'
<1>1. OnPlain
  <2>1. "if_end" \in PlainWords /\ "else" \in PlainWords /\ "else_body" \in PlainWords
    BY DEF PlainWords
  <2> QED BY <2>1, AtPlain DEF If
<1>2. /\ <<"advance", "else">> \in Seq(PlainWords)
      /\ <<"else">> \in Seq(PlainWords)
      /\ <<"else_body">> \in Seq(PlainWords)
      /\ <<"cond", "block", "if_end", "if_returns">> \in Seq(PlainWords)
      /\ <<"block">> \in Seq(PlainWords)
  BY DEF PlainWords
<1>3. /\ Harmless(<<"advance", "else">>)
      /\ Harmless(<<"else">>)
      /\ Harmless(<<"else_body">>)
      /\ Harmless(<<"cond", "block", "if_end", "if_returns">>)
      /\ Harmless(<<"block">>)
  BY <1>2, HarmlessList
<1> QED BY <1>1, <1>3, NothingIsHarmless, PlainSteps, PlainChoices, PlainDo
  DEF If, Peek, Moves

LEMMA MatchArmsKeeps ==
    ASSUME StackInv, MatchArms
    PROVE  StackInv'
<1>1. OnPlain
  <2>1. "match_body" \in PlainWords /\ "match_arms" \in PlainWords /\ "arm_body" \in PlainWords
    BY DEF PlainWords
  <2> QED BY <2>1, AtPlain DEF MatchArms
<1>2. /\ <<"LBRACE", "skip_newlines", "match_arms", "RBRACE">> \in Seq(PlainWords)
      /\ <<"ARROW", "arm_body", "skip_newlines", "match_arms">> \in Seq(PlainWords)
      /\ <<"single_pattern", "alternatives", "ARROW", "arm_body", "skip_newlines", "match_arms">> \in Seq(PlainWords)
      /\ <<"block">> \in Seq(PlainWords)
      /\ <<"expr">> \in Seq(PlainWords)
  BY DEF PlainWords
<1>3. /\ Harmless(<<"LBRACE", "skip_newlines", "match_arms", "RBRACE">>)
      /\ Harmless(<<"ARROW", "arm_body", "skip_newlines", "match_arms">>)
      /\ Harmless(<<"single_pattern", "alternatives", "ARROW", "arm_body", "skip_newlines", "match_arms">>)
      /\ Harmless(<<"block">>)
      /\ Harmless(<<"expr">>)
  BY <1>2, HarmlessList
<1> QED BY <1>1, <1>3, NothingIsHarmless, PlainSteps, PlainChoices
  DEF MatchArms

LEMMA StmtKeeps ==
    ASSUME StackInv, Stmt
    PROVE  StackInv'
<1>1. OnPlain
  <2>1. "stmt" \in PlainWords /\ "return_value" \in PlainWords /\ "send_value" \in PlainWords /\ "assign" \in PlainWords
    BY DEF PlainWords
  <2> QED BY <2>1, AtPlain DEF Stmt, Let, Jump
<1>2. /\ <<"ident", "let_type", "EQ", "expr">> \in Seq(PlainWords)
      /\ <<"cond", "block", "if_end">> \in Seq(PlainWords)
      /\ <<"cond", "match_body">> \in Seq(PlainWords)
      /\ <<"cond", "loop_body">> \in Seq(PlainWords)
      /\ <<"ident", "second_name", "KW_IN", "cond", "loop_body">> \in Seq(PlainWords)
      /\ <<"return_value">> \in Seq(PlainWords)
      /\ <<"expr", "send_value">> \in Seq(PlainWords)
      /\ <<"expr">> \in Seq(PlainWords)
      /\ <<"expr", "assign">> \in Seq(PlainWords)
  BY DEF PlainWords
<1>3. /\ Harmless(<<"ident", "let_type", "EQ", "expr">>)
      /\ Harmless(<<"cond", "block", "if_end">>)
      /\ Harmless(<<"cond", "match_body">>)
      /\ Harmless(<<"cond", "loop_body">>)
      /\ Harmless(<<"ident", "second_name", "KW_IN", "cond", "loop_body">>)
      /\ Harmless(<<"return_value">>)
      /\ Harmless(<<"expr", "send_value">>)
      /\ Harmless(<<"expr">>)
      /\ Harmless(<<"expr", "assign">>)
  BY <1>2, HarmlessList
<1> QED BY <1>1, <1>3, NothingIsHarmless, PlainSteps, PlainChoices
  DEF Stmt, Let, Jump

LEMMA DefaultKeeps ==
    ASSUME StackInv, Default
    PROVE  StackInv'
<1>1. OnPlain
  <2>1. "default" \in PlainWords
    BY DEF PlainWords
  <2> QED BY <2>1, AtPlain DEF Default
<1>2. /\ <<"expr">> \in Seq(PlainWords)
  BY DEF PlainWords
<1>3. /\ Harmless(<<"expr">>)
  BY <1>2, HarmlessList
<1> QED BY <1>1, <1>3, NothingIsHarmless, PlainSteps, PlainChoices
  DEF Default

LEMMA HttpMethodKeeps ==
    ASSUME StackInv, HttpMethod
    PROVE  StackInv'
<1>1. OnPlain
  <2>1. "method" \in PlainWords
    BY DEF PlainWords
  <2> QED BY <2>1, AtPlain DEF HttpMethod
<1> QED BY <1>1, NothingIsHarmless, PlainSteps, PlainChoices
  DEF HttpMethod

LEMMA QuotedKeeps ==
    ASSUME StackInv, Quoted
    PROVE  StackInv'
<1>1. OnPlain
  <2>1. "quoted" \in PlainWords
    BY DEF PlainWords
  <2> QED BY <2>1, AtPlain DEF Quoted
<1>2. /\ <<"string">> \in Seq(PlainWords)
  BY DEF PlainWords
<1>3. /\ Harmless(<<"string">>)
  BY <1>2, HarmlessList
<1> QED BY <1>1, <1>3, NothingIsHarmless, PlainSteps, PlainChoices
  DEF Quoted

-----------------------------------------------------------------------------
(* Lists with a loop, and the levels of precedence.                          *)

LEMMA LoopsAreHarmless ==
    /\ Harmless(<<"type", "skip_newlines", "more", "types">>)
    /\ Harmless(<<"type", "more", "type_arg">>)
    /\ Harmless(<<"expr", "skip_newlines", "more", "args">>)
    /\ Harmless(<<"expr", "skip_newlines", "more", "elements">>)
    /\ Harmless(<<"expr", "more", "indexes">>)
    /\ Harmless(<<"expr", "COLON", "expr", "skip_newlines", "more", "entries">>)
    /\ Harmless(<<"skip_newlines", "more", "params">>)
    /\ Harmless(<<"COLON", "type", "default", "attrs", "skip_newlines", "more", "params">>)
    /\ Harmless(<<"skip_newlines", "more", "variants">>)
<1> DEFINE S == PlainWords \cup {"more"}
<1>1. /\ <<"type", "skip_newlines", "more", "types">> \in Seq(S)
      /\ <<"type", "more", "type_arg">> \in Seq(S)
      /\ <<"expr", "skip_newlines", "more", "args">> \in Seq(S)
      /\ <<"expr", "skip_newlines", "more", "elements">> \in Seq(S)
      /\ <<"expr", "more", "indexes">> \in Seq(S)
      /\ <<"expr", "COLON", "expr", "skip_newlines", "more", "entries">> \in Seq(S)
      /\ <<"skip_newlines", "more", "params">> \in Seq(S)
      /\ <<"COLON", "type", "default", "attrs", "skip_newlines", "more", "params">> \in Seq(S)
      /\ <<"skip_newlines", "more", "variants">> \in Seq(S)
  BY DEF PlainWords
<1>2. /\ "types" \in PlainWords /\ "type_arg" \in PlainWords /\ "args" \in PlainWords
      /\ "elements" \in PlainWords /\ "indexes" \in PlainWords /\ "entries" \in PlainWords
      /\ "params" \in PlainWords /\ "variants" \in PlainWords
  BY DEF PlainWords
<1>3. \A w \in Seq(S) : \A n \in Nat :
        Len(w) = n + 1 /\ w[n + 1] \in PlainWords /\ (\A j \in 1 .. n : w[j] = "more" => j = n)
            => Harmless(w)
  BY HarmlessLoop
<1> HIDE DEF S
<1>4. /\ Harmless(<<"type", "skip_newlines", "more", "types">>)
      /\ Harmless(<<"expr", "skip_newlines", "more", "args">>)
      /\ Harmless(<<"expr", "skip_newlines", "more", "elements">>)
  <2> DEFINE w1 == <<"type", "skip_newlines", "more", "types">>
             w2 == <<"expr", "skip_newlines", "more", "args">>
             w3 == <<"expr", "skip_newlines", "more", "elements">>
  <2>1. /\ Len(w1) = 3 + 1 /\ w1[3 + 1] = "types" /\ \A j \in 1 .. 3 : w1[j] = "more" => j = 3
        /\ Len(w2) = 3 + 1 /\ w2[3 + 1] = "args" /\ \A j \in 1 .. 3 : w2[j] = "more" => j = 3
        /\ Len(w3) = 3 + 1 /\ w3[3 + 1] = "elements" /\ \A j \in 1 .. 3 : w3[j] = "more" => j = 3
    OBVIOUS
  <2>2. w1 \in Seq(S) /\ w2 \in Seq(S) /\ w3 \in Seq(S) /\ 3 \in Nat
    BY <1>1
  <2> HIDE DEF w1, w2, w3
  <2>3. Harmless(w1) /\ Harmless(w2) /\ Harmless(w3)
    BY <1>2, <1>3, <2>1, <2>2
  <2> QED BY <2>3 DEF w1, w2, w3
<1>5. /\ Harmless(<<"type", "more", "type_arg">>)
      /\ Harmless(<<"expr", "more", "indexes">>)
      /\ Harmless(<<"skip_newlines", "more", "params">>)
      /\ Harmless(<<"skip_newlines", "more", "variants">>)
  <2> DEFINE w1 == <<"type", "more", "type_arg">>
             w2 == <<"expr", "more", "indexes">>
             w3 == <<"skip_newlines", "more", "params">>
             w4 == <<"skip_newlines", "more", "variants">>
  <2>1. /\ Len(w1) = 2 + 1 /\ w1[2 + 1] = "type_arg" /\ \A j \in 1 .. 2 : w1[j] = "more" => j = 2
        /\ Len(w2) = 2 + 1 /\ w2[2 + 1] = "indexes" /\ \A j \in 1 .. 2 : w2[j] = "more" => j = 2
        /\ Len(w3) = 2 + 1 /\ w3[2 + 1] = "params" /\ \A j \in 1 .. 2 : w3[j] = "more" => j = 2
        /\ Len(w4) = 2 + 1 /\ w4[2 + 1] = "variants" /\ \A j \in 1 .. 2 : w4[j] = "more" => j = 2
    OBVIOUS
  <2>2. w1 \in Seq(S) /\ w2 \in Seq(S) /\ w3 \in Seq(S) /\ w4 \in Seq(S) /\ 2 \in Nat
    BY <1>1
  <2> HIDE DEF w1, w2, w3, w4
  <2>3. Harmless(w1) /\ Harmless(w2) /\ Harmless(w3) /\ Harmless(w4)
    BY <1>2, <1>3, <2>1, <2>2
  <2> QED BY <2>3 DEF w1, w2, w3, w4
<1>6. /\ Harmless(<<"expr", "COLON", "expr", "skip_newlines", "more", "entries">>)
      /\ Harmless(<<"COLON", "type", "default", "attrs", "skip_newlines", "more", "params">>)
  <2> DEFINE w1 == <<"expr", "COLON", "expr", "skip_newlines", "more", "entries">>
             w2 == <<"COLON", "type", "default", "attrs", "skip_newlines", "more", "params">>
  <2>1. /\ Len(w1) = 5 + 1 /\ w1[5 + 1] = "entries" /\ \A j \in 1 .. 5 : w1[j] = "more" => j = 5
        /\ Len(w2) = 6 + 1 /\ w2[6 + 1] = "params" /\ \A j \in 1 .. 6 : w2[j] = "more" => j = 6
    OBVIOUS
  <2>2. w1 \in Seq(S) /\ w2 \in Seq(S) /\ 5 \in Nat /\ 6 \in Nat
    BY <1>1
  <2> HIDE DEF w1, w2
  <2>3. Harmless(w1) /\ Harmless(w2)
    BY <1>2, <1>3, <2>1, <2>2
  <2> QED BY <2>3 DEF w1, w2
<1> QED BY <1>4, <1>5, <1>6

(* A level of precedence, and the rest of one after its operator.            *)
LEMMA LevelsAreHarmless ==
    /\ Harmless(parse_cast) /\ Harmless(parse_mul) /\ Harmless(parse_add) /\ Harmless(parse_cmp)
    /\ Harmless(parse_and) /\ Harmless(parse_or) /\ Harmless(parse_coalesce)
<1>1. /\ parse_cast \in Seq(PlainWords) /\ parse_and \in Seq(PlainWords)
      /\ <<"mul">> \in Seq(PlainWords) /\ <<"add">> \in Seq(PlainWords) /\ <<"cmp">> \in Seq(PlainWords)
      /\ <<"or">> \in Seq(PlainWords) /\ <<"coalesce">> \in Seq(PlainWords)
  BY DEF PlainWords, parse_cast, parse_and
<1>2. /\ Harmless(parse_cast) /\ Harmless(parse_and) /\ Harmless(<<"mul">>) /\ Harmless(<<"add">>)
      /\ Harmless(<<"cmp">>) /\ Harmless(<<"or">>) /\ Harmless(<<"coalesce">>)
  BY <1>1, HarmlessList
<1>3. Harmless(parse_mul)
  BY <1>2, HarmlessConcat DEF parse_mul
<1>4. Harmless(parse_add)
  BY <1>2, <1>3, HarmlessConcat DEF parse_add
<1>5. Harmless(parse_cmp)
  BY <1>2, <1>4, HarmlessConcat DEF parse_cmp
<1>6. Harmless(parse_or)
  BY <1>2, HarmlessConcat DEF parse_or
<1>7. Harmless(parse_coalesce)
  BY <1>2, <1>6, HarmlessConcat DEF parse_coalesce
<1> QED BY <1>2, <1>3, <1>4, <1>5, <1>6, <1>7

LEMMA SignatureIsHarmless == Harmless(Signature)
<1>1. Signature \in Seq(PlainWords)
  BY DEF Signature, PlainWords
<1> QED BY <1>1, HarmlessList

LEMMA ElementsKeeps ==
    ASSUME StackInv, Elements
    PROVE  StackInv'
<1>1. OnPlain
  <2>1. "args" \in PlainWords /\ "elements" \in PlainWords /\ "indexes" \in PlainWords /\ "entries" \in PlainWords
    BY DEF PlainWords
  <2> QED BY <2>1, AtPlain DEF Elements
<1> QED BY <1>1, LoopsAreHarmless, NothingIsHarmless, PlainSteps, PlainChoices
  DEF Elements

LEMMA ParamsKeeps ==
    ASSUME StackInv, Params
    PROVE  StackInv'
<1>1. OnPlain
  <2>1. "params" \in PlainWords
    BY DEF PlainWords
  <2> QED BY <2>1, AtPlain DEF Params
<1> QED BY <1>1, LoopsAreHarmless, NothingIsHarmless, PlainSteps, PlainChoices
  DEF Params

LEMMA TypeDeclKeeps ==
    ASSUME StackInv, TypeDecl
    PROVE  StackInv'
<1>1. OnPlain
  <2>1. "type_name" \in PlainWords /\ "type_body" \in PlainWords /\ "variants" \in PlainWords /\ "fields" \in PlainWords /\ "comma" \in PlainWords
    BY DEF PlainWords
  <2> QED BY <2>1, AtPlain DEF TypeDecl
<1>2. /\ <<"type_body">> \in Seq(PlainWords)
      /\ <<"LBRACE", "skip_newlines", "variants", "skip_newlines", "RBRACE">> \in Seq(PlainWords)
      /\ <<"type">> \in Seq(PlainWords)
      /\ <<"LBRACE", "skip_newlines", "fields", "RBRACE">> \in Seq(PlainWords)
      /\ <<"COLON", "type", "default", "attrs", "comma", "skip_newlines", "fields">> \in Seq(PlainWords)
  BY DEF PlainWords
<1>3. /\ Harmless(<<"type_body">>)
      /\ Harmless(<<"LBRACE", "skip_newlines", "variants", "skip_newlines", "RBRACE">>)
      /\ Harmless(<<"type">>)
      /\ Harmless(<<"LBRACE", "skip_newlines", "fields", "RBRACE">>)
      /\ Harmless(<<"COLON", "type", "default", "attrs", "comma", "skip_newlines", "fields">>)
  BY <1>2, HarmlessList
<1> QED BY <1>1, <1>3, LoopsAreHarmless, NothingIsHarmless, PlainSteps, PlainChoices
  DEF TypeDecl

LEMMA ExpectKeeps ==
    ASSUME StackInv, Expect
    PROVE  StackInv'
<1>1. Expected \subseteq PlainWords
  BY DEF Expected, PlainWords
<1>2. OnPlain
  BY <1>1, WordsArePlain DEF Expect, OnPlain
<1> QED BY <1>2, NothingIsHarmless, PlainSteps DEF Expect

LEMMA ReturnKeeps ==
    ASSUME StackInv, Return
    PROVE  StackInv'
<1>1. Frames \cup {"make_binary"} \subseteq PlainWords
  BY DEF Frames, PlainWords
<1>2. OnPlain
  BY <1>1, WordsArePlain DEF Return, OnPlain
<1> QED BY <1>2, NothingIsHarmless, PlainSteps DEF Return

LEMMA TagEndKeeps ==
    ASSUME StackInv, TagEnd
    PROVE  StackInv'
<1>1. OnPlain
  <2>1. "tag_end" \in PlainWords
    BY DEF PlainWords
  <2> QED BY <2>1, AtPlain DEF TagEnd
<1>2. <<"children", "strays", "closing_tag">> \in Seq(PlainWords)
  BY DEF PlainWords
<1>3. Harmless(<<"children", "strays", "closing_tag">>)
  BY <1>2, HarmlessList
<1>4. Do(<<>>) /\ TakeIn(Lex!Closed(open)) /\ UNCHANGED <<cx, before, reported>> => StackInv'
  BY <1>1, NothingIsHarmless, PlainDo, TakeMoves
<1> QED BY <1>1, <1>3, <1>4, NothingIsHarmless, PlainSteps DEF TagEnd

LEMMA ArmsKeep ==
    ASSUME StackInv, Arms
    PROVE  StackInv'
<1>1. PICK d \in Directives :
        \/ At(d.arms) /\ IF tok = "CTRL_START" THEN Eat(<<d.arm>>) ELSE Report(<<>>)
        \/ /\ At(d.arm)
           /\ CASE tok = "KW_ELSE" -> Eat(<<d.after>>)
                [] tok = "END" -> Eat(<<"CTRL_END">>)
                [] OTHER -> Report(<<>>)
        \/ /\ At(d.after) /\ ElseIf(d)
           /\ IF d.seen THEN EatReporting(<<"expr", "CTRL_END", "children", d.arms>>)
              ELSE Eat(<<"expr", "CTRL_END", "children", d.arms>>)
        \/ /\ At(d.after) /\ ~ ElseIf(d)
           /\ IF d.seen THEN Report(<<"CTRL_END", "children", ElseArms(d)>>)
              ELSE Go(<<"CTRL_END", "children", ElseArms(d)>>)
  BY DEF Arms
<1>2. d.arms \in PlainWords /\ d.arm \in PlainWords /\ d.after \in PlainWords /\ ElseArms(d) \in PlainWords
  BY DEF Directives, ElseArms, PlainWords
<1>3. OnPlain
  BY <1>1, <1>2, AtPlain
<1>4. "CTRL_END" \in PlainWords /\ "children" \in PlainWords /\ "expr" \in PlainWords
  BY DEF PlainWords
<1>5. /\ <<d.arm>> \in Seq(PlainWords) /\ <<d.after>> \in Seq(PlainWords) /\ <<"CTRL_END">> \in Seq(PlainWords)
      /\ <<"expr", "CTRL_END", "children", d.arms>> \in Seq(PlainWords)
      /\ <<"CTRL_END", "children", ElseArms(d)>> \in Seq(PlainWords)
  BY <1>2, <1>4
<1>6. /\ Harmless(<<d.arm>>) /\ Harmless(<<d.after>>) /\ Harmless(<<"CTRL_END">>)
      /\ Harmless(<<"expr", "CTRL_END", "children", d.arms>>)
      /\ Harmless(<<"CTRL_END", "children", ElseArms(d)>>)
  BY <1>5, HarmlessList
<1> QED BY <1>1, <1>3, <1>6, NothingIsHarmless, PlainSteps

LEMMA OperatorKeeps ==
    ASSUME StackInv, NEW level \in PlainWords, NEW ops, NEW operand, Harmless(operand),
           Operator(level, ops, operand)
    PROVE  StackInv'
<1>1. OnPlain
  BY AtPlain DEF Operator
<1>2. <<"skip_newlines">> \in Seq(PlainWords) /\ <<"make_binary", level>> \in Seq(PlainWords)
  BY DEF PlainWords
<1>3. Harmless(<<"skip_newlines">>) /\ Harmless(<<"make_binary", level>>)
  BY <1>2, HarmlessList
<1>4. Harmless(<<"skip_newlines">> \o operand)
  BY <1>3, HarmlessConcat
<1>5. Harmless(<<"skip_newlines">> \o operand \o <<"make_binary", level>>)
  BY <1>3, <1>4, HarmlessConcat
<1> QED BY <1>1, <1>5, NothingIsHarmless, PlainSteps DEF Operator

LEMMA BinaryKeeps ==
    ASSUME StackInv, Binary
    PROVE  StackInv'
<1>1. "mul" \in PlainWords /\ "add" \in PlainWords /\ "and" \in PlainWords /\ "or" \in PlainWords
      /\ <<"not">> \in Seq(PlainWords)
  BY DEF PlainWords
<1>2. Harmless(<<"not">>)
  BY <1>1, HarmlessList
<1> QED BY <1>1, <1>2, LevelsAreHarmless, OperatorKeeps DEF Binary

LEMMA CompareKeeps ==
    ASSUME StackInv, Compare
    PROVE  StackInv'
<1>1. OnPlain
  <2>1. "cmp" \in PlainWords /\ "chain" \in PlainWords
    BY DEF PlainWords
  <2> QED BY <2>1, AtPlain DEF Compare
<1>2. <<"skip_newlines">> \in Seq(PlainWords) /\ <<"chain">> \in Seq(PlainWords)
  BY DEF PlainWords
<1>3. Harmless(<<"skip_newlines">>) /\ Harmless(<<"chain">>)
  BY <1>2, HarmlessList
<1>4. Harmless(<<"skip_newlines">> \o parse_add) /\ Harmless(parse_add \o <<"chain">>)
  BY <1>3, LevelsAreHarmless, HarmlessConcat
<1>5. Harmless(<<"skip_newlines">> \o parse_add \o <<"chain">>)
  BY <1>3, <1>4, HarmlessConcat
<1> QED BY <1>1, <1>4, <1>5, NothingIsHarmless, PlainSteps DEF Compare

LEMMA NotKeeps ==
    ASSUME StackInv, Not
    PROVE  StackInv'
<1>1. OnPlain
  <2>1. "not" \in PlainWords
    BY DEF PlainWords
  <2> QED BY <2>1, AtPlain DEF Not
<1>2. <<"not", "not_returns">> \in Seq(PlainWords)
  BY DEF PlainWords
<1>3. Harmless(<<"not", "not_returns">>)
  BY <1>2, HarmlessList
<1> QED BY <1>1, <1>3, LevelsAreHarmless, PlainSteps DEF Not

LEMMA CoalesceKeeps ==
    ASSUME StackInv, Coalesce
    PROVE  StackInv'
<1>1. OnPlain
  <2>1. "coalesce" \in PlainWords /\ "fallback" \in PlainWords
    BY DEF PlainWords
  <2> QED BY <2>1, AtPlain DEF Coalesce
<1>2. /\ <<"fallback">> \in Seq(PlainWords) /\ <<"stmt">> \in Seq(PlainWords)
      /\ <<"block">> \in Seq(PlainWords) /\ <<"advance", "block">> \in Seq(PlainWords)
      /\ <<"coalesce_returns">> \in Seq(PlainWords)
  BY DEF PlainWords
<1>3. /\ Harmless(<<"fallback">>) /\ Harmless(<<"stmt">>) /\ Harmless(<<"block">>)
      /\ Harmless(<<"advance", "block">>) /\ Harmless(<<"coalesce_returns">>)
  BY <1>2, HarmlessList
<1>4. Harmless(parse_coalesce \o <<"coalesce_returns">>)
  BY <1>3, LevelsAreHarmless, HarmlessConcat
<1> QED BY <1>1, <1>3, <1>4, PlainSteps, PlainChoices, PlainDo DEF Coalesce, Peek, Moves

-----------------------------------------------------------------------------
(* Steps that take something to give back, or give it back.                  *)

Joined(v, w) == v \o w

LEMMA ListIs ==
    ASSUME NEW u, IsStack(u), NEW v, IsStack(v), NEW w, IsStack(w), Len(u) = Len(v) + Len(w),
           \A j \in 1 .. Len(v) : u[j] = v[j],
           \A j \in 1 .. Len(w) : u[Len(v) + j] = w[j]
    PROVE  u = Joined(v, w)
<1> DEFINE s == v \o w
           m == Len(v)
           n1 == Len(w)
<1>1. m \in Nat /\ n1 \in Nat
  BY StackHasLen
<1>2. /\ IsStack(s) /\ Len(s) = m + n1
      /\ \A j \in 1 .. m : s[j] = v[j]
      /\ \A j \in 1 .. n1 : s[m + j] = w[j]
  BY ConcatIs
<1> HIDE DEF s, m, n1
<1>3. Len(u) = m + n1 /\ (\A j \in 1 .. m : u[j] = v[j]) /\ \A j \in 1 .. n1 : u[m + j] = w[j]
  BY DEF m, n1
<1>4. ASSUME NEW j \in 1 .. m + n1 PROVE u[j] = s[j]
  <2>1. CASE j \in 1 .. m
    BY <1>2, <1>3, <2>1
  <2>2. CASE j \notin 1 .. m
    <3>1. j - m \in 1 .. n1 /\ m + (j - m) = j
      BY <1>1, <2>2
    <3>2. u[m + (j - m)] = w[j - m] /\ s[m + (j - m)] = w[j - m]
      BY <1>2, <1>3, <3>1
    <3> QED BY <3>1, <3>2
  <2> QED BY <2>1, <2>2
<1>5. u = s
  <2>1. PICK S : u \in Seq(S) /\ s \in Seq(S)
    BY <1>2, OneAlphabet
  <2> QED BY <1>2, <1>3, <1>4, <2>1, SeqEqual
<1> QED BY <1>5 DEF s, Joined

(* A list is the join of its parts. *)
LEMMA Split1And1 ==
    ASSUME NEW a, NEW b
    PROVE  <<a, b>> = <<a>> \o <<b>>
<1> DEFINE u == <<a, b>>
           v == <<a>>
           w == <<b>>
           S == {a, b}
<1>1. u \in Seq(S) /\ v \in Seq(S) /\ w \in Seq(S)
  OBVIOUS
<1>2. IsStack(u) /\ IsStack(v) /\ IsStack(w)
  BY <1>1 DEF IsStack
<1>3. Len(u) = 2 /\ Len(v) = 1 /\ Len(w) = 1
  OBVIOUS
<1>4. u[1] = v[1] /\ u[2] = w[1]
  OBVIOUS
<1> HIDE DEF u, v, w
<1>5. Len(u) = Len(v) + Len(w) /\ (\A j \in 1 .. Len(v) : u[j] = v[j])
      /\ \A j \in 1 .. Len(w) : u[Len(v) + j] = w[j]
  BY <1>3, <1>4
<1>6. u = Joined(v, w)
  BY <1>2, <1>5, ListIs
<1> QED BY <1>6 DEF Joined, u, v, w

LEMMA Split1And2 ==
    ASSUME NEW a, NEW b, NEW c
    PROVE  <<a, b, c>> = <<a>> \o <<b, c>>
<1> DEFINE u == <<a, b, c>>
           v == <<a>>
           w == <<b, c>>
           S == {a, b, c}
<1>1. u \in Seq(S) /\ v \in Seq(S) /\ w \in Seq(S)
  OBVIOUS
<1>2. IsStack(u) /\ IsStack(v) /\ IsStack(w)
  BY <1>1 DEF IsStack
<1>3. Len(u) = 3 /\ Len(v) = 1 /\ Len(w) = 2
  OBVIOUS
<1>4. u[1] = v[1] /\ u[2] = w[1] /\ u[3] = w[2]
  OBVIOUS
<1> HIDE DEF u, v, w
<1>5. Len(u) = Len(v) + Len(w) /\ (\A j \in 1 .. Len(v) : u[j] = v[j])
      /\ \A j \in 1 .. Len(w) : u[Len(v) + j] = w[j]
  BY <1>3, <1>4
<1>6. u = Joined(v, w)
  BY <1>2, <1>5, ListIs
<1> QED BY <1>6 DEF Joined, u, v, w

LEMMA Split2And1 ==
    ASSUME NEW a, NEW b, NEW c
    PROVE  <<a, b, c>> = <<a, b>> \o <<c>>
<1> DEFINE u == <<a, b, c>>
           v == <<a, b>>
           w == <<c>>
           S == {a, b, c}
<1>1. u \in Seq(S) /\ v \in Seq(S) /\ w \in Seq(S)
  OBVIOUS
<1>2. IsStack(u) /\ IsStack(v) /\ IsStack(w)
  BY <1>1 DEF IsStack
<1>3. Len(u) = 3 /\ Len(v) = 2 /\ Len(w) = 1
  OBVIOUS
<1>4. u[1] = v[1] /\ u[2] = v[2] /\ u[3] = w[1]
  OBVIOUS
<1> HIDE DEF u, v, w
<1>5. Len(u) = Len(v) + Len(w) /\ (\A j \in 1 .. Len(v) : u[j] = v[j])
      /\ \A j \in 1 .. Len(w) : u[Len(v) + j] = w[j]
  BY <1>3, <1>4
<1>6. u = Joined(v, w)
  BY <1>2, <1>5, ListIs
<1> QED BY <1>6 DEF Joined, u, v, w

LEMMA Split2And2 ==
    ASSUME NEW a, NEW b, NEW c, NEW d
    PROVE  <<a, b, c, d>> = <<a, b>> \o <<c, d>>
<1> DEFINE u == <<a, b, c, d>>
           v == <<a, b>>
           w == <<c, d>>
           S == {a, b, c, d}
<1>1. u \in Seq(S) /\ v \in Seq(S) /\ w \in Seq(S)
  OBVIOUS
<1>2. IsStack(u) /\ IsStack(v) /\ IsStack(w)
  BY <1>1 DEF IsStack
<1>3. Len(u) = 4 /\ Len(v) = 2 /\ Len(w) = 2
  OBVIOUS
<1>4. u[1] = v[1] /\ u[2] = v[2] /\ u[3] = w[1] /\ u[4] = w[2]
  OBVIOUS
<1> HIDE DEF u, v, w
<1>5. Len(u) = Len(v) + Len(w) /\ (\A j \in 1 .. Len(v) : u[j] = v[j])
      /\ \A j \in 1 .. Len(w) : u[Len(v) + j] = w[j]
  BY <1>3, <1>4
<1>6. u = Joined(v, w)
  BY <1>2, <1>5, ListIs
<1> QED BY <1>6 DEF Joined, u, v, w

LEMMA Split3And1 ==
    ASSUME NEW a, NEW b, NEW c, NEW d
    PROVE  <<a, b, c, d>> = <<a, b, c>> \o <<d>>
<1> DEFINE u == <<a, b, c, d>>
           v == <<a, b, c>>
           w == <<d>>
           S == {a, b, c, d}
<1>1. u \in Seq(S) /\ v \in Seq(S) /\ w \in Seq(S)
  OBVIOUS
<1>2. IsStack(u) /\ IsStack(v) /\ IsStack(w)
  BY <1>1 DEF IsStack
<1>3. Len(u) = 4 /\ Len(v) = 3 /\ Len(w) = 1
  OBVIOUS
<1>4. u[1] = v[1] /\ u[2] = v[2] /\ u[3] = v[3] /\ u[4] = w[1]
  OBVIOUS
<1> HIDE DEF u, v, w
<1>5. Len(u) = Len(v) + Len(w) /\ (\A j \in 1 .. Len(v) : u[j] = v[j])
      /\ \A j \in 1 .. Len(w) : u[Len(v) + j] = w[j]
  BY <1>3, <1>4
<1>6. u = Joined(v, w)
  BY <1>2, <1>5, ListIs
<1> QED BY <1>6 DEF Joined, u, v, w

LEMMA Split3And2 ==
    ASSUME NEW a, NEW b, NEW c, NEW d, NEW e
    PROVE  <<a, b, c, d, e>> = <<a, b, c>> \o <<d, e>>
<1> DEFINE u == <<a, b, c, d, e>>
           v == <<a, b, c>>
           w == <<d, e>>
           S == {a, b, c, d, e}
<1>1. u \in Seq(S) /\ v \in Seq(S) /\ w \in Seq(S)
  OBVIOUS
<1>2. IsStack(u) /\ IsStack(v) /\ IsStack(w)
  BY <1>1 DEF IsStack
<1>3. Len(u) = 5 /\ Len(v) = 3 /\ Len(w) = 2
  OBVIOUS
<1>4. u[1] = v[1] /\ u[2] = v[2] /\ u[3] = v[3] /\ u[4] = w[1] /\ u[5] = w[2]
  OBVIOUS
<1> HIDE DEF u, v, w
<1>5. Len(u) = Len(v) + Len(w) /\ (\A j \in 1 .. Len(v) : u[j] = v[j])
      /\ \A j \in 1 .. Len(w) : u[Len(v) + j] = w[j]
  BY <1>3, <1>4
<1>6. u = Joined(v, w)
  BY <1>2, <1>5, ListIs
<1> QED BY <1>6 DEF Joined, u, v, w

LEMMA Split3And3 ==
    ASSUME NEW a, NEW b, NEW c, NEW d, NEW e, NEW f
    PROVE  <<a, b, c, d, e, f>> = <<a, b, c>> \o <<d, e, f>>
<1> DEFINE u == <<a, b, c, d, e, f>>
           v == <<a, b, c>>
           w == <<d, e, f>>
           S == {a, b, c, d, e, f}
<1>1. u \in Seq(S) /\ v \in Seq(S) /\ w \in Seq(S)
  OBVIOUS
<1>2. IsStack(u) /\ IsStack(v) /\ IsStack(w)
  BY <1>1 DEF IsStack
<1>3. Len(u) = 6 /\ Len(v) = 3 /\ Len(w) = 3
  OBVIOUS
<1>4. u[1] = v[1] /\ u[2] = v[2] /\ u[3] = v[3] /\ u[4] = w[1] /\ u[5] = w[2] /\ u[6] = w[3]
  OBVIOUS
<1> HIDE DEF u, v, w
<1>5. Len(u) = Len(v) + Len(w) /\ (\A j \in 1 .. Len(v) : u[j] = v[j])
      /\ \A j \in 1 .. Len(w) : u[Len(v) + j] = w[j]
  BY <1>3, <1>4
<1>6. u = Joined(v, w)
  BY <1>2, <1>5, ListIs
<1> QED BY <1>6 DEF Joined, u, v, w

LEMMA Split4And2 ==
    ASSUME NEW a, NEW b, NEW c, NEW d, NEW e, NEW f
    PROVE  <<a, b, c, d, e, f>> = <<a, b, c, d>> \o <<e, f>>
<1> DEFINE u == <<a, b, c, d, e, f>>
           v == <<a, b, c, d>>
           w == <<e, f>>
           S == {a, b, c, d, e, f}
<1>1. u \in Seq(S) /\ v \in Seq(S) /\ w \in Seq(S)
  OBVIOUS
<1>2. IsStack(u) /\ IsStack(v) /\ IsStack(w)
  BY <1>1 DEF IsStack
<1>3. Len(u) = 6 /\ Len(v) = 4 /\ Len(w) = 2
  OBVIOUS
<1>4. u[1] = v[1] /\ u[2] = v[2] /\ u[3] = v[3] /\ u[4] = v[4] /\ u[5] = w[1] /\ u[6] = w[2]
  OBVIOUS
<1> HIDE DEF u, v, w
<1>5. Len(u) = Len(v) + Len(w) /\ (\A j \in 1 .. Len(v) : u[j] = v[j])
      /\ \A j \in 1 .. Len(w) : u[Len(v) + j] = w[j]
  BY <1>3, <1>4
<1>6. u = Joined(v, w)
  BY <1>2, <1>5, ListIs
<1> QED BY <1>6 DEF Joined, u, v, w

LEMMA Regroup ==
    ASSUME NEW r, IsStack(r), NEW s, IsStack(s), NEW t, IsStack(t)
    PROVE  (r \o s) \o t = r \o (s \o t)
<1>1. PICK A : r \in Seq(A) /\ s \in Seq(A)
  BY OneAlphabet
<1>2. PICK B : t \in Seq(B)
  BY DEF IsStack
<1> DEFINE S == A \cup B
<1>3. A \subseteq S /\ B \subseteq S
  OBVIOUS
<1> HIDE DEF S
<1>4. r \in Seq(S) /\ s \in Seq(S) /\ t \in Seq(S)
  BY <1>1, <1>2, <1>3, SeqMonotonic
<1> QED BY <1>4, ConcatAssociative

(* x is pushed, with words that hold nothing before it and after it.         *)
LEMMA KeptPushAround ==
    ASSUME NEW t, IsStack(t), NEW c, NEW b, Kept(t, c, b),
           NEW v, Harmless(v), NEW w, Harmless(w), NEW x, x \notin {"more", "unit"},
           x \in Methods => Later(t, 0, {"fn_end"}), x = "no_struct" => c.no_struct,
           NEW c2, NEW b2, c.depth \in Int, c.loop_depth \in Int, b \in Int,
           c2.depth = c.depth + One(x, Levels), c2.loop_depth = c.loop_depth + One(x, Loops),
           b2 = b + One(x, Marks),
           c2.in_method => c.in_method \/ x = "fn_end",
           c2.in_stream => c.in_stream \/ x = "stream_end",
           c2.no_struct => c.no_struct \/ x \in Flags
    PROVE  LET u == v \o (<<x>> \o w) IN IsStack(u \o t) /\ Kept(u \o t, c2, b2)
<1>1. IsStack(v) /\ IsStack(w) /\ IsStack(<<x>>)
  BY TallyOne DEF Harmless
<1>2. IsStack(<<x>> \o w) /\ IsStack(w \o t)
  BY <1>1, ConcatIs
<1> DEFINE t1 == w \o t
           t2 == <<x>> \o t1
           t3 == v \o t2
<1>3. IsStack(t1) /\ Kept(t1, c, b)
  BY KeptPush
<1>4. x \in Methods => Later(t1, 0, {"fn_end"})
  <2>1. 0 \in Nat
    OBVIOUS
  <2> QED BY <1>1, <2>1, LaterConcat
<1> HIDE DEF t1
<1>5. IsStack(t2) /\ Kept(t2, c2, b2)
  <2>1. x # "more" /\ (x = "unit" => t1 = <<>>)
    OBVIOUS
  <2> QED BY <1>3, <1>4, <2>1, KeptPushOne
<1> HIDE DEF t2
<1>6. IsStack(t3) /\ Kept(t3, c2, b2)
  BY <1>5, KeptPush
<1> DEFINE q == <<x>> \o w
           u == v \o q
<1>7. u \o t = t3
  <2>1. q \o t = t2
    BY <1>1, Regroup DEF t1, t2
  <2>2. IsStack(q)
    BY <1>2
  <2> HIDE DEF q
  <2>3. IsStack(v) /\ IsStack(t)
    BY <1>1
  <2>4. (v \o q) \o t = v \o (q \o t)
    BY <2>2, <2>3, Regroup
  <2> QED BY <2>1, <2>4
<1> QED BY <1>6, <1>7

LEMMA HoldDo ==
    ASSUME StackInv, OnPlain, NEW v, Harmless(v), NEW w, Harmless(w),
           NEW x, x \notin {"more", "unit"} \cup Methods, x = "no_struct" => cx.no_struct,
           NEW u, u = v \o (<<x>> \o w), Do(u),
           cx' \in Contexts, cx'.depth <= MaxDepth, at' \in Nat, before' \in Seq(0 .. at'),
           cx'.depth = cx.depth + One(x, Levels), cx'.loop_depth = cx.loop_depth + One(x, Loops),
           Len(before') = Len(before) + One(x, Marks),
           cx'.in_method => cx.in_method \/ x = "fn_end",
           cx'.in_stream => cx.in_stream \/ x = "stream_end",
           cx'.no_struct => cx.no_struct \/ x \in Flags
    PROVE  StackInv'
<1> DEFINE t == Tail(todo)
           b == Len(before)
           c2 == cx'
           b2 == Len(before')
<1>1. IsStack(t) /\ Kept(t, cx, b)
  BY PlainPop
<1>2. cx.depth \in Int /\ cx.loop_depth \in Int /\ b \in Int
  BY DEF StackInv, Contexts
<1>3. /\ c2.depth = cx.depth + One(x, Levels) /\ c2.loop_depth = cx.loop_depth + One(x, Loops)
      /\ b2 = b + One(x, Marks)
      /\ c2.in_method => cx.in_method \/ x = "fn_end"
      /\ c2.in_stream => cx.in_stream \/ x = "stream_end"
      /\ c2.no_struct => cx.no_struct \/ x \in Flags
      /\ x \in Methods => Later(t, 0, {"fn_end"})
      /\ x \notin {"more", "unit"}
  OBVIOUS
<1>4. todo' = u \o t
  BY DEF Do
<1> HIDE DEF t, b, c2, b2
<1>5. IsStack(u \o t) /\ Kept(u \o t, c2, b2)
  BY <1>1, <1>2, <1>3, KeptPushAround
<1> QED BY <1>4, <1>5 DEF StackInv, c2, b2

LEMMA ReleaseDo ==
    ASSUME StackInv, NEW x, At(x), NEW w, Harmless(w), Do(w),
           cx' \in Contexts, cx'.depth <= MaxDepth, at' \in Nat, before' \in Seq(0 .. at'),
           cx'.depth = cx.depth - One(x, Levels), cx'.loop_depth = cx.loop_depth - One(x, Loops),
           Len(before') = Len(before) - One(x, Marks),
           cx'.in_method => (cx.in_method /\ x # "fn_end") \/ x \in Methods,
           cx'.in_stream => cx.in_stream /\ x # "stream_end",
           cx'.no_struct => x = "no_struct" \/ (cx.no_struct /\ x \notin Flags)
    PROVE  StackInv'
<1> DEFINE t == Tail(todo)
           b == Len(before)
           c2 == cx'
           b2 == Len(before')
<1>1. IsStack(todo) /\ todo # <<>> /\ x = Head(todo) /\ Kept(todo, cx, b)
  BY DEF StackInv, At
<1>2. cx.depth \in Int /\ cx.loop_depth \in Int /\ b \in Int
  BY DEF StackInv, Contexts
<1>3. /\ c2.depth = cx.depth - One(x, Levels) /\ c2.loop_depth = cx.loop_depth - One(x, Loops)
      /\ b2 = b - One(x, Marks)
      /\ c2.in_method => (cx.in_method /\ x # "fn_end") \/ x \in Methods
      /\ c2.in_stream => cx.in_stream /\ x # "stream_end"
      /\ c2.no_struct => x = "no_struct" \/ (cx.no_struct /\ x \notin Flags)
  OBVIOUS
<1>4. todo' = w \o t
  BY DEF Do
<1> HIDE DEF b, c2, b2
<1>5. IsStack(t) /\ Kept(t, c2, b2)
  BY <1>1, <1>2, <1>3, KeptPop
<1> HIDE DEF t
<1>6. IsStack(w \o t) /\ Kept(w \o t, c2, b2)
  BY <1>5, KeptPush
<1> QED BY <1>4, <1>6 DEF StackInv, c2, b2

LEMMA JustOne ==
    ASSUME NEW x
    PROVE  <<x>> \o <<>> = <<x>>
<1>1. <<x>> \in Seq({x})
  OBVIOUS
<1> QED BY <1>1, ConcatEmptySeq

(* What each of the words holds. *)
LEMMA HeldOnes ==
    /\ \A x \in Levels : One(x, Levels) = 1 /\ One(x, Loops) = 0 /\ One(x, Marks) = 0
    /\ \A x \in Loops : One(x, Levels) = 0 /\ One(x, Loops) = 1 /\ One(x, Marks) = 0
    /\ \A x \in Marks : One(x, Levels) = 0 /\ One(x, Loops) = 0 /\ One(x, Marks) = 1
    /\ \A x \in Flags \cup Methods \cup {"fn_end", "stream_end", "unit"} :
         One(x, Levels) = 0 /\ One(x, Loops) = 0 /\ One(x, Marks) = 0
BY DEF One, Levels, Loops, Marks, Flags, Methods

LEMMA DeeperIs ==
    ASSUME StackInv, cx.depth < MaxDepth
    PROVE  /\ Deeper \in Contexts /\ Deeper.depth = cx.depth + 1 /\ Deeper.depth <= MaxDepth
           /\ Deeper.loop_depth = cx.loop_depth /\ Deeper.in_method = cx.in_method
           /\ Deeper.in_stream = cx.in_stream /\ Deeper.no_struct = cx.no_struct
<1>1. cx \in Contexts /\ cx.depth \in Int /\ MaxDepth \in Nat
  BY ParserAssumption DEF StackInv, Contexts
<1> QED BY <1>1 DEF Deeper, Contexts

LEMMA DeeperDo ==
    ASSUME StackInv, OnPlain, cx.depth < MaxDepth, cx' = Deeper, before' = before, Moves,
           NEW v, Harmless(v), Do(v \o <<"leave">>)
    PROVE  StackInv'
<1>1. /\ cx' \in Contexts /\ cx'.depth = cx.depth + 1 /\ cx'.depth <= MaxDepth
      /\ cx'.loop_depth = cx.loop_depth /\ cx'.in_method = cx.in_method
      /\ cx'.in_stream = cx.in_stream /\ cx'.no_struct = cx.no_struct
      /\ cx.loop_depth \in Int /\ cx.depth \in Int /\ Len(before) \in Int
  BY DeeperIs DEF StackInv, Contexts
<1>2. at' \in Nat /\ before' \in Seq(0 .. at')
  BY MarksStay DEF StackInv
<1> DEFINE x == "leave"
           u == v \o (<<x>> \o <<>>)
<1>3. Do(u) /\ Harmless(<<>>)
  BY JustOne, NothingIsHarmless
<1>4. One(x, Levels) = 1 /\ One(x, Loops) = 0 /\ One(x, Marks) = 0
  BY HeldOnes DEF Levels
<1>5. x \notin {"more", "unit"} \cup Methods /\ x # "no_struct"
  BY DEF Methods
<1> HIDE DEF x
<1>6. /\ cx'.depth = cx.depth + One(x, Levels) /\ cx'.loop_depth = cx.loop_depth + One(x, Loops)
      /\ Len(before') = Len(before) + One(x, Marks)
      /\ cx'.in_method => cx.in_method \/ x = "fn_end"
      /\ cx'.in_stream => cx.in_stream \/ x = "stream_end"
      /\ cx'.no_struct => cx.no_struct \/ x \in Flags
  BY <1>1, <1>4
<1> QED BY <1>1, <1>2, <1>3, <1>5, <1>6, HoldDo

LEMMA EnterKeeps ==
    ASSUME StackInv, OnPlain, NEW v, Harmless(v), Enter(v \o <<"leave">>)
    PROVE  StackInv'
<1>1. CASE cx.depth >= MaxDepth
  BY <1>1, PlainChoices, NothingIsHarmless DEF Enter
<1>2. CASE ~ cx.depth >= MaxDepth
  <2>1. cx.depth < MaxDepth
    BY <1>2, ParserAssumption DEF StackInv, Contexts
  <2>2. Do(v \o <<"leave">>) /\ cx' = Deeper /\ before' = before /\ Moves
    BY <1>2 DEF Enter, GoIn, input, Moves
  <2> QED BY <2>1, <2>2, DeeperDo
<1> QED BY <1>1, <1>2

LEMMA ExprKeeps ==
    ASSUME StackInv, Expr
    PROVE  StackInv'
<1>1. OnPlain
  <2>1. "expr" \in PlainWords
    BY DEF PlainWords
  <2> QED BY <2>1, AtPlain DEF Expr
<1> QED BY <1>1, EnterKeeps, LevelsAreHarmless DEF Expr

LEMMA TypeRefKeeps ==
    ASSUME StackInv, TypeRef
    PROVE  StackInv'
<1>1. OnPlain
  <2>1. /\ "type" \in PlainWords /\ "base_type" \in PlainWords /\ "types" \in PlainWords
        /\ "type_args" \in PlainWords /\ "type_arg" \in PlainWords /\ "optional" \in PlainWords
        /\ "returns" \in PlainWords /\ "fallible" \in PlainWords
    BY DEF PlainWords
  <2> QED BY <2>1, AtPlain DEF TypeRef
<1>2. /\ <<"base_type", "optional">> \in Seq(PlainWords)
      /\ <<"type", "RBRACKET">> \in Seq(PlainWords)
      /\ <<"type", "COLON", "type", "RBRACE">> \in Seq(PlainWords)
      /\ <<"LPAREN", "skip_newlines", "types", "RPAREN", "returns">> \in Seq(PlainWords)
      /\ <<"type", "RPAREN">> \in Seq(PlainWords)
      /\ <<"path", "type_args">> \in Seq(PlainWords)
      /\ <<"type_args">> \in Seq(PlainWords)
      /\ <<"type_arg", "RBRACKET">> \in Seq(PlainWords)
      /\ <<"type", "fallible">> \in Seq(PlainWords)
  BY DEF PlainWords
<1>3. /\ Harmless(<<"base_type", "optional">>)
      /\ Harmless(<<"type", "RBRACKET">>)
      /\ Harmless(<<"type", "COLON", "type", "RBRACE">>)
      /\ Harmless(<<"LPAREN", "skip_newlines", "types", "RPAREN", "returns">>)
      /\ Harmless(<<"type", "RPAREN">>)
      /\ Harmless(<<"path", "type_args">>)
      /\ Harmless(<<"type_args">>)
      /\ Harmless(<<"type_arg", "RBRACKET">>)
      /\ Harmless(<<"type", "fallible">>)
  BY <1>2, HarmlessList
<1>4. CASE Enter(<<"base_type", "optional", "leave">>)
  <2>1. <<"base_type", "optional", "leave">> = <<"base_type", "optional">> \o <<"leave">>
    BY Split2And1
  <2>2. Enter(<<"base_type", "optional">> \o <<"leave">>)
    BY <1>4, <2>1
  <2> QED BY <1>1, <1>3, <2>2, EnterKeeps
<1>5. CASE ~ Enter(<<"base_type", "optional", "leave">>)
  BY <1>1, <1>3, <1>5, LoopsAreHarmless, NothingIsHarmless, PlainSteps, PlainChoices DEF TypeRef
<1> QED BY <1>4, <1>5

(* The same, where no mark is made. *)
LEMMA HoldKeeps ==
    ASSUME StackInv, OnPlain, NEW v, Harmless(v), NEW w, Harmless(w),
           NEW x \in Levels \cup Loops \cup Flags \cup {"fn_end", "stream_end"},
           x = "no_struct" => cx.no_struct,
           NEW u, u = v \o (<<x>> \o w), Do(u),
           cx' \in Contexts, cx'.depth <= MaxDepth, Moves, before' = before,
           cx'.depth = cx.depth + One(x, Levels), cx'.loop_depth = cx.loop_depth + One(x, Loops),
           cx'.in_method => cx.in_method \/ x = "fn_end",
           cx'.in_stream => cx.in_stream \/ x = "stream_end",
           cx'.no_struct => cx.no_struct \/ x \in Flags
    PROVE  StackInv'
<1>1. at' \in Nat /\ before' \in Seq(0 .. at')
  BY MarksStay DEF StackInv
<1>2. x \notin {"more", "unit"} \cup Methods
  BY DEF Levels, Loops, Flags, Methods
<1>3. Len(before') = Len(before) + One(x, Marks)
  <2>1. One(x, Marks) = 0 /\ Len(before) \in Nat
    BY HeldOnes DEF StackInv
  <2> QED BY <2>1
<1> QED BY <1>1, <1>2, <1>3, HoldDo

LEMMA SavedIs ==
    Saved \in Flags /\ (Saved = "no_struct" => cx.no_struct)
    /\ One(Saved, Levels) = 0 /\ One(Saved, Loops) = 0
BY HeldOnes DEF Saved, Flags

LEMMA GroupKeeps ==
    ASSUME StackInv, OnPlain,
           EatIn([cx EXCEPT !.no_struct = FALSE],
                 <<"skip_newlines", "expr", "skip_newlines", Saved, "RPAREN", "postfix">>)
    PROVE  StackInv'
<1> DEFINE v == <<"skip_newlines", "expr", "skip_newlines">>
           w == <<"RPAREN", "postfix">>
           x == Saved
           u == <<"skip_newlines", "expr", "skip_newlines", Saved, "RPAREN", "postfix">>
<1>1. u = v \o (<<x>> \o w)
  <2>1. u = v \o <<Saved, "RPAREN", "postfix">>
    BY Split3And3
  <2>2. <<Saved, "RPAREN", "postfix">> = <<x>> \o w
    BY Split1And2
  <2> HIDE DEF u, v, w, x
  <2> QED BY <2>1, <2>2, Zenon
<1>2. v \in Seq(PlainWords) /\ w \in Seq(PlainWords)
  BY DEF PlainWords
<1>3. Harmless(v) /\ Harmless(w)
  BY <1>2, HarmlessList
<1>4. Do(u) /\ Moves /\ before' = before /\ cx' = [cx EXCEPT !.no_struct = FALSE]
  BY TakeMoves DEF EatIn, Take
<1>5. /\ cx' \in Contexts /\ cx'.depth = cx.depth /\ cx'.depth <= MaxDepth
      /\ cx'.loop_depth = cx.loop_depth /\ cx'.in_method = cx.in_method
      /\ cx'.in_stream = cx.in_stream /\ ~ cx'.no_struct
      /\ cx.loop_depth \in Int /\ cx.depth \in Int
  BY <1>4 DEF StackInv, Contexts
<1>6. x \in Flags /\ (x = "no_struct" => cx.no_struct) /\ One(x, Levels) = 0 /\ One(x, Loops) = 0
  BY SavedIs
<1> HIDE DEF u, v, w, x
<1>7. cx'.depth = cx.depth + One(x, Levels) /\ cx'.loop_depth = cx.loop_depth + One(x, Loops)
  BY <1>5, <1>6
<1> QED BY <1>1, <1>3, <1>4, <1>5, <1>6, <1>7, HoldKeeps

LEMMA PrimaryKeeps ==
    ASSUME StackInv, Primary
    PROVE  StackInv'
<1>1. OnPlain
  <2>1. "primary" \in PlainWords
    BY DEF PlainWords
  <2> QED BY <2>1, AtPlain DEF Primary
<1>2. /\ <<"postfix">> \in Seq(PlainWords)
      /\ <<"string", "postfix">> \in Seq(PlainWords)
      /\ <<"path", "path_postfix">> \in Seq(PlainWords)
      /\ <<"name", "postfix">> \in Seq(PlainWords)
      /\ <<"skip_newlines", "elements", "RBRACKET", "postfix">> \in Seq(PlainWords)
      /\ <<"skip_newlines", "entries", "RBRACE", "postfix">> \in Seq(PlainWords)
      /\ <<"lambda_body", "postfix">> \in Seq(PlainWords)
      /\ <<"element_entering", "postfix">> \in Seq(PlainWords)
      /\ <<"drop", "postfix">> \in Seq(PlainWords)
  BY DEF PlainWords
<1>3. /\ Harmless(<<"postfix">>)
      /\ Harmless(<<"string", "postfix">>)
      /\ Harmless(<<"path", "path_postfix">>)
      /\ Harmless(<<"name", "postfix">>)
      /\ Harmless(<<"skip_newlines", "elements", "RBRACKET", "postfix">>)
      /\ Harmless(<<"skip_newlines", "entries", "RBRACE", "postfix">>)
      /\ Harmless(<<"lambda_body", "postfix">>)
      /\ Harmless(<<"element_entering", "postfix">>)
      /\ Harmless(<<"drop", "postfix">>)
  BY <1>2, HarmlessList
<1>4. Harmless(Signature \o <<"lambda_body", "postfix">>)
  BY <1>3, SignatureIsHarmless, HarmlessConcat
<1> QED BY <1>1, <1>3, <1>4, PlainSteps, GroupKeeps DEF Primary

LEMMA Replaced ==
    ASSUME NEW T, NEW t \in Seq(T), NEW n \in 1 .. Len(t), NEW x \in T
    PROVE  LET q == [t EXCEPT ![n] = x] IN
           /\ q \in Seq(T) /\ Len(q) = Len(t)
           /\ \A j \in 1 .. Len(t) : q[j] = IF j = n THEN x ELSE t[j]
<1>1. [t EXCEPT ![n] = x] \in Seq(T)
  BY ExceptSeq
<1>2. Len([t EXCEPT ![n] = x]) = Len(t)
  BY ExceptSeq
<1>3. \A j \in 1 .. Len(t) : [t EXCEPT ![n] = x][j] = IF j = n THEN x ELSE t[j]
  BY ExceptSeq
<1> QED BY <1>1, <1>2, <1>3

Swapped(t, n, x) == [t EXCEPT ![n] = x]

LEMMA SwapIs ==
    ASSUME NEW t, IsStack(t), NEW n \in 1 .. Len(t), NEW x, NEW s, s = Swapped(t, n, x)
    PROVE  IsStack(s) /\ Len(s) = Len(t) /\ \A j \in 1 .. Len(t) : s[j] = IF j = n THEN x ELSE t[j]
<1>1. PICK S : t \in Seq(S)
  BY DEF IsStack
<1> DEFINE T == S \cup {x}
<1>2. t \in Seq(T) /\ x \in T
  <2>1. S \subseteq T
    OBVIOUS
  <2> HIDE DEF T
  <2>2. t \in Seq(T)
    BY <1>1, <2>1, SeqMonotonic
  <2> QED BY <2>2 DEF T
<1> HIDE DEF T
<1>3. s \in Seq(T) /\ Len(s) = Len(t) /\ \A j \in 1 .. Len(t) : s[j] = IF j = n THEN x ELSE t[j]
  BY <1>2, Replaced DEF Swapped
<1>4. IsStack(s)
  BY <1>3 DEF IsStack
<1> QED BY <1>3, <1>4

(* Words that hold nothing may take each other's places. *)
LEMMA SwapKeeps ==
    ASSUME StackInv, OnPlain, NEW n \in 1 .. Len(Tail(todo)), Plain(Tail(todo)[n]),
           NEW x, Plain(x), todo' = Swapped(Tail(todo), n, x),
           UNCHANGED <<at, cx, before>>
    PROVE  StackInv'
<1> DEFINE t == Tail(todo)
           s == todo'
<1>1. IsStack(t) /\ Kept(t, cx, Len(before))
  BY PlainPop
<1>2. IsStack(s) /\ Len(s) = Len(t) /\ Len(t) \in Nat
      /\ \A j \in 1 .. Len(t) : s[j] = IF j = n THEN x ELSE t[j]
  <2>1. IsStack(t) /\ n \in 1 .. Len(t) /\ s = Swapped(t, n, x)
    BY <1>1
  <2> HIDE DEF t, s
  <2>2. IsStack(s) /\ Len(s) = Len(t) /\ \A j \in 1 .. Len(t) : s[j] = IF j = n THEN x ELSE t[j]
    BY <2>1, SwapIs
  <2> QED BY <2>1, <2>2, StackHasLen
<1>3. n \in 1 .. Len(t) /\ Plain(t[n])
  OBVIOUS
<1> HIDE DEF t, s
<1>4. \A j \in 1 .. Len(t) : s[j] = t[j] \/ (j = n /\ Plain(s[j]) /\ Plain(t[j]))
  BY <1>2, <1>3
<1>5. \A j \in 1 .. Len(t) : \A y \in Held \cup {"more"} : s[j] = y <=> t[j] = y
  BY <1>4 DEF Plain
<1>6. \A W \in SUBSET Held : \A j \in 1 .. Len(t) : s[j] \in W <=> t[j] \in W
  BY <1>4 DEF Plain
<1>7. \A W \in SUBSET Held : Tally(s, W) = Tally(t, W)
  <2> SUFFICES ASSUME NEW W \in SUBSET Held PROVE Tally(s, W) = Tally(t, W)
    OBVIOUS
  <2>1. {j \in 1 .. Len(s) : s[j] \in W} = {j \in 1 .. Len(t) : t[j] \in W}
    BY <1>2, <1>6
  <2> QED BY <2>1 DEF Tally
<1>8. \A W \in SUBSET Held : \A j \in 0 .. Len(t) : Later(t, j, W) => Later(s, j, W)
  BY <1>2, <1>6 DEF Later
<1>9. /\ Levels \in SUBSET Held /\ Loops \in SUBSET Held /\ Marks \in SUBSET Held /\ Flags \in SUBSET Held
      /\ Methods \in SUBSET Held /\ {"fn_end"} \in SUBSET Held /\ {"stream_end"} \in SUBSET Held
      /\ "unit" \in Held /\ "no_struct" \in Held
  BY DEF Held, Flags
<1>10. GoesOn(s)
  <2> SUFFICES ASSUME NEW j \in 1 .. Len(s), s[j] = "more" PROVE j < Len(s) /\ Plain(s[j + 1])
    BY DEF GoesOn
  <2>1. j \in 1 .. Len(t) /\ t[j] = "more"
    BY <1>2, <1>5
  <2>2. j < Len(t) /\ Plain(t[j + 1])
    BY <1>1, <2>1 DEF Kept, GoesOn
  <2>3. j + 1 \in 1 .. Len(t)
    BY <1>2, <2>1, <2>2
  <2>4. s[j + 1] = t[j + 1] \/ Plain(s[j + 1])
    BY <1>4, <2>3
  <2> QED BY <1>2, <2>2, <2>4
<1>11. Kept(s, cx, Len(before))
  <2>1. cx.depth = Tally(s, Levels) /\ cx.loop_depth = Tally(s, Loops) /\ Len(before) = Tally(s, Marks)
    BY <1>1, <1>7, <1>9 DEF Kept
  <2>2. \A j \in 1 .. Len(s) : s[j] = "unit" => j = Len(s)
    BY <1>1, <1>2, <1>5, <1>9 DEF Kept
  <2>3. \A j \in 1 .. Len(s) : s[j] \in Methods => Later(s, j, {"fn_end"})
    <3>1. \A j \in 1 .. Len(t) : t[j] \in Methods => Later(t, j, {"fn_end"})
      BY <1>1 DEF Kept
    <3> QED BY <1>2, <1>6, <1>8, <1>9, <3>1
  <2>4. \A j \in 1 .. Len(s) : s[j] = "no_struct" => Later(s, j, Flags)
    <3>1. \A j \in 1 .. Len(t) : t[j] = "no_struct" => Later(t, j, Flags)
      BY <1>1 DEF Kept
    <3> QED BY <1>2, <1>5, <1>8, <1>9, <3>1
  <2>5. /\ cx.in_method => Later(s, 0, {"fn_end"})
        /\ cx.in_stream => Later(s, 0, {"stream_end"})
        /\ cx.no_struct => Later(s, 0, Flags)
    <3>1. /\ cx.in_method => Later(t, 0, {"fn_end"})
          /\ cx.in_stream => Later(t, 0, {"stream_end"})
          /\ cx.no_struct => Later(t, 0, Flags)
      BY <1>1 DEF Kept
    <3>2. 0 \in 0 .. Len(t)
      BY <1>2
    <3> QED BY <1>8, <1>9, <3>1, <3>2
  <2> QED BY <1>10, <2>1, <2>2, <2>3, <2>4, <2>5 DEF Kept
<1>12. IsStack(todo') /\ Kept(todo', cx, Len(before))
  BY <1>2, <1>11 DEF s
<1> QED BY <1>12 DEF StackInv

LEMMA UngroupIs ==
    ASSUME IsStack(todo), todo # <<>>, InGroup
    PROVE  12 \in 1 .. Len(Tail(todo)) /\ Tail(todo)[12] = "postfix"
<1> DEFINE t == Tail(todo)
<1>1. IsStack(todo) /\ todo # <<>>
  OBVIOUS
<1>2. PICK S : todo \in Seq(S)
  BY <1>1 DEF IsStack
<1>3. Len(todo) > 12 /\ SubSeq(todo, 12, 13) = <<"RPAREN", "postfix">> /\ Len(todo) \in Nat
  BY <1>2 DEF InGroup
<1>4. todo[13] = "postfix"
  <2>1. SubSeq(todo, 12, 13)[2] = todo[13]
    BY <1>2, <1>3
  <2>2. <<"RPAREN", "postfix">>[2] = "postfix"
    OBVIOUS
  <2>3. SubSeq(todo, 12, 13)[2] = "postfix"
    BY <1>3, <2>2, Zenon
  <2> QED BY <2>1, <2>3
<1>5. Len(t) = Len(todo) - 1 /\ \A j \in 1 .. Len(todo) - 1 : t[j] = todo[j + 1]
  BY <1>1, TailIs
<1>6. 12 \in 1 .. Len(todo) - 1
  BY <1>3
<1>7. t[12] = todo[12 + 1]
  BY <1>5, <1>6
<1> QED BY <1>4, <1>5, <1>6, <1>7

LEMMA UngroupKeeps ==
    ASSUME StackInv, OnPlain, InGroup, Ungroup
    PROVE  StackInv'
<1> DEFINE t == Tail(todo)
<1>1. IsStack(todo) /\ todo # <<>>
  BY DEF StackInv, OnPlain
<1>5. 12 \in 1 .. Len(t) /\ t[12] = "postfix"
  BY <1>1, UngroupIs
<1>6. Plain("postfix") /\ Plain("path_postfix")
  <2>1. "postfix" \in PlainWords /\ "path_postfix" \in PlainWords
    BY DEF PlainWords
  <2> QED BY <2>1, WordsArePlain
<1>7. todo' = [t EXCEPT ![12] = "path_postfix"] /\ UNCHANGED <<at, cx, before>>
  BY DEF Ungroup, input
<1> DEFINE n == 12
           x == "path_postfix"
<1>8. n \in 1 .. Len(Tail(todo)) /\ Plain(Tail(todo)[n]) /\ Plain(x)
      /\ todo' = Swapped(Tail(todo), n, x)
  BY <1>5, <1>6, <1>7 DEF Swapped
<1> HIDE DEF n, x, t
<1> QED BY <1>7, <1>8, SwapKeeps

LEMMA PostfixKeeps ==
    ASSUME StackInv, Postfix
    PROVE  StackInv'
<1>1. OnPlain
  <2>1. "path_postfix" \in PlainWords /\ "postfix" \in PlainWords
    BY DEF PlainWords
  <2> QED BY <2>1, AtPlain DEF Postfix
<1>2. /\ <<"name", "postfix">> \in Seq(PlainWords)
      /\ <<"skip_newlines", "indexes", "RBRACKET", "postfix">> \in Seq(PlainWords)
      /\ <<"skip_newlines", "args", "RPAREN", "postfix">> \in Seq(PlainWords)
      /\ <<"postfix">> \in Seq(PlainWords)
      /\ <<"LBRACE">> \in Seq(PlainWords)
      /\ Fields \in Seq(PlainWords)
  BY DEF PlainWords, Fields
<1>3. /\ Harmless(<<"name", "postfix">>)
      /\ Harmless(<<"skip_newlines", "indexes", "RBRACKET", "postfix">>)
      /\ Harmless(<<"skip_newlines", "args", "RPAREN", "postfix">>)
      /\ Harmless(<<"postfix">>)
      /\ Harmless(<<"LBRACE">>)
      /\ Harmless(Fields)
  BY <1>2, HarmlessList
<1>4. Harmless(<<"LBRACE">> \o Fields)
  BY <1>3, HarmlessConcat
<1> QED BY <1>1, <1>3, <1>4, NothingIsHarmless, PlainSteps, UngroupKeeps DEF Postfix

(* An element takes a level and the flag, and gives both back.               *)
LEMMA ElementKeeps ==
    ASSUME StackInv, Element
    PROVE  StackInv'
<1>1. OnPlain
  <2>1. "element_entering" \in PlainWords /\ "element_nested" \in PlainWords
    BY DEF PlainWords
  <2> QED BY <2>1, AtPlain DEF Element
<1>2. CASE TooDeep
  BY <1>1, <1>2, PlainChoices, NothingIsHarmless
<1>3. CASE ~ TooDeep
  <2>1. ~ cx.depth >= MaxDepth /\ Do(Tag) /\ cx' = InTag /\ before' = before /\ at' = at
    BY <1>3 DEF Element
  <2>2. cx.depth < MaxDepth /\ cx \in Contexts
    BY <2>1, ParserAssumption DEF StackInv, Contexts
  <2> DEFINE t == Tail(todo)
             b == Len(before)
             c1 == [cx EXCEPT !.no_struct = FALSE]
             c2 == cx'
             x1 == Saved
             x2 == "end_element"
             v == <<"advance", "tag_name", "attributes", "tag_end">>
             t1 == <<x1>> \o t
             t2 == <<x2>> \o t1
  <2>3. /\ c1 \in Contexts /\ c1.depth = cx.depth /\ c1.loop_depth = cx.loop_depth
        /\ c1.in_method = cx.in_method /\ c1.in_stream = cx.in_stream /\ ~ c1.no_struct
        /\ c1.depth \in Int /\ c1.loop_depth \in Int /\ cx.depth \in Int /\ cx.loop_depth \in Int
    BY <2>2 DEF Contexts
  <2>4. /\ c2 \in Contexts /\ c2.depth = cx.depth + 1 /\ c2.depth <= MaxDepth
        /\ c2.loop_depth = cx.loop_depth /\ c2.in_method = cx.in_method
        /\ c2.in_stream = cx.in_stream /\ ~ c2.no_struct
    <3>1. cx' = [Deeper EXCEPT !.no_struct = FALSE]
      BY <2>1 DEF InTag
    <3> QED BY <2>2, <3>1, DeeperIs DEF Contexts
  <2>5. b \in Nat /\ at \in Nat /\ before \in Seq(0 .. at)
    BY DEF StackInv
  <2>6. IsStack(t) /\ Kept(t, cx, b)
    BY <1>1, PlainPop
  <2>7. x1 \in Flags /\ (x1 = "no_struct" => cx.no_struct) /\ One(x1, Levels) = 0 /\ One(x1, Loops) = 0
        /\ One(x1, Marks) = 0
    BY SavedIs, HeldOnes
  <2>8. One(x2, Levels) = 1 /\ One(x2, Loops) = 0 /\ One(x2, Marks) = 0
    BY HeldOnes DEF Levels
  <2>9. x2 \notin Flags \cup Methods \cup {"more", "unit"} /\ x1 \notin Methods \cup {"more", "unit"}
        /\ x2 # "no_struct"
    BY <2>7 DEF Flags, Methods
  <2> HIDE DEF t, b, c1, c2, x1, x2
  <2>10. IsStack(t1) /\ Kept(t1, c1, b)
    <3>1. /\ c1.depth = cx.depth + One(x1, Levels) /\ c1.loop_depth = cx.loop_depth + One(x1, Loops)
          /\ b = b + One(x1, Marks) /\ b \in Int
          /\ c1.in_method => cx.in_method \/ x1 = "fn_end"
          /\ c1.in_stream => cx.in_stream \/ x1 = "stream_end"
          /\ c1.no_struct => cx.no_struct \/ x1 \in Flags
          /\ x1 # "more" /\ (x1 = "unit" => t = <<>>)
          /\ x1 \in Methods => Later(t, 0, {"fn_end"})
      BY <2>3, <2>5, <2>7, <2>9
    <3> QED BY <2>3, <2>6, <2>7, <3>1, KeptPushOne
  <2> HIDE DEF t1
  <2>11. IsStack(t2) /\ Kept(t2, c2, b)
    <3>1. /\ c2.depth = c1.depth + One(x2, Levels) /\ c2.loop_depth = c1.loop_depth + One(x2, Loops)
          /\ b = b + One(x2, Marks) /\ b \in Int
          /\ c2.in_method => c1.in_method \/ x2 = "fn_end"
          /\ c2.in_stream => c1.in_stream \/ x2 = "stream_end"
          /\ c2.no_struct => c1.no_struct \/ x2 \in Flags
          /\ x2 # "more" /\ (x2 = "unit" => t1 = <<>>)
          /\ x2 \in Methods => Later(t1, 0, {"fn_end"})
          /\ x2 = "no_struct" => c1.no_struct
      BY <2>3, <2>4, <2>5, <2>8, <2>9
    <3> QED BY <2>3, <2>10, <3>1, KeptPushOne
  <2>12. Harmless(v)
    <3>1. v \in Seq(PlainWords)
      BY DEF PlainWords
    <3> QED BY <3>1, HarmlessList
  <2>13. Tag \o t = v \o t2
    <3>1. Tag = v \o <<x2, x1>>
      BY Split4And2 DEF Tag, x1, x2
    <3>2. <<x2, x1>> = <<x2>> \o <<x1>>
      BY Split1And1
    <3>3. IsStack(<<x2>>) /\ IsStack(<<x1>>) /\ IsStack(v)
      BY <2>12, TallyOne DEF Harmless
    <3> DEFINE p == <<x2>>
               q == <<x1>>
               r == <<x2, x1>>
    <3> HIDE DEF p, q, r, v
    <3>4. Tag = v \o r /\ r = p \o q /\ IsStack(p) /\ IsStack(q) /\ IsStack(v) /\ IsStack(t)
      BY <2>6, <3>1, <3>2, <3>3 DEF p, q, r
    <3>5. IsStack(r)
      BY <3>4, ConcatIs
    <3>a. IsStack(v) /\ IsStack(r) /\ IsStack(t) /\ IsStack(p) /\ IsStack(q)
      BY <3>4, <3>5
    <3>6. (v \o r) \o t = v \o (r \o t)
      BY <3>a, Regroup
    <3>7. (p \o q) \o t = p \o (q \o t)
      BY <3>a, Regroup
    <3>8. p \o (q \o t) = t2
      BY DEF p, q, t1, t2
    <3>9. r \o t = t2
      BY <3>4, <3>7, <3>8
    <3> QED BY <3>4, <3>6, <3>9
  <2>14. todo' = Tag \o t
    BY <2>1 DEF Do, t
  <2> HIDE DEF t2, v
  <2>15. IsStack(v \o t2) /\ Kept(v \o t2, c2, b)
    BY <2>11, <2>12, KeptPush
  <2> QED BY <2>1, <2>4, <2>5, <2>13, <2>14, <2>15 DEF StackInv, c2, b
<1> QED BY <1>2, <1>3

(* What a step that only releases a word of the context leaves alone. *)
LEMMA ReleaseKeeps ==
    ASSUME StackInv, NEW x \in Held \ Marks, At(x), NEW w, Harmless(w), Do(w),
           cx' \in Contexts, cx'.depth <= MaxDepth, Moves, before' = before,
           cx'.depth = cx.depth - One(x, Levels), cx'.loop_depth = cx.loop_depth - One(x, Loops),
           cx'.in_method => (cx.in_method /\ x # "fn_end") \/ x \in Methods,
           cx'.in_stream => cx.in_stream /\ x # "stream_end",
           cx'.no_struct => x = "no_struct" \/ (cx.no_struct /\ x \notin Flags)
    PROVE  StackInv'
<1>1. at' \in Nat /\ before' \in Seq(0 .. at')
  BY MarksStay DEF StackInv
<1>2. Len(before') = Len(before) - One(x, Marks)
  <2>1. One(x, Marks) = 0 /\ Len(before) \in Nat
    BY DEF One, StackInv
  <2> QED BY <2>1
<1> QED BY <1>1, <1>2, ReleaseDo

LEMMA LeaveKeeps ==
    ASSUME StackInv, NEW x \in Levels, At(x), GoIn([cx EXCEPT !.depth = @ - 1], <<>>)
    PROVE  StackInv'
<1>1. Do(<<>>) /\ cx' = [cx EXCEPT !.depth = @ - 1] /\ before' = before /\ Moves
  BY DEF GoIn, input, Moves
<1>2. cx \in Contexts /\ cx.depth \in Int /\ cx.depth <= MaxDepth /\ MaxDepth \in Nat
      /\ cx.loop_depth \in Int
  BY ParserAssumption DEF StackInv, Contexts
<1>3. /\ cx' \in Contexts /\ cx'.depth = cx.depth - 1 /\ cx'.depth <= MaxDepth
      /\ cx'.loop_depth = cx.loop_depth /\ cx'.in_method = cx.in_method
      /\ cx'.in_stream = cx.in_stream /\ cx'.no_struct = cx.no_struct
  BY <1>1, <1>2 DEF Contexts
<1>4. One(x, Levels) = 1 /\ One(x, Loops) = 0
  BY HeldOnes
<1>5. x \in Held \ Marks /\ x \notin Flags \cup {"fn_end", "stream_end"}
  BY DEF Levels, Held, Marks, Flags
<1>6. cx'.depth = cx.depth - One(x, Levels) /\ cx'.loop_depth = cx.loop_depth - One(x, Loops)
  BY <1>2, <1>3, <1>4
<1> QED BY <1>1, <1>3, <1>5, <1>6, NothingIsHarmless, ReleaseKeeps

LEMMA DepthLeaveKeeps ==
    ASSUME StackInv, DepthLeave \/ EndElement
    PROVE  StackInv'
<1>1. "leave" \in Levels /\ "end_element" \in Levels
  BY DEF Levels
<1> QED BY <1>1, LeaveKeeps DEF DepthLeave, EndElement

LEMMA RestoreKeeps ==
    ASSUME StackInv, Restore
    PROVE  StackInv'
<1>1. PICK x \in Flags : At(x) /\ GoIn([cx EXCEPT !.no_struct = x = "no_struct"], <<>>)
  BY DEF Restore, Flags
<1>2. Do(<<>>) /\ cx' = [cx EXCEPT !.no_struct = x = "no_struct"] /\ before' = before /\ Moves
  BY <1>1 DEF GoIn, input, Moves
<1>3. cx \in Contexts /\ cx.depth \in Int /\ cx.depth <= MaxDepth /\ cx.loop_depth \in Int
  BY DEF StackInv, Contexts
<1>4. /\ cx' \in Contexts /\ cx'.depth = cx.depth
      /\ cx'.loop_depth = cx.loop_depth /\ cx'.in_method = cx.in_method
      /\ cx'.in_stream = cx.in_stream /\ cx'.no_struct = (x = "no_struct")
  BY <1>2, <1>3, (x = "no_struct") \in BOOLEAN DEF Contexts
<1>5. One(x, Levels) = 0 /\ One(x, Loops) = 0
  BY HeldOnes
<1>6. x \in Held \ Marks /\ x \notin {"fn_end", "stream_end"}
  BY DEF Held, Marks, Flags
<1>7. cx'.depth = cx.depth - One(x, Levels) /\ cx'.loop_depth = cx.loop_depth - One(x, Loops)
  BY <1>3, <1>4, <1>5
<1>8. cx'.no_struct => x = "no_struct"
  BY <1>4
<1> QED BY <1>1, <1>2, <1>3, <1>4, <1>6, <1>7, <1>8, NothingIsHarmless, ReleaseKeeps

LEMMA CondKeeps ==
    ASSUME StackInv, Cond
    PROVE  StackInv'
<1>1. OnPlain
  <2>1. "cond" \in PlainWords
    BY DEF PlainWords
  <2> QED BY <2>1, AtPlain DEF Cond
<1> DEFINE v == <<"expr">>
           x == Saved
           u == <<"expr", Saved>>
<1>2. Do(u) /\ cx' = [cx EXCEPT !.no_struct = TRUE] /\ before' = before /\ Moves
  BY DEF Cond, GoIn, input, Moves
<1>3. u = v \o (<<x>> \o <<>>)
  BY Split1And1, JustOne
<1>4. Harmless(v)
  <2>1. v \in Seq(PlainWords)
    BY DEF PlainWords
  <2> QED BY <2>1, HarmlessList
<1>5. x \in Flags /\ (x = "no_struct" => cx.no_struct) /\ One(x, Levels) = 0 /\ One(x, Loops) = 0
  BY SavedIs
<1> HIDE DEF u, v, x
<1>6. /\ cx' \in Contexts /\ cx'.depth = cx.depth /\ cx'.depth <= MaxDepth
      /\ cx'.loop_depth = cx.loop_depth /\ cx'.in_method = cx.in_method
      /\ cx'.in_stream = cx.in_stream /\ cx.depth \in Int /\ cx.loop_depth \in Int
  BY <1>2 DEF StackInv, Contexts
<1>7. cx'.depth = cx.depth + One(x, Levels) /\ cx'.loop_depth = cx.loop_depth + One(x, Loops)
  BY <1>5, <1>6
<1> QED BY <1>1, <1>2, <1>3, <1>4, <1>5, <1>6, <1>7, NothingIsHarmless, HoldKeeps

LEMMA LoopBodyKeeps ==
    ASSUME StackInv, LoopBody
    PROVE  StackInv'
<1>0. cx \in Contexts /\ cx.depth \in Int /\ cx.depth <= MaxDepth /\ cx.loop_depth \in Int
  BY DEF StackInv, Contexts
<1>1. CASE At("loop_body") /\ GoIn([cx EXCEPT !.loop_depth = @ + 1], <<"block", "loop_end">>)
  <2>1. OnPlain
    <3>1. "loop_body" \in PlainWords
      BY DEF PlainWords
    <3> QED BY <1>1, <3>1, AtPlain
  <2> DEFINE v == <<"block">>
             x == "loop_end"
             u == <<"block", "loop_end">>
  <2>2. Do(u) /\ cx' = [cx EXCEPT !.loop_depth = @ + 1] /\ before' = before /\ Moves
    BY <1>1 DEF GoIn, input, Moves
  <2>3. u = v \o (<<x>> \o <<>>)
    BY Split1And1, JustOne
  <2>4. Harmless(v)
    <3>1. v \in Seq(PlainWords)
      BY DEF PlainWords
    <3> QED BY <3>1, HarmlessList
  <2>5. x \in Loops /\ x # "no_struct" /\ One(x, Levels) = 0 /\ One(x, Loops) = 1
    BY HeldOnes DEF Loops
  <2> HIDE DEF u, v, x
  <2>6. /\ cx' \in Contexts /\ cx'.depth = cx.depth
        /\ cx'.loop_depth = cx.loop_depth + 1 /\ cx'.in_method = cx.in_method
        /\ cx'.in_stream = cx.in_stream /\ cx'.no_struct = cx.no_struct
    BY <1>0, <2>2 DEF Contexts
  <2>7. cx'.depth = cx.depth + One(x, Levels) /\ cx'.loop_depth = cx.loop_depth + One(x, Loops)
    BY <1>0, <2>5, <2>6
  <2> QED BY <1>0, <2>1, <2>2, <2>3, <2>4, <2>5, <2>6, <2>7, NothingIsHarmless, HoldKeeps
<1>2. CASE At("loop_end") /\ GoIn([cx EXCEPT !.loop_depth = @ - 1], <<>>)
  <2> DEFINE x == "loop_end"
  <2>1. At(x) /\ Do(<<>>) /\ cx' = [cx EXCEPT !.loop_depth = @ - 1] /\ before' = before /\ Moves
    BY <1>2 DEF GoIn, input, Moves
  <2>2. /\ cx' \in Contexts /\ cx'.depth = cx.depth
        /\ cx'.loop_depth = cx.loop_depth - 1 /\ cx'.in_method = cx.in_method
        /\ cx'.in_stream = cx.in_stream /\ cx'.no_struct = cx.no_struct
    BY <1>0, <2>1 DEF Contexts
  <2>3. One(x, Levels) = 0 /\ One(x, Loops) = 1
    BY HeldOnes DEF Loops
  <2>4. x \in Held \ Marks /\ x \notin Flags \cup {"fn_end", "stream_end"}
    BY DEF Held, Marks, Flags, Loops
  <2> HIDE DEF x
  <2>5. cx'.depth = cx.depth - One(x, Levels) /\ cx'.loop_depth = cx.loop_depth - One(x, Loops)
    BY <1>0, <2>2, <2>3
  <2> QED BY <1>0, <2>1, <2>2, <2>4, <2>5, NothingIsHarmless, ReleaseKeeps
<1> QED BY <1>1, <1>2 DEF LoopBody

LEMMA StreamKeeps ==
    ASSUME StackInv, Stream
    PROVE  StackInv'
<1>0. cx \in Contexts /\ cx.depth \in Int /\ cx.depth <= MaxDepth /\ cx.loop_depth \in Int
  BY DEF StackInv, Contexts
<1>1. CASE At("stream_body") /\ GoIn([cx EXCEPT !.in_stream = TRUE], <<"block", "stream_end">>)
  <2>1. OnPlain
    <3>1. "stream_body" \in PlainWords
      BY DEF PlainWords
    <3> QED BY <1>1, <3>1, AtPlain
  <2> DEFINE v == <<"block">>
             x == "stream_end"
             u == <<"block", "stream_end">>
  <2>2. Do(u) /\ cx' = [cx EXCEPT !.in_stream = TRUE] /\ before' = before /\ Moves
    BY <1>1 DEF GoIn, input, Moves
  <2>3. u = v \o (<<x>> \o <<>>)
    BY Split1And1, JustOne
  <2>4. Harmless(v)
    <3>1. v \in Seq(PlainWords)
      BY DEF PlainWords
    <3> QED BY <3>1, HarmlessList
  <2>5. x = "stream_end" /\ x # "no_struct" /\ One(x, Levels) = 0 /\ One(x, Loops) = 0
    BY HeldOnes
  <2> HIDE DEF u, v, x
  <2>6. /\ cx' \in Contexts /\ cx'.depth = cx.depth
        /\ cx'.loop_depth = cx.loop_depth /\ cx'.in_method = cx.in_method
        /\ cx'.no_struct = cx.no_struct
    BY <1>0, <2>2 DEF Contexts
  <2>7. cx'.depth = cx.depth + One(x, Levels) /\ cx'.loop_depth = cx.loop_depth + One(x, Loops)
    BY <1>0, <2>5, <2>6
  <2> QED BY <1>0, <2>1, <2>2, <2>3, <2>4, <2>5, <2>6, <2>7, NothingIsHarmless, HoldKeeps
<1>2. CASE At("stream_end") /\ GoIn([cx EXCEPT !.in_stream = FALSE], <<>>)
  <2> DEFINE x == "stream_end"
  <2>1. At(x) /\ Do(<<>>) /\ cx' = [cx EXCEPT !.in_stream = FALSE] /\ before' = before /\ Moves
    BY <1>2 DEF GoIn, input, Moves
  <2>2. /\ cx' \in Contexts /\ cx'.depth = cx.depth
        /\ cx'.loop_depth = cx.loop_depth /\ cx'.in_method = cx.in_method
        /\ ~ cx'.in_stream /\ cx'.no_struct = cx.no_struct
    BY <1>0, <2>1 DEF Contexts
  <2>3. One(x, Levels) = 0 /\ One(x, Loops) = 0
    BY HeldOnes
  <2>4. x \in Held \ Marks /\ x \notin Flags \cup {"fn_end"}
    BY DEF Held, Marks, Flags
  <2> HIDE DEF x
  <2>5. cx'.depth = cx.depth - One(x, Levels) /\ cx'.loop_depth = cx.loop_depth - One(x, Loops)
    BY <1>0, <2>2, <2>3
  <2> QED BY <1>0, <2>1, <2>2, <2>4, <2>5, NothingIsHarmless, ReleaseKeeps
<1> QED BY <1>1, <1>2 DEF Stream

LEMMA BlockKeeps ==
    ASSUME StackInv, Block
    PROVE  StackInv'
<1>1. OnPlain
  <2>1. "block" \in PlainWords
    BY DEF PlainWords
  <2> QED BY <2>1, AtPlain DEF Block
<1>2. CASE EatIn(Deeper, <<"skip_newlines", "stmts", "RBRACE", "leave">>) /\ ~ cx.depth >= MaxDepth
  <2> DEFINE v == <<"skip_newlines", "stmts", "RBRACE">>
  <2>1. <<"skip_newlines", "stmts", "RBRACE", "leave">> = v \o <<"leave">>
    BY Split3And1
  <2>2. Harmless(v)
    <3>1. v \in Seq(PlainWords)
      BY DEF PlainWords
    <3> QED BY <3>1, HarmlessList
  <2>3. Do(<<"skip_newlines", "stmts", "RBRACE", "leave">>) /\ cx' = Deeper /\ before' = before /\ Moves
    BY <1>2, TakeMoves DEF EatIn, Take
  <2>4. cx.depth < MaxDepth
    BY <1>2, ParserAssumption DEF StackInv, Contexts
  <2> HIDE DEF v
  <2>5. Do(v \o <<"leave">>)
    BY <2>1, <2>3
  <2> QED BY <1>1, <2>2, <2>3, <2>4, <2>5, DeeperDo
<1>3. CASE TooDeep \/ Unexpected(<<>>)
  BY <1>1, <1>3, NothingIsHarmless, PlainSteps, PlainChoices
<1> QED BY <1>2, <1>3 DEF Block

(* The rest of a list. *)
LEMMA MoreKeeps ==
    ASSUME StackInv, More
    PROVE  StackInv'
<1> DEFINE t == Tail(todo)
           b == Len(before)
           x == "more"
<1>1. IsStack(todo) /\ todo # <<>> /\ x = Head(todo) /\ Kept(todo, cx, b)
  BY DEF StackInv, At, More
<1>2. cx.depth \in Int /\ cx.loop_depth \in Int /\ b \in Int /\ at \in Nat
  BY DEF StackInv, Contexts
<1>3. x \notin Held /\ x \notin Methods /\ x \notin Flags /\ x # "no_struct" /\ x # "fn_end" /\ x # "stream_end"
      /\ One(x, Levels) = 0 /\ One(x, Loops) = 0 /\ One(x, Marks) = 0
  BY MoreIsSoft DEF Held, One, Flags
<1>4. GoesOn(todo) /\ Len(todo) \in Nat /\ Len(todo) >= 1 /\ x = todo[1]
  BY <1>1, TailIs DEF Kept
<1>5. 1 < Len(todo) /\ Plain(todo[2])
  BY <1>4 DEF GoesOn
<1> HIDE DEF b
<1>6. IsStack(t) /\ Kept(t, cx, b)
  <2> HIDE DEF x
  <2>1. /\ cx.depth = cx.depth - One(x, Levels) /\ cx.loop_depth = cx.loop_depth - One(x, Loops)
        /\ b = b - One(x, Marks)
        /\ cx.in_method => (cx.in_method /\ x # "fn_end") \/ x \in Methods
        /\ cx.in_stream => cx.in_stream /\ x # "stream_end"
        /\ cx.no_struct => x = "no_struct" \/ (cx.no_struct /\ x \notin Flags)
    BY <1>2, <1>3
  <2> QED BY <1>1, <1>2, <2>1, KeptPop
<1>7. CASE tok = "COMMA"
  <2>1. <<"skip_newlines">> \in Seq(PlainWords)
    BY DEF PlainWords
  <2>2. Eat(<<"skip_newlines">>) /\ Harmless(<<"skip_newlines">>)
    BY <1>7, <2>1, HarmlessList DEF More
  <2> DEFINE w == <<"skip_newlines">>
  <2>3. todo' = w \o t /\ Moves /\ cx' = cx /\ before' = before
    BY <2>2, TakeMoves DEF Eat, Take, Do
  <2>4. Harmless(w)
    BY <2>2
  <2> HIDE DEF w, t
  <2>5. IsStack(w \o t) /\ Kept(w \o t, cx, b)
    BY <1>6, <2>4, KeptPush
  <2>6. at' \in Nat /\ before \in Seq(0 .. at')
    BY <2>3, MarksStay DEF StackInv
  <2> QED BY <2>3, <2>5, <2>6 DEF StackInv, b
<1>8. CASE tok # "COMMA"
  <2>1. todo' = Tail(t) /\ UNCHANGED <<at, cx, before>>
    BY <1>8 DEF More, input
  <2>2. t # <<>> /\ Plain(Head(t))
    <3>1. Len(t) = Len(todo) - 1 /\ t[1] = todo[1 + 1]
      <4>1. Len(t) = Len(todo) - 1 /\ \A j \in 1 .. Len(todo) - 1 : t[j] = todo[j + 1]
        BY <1>1, TailIs
      <4>2. 1 \in 1 .. Len(todo) - 1
        BY <1>4, <1>5
      <4> QED BY <4>1, <4>2
    <3> HIDE DEF t
    <3>2. t # <<>>
      <4>1. Len(t) # 0
        BY <1>4, <1>5, <3>1
      <4>2. Len(<<>>) = 0
        OBVIOUS
      <4> QED BY <4>1, <4>2
    <3>3. Head(t) = t[1]
      BY <1>6, <3>2, TailIs
    <3> QED BY <1>5, <3>1, <3>2, <3>3
  <2> DEFINE y == Head(t)
  <2>3. y \notin Held
    BY <2>2 DEF Plain
  <2>4. y = Head(t) /\ t # <<>>
    BY <2>2
  <2> HIDE DEF y, t
  <2>5. /\ cx.depth = cx.depth - One(y, Levels) /\ cx.loop_depth = cx.loop_depth - One(y, Loops)
        /\ b = b - One(y, Marks)
    <3>1. One(y, Levels) = 0 /\ One(y, Loops) = 0 /\ One(y, Marks) = 0
      BY <2>3 DEF One, Held
    <3> QED BY <1>2, <3>1
  <2>6. /\ cx.in_method => (cx.in_method /\ y # "fn_end") \/ y \in Methods
        /\ cx.in_stream => cx.in_stream /\ y # "stream_end"
        /\ cx.no_struct => y = "no_struct" \/ (cx.no_struct /\ y \notin Flags)
    BY <2>3 DEF Held
  <2>7. IsStack(Tail(t)) /\ Kept(Tail(t), cx, b)
    BY <1>2, <1>6, <2>4, <2>5, <2>6, KeptPop
  <2> QED BY <2>1, <2>7 DEF StackInv, b
<1> QED BY <1>7, <1>8

(* A method's flag is taken while its fn_end is on the stack.                *)
LEMMA FnNameKeeps ==
    ASSUME StackInv, FnName
    PROVE  StackInv'
<1>0. cx \in Contexts /\ cx.depth \in Int /\ cx.depth <= MaxDepth /\ cx.loop_depth \in Int
      /\ Len(before) \in Int
  BY DEF StackInv, Contexts
<1>1. CASE At("fn_name") /\ Eat(<<"receiver">>)
  <2> DEFINE t == Tail(todo)
             b == Len(before)
             x == "fn_name"
             y == "receiver"
  <2>1. IsStack(todo) /\ todo # <<>> /\ x = Head(todo) /\ Kept(todo, cx, b)
    BY <1>1 DEF StackInv, At
  <2>2. x \in Methods /\ One(x, Levels) = 0 /\ One(x, Loops) = 0 /\ One(x, Marks) = 0
        /\ y \in Methods /\ One(y, Levels) = 0 /\ One(y, Loops) = 0 /\ One(y, Marks) = 0
    BY HeldOnes DEF Methods
  <2>3. \A z \in Methods : z # "fn_end" /\ z # "stream_end" /\ z \notin Flags /\ z # "no_struct"
                           /\ z # "more" /\ z # "unit"
    BY DEF Methods, Flags
  <2>4. todo' = <<y>> \o t /\ Moves /\ cx' = cx /\ before' = before
    BY <1>1, TakeMoves DEF Eat, Take, Do
  <2> HIDE DEF x, y, b
  <2>5. Later(t, 0, {"fn_end"})
    <3>1. Len(todo) \in Nat /\ Len(todo) >= 1 /\ x = todo[1]
      BY <2>1, TailIs
    <3>2. Later(todo, 1, {"fn_end"})
      BY <2>1, <2>2, <3>1 DEF Kept
    <3> QED BY <2>1, <3>2, LaterTail
  <2> HIDE DEF t
  <2>6. IsStack(t) /\ Kept(t, cx, b)
    <3>1. /\ cx.depth = cx.depth - One(x, Levels) /\ cx.loop_depth = cx.loop_depth - One(x, Loops)
          /\ b = b - One(x, Marks) /\ b \in Int
          /\ cx.in_method => (cx.in_method /\ x # "fn_end") \/ x \in Methods
          /\ cx.in_stream => cx.in_stream /\ x # "stream_end"
          /\ cx.no_struct => x = "no_struct" \/ (cx.no_struct /\ x \notin Flags)
      BY <1>0, <2>2, <2>3 DEF b
    <3>2. IsStack(Tail(todo)) /\ Kept(Tail(todo), cx, b)
      BY <1>0, <2>1, <3>1, KeptPop
    <3> QED BY <3>2 DEF t
  <2>7. IsStack(<<y>> \o t) /\ Kept(<<y>> \o t, cx, b)
    <3>1. /\ cx.depth = cx.depth + One(y, Levels) /\ cx.loop_depth = cx.loop_depth + One(y, Loops)
          /\ b = b + One(y, Marks) /\ b \in Int
          /\ y # "more" /\ y # "unit" /\ y # "no_struct"
      BY <1>0, <2>2, <2>3 DEF b
    <3> QED BY <1>0, <2>5, <2>6, <3>1, KeptPushOne
  <2>8. at' \in Nat /\ before \in Seq(0 .. at')
    BY <2>4, MarksStay DEF StackInv
  <2> QED BY <1>0, <2>4, <2>7, <2>8 DEF StackInv, b
<1>2. ASSUME NEW x \in Methods \cup {"fn_end"}, At(x), NEW w, Harmless(w), Do(w), Moves, before' = before,
             \/ cx' = cx /\ x \in Methods
             \/ cx' = [cx EXCEPT !.in_method = TRUE] /\ x \in Methods
             \/ cx' = [cx EXCEPT !.in_method = FALSE]
      PROVE  StackInv'
  <2>1. /\ cx' \in Contexts /\ cx'.depth = cx.depth
        /\ cx'.loop_depth = cx.loop_depth /\ (cx'.in_method => x \in Methods)
        /\ cx'.in_stream = cx.in_stream /\ cx'.no_struct = cx.no_struct
    BY <1>0, <1>2 DEF Contexts
  <2>2. One(x, Levels) = 0 /\ One(x, Loops) = 0
    BY <1>2, HeldOnes
  <2>3. x \in Held \ Marks /\ x \notin Flags \cup {"stream_end"}
    BY <1>2 DEF Held, Marks, Flags, Methods
  <2>4. cx'.depth = cx.depth - One(x, Levels) /\ cx'.loop_depth = cx.loop_depth - One(x, Loops)
    BY <1>0, <2>1, <2>2
  <2> QED BY <1>0, <1>2, <2>1, <2>3, <2>4, ReleaseKeeps
<1>3. CASE At("fn_name") /\ Unexpected(<<>>)
  <2>1. Do(<<>>) /\ cx' = cx /\ before' = before /\ Moves /\ "fn_name" \in Methods
    BY <1>3 DEF Unexpected, input, Moves, Methods
  <2> QED BY <1>2, <1>3, <2>1, NothingIsHarmless
<1>4. CASE At("receiver") /\ EatIn([cx EXCEPT !.in_method = TRUE], <<"name">>)
  <2>1. Do(<<"name">>) /\ cx' = [cx EXCEPT !.in_method = TRUE] /\ before' = before /\ Moves
        /\ "receiver" \in Methods
    BY <1>4, TakeMoves DEF EatIn, Take, Methods
  <2>2. <<"name">> \in Seq(PlainWords)
    BY DEF PlainWords
  <2> QED BY <1>2, <1>4, <2>1, <2>2, HarmlessList
<1>5. CASE At("receiver") /\ Go(<<>>)
  <2>1. Do(<<>>) /\ cx' = cx /\ before' = before /\ Moves /\ "receiver" \in Methods
    BY <1>5 DEF Go, input, Moves, Methods
  <2> QED BY <1>2, <1>5, <2>1, NothingIsHarmless
<1>6. CASE At("fn_end") /\ GoIn([cx EXCEPT !.in_method = FALSE], <<>>)
  <2>1. Do(<<>>) /\ cx' = [cx EXCEPT !.in_method = FALSE] /\ before' = before /\ Moves
    BY <1>6 DEF GoIn, input, Moves
  <2> QED BY <1>2, <1>6, <2>1, NothingIsHarmless
<1> QED BY <1>1, <1>3, <1>4, <1>5, <1>6 DEF FnName, NameOr

-----------------------------------------------------------------------------
(* Steps that mark a position, or drop the last mark.                        *)

LEMMA FrontIs ==
    ASSUME NEW S, NEW s \in Seq(S), Len(s) >= 1
    PROVE  Front(s) \in Seq(S) /\ Len(Front(s)) = Len(s) - 1
<1>1. Front(s) = SubSeq(s, 1, Len(s) - 1)
  BY DEF Front
<1>2. Len(s) \in Nat /\ \A i \in 1 .. Len(s) : s[i] \in S
  OBVIOUS
<1> DEFINE n == Len(s) - 1
<1>3. n \in Nat /\ 1 \in Int /\ n \in Int /\ \A i \in 1 .. n : s[i] \in S
  BY <1>2
<1> HIDE DEF n
<1>4. SubSeq(s, 1, n) \in Seq(S) /\ Len(SubSeq(s, 1, n)) = IF 1 <= n THEN n - 1 + 1 ELSE 0
  BY <1>3, SubSeqProperties
<1>5. Len(SubSeq(s, 1, n)) = n
  BY <1>3, <1>4
<1> QED BY <1>1, <1>4, <1>5 DEF n

(* Where the last mark is asked for, there is one. *)
LEMMA MarkStands ==
    ASSUME StackInv, NEW x \in Marks, At(x)
    PROVE  before # <<>> /\ Len(Front(before)) = Len(before) - 1 /\ Front(before) \in Seq(0 .. at)
<1>1. IsStack(todo) /\ todo # <<>> /\ x = Head(todo) /\ Len(before) = Tally(todo, Marks)
      /\ before \in Seq(0 .. at)
  BY DEF StackInv, Kept, At
<1>2. Tally(todo, Marks) = Tally(Tail(todo), Marks) + 1
  BY <1>1, TallyTail DEF One
<1>3. Tally(Tail(todo), Marks) \in Nat
  BY <1>1, TailIs, TallyIsNat
<1>4. Len(before) \in Nat /\ Len(before) >= 1
  BY <1>1, <1>2, <1>3
<1>5. Front(before) \in Seq(0 .. at) /\ Len(Front(before)) = Len(before) - 1
  <2> DEFINE S == 0 .. at
  <2>1. before \in Seq(S)
    BY <1>1
  <2> HIDE DEF S
  <2>2. Front(before) \in Seq(S) /\ Len(Front(before)) = Len(before) - 1
    BY <1>4, <2>1, FrontIs
  <2> QED BY <2>2 DEF S
<1>7. before # <<>>
  <2>1. Len(<<>>) = 0
    OBVIOUS
  <2> QED BY <1>4, <2>1
<1> QED BY <1>5, <1>7

LEMMA UnmarkKeeps ==
    ASSUME StackInv, NEW x \in Marks, At(x), NEW w, Harmless(w), Do(w), cx' = cx, Moves,
           before' = Front(before)
    PROVE  StackInv'
<1>1. Len(before') = Len(before) - 1 /\ Front(before) \in Seq(0 .. at) /\ Len(before) \in Nat
  BY MarkStands DEF StackInv
<1>2. at' \in Nat /\ before' \in Seq(0 .. at')
  <2>1. at' \in Nat /\ 0 .. at \subseteq 0 .. at'
    BY DEF Moves, StackInv
  <2> QED BY <1>1, <2>1, SeqMonotonic
<1>3. cx' \in Contexts /\ cx.depth \in Int /\ cx.loop_depth \in Int /\ cx'.depth <= MaxDepth
  BY DEF StackInv, Contexts
<1>4. One(x, Levels) = 0 /\ One(x, Loops) = 0 /\ One(x, Marks) = 1
  BY HeldOnes
<1>5. x \notin {"fn_end", "stream_end"} \cup Flags
  BY DEF Marks, Flags
<1>6. /\ cx'.depth = cx.depth - One(x, Levels) /\ cx'.loop_depth = cx.loop_depth - One(x, Loops)
      /\ Len(before') = Len(before) - One(x, Marks)
      /\ cx'.in_method => (cx.in_method /\ x # "fn_end") \/ x \in Methods
      /\ cx'.in_stream => cx.in_stream /\ x # "stream_end"
      /\ cx'.no_struct => x = "no_struct" \/ (cx.no_struct /\ x \notin Flags)
  BY <1>1, <1>3, <1>4, <1>5
<1> QED BY <1>2, <1>3, <1>6, ReleaseDo

(* A word that waits for the mark hands it on to another. *)
LEMMA RemarkKeeps ==
    ASSUME StackInv, NEW x \in Marks, At(x), NEW y \in Marks, NEW v, Harmless(v),
           Do(v \o <<y>>), UNCHANGED <<at, cx, before>>
    PROVE  StackInv'
<1> DEFINE t == Tail(todo)
           b == Len(before)
           b1 == Len(before) - 1
<1>1. IsStack(todo) /\ todo # <<>> /\ x = Head(todo) /\ Kept(todo, cx, b)
  BY DEF StackInv, At
<1>2. cx.depth \in Int /\ cx.loop_depth \in Int /\ b \in Int /\ b1 \in Int /\ b = b1 + 1
  BY DEF StackInv, Contexts
<1>3. One(x, Levels) = 0 /\ One(x, Loops) = 0 /\ One(x, Marks) = 1
      /\ One(y, Levels) = 0 /\ One(y, Loops) = 0 /\ One(y, Marks) = 1
  BY HeldOnes
<1>4. x \notin {"fn_end", "stream_end"} \cup Flags
      /\ y \notin {"more", "unit", "no_struct"} \cup Methods
  BY DEF Marks, Flags, Methods
<1>5. todo' = (v \o <<y>>) \o t
  BY DEF Do
<1> HIDE DEF t, b, b1
<1>6. IsStack(t) /\ Kept(t, cx, b1)
  <2>1. /\ cx.depth = cx.depth - One(x, Levels) /\ cx.loop_depth = cx.loop_depth - One(x, Loops)
        /\ b1 = b - One(x, Marks)
        /\ cx.in_method => (cx.in_method /\ x # "fn_end") \/ x \in Methods
        /\ cx.in_stream => cx.in_stream /\ x # "stream_end"
        /\ cx.no_struct => x = "no_struct" \/ (cx.no_struct /\ x \notin Flags)
    BY <1>2, <1>3, <1>4
  <2>2. IsStack(Tail(todo)) /\ Kept(Tail(todo), cx, b1)
    BY <1>1, <1>2, <2>1, KeptPop
  <2> QED BY <2>2 DEF t
<1>7. IsStack((v \o (<<y>> \o <<>>)) \o t) /\ Kept((v \o (<<y>> \o <<>>)) \o t, cx, b)
  <2>1. /\ cx.depth = cx.depth + One(y, Levels) /\ cx.loop_depth = cx.loop_depth + One(y, Loops)
        /\ b = b1 + One(y, Marks)
        /\ y \notin {"more", "unit"}
        /\ y \in Methods => Later(t, 0, {"fn_end"})
        /\ y = "no_struct" => cx.no_struct
    BY <1>2, <1>3, <1>4
  <2> QED BY <1>2, <1>6, <2>1, NothingIsHarmless, KeptPushAround
<1>8. IsStack(todo') /\ Kept(todo', cx, b)
  BY <1>5, <1>7, JustOne
<1> QED BY <1>8 DEF StackInv, b

LEMMA EnsureProgressKeeps ==
    ASSUME StackInv, EnsureProgress
    PROVE  StackInv'
<1>1. "progress_in_braces" \in Marks /\ "progress" \in Marks /\ "force" \in Marks
  BY DEF Marks
<1>2. ASSUME NEW x \in Marks, At(x), Forget(<<>>) PROVE StackInv'
  <2>1. Do(<<>>) /\ cx' = cx /\ Moves /\ before' = Front(before)
    BY <1>2 DEF Forget, input, Moves
  <2> QED BY <1>2, <2>1, NothingIsHarmless, UnmarkKeeps
<1>3. CASE At("progress_in_braces") /\ Go(<<"progress">>)
  <2> DEFINE v == <<>>
  <2>1. v \o <<"progress">> = <<"progress">>
    <3>1. <<"progress">> \in Seq({"progress"})
      OBVIOUS
    <3> QED BY <3>1, ConcatEmptySeq
  <2>2. Do(v \o <<"progress">>) /\ UNCHANGED <<at, cx, before>>
    BY <1>3, <2>1 DEF Go, input
  <2>3. Harmless(v)
    BY NothingIsHarmless
  <2> HIDE DEF v
  <2> QED BY <1>1, <1>3, <2>2, <2>3, RemarkKeeps
<1>4. CASE At("progress") /\ Go(<<"synchronize", "force">>)
  <2> DEFINE v == <<"synchronize">>
  <2>1. <<"synchronize", "force">> = v \o <<"force">>
    BY Split1And1
  <2>2. Do(v \o <<"force">>) /\ UNCHANGED <<at, cx, before>>
    BY <1>4, <2>1 DEF Go, input
  <2>3. Harmless(v)
    <3>1. v \in Seq(PlainWords)
      BY DEF PlainWords
    <3> QED BY <3>1, HarmlessList
  <2> HIDE DEF v
  <2> QED BY <1>1, <1>4, <2>2, <2>3, RemarkKeeps
<1> QED BY <1>1, <1>2, <1>3, <1>4 DEF EnsureProgress

LEMMA ForceAdvanceKeeps ==
    ASSUME StackInv, ForceAdvance
    PROVE  StackInv'
<1>1. "force" \in Marks /\ At("force")
  BY DEF Marks, ForceAdvance
<1>2. Do(<<"skip_newlines">>) /\ cx' = cx /\ Moves /\ before' = Front(before)
  <2>1. CASE Stuck
    BY <2>1, TakeMoves DEF ForceAdvance, Take
  <2>2. CASE ~ Stuck
    BY <2>2 DEF ForceAdvance, Forget, input, Moves
  <2> QED BY <2>1, <2>2
<1>3. <<"skip_newlines">> \in Seq(PlainWords)
  BY DEF PlainWords
<1>4. Harmless(<<"skip_newlines">>)
  BY <1>3, HarmlessList
<1> QED BY <1>1, <1>2, <1>4, UnmarkKeeps

LEMMA MarkKeeps ==
    ASSUME StackInv, OnPlain, NEW v, Harmless(v), NEW w, Harmless(w), NEW x \in Marks,
           NEW u, u = v \o (<<x>> \o w), Mark(u)
    PROVE  StackInv'
<1>1. Do(u) /\ cx' = cx /\ at' = at /\ before' = Append(before, at)
  BY DEF Mark, input
<1>2. at \in Nat /\ before \in Seq(0 .. at) /\ Len(before) \in Nat
  BY DEF StackInv
<1>3. at' \in Nat /\ before' \in Seq(0 .. at') /\ Len(before') = Len(before) + 1
  <2>1. at \in 0 .. at
    BY <1>2
  <2> QED BY <1>1, <1>2, <2>1
<1>4. cx' \in Contexts /\ cx.depth \in Int /\ cx.loop_depth \in Int /\ cx'.depth <= MaxDepth
  BY <1>1 DEF StackInv, Contexts
<1>5. One(x, Levels) = 0 /\ One(x, Loops) = 0 /\ One(x, Marks) = 1
  BY HeldOnes
<1>6. x \notin {"more", "unit"} \cup Methods /\ x # "no_struct"
  BY DEF Marks, Methods
<1>7. /\ cx'.depth = cx.depth + One(x, Levels) /\ cx'.loop_depth = cx.loop_depth + One(x, Loops)
      /\ Len(before') = Len(before) + One(x, Marks)
      /\ cx'.in_method => cx.in_method \/ x = "fn_end"
      /\ cx'.in_stream => cx.in_stream \/ x = "stream_end"
      /\ cx'.no_struct => cx.no_struct \/ x \in Flags
  BY <1>1, <1>2, <1>3, <1>4, <1>5
<1> QED BY <1>1, <1>3, <1>4, <1>6, <1>7, HoldDo

LEMMA StmtsKeeps ==
    ASSUME StackInv, Stmts
    PROVE  StackInv'
<1>1. OnPlain
  <2>1. "stmts" \in PlainWords
    BY DEF PlainWords
  <2> QED BY <2>1, AtPlain DEF Stmts
<1>2. CASE Mark(<<"stmt", "stmt_end", "skip_newlines", "progress_in_braces", "stmts">>)
  <2> DEFINE u == <<"stmt", "stmt_end", "skip_newlines", "progress_in_braces", "stmts">>
             v == <<"stmt", "stmt_end", "skip_newlines">>
             w == <<"stmts">>
             x == "progress_in_braces"
  <2>1. u = v \o <<"progress_in_braces", "stmts">>
    BY Split3And2
  <2>2. <<"progress_in_braces", "stmts">> = <<x>> \o w
    BY Split1And1
  <2>3. v \in Seq(PlainWords) /\ w \in Seq(PlainWords) /\ x \in Marks
    BY DEF PlainWords, Marks
  <2>4. Harmless(v) /\ Harmless(w) /\ Mark(u)
    BY <1>2, <2>3, HarmlessList
  <2> HIDE DEF u, v, w, x
  <2>5. u = v \o (<<x>> \o w)
    BY <2>1, <2>2, Zenon
  <2> QED BY <1>1, <2>3, <2>4, <2>5, MarkKeeps
<1>3. CASE Go(<<>>)
  BY <1>1, <1>3, NothingIsHarmless, PlainSteps
<1> QED BY <1>2, <1>3 DEF Stmts

LEMMA GroupItemsKeep ==
    ASSUME StackInv, GroupItems
    PROVE  StackInv'
<1>1. OnPlain
  <2>1. "group_items" \in PlainWords /\ "group_body" \in PlainWords
    BY DEF PlainWords
  <2> QED BY <2>1, AtPlain DEF GroupItems
<1>2. CASE Mark(<<"decl", "skip_newlines", "progress_in_braces", "group_items">>)
  <2> DEFINE u == <<"decl", "skip_newlines", "progress_in_braces", "group_items">>
             v == <<"decl", "skip_newlines">>
             w == <<"group_items">>
             x == "progress_in_braces"
  <2>1. u = v \o <<"progress_in_braces", "group_items">>
    BY Split2And2
  <2>2. <<"progress_in_braces", "group_items">> = <<x>> \o w
    BY Split1And1
  <2>3. v \in Seq(PlainWords) /\ w \in Seq(PlainWords) /\ x \in Marks
    BY DEF PlainWords, Marks
  <2>4. Harmless(v) /\ Harmless(w) /\ Mark(u)
    BY <1>2, <2>3, HarmlessList
  <2> HIDE DEF u, v, w, x
  <2>5. u = v \o (<<x>> \o w)
    BY <2>1, <2>2, Zenon
  <2> QED BY <1>1, <2>3, <2>4, <2>5, MarkKeeps
<1>3. CASE Go(<<>>) \/ Go(<<"LBRACE", "skip_newlines", "group_items", "RBRACE">>)
  <2>1. <<"LBRACE", "skip_newlines", "group_items", "RBRACE">> \in Seq(PlainWords)
    BY DEF PlainWords
  <2>2. Harmless(<<"LBRACE", "skip_newlines", "group_items", "RBRACE">>)
    BY <2>1, HarmlessList
  <2> QED BY <1>1, <1>3, <2>2, NothingIsHarmless, PlainSteps
<1> QED BY <1>2, <1>3 DEF GroupItems

-----------------------------------------------------------------------------
(* Declarations.                                                             *)

LEMMA NoDeclIs ==
    ASSUME StackInv, OnPlain
    PROVE  IsStack(NoDecl) /\ Kept(NoDecl, cx, Len(before))
<1> DEFINE t == Tail(todo)
           b == Len(before)
<1>1. IsStack(t) /\ Kept(t, cx, b)
  BY PlainPop
<1>2. IsStack(todo) /\ todo # <<>>
  BY DEF StackInv, OnPlain
<1>3. CASE Len(todo) > 1 /\ todo[2] = "stmt_end"
  <2> DEFINE y == Head(t)
  <2>1. t # <<>> /\ y = "stmt_end"
    <3>1. Len(todo) \in Nat /\ Len(t) = Len(todo) - 1 /\ \A j \in 1 .. Len(todo) - 1 : t[j] = todo[j + 1]
      BY <1>2, TailIs
    <3>2. 1 \in 1 .. Len(todo) - 1 /\ 1 + 1 = 2 /\ Len(t) # 0
      BY <1>3, <3>1
    <3>3. t[1] = "stmt_end"
      BY <1>3, <3>1, <3>2
    <3> HIDE DEF t
    <3>4. Len(<<>>) = 0
      OBVIOUS
    <3>5. t # <<>>
      BY <3>2, <3>4
    <3> QED BY <1>1, <3>3, <3>5, TailIs
  <2>2. y \notin Held
    <3>1. "stmt_end" \in PlainWords
      BY DEF PlainWords
    <3>2. Plain(y)
      BY <2>1, <3>1, WordsArePlain
    <3> QED BY <3>2 DEF Plain
  <2>3. cx.depth \in Int /\ cx.loop_depth \in Int /\ b \in Int
    BY DEF StackInv, Contexts
  <2>4. y = Head(t) /\ t # <<>>
    BY <2>1
  <2>5. NoDecl = Tail(t)
    BY <1>3 DEF NoDecl
  <2> HIDE DEF y, t, b
  <2>6. /\ cx.depth = cx.depth - One(y, Levels) /\ cx.loop_depth = cx.loop_depth - One(y, Loops)
        /\ b = b - One(y, Marks)
    <3>1. One(y, Levels) = 0 /\ One(y, Loops) = 0 /\ One(y, Marks) = 0
      BY <2>2 DEF One, Held
    <3> QED BY <2>3, <3>1
  <2>7. /\ cx.in_method => (cx.in_method /\ y # "fn_end") \/ y \in Methods
        /\ cx.in_stream => cx.in_stream /\ y # "stream_end"
        /\ cx.no_struct => y = "no_struct" \/ (cx.no_struct /\ y \notin Flags)
    BY <2>2 DEF Held
  <2>8. IsStack(Tail(t)) /\ Kept(Tail(t), cx, b)
    BY <1>1, <2>3, <2>4, <2>6, <2>7, KeptPop
  <2> QED BY <2>5, <2>8 DEF b
<1>4. CASE ~ (Len(todo) > 1 /\ todo[2] = "stmt_end")
  BY <1>1, <1>4 DEF NoDecl
<1> QED BY <1>3, <1>4

LEMMA SkippedKeeps ==
    ASSUME StackInv, OnPlain, todo' = <<"synchronize">> \o NoDecl, cx' = cx, before' = before, Moves
    PROVE  StackInv'
<1> DEFINE w == <<"synchronize">>
<1>1. w \in Seq(PlainWords)
  BY DEF PlainWords
<1>2. Harmless(w)
  BY <1>1, HarmlessList
<1>3. todo' = w \o NoDecl
  OBVIOUS
<1> HIDE DEF w
<1>4. IsStack(w \o NoDecl) /\ Kept(w \o NoDecl, cx, Len(before))
  BY <1>2, NoDeclIs, KeptPush
<1>5. at' \in Nat /\ before \in Seq(0 .. at')
  BY MarksStay DEF StackInv
<1> QED BY <1>3, <1>4, <1>5 DEF StackInv

(* A function's fn_end is on the stack before its name is looked at.         *)
LEMMA FunctionKeeps ==
    ASSUME StackInv, OnPlain, Eat(<<"fn_name">> \o Signature \o <<"block", "fn_end">>)
    PROVE  StackInv'
<1> DEFINE t == Tail(todo)
           b == Len(before)
           x == "fn_end"
           y == "fn_name"
           r == <<"block", "fn_end">>
           v == <<"block">>
           p == <<y>>
           q == <<x>>
           t1 == q \o t
           t2 == v \o t1
           t3 == Signature \o t2
           t4 == p \o t3
<1>1. cx \in Contexts /\ cx.depth \in Int /\ cx.loop_depth \in Int /\ b \in Int /\ b = Len(before)
  BY DEF StackInv, Contexts
<1>2. IsStack(t) /\ Kept(t, cx, b)
  BY PlainPop
<1>3. Harmless(v)
  <2>1. v \in Seq(PlainWords)
    BY DEF PlainWords
  <2> QED BY <2>1, HarmlessList
<1>4. One(x, Levels) = 0 /\ One(x, Loops) = 0 /\ One(x, Marks) = 0
      /\ One(y, Levels) = 0 /\ One(y, Loops) = 0 /\ One(y, Marks) = 0
  BY HeldOnes DEF Methods
<1>5. x \notin {"more", "unit", "no_struct"} \cup Methods /\ y \notin {"more", "unit", "no_struct"}
      /\ x \in {"fn_end"}
  BY DEF Methods
<1>6. r = v \o q
  BY Split1And1
<1>7. todo' = ((p \o Signature) \o r) \o t /\ cx' = cx /\ before' = before /\ Moves
  BY TakeMoves DEF Eat, Take, Do
<1>8. IsStack(p) /\ IsStack(q) /\ IsStack(v) /\ IsStack(Signature)
  BY <1>3, SignatureIsHarmless, TallyOne DEF Harmless
<1> HIDE DEF x, y, b, r, t, v
<1>9. IsStack(t1) /\ Kept(t1, cx, b)
  <2>1. /\ cx.depth = cx.depth + One(x, Levels) /\ cx.loop_depth = cx.loop_depth + One(x, Loops)
        /\ b = b + One(x, Marks) /\ x # "more" /\ (x = "unit" => t = <<>>)
        /\ x \in Methods => Later(t, 0, {"fn_end"})
        /\ x = "no_struct" => cx.no_struct
    BY <1>1, <1>4, <1>5
  <2> QED BY <1>1, <1>2, <2>1, KeptPushOne
<1>10. Later(t1, 0, {"fn_end"})
  <2> HIDE DEF q
  <2>1. /\ Len(q) = 1 /\ q[1] = x /\ Len(t) \in Nat
    BY <1>2, StackHasLen DEF q
  <2>2. Len(t1) = Len(q) + Len(t) /\ \A j \in 1 .. Len(q) : t1[j] = q[j]
    BY <1>2, <1>8, ConcatIs
  <2> HIDE DEF t1
  <2>3. 1 \in 1 .. Len(q) /\ 1 \in 0 + 1 .. Len(t1)
    BY <2>1, <2>2
  <2>4. t1[1] = x
    BY <2>1, <2>2, <2>3
  <2> QED BY <1>5, <2>3, <2>4 DEF Later
<1>11. IsStack(t2) /\ Kept(t2, cx, b) /\ Later(t2, 0, {"fn_end"})
  <2> HIDE DEF t1
  <2>1. 0 \in Nat
    OBVIOUS
  <2>2. Later(t2, 0, {"fn_end"})
    BY <1>8, <1>9, <1>10, <2>1, LaterConcat
  <2> QED BY <1>3, <1>9, <2>2, KeptPush
<1>12. IsStack(t3) /\ Kept(t3, cx, b) /\ Later(t3, 0, {"fn_end"})
  <2> HIDE DEF t2
  <2>1. 0 \in Nat
    OBVIOUS
  <2>2. Later(t3, 0, {"fn_end"})
    BY <1>8, <1>11, <2>1, LaterConcat
  <2> QED BY <1>11, <2>2, SignatureIsHarmless, KeptPush
<1>13. IsStack(t4) /\ Kept(t4, cx, b)
  <2> HIDE DEF t3
  <2>1. /\ cx.depth = cx.depth + One(y, Levels) /\ cx.loop_depth = cx.loop_depth + One(y, Loops)
        /\ b = b + One(y, Marks) /\ y # "more" /\ (y = "unit" => t3 = <<>>)
        /\ y = "no_struct" => cx.no_struct
    BY <1>1, <1>4, <1>5
  <2> QED BY <1>1, <1>12, <2>1, KeptPushOne
<1> HIDE DEF p, q
<1>14. ((p \o Signature) \o r) \o t = t4
  <2>1. IsStack(r)
    BY <1>6, <1>8, ConcatIs
  <2>2. IsStack(p \o Signature) /\ IsStack(r \o t)
    BY <1>2, <1>8, <2>1, ConcatIs
  <2> DEFINE ps == p \o Signature
             rt == r \o t
  <2>3. (ps \o r) \o t = ps \o rt
    <3>1. IsStack(ps)
      BY <2>2
    <3> HIDE DEF ps
    <3> QED BY <1>2, <2>1, <3>1, Regroup
  <2>4. (p \o Signature) \o rt = p \o (Signature \o rt)
    <3>1. IsStack(rt)
      BY <2>2
    <3> HIDE DEF rt
    <3> QED BY <1>8, <3>1, Regroup
  <2>5. rt = t2
    <3>1. (v \o q) \o t = v \o (q \o t)
      BY <1>2, <1>8, Regroup
    <3> QED BY <1>6, <3>1
  <2> QED BY <2>3, <2>4, <2>5
<1>15. at' \in Nat /\ before \in Seq(0 .. at')
  BY <1>7, MarksStay DEF StackInv
<1> HIDE DEF t4
<1> QED BY <1>1, <1>7, <1>13, <1>14, <1>15 DEF StackInv

LEMMA DeclKeeps ==
    ASSUME StackInv, Decl
    PROVE  StackInv'
<1>1. OnPlain
  <2>1. "decl" \in PlainWords /\ "pub" \in PlainWords /\ "declaration" \in PlainWords
    BY DEF PlainWords
  <2> QED BY <2>1, AtPlain DEF Decl
<1>2. /\ <<"attrs", "pub", "declaration">> \in Seq(PlainWords)
      /\ <<"type_name">> \in Seq(PlainWords)
      /\ Let \in Seq(PlainWords)
      /\ <<"method", "quoted">> \in Seq(PlainWords)
      /\ <<"block">> \in Seq(PlainWords)
      /\ <<"stream_body">> \in Seq(PlainWords)
      /\ <<"quoted", "group_body", "group_returns">> \in Seq(PlainWords)
      /\ <<"quoted", "block">> \in Seq(PlainWords)
  BY DEF PlainWords, Let
<1>3. /\ Harmless(<<"attrs", "pub", "declaration">>)
      /\ Harmless(<<"type_name">>)
      /\ Harmless(Let)
      /\ Harmless(<<"method", "quoted">>)
      /\ Harmless(<<"block">>)
      /\ Harmless(<<"stream_body">>)
      /\ Harmless(<<"quoted", "group_body", "group_returns">>)
      /\ Harmless(<<"quoted", "block">>)
  BY <1>2, HarmlessList
<1>4. Harmless(<<"method", "quoted">> \o Signature)
  BY <1>3, SignatureIsHarmless, HarmlessConcat
<1>5. Harmless(Route(<<"block">>)) /\ Harmless(Route(<<"stream_body">>))
  BY <1>3, <1>4, HarmlessConcat DEF Route
<1>6. CASE todo' = <<"synchronize">> \o NoDecl /\ Take /\ UNCHANGED <<cx, before>>
  BY <1>1, <1>6, TakeMoves, SkippedKeeps DEF Take
<1>7. CASE todo' = <<"synchronize">> \o NoDecl /\ UNCHANGED <<input, cx, before>>
  BY <1>1, <1>7, SkippedKeeps DEF input, Moves
<1>8. CASE At("decl") \/ At("pub")
  <2>1. \/ At("decl") /\ Go(<<"attrs", "pub", "declaration">>)
        \/ At("pub") /\ Match("KW_PUB", <<>>)
    <3>1. ~ At("declaration")
      BY <1>8 DEF At
    <3> QED BY <3>1 DEF Decl
  <2> QED BY <1>1, <1>3, <2>1, NothingIsHarmless, PlainSteps, PlainChoices
<1>9. CASE At("declaration")
  <2>1. CASE tok = "KW_FN"
    <3>1. Eat(<<"fn_name">> \o Signature \o <<"block", "fn_end">>)
      BY <1>9, <2>1 DEF Decl, At, Reserved
    <3> QED BY <1>1, <3>1, FunctionKeeps
  <2>2. CASE tok # "KW_FN"
    BY <1>1, <1>3, <1>5, <1>6, <1>7, <1>9, <2>2, PlainSteps DEF Decl, At
  <2> QED BY <2>1, <2>2
<1> QED BY <1>8, <1>9 DEF Decl

LEMMA UnitKeeps ==
    ASSUME StackInv, Unit
    PROVE  StackInv'
<1>0. cx \in Contexts /\ cx.depth \in Int /\ cx.depth <= MaxDepth /\ cx.loop_depth \in Int
      /\ Len(before) \in Int /\ at \in Nat /\ before \in Seq(0 .. at)
  BY DEF StackInv, Contexts
<1> DEFINE x == "unit"
           t == Tail(todo)
           b == Len(before)
<1>1. IsStack(todo) /\ todo # <<>> /\ x = Head(todo) /\ Kept(todo, cx, b)
  BY DEF StackInv, At, Unit
<1>2. One(x, Levels) = 0 /\ One(x, Loops) = 0 /\ One(x, Marks) = 0
  BY HeldOnes
<1>3. x \notin {"fn_end", "stream_end", "no_struct", "more"} \cup Flags \cup Methods
  BY DEF Flags, Methods
<1>4. t = <<>>
  <2>1. /\ Len(todo) \in Nat /\ Len(todo) >= 1 /\ x = todo[1] /\ Len(t) = Len(todo) - 1 /\ IsStack(t)
    BY <1>1, TailIs
  <2>2. Len(todo) = 1
    <3>1. \A j \in 1 .. Len(todo) : todo[j] = "unit" => j = Len(todo)
      BY <1>1 DEF Kept
    <3> HIDE DEF t
    <3>2. 1 \in 1 .. Len(todo) /\ todo[1] = "unit"
      BY <2>1
    <3> QED BY <3>1, <3>2
  <2>3. PICK S : t \in Seq(S)
    BY <2>1 DEF IsStack
  <2> HIDE DEF t
  <2> QED BY <2>1, <2>2, <2>3, EmptySeq
<1> HIDE DEF x, t, b
<1>5. IsStack(t) /\ Kept(t, cx, b)
  <2>1. /\ cx.depth = cx.depth - One(x, Levels) /\ cx.loop_depth = cx.loop_depth - One(x, Loops)
        /\ b = b - One(x, Marks) /\ b \in Int
        /\ cx.in_method => (cx.in_method /\ x # "fn_end") \/ x \in Methods
        /\ cx.in_stream => cx.in_stream /\ x # "stream_end"
        /\ cx.no_struct => x = "no_struct" \/ (cx.no_struct /\ x \notin Flags)
    BY <1>0, <1>2, <1>3 DEF b
  <2>2. IsStack(Tail(todo)) /\ Kept(Tail(todo), cx, b)
    BY <1>0, <1>1, <2>1, KeptPop
  <2> QED BY <2>2 DEF t
<1>6. CASE Go(<<>>)
  <2>1. Do(<<>>) /\ cx' = cx /\ before' = before /\ Moves /\ At(x) /\ x \in Held \ Marks
    BY <1>6 DEF Go, input, Moves, Unit, x, Held, Marks
  <2>2. cx'.depth = cx.depth - One(x, Levels) /\ cx'.loop_depth = cx.loop_depth - One(x, Loops)
    BY <1>0, <1>2, <2>1
  <2> QED BY <1>0, <1>3, <2>1, <2>2, NothingIsHarmless, ReleaseKeeps
<1>7. CASE Mark(<<"decl", "stmt_end", "skip_newlines", "progress", "unit">>)
  <2> DEFINE u == <<"decl", "stmt_end", "skip_newlines", "progress", "unit">>
             v == <<"decl", "stmt_end", "skip_newlines">>
             y == "progress"
             p == <<x>>
             q == <<y>>
             t1 == p \o t
             b2 == Len(before')
  <2>1. u = v \o <<y, x>>
    BY Split3And2 DEF x
  <2>2. <<y, x>> = q \o p
    BY Split1And1
  <2>3. Harmless(v)
    <3>1. v \in Seq(PlainWords)
      BY DEF PlainWords
    <3> QED BY <3>1, HarmlessList
  <2>4. todo' = u \o t /\ cx' = cx /\ at' = at /\ before' = Append(before, at)
    BY <1>7 DEF Mark, Do, input, t
  <2>5. before' \in Seq(0 .. at') /\ b2 = b + 1 /\ b \in Int
    <3>1. at \in 0 .. at
      BY <1>0
    <3> QED BY <1>0, <2>4, <3>1 DEF b
  <2>6. y \in Marks /\ One(y, Levels) = 0 /\ One(y, Loops) = 0 /\ One(y, Marks) = 1
        /\ y \notin {"unit", "more", "no_struct"} \cup Methods
    BY HeldOnes DEF Marks, Methods
  <2> HIDE DEF y, v, u, b2
  <2>7. IsStack(t1) /\ Kept(t1, cx, b)
    <3>1. /\ cx.depth = cx.depth + One(x, Levels) /\ cx.loop_depth = cx.loop_depth + One(x, Loops)
          /\ b = b + One(x, Marks) /\ x # "more" /\ (x = "unit" => t = <<>>)
          /\ x \in Methods => Later(t, 0, {"fn_end"})
          /\ x = "no_struct" => cx.no_struct
      BY <1>0, <1>2, <1>3, <1>4, <2>5
    <3> QED BY <1>0, <1>5, <2>5, <3>1, KeptPushOne
  <2> DEFINE t2 == q \o t1
  <2>8. IsStack(t2) /\ Kept(t2, cx, b2)
    <3> HIDE DEF t1
    <3>1. /\ cx.depth = cx.depth + One(y, Levels) /\ cx.loop_depth = cx.loop_depth + One(y, Loops)
          /\ b2 = b + One(y, Marks) /\ y # "more" /\ (y = "unit" => t1 = <<>>)
          /\ y \in Methods => Later(t1, 0, {"fn_end"})
          /\ y = "no_struct" => cx.no_struct
      BY <1>0, <2>5, <2>6
    <3> QED BY <1>0, <2>5, <2>7, <3>1, KeptPushOne
  <2>9. IsStack(v \o t2) /\ Kept(v \o t2, cx, b2)
    <3> HIDE DEF t2
    <3> QED BY <2>3, <2>8, KeptPush
  <2>10. u \o t = v \o t2
    <3> DEFINE r == <<y, x>>
    <3>1. IsStack(p) /\ IsStack(q) /\ IsStack(v)
      BY <2>3, TallyOne DEF Harmless
    <3>2. u = v \o r /\ r = q \o p
      BY <2>1, <2>2
    <3> HIDE DEF p, q, r
    <3>3. IsStack(r)
      <4>1. IsStack(q \o p)
        BY <3>1, ConcatIs
      <4> QED BY <3>2, <4>1
    <3>4. (v \o r) \o t = v \o (r \o t)
      BY <1>5, <3>1, <3>3, Regroup
    <3>5. (q \o p) \o t = q \o (p \o t)
      BY <1>5, <3>1, Regroup
    <3> QED BY <3>2, <3>4, <3>5
  <2> HIDE DEF t2
  <2> QED BY <1>0, <2>4, <2>5, <2>9, <2>10 DEF StackInv, b2
<1> QED BY <1>6, <1>7 DEF Unit

-----------------------------------------------------------------------------
(* The invariant of the specification.                                       *)

LEMMA NothingIsKept ==
    ASSUME NEW c, c.depth = 0, c.loop_depth = 0, ~ c.in_method, ~ c.in_stream, ~ c.no_struct
    PROVE  IsStack(<<>>) /\ Kept(<<>>, c, 0)
<1>1. IsStack(<<>>) /\ Len(<<>>) = 0
  BY NothingIsHarmless DEF Harmless
<1> DEFINE s == <<>>
<1>2. IsStack(s) /\ Len(s) = 0
  BY <1>1
<1> HIDE DEF s
<1>3. \A W : Tally(s, W) = 0
  <2> SUFFICES ASSUME NEW W PROVE Tally(s, W) = 0
    OBVIOUS
  <2>1. \A j \in 1 .. Len(s) : s[j] \notin W
    BY <1>2
  <2> QED BY <1>2, <2>1, TallyIsNat
<1>4. Kept(s, c, 0)
  BY <1>2, <1>3 DEF Kept, GoesOn
<1> QED BY <1>2, <1>4 DEF s

LEMMA InitKeeps ==
    ASSUME Init
    PROVE  StackInv
<1> DEFINE x == "unit"
           v == <<"advance", "skip_newlines">>
           p == <<x>>
           t == <<>>
           t1 == p \o t
<1>1. /\ cx.depth = 0 /\ cx.loop_depth = 0 /\ ~ cx.in_method /\ ~ cx.in_stream /\ ~ cx.no_struct
      /\ cx \in Contexts /\ cx.depth <= MaxDepth
  BY ParserAssumption DEF Init, Contexts
<1>2. IsStack(t) /\ Kept(t, cx, 0)
  BY <1>1, NothingIsKept
<1>3. One(x, Levels) = 0 /\ One(x, Loops) = 0 /\ One(x, Marks) = 0
  BY HeldOnes
<1>4. x \notin {"no_struct", "more"} \cup Methods
  BY DEF Methods
<1>5. t1 = p
  BY JustOne
<1>6. IsStack(t1) /\ Kept(t1, cx, 0)
  <2>1. t = <<>>
    OBVIOUS
  <2> HIDE DEF x, t
  <2>2. /\ cx.depth = cx.depth + One(x, Levels) /\ cx.loop_depth = cx.loop_depth + One(x, Loops)
        /\ 0 = 0 + One(x, Marks) /\ x # "more" /\ (x = "unit" => t = <<>>)
        /\ x \in Methods => Later(t, 0, {"fn_end"})
        /\ x = "no_struct" => cx.no_struct
        /\ cx.depth \in Int /\ cx.loop_depth \in Int /\ 0 \in Int
    BY <1>1, <1>3, <1>4, <2>1
  <2> QED BY <1>2, <2>2, KeptPushOne
<1>7. Harmless(v)
  <2>1. v \in Seq(PlainWords)
    BY DEF PlainWords
  <2> QED BY <2>1, HarmlessList
<1>8. todo = v \o p
  BY Split2And1 DEF Init
<1> HIDE DEF t1, v, p
<1>9. IsStack(v \o t1) /\ Kept(v \o t1, cx, 0)
  BY <1>6, <1>7, KeptPush
<1>10. before = <<>> /\ at = 0 /\ before \in Seq(0 .. at) /\ Len(before) = 0
  BY DEF Init
<1>11. IsStack(todo) /\ Kept(todo, cx, Len(before))
  BY <1>5, <1>8, <1>9, <1>10
<1> QED BY <1>1, <1>10, <1>11 DEF StackInv

LEMMA NextKeeps ==
    ASSUME StackInv, [Next]_vars
    PROVE  StackInv'
<1>1. CASE UNCHANGED vars
  BY <1>1 DEF StackInv, vars, input
<1>2. CASE \/ Advance \/ Expect \/ SkipNewlines \/ ExpectStmtEnd \/ Synchronize \/ EnsureProgress
           \/ ForceAdvance \/ DepthLeave \/ Return \/ Restore \/ More
  BY <1>2, AdvanceKeeps, ExpectKeeps, SkipNewlinesKeeps, ExpectStmtEndKeeps, SynchronizeKeeps,
     EnsureProgressKeeps, ForceAdvanceKeeps, DepthLeaveKeeps, ReturnKeeps, RestoreKeeps, MoreKeeps
<1>3. CASE \/ String \/ Path \/ AName \/ TypeRef \/ Pattern
           \/ Expr \/ Compare \/ Binary \/ Cast \/ Not \/ Unary \/ Coalesce \/ Elements \/ FieldInits
           \/ Lambda \/ Primary \/ Drop \/ Postfix
  BY <1>3, StringKeeps, PathKeeps, ANameKeeps, TypeRefKeeps, PatternKeeps, ExprKeeps, CompareKeeps,
     BinaryKeeps, CastKeeps, NotKeeps, UnaryKeeps, CoalesceKeeps, ElementsKeeps, FieldInitsKeeps,
     LambdaKeeps, PrimaryKeeps, DropKeeps, PostfixKeeps
<1>4. CASE \/ Element \/ EndElement \/ Attributes \/ TagEnd \/ Children \/ Strays \/ ClosingTag
           \/ Ctrl \/ Arms
  BY <1>4, ElementKeeps, DepthLeaveKeeps, AttributesKeeps, TagEndKeeps, ChildrenKeeps, StraysKeeps,
     ClosingTagKeeps, CtrlKeeps, ArmsKeep
<1>5. CASE \/ Attrs \/ Cond \/ LetType \/ If \/ MatchArms \/ LoopBody \/ Stmt \/ Block \/ Stmts
           \/ Params \/ Default \/ FnName \/ TypeDecl \/ HttpMethod \/ Quoted \/ Stream \/ GroupItems
           \/ Decl \/ Unit
  BY <1>5, AttrsKeeps, CondKeeps, LetTypeKeeps, IfKeeps, MatchArmsKeeps, LoopBodyKeeps, StmtKeeps,
     BlockKeeps, StmtsKeeps, ParamsKeeps, DefaultKeeps, FnNameKeeps, TypeDeclKeeps, HttpMethodKeeps,
     QuotedKeeps, StreamKeeps, GroupItemsKeep, DeclKeeps, UnitKeeps
<1> QED BY <1>1, <1>2, <1>3, <1>4, <1>5 DEF Next

(* In every step of every parse the stack says what is to be given back.     *)
LEMMA StackIsKept == Spec => []StackInv
<1>1. Init => StackInv
  BY InitKeeps
<1>2. StackInv /\ [Next]_vars => StackInv'
  BY NextKeeps
<1> QED BY <1>1, <1>2, PTL DEF Spec

LEMMA CountsAreTallies ==
    ASSUME IsStack(todo)
    PROVE  /\ Count("leave") + Count("end_element") = Tally(todo, Levels)
           /\ Count("loop_end") = Tally(todo, Loops)
<1> DEFINE A(W) == {j \in 1 .. Len(todo) : todo[j] \in W}
<1>1. DOMAIN todo = 1 .. Len(todo)
  BY DEF IsStack
<1>2. \A x : Count(x) = Cardinality(A({x}))
  <2> SUFFICES ASSUME NEW x PROVE Count(x) = Cardinality(A({x}))
    OBVIOUS
  <2>1. {j \in DOMAIN todo : todo[j] = x} = A({x})
    BY <1>1
  <2> QED BY <2>1 DEF Count
<1>3. \A W : IsFiniteSet(A(W)) /\ Cardinality(A(W)) \in Nat
  BY TallyIsNat, FS_CardinalityType
<1>4. A(Levels) = A({"leave"}) \cup A({"end_element"}) /\ A({"leave"}) \cap A({"end_element"}) = {}
  BY DEF Levels
<1>5. Cardinality(A(Levels)) = Cardinality(A({"leave"})) + Cardinality(A({"end_element"}))
  <2> DEFINE a == A({"leave"})
             e == A({"end_element"})
  <2>1. IsFiniteSet(a) /\ IsFiniteSet(e) /\ Cardinality(a) \in Nat /\ Cardinality(e) \in Nat
        /\ a \cap e = {} /\ A(Levels) = a \cup e
    BY <1>3, <1>4
  <2> HIDE DEF a, e, A
  <2>2. Cardinality(a \cup e) = Cardinality(a) + Cardinality(e) - Cardinality(a \cap e)
    BY <2>1, FS_Union
  <2>3. Cardinality(a \cap e) = 0
    BY <2>1, FS_EmptySet
  <2>4. Cardinality(A(Levels)) = Cardinality(a) + Cardinality(e)
    BY <2>1, <2>2, <2>3
  <2> QED BY <2>4 DEF a, e
<1>6. Tally(todo, Levels) = Cardinality(A(Levels)) /\ Tally(todo, Loops) = Cardinality(A({"loop_end"}))
  BY DEF Tally, Loops
<1> HIDE DEF A
<1> QED BY <1>2, <1>5, <1>6

LEMMA TypedByStack ==
    ASSUME StackInv
    PROVE  TypeOK
<1>1. IsStack(todo) /\ cx.depth = Tally(todo, Levels) /\ cx.loop_depth = Tally(todo, Loops)
      /\ cx.depth <= MaxDepth /\ at \in Nat /\ before \in Seq(0 .. at)
  BY DEF StackInv, Kept
<1>2. Tally(todo, Levels) \in Nat
  BY <1>1, TallyIsNat
<1>3. \A j \in DOMAIN before : before[j] \in 0 .. at
  <2> DEFINE S == 0 .. at
  <2>1. before \in Seq(S)
    BY <1>1
  <2> HIDE DEF S
  <2>2. \A j \in DOMAIN before : before[j] \in S
    BY <2>1
  <2> QED BY <2>2 DEF S
<1>4. cx.depth \in 0 .. MaxDepth
  BY <1>1, <1>2, ParserAssumption
<1> QED BY <1>1, <1>3, <1>4, CountsAreTallies DEF TypeOK

LEMMA CleanByStack ==
    ASSUME StackInv
    PROVE  CleanBetweenDeclarations
<1> SUFFICES ASSUME At("unit") \/ Done
             PROVE  /\ cx.depth = 0 /\ cx.loop_depth = 0 /\ before = <<>>
                    /\ ~ cx.in_method /\ ~ cx.in_stream /\ ~ cx.no_struct
  BY DEF CleanBetweenDeclarations
<1>1. IsStack(todo) /\ Kept(todo, cx, Len(before)) /\ before \in Seq(0 .. at)
  BY DEF StackInv
<1>2. Len(todo) \in Nat /\ \A j \in 1 .. Len(todo) : todo[j] = "unit"
  <2>1. CASE Done
    <3>1. todo = <<>> /\ Len(<<>>) = 0
      BY <2>1 DEF Done
    <3> QED BY <3>1
  <2>2. CASE At("unit")
    <3>1. Len(todo) \in Nat /\ Len(todo) >= 1 /\ todo[1] = "unit"
      BY <1>1, <2>2, TailIs DEF At
    <3>2. \A j \in 1 .. Len(todo) : todo[j] = "unit" => j = Len(todo)
      BY <1>1 DEF Kept
    <3>3. 1 \in 1 .. Len(todo)
      BY <3>1
    <3>4. Len(todo) = 1
      BY <3>1, <3>2, <3>3
    <3> QED BY <3>1, <3>4
  <2> QED BY <2>1, <2>2
<1>3. \A W : "unit" \notin W => Tally(todo, W) = 0 /\ ~ Later(todo, 0, W)
  <2> SUFFICES ASSUME NEW W, "unit" \notin W PROVE Tally(todo, W) = 0 /\ ~ Later(todo, 0, W)
    OBVIOUS
  <2>1. \A j \in 1 .. Len(todo) : todo[j] \notin W
    BY <1>2
  <2>2. Tally(todo, W) = 0
    BY <1>1, <2>1, TallyIsNat
  <2> QED BY <2>1, <2>2 DEF Later
<1>4. "unit" \notin Levels /\ "unit" \notin Loops /\ "unit" \notin Marks /\ "unit" \notin Flags
      /\ "unit" \notin {"fn_end"} /\ "unit" \notin {"stream_end"}
  BY DEF Levels, Loops, Marks, Flags
<1>5. /\ cx.depth = 0 /\ cx.loop_depth = 0 /\ Len(before) = 0
      /\ ~ cx.in_method /\ ~ cx.in_stream /\ ~ cx.no_struct
  BY <1>1, <1>3, <1>4 DEF Kept
<1>6. before = <<>>
  BY <1>1, <1>5, EmptySeq
<1> QED BY <1>5, <1>6

(* For every depth bound and every stream of tokens: the depth stays within  *)
(* the bound and is what the functions still to return will give back, and   *)
(* no loop remembers a position the parser has not reached (depth_enter,     *)
(* depth_leave, ensure_progress).                                            *)
THEOREM ParserIsTyped == Spec => []TypeOK
<1>1. StackInv => TypeOK
  BY TypedByStack
<1> QED BY <1>1, StackIsKept, PTL

(* Between two declarations the parser is as it was at the start: every      *)
(* function gave back the depth, the loops and the flags it took, whichever  *)
(* of its returns it left by (parse_unit and all that it calls).             *)
THEOREM CleanBetween == Spec => []CleanBetweenDeclarations
<1>1. StackInv => CleanBetweenDeclarations
  BY CleanByStack
<1> QED BY <1>1, StackIsKept, PTL

-----------------------------------------------------------------------------
(* What holds as long as nothing was reported.                               *)

Steers == {"synchronize", "force", "to_ctrl_end", "drop"}
Openers ==
    {"stmt", "decl", "declaration", "expr", "not", "unary", "primary", "advance", "element_entering"}
SeamWords == {"advance", "stmt_end", "skip_newlines", "progress_in_braces", "progress"}

(* Where the loop over statements, or the loop over declarations, stands: the *)
(* item before it is over but for line ends and the check of its progress, or *)
(* all of its end is to come; or nothing was read yet.                        *)
LoopWords == {"stmts", "unit"}
Checks == {"progress_in_braces", "progress"}
Begun(s) == Len(s) >= 3 /\ s[1] = "advance" /\ s[2] = "skip_newlines" /\ s[3] \in LoopWords
Near(s, j) ==
    \/ j = 1
    \/ j = 2 /\ s[1] \in {"skip_newlines"} \cup Checks
    \/ j = 3 /\ s[1] = "skip_newlines" /\ s[2] \in Checks
    \/ j = 3 /\ s[1] = "advance" /\ s[2] = "skip_newlines"
Deep(s, j) == j > 3 /\ s[j - 1] \in Checks /\ s[j - 2] = "skip_newlines" /\ s[j - 3] = "stmt_end"

Steady(s) ==
    /\ \A j \in 1 .. Len(s) : s[j] \notin Steers
    /\ \A j \in 1 .. Len(s) : s[j] = "more" => j < Len(s) /\ s[j + 1] \notin SeamWords
Quiet(s) == Steady(s) /\ \A j \in 1 .. Len(s) : s[j] \in LoopWords => Near(s, j) \/ Deep(s, j)
Apart(s) == Steady(s) /\ \A j \in 1 .. Len(s) : s[j] \in LoopWords => Deep(s, j)
Mild(w) == IsStack(w) /\ Steady(w) /\ \A j \in 1 .. Len(w) : w[j] \notin LoopWords

(* The next thing to be done takes a token or reports one. *)
Promises(s) ==
    \/ Len(s) >= 1 /\ s[1] \in Openers
    \/ Len(s) >= 2 /\ s[1] = "pub" /\ s[2] = "declaration"
    \/ Len(s) >= 3 /\ s[1] = "attrs" /\ s[2] = "pub" /\ s[3] = "declaration"

Rising(b) == \A i, j \in 1 .. Len(b) : i < j => b[i] < b[j]
Owed == tok # "EOF" /\ before # <<>> /\ Last(before) = at
Parted == tok \in {"RBRACE", "EOF"} \/ prev # "other"

SilentInv ==
    /\ Quiet(todo) /\ ~ cx.depth_reported /\ Rising(before)
    /\ Owed => Promises(todo)
    /\ \A j \in 1 .. Len(todo) : todo[j] \in LoopWords /\ Near(todo, j) => Parted
    /\ Begun(todo) => tok = None

HistInv == reported \/ SilentInv
Tells == HistInv' /\ (reported => reported')

-----------------------------------------------------------------------------

LEMMA SteadyConcat ==
    ASSUME NEW v, IsStack(v), Steady(v), NEW t, IsStack(t), Steady(t)
    PROVE  Steady(v \o t)
<1> DEFINE s == v \o t
           m == Len(v)
           n == Len(t)
<1>1. m \in Nat /\ n \in Nat
  BY StackHasLen
<1>2. /\ Len(s) = m + n
      /\ \A j \in 1 .. m : s[j] = v[j]
      /\ \A j \in 1 .. n : s[m + j] = t[j]
      /\ \A j \in 1 .. m + n : j \in 1 .. m \/ (j - m \in 1 .. n /\ s[j] = t[j - m])
  BY ConcatIs
<1>3. /\ \A j \in 1 .. m : v[j] \notin Steers
      /\ \A j \in 1 .. n : t[j] \notin Steers
      /\ \A j \in 1 .. m : v[j] = "more" => j < m /\ v[j + 1] \notin SeamWords
      /\ \A j \in 1 .. n : t[j] = "more" => j < n /\ t[j + 1] \notin SeamWords
  BY DEF Steady
<1> HIDE DEF s, m, n
<1>4. \A j \in 1 .. Len(s) : s[j] \notin Steers
  BY <1>2, <1>3
<1>5. ASSUME NEW j \in 1 .. Len(s), s[j] = "more" PROVE j < Len(s) /\ s[j + 1] \notin SeamWords
  <2>1. CASE j \in 1 .. m
    <3>1. j < m /\ v[j + 1] \notin SeamWords
      BY <1>2, <1>3, <1>5, <2>1
    <3>2. j + 1 \in 1 .. m /\ j < m + n
      BY <1>1, <2>1, <3>1
    <3> QED BY <1>2, <3>1, <3>2
  <2>2. CASE j \notin 1 .. m
    <3>1. j - m \in 1 .. n /\ t[j - m] = "more"
      BY <1>2, <1>5, <2>2
    <3>2. j - m < n /\ t[(j - m) + 1] \notin SeamWords
      BY <1>3, <3>1
    <3>3. (j - m) + 1 \in 1 .. n /\ m + ((j - m) + 1) = j + 1 /\ j < m + n
      BY <1>1, <3>1, <3>2
    <3> QED BY <1>2, <3>2, <3>3
  <2> QED BY <2>1, <2>2
<1>6. Steady(s)
  BY <1>4, <1>5 DEF Steady
<1> QED BY <1>6 DEF s

LEMMA MildConcat ==
    ASSUME NEW v, Mild(v), NEW w, Mild(w)
    PROVE  Mild(v \o w)
<1> DEFINE s == v \o w
           m == Len(v)
           n == Len(w)
<1>1. IsStack(v) /\ IsStack(w) /\ Steady(v) /\ Steady(w)
      /\ (\A j \in 1 .. m : v[j] \notin LoopWords) /\ \A j \in 1 .. n : w[j] \notin LoopWords
  BY DEF Mild
<1>2. /\ IsStack(s) /\ Len(s) = m + n
      /\ \A j \in 1 .. m : s[j] = v[j]
      /\ \A j \in 1 .. m + n : j \in 1 .. m \/ (j - m \in 1 .. n /\ s[j] = w[j - m])
  BY <1>1, ConcatIs
<1>3. Steady(s)
  BY <1>1, SteadyConcat
<1> HIDE DEF s, m, n
<1>4. Mild(s)
  BY <1>1, <1>2, <1>3 DEF Mild
<1> QED BY <1>4 DEF s

(* Behind what is put before it each loop over statements stands as it did.  *)
LEMMA DeepConcat ==
    ASSUME NEW v, IsStack(v), Steady(v), NEW t, IsStack(t), Apart(t)
    PROVE  /\ IsStack(v \o t) /\ Steady(v \o t)
           /\ \A j \in 1 .. Len(v \o t) : (v \o t)[j] \in LoopWords => j \in 1 .. Len(v) \/ Deep(v \o t, j)
<1> DEFINE s == v \o t
           m == Len(v)
           n == Len(t)
<1>1. m \in Nat /\ n \in Nat
  BY StackHasLen
<1>2. /\ IsStack(s) /\ Len(s) = m + n
      /\ \A j \in 1 .. n : s[m + j] = t[j]
      /\ \A j \in 1 .. m + n : j \in 1 .. m \/ (j - m \in 1 .. n /\ s[j] = t[j - m])
  BY ConcatIs
<1>3. Steady(s)
  BY SteadyConcat DEF Apart
<1>4. \A j \in 1 .. n : t[j] \in LoopWords => Deep(t, j)
  BY DEF Apart
<1> HIDE DEF s, m, n
<1>5. ASSUME NEW j \in 1 .. Len(s), s[j] \in LoopWords, j \notin 1 .. m PROVE Deep(s, j)
  <2>1. j - m \in 1 .. n /\ s[j] = t[j - m]
    BY <1>2, <1>5
  <2> DEFINE k == j - m
  <2>2. k \in 1 .. n /\ j = m + k /\ Deep(t, k)
    BY <1>1, <1>4, <1>5, <2>1
  <2> HIDE DEF k
  <2>3. /\ k > 3 /\ t[k - 1] \in Checks /\ t[k - 2] = "skip_newlines"
        /\ t[k - 3] = "stmt_end"
    BY <2>2 DEF Deep
  <2>4. /\ k - 1 \in 1 .. n /\ k - 2 \in 1 .. n /\ k - 3 \in 1 .. n /\ j > 3
        /\ m + (k - 1) = j - 1 /\ m + (k - 2) = j - 2 /\ m + (k - 3) = j - 3
    BY <1>1, <2>2, <2>3
  <2>5. s[j - 1] = t[k - 1] /\ s[j - 2] = t[k - 2] /\ s[j - 3] = t[k - 3]
    BY <1>2, <2>4
  <2> QED BY <2>3, <2>4, <2>5 DEF Deep
<1>6. \A j \in 1 .. Len(s) : s[j] \in LoopWords => j \in 1 .. m \/ Deep(s, j)
  BY <1>5
<1> QED BY <1>2, <1>3, <1>6 DEF s, m

LEMMA ApartConcat ==
    ASSUME NEW v, Mild(v), NEW t, IsStack(t), Apart(t)
    PROVE  IsStack(v \o t) /\ Apart(v \o t)
<1> DEFINE s == v \o t
<1>1. IsStack(v) /\ Steady(v) /\ \A j \in 1 .. Len(v) : v[j] \notin LoopWords
  BY DEF Mild
<1>2. \A j \in 1 .. Len(v) : s[j] = v[j]
  BY <1>1, ConcatIs
<1>3. /\ IsStack(s) /\ Steady(s)
      /\ \A j \in 1 .. Len(s) : s[j] \in LoopWords => j \in 1 .. Len(v) \/ Deep(s, j)
  BY <1>1, DeepConcat
<1> HIDE DEF s
<1>4. Apart(s)
  BY <1>1, <1>2, <1>3 DEF Apart
<1> QED BY <1>3, <1>4 DEF s

LEMMA SteadyTail ==
    ASSUME NEW s, IsStack(s), s # <<>>, Steady(s)
    PROVE  Steady(Tail(s))
<1> DEFINE t == Tail(s)
           m == Len(s)
<1>1. m \in Nat /\ m >= 1 /\ Len(t) = m - 1 /\ \A j \in 1 .. m - 1 : t[j] = s[j + 1]
  BY TailIs
<1>2. /\ \A j \in 1 .. m : s[j] \notin Steers
      /\ \A j \in 1 .. m : s[j] = "more" => j < m /\ s[j + 1] \notin SeamWords
  BY DEF Steady
<1> HIDE DEF t, m
<1>3. \A j \in 1 .. m - 1 : j + 1 \in 1 .. m
  BY <1>1
<1>4. \A j \in 1 .. Len(t) : t[j] \notin Steers
  BY <1>1, <1>2, <1>3
<1>5. ASSUME NEW j \in 1 .. Len(t), t[j] = "more" PROVE j < Len(t) /\ t[j + 1] \notin SeamWords
  <2>1. j + 1 \in 1 .. m /\ s[j + 1] = "more"
    BY <1>1, <1>3, <1>5
  <2>2. j + 1 < m /\ s[(j + 1) + 1] \notin SeamWords
    BY <1>2, <2>1
  <2>3. j + 1 \in 1 .. m - 1 /\ j < m - 1
    BY <1>1, <1>5, <2>2
  <2> QED BY <1>1, <2>2, <2>3
<1>6. Steady(t)
  BY <1>4, <1>5 DEF Steady
<1> QED BY <1>6 DEF t

(* A word that is not of the end of an item leaves no loop near.             *)
LEMMA ApartTail ==
    ASSUME NEW s, IsStack(s), s # <<>>, Quiet(s),
           Head(s) \notin SeamWords \/ (Head(s) = "advance" /\ ~ Begun(s))
    PROVE  IsStack(Tail(s)) /\ Apart(Tail(s))
<1> DEFINE t == Tail(s)
           m == Len(s)
<1>1. /\ IsStack(t) /\ m \in Nat /\ m >= 1 /\ Len(t) = m - 1 /\ Head(s) = s[1]
      /\ \A j \in 1 .. m - 1 : t[j] = s[j + 1]
  BY TailIs
<1>2. Steady(t) /\ \A j \in 1 .. m : s[j] \in LoopWords => Near(s, j) \/ Deep(s, j)
  BY SteadyTail DEF Quiet
<1> HIDE DEF t, m
<1>3. /\ s[1] \notin {"stmt_end", "skip_newlines"} \cup Checks
      /\ s[1] = "advance" => ~ Begun(s)
  BY <1>1 DEF SeamWords, Checks
<1>4. ASSUME NEW j \in 1 .. Len(t), t[j] \in LoopWords PROVE Deep(t, j)
  <2>1. j + 1 \in 1 .. m /\ s[j + 1] \in LoopWords /\ j + 1 # 1
    BY <1>1, <1>4
  <2>2. ~ Near(s, j + 1)
    <3>1. CASE j + 1 = 3
      <4>1. s[3] \in LoopWords /\ Len(s) >= 3
        BY <1>1, <2>1, <3>1 DEF m
      <4>2. ~ (s[1] = "advance" /\ s[2] = "skip_newlines")
        BY <1>3, <4>1 DEF Begun
      <4> QED BY <1>3, <3>1, <4>2 DEF Near
    <3>2. CASE j + 1 # 3
      BY <1>3, <2>1, <3>2 DEF Near
    <3> QED BY <3>1, <3>2
  <2>3. Deep(s, j + 1)
    BY <1>2, <2>1, <2>2
  <2>4. /\ j + 1 > 3 /\ s[(j + 1) - 1] \in Checks /\ s[(j + 1) - 2] = "skip_newlines"
        /\ s[(j + 1) - 3] = "stmt_end"
    BY <2>3 DEF Deep
  <2>5. j + 1 # 4
    <3>1. j + 1 = 4 => (j + 1) - 3 = 1
      OBVIOUS
    <3> QED BY <1>3, <2>4, <3>1
  <2>6. j > 3 /\ j - 1 \in 1 .. m - 1 /\ j - 2 \in 1 .. m - 1 /\ j - 3 \in 1 .. m - 1
        /\ (j - 1) + 1 = (j + 1) - 1 /\ (j - 2) + 1 = (j + 1) - 2 /\ (j - 3) + 1 = (j + 1) - 3
    BY <1>1, <2>1, <2>4, <2>5
  <2>7. t[j - 1] = s[(j + 1) - 1] /\ t[j - 2] = s[(j + 1) - 2] /\ t[j - 3] = s[(j + 1) - 3]
    BY <1>1, <2>6
  <2> QED BY <2>4, <2>6, <2>7 DEF Deep
<1>5. Apart(t)
  BY <1>2, <1>4 DEF Apart
<1> QED BY <1>1, <1>5 DEF t

LEMMA ApartIs ==
    ASSUME NEW s, IsStack(s), Apart(s)
    PROVE  /\ Quiet(s) /\ ~ Begun(s)
           /\ \A j \in 1 .. Len(s) : s[j] \in LoopWords => ~ Near(s, j)
<1>1. Steady(s) /\ \A j \in 1 .. Len(s) : s[j] \in LoopWords => Deep(s, j)
  BY DEF Apart
<1>2. ASSUME NEW j \in 1 .. Len(s), Deep(s, j) PROVE ~ Near(s, j)
  BY <1>2 DEF Deep, Near
<1>3. ASSUME Begun(s) PROVE FALSE
  <2>1. Len(s) \in Nat /\ Len(s) >= 3 /\ s[3] \in LoopWords
    BY <1>3, StackHasLen DEF Begun
  <2>2. Deep(s, 3)
    BY <1>1, <2>1
  <2> QED BY <2>2 DEF Deep
<1> QED BY <1>1, <1>2, <1>3 DEF Quiet

-----------------------------------------------------------------------------
(* Steps.                                                                    *)

LEMMA TakeIs ==
    ASSUME at \in Nat, NEW o, TakeIn(o)
    PROVE  /\ at' = at + 1 \/ (at' = at /\ tok' = "EOF")
           /\ prev' = IF tok \in {None, "NEWLINE", "LBRACE"} THEN tok ELSE "other"
<1>1. CASE tok = "EOF"
  BY <1>1 DEF TakeIn, Upcoming
<1>2. CASE tok # "EOF"
  BY <1>2 DEF TakeIn
<1> QED BY <1>1, <1>2 DEF TakeIn

LEMMA LastIs ==
    ASSUME StackInv, before # <<>>
    PROVE  Last(before) = before[Len(before)] /\ Len(before) \in Nat /\ Len(before) >= 1 /\ Last(before) <= at
<1>1. before \in Seq(0 .. at) /\ at \in Nat
  BY DEF StackInv
<1> DEFINE S == 0 .. at
           n == Len(before)
<1>2. n \in Nat /\ n # 0
  BY <1>1, EmptySeq
<1>3. n \in 1 .. n
  BY <1>2
<1>4. before[n] \in S
  <2> HIDE DEF S
  <2>1. before \in Seq(S)
    BY <1>1 DEF S
  <2> QED BY <1>3, <2>1
<1> QED BY <1>1, <1>2, <1>4 DEF Last

(* The general step: no loop over statements comes near. *)
LEMMA QuietStep ==
    ASSUME StackInv, HistInv, SilentInv => IsStack(todo') /\ Apart(todo'),
           before' = before, reported' = reported, cx'.depth_reported = cx.depth_reported,
           (at' = at + 1 \/ (at' = at /\ (tok' = tok \/ tok' = "EOF"))),
           (at' = at + 1 \/ tok' = "EOF" \/ ~ Promises(todo) \/ Promises(todo'))
    PROVE  Tells
<1>1. SUFFICES ASSUME ~ reported PROVE SilentInv'
  BY DEF Tells, HistInv
<1>2. SilentInv /\ at \in Nat
  BY <1>1 DEF HistInv, StackInv
<1>5. /\ Quiet(todo') /\ ~ Begun(todo')
      /\ \A j \in 1 .. Len(todo') : todo'[j] \in LoopWords => ~ Near(todo', j)
  BY <1>2, ApartIs
<1>6. Rising(before') /\ ~ cx'.depth_reported
  BY <1>2 DEF SilentInv
<1>7. ASSUME tok' # "EOF", before' # <<>>, Last(before') = at' PROVE Promises(todo')
  <2>1. at' = at
    <3>1. Last(before) <= at
      BY <1>7, LastIs
    <3> QED BY <1>2, <1>7, <3>1
  <2>2. tok' = tok /\ Owed
    BY <1>2, <1>7, <2>1 DEF Owed
  <2>3. Promises(todo)
    BY <1>2, <2>2 DEF SilentInv
  <2>4. at' # at + 1
    BY <1>2, <2>1
  <2> QED BY <1>7, <2>3, <2>4
<1> QED BY <1>5, <1>6, <1>7 DEF SilentInv, Owed

LEMMA QuietDo ==
    ASSUME StackInv, HistInv, todo # <<>>, Head(todo) \notin SeamWords,
           NEW w, Mild(w), Do(w), before' = before, reported' = reported,
           cx'.depth_reported = cx.depth_reported,
           (at' = at + 1 \/ (at' = at /\ (tok' = tok \/ tok' = "EOF"))),
           (at' = at + 1 \/ tok' = "EOF" \/ ~ Promises(todo) \/ Promises(todo'))
    PROVE  Tells
<1>1. todo' = w \o Tail(todo) /\ IsStack(todo)
  BY DEF Do, StackInv
<1>2. ASSUME SilentInv PROVE IsStack(todo') /\ Apart(todo')
  <2>1. Quiet(todo)
    BY <1>2 DEF SilentInv
  <2>2. IsStack(Tail(todo)) /\ Apart(Tail(todo))
    BY <1>1, <2>1, ApartTail
  <2> QED BY <1>1, <2>2, ApartConcat
<1> QED BY <1>2, QuietStep

Modest == todo # <<>> /\ Head(todo) \notin SeamWords /\ ~ Promises(todo)

LEMMA Reports ==
    ASSUME HistInv, NEW w, NEW k
    PROVE  /\ Unexpected(w) => Tells
           /\ Report(w) => Tells
           /\ EatReporting(w) => Tells
           /\ TooDeep => Tells
<1>1. (Unexpected(w) \/ Report(w) \/ EatReporting(w)) => reported'
  BY DEF Unexpected, Report, EatReporting
<1>2. ASSUME TooDeep PROVE reported'
  <2>1. reported' = (reported \/ ~ cx.depth_reported)
    BY <1>2 DEF TooDeep
  <2>2. reported \/ ~ cx.depth_reported
    BY DEF HistInv, SilentInv
  <2> QED BY <2>1, <2>2
<1>3. reported' => Tells
  BY DEF Tells, HistInv
<1> QED BY <1>1, <1>2, <1>3

(* What is in Steers is left to do only where something was reported.        *)
LEMMA Steering ==
    ASSUME StackInv, HistInv, NEW x \in Steers, At(x)
    PROVE  reported
<1>1. todo # <<>> /\ Head(todo) = x /\ IsStack(todo)
  BY DEF At, StackInv
<1>2. Len(todo) >= 1 /\ Len(todo) \in Nat /\ todo[1] = x
  BY <1>1, TailIs
<1>3. 1 \in 1 .. Len(todo)
  BY <1>2
<1>4. SilentInv => todo[1] \notin Steers
  BY <1>3 DEF SilentInv, Quiet, Steady
<1> QED BY <1>2, <1>4 DEF HistInv

LEMMA SteersOn ==
    ASSUME StackInv, HistInv, NEW x \in Steers, At(x), reported' = reported
    PROVE  Tells
BY Steering DEF Tells, HistInv

LEMMA EatIs ==
    ASSUME at \in Nat, Take
    PROVE  at' = at + 1 \/ (at' = at /\ tok' = "EOF")
BY TakeIs DEF Take

(* A step that takes a token. *)
LEMMA EagerSteps ==
    ASSUME StackInv, HistInv, todo # <<>>, Head(todo) \notin SeamWords, NEW w, Mild(w)
    PROVE  /\ Eat(w) => Tells
           /\ Promises(w \o Tail(todo)) /\ Go(w) => Tells
           /\ Promises(w \o Tail(todo)) /\ Do(w) /\ UNCHANGED <<tok, at, before, cx, reported>> => Tells
           /\ \A c : EatIn(c, w) /\ c.depth_reported = cx.depth_reported => Tells
           /\ \A c : Promises(w \o Tail(todo)) /\ GoIn(c, w) /\ c.depth_reported = cx.depth_reported => Tells
<1>0. at \in Nat
  BY DEF StackInv
<1>1. ASSUME Eat(w) PROVE Tells
  <2>1. /\ Do(w) /\ before' = before /\ reported' = reported
        /\ cx'.depth_reported = cx.depth_reported
        /\ at' = at + 1 \/ (at' = at /\ tok' = "EOF")
    BY <1>0, <1>1, EatIs DEF Eat
  <2> QED BY <2>1, QuietDo
<1>2. ASSUME Promises(w \o Tail(todo)), Do(w), UNCHANGED <<tok, at, before, cx, reported>> PROVE Tells
  <2>1. Promises(todo')
    BY <1>2 DEF Do
  <2> QED BY <1>2, <2>1, QuietDo
<1>3. Go(w) => Do(w) /\ UNCHANGED <<tok, at, before, cx, reported>>
  BY DEF Go, input
<1>4. ASSUME NEW c, EatIn(c, w), c.depth_reported = cx.depth_reported PROVE Tells
  <2>1. /\ Do(w) /\ before' = before /\ reported' = reported
        /\ cx'.depth_reported = cx.depth_reported
        /\ at' = at + 1 \/ (at' = at /\ tok' = "EOF")
    BY <1>0, <1>4, EatIs DEF EatIn
  <2> QED BY <2>1, QuietDo
<1>5. ASSUME NEW c, Promises(w \o Tail(todo)), GoIn(c, w), c.depth_reported = cx.depth_reported
      PROVE  Tells
  <2>1. /\ Do(w) /\ UNCHANGED <<tok, at, before, reported>> /\ cx'.depth_reported = cx.depth_reported
        /\ Promises(todo')
    BY <1>5 DEF GoIn, input, Do
  <2> QED BY <2>1, QuietDo
<1> QED BY <1>1, <1>2, <1>3, <1>4, <1>5

LEMMA ModestSteps ==
    ASSUME StackInv, HistInv, Modest, NEW w, Mild(w)
    PROVE  /\ Go(w) => Tells
           /\ Eat(w) => Tells
           /\ \A c : GoIn(c, w) /\ c.depth_reported = cx.depth_reported => Tells
<1>1. ASSUME NEW c, Do(w), UNCHANGED <<tok, at, before, reported>>, cx' = c,
             c.depth_reported = cx.depth_reported
      PROVE  Tells
  BY <1>1, QuietDo DEF Modest
<1>2. Go(w) => Do(w) /\ UNCHANGED <<tok, at, before, cx, reported>>
  BY DEF Go, input
<1>3. \A c : GoIn(c, w) => Do(w) /\ UNCHANGED <<tok, at, before, reported>> /\ cx' = c
  BY DEF GoIn, input
<1> QED BY <1>1, <1>2, <1>3, EagerSteps DEF Modest

LEMMA ModestPeek ==
    ASSUME StackInv, HistInv, Modest, NEW w, Mild(w), Do(w),
           UNCHANGED <<tok, open, at, prev, cx, before, said, reported>>
    PROVE  Tells
BY QuietDo DEF Modest

LEMMA NothingIsMild == Mild(<<>>)
<1>1. <<>> \in Seq({}) /\ Len(<<>>) = 0
  OBVIOUS
<1> QED BY <1>1 DEF Mild, Steady, IsStack

LEMMA ModestChoices ==
    ASSUME StackInv, HistInv, Modest, NEW w, Mild(w), NEW k
    PROVE  /\ Match(k, w) => Tells
           /\ NameOr(k, w) => Tells
BY ModestSteps, NothingIsMild, Reports DEF Match, NameOr

(* The words that are pushed in silence, but for `more` and for the loop     *)
(* over statements.                                                          *)
CalmWords ==
    {x \in PlainWords \cup {"leave", "end_element", "no_struct", "struct", "fn_name", "fn_end", "receiver",
                           "loop_end", "stream_end", "progress", "progress_in_braces"} :
        x \notin Steers \cup {"stmts", "unit"}}

LEMMA MildList ==
    ASSUME NEW w \in Seq(CalmWords)
    PROVE  Mild(w)
<1>1. \A x \in CalmWords : x \notin Steers \cup LoopWords /\ x # "more"
  BY DEF CalmWords, PlainWords, LoopWords
<1>2. \A j \in 1 .. Len(w) : w[j] \in CalmWords
  OBVIOUS
<1>3. IsStack(w)
  BY DEF IsStack
<1> QED BY <1>1, <1>2, <1>3 DEF Mild, Steady

(* The words whose step need not take a token. *)
ModestWords == {x \in PlainWords \cup {"more", "leave", "end_element", "no_struct", "struct", "fn_name", "fn_end",
                   "receiver", "loop_end", "stream_end", "unit"} :
                   x \notin Openers \cup SeamWords \cup {"attrs", "pub"}}

LEMMA AtModest ==
    ASSUME StackInv, NEW x \in ModestWords, At(x)
    PROVE  Modest
<1>1. todo # <<>> /\ Head(todo) = x /\ IsStack(todo)
  BY DEF At, StackInv
<1>2. todo[1] = x
  BY <1>1, TailIs
<1>3. x \notin Openers \cup SeamWords \cup {"attrs", "pub"}
  BY DEF ModestWords
<1> QED BY <1>1, <1>2, <1>3 DEF Modest, Promises

LEMMA StringTells ==
    ASSUME StackInv, HistInv, String
    PROVE  Tells
<1>1. Modest
  <2>1. "string" \in ModestWords
    BY DEF ModestWords, PlainWords, Openers, SeamWords
  <2> QED BY <2>1, AtModest DEF String
<1>2. <<"string">> \in Seq(CalmWords) /\ <<"expr", "INTERP_END", "string">> \in Seq(CalmWords)
  BY DEF CalmWords, PlainWords, Steers
<1>3. Mild(<<"string">>) /\ Mild(<<"expr", "INTERP_END", "string">>) /\ Mild(<<>>)
  BY <1>2, MildList, NothingIsMild
<1> QED BY <1>1, <1>3, ModestSteps, Reports DEF String

LEMMA PathTells ==
    ASSUME StackInv, HistInv, Path
    PROVE  Tells
<1>1. Modest
  <2>1. "path" \in ModestWords
    BY DEF ModestWords, PlainWords, Openers, SeamWords
  <2> QED BY <2>1, AtModest DEF Path
<1>2. <<"advance", "advance", "path">> \in Seq(CalmWords)
  BY DEF CalmWords, PlainWords, Steers
<1>3. Mild(<<"advance", "advance", "path">>) /\ Mild(<<>>)
  BY <1>2, MildList, NothingIsMild
<1> QED BY <1>1, <1>3, ModestSteps, ModestPeek DEF Path, Peek

LEMMA ANameTells ==
    ASSUME StackInv, HistInv, AName
    PROVE  Tells
<1>1. Modest
  <2>1. "name" \in ModestWords /\ "ident" \in ModestWords
    BY DEF ModestWords, PlainWords, Openers, SeamWords
  <2> QED BY <2>1, AtModest DEF AName
<1> QED BY <1>1, NothingIsMild, ModestSteps, ModestChoices, Reports
  DEF AName

LEMMA PatternTells ==
    ASSUME StackInv, HistInv, Pattern
    PROVE  Tells
<1>1. Modest
  <2>1. "single_pattern" \in ModestWords /\ "no_pattern" \in ModestWords /\ "alternatives" \in ModestWords
    BY DEF ModestWords, PlainWords, Openers, SeamWords
  <2> QED BY <2>1, AtModest DEF Pattern
<1>2. /\ <<"name">> \in Seq(CalmWords)
      /\ <<"string">> \in Seq(CalmWords)
      /\ <<"advance", "advance">> \in Seq(CalmWords)
      /\ <<"no_pattern">> \in Seq(CalmWords)
      /\ <<"single_pattern", "alternatives">> \in Seq(CalmWords)
  BY DEF CalmWords, PlainWords, Steers
<1>3. /\ Mild(<<"name">>)
      /\ Mild(<<"string">>)
      /\ Mild(<<"advance", "advance">>)
      /\ Mild(<<"no_pattern">>)
      /\ Mild(<<"single_pattern", "alternatives">>)
  BY <1>2, MildList
<1> QED BY <1>1, <1>3, NothingIsMild, ModestSteps, ModestChoices, Reports, ModestPeek
  DEF Pattern, Peek

LEMMA CastTells ==
    ASSUME StackInv, HistInv, Cast
    PROVE  Tells
<1>1. Modest
  <2>1. "as" \in ModestWords
    BY DEF ModestWords, PlainWords, Openers, SeamWords
  <2> QED BY <2>1, AtModest DEF Cast
<1>2. /\ <<"type", "as">> \in Seq(CalmWords)
  BY DEF CalmWords, PlainWords, Steers
<1>3. /\ Mild(<<"type", "as">>)
  BY <1>2, MildList
<1> QED BY <1>1, <1>3, NothingIsMild, ModestSteps, ModestChoices, Reports
  DEF Cast

LEMMA FieldInitsTells ==
    ASSUME StackInv, HistInv, FieldInits
    PROVE  Tells
<1>1. Modest
  <2>1. "field_inits" \in ModestWords /\ "field_end" \in ModestWords
    BY DEF ModestWords, PlainWords, Openers, SeamWords
  <2> QED BY <2>1, AtModest DEF FieldInits
<1>2. /\ <<"COLON", "expr", "field_end">> \in Seq(CalmWords)
      /\ <<"skip_newlines", "field_inits">> \in Seq(CalmWords)
  BY DEF CalmWords, PlainWords, Steers
<1>3. /\ Mild(<<"COLON", "expr", "field_end">>)
      /\ Mild(<<"skip_newlines", "field_inits">>)
  BY <1>2, MildList
<1> QED BY <1>1, <1>3, NothingIsMild, ModestSteps, ModestChoices, Reports
  DEF FieldInits

LEMMA LambdaTells ==
    ASSUME StackInv, HistInv, Lambda
    PROVE  Tells
<1>1. Modest
  <2>1. "lambda_body" \in ModestWords
    BY DEF ModestWords, PlainWords, Openers, SeamWords
  <2> QED BY <2>1, AtModest DEF Lambda
<1>2. /\ <<"expr">> \in Seq(CalmWords)
      /\ <<"block">> \in Seq(CalmWords)
  BY DEF CalmWords, PlainWords, Steers
<1>3. /\ Mild(<<"expr">>)
      /\ Mild(<<"block">>)
  BY <1>2, MildList
<1> QED BY <1>1, <1>3, NothingIsMild, ModestSteps, ModestChoices, Reports
  DEF Lambda

LEMMA AttributesTells ==
    ASSUME StackInv, HistInv, Attributes
    PROVE  Tells
<1>1. Modest
  <2>1. "tag_name" \in ModestWords /\ "attributes" \in ModestWords /\ "attr_value" \in ModestWords /\ "value" \in ModestWords /\ "spread" \in ModestWords
    BY DEF ModestWords, PlainWords, Openers, SeamWords
  <2> QED BY <2>1, AtModest DEF Attributes
<1>2. /\ <<"attr_value", "attributes">> \in Seq(CalmWords)
      /\ <<"spread", "attributes">> \in Seq(CalmWords)
      /\ <<"value">> \in Seq(CalmWords)
      /\ <<"string">> \in Seq(CalmWords)
      /\ <<"expr", "INTERP_END">> \in Seq(CalmWords)
  BY DEF CalmWords, PlainWords, Steers
<1>3. /\ Mild(<<"attr_value", "attributes">>)
      /\ Mild(<<"spread", "attributes">>)
      /\ Mild(<<"value">>)
      /\ Mild(<<"string">>)
      /\ Mild(<<"expr", "INTERP_END">>)
  BY <1>2, MildList
<1> QED BY <1>1, <1>3, NothingIsMild, ModestSteps, ModestChoices, Reports
  DEF Attributes

LEMMA ClosingTagTells ==
    ASSUME StackInv, HistInv, ClosingTag
    PROVE  Tells
<1>1. Modest
  <2>1. "closing_tag" \in ModestWords /\ "closing_name" \in ModestWords
    BY DEF ModestWords, PlainWords, Openers, SeamWords
  <2> QED BY <2>1, AtModest DEF ClosingTag
<1>2. /\ <<"closing_name", "TAG_END">> \in Seq(CalmWords)
  BY DEF CalmWords, PlainWords, Steers
<1>3. /\ Mild(<<"closing_name", "TAG_END">>)
  BY <1>2, MildList
<1> QED BY <1>1, <1>3, NothingIsMild, ModestSteps, ModestChoices, Reports
  DEF ClosingTag

LEMMA ChildrenTells ==
    ASSUME StackInv, HistInv, Children
    PROVE  Tells
<1>1. Modest
  <2>1. "children" \in ModestWords
    BY DEF ModestWords, PlainWords, Openers, SeamWords
  <2> QED BY <2>1, AtModest DEF Children
<1>2. /\ <<"children">> \in Seq(CalmWords)
      /\ <<"expr", "INTERP_END", "children">> \in Seq(CalmWords)
      /\ <<"element_nested", "children">> \in Seq(CalmWords)
      /\ <<"advance", "ctrl", "children">> \in Seq(CalmWords)
  BY DEF CalmWords, PlainWords, Steers
<1>3. /\ Mild(<<"children">>)
      /\ Mild(<<"expr", "INTERP_END", "children">>)
      /\ Mild(<<"element_nested", "children">>)
      /\ Mild(<<"advance", "ctrl", "children">>)
  BY <1>2, MildList
<1> QED BY <1>1, <1>3, NothingIsMild, ModestSteps, ModestChoices, Reports, ModestPeek
  DEF Children, Peek

LEMMA CtrlTells ==
    ASSUME StackInv, HistInv, Ctrl
    PROVE  Tells
<1>1. Modest
  <2>1. "ctrl" \in ModestWords /\ "second_name" \in ModestWords
    BY DEF ModestWords, PlainWords, Openers, SeamWords
  <2> QED BY <2>1, AtModest DEF Ctrl
<1>2. /\ <<"expr", "CTRL_END", "children", "if_arms", "ctrl_returns">> \in Seq(CalmWords)
      /\ <<"ident", "second_name", "KW_IN", "expr", "CTRL_END", "children", "for_arms", "ctrl_returns">> \in Seq(CalmWords)
      /\ <<"ident">> \in Seq(CalmWords)
  BY DEF CalmWords, PlainWords, Steers
<1>3. /\ Mild(<<"expr", "CTRL_END", "children", "if_arms", "ctrl_returns">>)
      /\ Mild(<<"ident", "second_name", "KW_IN", "expr", "CTRL_END", "children", "for_arms", "ctrl_returns">>)
      /\ Mild(<<"ident">>)
  BY <1>2, MildList
<1> QED BY <1>1, <1>3, NothingIsMild, ModestSteps, ModestChoices, Reports
  DEF Ctrl

LEMMA LetTypeTells ==
    ASSUME StackInv, HistInv, LetType
    PROVE  Tells
<1>1. Modest
  <2>1. "let_type" \in ModestWords
    BY DEF ModestWords, PlainWords, Openers, SeamWords
  <2> QED BY <2>1, AtModest DEF LetType
<1>2. /\ <<"type">> \in Seq(CalmWords)
  BY DEF CalmWords, PlainWords, Steers
<1>3. /\ Mild(<<"type">>)
  BY <1>2, MildList
<1> QED BY <1>1, <1>3, NothingIsMild, ModestSteps, ModestChoices, Reports
  DEF LetType

LEMMA IfTells ==
    ASSUME StackInv, HistInv, If
    PROVE  Tells
<1>1. Modest
  <2>1. "if_end" \in ModestWords /\ "else" \in ModestWords /\ "else_body" \in ModestWords
    BY DEF ModestWords, PlainWords, Openers, SeamWords
  <2> QED BY <2>1, AtModest DEF If
<1>2. /\ <<"advance", "else">> \in Seq(CalmWords)
      /\ <<"else">> \in Seq(CalmWords)
      /\ <<"else_body">> \in Seq(CalmWords)
      /\ <<"cond", "block", "if_end", "if_returns">> \in Seq(CalmWords)
      /\ <<"block">> \in Seq(CalmWords)
  BY DEF CalmWords, PlainWords, Steers
<1>3. /\ Mild(<<"advance", "else">>)
      /\ Mild(<<"else">>)
      /\ Mild(<<"else_body">>)
      /\ Mild(<<"cond", "block", "if_end", "if_returns">>)
      /\ Mild(<<"block">>)
  BY <1>2, MildList
<1> QED BY <1>1, <1>3, NothingIsMild, ModestSteps, ModestChoices, Reports, ModestPeek
  DEF If, Peek

LEMMA MatchArmsTells ==
    ASSUME StackInv, HistInv, MatchArms
    PROVE  Tells
<1>1. Modest
  <2>1. "match_body" \in ModestWords /\ "match_arms" \in ModestWords /\ "arm_body" \in ModestWords
    BY DEF ModestWords, PlainWords, Openers, SeamWords
  <2> QED BY <2>1, AtModest DEF MatchArms
<1>2. /\ <<"LBRACE", "skip_newlines", "match_arms", "RBRACE">> \in Seq(CalmWords)
      /\ <<"ARROW", "arm_body", "skip_newlines", "match_arms">> \in Seq(CalmWords)
      /\ <<"single_pattern", "alternatives", "ARROW", "arm_body", "skip_newlines", "match_arms">> \in Seq(CalmWords)
      /\ <<"block">> \in Seq(CalmWords)
      /\ <<"expr">> \in Seq(CalmWords)
  BY DEF CalmWords, PlainWords, Steers
<1>3. /\ Mild(<<"LBRACE", "skip_newlines", "match_arms", "RBRACE">>)
      /\ Mild(<<"ARROW", "arm_body", "skip_newlines", "match_arms">>)
      /\ Mild(<<"single_pattern", "alternatives", "ARROW", "arm_body", "skip_newlines", "match_arms">>)
      /\ Mild(<<"block">>)
      /\ Mild(<<"expr">>)
  BY <1>2, MildList
<1> QED BY <1>1, <1>3, NothingIsMild, ModestSteps, ModestChoices, Reports
  DEF MatchArms

LEMMA DefaultTells ==
    ASSUME StackInv, HistInv, Default
    PROVE  Tells
<1>1. Modest
  <2>1. "default" \in ModestWords
    BY DEF ModestWords, PlainWords, Openers, SeamWords
  <2> QED BY <2>1, AtModest DEF Default
<1>2. /\ <<"expr">> \in Seq(CalmWords)
  BY DEF CalmWords, PlainWords, Steers
<1>3. /\ Mild(<<"expr">>)
  BY <1>2, MildList
<1> QED BY <1>1, <1>3, NothingIsMild, ModestSteps, ModestChoices, Reports
  DEF Default

LEMMA HttpMethodTells ==
    ASSUME StackInv, HistInv, HttpMethod
    PROVE  Tells
<1>1. Modest
  <2>1. "method" \in ModestWords
    BY DEF ModestWords, PlainWords, Openers, SeamWords
  <2> QED BY <2>1, AtModest DEF HttpMethod
<1> QED BY <1>1, NothingIsMild, ModestSteps, ModestChoices, Reports
  DEF HttpMethod

LEMMA QuotedTells ==
    ASSUME StackInv, HistInv, Quoted
    PROVE  Tells
<1>1. Modest
  <2>1. "quoted" \in ModestWords
    BY DEF ModestWords, PlainWords, Openers, SeamWords
  <2> QED BY <2>1, AtModest DEF Quoted
<1>2. /\ <<"string">> \in Seq(CalmWords)
  BY DEF CalmWords, PlainWords, Steers
<1>3. /\ Mild(<<"string">>)
  BY <1>2, MildList
<1> QED BY <1>1, <1>3, NothingIsMild, ModestSteps, ModestChoices, Reports
  DEF Quoted

LEMMA MildLoop ==
    ASSUME NEW w \in Seq(CalmWords \cup {"more"}),
           NEW n \in Nat, Len(w) = n + 1, w[n + 1] \in CalmWords \ SeamWords,
           \A j \in 1 .. n : w[j] = "more" => j = n
    PROVE  Mild(w)
<1>1. \A x \in CalmWords \cup {"more"} : x \notin Steers \cup LoopWords
  BY DEF CalmWords, Steers, LoopWords
<1>2. \A j \in 1 .. Len(w) : w[j] \in CalmWords \cup {"more"}
  OBVIOUS
<1>3. \A x \in CalmWords : x # "more"
  BY DEF CalmWords, PlainWords
<1>4. ASSUME NEW j \in 1 .. Len(w), w[j] = "more" PROVE j < Len(w) /\ w[j + 1] \notin SeamWords
  <2>1. w[n + 1] # "more"
    BY <1>3
  <2>2. j = n
    BY <1>4, <2>1
  <2> QED BY <2>2
<1>5. IsStack(w)
  BY DEF IsStack
<1> QED BY <1>1, <1>2, <1>4, <1>5 DEF Mild, Steady

LEMMA LoopsAreMild ==
    /\ Mild(<<"type", "skip_newlines", "more", "types">>)
    /\ Mild(<<"type", "more", "type_arg">>)
    /\ Mild(<<"expr", "skip_newlines", "more", "args">>)
    /\ Mild(<<"expr", "skip_newlines", "more", "elements">>)
    /\ Mild(<<"expr", "more", "indexes">>)
    /\ Mild(<<"expr", "COLON", "expr", "skip_newlines", "more", "entries">>)
    /\ Mild(<<"skip_newlines", "more", "params">>)
    /\ Mild(<<"COLON", "type", "default", "attrs", "skip_newlines", "more", "params">>)
    /\ Mild(<<"skip_newlines", "more", "variants">>)
<1> DEFINE S == CalmWords \cup {"more"}
<1>1. /\ <<"type", "skip_newlines", "more", "types">> \in Seq(S)
      /\ <<"type", "more", "type_arg">> \in Seq(S)
      /\ <<"expr", "skip_newlines", "more", "args">> \in Seq(S)
      /\ <<"expr", "skip_newlines", "more", "elements">> \in Seq(S)
      /\ <<"expr", "more", "indexes">> \in Seq(S)
      /\ <<"expr", "COLON", "expr", "skip_newlines", "more", "entries">> \in Seq(S)
      /\ <<"skip_newlines", "more", "params">> \in Seq(S)
      /\ <<"COLON", "type", "default", "attrs", "skip_newlines", "more", "params">> \in Seq(S)
      /\ <<"skip_newlines", "more", "variants">> \in Seq(S)
  BY DEF CalmWords, PlainWords, Steers
<1>2. /\ "types" \in CalmWords \ SeamWords /\ "type_arg" \in CalmWords \ SeamWords /\ "args" \in CalmWords \ SeamWords
      /\ "elements" \in CalmWords \ SeamWords /\ "indexes" \in CalmWords \ SeamWords /\ "entries" \in CalmWords \ SeamWords
      /\ "params" \in CalmWords \ SeamWords /\ "variants" \in CalmWords \ SeamWords
  BY DEF CalmWords, PlainWords, Steers, SeamWords
<1>3. \A w \in Seq(S) : \A n \in Nat :
        Len(w) = n + 1 /\ w[n + 1] \in CalmWords \ SeamWords /\ (\A j \in 1 .. n : w[j] = "more" => j = n)
            => Mild(w)
  BY MildLoop
<1> HIDE DEF S
<1>4. /\ Mild(<<"type", "skip_newlines", "more", "types">>)
      /\ Mild(<<"expr", "skip_newlines", "more", "args">>)
      /\ Mild(<<"expr", "skip_newlines", "more", "elements">>)
  <2> DEFINE w1 == <<"type", "skip_newlines", "more", "types">>
             w2 == <<"expr", "skip_newlines", "more", "args">>
             w3 == <<"expr", "skip_newlines", "more", "elements">>
  <2>1. /\ Len(w1) = 3 + 1 /\ w1[3 + 1] = "types" /\ \A j \in 1 .. 3 : w1[j] = "more" => j = 3
        /\ Len(w2) = 3 + 1 /\ w2[3 + 1] = "args" /\ \A j \in 1 .. 3 : w2[j] = "more" => j = 3
        /\ Len(w3) = 3 + 1 /\ w3[3 + 1] = "elements" /\ \A j \in 1 .. 3 : w3[j] = "more" => j = 3
    OBVIOUS
  <2>2. w1 \in Seq(S) /\ w2 \in Seq(S) /\ w3 \in Seq(S) /\ 3 \in Nat
    BY <1>1
  <2> HIDE DEF w1, w2, w3
  <2>3. Mild(w1) /\ Mild(w2) /\ Mild(w3)
    BY <1>2, <1>3, <2>1, <2>2
  <2> QED BY <2>3 DEF w1, w2, w3
<1>5. /\ Mild(<<"type", "more", "type_arg">>)
      /\ Mild(<<"expr", "more", "indexes">>)
      /\ Mild(<<"skip_newlines", "more", "params">>)
      /\ Mild(<<"skip_newlines", "more", "variants">>)
  <2> DEFINE w1 == <<"type", "more", "type_arg">>
             w2 == <<"expr", "more", "indexes">>
             w3 == <<"skip_newlines", "more", "params">>
             w4 == <<"skip_newlines", "more", "variants">>
  <2>1. /\ Len(w1) = 2 + 1 /\ w1[2 + 1] = "type_arg" /\ \A j \in 1 .. 2 : w1[j] = "more" => j = 2
        /\ Len(w2) = 2 + 1 /\ w2[2 + 1] = "indexes" /\ \A j \in 1 .. 2 : w2[j] = "more" => j = 2
        /\ Len(w3) = 2 + 1 /\ w3[2 + 1] = "params" /\ \A j \in 1 .. 2 : w3[j] = "more" => j = 2
        /\ Len(w4) = 2 + 1 /\ w4[2 + 1] = "variants" /\ \A j \in 1 .. 2 : w4[j] = "more" => j = 2
    OBVIOUS
  <2>2. w1 \in Seq(S) /\ w2 \in Seq(S) /\ w3 \in Seq(S) /\ w4 \in Seq(S) /\ 2 \in Nat
    BY <1>1
  <2> HIDE DEF w1, w2, w3, w4
  <2>3. Mild(w1) /\ Mild(w2) /\ Mild(w3) /\ Mild(w4)
    BY <1>2, <1>3, <2>1, <2>2
  <2> QED BY <2>3 DEF w1, w2, w3, w4
<1>6. /\ Mild(<<"expr", "COLON", "expr", "skip_newlines", "more", "entries">>)
      /\ Mild(<<"COLON", "type", "default", "attrs", "skip_newlines", "more", "params">>)
  <2> DEFINE w1 == <<"expr", "COLON", "expr", "skip_newlines", "more", "entries">>
             w2 == <<"COLON", "type", "default", "attrs", "skip_newlines", "more", "params">>
  <2>1. /\ Len(w1) = 5 + 1 /\ w1[5 + 1] = "entries" /\ \A j \in 1 .. 5 : w1[j] = "more" => j = 5
        /\ Len(w2) = 6 + 1 /\ w2[6 + 1] = "params" /\ \A j \in 1 .. 6 : w2[j] = "more" => j = 6
    OBVIOUS
  <2>2. w1 \in Seq(S) /\ w2 \in Seq(S) /\ 5 \in Nat /\ 6 \in Nat
    BY <1>1
  <2> HIDE DEF w1, w2
  <2>3. Mild(w1) /\ Mild(w2)
    BY <1>2, <1>3, <2>1, <2>2
  <2> QED BY <2>3 DEF w1, w2
<1> QED BY <1>4, <1>5, <1>6

LEMMA LevelsAreMild ==
    /\ Mild(parse_cast) /\ Mild(parse_mul) /\ Mild(parse_add) /\ Mild(parse_cmp)
    /\ Mild(parse_and) /\ Mild(parse_or) /\ Mild(parse_coalesce)
<1>1. /\ parse_cast \in Seq(CalmWords) /\ parse_and \in Seq(CalmWords)
      /\ <<"mul">> \in Seq(CalmWords) /\ <<"add">> \in Seq(CalmWords) /\ <<"cmp">> \in Seq(CalmWords)
      /\ <<"or">> \in Seq(CalmWords) /\ <<"coalesce">> \in Seq(CalmWords)
  BY DEF CalmWords, PlainWords, Steers, parse_cast, parse_and
<1>2. /\ Mild(parse_cast) /\ Mild(parse_and) /\ Mild(<<"mul">>) /\ Mild(<<"add">>)
      /\ Mild(<<"cmp">>) /\ Mild(<<"or">>) /\ Mild(<<"coalesce">>)
  BY <1>1, MildList
<1>3. Mild(parse_mul)
  BY <1>2, MildConcat DEF parse_mul
<1>4. Mild(parse_add)
  BY <1>2, <1>3, MildConcat DEF parse_add
<1>5. Mild(parse_cmp)
  BY <1>2, <1>4, MildConcat DEF parse_cmp
<1>6. Mild(parse_or)
  BY <1>2, MildConcat DEF parse_or
<1>7. Mild(parse_coalesce)
  BY <1>2, <1>6, MildConcat DEF parse_coalesce
<1> QED BY <1>2, <1>3, <1>4, <1>5, <1>6, <1>7

LEMMA SignatureIsMild == Mild(Signature)
<1>1. Signature \in Seq(CalmWords)
  BY DEF Signature, CalmWords, PlainWords, Steers
<1> QED BY <1>1, MildList

LEMMA ElementsTells ==
    ASSUME StackInv, HistInv, Elements
    PROVE  Tells
<1>1. Modest
  <2>1. "args" \in ModestWords /\ "elements" \in ModestWords /\ "indexes" \in ModestWords /\ "entries" \in ModestWords
    BY DEF ModestWords, PlainWords, Openers, SeamWords
  <2> QED BY <2>1, AtModest DEF Elements
<1> QED BY <1>1, LoopsAreMild, NothingIsMild, ModestSteps, ModestChoices, Reports
  DEF Elements

LEMMA ParamsTells ==
    ASSUME StackInv, HistInv, Params
    PROVE  Tells
<1>1. Modest
  <2>1. "params" \in ModestWords
    BY DEF ModestWords, PlainWords, Openers, SeamWords
  <2> QED BY <2>1, AtModest DEF Params
<1> QED BY <1>1, LoopsAreMild, NothingIsMild, ModestSteps, ModestChoices, Reports
  DEF Params

LEMMA TypeDeclTells ==
    ASSUME StackInv, HistInv, TypeDecl
    PROVE  Tells
<1>1. Modest
  <2>1. "type_name" \in ModestWords /\ "type_body" \in ModestWords /\ "variants" \in ModestWords /\ "fields" \in ModestWords /\ "comma" \in ModestWords
    BY DEF ModestWords, PlainWords, Openers, SeamWords
  <2> QED BY <2>1, AtModest DEF TypeDecl
<1>2. /\ <<"type_body">> \in Seq(CalmWords)
      /\ <<"LBRACE", "skip_newlines", "variants", "skip_newlines", "RBRACE">> \in Seq(CalmWords)
      /\ <<"type">> \in Seq(CalmWords)
      /\ <<"LBRACE", "skip_newlines", "fields", "RBRACE">> \in Seq(CalmWords)
      /\ <<"COLON", "type", "default", "attrs", "comma", "skip_newlines", "fields">> \in Seq(CalmWords)
  BY DEF CalmWords, PlainWords, Steers
<1>3. /\ Mild(<<"type_body">>)
      /\ Mild(<<"LBRACE", "skip_newlines", "variants", "skip_newlines", "RBRACE">>)
      /\ Mild(<<"type">>)
      /\ Mild(<<"LBRACE", "skip_newlines", "fields", "RBRACE">>)
      /\ Mild(<<"COLON", "type", "default", "attrs", "comma", "skip_newlines", "fields">>)
  BY <1>2, MildList
<1> QED BY <1>1, <1>3, LoopsAreMild, NothingIsMild, ModestSteps, ModestChoices, Reports
  DEF TypeDecl

LEMMA CompareTells ==
    ASSUME StackInv, HistInv, Compare
    PROVE  Tells
<1>1. Modest
  <2>1. "cmp" \in ModestWords /\ "chain" \in ModestWords
    BY DEF ModestWords, PlainWords, Openers, SeamWords
  <2> QED BY <2>1, AtModest DEF Compare
<1>2. <<"skip_newlines">> \in Seq(CalmWords) /\ <<"chain">> \in Seq(CalmWords)
  BY DEF CalmWords, PlainWords, Steers
<1>3. Mild(<<"skip_newlines">>) /\ Mild(<<"chain">>)
  BY <1>2, MildList
<1>4. Mild(<<"skip_newlines">> \o parse_add) /\ Mild(parse_add \o <<"chain">>)
  BY <1>3, LevelsAreMild, MildConcat
<1>5. Mild(<<"skip_newlines">> \o parse_add \o <<"chain">>)
  BY <1>3, <1>4, MildConcat
<1> QED BY <1>1, <1>4, <1>5, NothingIsMild, ModestSteps, Reports DEF Compare

LEMMA CoalesceTells ==
    ASSUME StackInv, HistInv, Coalesce
    PROVE  Tells
<1>1. Modest
  <2>1. "coalesce" \in ModestWords /\ "fallback" \in ModestWords
    BY DEF ModestWords, PlainWords, Openers, SeamWords
  <2> QED BY <2>1, AtModest DEF Coalesce
<1>2. /\ <<"fallback">> \in Seq(CalmWords) /\ <<"stmt">> \in Seq(CalmWords)
      /\ <<"block">> \in Seq(CalmWords) /\ <<"advance", "block">> \in Seq(CalmWords)
      /\ <<"coalesce_returns">> \in Seq(CalmWords)
  BY DEF CalmWords, PlainWords, Steers
<1>3. /\ Mild(<<"fallback">>) /\ Mild(<<"stmt">>) /\ Mild(<<"block">>)
      /\ Mild(<<"advance", "block">>) /\ Mild(<<"coalesce_returns">>)
  BY <1>2, MildList
<1>4. Mild(parse_coalesce \o <<"coalesce_returns">>)
  BY <1>3, LevelsAreMild, MildConcat
<1> QED BY <1>1, <1>3, <1>4, ModestSteps, ModestChoices, Reports, ModestPeek DEF Coalesce, Peek

LEMMA TagEndTells ==
    ASSUME StackInv, HistInv, TagEnd
    PROVE  Tells
<1>1. Modest
  <2>1. "tag_end" \in ModestWords
    BY DEF ModestWords, PlainWords, Openers, SeamWords
  <2> QED BY <2>1, AtModest DEF TagEnd
<1>2. <<"children", "strays", "closing_tag">> \in Seq(CalmWords)
  BY DEF CalmWords, PlainWords, Steers
<1>3. Mild(<<"children", "strays", "closing_tag">>)
  BY <1>2, MildList
<1>4. Do(<<>>) /\ TakeIn(Lex!Closed(open)) /\ UNCHANGED <<cx, before, reported>> => Tells
  <2> SUFFICES ASSUME Do(<<>>), TakeIn(Lex!Closed(open)), UNCHANGED <<cx, before, reported>> PROVE Tells
    OBVIOUS
  <2>1. at' = at + 1 \/ (at' = at /\ tok' = "EOF")
    BY TakeIs DEF StackInv
  <2> QED BY <1>1, <2>1, NothingIsMild, QuietDo DEF Modest
<1> QED BY <1>1, <1>3, <1>4, NothingIsMild, ModestSteps, Reports DEF TagEnd

LEMMA OperatorTells ==
    ASSUME StackInv, HistInv, NEW level \in ModestWords, <<"make_binary", level>> \in Seq(CalmWords), NEW ops, NEW operand, Mild(operand),
           Operator(level, ops, operand)
    PROVE  Tells
<1>1. Modest
  BY AtModest DEF Operator
<1>2. <<"skip_newlines">> \in Seq(CalmWords)
  BY DEF CalmWords, PlainWords, Steers
<1>3. Mild(<<"skip_newlines">>) /\ Mild(<<"make_binary", level>>)
  BY <1>2, MildList
<1>4. Mild(<<"skip_newlines">> \o operand)
  BY <1>3, MildConcat
<1>5. Mild(<<"skip_newlines">> \o operand \o <<"make_binary", level>>)
  BY <1>3, <1>4, MildConcat
<1> QED BY <1>1, <1>5, NothingIsMild, ModestSteps, Reports DEF Operator

LEMMA BinaryTells ==
    ASSUME StackInv, HistInv, Binary
    PROVE  Tells
<1>1. "mul" \in ModestWords /\ "add" \in ModestWords /\ "and" \in ModestWords /\ "or" \in ModestWords
      /\ <<"make_binary", "mul">> \in Seq(CalmWords) /\ <<"make_binary", "add">> \in Seq(CalmWords)
      /\ <<"make_binary", "and">> \in Seq(CalmWords) /\ <<"make_binary", "or">> \in Seq(CalmWords)
      /\ <<"not">> \in Seq(CalmWords)
  BY DEF ModestWords, CalmWords, PlainWords, Steers, Openers, SeamWords
<1>2. Mild(<<"not">>)
  BY <1>1, MildList
<1> QED BY <1>1, <1>2, LevelsAreMild, OperatorTells DEF Binary

LEMMA ExpectTells ==
    ASSUME StackInv, HistInv, Expect
    PROVE  Tells
<1>1. Expected \subseteq ModestWords
  BY DEF Expected, ModestWords, PlainWords, Openers, SeamWords
<1>2. Modest
  BY <1>1, AtModest DEF Expect, At
<1> QED BY <1>2, NothingIsMild, ModestSteps, Reports DEF Expect

LEMMA ReturnTells ==
    ASSUME StackInv, HistInv, Return
    PROVE  Tells
<1>1. Frames \cup {"make_binary"} \subseteq ModestWords
  BY DEF Frames, ModestWords, PlainWords, Openers, SeamWords
<1>2. Modest
  BY <1>1, AtModest DEF Return, At
<1> QED BY <1>2, NothingIsMild, ModestSteps, Reports DEF Return

LEMMA ArmsTells ==
    ASSUME StackInv, HistInv, Arms
    PROVE  Tells
<1>1. PICK d \in Directives :
        \/ At(d.arms) /\ IF tok = "CTRL_START" THEN Eat(<<d.arm>>) ELSE Report(<<>>)
        \/ /\ At(d.arm)
           /\ CASE tok = "KW_ELSE" -> Eat(<<d.after>>)
                [] tok = "END" -> Eat(<<"CTRL_END">>)
                [] OTHER -> Report(<<>>)
        \/ /\ At(d.after) /\ ElseIf(d)
           /\ IF d.seen THEN EatReporting(<<"expr", "CTRL_END", "children", d.arms>>)
              ELSE Eat(<<"expr", "CTRL_END", "children", d.arms>>)
        \/ /\ At(d.after) /\ ~ ElseIf(d)
           /\ IF d.seen THEN Report(<<"CTRL_END", "children", ElseArms(d)>>)
              ELSE Go(<<"CTRL_END", "children", ElseArms(d)>>)
  BY DEF Arms
<1>2. d.arms \in ModestWords /\ d.arm \in ModestWords /\ d.after \in ModestWords
      /\ d.arms \in CalmWords /\ d.arm \in CalmWords /\ d.after \in CalmWords /\ ElseArms(d) \in CalmWords
  BY DEF Directives, ElseArms, ModestWords, CalmWords, PlainWords, Openers, SeamWords, Steers
<1>3. Modest
  BY <1>1, <1>2, AtModest
<1>4. "CTRL_END" \in CalmWords /\ "children" \in CalmWords /\ "expr" \in CalmWords
  BY DEF CalmWords, PlainWords, Steers
<1>5. /\ <<d.arm>> \in Seq(CalmWords) /\ <<d.after>> \in Seq(CalmWords) /\ <<"CTRL_END">> \in Seq(CalmWords)
      /\ <<"expr", "CTRL_END", "children", d.arms>> \in Seq(CalmWords)
      /\ <<"CTRL_END", "children", ElseArms(d)>> \in Seq(CalmWords)
  BY <1>2, <1>4
<1>6. /\ Mild(<<d.arm>>) /\ Mild(<<d.after>>) /\ Mild(<<"CTRL_END">>)
      /\ Mild(<<"expr", "CTRL_END", "children", d.arms>>)
      /\ Mild(<<"CTRL_END", "children", ElseArms(d)>>)
  BY <1>5, MildList
<1> QED BY <1>1, <1>3, <1>6, NothingIsMild, ModestSteps, Reports

-----------------------------------------------------------------------------
(* Actions that owe a token or a report.                                     *)

LEMMA FirstOf ==
    ASSUME NEW v, IsStack(v), Len(v) >= 1, NEW t, IsStack(t)
    PROVE  (v \o t)[1] = v[1] /\ Len(v \o t) >= 1
<1>1. Len(v) \in Nat /\ Len(t) \in Nat /\ Len(v \o t) = Len(v) + Len(t)
  BY StackHasLen, ConcatIs
<1>2. 1 \in 1 .. Len(v)
  BY <1>1
<1> QED BY <1>1, <1>2, ConcatIs

LEMMA Opens ==
    ASSUME StackInv, todo # <<>>, NEW w, IsStack(w), Len(w) >= 1, w[1] \in Openers
    PROVE  Promises(w \o Tail(todo))
<1>1. IsStack(Tail(todo))
  BY TailIs DEF StackInv
<1>2. (w \o Tail(todo))[1] = w[1] /\ Len(w \o Tail(todo)) >= 1
  BY <1>1, FirstOf
<1> QED BY <1>2 DEF Promises

LEMMA LevelsOpen ==
    /\ parse_cmp[1] = "unary" /\ Len(parse_cmp) >= 1
    /\ parse_coalesce[1] = "not" /\ Len(parse_coalesce) >= 1
<1>1. /\ IsStack(parse_cast) /\ IsStack(parse_mul) /\ IsStack(parse_add) /\ IsStack(parse_and)
      /\ IsStack(parse_or)
  BY LevelsAreMild DEF Mild
<1>2. \A x : IsStack(<<x>>)
  BY TallyOne
<1>3. parse_cast[1] = "unary" /\ Len(parse_cast) >= 1 /\ parse_and[1] = "not" /\ Len(parse_and) >= 1
  BY DEF parse_cast, parse_and
<1>4. parse_mul[1] = "unary" /\ Len(parse_mul) >= 1
  BY <1>1, <1>2, <1>3, FirstOf DEF parse_mul
<1>5. parse_add[1] = "unary" /\ Len(parse_add) >= 1
  BY <1>1, <1>2, <1>4, FirstOf DEF parse_add
<1>6. parse_cmp[1] = "unary" /\ Len(parse_cmp) >= 1
  BY <1>1, <1>2, <1>5, FirstOf DEF parse_cmp
<1>7. parse_or[1] = "not" /\ Len(parse_or) >= 1
  BY <1>1, <1>2, <1>3, FirstOf DEF parse_or
<1>8. parse_coalesce[1] = "not" /\ Len(parse_coalesce) >= 1
  BY <1>1, <1>2, <1>7, FirstOf DEF parse_coalesce
<1> QED BY <1>6, <1>8

(* When the first word is done, the loops that come near were near, or stood *)
(* behind the end of a statement.                                            *)
LEMMA SeamTail ==
    ASSUME NEW s, IsStack(s), s # <<>>, Quiet(s)
    PROVE  /\ IsStack(Tail(s)) /\ Quiet(Tail(s)) /\ ~ Begun(Tail(s))
           /\ Head(s) \in SeamWords \ {"stmt_end"} =>
                \A j \in 1 .. Len(Tail(s)) :
                   Tail(s)[j] \in LoopWords /\ Near(Tail(s), j) => s[j + 1] \in LoopWords /\ Near(s, j + 1)
<1> DEFINE t == Tail(s)
           m == Len(s)
<1>1. /\ IsStack(t) /\ m \in Nat /\ m >= 1 /\ Len(t) = m - 1 /\ Head(s) = s[1]
      /\ \A j \in 1 .. m - 1 : t[j] = s[j + 1]
  BY TailIs
<1>2. Steady(t) /\ \A j \in 1 .. m : s[j] \in LoopWords => Near(s, j) \/ Deep(s, j)
  BY SteadyTail DEF Quiet
<1> HIDE DEF t, m
<1>3. ASSUME NEW j \in 1 .. Len(t), t[j] \in LoopWords
      PROVE  /\ Near(t, j) \/ Deep(t, j)
             /\ s[1] \in SeamWords \ {"stmt_end"} /\ Near(t, j) => Near(s, j + 1)
             /\ s[j + 1] \in LoopWords
  <2>1. j + 1 \in 1 .. m /\ s[j + 1] \in LoopWords /\ j + 1 # 1 /\ j \in 1 .. m - 1
    BY <1>1, <1>3
  <2>2. CASE j = 1
    <3>1. j + 1 = 2
      BY <2>2
    <3>2. Near(s, j + 1)
      BY <1>2, <2>1, <3>1 DEF Deep
    <3>3. Near(t, j)
      BY <2>2 DEF Near
    <3> QED BY <2>1, <3>2, <3>3
  <2>3. CASE j = 2
    <3>1. 1 \in 1 .. m - 1 /\ 1 + 1 = 2 /\ j + 1 = 3
      BY <1>1, <2>1, <2>3
    <3>2. t[1] = s[2]
      BY <1>1, <3>1
    <3>3. Near(s, 3)
      BY <1>2, <2>1, <3>1 DEF Deep
    <3>4. s[2] \in {"skip_newlines"} \cup Checks
      BY <3>3 DEF Near
    <3>5. Near(t, j)
      BY <2>3, <3>2, <3>4 DEF Near
    <3>6. Near(s, j + 1)
      BY <3>1, <3>3
    <3> QED BY <2>1, <3>5, <3>6
  <2>4. CASE j = 3
    <3>1. 1 \in 1 .. m - 1 /\ 1 + 1 = 2 /\ 2 \in 1 .. m - 1 /\ 2 + 1 = 3 /\ j + 1 = 4
      BY <1>1, <2>1, <2>4
    <3>2. t[1] = s[2] /\ t[2] = s[3]
      BY <1>1, <3>1
    <3>3. Deep(s, 4)
      BY <1>2, <2>1, <3>1 DEF Near
    <3>4. s[4 - 1] \in Checks /\ s[4 - 2] = "skip_newlines" /\ s[4 - 3] = "stmt_end"
      BY <3>3 DEF Deep
    <3>5. s[3] \in Checks /\ s[2] = "skip_newlines" /\ s[1] = "stmt_end"
      BY <3>4
    <3> QED BY <2>1, <2>4, <3>2, <3>5 DEF Near
  <2>5. CASE j > 3
    <3>1. ~ Near(s, j + 1) /\ ~ Near(t, j)
      BY <2>5 DEF Near
    <3>2. /\ s[(j + 1) - 1] \in Checks /\ s[(j + 1) - 2] = "skip_newlines"
          /\ s[(j + 1) - 3] = "stmt_end"
      BY <1>2, <2>1, <3>1 DEF Deep
    <3>2a. j > 3
      BY <2>5
    <3>3. /\ j - 1 \in 1 .. m - 1 /\ j - 2 \in 1 .. m - 1 /\ j - 3 \in 1 .. m - 1
          /\ (j - 1) + 1 = (j + 1) - 1 /\ (j - 2) + 1 = (j + 1) - 2 /\ (j - 3) + 1 = (j + 1) - 3
      BY <1>1, <2>1, <2>5, <3>2a
    <3>4. t[j - 1] = s[(j + 1) - 1] /\ t[j - 2] = s[(j + 1) - 2] /\ t[j - 3] = s[(j + 1) - 3]
      BY <1>1, <3>3
    <3> QED BY <2>1, <2>5, <3>1, <3>2, <3>4 DEF Deep
  <2> QED BY <2>1, <2>2, <2>3, <2>4, <2>5
<1>4. Quiet(t)
  BY <1>2, <1>3 DEF Quiet
<1>5. ASSUME Begun(t) PROVE FALSE
  <2>1. /\ Len(t) \in Nat /\ Len(t) >= 3 /\ t[1] = "advance" /\ t[3] \in LoopWords
    BY <1>1, <1>5, StackHasLen DEF Begun
  <2>2. 1 \in 1 .. m - 1 /\ 3 \in 1 .. m - 1 /\ 1 + 1 = 2 /\ 3 + 1 = 4 /\ 4 \in 1 .. m
    BY <1>1, <2>1
  <2>3. s[2] = "advance" /\ s[4] \in LoopWords
    BY <1>1, <2>1, <2>2
  <2>4. ~ Near(s, 4)
    BY DEF Near
  <2>5. s[4 - 2] = "skip_newlines"
    BY <1>2, <2>2, <2>3, <2>4 DEF Deep
  <2>6. s[2] = "skip_newlines"
    BY <2>5
  <2> QED BY <2>3, <2>6
<1> QED BY <1>1, <1>3, <1>4, <1>5 DEF t

LEMMA AtEager ==
    ASSUME NEW x \in (Openers \ {"advance"}) \cup {"attrs", "pub"}, At(x)
    PROVE  todo # <<>> /\ Head(todo) \notin SeamWords
BY DEF At, Openers, SeamWords

LEMMA AdvanceTells ==
    ASSUME StackInv, HistInv, Advance
    PROVE  Tells
<1>1. todo # <<>> /\ Head(todo) = "advance" /\ IsStack(todo) /\ at \in Nat
  BY DEF Advance, At, StackInv
<1>2. /\ Do(<<>>) /\ before' = before /\ reported' = reported /\ cx' = cx
      /\ at' = at + 1 \/ (at' = at /\ tok' = "EOF")
      /\ prev' = IF tok \in {None, "NEWLINE", "LBRACE"} THEN tok ELSE "other"
  <2>1. Eat(<<>>)
    BY DEF Advance
  <2> QED BY <1>1, <2>1, TakeIs DEF Eat, Take
<1>3. todo' = Tail(todo)
  <2>1. PICK S : Tail(todo) \in Seq(S)
    BY <1>1, TailIs DEF IsStack
  <2> QED BY <1>2, <2>1, ConcatEmptySeq DEF Do
<1>4. ASSUME SilentInv, ~ Begun(todo) PROVE IsStack(todo') /\ Apart(todo')
  <2>1. Quiet(todo)
    BY <1>4 DEF SilentInv
  <2> QED BY <1>1, <1>3, <1>4, <2>1, ApartTail
<1>5. CASE ~ Begun(todo)
  BY <1>2, <1>4, <1>5, QuietStep
<1>6. CASE Begun(todo)
  <2>1. SUFFICES ASSUME SilentInv PROVE SilentInv'
    BY <1>2 DEF Tells, HistInv
  <2>2. Quiet(todo) /\ Rising(before) /\ ~ cx.depth_reported /\ tok = None
    BY <1>6, <2>1 DEF SilentInv
  <2>3. Parted'
    BY <1>2, <2>2 DEF Parted, None
  <2>4. Quiet(todo') /\ ~ Begun(todo')
    BY <1>1, <1>3, <2>2, SeamTail
  <2>5. ~ Owed'
    <3>1. before # <<>> => Last(before) <= at
      BY LastIs
    <3> QED BY <1>1, <1>2, <3>1 DEF Owed
  <2> QED BY <1>2, <2>2, <2>3, <2>4, <2>5 DEF SilentInv
<1> QED BY <1>5, <1>6

LEMMA NotTells ==
    ASSUME StackInv, HistInv, Not
    PROVE  Tells
<1>1. todo # <<>> /\ Head(todo) \notin SeamWords
  BY AtEager DEF Not, Openers
<1>2. <<"not", "not_returns">> \in Seq(CalmWords)
  BY DEF CalmWords, PlainWords, Steers
<1>3. Mild(<<"not", "not_returns">>) /\ Mild(parse_cmp)
  BY <1>2, MildList, LevelsAreMild
<1>4. Promises(parse_cmp \o Tail(todo))
  <2>1. parse_cmp[1] \in Openers
    BY LevelsOpen DEF Openers
  <2> QED BY <1>1, <1>3, <2>1, LevelsOpen, Opens DEF Mild
<1> QED BY <1>1, <1>3, <1>4, EagerSteps DEF Not

LEMMA UnaryTells ==
    ASSUME StackInv, HistInv, Unary
    PROVE  Tells
<1>1. /\ <<"advance", "advance">> \in Seq(CalmWords)
      /\ <<"advance", "operand">> \in Seq(CalmWords)
      /\ <<"primary">> \in Seq(CalmWords)
      /\ <<"unary", "unary_returns">> \in Seq(CalmWords)
  BY DEF CalmWords, PlainWords, Steers
<1>2. /\ Mild(<<"advance", "advance">>)
      /\ Mild(<<"advance", "operand">>)
      /\ Mild(<<"primary">>)
      /\ Mild(<<"unary", "unary_returns">>)
  BY <1>1, MildList
<1>3. CASE At("unary")
  <2>1. todo # <<>> /\ Head(todo) \notin SeamWords
    BY <1>3, AtEager DEF Openers
  <2>2. /\ Promises(<<"advance", "advance">> \o Tail(todo))
        /\ Promises(<<"advance", "operand">> \o Tail(todo))
        /\ Promises(<<"primary">> \o Tail(todo))
    <3>1. /\ \A x : <<"advance", x>>[1] = "advance" /\ Len(<<"advance", x>>) >= 1
          /\ <<"primary">>[1] = "primary" /\ Len(<<"primary">>) >= 1
          /\ "advance" \in Openers /\ "primary" \in Openers
      BY DEF Openers
    <3> QED BY <1>2, <2>1, <3>1, Opens DEF Mild
  <2>3. CASE tok = "MINUS"
    <3>1. PICK k \in Upcoming(open) :
            /\ Do(<<"advance", IF k \in {"INT", "FLOAT"} THEN "advance" ELSE "operand">>)
            /\ UNCHANGED <<tok, open, at, prev, cx, before, said, reported>>
      BY <1>3, <2>3 DEF Unary, Peek, At
    <3>2. Do(<<"advance", "advance">>) \/ Do(<<"advance", "operand">>)
      BY <3>1
    <3> QED BY <1>2, <2>1, <2>2, <3>1, <3>2, EagerSteps
  <2>4. CASE tok # "MINUS"
    <3>1. Go(<<"primary">>)
      BY <1>3, <2>4 DEF Unary, At
    <3> QED BY <1>2, <2>1, <2>2, <3>1, EagerSteps
  <2> QED BY <2>3, <2>4
<1>4. CASE ~ At("unary")
  <2>1. At("operand") /\ Go(<<"unary", "unary_returns">>)
    BY <1>4 DEF Unary
  <2>2. "operand" \in ModestWords
    BY DEF ModestWords, PlainWords, Openers, SeamWords
  <2> QED BY <1>2, <2>1, <2>2, AtModest, ModestSteps
<1> QED BY <1>3, <1>4

LEMMA ExprTells ==
    ASSUME StackInv, HistInv, Expr
    PROVE  Tells
<1>1. todo # <<>> /\ Head(todo) \notin SeamWords
  BY AtEager DEF Expr, Openers
<1>2. <<"leave">> \in Seq(CalmWords)
  BY DEF CalmWords, Steers
<1>3. Mild(<<"leave">>) /\ Mild(parse_coalesce)
  BY <1>2, MildList, LevelsAreMild
<1> DEFINE w == parse_coalesce \o <<"leave">>
<1>4. Mild(w)
  BY <1>3, MildConcat
<1>5. Promises(w \o Tail(todo))
  <2>1. w[1] = parse_coalesce[1] /\ Len(w) >= 1
    BY <1>3, LevelsOpen, FirstOf DEF Mild
  <2>2. w[1] \in Openers
    BY <2>1, LevelsOpen DEF Openers
  <2> HIDE DEF w
  <2> QED BY <1>1, <1>4, <2>1, <2>2, Opens DEF Mild
<1>6. Enter(w)
  BY DEF Expr
<1>7. Deeper.depth_reported = cx.depth_reported
  BY DEF Deeper, StackInv, Contexts
<1> HIDE DEF w
<1> QED BY <1>1, <1>4, <1>5, <1>6, <1>7, EagerSteps, Reports DEF Enter

LEMMA PrimaryTells ==
    ASSUME StackInv, HistInv, Primary
    PROVE  Tells
<1>1. todo # <<>> /\ Head(todo) \notin SeamWords
  BY AtEager DEF Primary, Openers
<1>2. /\ <<"postfix">> \in Seq(CalmWords)
      /\ <<"string", "postfix">> \in Seq(CalmWords)
      /\ <<"path", "path_postfix">> \in Seq(CalmWords)
      /\ <<"name", "postfix">> \in Seq(CalmWords)
      /\ <<"skip_newlines", "elements", "RBRACKET", "postfix">> \in Seq(CalmWords)
      /\ <<"skip_newlines", "entries", "RBRACE", "postfix">> \in Seq(CalmWords)
      /\ <<"lambda_body", "postfix">> \in Seq(CalmWords)
      /\ <<"element_entering", "postfix">> \in Seq(CalmWords)
      /\ <<"skip_newlines", "expr", "skip_newlines", Saved, "RPAREN", "postfix">> \in Seq(CalmWords)
  BY DEF CalmWords, PlainWords, Steers, Saved
<1>3. /\ Mild(<<"postfix">>)
      /\ Mild(<<"string", "postfix">>)
      /\ Mild(<<"path", "path_postfix">>)
      /\ Mild(<<"name", "postfix">>)
      /\ Mild(<<"skip_newlines", "elements", "RBRACKET", "postfix">>)
      /\ Mild(<<"skip_newlines", "entries", "RBRACE", "postfix">>)
      /\ Mild(<<"lambda_body", "postfix">>)
      /\ Mild(<<"element_entering", "postfix">>)
      /\ Mild(<<"skip_newlines", "expr", "skip_newlines", Saved, "RPAREN", "postfix">>)
  BY <1>2, MildList
<1>4. Mild(Signature \o <<"lambda_body", "postfix">>)
  BY <1>3, SignatureIsMild, MildConcat
<1>5. Promises(<<"element_entering", "postfix">> \o Tail(todo))
  <2>1. <<"element_entering", "postfix">>[1] \in Openers /\ Len(<<"element_entering", "postfix">>) >= 1
    BY DEF Openers
  <2> QED BY <1>1, <1>3, <2>1, Opens DEF Mild
<1>6. [cx EXCEPT !.no_struct = FALSE].depth_reported = cx.depth_reported
  BY DEF StackInv, Contexts
<1> QED BY <1>1, <1>3, <1>4, <1>5, <1>6, EagerSteps, Reports DEF Primary

LEMMA StmtTells ==
    ASSUME StackInv, HistInv, Stmt
    PROVE  Tells
<1>2. /\ <<"ident", "let_type", "EQ", "expr">> \in Seq(CalmWords)
      /\ <<"cond", "block", "if_end">> \in Seq(CalmWords)
      /\ <<"cond", "match_body">> \in Seq(CalmWords)
      /\ <<"cond", "loop_body">> \in Seq(CalmWords)
      /\ <<"ident", "second_name", "KW_IN", "cond", "loop_body">> \in Seq(CalmWords)
      /\ <<"return_value">> \in Seq(CalmWords)
      /\ <<"expr">> \in Seq(CalmWords)
      /\ <<"expr", "assign">> \in Seq(CalmWords)
  BY DEF CalmWords, PlainWords, Steers
<1>3. /\ Mild(<<"ident", "let_type", "EQ", "expr">>)
      /\ Mild(<<"cond", "block", "if_end">>)
      /\ Mild(<<"cond", "match_body">>)
      /\ Mild(<<"cond", "loop_body">>)
      /\ Mild(<<"ident", "second_name", "KW_IN", "cond", "loop_body">>)
      /\ Mild(<<"return_value">>)
      /\ Mild(<<"expr">>)
      /\ Mild(<<"expr", "assign">>)
      /\ Mild(<<>>)
  BY <1>2, MildList, NothingIsMild
<1>4. CASE At("stmt")
  <2>1. todo # <<>> /\ Head(todo) \notin SeamWords
    BY <1>4, AtEager DEF Openers
  <2>2. Promises(<<"expr", "assign">> \o Tail(todo))
    <3>1. <<"expr", "assign">>[1] \in Openers /\ Len(<<"expr", "assign">>) >= 1
      BY DEF Openers
    <3> QED BY <1>3, <2>1, <3>1, Opens DEF Mild
  <2> QED BY <1>3, <1>4, <2>1, <2>2, EagerSteps, Reports DEF Stmt, Let, Jump, At
<1>5. CASE ~ At("stmt")
  <2>1. Modest
    <3>1. "return_value" \in ModestWords /\ "send_value" \in ModestWords /\ "assign" \in ModestWords
      BY DEF ModestWords, PlainWords, Openers, SeamWords
    <3> QED BY <1>5, <3>1, AtModest DEF Stmt
  <2> QED BY <1>3, <1>5, <2>1, ModestSteps, ModestChoices DEF Stmt
<1> QED BY <1>4, <1>5

LEMMA ElementTells ==
    ASSUME StackInv, HistInv, Element
    PROVE  Tells
<1>1. todo # <<>> /\ Head(todo) \notin SeamWords
  BY DEF Element, At, SeamWords
<1>2. CASE TooDeep
  BY <1>2, Reports
<1>3. CASE ~ TooDeep
  <2>1. Do(Tag) /\ cx' = InTag /\ UNCHANGED <<tok, at, before, reported>>
    BY <1>3 DEF Element
  <2>2. Tag \in Seq(CalmWords)
    BY DEF Tag, Saved, CalmWords, PlainWords, Steers
  <2>3. Mild(Tag)
    BY <2>2, MildList
  <2>4. Tag[1] \in Openers /\ Len(Tag) >= 1
    BY DEF Tag, Openers
  <2>5. Promises(todo')
    BY <1>1, <2>1, <2>3, <2>4, Opens DEF Mild, Do
  <2>6. cx'.depth_reported = cx.depth_reported
    BY <2>1 DEF InTag, Deeper, StackInv, Contexts
  <2> QED BY <1>1, <2>1, <2>3, <2>5, <2>6, QuietDo
<1> QED BY <1>2, <1>3

LEMMA ContextIs ==
    ASSUME StackInv
    PROVE  /\ \A n : [cx EXCEPT !.depth = n].depth_reported = cx.depth_reported
           /\ \A n : [cx EXCEPT !.loop_depth = n].depth_reported = cx.depth_reported
           /\ \A b : [cx EXCEPT !.no_struct = b].depth_reported = cx.depth_reported
           /\ \A b : [cx EXCEPT !.in_method = b].depth_reported = cx.depth_reported
           /\ \A b : [cx EXCEPT !.in_stream = b].depth_reported = cx.depth_reported
           /\ Deeper.depth_reported = cx.depth_reported
BY DEF StackInv, Contexts, Deeper

LEMMA TypeRefTells ==
    ASSUME StackInv, HistInv, TypeRef
    PROVE  Tells
<1>1. Modest
  <2>1. /\ "type" \in ModestWords /\ "base_type" \in ModestWords /\ "types" \in ModestWords
        /\ "type_args" \in ModestWords /\ "type_arg" \in ModestWords /\ "optional" \in ModestWords
        /\ "returns" \in ModestWords /\ "fallible" \in ModestWords
    BY DEF ModestWords, PlainWords, Openers, SeamWords
  <2> QED BY <2>1, AtModest DEF TypeRef
<1>2. /\ <<"base_type", "optional", "leave">> \in Seq(CalmWords)
      /\ <<"type", "RBRACKET">> \in Seq(CalmWords)
      /\ <<"type", "COLON", "type", "RBRACE">> \in Seq(CalmWords)
      /\ <<"LPAREN", "skip_newlines", "types", "RPAREN", "returns">> \in Seq(CalmWords)
      /\ <<"type", "RPAREN">> \in Seq(CalmWords)
      /\ <<"path", "type_args">> \in Seq(CalmWords)
      /\ <<"type_args">> \in Seq(CalmWords)
      /\ <<"type_arg", "RBRACKET">> \in Seq(CalmWords)
      /\ <<"type", "fallible">> \in Seq(CalmWords)
  BY DEF CalmWords, PlainWords, Steers
<1>3. /\ Mild(<<"base_type", "optional", "leave">>)
      /\ Mild(<<"type", "RBRACKET">>)
      /\ Mild(<<"type", "COLON", "type", "RBRACE">>)
      /\ Mild(<<"LPAREN", "skip_newlines", "types", "RPAREN", "returns">>)
      /\ Mild(<<"type", "RPAREN">>)
      /\ Mild(<<"path", "type_args">>)
      /\ Mild(<<"type_args">>)
      /\ Mild(<<"type_arg", "RBRACKET">>)
      /\ Mild(<<"type", "fallible">>)
  BY <1>2, MildList
<1>4. ASSUME Enter(<<"base_type", "optional", "leave">>) PROVE Tells
  BY <1>1, <1>3, <1>4, ContextIs, ModestSteps, Reports DEF Enter
<1> QED BY <1>1, <1>3, <1>4, LoopsAreMild, NothingIsMild, ModestSteps, ModestChoices, Reports DEF TypeRef

LEMMA StraysTells ==
    ASSUME StackInv, HistInv, Strays
    PROVE  Tells
<1>1. CASE At("strays")
  <2>1. "strays" \in ModestWords
    BY DEF ModestWords, PlainWords, Openers, SeamWords
  <2>2. Modest /\ ~ At("to_ctrl_end")
    BY <1>1, <2>1, AtModest DEF At
  <2> QED BY <2>2, NothingIsMild, ModestSteps, Reports DEF Strays
<1>2. CASE At("to_ctrl_end")
  <2>1. "to_ctrl_end" \in Steers /\ ~ At("strays")
    BY <1>2 DEF Steers, At
  <2>2. reported' = reported
    BY <1>2, <2>1 DEF Strays, Eat, Go
  <2> QED BY <1>2, <2>1, <2>2, SteersOn
<1> QED BY <1>1, <1>2 DEF Strays

LEMMA DropTells ==
    ASSUME StackInv, HistInv, Drop \/ Synchronize \/ ForceAdvance
    PROVE  Tells
<1>1. "drop" \in Steers /\ "synchronize" \in Steers /\ "force" \in Steers
  BY DEF Steers
<1>2. At("drop") \/ At("synchronize") \/ At("force")
  BY DEF Drop, Synchronize, ForceAdvance
<1>3. reported' = reported
  BY DEF Drop, Synchronize, ForceAdvance, Eat, Go, Forget
<1> QED BY <1>1, <1>2, <1>3, SteersOn

LEMMA FramesTell ==
    ASSUME StackInv, HistInv, DepthLeave \/ EndElement \/ Restore \/ Cond \/ LoopBody \/ Stream
    PROVE  Tells
<1>1. Modest
  <2>1. /\ "leave" \in ModestWords /\ "end_element" \in ModestWords /\ "no_struct" \in ModestWords
        /\ "struct" \in ModestWords /\ "cond" \in ModestWords /\ "loop_body" \in ModestWords
        /\ "loop_end" \in ModestWords /\ "stream_body" \in ModestWords /\ "stream_end" \in ModestWords
    BY DEF ModestWords, PlainWords, Openers, SeamWords
  <2> QED BY <2>1, AtModest DEF DepthLeave, EndElement, Restore, Cond, LoopBody, Stream
<1>2. /\ <<"expr", Saved>> \in Seq(CalmWords)
      /\ <<"block", "loop_end">> \in Seq(CalmWords)
      /\ <<"block", "stream_end">> \in Seq(CalmWords)
  BY DEF CalmWords, PlainWords, Steers, Saved
<1>3. /\ Mild(<<"expr", Saved>>) /\ Mild(<<"block", "loop_end">>) /\ Mild(<<"block", "stream_end">>)
      /\ Mild(<<>>)
  BY <1>2, MildList, NothingIsMild
<1>4. ASSUME NEW w, Mild(w), NEW c, c.depth_reported = cx.depth_reported, GoIn(c, w) PROVE Tells
  BY <1>1, <1>4, ModestSteps
<1>5. CASE DepthLeave \/ EndElement
  BY <1>3, <1>4, <1>5, ContextIs DEF DepthLeave, EndElement
<1>6. CASE Restore
  BY <1>3, <1>4, <1>6, ContextIs DEF Restore
<1>7. CASE Cond
  BY <1>3, <1>4, <1>7, ContextIs DEF Cond
<1>8. CASE LoopBody
  BY <1>3, <1>4, <1>8, ContextIs DEF LoopBody
<1>9. CASE Stream
  BY <1>3, <1>4, <1>9, ContextIs DEF Stream
<1> QED BY <1>5, <1>6, <1>7, <1>8, <1>9

LEMMA FnNameTells ==
    ASSUME StackInv, HistInv, FnName
    PROVE  Tells
<1>1. Modest
  <2>1. "fn_name" \in ModestWords /\ "receiver" \in ModestWords /\ "fn_end" \in ModestWords
    BY DEF ModestWords, PlainWords, Openers, SeamWords
  <2> QED BY <2>1, AtModest DEF FnName
<1>2. <<"receiver">> \in Seq(CalmWords) /\ <<"name">> \in Seq(CalmWords)
  BY DEF CalmWords, PlainWords, Steers
<1>3. Mild(<<"receiver">>) /\ Mild(<<"name">>) /\ Mild(<<>>)
  BY <1>2, MildList, NothingIsMild
<1>4. EatIn([cx EXCEPT !.in_method = TRUE], <<"name">>) => Tells
  BY <1>1, <1>3, ContextIs, EagerSteps DEF Modest
<1>5. GoIn([cx EXCEPT !.in_method = FALSE], <<>>) => Tells
  BY <1>1, <1>3, ContextIs, ModestSteps
<1> QED BY <1>1, <1>3, <1>4, <1>5, ModestSteps, ModestChoices DEF FnName

LEMMA PromiseTail ==
    ASSUME StackInv, todo # <<>>, Promises(todo), Head(todo) \notin Openers
    PROVE  Promises(<<>> \o Tail(todo))
<1> DEFINE s == todo
           t == Tail(todo)
<1>1. /\ IsStack(t) /\ Len(s) \in Nat /\ Len(t) = Len(s) - 1 /\ Head(s) = s[1]
      /\ \A j \in 1 .. Len(s) - 1 : t[j] = s[j + 1]
  BY TailIs DEF StackInv
<1>2. <<>> \o t = t
  BY <1>1, ConcatEmptySeq DEF IsStack
<1> HIDE DEF t
<1>3. CASE Len(s) >= 2 /\ s[1] = "pub" /\ s[2] = "declaration"
  <2>1. 1 \in 1 .. Len(s) - 1 /\ 1 + 1 = 2
    BY <1>1, <1>3
  <2>2. t[1] = "declaration" /\ Len(t) >= 1
    BY <1>1, <1>3, <2>1
  <2> QED BY <1>2, <2>2 DEF Promises, Openers, t
<1>4. CASE Len(s) >= 3 /\ s[1] = "attrs" /\ s[2] = "pub" /\ s[3] = "declaration"
  <2>1. 1 \in 1 .. Len(s) - 1 /\ 1 + 1 = 2 /\ 2 \in 1 .. Len(s) - 1 /\ 2 + 1 = 3
    BY <1>1, <1>4
  <2>2. t[1] = "pub" /\ t[2] = "declaration" /\ Len(t) >= 2
    BY <1>1, <1>4, <2>1
  <2> QED BY <1>2, <2>2 DEF Promises, t
<1> QED BY <1>1, <1>3, <1>4 DEF Promises

(* What may be left out before a declaration leaves the declaration.         *)
LEMMA PassOver ==
    ASSUME StackInv, HistInv, NEW x \in {"attrs", "pub"}, At(x), NEW k, NEW w, Mild(w), Match(k, w)
    PROVE  Tells
<1>1. todo # <<>> /\ Head(todo) \notin SeamWords /\ Head(todo) \notin Openers
  BY DEF At, SeamWords, Openers
<1>2. CASE Eat(w)
  BY <1>1, <1>2, EagerSteps
<1>3. CASE Go(<<>>)
  <2>1. Do(<<>>) /\ UNCHANGED <<tok, at, before, cx, reported>>
    BY <1>3 DEF Go, input
  <2>2. ~ Promises(todo) \/ Promises(todo')
    BY <1>1, <2>1, PromiseTail DEF Do
  <2> QED BY <1>1, <2>1, <2>2, NothingIsMild, QuietDo
<1> QED BY <1>2, <1>3 DEF Match

LEMMA AttrsTells ==
    ASSUME StackInv, HistInv, Attrs
    PROVE  Tells
<1>1. /\ <<"attr">> \in Seq(CalmWords)
      /\ <<"attr_args", "skip_newlines", "attrs">> \in Seq(CalmWords)
      /\ <<"skip_newlines", "args", "RPAREN">> \in Seq(CalmWords)
  BY DEF CalmWords, PlainWords, Steers
<1>2. /\ Mild(<<"attr">>)
      /\ Mild(<<"attr_args", "skip_newlines", "attrs">>)
      /\ Mild(<<"skip_newlines", "args", "RPAREN">>)
  BY <1>1, MildList
<1>3. CASE At("attrs")
  <2>1. Match("AT", <<"attr">>)
    BY <1>3 DEF Attrs, At
  <2> QED BY <1>2, <1>3, <2>1, PassOver
<1>4. CASE ~ At("attrs")
  <2>1. Modest
    <3>1. "attr" \in ModestWords /\ "attr_args" \in ModestWords
      BY DEF ModestWords, PlainWords, Openers, SeamWords
    <3> QED BY <1>4, <3>1, AtModest DEF Attrs
  <2> QED BY <1>2, <1>4, <2>1, ModestChoices DEF Attrs
<1> QED BY <1>3, <1>4

LEMMA DeclTells ==
    ASSUME StackInv, HistInv, Decl
    PROVE  Tells
<1>1. /\ <<"attrs", "pub", "declaration">> \in Seq(CalmWords)
      /\ <<"type_name">> \in Seq(CalmWords)
      /\ Let \in Seq(CalmWords)
      /\ <<"method", "quoted">> \in Seq(CalmWords)
      /\ <<"block">> \in Seq(CalmWords)
      /\ <<"fn_name">> \in Seq(CalmWords)
      /\ <<"block", "fn_end">> \in Seq(CalmWords)
      /\ <<"quoted", "group_body", "group_returns">> \in Seq(CalmWords)
      /\ <<"quoted", "block">> \in Seq(CalmWords)
  BY DEF CalmWords, PlainWords, Steers, Let
<1>2. /\ Mild(<<"attrs", "pub", "declaration">>)
      /\ Mild(<<"type_name">>)
      /\ Mild(Let)
      /\ Mild(<<"method", "quoted">>)
      /\ Mild(<<"block">>)
      /\ Mild(<<"fn_name">>)
      /\ Mild(<<"block", "fn_end">>)
      /\ Mild(<<"quoted", "group_body", "group_returns">>)
      /\ Mild(<<"quoted", "block">>)
      /\ Mild(<<>>)
  BY <1>1, MildList, NothingIsMild
<1>3. Mild(<<"method", "quoted">> \o Signature) /\ Mild(<<"fn_name">> \o Signature)
  BY <1>2, SignatureIsMild, MildConcat
<1>4. Mild(Route(<<"block">>)) /\ Mild(<<"fn_name">> \o Signature \o <<"block", "fn_end">>)
  BY <1>2, <1>3, MildConcat DEF Route
<1>5. CASE At("decl")
  <2>1. todo # <<>> /\ Head(todo) \notin SeamWords /\ Go(<<"attrs", "pub", "declaration">>)
    BY <1>5 DEF Decl, At, SeamWords
  <2>2. Promises(<<"attrs", "pub", "declaration">> \o Tail(todo))
    <3> DEFINE w == <<"attrs", "pub", "declaration">>
               t == Tail(todo)
    <3>1. IsStack(t) /\ IsStack(w)
      BY <1>2, <2>1, TailIs DEF StackInv, Mild
    <3>2. Len(w) = 3 /\ w[1] = "attrs" /\ w[2] = "pub" /\ w[3] = "declaration"
      OBVIOUS
    <3> HIDE DEF w, t
    <3>3. Len(t) \in Nat /\ 1 \in 1 .. Len(w) /\ 2 \in 1 .. Len(w) /\ 3 \in 1 .. Len(w)
      BY <3>1, <3>2, StackHasLen
    <3>4. /\ Len(w \o t) >= 3 /\ (w \o t)[1] = "attrs" /\ (w \o t)[2] = "pub"
          /\ (w \o t)[3] = "declaration"
      <4>1. Len(w \o t) = Len(w) + Len(t) /\ \A j \in 1 .. Len(w) : (w \o t)[j] = w[j]
        BY <3>1, ConcatIs
      <4> QED BY <3>2, <3>3, <4>1
    <3>5. Promises(w \o t)
      BY <3>4 DEF Promises
    <3> QED BY <3>5 DEF w, t
  <2> QED BY <1>2, <2>1, <2>2, EagerSteps
<1>6. CASE At("pub")
  <2>1. Match("KW_PUB", <<>>)
    BY <1>6 DEF Decl, At
  <2> QED BY <1>2, <1>6, <2>1, PassOver
<1>7. CASE At("declaration")
  <2>1. todo # <<>> /\ Head(todo) \notin SeamWords
    BY <1>7, AtEager DEF Openers
  <2>2. reported' => Tells
    BY DEF Tells, HistInv
  <2> QED BY <1>2, <1>4, <1>7, <2>1, <2>2, EagerSteps, Reports DEF Decl, At
<1> QED BY <1>5, <1>6, <1>7 DEF Decl

-----------------------------------------------------------------------------
(* The ends of items.                                                        *)

(* The end of an item: a word of it is done.  Only the end of a statement    *)
(* must see to it that the next one is parted from it.                       *)
LEMMA SeamPop ==
    ASSUME StackInv, HistInv, todo # <<>>, Head(todo) \in SeamWords, Do(<<>>),
           reported' = reported, cx' = cx, at' \in {at, at + 1},
           SilentInv => Rising(before') /\ (Owed' => Promises(todo')),
           Head(todo) = "stmt_end" => Parted',
           Parted => Parted'
    PROVE  Tells
<1>1. SUFFICES ASSUME ~ reported PROVE SilentInv'
  BY DEF Tells, HistInv
<1>2. SilentInv /\ IsStack(todo)
  BY <1>1 DEF HistInv, StackInv
<1>3. todo' = Tail(todo)
  <2>1. PICK S : Tail(todo) \in Seq(S)
    BY <1>2, TailIs DEF IsStack
  <2> QED BY <2>1, ConcatEmptySeq DEF Do
<1>4. /\ Quiet(todo) /\ ~ cx.depth_reported
      /\ \A j \in 1 .. Len(todo) : todo[j] \in LoopWords /\ Near(todo, j) => Parted
  BY <1>2 DEF SilentInv
<1>5. /\ Quiet(todo') /\ ~ Begun(todo')
      /\ Head(todo) \in SeamWords \ {"stmt_end"} =>
            \A j \in 1 .. Len(todo') :
                todo'[j] \in LoopWords /\ Near(todo', j) => todo[j + 1] \in LoopWords /\ Near(todo, j + 1)
  BY <1>2, <1>3, <1>4, SeamTail
<1>6. ASSUME NEW j \in 1 .. Len(todo'), todo'[j] \in LoopWords, Near(todo', j) PROVE Parted'
  <2>1. CASE Head(todo) = "stmt_end"
    BY <2>1
  <2>2. CASE Head(todo) # "stmt_end"
    <3>1. todo[j + 1] \in LoopWords /\ Near(todo, j + 1)
      BY <1>5, <1>6, <2>2
    <3>2. Len(todo') = Len(todo) - 1 /\ Len(todo) \in Nat
      BY <1>2, <1>3, TailIs
    <3>3. j + 1 \in 1 .. Len(todo)
      BY <3>2
    <3> QED BY <1>4, <3>1, <3>3
  <2> QED BY <2>1, <2>2
<1> QED BY <1>2, <1>4, <1>5, <1>6 DEF SilentInv, Owed

LEMMA AtSeam ==
    ASSUME StackInv, NEW x \in SeamWords \ {"advance"}, At(x)
    PROVE  todo # <<>> /\ Head(todo) \in SeamWords /\ Head(todo) = x /\ ~ Promises(todo)
<1>1. todo # <<>> /\ Head(todo) = x /\ IsStack(todo)
  BY DEF At, StackInv
<1>2. todo[1] = x
  BY <1>1, TailIs
<1> QED BY <1>1, <1>2 DEF Promises, Openers, SeamWords

LEMMA OwedStays ==
    ASSUME StackInv, SilentInv, ~ Promises(todo), before' = before,
           at' = at + 1 \/ (at' = at /\ (tok' = tok \/ tok' = "EOF"))
    PROVE  Rising(before') /\ ~ Owed'
<1>1. Rising(before) /\ ~ Owed /\ at \in Nat
  BY DEF SilentInv, StackInv
<1>2. before # <<>> => Last(before) <= at
  BY LastIs
<1> QED BY <1>1, <1>2 DEF Owed

LEMMA ExpectStmtEndTells ==
    ASSUME StackInv, HistInv, ExpectStmtEnd
    PROVE  Tells
<1>1. at \in Nat /\ At("stmt_end") /\ "stmt_end" \in SeamWords
  BY DEF StackInv, ExpectStmtEnd, SeamWords
<1>2. todo # <<>> /\ Head(todo) \in SeamWords /\ ~ Promises(todo)
  BY <1>1, AtSeam
<1>3. CASE tok = "NEWLINE"
  <2>1. Eat(<<>>)
    BY <1>3 DEF ExpectStmtEnd
  <2>2. /\ Do(<<>>) /\ reported' = reported /\ cx' = cx /\ before' = before
        /\ at' = at + 1 \/ (at' = at /\ tok' = "EOF")
        /\ prev' = "NEWLINE"
    BY <1>1, <1>3, <2>1, TakeIs DEF Eat, Take
  <2>3. Parted'
    BY <2>2 DEF Parted
  <2> QED BY <1>2, <2>2, <2>3, OwedStays, SeamPop
<1>4. CASE tok \in {"RBRACE", "EOF"}
  <2>1. Go(<<>>)
    BY <1>4 DEF ExpectStmtEnd
  <2>2. /\ Do(<<>>) /\ reported' = reported /\ cx' = cx /\ before' = before
        /\ at' = at /\ tok' = tok
    BY <2>1 DEF Go, input
  <2>3. Parted'
    BY <1>4, <2>2 DEF Parted
  <2> QED BY <1>2, <2>2, <2>3, OwedStays, SeamPop
<1>5. CASE tok \notin {"NEWLINE", "RBRACE", "EOF"}
  <2>1. Unexpected(<<>>)
    BY <1>5 DEF ExpectStmtEnd
  <2> QED BY <2>1, Reports
<1> QED BY <1>3, <1>4, <1>5

LEMMA SkipNewlinesTells ==
    ASSUME StackInv, HistInv, SkipNewlines
    PROVE  Tells
<1>1. at \in Nat /\ At("skip_newlines") /\ "skip_newlines" \in SeamWords /\ IsStack(todo)
  BY DEF StackInv, SkipNewlines, SeamWords
<1>2. todo # <<>> /\ Head(todo) \in SeamWords /\ Head(todo) = "skip_newlines" /\ ~ Promises(todo)
  BY <1>1, AtSeam
<1>3. CASE tok = "NEWLINE"
  <2>1. Eat(<<"skip_newlines">>)
    BY <1>3 DEF SkipNewlines
  <2>2. /\ todo' = <<"skip_newlines">> \o Tail(todo) /\ reported' = reported /\ cx' = cx
        /\ before' = before
        /\ at' = at + 1 \/ (at' = at /\ tok' = "EOF")
        /\ prev' = "NEWLINE"
    BY <1>1, <1>3, <2>1, TakeIs DEF Eat, Take, Do
  <2>3. todo' = todo
    BY <1>1, <1>2, <2>2, HeadAndTail
  <2>4. Parted'
    BY <2>2 DEF Parted
  <2>5. SilentInv => SilentInv'
    <3> SUFFICES ASSUME SilentInv PROVE SilentInv'
      OBVIOUS
    <3>1. Quiet(todo) /\ ~ cx.depth_reported
      BY DEF SilentInv
    <3>2. Rising(before') /\ ~ Owed'
      BY <1>2, <2>2, OwedStays
    <3>3. ~ Begun(todo)
      <4>1. todo[1] = "skip_newlines"
        BY <1>1, <1>2, TailIs
      <4> QED BY <4>1 DEF Begun
    <3> QED BY <2>2, <2>3, <2>4, <3>1, <3>2, <3>3 DEF SilentInv
  <2> QED BY <2>2, <2>5 DEF Tells, HistInv
<1>4. CASE tok # "NEWLINE"
  <2>1. Go(<<>>)
    BY <1>4 DEF SkipNewlines
  <2>2. /\ Do(<<>>) /\ reported' = reported /\ cx' = cx /\ before' = before
        /\ at' = at /\ tok' = tok /\ prev' = prev
    BY <2>1 DEF Go, input
  <2>3. Parted => Parted'
    BY <2>2 DEF Parted
  <2> QED BY <1>2, <2>2, <2>3, OwedStays, SeamPop
<1> QED BY <1>3, <1>4

(* The loop forgets where its item began; the ones around it began before.   *)
LEMMA RiseAgain ==
    ASSUME StackInv, SilentInv, NEW x \in Marks, At(x), before' = Front(before), at' = at
    PROVE  Rising(before') /\ ~ Owed'
<1> DEFINE n == Len(before)
           f == Front(before)
<1>1. before # <<>> /\ Len(f) = n - 1 /\ at \in Nat
  BY MarkStands DEF StackInv
<1>2. before[n] <= at /\ n \in Nat /\ n >= 1
  BY <1>1, LastIs
<1>3. before \in Seq(0 .. at) /\ f = SubSeq(before, 1, n - 1)
  BY DEF StackInv, Front
<1>4. \A i, j \in 1 .. n : i < j => before[i] < before[j]
  BY DEF SilentInv, Rising
<1>5. \A i \in 1 .. n : before[i] \in 0 .. at
  <2> DEFINE S == 0 .. at
  <2>1. before \in Seq(S)
    BY <1>3
  <2> HIDE DEF S
  <2>2. \A i \in 1 .. n : before[i] \in S
    BY <2>1
  <2> QED BY <2>2 DEF S
<1>6. \A i \in 1 .. n - 1 : f[i] = before[i]
  <2> DEFINE k == n - 1
             S == 0 .. at
  <2>1. k \in Int /\ 1 \in Int /\ k <= n /\ before \in Seq(S) /\ \A i \in 1 .. k : before[i] \in S
    BY <1>2, <1>3, <1>5
  <2> HIDE DEF k, S, f, n
  <2>2. \A i \in 1 .. k : SubSeq(before, 1, k)[i] = before[1 + i - 1]
    BY <2>1, SubSeqProperties
  <2>3. \A i \in 1 .. k : 1 + i - 1 = i
    BY <2>1
  <2>4. f = SubSeq(before, 1, k)
    BY <1>3 DEF k
  <2>5. \A i \in 1 .. k : f[i] = before[i]
    BY <2>2, <2>3, <2>4
  <2> QED BY <2>5 DEF k
<1> HIDE DEF n, f
<1>7. Rising(f)
  <2>1. \A i \in 1 .. n - 1 : i \in 1 .. n
    BY <1>2
  <2> QED BY <1>1, <1>4, <1>6, <2>1 DEF Rising
<1>8. ASSUME f # <<>> PROVE Last(f) # at
  <2>1. Last(f) = f[n - 1]
    BY <1>1 DEF Last
  <2>2. n - 1 # 0
    <3>1. PICK S : f \in Seq(S)
      BY MarkStands DEF f
    <3> QED BY <1>1, <1>8, <3>1, EmptySeq
  <2>3. n - 1 \in 1 .. n - 1 /\ n - 1 \in 1 .. n /\ n \in 1 .. n /\ n - 1 < n
    BY <1>2, <2>2
  <2>4. f[n - 1] = before[n - 1] /\ before[n - 1] < before[n]
    BY <1>4, <1>6, <2>3
  <2>5. before[n - 1] \in 0 .. at /\ before[n] \in 0 .. at
    BY <1>5, <2>3
  <2> QED BY <1>1, <1>2, <2>1, <2>4, <2>5
<1>9. before' = f
  BY DEF f
<1> QED BY <1>7, <1>8, <1>9 DEF Owed

LEMMA ForgetTells ==
    ASSUME StackInv, HistInv, NEW x \in SeamWords \cap Marks, At(x), Forget(<<>>)
    PROVE  Tells
<1>1. todo # <<>> /\ Head(todo) \in SeamWords /\ Head(todo) # "stmt_end" /\ ~ Promises(todo)
  BY AtSeam DEF Marks
<1>2. /\ Do(<<>>) /\ reported' = reported /\ cx' = cx /\ before' = Front(before)
      /\ at' = at /\ tok' = tok /\ prev' = prev
  BY DEF Forget, input
<1>3. SilentInv => Rising(before') /\ ~ Owed'
  BY <1>2, RiseAgain
<1>4. Parted => Parted'
  BY <1>2 DEF Parted
<1> QED BY <1>1, <1>2, <1>3, <1>4, SeamPop

(* In braces the check is left to another word. *)
LEMMA HandOver ==
    ASSUME NEW s, IsStack(s), s # <<>>, Quiet(s), Head(s) = "progress_in_braces",
           NEW u, u = <<"progress">> \o Tail(s)
    PROVE  /\ Quiet(u) /\ Len(u) = Len(s) /\ ~ Begun(u)
           /\ \A j \in 1 .. Len(u) : u[j] \in LoopWords /\ Near(u, j) => s[j] \in LoopWords /\ Near(s, j)
<1> DEFINE h == <<"progress">>
           t == Tail(s)
           m == Len(s)
<1>1. /\ IsStack(t) /\ m \in Nat /\ m >= 1 /\ Len(t) = m - 1 /\ s[1] = "progress_in_braces"
      /\ \A j \in 1 .. m - 1 : t[j] = s[j + 1]
  BY TailIs
<1>2. IsStack(h) /\ Len(h) = 1 /\ h[1] = "progress"
  BY TallyOne
<1>3. Steady(h)
  BY <1>2 DEF Steady, Steers
<1>4. Steady(t)
  BY SteadyTail DEF Quiet
<1> HIDE DEF h, t, m
<1>5. Steady(u)
  BY <1>1, <1>2, <1>3, <1>4, SteadyConcat DEF h, t
<1>6. /\ IsStack(u) /\ Len(u) = 1 + Len(t)
      /\ \A j \in 1 .. Len(h) : u[j] = h[j]
      /\ \A j \in 1 .. Len(t) : u[Len(h) + j] = t[j]
  BY <1>1, <1>2, ConcatIs DEF h, t
<1>7. u[1] = "progress" /\ Len(u) = m
  BY <1>1, <1>2, <1>6
<1>8. ASSUME NEW j \in 2 .. m PROVE u[j] = s[j]
  <2>1. j - 1 \in 1 .. Len(t) /\ 1 + (j - 1) = j /\ (j - 1) + 1 = j /\ j - 1 \in 1 .. m - 1
    BY <1>1
  <2>2. u[1 + (j - 1)] = t[j - 1] /\ t[j - 1] = s[(j - 1) + 1]
    BY <1>1, <1>2, <1>6, <2>1
  <2> QED BY <2>1, <2>2
<1>9. ASSUME NEW j \in 1 .. m, u[j] \in LoopWords
      PROVE  s[j] \in LoopWords /\ (Near(u, j) \/ Deep(u, j)) /\ (Near(u, j) => Near(s, j))
  <2>1. j \in 2 .. m /\ j # 1
    BY <1>7, <1>9 DEF LoopWords
  <2>2. s[j] \in LoopWords
    BY <1>8, <1>9, <2>1
  <2>3. Near(s, j) \/ Deep(s, j)
    BY <2>2 DEF Quiet, m
  <2>4. CASE j = 2
    BY <1>1, <1>7, <2>2, <2>4 DEF Near, Checks
  <2>5. CASE j # 2
    <3>1. Deep(s, j) /\ ~ Near(u, j)
      BY <1>1, <1>7, <2>1, <2>3, <2>5 DEF Near
    <3>2. /\ j > 3 /\ s[j - 1] \in Checks /\ s[j - 2] = "skip_newlines"
          /\ s[j - 3] = "stmt_end"
      BY <3>1 DEF Deep
    <3>3. j # 4
      <4>1. j = 4 => j - 3 = 1
        OBVIOUS
      <4> QED BY <1>1, <3>2, <4>1
    <3>4. j - 1 \in 2 .. m /\ j - 2 \in 2 .. m /\ j - 3 \in 2 .. m
      BY <1>1, <3>2, <3>3
    <3>5. u[j - 1] = s[j - 1] /\ u[j - 2] = s[j - 2] /\ u[j - 3] = s[j - 3]
      BY <1>8, <3>4
    <3> QED BY <2>2, <3>1, <3>2, <3>5 DEF Deep
  <2> QED BY <2>4, <2>5
<1>10. Quiet(u) /\ ~ Begun(u)
  BY <1>5, <1>7, <1>9 DEF Quiet, Begun
<1> QED BY <1>7, <1>9, <1>10 DEF m

LEMMA EnsureProgressTells ==
    ASSUME StackInv, HistInv, EnsureProgress
    PROVE  Tells
<1>1. /\ "progress_in_braces" \in SeamWords \cap Marks /\ "progress" \in SeamWords \cap Marks
      /\ IsStack(todo)
  BY DEF SeamWords, Marks, StackInv
<1>2. ASSUME NEW x \in SeamWords \cap Marks, At(x), Forget(<<>>) PROVE Tells
  BY <1>2, ForgetTells
<1>3. CASE At("progress_in_braces") /\ Go(<<"progress">>)
  <2>1. todo # <<>> /\ Head(todo) = "progress_in_braces" /\ ~ Promises(todo)
    BY <1>1, <1>3, AtSeam
  <2>2. /\ todo' = <<"progress">> \o Tail(todo) /\ reported' = reported /\ cx' = cx /\ before' = before
        /\ at' = at /\ tok' = tok /\ prev' = prev
    BY <1>3 DEF Go, input, Do
  <2>3. ASSUME SilentInv PROVE SilentInv'
    <3>1. /\ Quiet(todo) /\ ~ cx.depth_reported
          /\ \A j \in 1 .. Len(todo) : todo[j] \in LoopWords /\ Near(todo, j) => Parted
      BY <2>3 DEF SilentInv
    <3>2. /\ Quiet(todo') /\ Len(todo') = Len(todo) /\ ~ Begun(todo')
          /\ \A j \in 1 .. Len(todo') :
                todo'[j] \in LoopWords /\ Near(todo', j) => todo[j] \in LoopWords /\ Near(todo, j)
      BY <1>1, <2>1, <2>2, <3>1, HandOver
    <3>3. Rising(before') /\ ~ Owed'
      BY <2>1, <2>2, <2>3, OwedStays
    <3>4. Parted => Parted'
      BY <2>2 DEF Parted
    <3> QED BY <2>2, <3>1, <3>2, <3>3, <3>4 DEF SilentInv
  <2> QED BY <2>2, <2>3 DEF Tells, HistInv
<1>4. CASE At("progress") /\ Stuck /\ Go(<<"synchronize", "force">>)
  <2>1. ~ Promises(todo) /\ before # <<>>
    BY <1>1, <1>4, AtSeam, MarkStands
  <2>2. Owed
    BY <1>4, <2>1 DEF Owed, Stuck
  <2>3. ~ SilentInv
    BY <2>1, <2>2 DEF SilentInv
  <2>4. reported' = reported
    BY <1>4 DEF Go
  <2> QED BY <2>3, <2>4 DEF Tells, HistInv
<1> QED BY <1>1, <1>2, <1>3, <1>4 DEF EnsureProgress

(* A path in parentheses is still a path: only that word changes.            *)
LEMMA SwapApart ==
    ASSUME NEW t, IsStack(t), Apart(t), NEW n \in 1 .. Len(t), t[n] = "postfix",
           NEW s, s = Swapped(t, n, "path_postfix")
    PROVE  IsStack(s) /\ Apart(s)
<1> DEFINE x == "path_postfix"
<1>1. IsStack(s) /\ Len(s) = Len(t) /\ \A j \in 1 .. Len(t) : s[j] = IF j = n THEN x ELSE t[j]
  <2>1. s = Swapped(t, n, x)
    OBVIOUS
  <2> HIDE DEF x
  <2>2. IsStack(s) /\ Len(s) = Len(t)
    BY <2>1, SwapIs
  <2>3. \A j \in 1 .. Len(t) : s[j] = IF j = n THEN x ELSE t[j]
    BY <2>1, SwapIs
  <2> QED BY <2>2, <2>3
<1>2. Len(t) \in Nat
  BY StackHasLen
<1>3. /\ \A j \in 1 .. Len(t) : t[j] \notin Steers
      /\ \A j \in 1 .. Len(t) : t[j] = "more" => j < Len(t) /\ t[j + 1] \notin SeamWords
      /\ \A j \in 1 .. Len(t) : t[j] \in LoopWords => Deep(t, j)
  BY DEF Apart, Steady
<1>4. x \notin Steers \cup SeamWords \cup LoopWords \cup {"more"}
  BY DEF Steers, SeamWords, LoopWords
<1>5. \A y \in {"skip_newlines", "stmt_end"} \cup Checks :
         \A j \in 1 .. Len(t) : t[j] = y => s[j] = y
  <2>1. "postfix" \notin {"skip_newlines", "stmt_end"} \cup Checks
    BY DEF Checks
  <2> HIDE DEF x
  <2> QED BY <1>1, <2>1
<1> HIDE DEF x
<1>6. \A j \in 1 .. Len(t) : s[j] \notin Steers
  BY <1>1, <1>3, <1>4
<1>7. ASSUME NEW j \in 1 .. Len(t), s[j] = "more" PROVE j < Len(t) /\ s[j + 1] \notin SeamWords
  <2>1. t[j] = "more"
    BY <1>1, <1>4, <1>7
  <2>2. j < Len(t) /\ t[j + 1] \notin SeamWords
    BY <1>3, <2>1
  <2>3. j + 1 \in 1 .. Len(t)
    BY <1>2, <2>2
  <2>4. s[j + 1] = x \/ s[j + 1] = t[j + 1]
    BY <1>1, <2>3
  <2> QED BY <1>4, <2>2, <2>4
<1>8. ASSUME NEW j \in 1 .. Len(t), s[j] \in LoopWords PROVE Deep(s, j)
  <2>1. t[j] \in LoopWords
    BY <1>1, <1>4, <1>8
  <2>2. /\ j > 3 /\ t[j - 1] \in Checks /\ t[j - 2] = "skip_newlines"
        /\ t[j - 3] = "stmt_end"
    BY <1>3, <2>1 DEF Deep
  <2>3. j - 1 \in 1 .. Len(t) /\ j - 2 \in 1 .. Len(t) /\ j - 3 \in 1 .. Len(t)
    BY <1>2, <2>2
  <2>4. s[j - 1] \in Checks /\ s[j - 2] = "skip_newlines" /\ s[j - 3] = "stmt_end"
    BY <1>5, <2>2, <2>3
  <2> QED BY <2>2, <2>4 DEF Deep
<1> QED BY <1>1, <1>6, <1>7, <1>8 DEF Apart, Steady

LEMMA UngroupTells ==
    ASSUME StackInv, HistInv, Modest, InGroup, Ungroup
    PROVE  Tells
<1>1. IsStack(todo) /\ todo # <<>> /\ Head(todo) \notin SeamWords /\ ~ Promises(todo)
  BY DEF StackInv, Modest
<1>2. 12 \in 1 .. Len(Tail(todo)) /\ Tail(todo)[12] = "postfix"
  BY <1>1, UngroupIs
<1>3. todo' = [Tail(todo) EXCEPT ![12] = "path_postfix"]
      /\ UNCHANGED <<at, tok, cx, before, reported>>
  BY DEF Ungroup, input
<1>4. ASSUME SilentInv PROVE IsStack(todo') /\ Apart(todo')
  <2>1. IsStack(Tail(todo)) /\ Apart(Tail(todo))
    <3>1. Quiet(todo)
      BY <1>4 DEF SilentInv
    <3> QED BY <1>1, <3>1, ApartTail
  <2> DEFINE t == Tail(todo)
             n == 12
             s == todo'
  <2>2. IsStack(t) /\ Apart(t) /\ n \in 1 .. Len(t) /\ t[n] = "postfix"
        /\ s = Swapped(t, n, "path_postfix")
    BY <1>2, <1>3, <2>1 DEF Swapped
  <2> HIDE DEF t, n, s
  <2>3. IsStack(s) /\ Apart(s)
    BY <2>2, SwapApart
  <2> QED BY <2>3 DEF s
<1> QED BY <1>1, <1>3, <1>4, QuietStep

LEMMA PostfixTells ==
    ASSUME StackInv, HistInv, Postfix
    PROVE  Tells
<1>1. Modest
  <2>1. "path_postfix" \in ModestWords /\ "postfix" \in ModestWords
    BY DEF ModestWords, PlainWords, Openers, SeamWords
  <2> QED BY <2>1, AtModest DEF Postfix
<1>2. /\ <<"name", "postfix">> \in Seq(CalmWords)
      /\ <<"skip_newlines", "indexes", "RBRACKET", "postfix">> \in Seq(CalmWords)
      /\ <<"skip_newlines", "args", "RPAREN", "postfix">> \in Seq(CalmWords)
      /\ <<"postfix">> \in Seq(CalmWords)
      /\ <<"LBRACE">> \in Seq(CalmWords)
      /\ Fields \in Seq(CalmWords)
  BY DEF CalmWords, PlainWords, Steers, Fields
<1>3. /\ Mild(<<"name", "postfix">>)
      /\ Mild(<<"skip_newlines", "indexes", "RBRACKET", "postfix">>)
      /\ Mild(<<"skip_newlines", "args", "RPAREN", "postfix">>)
      /\ Mild(<<"postfix">>)
      /\ Mild(<<"LBRACE">>)
      /\ Mild(Fields)
  BY <1>2, MildList
<1>4. Mild(<<"LBRACE">> \o Fields)
  BY <1>3, MildConcat
<1> QED BY <1>1, <1>3, <1>4, NothingIsMild, ModestSteps, UngroupTells DEF Postfix

(* A list that is left drops its loop, which is no part of a statement.      *)
LEMMA MoreTells ==
    ASSUME StackInv, HistInv, More
    PROVE  Tells
<1>1. Modest /\ Head(todo) = "more"
  <2>1. "more" \in ModestWords
    BY DEF ModestWords, PlainWords, Openers, SeamWords
  <2> QED BY <2>1, AtModest DEF More, At
<1>2. CASE tok = "COMMA"
  <2>1. <<"skip_newlines">> \in Seq(CalmWords)
    BY DEF CalmWords, PlainWords, Steers
  <2>2. Mild(<<"skip_newlines">>)
    BY <2>1, MildList
  <2> QED BY <1>1, <1>2, <2>2, ModestSteps DEF More
<1>3. CASE tok # "COMMA"
  <2> DEFINE t == Tail(todo)
  <2>1. todo' = Tail(t) /\ UNCHANGED <<at, tok, cx, before, reported>>
    BY <1>3 DEF More, input
  <2>2. IsStack(todo) /\ todo # <<>> /\ Head(todo) \notin SeamWords /\ ~ Promises(todo)
    BY <1>1 DEF StackInv, Modest
  <2>3. ASSUME SilentInv PROVE IsStack(todo') /\ Apart(todo')
    <3>1. Quiet(todo)
      BY <2>3 DEF SilentInv
    <3>2. IsStack(t) /\ Apart(t)
      BY <2>2, <3>1, ApartTail
    <3>3. /\ Len(todo) \in Nat /\ Len(todo) >= 1 /\ Len(t) = Len(todo) - 1 /\ todo[1] = "more"
          /\ \A j \in 1 .. Len(todo) - 1 : t[j] = todo[j + 1]
      BY <1>1, <2>2, TailIs
    <3>4. 1 \in 1 .. Len(todo)
      BY <3>3
    <3>5. 1 < Len(todo) /\ todo[1 + 1] \notin SeamWords
      BY <3>1, <3>3, <3>4 DEF Quiet, Steady
    <3>6. 1 \in 1 .. Len(todo) - 1
      BY <3>3, <3>5
    <3>7. t[1] = todo[1 + 1] /\ Len(t) >= 1
      BY <3>3, <3>6
    <3> HIDE DEF t
    <3>8. t # <<>>
      <4>1. Len(<<>>) = 0
        OBVIOUS
      <4> QED BY <3>7, <4>1
    <3>9. Head(t) \notin SeamWords
      <4>1. Head(t) = t[1]
        BY <3>2, <3>8, TailIs
      <4> QED BY <3>5, <3>7, <4>1
    <3>10. Quiet(t)
      BY <3>2, ApartIs
    <3>11. IsStack(Tail(t)) /\ Apart(Tail(t))
      BY <3>2, <3>8, <3>9, <3>10, ApartTail
    <3> QED BY <2>1, <3>11
  <2> HIDE DEF t
  <2> QED BY <2>1, <2>2, <2>3, QuietStep
<1> QED BY <1>2, <1>3

LEMMA ApartPush ==
    ASSUME NEW w, IsStack(w), Apart(w), NEW t, IsStack(t), Apart(t)
    PROVE  IsStack(w \o t) /\ Apart(w \o t)
<1> DEFINE s == w \o t
           m == Len(w)
<1>1. Steady(w) /\ (\A j \in 1 .. m : w[j] \in LoopWords => Deep(w, j)) /\ m \in Nat
  BY StackHasLen DEF Apart
<1>2. \A j \in 1 .. m : s[j] = w[j]
  BY ConcatIs
<1>3. /\ IsStack(s) /\ Steady(s)
      /\ \A j \in 1 .. Len(s) : s[j] \in LoopWords => j \in 1 .. m \/ Deep(s, j)
  BY <1>1, DeepConcat
<1> HIDE DEF s, m
<1>4. ASSUME NEW j \in 1 .. m, s[j] \in LoopWords PROVE Deep(s, j)
  <2>1. /\ j > 3 /\ w[j - 1] \in Checks /\ w[j - 2] = "skip_newlines"
        /\ w[j - 3] = "stmt_end"
    BY <1>1, <1>2, <1>4 DEF Deep
  <2>2. j - 1 \in 1 .. m /\ j - 2 \in 1 .. m /\ j - 3 \in 1 .. m
    BY <1>1, <2>1
  <2>3. s[j - 1] = w[j - 1] /\ s[j - 2] = w[j - 2] /\ s[j - 3] = w[j - 3]
    BY <1>2, <2>2
  <2> QED BY <2>1, <2>3 DEF Deep
<1>5. Apart(s)
  BY <1>3, <1>4 DEF Apart
<1> QED BY <1>3, <1>5 DEF s

(* A loop that takes up an item: it began its last one before.               *)
LEMMA RiseWith ==
    ASSUME StackInv, SilentInv, ~ Promises(todo), tok # "EOF"
    PROVE  Rising(Append(before, at))
<1> DEFINE n == Len(before)
           b == Append(before, at)
           S == 0 .. at
<1>1. before \in Seq(S) /\ at \in Nat
  BY DEF StackInv
<1>2. before # <<>> => Last(before) # at /\ Last(before) <= at /\ Last(before) = before[n]
  BY LastIs DEF SilentInv, Owed
<1>3. \A i, j \in 1 .. n : i < j => before[i] < before[j]
  BY DEF SilentInv, Rising
<1>4. at \in S
  BY <1>1
<1>5. \A x \in S : x \in Int
  BY <1>1
<1> HIDE DEF S
<1>6. /\ n \in Nat /\ Len(b) = n + 1 /\ b[n + 1] = at
      /\ \A i \in 1 .. n : b[i] = before[i] /\ before[i] \in S
  BY <1>1, <1>4
<1>7. ASSUME NEW i \in 1 .. n PROVE before[i] < at
  <2>1. n \in 1 .. n /\ before # <<>>
    <3>1. Len(<<>>) = 0
      OBVIOUS
    <3> QED BY <1>6, <3>1
  <2>2. before[n] < at
    BY <1>1, <1>2, <1>5, <1>6, <2>1
  <2>3. i = n \/ before[i] < before[n]
    BY <1>3, <1>6, <2>1
  <2> QED BY <1>1, <1>5, <1>6, <2>1, <2>2, <2>3
<1> HIDE DEF b, n
<1>8. ASSUME NEW i \in 1 .. n + 1, NEW j \in 1 .. n + 1, i < j PROVE b[i] < b[j]
  <2>1. i \in 1 .. n
    BY <1>6, <1>8
  <2>2. CASE j = n + 1
    BY <1>6, <1>7, <2>1, <2>2
  <2>3. CASE j # n + 1
    <3>1. j \in 1 .. n
      BY <1>6, <2>3
    <3> QED BY <1>3, <1>6, <1>8, <2>1, <3>1
  <2> QED BY <2>2, <2>3
<1>9. Rising(b)
  BY <1>6, <1>8 DEF Rising
<1> QED BY <1>9 DEF b

LEMMA MarkTells ==
    ASSUME StackInv, HistInv, Modest, tok # "EOF",
           NEW w, IsStack(w), Apart(w), Len(w) >= 1, w[1] \in Openers, Mark(w)
    PROVE  Tells
<1>1. /\ todo' = w \o Tail(todo) /\ before' = Append(before, at) /\ reported' = reported /\ cx' = cx
      /\ IsStack(todo) /\ todo # <<>> /\ Head(todo) \notin SeamWords /\ ~ Promises(todo)
  BY DEF Mark, Do, Modest, StackInv
<1>2. ASSUME SilentInv PROVE SilentInv'
  <2>1. Quiet(todo) /\ ~ cx.depth_reported
    BY <1>2 DEF SilentInv
  <2>2. IsStack(Tail(todo)) /\ Apart(Tail(todo))
    BY <1>1, <2>1, ApartTail
  <2>3. IsStack(todo') /\ Apart(todo')
    BY <1>1, <2>2, ApartPush
  <2>4. /\ Quiet(todo') /\ ~ Begun(todo')
        /\ \A j \in 1 .. Len(todo') : todo'[j] \in LoopWords => ~ Near(todo', j)
    BY <2>3, ApartIs
  <2>5. Promises(todo')
    BY <1>1, Opens
  <2>6. Rising(before')
    BY <1>1, <1>2, RiseWith
  <2> QED BY <1>1, <2>1, <2>4, <2>5, <2>6 DEF SilentInv
<1> QED BY <1>1, <1>2 DEF Tells, HistInv

LEMMA MildIsApart ==
    ASSUME NEW w, Mild(w)
    PROVE  IsStack(w) /\ Apart(w)
BY DEF Mild, Apart

LEMMA StmtsTells ==
    ASSUME StackInv, HistInv, Stmts
    PROVE  Tells
<1>1. Modest
  <2>1. "stmts" \in ModestWords
    BY DEF ModestWords, PlainWords, Openers, SeamWords
  <2> QED BY <2>1, AtModest DEF Stmts
<1> DEFINE w == <<"stmt", "stmt_end", "skip_newlines", "progress_in_braces", "stmts">>
<1>2. CASE tok \in {"RBRACE", "EOF"}
  BY <1>1, <1>2, NothingIsMild, ModestSteps DEF Stmts
<1>3. CASE tok \notin {"RBRACE", "EOF"}
  <2>1. Mark(w) /\ tok # "EOF"
    BY <1>3 DEF Stmts
  <2>a. w \in Seq({"stmt", "stmt_end", "skip_newlines", "progress_in_braces", "stmts"})
    OBVIOUS
  <2>2. /\ Len(w) = 5 /\ w[1] = "stmt" /\ w[2] = "stmt_end"
        /\ w[3] = "skip_newlines" /\ w[4] = "progress_in_braces" /\ w[5] = "stmts"
    OBVIOUS
  <2> HIDE DEF w
  <2>3. IsStack(w) /\ w[1] \in Openers /\ Len(w) >= 1
    BY <2>a, <2>2 DEF IsStack, Openers
  <2>4. \A j \in 1 .. Len(w) : j = 1 \/ j = 2 \/ j = 3 \/ j = 4 \/ j = 5
    BY <2>2
  <2>5. \A j \in 1 .. Len(w) : w[j] \notin Steers /\ w[j] # "more"
    BY <2>2, <2>4 DEF Steers
  <2>6. Deep(w, 5)
    BY <2>2 DEF Deep, Checks
  <2>7. \A j \in 1 .. Len(w) : w[j] \in LoopWords => j = 5
    BY <2>2, <2>4 DEF LoopWords
  <2>8. Apart(w)
    BY <2>5, <2>6, <2>7 DEF Apart, Steady
  <2> QED BY <1>1, <2>1, <2>3, <2>8, MarkTells
<1> QED BY <1>2, <1>3

LEMMA GroupItemsTell ==
    ASSUME StackInv, HistInv, GroupItems
    PROVE  Tells
<1>1. Modest
  <2>1. "group_body" \in ModestWords /\ "group_items" \in ModestWords
    BY DEF ModestWords, PlainWords, Openers, SeamWords
  <2> QED BY <2>1, AtModest DEF GroupItems
<1>2. /\ <<"LBRACE", "skip_newlines", "group_items", "RBRACE">> \in Seq(CalmWords)
      /\ <<"decl", "skip_newlines", "progress_in_braces", "group_items">> \in Seq(CalmWords)
  BY DEF CalmWords, PlainWords, Steers
<1>3. /\ Mild(<<"LBRACE", "skip_newlines", "group_items", "RBRACE">>)
      /\ Mild(<<"decl", "skip_newlines", "progress_in_braces", "group_items">>)
  BY <1>2, MildList
<1> DEFINE w == <<"decl", "skip_newlines", "progress_in_braces", "group_items">>
<1>4. CASE tok \notin {"RBRACE", "EOF"} /\ Mark(w)
  <2>1. Len(w) >= 1 /\ w[1] \in Openers
    BY DEF Openers
  <2>2. IsStack(w) /\ Apart(w)
    BY <1>3, MildIsApart
  <2> HIDE DEF w
  <2> QED BY <1>1, <1>4, <2>1, <2>2, MarkTells
<1> HIDE DEF w
<1> QED BY <1>1, <1>3, <1>4, NothingIsMild, ModestSteps DEF GroupItems, w

LEMMA UnitTells ==
    ASSUME StackInv, HistInv, Unit
    PROVE  Tells
<1>1. Modest
  <2>1. "unit" \in ModestWords
    BY DEF ModestWords, PlainWords, Openers, SeamWords
  <2> QED BY <2>1, AtModest DEF Unit
<1> DEFINE w == <<"decl", "stmt_end", "skip_newlines", "progress", "unit">>
<1>2. CASE tok = "EOF"
  BY <1>1, <1>2, NothingIsMild, ModestSteps DEF Unit
<1>3. CASE tok # "EOF"
  <2>1. Mark(w)
    BY <1>3 DEF Unit
  <2>a. w \in Seq({"decl", "stmt_end", "skip_newlines", "progress", "unit"})
    OBVIOUS
  <2>2. /\ Len(w) = 5 /\ w[1] = "decl" /\ w[2] = "stmt_end"
        /\ w[3] = "skip_newlines" /\ w[4] = "progress" /\ w[5] = "unit"
    OBVIOUS
  <2> HIDE DEF w
  <2>3. IsStack(w) /\ w[1] \in Openers /\ Len(w) >= 1
    BY <2>a, <2>2 DEF IsStack, Openers
  <2>4. \A j \in 1 .. Len(w) : j = 1 \/ j = 2 \/ j = 3 \/ j = 4 \/ j = 5
    BY <2>2
  <2>5. \A j \in 1 .. Len(w) : w[j] \notin Steers /\ w[j] # "more"
    BY <2>2, <2>4 DEF Steers
  <2>6. Deep(w, 5)
    BY <2>2 DEF Deep, Checks
  <2>7. \A j \in 1 .. Len(w) : w[j] \in LoopWords => j = 5
    BY <2>2, <2>4 DEF LoopWords
  <2>8. Apart(w)
    BY <2>5, <2>6, <2>7 DEF Apart, Steady
  <2> QED BY <1>1, <1>3, <2>1, <2>3, <2>8, MarkTells
<1> QED BY <1>2, <1>3

(* A block begins with a brace, behind which a statement may stand.          *)
LEMMA BlockTells ==
    ASSUME StackInv, HistInv, Block
    PROVE  Tells
<1>1. Modest
  <2>1. "block" \in ModestWords
    BY DEF ModestWords, PlainWords, Openers, SeamWords
  <2> QED BY <2>1, AtModest DEF Block
<1> DEFINE w == <<"skip_newlines", "stmts", "RBRACE", "leave">>
           t == Tail(todo)
<1>2. CASE tok = "LBRACE" /\ EatIn(Deeper, w)
  <2>1. /\ todo' = w \o t /\ before' = before /\ reported' = reported /\ cx' = Deeper /\ Take
        /\ IsStack(todo) /\ todo # <<>> /\ Head(todo) \notin SeamWords /\ ~ Promises(todo)
        /\ at \in Nat
    BY <1>1, <1>2 DEF EatIn, Do, Modest, StackInv
  <2>2. at' = at + 1 \/ (at' = at /\ tok' = "EOF")
    BY <2>1, EatIs
  <2>3. prev' = "LBRACE"
    BY <1>2, <2>1, TakeIs DEF Take
  <2>4. Parted'
    BY <2>3 DEF Parted
  <2>a. w \in Seq({"skip_newlines", "stmts", "RBRACE", "leave"})
    OBVIOUS
  <2>5. /\ Len(w) = 4 /\ w[1] = "skip_newlines" /\ w[2] = "stmts"
        /\ w[3] = "RBRACE" /\ w[4] = "leave"
    OBVIOUS
  <2> HIDE DEF w, t
  <2>6. \A j \in 1 .. Len(w) : j = 1 \/ j = 2 \/ j = 3 \/ j = 4
    BY <2>5
  <2>7. IsStack(w) /\ \A j \in 1 .. Len(w) : w[j] \notin Steers /\ w[j] # "more"
    BY <2>a, <2>5, <2>6 DEF Steers, IsStack
  <2>8. Steady(w)
    BY <2>7 DEF Steady
  <2>9. \A j \in 1 .. Len(w) : w[j] \in LoopWords => j = 2
    BY <2>5, <2>6 DEF LoopWords
  <2>10. ASSUME SilentInv PROVE SilentInv'
    <3>1. Quiet(todo) /\ ~ cx.depth_reported
      BY <2>10 DEF SilentInv
    <3>2. IsStack(t) /\ Apart(t)
      BY <2>1, <3>1, ApartTail DEF t
    <3> DEFINE s == w \o t
    <3>3. \A j \in 1 .. Len(w) : s[j] = w[j]
      BY <2>7, <3>2, ConcatIs
    <3>4. IsStack(s) /\ Steady(s)
          /\ \A j \in 1 .. Len(s) : s[j] \in LoopWords => j \in 1 .. Len(w) \/ Deep(s, j)
      BY <2>7, <2>8, <3>2, DeepConcat
    <3> HIDE DEF s
    <3>5. s[1] = "skip_newlines"
      BY <2>5, <3>3
    <3>6. \A j \in 1 .. Len(s) : s[j] \in LoopWords => j = 2 \/ Deep(s, j)
      BY <2>9, <3>3, <3>4
    <3>7. Near(s, 2)
      BY <3>5 DEF Near
    <3>8. Quiet(s) /\ ~ Begun(s)
      BY <3>4, <3>5, <3>6, <3>7 DEF Quiet, Begun
    <3>9. Quiet(todo') /\ ~ Begun(todo')
      BY <2>1, <3>8 DEF s
    <3>10. Rising(before') /\ ~ Owed'
      BY <2>1, <2>2, <2>10, OwedStays
    <3>11. ~ cx'.depth_reported
      BY <2>1, <3>1, ContextIs
    <3> QED BY <2>4, <3>9, <3>10, <3>11 DEF SilentInv
  <2> QED BY <2>1, <2>10 DEF Tells, HistInv
<1>3. CASE TooDeep \/ Unexpected(<<>>)
  BY <1>3, Reports
<1> QED BY <1>2, <1>3 DEF Block

-----------------------------------------------------------------------------

LEMMA HistInit ==
    ASSUME Init
    PROVE  HistInv
<1> DEFINE w == <<"advance", "skip_newlines", "unit">>
<1>1. todo = w /\ before = <<>> /\ ~ cx.depth_reported
  BY DEF Init
<1>a. w \in Seq({"advance", "skip_newlines", "unit"})
  OBVIOUS
<1>2. Len(w) = 3 /\ w[1] = "advance" /\ w[2] = "skip_newlines" /\ w[3] = "unit"
  OBVIOUS
<1> HIDE DEF w
<1>b. IsStack(w)
  BY <1>a DEF IsStack
<1>3. \A j \in 1 .. Len(w) : j = 1 \/ j = 2 \/ j = 3
  BY <1>2
<1>c. \A j \in 1 .. Len(w) : w[j] \in LoopWords => Near(w, j)
  BY <1>2, <1>3 DEF LoopWords, Near
<1>d. Steady(w)
  BY <1>2, <1>3 DEF Steady, Steers
<1>4. Quiet(todo) /\ Parted /\ tok = None
  BY <1>1, <1>c, <1>d DEF Quiet, Parted, Init, None
<1>5. Rising(before)
  <2>1. Len(<<>>) = 0
    OBVIOUS
  <2> QED BY <1>1, <2>1 DEF Rising
<1> QED BY <1>1, <1>4, <1>5 DEF HistInv, SilentInv, Owed

LEMMA NextTells ==
    ASSUME StackInv, HistInv, Next
    PROVE  Tells
<1>1. CASE \/ Advance \/ Expect \/ SkipNewlines \/ ExpectStmtEnd \/ Synchronize \/ EnsureProgress
           \/ ForceAdvance \/ DepthLeave \/ Return \/ Restore \/ More
  BY <1>1, AdvanceTells, ExpectTells, SkipNewlinesTells, ExpectStmtEndTells, DropTells,
     EnsureProgressTells, FramesTell, ReturnTells, MoreTells
<1>2. CASE \/ String \/ Path \/ AName \/ TypeRef \/ Pattern
           \/ Expr \/ Compare \/ Binary \/ Cast \/ Not \/ Unary \/ Coalesce \/ Elements \/ FieldInits
           \/ Lambda \/ Primary \/ Drop \/ Postfix
  BY <1>2, StringTells, PathTells, ANameTells, TypeRefTells, PatternTells, ExprTells, CompareTells,
     BinaryTells, CastTells, NotTells, UnaryTells, CoalesceTells, ElementsTells, FieldInitsTells,
     LambdaTells, PrimaryTells, DropTells, PostfixTells
<1>3. CASE \/ Element \/ EndElement \/ Attributes \/ TagEnd \/ Children \/ Strays \/ ClosingTag
           \/ Ctrl \/ Arms
  BY <1>3, ElementTells, FramesTell, AttributesTells, TagEndTells, ChildrenTells, StraysTells,
     ClosingTagTells, CtrlTells, ArmsTells
<1>4. CASE \/ Attrs \/ Cond \/ LetType \/ If \/ MatchArms \/ LoopBody \/ Stmt \/ Block \/ Stmts
           \/ Params \/ Default \/ FnName \/ TypeDecl \/ HttpMethod \/ Quoted \/ Stream \/ GroupItems
           \/ Decl \/ Unit
  BY <1>4, AttrsTells, FramesTell, LetTypeTells, IfTells, MatchArmsTells, StmtTells,
     BlockTells, StmtsTells, ParamsTells, DefaultTells, FnNameTells, TypeDeclTells, HttpMethodTells,
     QuotedTells, GroupItemsTell, DeclTells, UnitTells
<1> QED BY <1>1, <1>2, <1>3, <1>4 DEF Next

LEMMA HistoryIsKept == Spec => [](StackInv /\ HistInv)
<1>1. Init => StackInv /\ HistInv
  BY InitKeeps, HistInit
<1>2. StackInv /\ HistInv /\ [Next]_vars => (StackInv /\ HistInv)'
  <2> SUFFICES ASSUME StackInv, HistInv, [Next]_vars PROVE StackInv' /\ HistInv'
    OBVIOUS
  <2>1. StackInv'
    BY NextKeeps
  <2>2. CASE UNCHANGED vars
    <3>1. /\ todo' = todo /\ tok' = tok /\ at' = at /\ prev' = prev /\ cx' = cx /\ before' = before
          /\ reported' = reported
      BY <2>2 DEF vars, input
    <3>2. (Owed' <=> Owed) /\ (Parted' <=> Parted)
      BY <3>1 DEF Owed, Parted
    <3>3. SilentInv => SilentInv'
      BY <3>1, <3>2 DEF SilentInv
    <3> QED BY <2>1, <3>1, <3>3 DEF HistInv
  <2>3. CASE Next
    <3>1. Tells
      BY <2>3, NextTells
    <3> QED BY <2>1, <3>1 DEF Tells
  <2> QED BY <2>1, <2>2, <2>3
<1> QED BY <1>1, <1>2, PTL DEF Spec

(* For every stream of tokens: tokens are passed over only after something   *)
(* was reported (synchronize, ensure_progress, the skip to the end of a      *)
(* directive and the dropped token of parse_primary, parse.h:16-20).         *)
THEOREM RecoveryTells == Spec => RecoveryIsReported
<1>1. StackInv /\ HistInv /\ [Next]_vars => [Recovering /\ at' # at => reported']_vars
  <2> SUFFICES ASSUME StackInv, HistInv, Next, Recovering PROVE reported'
    BY DEF vars, input
  <2>1. Tells
    BY NextTells
  <2>2. reported
    BY Steering DEF Recovering, Steers
  <2> QED BY <2>1, <2>2 DEF Tells
<1> QED BY <1>1, HistoryIsKept, PTL DEF Spec, RecoveryIsReported

(* For every stream of tokens: what the parser accepts in silence has each   *)
(* statement of a block and each declaration of a unit on a line of its own  *)
(* (parse_block and parse_unit with expect_stmt_end, D060).                  *)
THEOREM StatementsArePart == Spec => []SeparateStatements
<1>1. StackInv /\ HistInv => SeparateStatements
  <2> SUFFICES ASSUME StackInv, HistInv, NEW x \in LoopWords, At(x), tok \notin {"RBRACE", "EOF"}, ~ reported
               PROVE  prev # "other"
    BY DEF SeparateStatements, LoopWords
  <2>1. IsStack(todo) /\ todo # <<>> /\ Head(todo) = x
    BY DEF StackInv, At
  <2>2. Len(todo) \in Nat /\ Len(todo) >= 1 /\ todo[1] \in LoopWords
    BY <2>1, TailIs
  <2>3. 1 \in 1 .. Len(todo) /\ Near(todo, 1)
    BY <2>2 DEF Near
  <2>4. Parted
    BY <2>2, <2>3 DEF HistInv, SilentInv
  <2> QED BY <2>4 DEF Parted
<1> QED BY <1>1, HistoryIsKept, PTL

=============================================================================
