---------------------------- MODULE LexerProofs ----------------------------
(* The lexer, for every source and every depth bound: its levels stay well   *)
(* formed, it ends within a bounded number of calls, it skips nothing in     *)
(* silence, and ends of line come where the rule has them.  From the         *)
(* characters up: the runs the source is cut into, what one scan does to the *)
(* lexer (Direct: it stays, enters a level, leaves one or turns one), what   *)
(* is skipped before a token, what lex_next and lex_peek make of it, and the *)
(* invariant (Holds) that ties the lookahead to the token last given.  Then  *)
(* a second one (Linked): the levels agree with what the tokens have left    *)
(* open, so that closers match and the lexer implements TokenStream.         *)
EXTENDS Lexer, SequenceTheorems, FiniteSetTheorems, WellFoundedInduction, TLAPS

-----------------------------------------------------------------------------
(* Recursion downwards over the positions of a text.                         *)

LEMMA LeastIs ==
    ASSUME NEW S, S \subseteq Nat, S # {}
    PROVE  \E x \in S : \A y \in S : x <= y
<1> DEFINE R == OpToRel(<, Nat)
<1>1. IsWellFoundedOn(R, Nat)
  BY NatLessThanWellFounded
<1>2. \A x, y \in Nat : x < y => <<x, y>> \in R
  BY DEF OpToRel
<1> HIDE DEF R
<1>3. PICK x \in S : \A y \in S : ~ (<<y, x>> \in R)
  BY <1>1, WFMin
<1>4. \A y \in S : ~ (y < x)
  BY <1>2, <1>3
<1> QED BY <1>3, <1>4

(* What holds at m and is handed down holds below m. *)
LEMMA Downwards ==
    ASSUME NEW m \in Nat, NEW X, X \subseteq 0 .. m,
           \A j \in 0 .. m : (\A k \in j + 1 .. m : k \in X) => j \in X
    PROVE  X = 0 .. m
<1> DEFINE Y == {k \in 0 .. m : ~ (m - k \in X)}
<1> SUFFICES ASSUME Y # {} PROVE FALSE
  <2>1. \A j \in 0 .. m : m - j \in 0 .. m /\ m - (m - j) = j
    OBVIOUS
  <2> QED BY <2>1
<1>1. PICK k \in Y : \A j \in Y : k <= j
  <2>1. Y \subseteq Nat
    OBVIOUS
  <2> HIDE DEF Y
  <2> QED BY <2>1, LeastIs
<1>2. k \in 0 .. m /\ m - k \in 0 .. m /\ m - k \notin X
  OBVIOUS
<1>3. ASSUME NEW j \in m - k + 1 .. m PROVE j \in X
  <2>1. m - j \in 0 .. m /\ ~ (k <= m - j) /\ m - (m - j) = j
    BY <1>2, <1>3
  <2>2. m - j \notin Y
    <3> HIDE DEF Y
    <3> QED BY <1>1, <2>1
  <2> QED BY <2>1, <2>2
<1> QED BY <1>2, <1>3

(* A function that asks for itself further on, at N[j], exists: B is its     *)
(* value where it does not, and H what it makes of the answer.               *)
Forward(S, m, Base, N) == \A j \in S : j \notin Base => j < m /\ N[j] > j
Solves(f, S, Base, B, N, H) ==
    \A j \in S : f[j] = IF j \in Base THEN B[j] ELSE H[j][f[N[j]]]

LEMMA Recursion ==
    ASSUME NEW m \in Nat, NEW S, S \subseteq Nat, NEW V, NEW Base,
           NEW B \in [S -> V], NEW N \in [S -> S], NEW H \in [S -> [V -> V]],
           Forward(S, m, Base, N)
    PROVE  \E f \in [S -> V] : Solves(f, S, Base, B, N, H)
<1> USE DEF Forward
<1> DEFINE Is(f, j) == f[j] = IF j \in Base THEN B[j] ELSE H[j][f[N[j]]]
           X == {k \in 0 .. m : \E f \in [S -> V] : \A j \in S : j >= k => Is(f, j)}
<1>1. ASSUME NEW k \in 0 .. m, \A i \in k + 1 .. m : i \in X PROVE k \in X
  <2>1. CASE k = m
    <3>1. \A j \in S : j >= k => Is(B, j)
      BY <2>1
    <3> QED BY <3>1
  <2>2. CASE k # m
    <3>1. k + 1 \in k + 1 .. m
      BY <2>2
    <3>2. k + 1 \in X
      <4> HIDE DEF X
      <4> QED BY <1>1, <3>1
    <3>3. PICK f \in [S -> V] : \A j \in S : j >= k + 1 => Is(f, j)
      BY <3>2
    <3>4. CASE k \notin S
      <4>1. \A j \in S : j >= k => j >= k + 1
        BY <3>4
      <4>2. \A j \in S : j >= k => Is(f, j)
        <5> HIDE DEF Is
        <5> QED BY <3>3, <4>1
      <4> QED BY <4>2
    <3>5. CASE k \in S
      <4> DEFINE v == IF k \in Base THEN B[k] ELSE H[k][f[N[k]]]
                 g == [f EXCEPT ![k] = v]
      <4>1. v \in V
        <5>1. B[k] \in V /\ N[k] \in S /\ H[k] \in [V -> V]
          BY <3>5
        <5>2. H[k][f[N[k]]] \in V
          BY <5>1
        <5> QED BY <5>1, <5>2
      <4> HIDE DEF v
      <4>2. g \in [S -> V] /\ g[k] = v /\ \A j \in S : j # k => g[j] = f[j]
        BY <3>5, <4>1
      <4> HIDE DEF g
      <4>3. ASSUME NEW j \in S, j >= k PROVE Is(g, j)
        <5>1. j \notin Base => g[N[j]] = f[N[j]]
          <6>1. j \notin Base => N[j] \in S /\ N[j] # k
            BY <4>3
          <6> QED BY <4>2, <6>1
        <5>2. CASE j = k
          BY <4>2, <5>1, <5>2 DEF v
        <5>3. CASE j # k
          <6>1. Is(f, j)
            <7>1. j >= k + 1
              BY <4>3, <5>3
            <7> HIDE DEF Is
            <7> QED BY <3>3, <7>1
          <6> QED BY <4>2, <5>1, <5>3, <6>1
        <5> QED BY <5>2, <5>3
      <4> HIDE DEF Is
      <4> QED BY <4>2, <4>3
    <3> QED BY <3>4, <3>5
  <2> QED BY <2>1, <2>2
<1>2. X = 0 .. m
  <2>1. X \subseteq 0 .. m
    OBVIOUS
  <2> HIDE DEF X
  <2> QED BY <1>1, <2>1, Downwards
<1>3. 0 \in X
  <2>1. 0 \in 0 .. m
    OBVIOUS
  <2> HIDE DEF X
  <2> QED BY <1>2, <2>1
<1>4. PICK f \in [S -> V] : \A j \in S : j >= 0 => Is(f, j)
  BY <1>3
<1>5. \A j \in S : Is(f, j)
  <2> HIDE DEF Is
  <2> QED BY <1>4
<1> QED BY <1>5 DEF Solves

-----------------------------------------------------------------------------
(* The source.                                                               *)

TextInv == text \in Seq(Chars)

LEMMA TextIs ==
    ASSUME TextInv
    PROVE  /\ n \in Nat
           /\ \A j \in 0 .. n - 1 : At(j) \in Chars
           /\ \A j \in Nat : j >= n => At(j) = "end"
           /\ \A j \in Nat : At(j) # "end" => j < n
<1>1. n \in Nat /\ \A j \in 1 .. n : text[j] \in Chars
  BY DEF TextInv, n
<1>2. \A j \in 0 .. n - 1 : j + 1 \in 1 .. n /\ j < n
  BY <1>1
<1>3. \A j \in 0 .. n - 1 : At(j) \in Chars
  BY <1>1, <1>2 DEF At
<1>4. \A j \in Nat : j >= n => At(j) = "end"
  BY <1>1 DEF At
<1> QED BY <1>1, <1>3, <1>4

LEMMA CharIsNotEnd == "end" \notin Chars /\ None \notin Chars /\ "EOF" \notin Chars /\ "NEWLINE" \notin Chars
BY DEF Chars, None

LEMMA Two ==
    ASSUME NEW j \in Nat, NEW c, NEW d
    PROVE  looking_at(j, <<c, d>>) <=> At(j) = c /\ At(j + 1) = d
<1>1. DOMAIN <<c, d>> = 1 .. 2 /\ <<c, d>>[1] = c /\ <<c, d>>[2] = d
  OBVIOUS
<1>2. j + 1 - 1 = j /\ j + 2 - 1 = j + 1
  OBVIOUS
<1>3. \A k \in 1 .. 2 : k = 1 \/ k = 2
  OBVIOUS
<1> QED BY <1>1, <1>2, <1>3 DEF looking_at

LEMMA Three ==
    ASSUME NEW j \in Nat, NEW c, NEW d, NEW e
    PROVE  looking_at(j, <<c, d, e>>) <=> At(j) = c /\ At(j + 1) = d /\ At(j + 2) = e
<1>1. DOMAIN <<c, d, e>> = 1 .. 3 /\ <<c, d, e>>[1] = c /\ <<c, d, e>>[2] = d /\ <<c, d, e>>[3] = e
  OBVIOUS
<1>2. j + 1 - 1 = j /\ j + 2 - 1 = j + 1 /\ j + 3 - 1 = j + 2
  OBVIOUS
<1>3. \A k \in 1 .. 3 : k = 1 \/ k = 2 \/ k = 3
  OBVIOUS
<1> QED BY <1>1, <1>2, <1>3 DEF looking_at

LEMMA Four ==
    ASSUME NEW j \in Nat, NEW c, NEW d, NEW e, NEW g
    PROVE  looking_at(j, <<c, d, e, g>>) <=> At(j) = c /\ At(j + 1) = d /\ At(j + 2) = e /\ At(j + 3) = g
<1>1. /\ DOMAIN <<c, d, e, g>> = 1 .. 4 /\ <<c, d, e, g>>[1] = c /\ <<c, d, e, g>>[2] = d
      /\ <<c, d, e, g>>[3] = e /\ <<c, d, e, g>>[4] = g
  OBVIOUS
<1>2. j + 1 - 1 = j /\ j + 2 - 1 = j + 1 /\ j + 3 - 1 = j + 2 /\ j + 4 - 1 = j + 3
  OBVIOUS
<1>3. \A k \in 1 .. 4 : k = 1 \/ k = 2 \/ k = 3 \/ k = 4
  OBVIOUS
<1> QED BY <1>1, <1>2, <1>3 DEF looking_at

(* Where to stop, from i on. *)
LEMMA FirstStop ==
    ASSUME TextInv, NEW i \in 0 .. n, NEW S
    PROVE  \E j \in i .. n : (j = n \/ j \in S) /\ \A k \in i .. j - 1 : k \notin S
<1> DEFINE X == {j \in i .. n : j = n \/ j \in S}
<1>0. n \in Nat
  BY TextIs
<1>1. X \subseteq Nat /\ n \in X
  BY <1>0
<1>2. PICK j \in X : \A k \in X : j <= k
  <2> HIDE DEF X
  <2> QED BY <1>1, LeastIs
<1>3. ASSUME NEW k \in i .. j - 1 PROVE k \notin S
  <2>1. k \in i .. n /\ ~ (j <= k)
    BY <1>0
  <2>2. k \notin X
    <3> HIDE DEF X
    <3> QED BY <1>2, <2>1
  <2> QED BY <2>1, <2>2
<1> QED BY <1>2, <1>3

LEMMA WordEnds ==
    ASSUME TextInv, NEW i \in 0 .. n
    PROVE  LET e == WordEnd(i)
           IN  e \in i .. n /\ (e = n \/ ~ is_word(e)) /\ \A k \in i .. e - 1 : is_word(k)
<1> DEFINE S == {j \in i .. n : ~ is_word(j)}
<1>1. n \in Nat
  BY TextIs
<1>2. PICK j \in i .. n : (j = n \/ j \in S) /\ \A k \in i .. j - 1 : k \notin S
  BY FirstStop
<1>3. \A d \in i .. n : \A k \in i .. d - 1 : k \in i .. n
  BY <1>1
<1>4. \E d \in i .. n : (d = n \/ ~ is_word(d)) /\ \A k \in i .. d - 1 : ~ ~ is_word(k)
  BY <1>2, <1>3
<1> QED BY <1>4 DEF SkipTo, WordEnd

LEMMA LineEnds ==
    ASSUME TextInv, NEW i \in 0 .. n
    PROVE  LET e == LineEnd(i)
           IN  e \in i .. n /\ (e = n \/ At(e) = "nl") /\ \A k \in i .. e - 1 : At(k) # "nl"
<1> DEFINE S == {j \in i .. n : At(j) = "nl"}
<1>1. n \in Nat
  BY TextIs
<1>2. PICK j \in i .. n : (j = n \/ j \in S) /\ \A k \in i .. j - 1 : k \notin S
  BY FirstStop
<1>3. \A d \in i .. n : \A k \in i .. d - 1 : k \in i .. n
  BY <1>1
<1>4. \E d \in i .. n : (d = n \/ At(d) = "nl") /\ \A k \in i .. d - 1 : ~ (At(k) = "nl")
  BY <1>2, <1>3
<1> QED BY <1>4 DEF SkipTo, LineEnd

LEMMA BlankEnds ==
    ASSUME TextInv, NEW i \in 0 .. n
    PROVE  LET e == BlankEnd(i)
           IN  e \in i .. n /\ (e = n \/ ~ is_space(e)) /\ \A k \in i .. e - 1 : is_space(k)
<1> DEFINE S == {j \in i .. n : ~ is_space(j)}
<1>1. n \in Nat
  BY TextIs
<1>2. PICK j \in i .. n : (j = n \/ j \in S) /\ \A k \in i .. j - 1 : k \notin S
  BY FirstStop
<1>3. \A d \in i .. n : \A k \in i .. d - 1 : k \in i .. n
  BY <1>1
<1>4. \E d \in i .. n : (d = n \/ ~ is_space(d)) /\ \A k \in i .. d - 1 : ~ ~ is_space(k)
  BY <1>2, <1>3
<1> QED BY <1>4 DEF SkipTo, BlankEnd

LEMMA RawEnds ==
    ASSUME TextInv, NEW i \in 0 .. n
    PROVE  RawEnd(i) \in i .. n
<1> DEFINE S == {j \in i .. n : At(j) = "bt"}
<1>1. n \in Nat
  BY TextIs
<1>2. PICK j \in i .. n : (j = n \/ j \in S) /\ \A k \in i .. j - 1 : k \notin S
  BY FirstStop
<1>3. \A d \in i .. n : \A k \in i .. d - 1 : k \in i .. n
  BY <1>1
<1>4. \E d \in i .. n : (d = n \/ At(d) = "bt") /\ \A k \in i .. d - 1 : ~ (At(k) = "bt")
  BY <1>2, <1>3
<1> QED BY <1>4 DEF SkipTo, RawEnd

LEMMA MarkupCommentEnds ==
    ASSUME TextInv, NEW i \in 0 .. n
    PROVE  LET e == MarkupCommentEnd(i) IN e \in i .. n /\ (e = n \/ e + 3 <= n)
<1> DEFINE S == {j \in i .. n : looking_at(j, <<"-", "-", ">">>)}
<1>1. n \in Nat
  BY TextIs
<1>2. PICK j \in i .. n : (j = n \/ j \in S) /\ \A k \in i .. j - 1 : k \notin S
  BY FirstStop
<1>3. \A d \in i .. n : \A k \in i .. d - 1 : k \in i .. n
  BY <1>1
<1>4. \E d \in i .. n : /\ d = n \/ looking_at(d, <<"-", "-", ">">>)
                        /\ \A k \in i .. d - 1 : ~ looking_at(k, <<"-", "-", ">">>)
  BY <1>2, <1>3
<1> DEFINE e == MarkupCommentEnd(i)
<1>5. e \in i .. n /\ (e = n \/ looking_at(e, <<"-", "-", ">">>))
  BY <1>4 DEF SkipTo, MarkupCommentEnd
<1> HIDE DEF e
<1>6. looking_at(e, <<"-", "-", ">">>) => e + 3 <= n
  <2>1. e \in Nat
    BY <1>1, <1>5
  <2>2. looking_at(e, <<"-", "-", ">">>) => At(e + 2) = ">"
    BY <2>1, Three
  <2>3. At(e + 2) = ">" => e + 2 < n
    BY <2>1, TextIs
  <2> QED BY <1>1, <2>1, <2>2, <2>3
<1> QED BY <1>5, <1>6 DEF e

LEMMA NameEnds ==
    ASSUME TextInv, NEW i \in 0 .. n, is_word(i)
    PROVE  NameEnd(i) \in i + 1 .. n
<1> DEFINE Stop(j) == ~ is_word(j) /\ ~ (At(j) = "-" /\ is_word(j + 1))
           S == {j \in i .. n : Stop(j)}
<1>1. n \in Nat /\ i # n
  BY TextIs DEF is_word
<1>2. PICK j \in i .. n : (j = n \/ j \in S) /\ \A k \in i .. j - 1 : k \notin S
  BY FirstStop
<1>3. \A d \in i .. n : \A k \in i .. d - 1 : k \in i .. n
  BY <1>1
<1>4. \E d \in i .. n : (d = n \/ Stop(d)) /\ \A k \in i .. d - 1 : ~ Stop(k)
  BY <1>2, <1>3
<1>5. NameEnd(i) \in i .. n /\ (NameEnd(i) = n \/ Stop(NameEnd(i)))
  BY <1>4 DEF SkipTo, NameEnd
<1>6. ~ Stop(i)
  OBVIOUS
<1> HIDE DEF Stop
<1> QED BY <1>1, <1>5, <1>6

LEMMA ContentEnds ==
    ASSUME TextInv, NEW i \in 0 .. n
    PROVE  ContentEnd(i) \in i .. n
<1> DEFINE S == {j \in i .. n : EndsText(j)}
<1>1. n \in Nat
  BY TextIs
<1>2. PICK j \in i .. n : (j = n \/ j \in S) /\ \A k \in i .. j - 1 : k \notin S
  BY FirstStop
<1>3. \A d \in i .. n : \A k \in i .. d - 1 : k \in i .. n
  BY <1>1
<1>4. \E d \in i .. n : (d = n \/ EndsText(d)) /\ \A k \in i .. d - 1 : ~ EndsText(k)
  BY <1>2, <1>3
<1> QED BY <1>4 DEF SkipTo, ContentEnd

-----------------------------------------------------------------------------
(* Block comments.                                                           *)

Nested == [at : Nat, nest : Nat]
Past ==
    CHOOSE past : past =
        [j \in 0 .. n |->
            [nest \in Nat |->
                IF j = n \/ nest = 0 THEN [at |-> j, nest |-> nest]
                ELSE IF looking_at(j, <<"/", "*">>) THEN past[j + 2][nest + 1]
                ELSE IF looking_at(j, <<"*", "/">>) THEN past[j + 2][nest - 1]
                ELSE past[j + 1][nest]]]

LEMMA BlockCommentIs == \A i : BlockComment(i) = Past[i + 2][1]
BY DEF BlockComment, Past

LEMMA PastIs ==
    ASSUME TextInv
    PROVE  \A j \in 0 .. n, nest \in Nat :
              Past[j][nest] =
                IF j = n \/ nest = 0 THEN [at |-> j, nest |-> nest]
                ELSE IF looking_at(j, <<"/", "*">>) THEN Past[j + 2][nest + 1]
                ELSE IF looking_at(j, <<"*", "/">>) THEN Past[j + 2][nest - 1]
                ELSE Past[j + 1][nest]
<1> DEFINE S == 0 .. n
           V == [Nat -> Nested]
           Opens(j) == looking_at(j, <<"/", "*">>)
           Closes(j) == looking_at(j, <<"*", "/">>)
           B == [j \in S |-> [nest \in Nat |-> [at |-> j, nest |-> nest]]]
           N == [j \in S |-> IF j = n THEN j ELSE IF Opens(j) \/ Closes(j) THEN j + 2 ELSE j + 1]
           Nest(j, v, nest) ==
               IF nest = 0 THEN [at |-> j, nest |-> nest]
               ELSE IF Opens(j) THEN v[nest + 1]
               ELSE IF Closes(j) THEN v[nest - 1] ELSE v[nest]
           H == [j \in S |-> [v \in V |-> [nest \in Nat |-> Nest(j, v, nest)]]]
<1>0. n \in Nat /\ S \subseteq Nat
  BY TextIs
<1>1. \A j \in S : (Opens(j) \/ Closes(j)) => j + 2 \in S /\ j # n
  <2> SUFFICES ASSUME NEW j \in S, Opens(j) \/ Closes(j) PROVE j + 2 \in S /\ j # n
    OBVIOUS
  <2>1. At(j + 1) \in {"*", "/"}
    BY <1>0, Two
  <2>2. j + 1 < n
    BY <1>0, <2>1, TextIs
  <2> QED BY <1>0, <2>2
<1> HIDE DEF Opens, Closes
<1>2. B \in [S -> V]
  BY <1>0 DEF Nested
<1>3. N \in [S -> S] /\ \A j \in S : j \notin {n} => j < n /\ N[j] > j
  BY <1>0, <1>1
<1>4. H \in [S -> [V -> V]]
  <2>1. ASSUME NEW j \in S, NEW v \in V, NEW nest \in Nat PROVE Nest(j, v, nest) \in Nested
    <3>1. nest # 0 => nest - 1 \in Nat
      OBVIOUS
    <3>2. v[nest] \in Nested /\ v[nest + 1] \in Nested /\ (nest # 0 => v[nest - 1] \in Nested)
      BY <3>1
    <3>3. [at |-> j, nest |-> nest] \in Nested
      BY <1>0 DEF Nested
    <3> QED BY <3>2, <3>3
  <2> HIDE DEF Nest, S
  <2> QED BY <2>1
<1> HIDE DEF H, B, N, V, S
<1>5. PICK f \in [S -> V] : \A j \in S : f[j] = IF j \in {n} THEN B[j] ELSE H[j][f[N[j]]]
  <2> DEFINE Base == {n}
  <2>1. N \in [S -> S] /\ Forward(S, n, Base, N)
    BY <1>3 DEF Forward
  <2>2. n \in Nat /\ S \subseteq Nat /\ B \in [S -> V] /\ H \in [S -> [V -> V]]
    BY <1>0, <1>2, <1>4
  <2> HIDE DEF Base
  <2>3. \E f \in [S -> V] : Solves(f, S, Base, B, N, H)
    BY <2>1, <2>2, Recursion
  <2> QED BY <2>3 DEF Base, Solves
<1> DEFINE body(g, j, nest) ==
               IF j = n \/ nest = 0 THEN [at |-> j, nest |-> nest]
               ELSE IF Opens(j) THEN g[j + 2][nest + 1]
               ELSE IF Closes(j) THEN g[j + 2][nest - 1]
               ELSE g[j + 1][nest]
<1>6. ASSUME NEW j \in S PROVE f[j] = [nest \in Nat |-> body(f, j, nest)]
  <2>1. CASE j = n
    <3>1. f[j] = B[j]
      BY <1>5, <2>1
    <3>2. B[j] = [nest \in Nat |-> [at |-> j, nest |-> nest]]
      BY DEF B
    <3> QED BY <2>1, <3>1, <3>2
  <2>2. CASE j # n
    <3>1. f[j] = H[j][f[N[j]]] /\ f[N[j]] \in V
      BY <1>3, <1>5, <2>2
    <3>2. f[j] = [nest \in Nat |-> Nest(j, f[N[j]], nest)]
      BY <3>1 DEF H
    <3>3. N[j] = IF Opens(j) \/ Closes(j) THEN j + 2 ELSE j + 1
      BY <2>2 DEF N
    <3>4. ASSUME NEW nest \in Nat PROVE Nest(j, f[N[j]], nest) = body(f, j, nest)
      BY <2>2, <3>3
    <3> HIDE DEF Nest, body
    <3> QED BY <3>2, <3>4
  <2> QED BY <2>1, <2>2
<1> DEFINE Fix(g) == g = [j \in S |-> [nest \in Nat |-> body(g, j, nest)]]
<1>7. Fix(f)
  <2> HIDE DEF body
  <2> DEFINE h == [j \in S |-> [nest \in Nat |-> body(f, j, nest)]]
  <2>1. \A j \in S : f[j] = h[j]
    BY <1>6
  <2>2. f = h
    BY <2>1
  <2> QED BY <2>2
<1>8. Past = CHOOSE g : Fix(g)
  BY DEF Past, Opens, Closes, S
<1>9. Fix(Past)
  <2> HIDE DEF Fix
  <2> QED BY <1>7, <1>8
<1>10. \A j \in S, nest \in Nat : Past[j][nest] = body(Past, j, nest)
  <2> SUFFICES ASSUME NEW j \in S, NEW nest \in Nat PROVE Past[j][nest] = body(Past, j, nest)
    OBVIOUS
  <2> HIDE DEF body
  <2>1. Past[j] = [m \in Nat |-> body(Past, j, m)]
    BY <1>9
  <2> QED BY <2>1
<1> QED BY <1>10 DEF Opens, Closes, S

LEMMA BlockCommentEnds ==
    ASSUME TextInv, NEW i \in Nat, looking_at(i, <<"/", "*">>)
    PROVE  BlockComment(i).at \in i + 2 .. n
<1> DEFINE X == {j \in 0 .. n : \A nest \in Nat : Past[j][nest].at \in j .. n}
<1>0. n \in Nat
  BY TextIs
<1>1. ASSUME NEW j \in 0 .. n, \A k \in j + 1 .. n : k \in X PROVE j \in X
  <2> SUFFICES ASSUME NEW nest \in Nat PROVE Past[j][nest].at \in j .. n
    OBVIOUS
  <2>1. CASE j = n \/ nest = 0
    <3>1. Past[j][nest] = [at |-> j, nest |-> nest]
      BY <2>1, PastIs
    <3> QED BY <1>0, <3>1
  <2>2. CASE ~ (j = n \/ nest = 0)
    <3>1. \A k \in j + 1 .. n, m \in Nat : Past[k][m].at \in j .. n
      <4>1. \A k \in j + 1 .. n, m \in Nat : Past[k][m].at \in k .. n
        BY <1>1
      <4> QED BY <1>0, <4>1
    <3>2. nest + 1 \in Nat /\ nest - 1 \in Nat /\ j + 1 \in j + 1 .. n
      BY <1>0, <2>2
    <3>3. looking_at(j, <<"/", "*">>) \/ looking_at(j, <<"*", "/">>) => j + 2 \in j + 1 .. n
      <4>1. looking_at(j, <<"/", "*">>) \/ looking_at(j, <<"*", "/">>) => At(j + 1) \in {"/", "*"}
        BY Two
      <4>2. At(j + 1) \in {"/", "*"} => j + 1 < n
        BY TextIs
      <4> QED BY <1>0, <4>1, <4>2
    <3> HIDE DEF X
    <3> QED BY <2>2, <3>1, <3>2, <3>3, PastIs
  <2> QED BY <2>1, <2>2
<1>2. X = 0 .. n
  <2>1. X \subseteq 0 .. n
    OBVIOUS
  <2> HIDE DEF X
  <2> QED BY <1>0, <1>1, <2>1, Downwards
<1>3. i + 2 \in 0 .. n
  <2>1. At(i + 1) = "*"
    BY Two
  <2> QED BY <1>0, <2>1, TextIs
<1>4. Past[i + 2][1].at \in i + 2 .. n
  BY <1>2, <1>3
<1> QED BY <1>4, BlockCommentIs

(* Trivia.                                                                   *)

CommentSet == [start : Nat, end : Nat]
Codes ==
    {"NESTING_TOO_DEEP", "UNTERMINATED_BLOCK_COMMENT", "UNEXPECTED_CHAR", "UNTERMINATED_RAW_STRING",
     "UNTERMINATED_INTERP", "UNTERMINATED_STRING", "UNCLOSED_ELEMENT", "MALFORMED_ATTR_NAME",
     "MALFORMED_TAG_NAME", "UNTERMINATED_MARKUP_COMMENT"}
Places == Codes \X Nat
TriviaSet == [at : Nat, nl : Nat, comments : Seq(CommentSet), reports : SUBSET Places]

Slashes(j) == looking_at(j, <<"/", "/">>)
Stars(j) == looking_at(j, <<"/", "*">>)

LEMMA CommentOpens ==
    ASSUME TextInv, NEW j \in Nat, Slashes(j) \/ Stars(j)
    PROVE  /\ j + 2 \in 0 .. n /\ ~ is_space(j) /\ At(j) # "nl" /\ At(j) # "end"
           /\ LineEnd(j + 2) \in j + 2 .. n
           /\ Stars(j) => BlockComment(j).at \in j + 2 .. n
<1>1. At(j) = "/" /\ At(j + 1) \in {"/", "*"}
  BY Two DEF Slashes, Stars
<1>2. n \in Nat /\ j + 2 \in 0 .. n
  <2>1. j + 1 < n
    BY <1>1, TextIs
  <2> QED BY <2>1, TextIs
<1>3. ~ is_space(j) /\ At(j) # "nl" /\ At(j) # "end"
  BY <1>1 DEF is_space
<1>4. LineEnd(j + 2) \in j + 2 .. n
  BY <1>2, LineEnds
<1>5. Stars(j) => BlockComment(j).at \in j + 2 .. n
  BY BlockCommentEnds DEF Stars
<1> QED BY <1>2, <1>3, <1>4, <1>5

(* Where the scan goes on after the comment, the space or the line end at j. *)
After(j) ==
    IF At(j) = "nl" \/ is_space(j) THEN j + 1
    ELSE IF Slashes(j) THEN LineEnd(j + 2)
    ELSE IF Stars(j) THEN BlockComment(j).at ELSE j
Skippable(j) == At(j) = "nl" \/ is_space(j) \/ Slashes(j) \/ Stars(j)
Nothing(j) == [at |-> j, nl |-> n, comments |-> <<>>, reports |-> {}]
NotClosed(j) ==
    IF BlockComment(j).nest > 0 THEN {<<"UNTERMINATED_BLOCK_COMMENT", j>>} ELSE {}
Adds(j, v) ==
    IF At(j) = "nl" THEN [v EXCEPT !.nl = j]
    ELSE IF is_space(j) THEN v
    ELSE IF Slashes(j) THEN Recorded(v, j, After(j))
    ELSE [Recorded(v, j, After(j)) EXCEPT !.reports = @ \cup NotClosed(j)]

LEMMA AfterIsLater ==
    ASSUME TextInv, NEW j \in Nat, Skippable(j)
    PROVE  j < n /\ After(j) \in j + 1 .. n
<1>0. n \in Nat
  BY TextIs
<1>1. CASE At(j) = "nl" \/ is_space(j)
  <2>1. j < n
    BY <1>1, TextIs DEF is_space
  <2> QED BY <1>0, <1>1, <2>1 DEF After
<1>2. CASE ~ (At(j) = "nl" \/ is_space(j))
  <2>1. /\ j + 2 \in 0 .. n
        /\ LineEnd(j + 2) \in j + 2 .. n
        /\ Stars(j) => BlockComment(j).at \in j + 2 .. n
    BY <1>2, CommentOpens DEF Skippable
  <2>2. After(j) \in j + 2 .. n
    BY <1>2, <2>1 DEF After, Skippable
  <2> QED BY <1>0, <2>1, <2>2
<1> QED BY <1>1, <1>2

LEMMA AddsIsTrivia ==
    ASSUME TextInv, NEW j \in Nat, Skippable(j), NEW v \in TriviaSet
    PROVE  /\ Adds(j, v) \in TriviaSet
           /\ Adds(j, v).at = v.at
           /\ Adds(j, v).nl = IF At(j) = "nl" THEN j ELSE v.nl
           /\ Adds(j, v).comments = IF At(j) = "nl" \/ is_space(j) THEN v.comments
                                    ELSE <<Comment(j, After(j))>> \o v.comments
           /\ v.reports \subseteq Adds(j, v).reports
           /\ \A k : <<"UNEXPECTED_CHAR", k>> \in Adds(j, v).reports => <<"UNEXPECTED_CHAR", k>> \in v.reports
<1>1. CASE At(j) = "nl"
  BY <1>1 DEF Adds, TriviaSet
<1>2. CASE At(j) # "nl" /\ is_space(j)
  BY <1>2 DEF Adds, TriviaSet
<1>3. CASE At(j) # "nl" /\ ~ is_space(j)
  <2> DEFINE c == <<Comment(j, After(j))>>
             w == Recorded(v, j, After(j))
  <2>1. After(j) \in Nat /\ Comment(j, After(j)) \in CommentSet
    <3>1. After(j) \in Nat
      BY AfterIsLater, TextIs
    <3> QED BY <3>1 DEF Comment, CommentSet
  <2>2. c \o v.comments \in Seq(CommentSet)
    <3>1. c \in Seq(CommentSet) /\ v.comments \in Seq(CommentSet)
      BY <2>1 DEF TriviaSet
    <3> HIDE DEF c
    <3> QED BY <3>1
  <2>3. w \in TriviaSet /\ w.at = v.at /\ w.nl = v.nl /\ w.comments = c \o v.comments /\ w.reports = v.reports
    <3> HIDE DEF c
    <3>1. w = [v EXCEPT !.comments = c \o v.comments]
      BY DEF Recorded, c
    <3> QED BY <2>2, <3>1 DEF TriviaSet
  <2>4. CASE Slashes(j)
    <3>1. Adds(j, v) = w
      BY <1>3, <2>4 DEF Adds
    <3> HIDE DEF w, c
    <3> QED BY <1>3, <2>3, <3>1 DEF c
  <2>5. CASE ~ Slashes(j)
    <3> DEFINE u == NotClosed(j)
    <3>1. Adds(j, v) = [w EXCEPT !.reports = w.reports \cup u]
      BY <1>3, <2>5 DEF Adds
    <3>2. u \subseteq Places /\ \A k : <<"UNEXPECTED_CHAR", k>> \notin u
      <4> DEFINE r == <<"UNTERMINATED_BLOCK_COMMENT", j>>
      <4>1. r \in Places /\ \A k : <<"UNEXPECTED_CHAR", k>> # r
        <5>1. r \in Places
          BY DEF Places, Codes
        <5>2. r[1] # "UNEXPECTED_CHAR"
          OBVIOUS
        <5>3. \A k : <<"UNEXPECTED_CHAR", k>>[1] = "UNEXPECTED_CHAR"
          OBVIOUS
        <5> HIDE DEF r
        <5> QED BY <5>1, <5>2, <5>3
      <4>2. u = {r} \/ u = {}
        BY DEF NotClosed
      <4> HIDE DEF u, r
      <4> QED BY <4>1, <4>2
    <3> HIDE DEF w, c, u
    <3>3. /\ Adds(j, v) \in TriviaSet /\ Adds(j, v).at = w.at /\ Adds(j, v).nl = w.nl
          /\ Adds(j, v).comments = w.comments /\ Adds(j, v).reports = w.reports \cup u
      BY <2>3, <3>1, <3>2 DEF TriviaSet
    <3> QED BY <1>3, <2>3, <3>2, <3>3 DEF c
  <2> QED BY <2>4, <2>5
<1> QED BY <1>1, <1>2, <1>3

LEMMA TriviaIs ==
    ASSUME TextInv
    PROVE  \A j \in Nat : Trivia[j] = IF Skippable(j) THEN Adds(j, Trivia[After(j)]) ELSE Nothing(j)
<1> DEFINE Base == {j \in Nat : ~ Skippable(j)}
           B == [j \in Nat |-> Nothing(j)]
           N == [j \in Nat |-> IF Skippable(j) THEN After(j) ELSE j]
           H == [j \in Nat |-> [v \in TriviaSet |-> IF Skippable(j) THEN Adds(j, v) ELSE v]]
           body(f, j) ==
               IF At(j) = "nl" THEN [f[j + 1] EXCEPT !.nl = j]
               ELSE IF is_space(j) THEN f[j + 1]
               ELSE IF looking_at(j, <<"/", "/">>)
               THEN LET e == LineEnd(j + 2)
                    IN  Recorded(f[e], j, e)
               ELSE IF looking_at(j, <<"/", "*">>)
               THEN LET b == BlockComment(j)
                        bad == IF b.nest > 0 THEN {<<"UNTERMINATED_BLOCK_COMMENT", j>>} ELSE {}
                    IN  [Recorded(f[b.at], j, b.at) EXCEPT !.reports = @ \cup bad]
               ELSE [at |-> j, nl |-> n, comments |-> <<>>, reports |-> {}]
           Fix(f) == f = [j \in Nat |-> body(f, j)]
<1>1. ASSUME NEW f, NEW j \in Nat
      PROVE  body(f, j) = IF Skippable(j) THEN Adds(j, f[After(j)]) ELSE Nothing(j)
  BY DEF Skippable, Adds, After, Nothing, NotClosed, Slashes, Stars
<1>2. Trivia = CHOOSE f : Fix(f)
  BY DEF Trivia
<1> HIDE DEF body
<1>3. \E f : Fix(f)
  <2>1. n \in Nat /\ Nat \subseteq Nat
    BY TextIs
  <2>2. B \in [Nat -> TriviaSet]
    <3>1. \A j \in Nat : Nothing(j) \in TriviaSet
      BY <2>1 DEF Nothing, TriviaSet
    <3> QED BY <3>1
  <2>3. N \in [Nat -> Nat] /\ Forward(Nat, n, Base, N)
    <3>1. \A j \in Nat : Skippable(j) => After(j) \in Nat /\ After(j) > j /\ j < n
      BY <2>1, AfterIsLater
    <3> QED BY <3>1 DEF Forward
  <2>4. H \in [Nat -> [TriviaSet -> TriviaSet]]
    BY AddsIsTrivia
  <2>5. ASSUME NEW f, Solves(f, Nat, Base, B, N, H), f \in [Nat -> TriviaSet], NEW j \in Nat
        PROVE  f[j] = body(f, j)
    <3>1. CASE Skippable(j)
      <4>1. After(j) \in Nat
        BY <2>1, <3>1, AfterIsLater
      <4>2. f[j] = H[j][f[N[j]]] /\ N[j] = After(j) /\ f[After(j)] \in TriviaSet
        BY <2>5, <3>1, <4>1 DEF Solves
      <4>3. f[j] = Adds(j, f[After(j)])
        BY <3>1, <4>2
      <4> QED BY <1>1, <3>1, <4>3
    <3>2. CASE ~ Skippable(j)
      BY <1>1, <2>5, <3>2 DEF Solves
    <3> QED BY <3>1, <3>2
  <2> HIDE DEF Base, B, N, H
  <2>6. PICK f \in [Nat -> TriviaSet] : Solves(f, Nat, Base, B, N, H)
    BY <2>1, <2>2, <2>3, <2>4, Recursion
  <2>7. \A j \in Nat : f[j] = body(f, j)
    BY <2>5, <2>6
  <2>8. Fix(f)
    <3> DEFINE h == [j \in Nat |-> body(f, j)]
    <3>1. \A j \in Nat : f[j] = h[j]
      BY <2>7
    <3>2. f = h
      BY <3>1
    <3> QED BY <3>2
  <2> QED BY <2>8
<1>4. Fix(Trivia)
  <2> HIDE DEF Fix
  <2> QED BY <1>2, <1>3
<1> QED BY <1>1, <1>4

LEMMA InCommentFirst ==
    ASSUME NEW c \in CommentSet, NEW cs \in Seq(CommentSet), NEW k
    PROVE  InComment(k, <<c>> \o cs) <=> (c.start <= k /\ k < c.end) \/ InComment(k, cs)
<1> DEFINE all == <<c>> \o cs
<1>1. /\ Len(cs) \in Nat /\ DOMAIN cs = 1 .. Len(cs) /\ DOMAIN all = 1 .. Len(cs) + 1
      /\ all[1] = c /\ \A m \in DOMAIN cs : all[m + 1] = cs[m]
  OBVIOUS
<1> HIDE DEF all
<1>2. InComment(k, all) => (c.start <= k /\ k < c.end) \/ InComment(k, cs)
  <2> SUFFICES ASSUME NEW m \in DOMAIN all, all[m].start <= k, k < all[m].end
               PROVE  (c.start <= k /\ k < c.end) \/ InComment(k, cs)
    BY DEF InComment
  <2>1. CASE m = 1
    BY <1>1, <2>1
  <2>2. CASE m # 1
    <3>1. m - 1 \in DOMAIN cs /\ all[m - 1 + 1] = cs[m - 1] /\ m - 1 + 1 = m
      BY <1>1, <2>2
    <3> QED BY <3>1 DEF InComment
  <2> QED BY <2>1, <2>2
<1>3. c.start <= k /\ k < c.end => InComment(k, all)
  BY <1>1 DEF InComment
<1>4. InComment(k, cs) => InComment(k, all)
  <2> SUFFICES ASSUME NEW m \in DOMAIN cs, cs[m].start <= k, k < cs[m].end PROVE InComment(k, all)
    BY DEF InComment
  <2>1. m + 1 \in DOMAIN all /\ all[m + 1] = cs[m]
    BY <1>1
  <2> QED BY <2>1 DEF InComment
<1> QED BY <1>2, <1>3, <1>4 DEF all

LEMMA InCommentBoth ==
    ASSUME NEW bs \in Seq(CommentSet), NEW cs \in Seq(CommentSet), NEW k
    PROVE  InComment(k, bs \o cs) <=> InComment(k, bs) \/ InComment(k, cs)
<1> DEFINE all == bs \o cs
<1>1. /\ Len(bs) \in Nat /\ Len(cs) \in Nat /\ DOMAIN cs = 1 .. Len(cs) /\ DOMAIN bs = 1 .. Len(bs)
      /\ DOMAIN all = 1 .. Len(bs) + Len(cs)
      /\ \A m \in DOMAIN bs : all[m] = bs[m]
      /\ \A m \in DOMAIN cs : all[m + Len(bs)] = cs[m]
  OBVIOUS
<1> HIDE DEF all
<1>2. InComment(k, all) => InComment(k, bs) \/ InComment(k, cs)
  <2> SUFFICES ASSUME NEW m \in DOMAIN all, all[m].start <= k, k < all[m].end
               PROVE  InComment(k, bs) \/ InComment(k, cs)
    BY DEF InComment
  <2>1. CASE m <= Len(bs)
    <3>1. m \in DOMAIN bs
      BY <1>1, <2>1
    <3> QED BY <1>1, <3>1 DEF InComment
  <2>2. CASE ~ (m <= Len(bs))
    <3> DEFINE d == m - Len(bs)
    <3>1. d \in DOMAIN cs /\ d + Len(bs) = m
      BY <1>1, <2>2
    <3> HIDE DEF d
    <3>2. all[m] = cs[d]
      BY <1>1, <3>1
    <3> QED BY <3>1, <3>2 DEF InComment
  <2> QED BY <2>1, <2>2
<1>3. InComment(k, bs) => InComment(k, all)
  <2> SUFFICES ASSUME NEW m \in DOMAIN bs, bs[m].start <= k, k < bs[m].end PROVE InComment(k, all)
    BY DEF InComment
  <2>1. m \in DOMAIN all /\ all[m] = bs[m]
    BY <1>1
  <2> QED BY <2>1 DEF InComment
<1>4. InComment(k, cs) => InComment(k, all)
  <2> SUFFICES ASSUME NEW m \in DOMAIN cs, cs[m].start <= k, k < cs[m].end PROVE InComment(k, all)
    BY DEF InComment
  <2>1. m + Len(bs) \in DOMAIN all /\ all[m + Len(bs)] = cs[m]
    BY <1>1
  <2> QED BY <2>1 DEF InComment
<1> QED BY <1>2, <1>3, <1>4 DEF all

LEMMA InNoComment == \A k : ~ InComment(k, <<>>)
BY DEF InComment

(* What skip_trivia leaves behind it, from j to v.at.                        *)
Passes(j, v) ==
    /\ v \in TriviaSet /\ v.at \in j .. n /\ ~ Skippable(v.at)
    /\ \A k \in j .. v.at - 1 : is_space(k) \/ InComment(k, v.comments)
    /\ \A k \in 0 .. n : InComment(k, v.comments) => k \in j .. v.at - 1
    /\ v.nl # n => v.nl \in j .. v.at - 1 /\ At(v.nl) = "nl" /\ ~ InComment(v.nl, v.comments)
    /\ \A k \in j .. v.at - 1 : At(k) = "nl" /\ ~ InComment(k, v.comments) => v.nl # n
    /\ \A k : <<"UNEXPECTED_CHAR", k>> \notin v.reports

LEMMA TriviaPasses ==
    ASSUME TextInv, NEW i \in 0 .. n
    PROVE  Passes(i, Trivia[i])
<1> DEFINE X == {j \in 0 .. n : Passes(j, Trivia[j])}
<1>0. n \in Nat
  BY TextIs
<1>1. ASSUME NEW j \in 0 .. n, \A k \in j + 1 .. n : k \in X PROVE Passes(j, Trivia[j])
  <2>1. CASE ~ Skippable(j)
    <3>1. Trivia[j] = Nothing(j)
      BY <2>1, TriviaIs
    <3>2. Nothing(j) \in TriviaSet /\ Nothing(j).at = j /\ Nothing(j).nl = n /\ Nothing(j).comments = <<>> /\ Nothing(j).reports = {}
      BY <1>0 DEF Nothing, TriviaSet
    <3>3. \A k \in j .. j - 1 : FALSE
      OBVIOUS
    <3> QED BY <1>0, <2>1, <3>1, <3>2, <3>3, InNoComment DEF Passes
  <2>2. CASE Skippable(j)
    <3> DEFINE a == After(j)
               v == Trivia[a]
               w == Trivia[j]
               c == Comment(j, a)
    <3>1. a \in j + 1 .. n /\ w = Adds(j, v) /\ j < n
      BY <2>2, AfterIsLater, TriviaIs
    <3>2. Passes(a, v)
      BY <1>1, <3>1
    <3>3. v \in TriviaSet /\ v.at \in a .. n /\ ~ Skippable(v.at) /\ a \in Nat
      BY <1>0, <3>1, <3>2 DEF Passes
    <3> HIDE DEF a, v, w, c
    <3>4. /\ w \in TriviaSet /\ w.at = v.at
          /\ w.nl = IF At(j) = "nl" THEN j ELSE v.nl
          /\ w.comments = IF At(j) = "nl" \/ is_space(j) THEN v.comments ELSE <<c>> \o v.comments
          /\ \A k : <<"UNEXPECTED_CHAR", k>> \in w.reports => <<"UNEXPECTED_CHAR", k>> \in v.reports
      BY <2>2, <3>1, <3>3, AddsIsTrivia DEF a, c
    <3>5. /\ \A k \in a .. v.at - 1 : is_space(k) \/ InComment(k, v.comments)
          /\ \A k \in 0 .. n : InComment(k, v.comments) => k \in a .. v.at - 1
          /\ v.nl # n => v.nl \in a .. v.at - 1 /\ At(v.nl) = "nl" /\ ~ InComment(v.nl, v.comments)
          /\ \A k \in a .. v.at - 1 : At(k) = "nl" /\ ~ InComment(k, v.comments) => v.nl # n
          /\ \A k : <<"UNEXPECTED_CHAR", k>> \notin v.reports
      BY <3>2 DEF Passes
    <3>6. /\ \A k \in j .. v.at - 1 : k \in j .. a - 1 \/ k \in a .. v.at - 1
          /\ \A k \in a .. v.at - 1 : k \in j .. v.at - 1 /\ k # j /\ k \notin j .. a - 1
          /\ v.at \in j .. n /\ j \in j .. v.at - 1
      BY <1>0, <3>1, <3>3
    <3>7. CASE At(j) = "nl" \/ is_space(j)
      <4>1. a = j + 1 /\ w.comments = v.comments
        BY <3>4, <3>7 DEF a, After
      <4>2. is_space(j)
        BY <3>7 DEF is_space
      <4>3. \A k \in j .. a - 1 : k = j
        BY <4>1
      <4>4. ~ InComment(j, v.comments)
        BY <3>5, <3>6
      <4>5. \A k \in j .. w.at - 1 : is_space(k) \/ InComment(k, w.comments)
        BY <3>4, <3>5, <3>6, <4>1, <4>2, <4>3
      <4>6. w.nl # n => w.nl \in j .. w.at - 1 /\ At(w.nl) = "nl" /\ ~ InComment(w.nl, w.comments)
        BY <3>4, <3>5, <3>6, <4>1, <4>4
      <4>7. \A k \in j .. w.at - 1 : At(k) = "nl" /\ ~ InComment(k, w.comments) => w.nl # n
        BY <1>0, <3>1, <3>4, <3>5, <3>6, <4>1, <4>3
      <4> QED BY <3>3, <3>4, <3>5, <3>6, <4>1, <4>5, <4>6, <4>7 DEF Passes, w
    <3>8. CASE ~ (At(j) = "nl" \/ is_space(j))
      <4>1. c \in CommentSet /\ c.start = j /\ c.end = a /\ v.comments \in Seq(CommentSet)
        BY <1>0, <3>3 DEF c, Comment, CommentSet, TriviaSet
      <4>2. \A k : InComment(k, w.comments) <=> (j <= k /\ k < a) \/ InComment(k, v.comments)
        BY <3>4, <3>8, <4>1, InCommentFirst
      <4>3. \A k \in j .. a - 1 : InComment(k, w.comments)
        BY <3>1, <4>2
      <4>4. \A k \in a .. v.at - 1 : InComment(k, w.comments) <=> InComment(k, v.comments)
        BY <3>1, <3>6, <4>2
      <4>5. \A k \in j .. w.at - 1 : is_space(k) \/ InComment(k, w.comments)
        BY <3>4, <3>5, <3>6, <4>3, <4>4
      <4>6. w.nl # n => w.nl \in j .. w.at - 1 /\ At(w.nl) = "nl" /\ ~ InComment(w.nl, w.comments)
        BY <3>4, <3>5, <3>6, <3>8, <4>4
      <4>7. \A k \in j .. w.at - 1 : At(k) = "nl" /\ ~ InComment(k, w.comments) => w.nl # n
        BY <3>4, <3>5, <3>6, <3>8, <4>3, <4>4
      <4>8. \A k \in 0 .. n : InComment(k, w.comments) => k \in j .. w.at - 1
        BY <1>0, <3>1, <3>3, <3>4, <3>5, <3>6, <4>2
      <4> QED BY <3>3, <3>4, <3>5, <3>6, <4>5, <4>6, <4>7, <4>8 DEF Passes, w
    <3> QED BY <3>7, <3>8
  <2> QED BY <2>1, <2>2
<1>2. X = 0 .. n
  <2>1. X \subseteq 0 .. n
    OBVIOUS
  <2>2. \A j \in 0 .. n : (\A k \in j + 1 .. n : k \in X) => j \in X
    BY <1>1
  <2> HIDE DEF X
  <2> QED BY <1>0, <2>1, <2>2, Downwards
<1> QED BY <1>2

-----------------------------------------------------------------------------
(* Characters that begin no token.                                           *)

OddSet == [at : Nat, comments : Seq(CommentSet), reports : SUBSET Places]
Odd(j) == At(j) \in {"#", "$", "backslash"}
NoOdd(j) == [at |-> j, comments |-> <<>>, reports |-> {}]
Skips(j, v) == [Joined(Trivia[j + 1], v) EXCEPT !.reports = @ \cup {<<"UNEXPECTED_CHAR", j>>}]

LEMMA OddIsWithin ==
    ASSUME TextInv, NEW j \in Nat, Odd(j)
    PROVE  j < n /\ j + 1 \in 0 .. n /\ Passes(j + 1, Trivia[j + 1]) /\ Trivia[j + 1].at \in j + 1 .. n
<1>1. n \in Nat /\ j < n
  BY TextIs DEF Odd
<1>2. j + 1 \in 0 .. n
  BY <1>1
<1>3. Passes(j + 1, Trivia[j + 1])
  BY <1>2, TriviaPasses
<1> QED BY <1>1, <1>2, <1>3 DEF Passes

LEMMA SkipsIsOdd ==
    ASSUME TextInv, NEW j \in Nat, Odd(j), NEW v \in OddSet
    PROVE  /\ Skips(j, v) \in OddSet /\ Skips(j, v).at = v.at
           /\ Skips(j, v).comments = Trivia[j + 1].comments \o v.comments
           /\ v.reports \subseteq Skips(j, v).reports
           /\ <<"UNEXPECTED_CHAR", j>> \in Skips(j, v).reports
<1> DEFINE u == Trivia[j + 1]
           r == <<"UNEXPECTED_CHAR", j>>
           w == u.comments \o v.comments
<1>1. u \in TriviaSet
  BY OddIsWithin DEF Passes
<1>2. u.comments \in Seq(CommentSet) /\ u.reports \subseteq Places
  BY <1>1 DEF TriviaSet
<1>3. r \in Places
  BY DEF Places, Codes
<1>4. v.comments \in Seq(CommentSet)
  BY DEF OddSet
<1> HIDE DEF u, r
<1>5. w \in Seq(CommentSet)
  BY <1>2, <1>4
<1> HIDE DEF w
<1>6. Skips(j, v) = [v EXCEPT !.comments = w, !.reports = v.reports \cup u.reports \cup {r}]
  BY DEF Skips, Joined, u, r, w, OddSet
<1>7. /\ Skips(j, v) \in OddSet /\ Skips(j, v).at = v.at /\ Skips(j, v).comments = w
      /\ Skips(j, v).reports = v.reports \cup u.reports \cup {r}
  BY <1>2, <1>3, <1>5, <1>6 DEF OddSet
<1> QED BY <1>7 DEF w, u, r

LEMMA UnexpectedIs ==
    ASSUME TextInv
    PROVE  \A j \in Nat : Unexpected[j] = IF Odd(j) THEN Skips(j, Unexpected[Trivia[j + 1].at]) ELSE NoOdd(j)
<1> DEFINE Base == {j \in Nat : ~ Odd(j)}
           B == [j \in Nat |-> NoOdd(j)]
           N == [j \in Nat |-> IF Odd(j) THEN Trivia[j + 1].at ELSE j]
           H == [j \in Nat |-> [v \in OddSet |-> IF Odd(j) THEN Skips(j, v) ELSE v]]
           body(f, j) == IF Odd(j) THEN Skips(j, f[Trivia[j + 1].at]) ELSE NoOdd(j)
           Fix(f) == f = [j \in Nat |-> body(f, j)]
<1>1. Unexpected = CHOOSE f : Fix(f)
  BY DEF Unexpected, Odd, Skips, NoOdd
<1> HIDE DEF body
<1>2. \E f : Fix(f)
  <2>1. n \in Nat /\ Nat \subseteq Nat
    BY TextIs
  <2>2. B \in [Nat -> OddSet]
    <3>1. \A j \in Nat : NoOdd(j) \in OddSet
      BY DEF NoOdd, OddSet
    <3> QED BY <3>1
  <2>3. N \in [Nat -> Nat] /\ Forward(Nat, n, Base, N)
    <3>1. \A j \in Nat : Odd(j) => Trivia[j + 1].at \in Nat /\ Trivia[j + 1].at > j /\ j < n
      BY <2>1, OddIsWithin
    <3> QED BY <3>1 DEF Forward
  <2>4. H \in [Nat -> [OddSet -> OddSet]]
    BY SkipsIsOdd
  <2>5. ASSUME NEW f, Solves(f, Nat, Base, B, N, H), f \in [Nat -> OddSet], NEW j \in Nat
        PROVE  f[j] = body(f, j)
    <3>1. CASE Odd(j)
      <4> DEFINE a == Trivia[j + 1].at
      <4>1. a \in Nat
        BY <2>1, <3>1, OddIsWithin
      <4>2. N[j] = a /\ j \notin Base
        BY <3>1
      <4> HIDE DEF a
      <4>3. f[j] = H[j][f[a]] /\ f[a] \in OddSet
        BY <2>5, <4>1, <4>2 DEF Solves
      <4>4. f[j] = Skips(j, f[a])
        BY <3>1, <4>3
      <4> QED BY <3>1, <4>4 DEF a, body
    <3>2. CASE ~ Odd(j)
      BY <2>5, <3>2 DEF Solves, body
    <3> QED BY <3>1, <3>2
  <2> HIDE DEF Base, B, N, H
  <2>6. PICK f \in [Nat -> OddSet] : Solves(f, Nat, Base, B, N, H)
    BY <2>1, <2>2, <2>3, <2>4, Recursion
  <2>7. \A j \in Nat : f[j] = body(f, j)
    BY <2>5, <2>6
  <2>8. Fix(f)
    <3> DEFINE h == [j \in Nat |-> body(f, j)]
    <3>1. \A j \in Nat : f[j] = h[j]
      BY <2>7
    <3>2. f = h
      BY <3>1
    <3> QED BY <3>2
  <2> QED BY <2>8
<1>3. Fix(Unexpected)
  <2> HIDE DEF Fix
  <2> QED BY <1>1, <1>2
<1>4. \A j \in Nat : Unexpected[j] = body(Unexpected, j)
  BY <1>3
<1> QED BY <1>4 DEF body

PassesOdd(j, v) ==
    /\ v \in OddSet /\ v.at \in j .. n /\ ~ Odd(v.at)
    /\ \A k \in j .. v.at - 1 :
          is_space(k) \/ InComment(k, v.comments) \/ <<"UNEXPECTED_CHAR", k>> \in v.reports
    /\ v.at # j => <<"UNEXPECTED_CHAR", j>> \in v.reports
    /\ ~ Skippable(j) => ~ Skippable(v.at)

LEMMA UnexpectedPasses ==
    ASSUME TextInv, NEW i \in 0 .. n
    PROVE  PassesOdd(i, Unexpected[i])
<1> DEFINE X == {j \in 0 .. n : PassesOdd(j, Unexpected[j])}
<1>0. n \in Nat
  BY TextIs
<1>1. ASSUME NEW j \in 0 .. n, \A k \in j + 1 .. n : k \in X PROVE PassesOdd(j, Unexpected[j])
  <2>1. CASE ~ Odd(j)
    <3>1. Unexpected[j] = NoOdd(j)
      BY <2>1, UnexpectedIs
    <3>2. NoOdd(j) \in OddSet /\ NoOdd(j).at = j
      BY <1>0 DEF NoOdd, OddSet
    <3>3. \A k \in j .. j - 1 : FALSE
      OBVIOUS
    <3> QED BY <1>0, <2>1, <3>1, <3>2, <3>3 DEF PassesOdd
  <2>2. CASE Odd(j)
    <3> DEFINE u == Trivia[j + 1]
               a == u.at
               v == Unexpected[a]
               w == Unexpected[j]
    <3>1. a \in j + 1 .. n /\ Passes(j + 1, u) /\ j < n
      BY <2>2, OddIsWithin
    <3>2. w = Skips(j, v)
      BY <2>2, UnexpectedIs
    <3>3. PassesOdd(a, v)
      BY <1>1, <3>1
    <3>4. ~ Skippable(a) /\ u \in TriviaSet /\ \A k \in j + 1 .. a - 1 : is_space(k) \/ InComment(k, u.comments)
      BY <3>1 DEF Passes
    <3> HIDE DEF v, w
    <3>5. v \in OddSet
      BY <3>3 DEF PassesOdd
    <3>6. /\ w \in OddSet /\ w.at = v.at
          /\ w.comments = u.comments \o v.comments
          /\ v.reports \subseteq w.reports
          /\ <<"UNEXPECTED_CHAR", j>> \in w.reports
      <4> DEFINE x == Skips(j, v)
      <4>1. /\ x \in OddSet /\ x.at = v.at
            /\ x.comments = Trivia[j + 1].comments \o v.comments
            /\ v.reports \subseteq x.reports
            /\ <<"UNEXPECTED_CHAR", j>> \in x.reports
        <5>1. j \in Nat
          BY <1>0
        <5> HIDE DEF a, u, X
        <5> QED BY <5>1, <2>2, <3>5, SkipsIsOdd, Zenon
      <4>2. w = x
        BY <3>2
      <4> HIDE DEF x
      <4> QED BY <4>1, <4>2
    <3> HIDE DEF a, u
    <3>7. \A k : InComment(k, w.comments) <=> InComment(k, u.comments) \/ InComment(k, v.comments)
      BY <3>4, <3>5, <3>6, InCommentBoth DEF TriviaSet, OddSet
    <3>8. /\ v.at \in a .. n /\ ~ Odd(v.at) /\ ~ Skippable(v.at)
          /\ \A k \in a .. v.at - 1 :
                is_space(k) \/ InComment(k, v.comments) \/ <<"UNEXPECTED_CHAR", k>> \in v.reports
      BY <3>3, <3>4 DEF PassesOdd
    <3>9. \A k \in j .. v.at - 1 : k = j \/ k \in j + 1 .. a - 1 \/ k \in a .. v.at - 1
      BY <1>0, <3>1, <3>8
    <3>10. v.at \in j .. n
      BY <1>0, <3>1, <3>8
    <3>11. \A k \in j .. w.at - 1 :
               is_space(k) \/ InComment(k, w.comments) \/ <<"UNEXPECTED_CHAR", k>> \in w.reports
      BY <3>4, <3>6, <3>7, <3>8, <3>9
    <3> QED BY <3>6, <3>8, <3>10, <3>11 DEF PassesOdd, w
  <2> QED BY <2>1, <2>2
<1>2. X = 0 .. n
  <2>1. X \subseteq 0 .. n
    OBVIOUS
  <2>2. \A j \in 0 .. n : (\A k \in j + 1 .. n : k \in X) => j \in X
    BY <1>1
  <2> HIDE DEF X
  <2> QED BY <1>0, <2>1, <2>2, Downwards
<1> QED BY <1>2

-----------------------------------------------------------------------------
(* A run of string text.                                                     *)

StopsText(j) == j >= n \/ At(j) \in {"quote", "nl"} \/ Interp(j)
Escapes(j) == At(j) = "backslash" /\ j + 1 < n /\ At(j + 1) # "nl"

LEMMA StringTextIs ==
    ASSUME TextInv
    PROVE  \A j \in Nat : StringText[j] = IF StopsText(j) THEN j
                                          ELSE IF Escapes(j) THEN StringText[j + 2] ELSE StringText[j + 1]
<1> DEFINE Base == {j \in Nat : StopsText(j)}
           B == [j \in Nat |-> j]
           N == [j \in Nat |-> IF Escapes(j) THEN j + 2 ELSE j + 1]
           H == [j \in Nat |-> [v \in Nat |-> v]]
           body(f, j) == IF StopsText(j) THEN j ELSE IF Escapes(j) THEN f[j + 2] ELSE f[j + 1]
           Fix(f) == f = [j \in Nat |-> body(f, j)]
<1>1. StringText = CHOOSE f : Fix(f)
  BY DEF StringText, StopsText, Escapes
<1> HIDE DEF body
<1>2. \E f : Fix(f)
  <2>1. n \in Nat /\ Nat \subseteq Nat
    BY TextIs
  <2>2. B \in [Nat -> Nat] /\ H \in [Nat -> [Nat -> Nat]]
    OBVIOUS
  <2>3. N \in [Nat -> Nat] /\ Forward(Nat, n, Base, N)
    <3>1. \A j \in Nat : ~ StopsText(j) => j < n
      BY <2>1 DEF StopsText
    <3> QED BY <3>1 DEF Forward
  <2>5. ASSUME NEW f, Solves(f, Nat, Base, B, N, H), f \in [Nat -> Nat], NEW j \in Nat
        PROVE  f[j] = body(f, j)
    <3>1. CASE StopsText(j)
      BY <2>5, <3>1 DEF Solves, body
    <3>2. CASE ~ StopsText(j)
      <4>1. f[j] = H[j][f[N[j]]] /\ N[j] \in Nat
        BY <2>5, <3>2 DEF Solves
      <4>2. f[j] = f[N[j]]
        BY <2>5, <4>1
      <4> QED BY <3>2, <4>2 DEF body
    <3> QED BY <3>1, <3>2
  <2> HIDE DEF Base, B, N, H
  <2>6. PICK f \in [Nat -> Nat] : Solves(f, Nat, Base, B, N, H)
    BY <2>1, <2>2, <2>3, Recursion
  <2>7. \A j \in Nat : f[j] = body(f, j)
    BY <2>5, <2>6
  <2>8. Fix(f)
    <3> DEFINE h == [j \in Nat |-> body(f, j)]
    <3>1. \A j \in Nat : f[j] = h[j]
      BY <2>7
    <3>2. f = h
      BY <3>1
    <3> QED BY <3>2
  <2> QED BY <2>8
<1>3. Fix(StringText)
  <2> HIDE DEF Fix
  <2> QED BY <1>1, <1>2
<1>4. \A j \in Nat : StringText[j] = body(StringText, j)
  BY <1>3
<1> QED BY <1>4 DEF body

LEMMA StringTextEnds ==
    ASSUME TextInv, NEW i \in 0 .. n
    PROVE  /\ StringText[i] \in i .. n
           /\ ~ StopsText(i) => StringText[i] \in i + 1 .. n
<1> DEFINE X == {j \in 0 .. n : StringText[j] \in j .. n}
<1>0. n \in Nat
  BY TextIs
<1>1. ASSUME NEW j \in 0 .. n, \A k \in j + 1 .. n : StringText[k] \in k .. n
      PROVE  /\ StringText[j] \in j .. n
             /\ ~ StopsText(j) => StringText[j] \in j + 1 .. n
  <2>1. CASE StopsText(j)
    BY <1>0, <2>1, StringTextIs
  <2>2. CASE ~ StopsText(j)
    <3>1. j < n
      BY <1>0, <2>2 DEF StopsText
    <3>2. StringText[j + 1] \in j + 1 .. n
      BY <1>0, <1>1, <3>1
    <3>3. Escapes(j) => StringText[j + 2] \in j + 2 .. n
      <4>1. Escapes(j) => j + 2 \in j + 1 .. n
        BY <1>0 DEF Escapes
      <4> QED BY <1>1, <4>1
    <3>4. StringText[j] = IF Escapes(j) THEN StringText[j + 2] ELSE StringText[j + 1]
      BY <2>2, StringTextIs
    <3> QED BY <1>0, <3>2, <3>3, <3>4
  <2> QED BY <2>1, <2>2
<1>2. X = 0 .. n
  <2>1. X \subseteq 0 .. n
    OBVIOUS
  <2>2. ASSUME NEW j \in 0 .. n, \A k \in j + 1 .. n : k \in X PROVE j \in X
    BY <1>1, <2>2
  <2> HIDE DEF X
  <2> QED BY <1>0, <2>1, <2>2, Downwards
<1>3. \A k \in i + 1 .. n : StringText[k] \in k .. n
  <2>1. \A k \in i + 1 .. n : k \in 0 .. n
    BY <1>0
  <2> QED BY <1>2, <2>1
<1> QED BY <1>1, <1>3

-----------------------------------------------------------------------------
(* Lexers, levels and tokens.                                                *)

Kinds ==
    {None, "EOF", "NEWLINE", "IDENT", "RAW_STR", "STR_START", "STR_TEXT", "STR_END", "INTERP_START",
     "INTERP_END", "CTRL_START", "CTRL_END", "LBRACE", "RBRACE", "op=", "->", "=>", "LT",
     "MARKUP_START", "MARKUP_TEXT", "MARKUP_COMMENT", "TAG_CLOSE_START", "TAG_SELF_CLOSE", "TAG_END",
     "TAG_NAME", "ATTR_NAME", "ATTR_EQ", "ELLIPSIS"} \cup Chars
TokenSet == [kind : Kinds, start : Nat, end : Nat, mode : Modes \cup {None}]
LexerSet ==
    [i : Nat, stash : TokenSet, peeked : TokenSet, prev : Kinds, stack : Seq(FrameSet),
     depth_reported : BOOLEAN, comments : Seq(CommentSet), reports : SUBSET Places]

(* A level is opened before the cursor, counts braces only where there are   *)
(* expressions, and lies on one that may hold it.                            *)
Lies(f, i) ==
    /\ f \in FrameSet /\ f.open_at <= i /\ f.depth <= i
    /\ f.mode # "NORMAL" => f.depth = 0 /\ f.close = "EOF"
    /\ f.close_tag => f.mode = "TAG"
OnTop(f, g) ==
    /\ f.mode = "NORMAL" => f.close # "EOF" /\ g.mode # "NORMAL"
    /\ f.mode = "STR" => g.mode \in {"NORMAL", "TAG"}
    /\ f.mode \in {"TAG", "CONTENT"} => g.mode \in {"NORMAL", "CONTENT"}
Bounded(s, i) ==
    /\ s \in Seq(FrameSet) /\ Len(s) \in 1 .. MaxDepth
    /\ \A k \in 1 .. Len(s) : Lies(s[k], i)
    /\ s[1].mode = "NORMAL" /\ s[1].close = "EOF"
    /\ \A k \in 1 .. Len(s) - 1 : OnTop(s[k + 1], s[k])

Good(l) == l \in LexerSet /\ l.i \in 0 .. n /\ Bounded(l.stack, l.i)

(* What a step of the lexer leaves alone, and what it only adds to.          *)
Goes(l, m) ==
    /\ m \in LexerSet /\ m.i \in l.i .. n
    /\ m.stash = l.stash /\ m.peeked = l.peeked /\ m.prev = l.prev
    /\ l.reports \subseteq m.reports
    /\ \A k \in 0 .. n : InComment(k, l.comments) => InComment(k, m.comments)

Pair(r) == r = [lx |-> r.lx, t |-> r.t]

(* A token of kind k from the cursor of l to e.                              *)
Gives(l, r, k, e) ==
    /\ Pair(r) /\ Goes(l, r.lx) /\ r.lx.i = e
    /\ r.t = Tok(k, l.i, e, Top(l).mode) /\ r.t \in TokenSet

Same(l, m) == m.stack = l.stack /\ m.depth_reported = l.depth_reported
Pops(l, m) ==
    Len(l.stack) > 1 /\ m.stack = Front(l.stack) /\ m.depth_reported = l.depth_reported
Turns(l, m, f) ==
    m.stack = [l.stack EXCEPT ![Len(l.stack)] = f] /\ m.depth_reported = l.depth_reported
Pushes(l, m, f) ==
    IF Len(l.stack) >= MaxDepth THEN m.stack = l.stack /\ m.depth_reported
    ELSE m.stack = Append(l.stack, f) /\ m.depth_reported = l.depth_reported

LEMMA GoesOn ==
    ASSUME NEW l, NEW m, NEW o, Goes(l, m), Goes(m, o), l.i \in Nat, n \in Nat
    PROVE  Goes(l, o)
BY DEF Goes

LEMMA GoodStack ==
    ASSUME NEW l, Good(l)
    PROVE  /\ l.stack \in Seq(FrameSet) /\ Len(l.stack) \in 1 .. MaxDepth /\ Len(l.stack) \in Nat
           /\ Top(l) = l.stack[Len(l.stack)] /\ Top(l) \in FrameSet /\ Lies(Top(l), l.i)
           /\ Len(l.stack) > 1 \/ (Top(l).mode = "NORMAL" /\ Top(l).close = "EOF")
<1>1. l.stack \in Seq(FrameSet) /\ Len(l.stack) \in 1 .. MaxDepth
  BY DEF Good, Bounded
<1>2. Top(l) = l.stack[Len(l.stack)]
  BY DEF Top, Last
<1>3. Len(l.stack) \in 1 .. Len(l.stack)
  BY <1>1
<1>4. Lies(l.stack[Len(l.stack)], l.i)
  BY <1>3 DEF Good, Bounded
<1>5. Len(l.stack) = 1 => Top(l).mode = "NORMAL" /\ Top(l).close = "EOF"
  BY <1>2 DEF Good, Bounded
<1>6. Len(l.stack) \in Nat /\ (Len(l.stack) > 1 \/ Len(l.stack) = 1)
  <2> DEFINE d == Len(l.stack)
  <2>1. d \in 1 .. MaxDepth
    BY <1>1
  <2> HIDE DEF d
  <2>2. d \in Nat /\ (d > 1 \/ d = 1)
    BY <2>1, LexerAssumption
  <2> QED BY <2>2 DEF d
<1>7. Top(l) \in FrameSet
  BY <1>2, <1>4 DEF Lies
<1> QED BY <1>1, <1>2, <1>4, <1>5, <1>6, <1>7

LEMMA ReportIs ==
    ASSUME TextInv, NEW l, Good(l), NEW code \in Codes, NEW at \in Nat
    PROVE  LET m == Report(l, code, at)
           IN  /\ Good(m) /\ Goes(l, m) /\ m.i = l.i /\ Same(l, m)
               /\ <<code, at>> \in m.reports /\ Top(m) = Top(l)
<1> DEFINE r == <<code, at>>
           m == Report(l, code, at)
<1>1. r \in Places
  BY DEF Places
<1> HIDE DEF r
<1>2. m = [l EXCEPT !.reports = l.reports \cup {r}]
  BY DEF Report, r
<1>3. l \in LexerSet /\ l.i \in 0 .. n /\ n \in Nat
  BY TextIs DEF Good
<1>4. /\ m \in LexerSet /\ m.i = l.i /\ m.stash = l.stash /\ m.peeked = l.peeked /\ m.prev = l.prev
      /\ m.stack = l.stack /\ m.depth_reported = l.depth_reported /\ m.comments = l.comments
      /\ m.reports = l.reports \cup {r}
  BY <1>1, <1>2, <1>3 DEF LexerSet
<1> HIDE DEF m
<1>5. Goes(l, m)
  BY <1>3, <1>4 DEF Goes
<1>6. Good(m)
  BY <1>4 DEF Good
<1>7. Top(m) = Top(l)
  BY <1>4 DEF Top
<1> QED BY <1>4, <1>5, <1>6, <1>7 DEF m, r, Same

LEMMA EmitIs ==
    ASSUME TextInv, NEW l, Good(l), NEW k \in Kinds, NEW e \in l.i .. n
    PROVE  LET r == Emit(l, k, e)
           IN  Gives(l, r, k, e) /\ Same(l, r.lx) /\ r.lx = [l EXCEPT !.i = e]
<1> DEFINE r == Emit(l, k, e)
           m == [l EXCEPT !.i = e]
           t == Tok(k, l.i, e, Top(l).mode)
<1>1. r.lx = m /\ r.t = t /\ Pair(r)
  BY DEF Emit, Pair
<1>2. l \in LexerSet /\ l.i \in 0 .. n /\ n \in Nat /\ e \in Nat
  BY TextIs DEF Good
<1>3. t \in TokenSet
  <2>1. Top(l).mode \in Modes
    BY GoodStack DEF FrameSet
  <2> QED BY <1>2, <2>1 DEF Tok, TokenSet
<1>4. /\ m \in LexerSet /\ m.i = e /\ m.stash = l.stash /\ m.peeked = l.peeked /\ m.prev = l.prev
      /\ m.stack = l.stack /\ m.depth_reported = l.depth_reported /\ m.comments = l.comments
      /\ m.reports = l.reports
  BY <1>2 DEF LexerSet
<1>5. Goes(l, m)
  <2> HIDE DEF m
  <2> QED BY <1>2, <1>4 DEF Goes
<1> HIDE DEF m, t, r
<1>6. Gives(l, r, k, e) /\ Same(l, r.lx)
  BY <1>1, <1>3, <1>4, <1>5 DEF Gives, Same, t
<1> QED BY <1>1, <1>6 DEF m, r

LEMMA PushIs ==
    ASSUME TextInv, NEW l \in LexerSet, l.i \in 0 .. n, Len(l.stack) \in Nat,
           NEW mode, NEW at \in Nat, NEW c, Frame(mode, at, c) \in FrameSet
    PROVE  LET m == push_frame(l, mode, at, c)
           IN  /\ m \in LexerSet /\ Goes(l, m) /\ m.i = l.i
               /\ Pushes(l, m, Frame(mode, at, c))
<1> DEFINE f == Frame(mode, at, c)
           m == push_frame(l, mode, at, c)
           r == <<"NESTING_TOO_DEEP", at>>
<1>0. n \in Nat /\ MaxDepth \in Nat
  BY TextIs, LexerAssumption
<1>1. CASE Len(l.stack) >= MaxDepth
  <2>1. r \in Places
    BY DEF Places, Codes
  <2> HIDE DEF r
  <2>2. \E rs \in {l.reports, l.reports \cup {r}} : m = [l EXCEPT !.reports = rs, !.depth_reported = TRUE]
    <3>1. CASE l.depth_reported
      <4>1. m = [l EXCEPT !.depth_reported = TRUE]
        BY <1>1, <3>1 DEF push_frame
      <4>2. m = [l EXCEPT !.reports = l.reports, !.depth_reported = TRUE]
        BY <4>1 DEF LexerSet
      <4> QED BY <4>2
    <3>2. CASE ~ l.depth_reported
      <4>1. m = [[l EXCEPT !.reports = l.reports \cup {r}] EXCEPT !.depth_reported = TRUE]
        BY <1>1, <3>2 DEF push_frame, Report, r
      <4> HIDE DEF m
      <4>2. m = [l EXCEPT !.reports = l.reports \cup {r}, !.depth_reported = TRUE]
        BY <4>1
      <4> QED BY <4>2
    <3> QED BY <3>1, <3>2
  <2>3. PICK rs \in {l.reports, l.reports \cup {r}} : m = [l EXCEPT !.reports = rs, !.depth_reported = TRUE]
    BY <2>2
  <2>4. l.reports \subseteq rs /\ rs \subseteq Places
    BY <2>1 DEF LexerSet
  <2> HIDE DEF m
  <2>5. /\ m \in LexerSet /\ m.i = l.i /\ m.stash = l.stash /\ m.peeked = l.peeked /\ m.prev = l.prev
        /\ m.stack = l.stack /\ m.depth_reported = TRUE /\ m.comments = l.comments /\ m.reports = rs
    BY <2>3, <2>4 DEF LexerSet
  <2>6. Goes(l, m)
    BY <1>0, <2>4, <2>5 DEF Goes
  <2> QED BY <1>1, <2>5, <2>6 DEF m, Pushes
<1>2. CASE ~ (Len(l.stack) >= MaxDepth)
  <2>1. m = [l EXCEPT !.stack = Append(l.stack, f)]
    BY <1>2 DEF push_frame
  <2>2. Append(l.stack, f) \in Seq(FrameSet)
    BY DEF LexerSet
  <2> DEFINE st == Append(l.stack, f)
  <2> HIDE DEF m, f, st
  <2>3. /\ m \in LexerSet /\ m.i = l.i /\ m.stash = l.stash /\ m.peeked = l.peeked /\ m.prev = l.prev
        /\ m.stack = st /\ m.depth_reported = l.depth_reported
        /\ m.comments = l.comments /\ m.reports = l.reports
    BY <2>1, <2>2 DEF LexerSet, st
  <2>4. Goes(l, m)
    BY <1>0, <2>3 DEF Goes
  <2> QED BY <1>2, <2>3, <2>4 DEF m, f, st, Pushes
<1> QED BY <1>1, <1>2

LEMMA EmitPushIs ==
    ASSUME TextInv, NEW l, Good(l), NEW k \in Kinds, NEW e \in l.i .. n,
           NEW mode \in Modes, NEW c \in {"EOF", "INTERP_END", "CTRL_END"}
    PROVE  LET r == EmitPush(l, k, e, mode, c)
           IN  Gives(l, r, k, e) /\ Pushes(l, r.lx, Frame(mode, l.i, c))
<1> DEFINE q == Emit(l, k, e)
           r == EmitPush(l, k, e, mode, c)
           f == Frame(mode, l.i, c)
<1>0. n \in Nat /\ l \in LexerSet /\ l.i \in 0 .. n /\ l.i \in Nat
  BY TextIs DEF Good
<1>1. Gives(l, q, k, e) /\ Same(l, q.lx)
  BY EmitIs
<1>2. q = [lx |-> q.lx, t |-> q.t]
  BY DEF Emit
<1>3. f \in FrameSet
  BY <1>0 DEF Frame, FrameSet, Positions
<1>4. r.lx = push_frame(q.lx, mode, l.i, c) /\ r.t = q.t /\ Pair(r)
  <2>1. r = [q EXCEPT !.lx = push_frame(q.lx, mode, l.i, c)]
    BY DEF EmitPush
  <2> HIDE DEF q, r
  <2> QED BY <1>2, <2>1 DEF Pair
<1> HIDE DEF q, r, f
<1>5. q.lx \in LexerSet /\ q.lx.i = e /\ e \in 0 .. n /\ q.lx.stack = l.stack /\ q.lx.depth_reported = l.depth_reported
  BY <1>0, <1>1 DEF Gives, Goes, Same
<1>6. Len(q.lx.stack) \in Nat
  BY <1>5, GoodStack
<1>7. /\ r.lx \in LexerSet /\ Goes(q.lx, r.lx) /\ r.lx.i = q.lx.i
      /\ Pushes(q.lx, r.lx, f)
  BY <1>0, <1>3, <1>4, <1>5, <1>6, PushIs DEF f
<1>8. Goes(l, r.lx)
  BY <1>0, <1>1, <1>7, GoesOn DEF Gives
<1> QED BY <1>1, <1>4, <1>5, <1>7, <1>8 DEF Gives, Pushes, r, f

LEMMA EmitPopIs ==
    ASSUME TextInv, NEW l, Good(l), NEW k \in Kinds, NEW e \in l.i .. n, Len(l.stack) > 1
    PROVE  LET r == EmitPop(l, k, e)
           IN  Gives(l, r, k, e) /\ Pops(l, r.lx)
<1> DEFINE q == Emit(l, k, e)
           r == EmitPop(l, k, e)
           o == q.lx
           m == pop_frame(o)
<1>0. n \in Nat /\ l \in LexerSet /\ l.i \in 0 .. n /\ l.i \in Nat
  BY TextIs DEF Good
<1>1. Gives(l, q, k, e) /\ Same(l, o)
  BY EmitIs
<1>2. q = [lx |-> q.lx, t |-> q.t]
  BY DEF Emit
<1>3. r.lx = m /\ r.t = q.t /\ Pair(r)
  <2>1. r = [q EXCEPT !.lx = m]
    BY DEF EmitPop
  <2> HIDE DEF q, r, m
  <2> QED BY <1>2, <2>1 DEF Pair
<1> HIDE DEF q, r
<1>4. o \in LexerSet /\ o.i = e /\ e \in 0 .. n /\ o.stack = l.stack /\ o.depth_reported = l.depth_reported
  BY <1>0, <1>1 DEF Gives, Goes, Same
<1> DEFINE st == Front(l.stack)
<1>5. st \in Seq(FrameSet)
  BY GoodStack DEF Front
<1> HIDE DEF st, o
<1>6. m = [o EXCEPT !.stack = st]
  BY <1>4 DEF pop_frame, st
<1> HIDE DEF m
<1>7. /\ m \in LexerSet /\ m.i = o.i /\ m.stash = o.stash /\ m.peeked = o.peeked /\ m.prev = o.prev
      /\ m.stack = st /\ m.depth_reported = o.depth_reported
      /\ m.comments = o.comments /\ m.reports = o.reports
  BY <1>4, <1>5, <1>6 DEF LexerSet
<1>8. Goes(o, m)
  BY <1>0, <1>4, <1>7 DEF Goes
<1>9. Goes(l, m)
  BY <1>0, <1>1, <1>8, GoesOn DEF Gives, o
<1> QED BY <1>1, <1>3, <1>4, <1>7, <1>9 DEF Gives, Pops, r, st, o

LEMMA SetTopIs ==
    ASSUME TextInv, NEW l \in LexerSet, l.i \in 0 .. n, Len(l.stack) >= 1, NEW f \in FrameSet
    PROVE  LET m == SetTop(l, f)
           IN  m \in LexerSet /\ Goes(l, m) /\ m.i = l.i /\ Turns(l, m, f)
<1> DEFINE m == SetTop(l, f)
           st == [l.stack EXCEPT ![Len(l.stack)] = f]
<1>0. n \in Nat
  BY TextIs
<1>1. st \in Seq(FrameSet)
  <2>1. l.stack \in Seq(FrameSet)
    BY DEF LexerSet
  <2> QED BY <2>1
<1>2. m = [l EXCEPT !.stack = st]
  BY DEF SetTop
<1> HIDE DEF m, st
<1>3. /\ m \in LexerSet /\ m.i = l.i /\ m.stash = l.stash /\ m.peeked = l.peeked /\ m.prev = l.prev
      /\ m.stack = st /\ m.depth_reported = l.depth_reported
      /\ m.comments = l.comments /\ m.reports = l.reports
  BY <1>1, <1>2 DEF LexerSet
<1>4. Goes(l, m)
  BY <1>0, <1>3 DEF Goes
<1> QED BY <1>3, <1>4 DEF Turns, m, st

(* What each kind of token does to the levels.                               *)
Structure ==
    {"STR_START", "STR_END", "INTERP_START", "INTERP_END", "CTRL_START", "CTRL_END", "LBRACE", "RBRACE",
     "MARKUP_START", "TAG_CLOSE_START", "TAG_SELF_CLOSE", "TAG_END", "EOF"}
(* Tokens that do nothing to the levels, in each mode.                       *)
Ordinary(mode, k) ==
    /\ k \notin Structure \cup {None, "NEWLINE"}
    /\ mode = "STR" => k = "STR_TEXT"
    /\ mode = "TAG" => k \in {"TAG_NAME", "ATTR_NAME", "ATTR_EQ", "ELLIPSIS"}
    /\ mode = "CONTENT" => k \in {"MARKUP_TEXT", "MARKUP_COMMENT"}
    /\ mode = "NORMAL" => k \notin {"STR_TEXT", "TAG_NAME", "ATTR_NAME", "ATTR_EQ", "ELLIPSIS",
                                    "MARKUP_TEXT", "MARKUP_COMMENT"}
Enters(l, m, f, t) ==
    \/ t.kind = "STR_START" /\ f.mode \in {"NORMAL", "TAG"} /\ Pushes(l, m, Frame("STR", t.start, "EOF"))
    \/ t.kind = "INTERP_START" /\ f.mode # "NORMAL" /\ Pushes(l, m, Frame("NORMAL", t.start, "INTERP_END"))
    \/ t.kind = "CTRL_START" /\ f.mode = "CONTENT" /\ Pushes(l, m, Frame("NORMAL", t.start, "CTRL_END"))
    \/ t.kind = "MARKUP_START" /\ f.mode = "CONTENT" /\ Pushes(l, m, Frame("TAG", t.start, "EOF"))
Leaves(l, m, f, t) ==
    /\ Pops(l, m)
    /\ \/ t.kind = "STR_END" /\ f.mode = "STR"
       \/ t.kind \in {"INTERP_END", "CTRL_END"} /\ f.mode = "NORMAL" /\ f.close = t.kind /\ f.depth = 0
       \/ t.kind = "TAG_END" /\ f.mode = "TAG" /\ f.close_tag
       \/ t.kind = "TAG_SELF_CLOSE" /\ f.mode = "TAG"
       \/ t.kind = "EOF" /\ f.mode \in {"TAG", "CONTENT"} /\ t.end = n
Becoming(l, m, f, t) ==
    \/ t.kind = "LBRACE" /\ f.mode = "NORMAL" /\ Turns(l, m, [f EXCEPT !.depth = f.depth + 1])
    \/ t.kind = "RBRACE" /\ f.mode = "NORMAL" /\ f.depth > 0 /\ Turns(l, m, [f EXCEPT !.depth = f.depth - 1])
    \/ t.kind = "TAG_END" /\ f.mode = "TAG" /\ ~ f.close_tag /\ Turns(l, m, [f EXCEPT !.mode = "CONTENT"])
    \/ /\ t.kind = "TAG_CLOSE_START" /\ f.mode = "CONTENT"
       /\ Turns(l, m, [f EXCEPT !.mode = "TAG", !.close_tag = TRUE, !.named = FALSE])
    \/ Ordinary(f.mode, t.kind) /\ f.mode = "TAG" /\ Turns(l, m, [f EXCEPT !.named = TRUE])
Staying(l, m, f, t) ==
    /\ Same(l, m)
    /\ \/ Ordinary(f.mode, t.kind)
       \/ t.kind = "RBRACE" /\ f.mode = "NORMAL" /\ f.depth = 0 /\ f.close = "EOF"
       \/ t.kind = "MARKUP_START" /\ f.mode = "NORMAL"
       \/ t.kind = "EOF" /\ f.mode = "NORMAL" /\ t.end = n
Levels(l, m, f, t) ==
    Enters(l, m, f, t) \/ Leaves(l, m, f, t) \/ Becoming(l, m, f, t) \/ Staying(l, m, f, t)

(* What is still open at the end is reported, a directive apart, and so is a *)
(* string that is cut.                                                       *)
LevelCode(f) == IF f.mode = "NORMAL" THEN "UNTERMINATED_INTERP" ELSE "UNCLOSED_ELEMENT"
Tells(m, f, t) ==
    /\ t.kind = "EOF" => \/ f.mode = "NORMAL" /\ f.close \in {"EOF", "CTRL_END"}
                         \/ <<LevelCode(f), f.open_at>> \in m.reports
    /\ t.kind = "STR_END" /\ At(t.start) # "quote" => <<"UNTERMINATED_STRING", f.open_at>> \in m.reports

(* A token at the cursor.                                                    *)
Direct(l, r) ==
    /\ Pair(r) /\ Goes(l, r.lx) /\ r.t \in TokenSet /\ r.t.mode = Top(l).mode /\ r.t.kind \notin {None, "NEWLINE"}
    /\ r.t.start = l.i /\ r.t.end = r.lx.i
    /\ r.t.kind \notin {"EOF", "STR_END"} => r.t.start < r.t.end
    /\ Levels(l, r.lx, Top(l), r.t)
    /\ Tells(r.lx, Top(l), r.t)

LEMMA GivesDirect ==
    ASSUME NEW l, NEW r, NEW k, NEW e, Gives(l, r, k, e), k \notin {None, "NEWLINE"},
           k \notin {"EOF", "STR_END"} => l.i < e,
           Levels(l, r.lx, Top(l), Tok(k, l.i, e, Top(l).mode)),
           Tells(r.lx, Top(l), Tok(k, l.i, e, Top(l).mode))
    PROVE  Direct(l, r)
BY DEF Gives, Direct, Tok

LEMMA TokIs ==
    ASSUME NEW k, NEW s, NEW e, NEW m
    PROVE  LET t == Tok(k, s, e, m) IN t.kind = k /\ t.start = s /\ t.end = e /\ t.mode = m
BY DEF Tok

(* A plain token.                                                            *)
LEMMA EmitPlain ==
    ASSUME TextInv, NEW l, Good(l), NEW k \in Kinds, NEW e \in l.i .. n, l.i < e,
           Ordinary(Top(l).mode, k)
    PROVE  Direct(l, Emit(l, k, e))
<1> DEFINE r == Emit(l, k, e)
           t == Tok(k, l.i, e, Top(l).mode)
<1>1. Gives(l, r, k, e) /\ Same(l, r.lx)
  BY EmitIs
<1>2. t.kind = k
  BY TokIs
<1> HIDE DEF r, t
<1>3. Levels(l, r.lx, Top(l), t)
  BY <1>1, <1>2 DEF Levels, Staying
<1>4. Tells(r.lx, Top(l), t)
  BY <1>2 DEF Tells, Structure, Ordinary
<1>k. k \notin {None, "NEWLINE"}
  BY DEF Ordinary
<1>5. Direct(l, r)
  BY <1>1, <1>k, <1>3, <1>4, GivesDirect DEF t
<1> QED BY <1>5 DEF r

LEMMA PlainAfterReport ==
    ASSUME TextInv, NEW l, Good(l), NEW k \in Kinds, NEW e \in l.i .. n, l.i < e,
           Ordinary(Top(l).mode, k), NEW code \in Codes
    PROVE  Direct(l, Emit(Report(l, code, l.i), k, e))
<1> DEFINE o == Report(l, code, l.i)
           r == Emit(o, k, e)
           t == Tok(k, l.i, e, Top(l).mode)
<1>0. l.i \in Nat /\ n \in Nat
  BY TextIs DEF Good
<1>1. Good(o) /\ Goes(l, o) /\ o.i = l.i /\ Same(l, o) /\ Top(o) = Top(l)
  BY <1>0, ReportIs
<1> HIDE DEF o
<1>2. Gives(o, r, k, e) /\ Same(o, r.lx)
  BY <1>1, EmitIs
<1>3. t.kind = k
  BY TokIs
<1> HIDE DEF r, t
<1>4. Goes(l, r.lx)
  BY <1>0, <1>1, <1>2, GoesOn DEF Gives
<1>5. Gives(l, r, k, e) /\ Same(l, r.lx)
  BY <1>1, <1>2, <1>4 DEF Gives, Same
<1>6. Levels(l, r.lx, Top(l), t)
  BY <1>3, <1>5 DEF Levels, Staying
<1>7. Tells(r.lx, Top(l), t)
  BY <1>3 DEF Tells, Structure, Ordinary
<1>k. k \notin {None, "NEWLINE"}
  BY DEF Ordinary
<1>8. Direct(l, r)
  BY <1>5, <1>k, <1>6, <1>7, GivesDirect DEF t
<1> QED BY <1>8 DEF r, o

(* A token that closes its level, reported or not.                           *)
Closes(f, k, e) ==
    \/ k = "STR_END" /\ f.mode = "STR"
    \/ k \in {"INTERP_END", "CTRL_END"} /\ f.mode = "NORMAL" /\ f.close = k /\ f.depth = 0
    \/ k = "TAG_END" /\ f.mode = "TAG" /\ f.close_tag
    \/ k = "TAG_SELF_CLOSE" /\ f.mode = "TAG"

LEMMA EmitCloses ==
    ASSUME TextInv, NEW l, Good(l), NEW k \in Kinds, NEW e \in l.i .. n, l.i < e, Closes(Top(l), k, e),
           k = "STR_END" => At(l.i) = "quote"
    PROVE  Direct(l, EmitPop(l, k, e))
<1> DEFINE r == EmitPop(l, k, e)
           t == Tok(k, l.i, e, Top(l).mode)
           f == Top(l)
<1>0. Len(l.stack) > 1
  <2>1. Len(l.stack) > 1 \/ (f.mode = "NORMAL" /\ f.close = "EOF")
    BY GoodStack
  <2>2. ~ (f.mode = "NORMAL" /\ f.close = "EOF")
    BY DEF Closes
  <2> QED BY <2>1, <2>2
<1>1. Gives(l, r, k, e) /\ Pops(l, r.lx)
  BY <1>0, EmitPopIs
<1>2. t.kind = k /\ t.start = l.i
  BY TokIs
<1>3. k \notin {None, "NEWLINE", "EOF"}
  BY DEF Closes, None
<1> HIDE DEF r, t, f
<1>4. Levels(l, r.lx, f, t)
  BY <1>1, <1>2 DEF Levels, Leaves, Closes, f
<1>5. Tells(r.lx, f, t)
  BY <1>2, <1>3 DEF Tells
<1>6. Direct(l, r)
  BY <1>1, <1>3, <1>4, <1>5, GivesDirect DEF t, f
<1> QED BY <1>6 DEF r

LEMMA EmitEnters ==
    ASSUME TextInv, NEW l, Good(l), NEW k \in Kinds, NEW e \in l.i .. n, l.i < e,
           NEW mode, NEW c,
           \/ k = "STR_START" /\ Top(l).mode \in {"NORMAL", "TAG"} /\ mode = "STR" /\ c = "EOF"
           \/ k = "INTERP_START" /\ Top(l).mode # "NORMAL" /\ mode = "NORMAL" /\ c = "INTERP_END"
           \/ k = "CTRL_START" /\ Top(l).mode = "CONTENT" /\ mode = "NORMAL" /\ c = "CTRL_END"
           \/ k = "MARKUP_START" /\ Top(l).mode = "CONTENT" /\ mode = "TAG" /\ c = "EOF"
    PROVE  Direct(l, EmitPush(l, k, e, mode, c))
<1> DEFINE r == EmitPush(l, k, e, mode, c)
           t == Tok(k, l.i, e, Top(l).mode)
<1>0. mode \in Modes /\ c \in {"EOF", "INTERP_END", "CTRL_END"} /\ k \notin {None, "NEWLINE", "EOF", "STR_END"}
  BY DEF Modes, None
<1>1. Gives(l, r, k, e) /\ Pushes(l, r.lx, Frame(mode, l.i, c))
  BY <1>0, EmitPushIs
<1>2. t.kind = k /\ t.start = l.i
  BY TokIs
<1> HIDE DEF r, t
<1>3. Levels(l, r.lx, Top(l), t)
  BY <1>1, <1>2 DEF Levels, Enters
<1>4. Tells(r.lx, Top(l), t)
  BY <1>0, <1>2 DEF Tells
<1>5. Direct(l, r)
  BY <1>0, <1>1, <1>3, <1>4, GivesDirect DEF t
<1> QED BY <1>5 DEF r

(* A token that is reported and closes its level where it is.                *)
LEMMA CutOff ==
    ASSUME TextInv, NEW l, Good(l), NEW code \in Codes, NEW e \in l.i .. n,
           NEW k \in {"STR_END", "EOF"},
           k = "STR_END" => Top(l).mode = "STR" /\ code = "UNTERMINATED_STRING",
           k = "EOF" => Top(l).mode \in {"TAG", "CONTENT"} /\ e = n /\ code = "UNCLOSED_ELEMENT"
    PROVE  Direct(l, EmitPop(Report(l, code, Top(l).open_at), k, e))
<1> DEFINE f == Top(l)
           o == Report(l, code, f.open_at)
           r == EmitPop(o, k, e)
           t == Tok(k, l.i, e, f.mode)
           q == <<code, f.open_at>>
<1>0. l.i \in Nat /\ n \in Nat /\ f.open_at \in Nat /\ k \in Kinds /\ k \notin {None, "NEWLINE"}
  <2>1. n \in Nat
    BY TextIs
  <2>2. l.i \in Nat
    BY <2>1 DEF Good
  <2>3. f \in FrameSet
    BY GoodStack
  <2> QED BY <2>1, <2>2, <2>3 DEF FrameSet, Positions, Kinds, None
<1>1. Good(o) /\ Goes(l, o) /\ o.i = l.i /\ Same(l, o) /\ Top(o) = f /\ q \in o.reports
  BY <1>0, ReportIs
<1>2. Len(l.stack) > 1
  <2>1. Len(l.stack) > 1 \/ f.mode = "NORMAL"
    BY GoodStack
  <2> QED BY <2>1
<1> HIDE DEF o
<1>3. Gives(o, r, k, e) /\ Pops(o, r.lx)
  BY <1>0, <1>1, <1>2, EmitPopIs DEF Same
<1>4. t.kind = k /\ t.end = e
  BY TokIs
<1>5. q = <<code, f.open_at>>
  OBVIOUS
<1> HIDE DEF r, t, q, f
<1>6. Goes(l, r.lx)
  BY <1>0, <1>1, <1>3, GoesOn DEF Gives
<1>7. Gives(l, r, k, e) /\ Pops(l, r.lx)
  BY <1>1, <1>3, <1>6 DEF Gives, Same, Pops, f
<1>8. Levels(l, r.lx, f, t)
  BY <1>4, <1>7 DEF Levels, Leaves, f
<1>11. q \in r.lx.reports
  BY <1>1, <1>3 DEF Gives, Goes
<1>12. k = "EOF" => LevelCode(f) = code
  BY DEF LevelCode, f
<1>9. Tells(r.lx, f, t)
  BY <1>4, <1>5, <1>11, <1>12 DEF Tells
<1>10. Direct(l, r)
  BY <1>0, <1>7, <1>8, <1>9, GivesDirect DEF t, f
<1> QED BY <1>10 DEF r, o, f

LEMMA CursorIs ==
    ASSUME TextInv, NEW l, Good(l)
    PROVE  /\ n \in Nat /\ l.i \in Nat /\ l.i <= n /\ l.i \in l.i .. n /\ n \in l.i .. n
           /\ At(l.i) # "end" => l.i < n /\ l.i + 1 \in l.i .. n /\ At(l.i) \in Chars
           /\ l.i # n => At(l.i) # "end"
           /\ At(l.i + 1) # "end" => l.i + 2 \in l.i .. n
           /\ At(l.i + 2) # "end" => l.i + 3 \in l.i .. n
           /\ At(l.i + 3) # "end" => l.i + 4 \in l.i .. n
<1>1. n \in Nat /\ l.i \in 0 .. n
  BY TextIs DEF Good
<1>2. At(l.i) # "end" => l.i < n /\ At(l.i) \in Chars
  <2>1. At(l.i) # "end" => l.i < n
    BY <1>1, TextIs
  <2>2. l.i < n => l.i \in 0 .. n - 1
    BY <1>1
  <2> QED BY <2>1, <2>2, TextIs
<1>3. l.i # n => At(l.i) # "end"
  <2>1. l.i # n => l.i \in 0 .. n - 1
    BY <1>1
  <2> QED BY <2>1, TextIs, CharIsNotEnd
<1>4. At(l.i + 1) # "end" => l.i + 1 < n
  BY <1>1, TextIs
<1>5. At(l.i + 2) # "end" => l.i + 2 < n
  BY <1>1, TextIs
<1>6. At(l.i + 3) # "end" => l.i + 3 < n
  BY <1>1, TextIs
<1> QED BY <1>1, <1>2, <1>3, <1>4, <1>5, <1>6

LEMMA Before ==
    ASSUME TextInv, NEW l, Good(l), l.i # n \/ At(l.i) # "end"
    PROVE  l.i + 1 \in l.i .. n /\ l.i + 1 \in 0 .. n /\ l.i < l.i + 1 /\ l.i < n
<1>1. l.i < n /\ n \in Nat /\ l.i \in Nat
  BY CursorIs
<1> QED BY <1>1

LEMMA InterpAhead ==
    ASSUME TextInv, NEW l, Good(l), Interp(l.i)
    PROVE  l.i + 2 \in l.i .. n /\ At(l.i) = "$"
<1>1. At(l.i) = "$" /\ At(l.i + 1) = "{"
  BY CursorIs, Two DEF Interp
<1> QED BY <1>1, CursorIs

LEMMA ScanInString ==
    ASSUME TextInv, NEW l, Good(l), Top(l).mode = "STR"
    PROVE  Direct(l, scan_in_string(l))
<1> DEFINE i == l.i
<1>0. n \in Nat /\ i \in Nat /\ i \in i .. n /\ i \in 0 .. n
  BY CursorIs
<1>a. Interp(i) => At(i) = "$"
  BY InterpAhead
<1>1. CASE At(i) \in {"end", "nl"}
  <2>1. scan_in_string(l) = Unterminated(l)
    BY <1>1, <1>a DEF scan_in_string
  <2>3. scan_in_string(l) = EmitPop(Report(l, "UNTERMINATED_STRING", Top(l).open_at), "STR_END", i)
    BY <2>1 DEF Unterminated
  <2>2. "UNTERMINATED_STRING" \in Codes
    BY DEF Codes
  <2> QED BY <1>0, <2>2, <2>3, CutOff
<1>2. CASE At(i) = "quote"
  <2>1. scan_in_string(l) = EmitPop(l, "STR_END", i + 1)
    BY <1>2, <1>a DEF scan_in_string
  <2>2. i + 1 \in i .. n /\ i < i + 1
    BY <1>2, CursorIs
  <2>3. "STR_END" \in Kinds /\ Closes(Top(l), "STR_END", i + 1)
    BY DEF Kinds, Closes
  <2> HIDE DEF i
  <2> QED BY <1>2, <2>1, <2>2, <2>3, EmitCloses DEF i
<1>3. CASE Interp(i)
  <2>1. i + 2 \in i .. n /\ i < i + 2 /\ At(i) = "$"
    BY <1>3, InterpAhead, CursorIs
  <2>2. scan_in_string(l) = EmitPush(l, "INTERP_START", i + 2, "NORMAL", "INTERP_END")
    BY <1>3, <2>1 DEF scan_in_string
  <2>3. "INTERP_START" \in Kinds
    BY DEF Kinds
  <2> HIDE DEF i
  <2> QED BY <2>1, <2>2, <2>3, EmitEnters DEF i
<1>4. CASE At(i) \notin {"end", "nl", "quote"} /\ ~ Interp(i)
  <2>1. scan_in_string(l) = Emit(l, "STR_TEXT", StringText[i])
    BY <1>4 DEF scan_in_string
  <2>2. ~ StopsText(i)
    BY <1>0, <1>4, CursorIs DEF StopsText
  <2>3. StringText[i] \in i + 1 .. n
    BY <1>0, <2>2, StringTextEnds
  <2> DEFINE e == StringText[i]
  <2>4. e \in i .. n /\ i < e
    BY <1>0, <2>3
  <2>5. "STR_TEXT" \in Kinds /\ Ordinary(Top(l).mode, "STR_TEXT")
    BY DEF Kinds, Structure, None, Ordinary
  <2> HIDE DEF e, i
  <2> QED BY <2>1, <2>4, <2>5, EmitPlain DEF e, i
<1> QED BY <1>1, <1>2, <1>3, <1>4

-----------------------------------------------------------------------------
(* Content.                                                                  *)

LEMMA Unclosing ==
    ASSUME TextInv, NEW l, Good(l), Top(l).mode \in {"TAG", "CONTENT"}, l.i = n
    PROVE  Direct(l, Unclosed(l))
<1>1. Unclosed(l) = EmitPop(Report(l, "UNCLOSED_ELEMENT", Top(l).open_at), "EOF", n)
  BY DEF Unclosed
<1>2. "UNCLOSED_ELEMENT" \in Codes /\ n \in l.i .. n
  BY CursorIs DEF Codes
<1> QED BY <1>1, <1>2, CutOff

LEMMA MarkupComment ==
    ASSUME TextInv, NEW l, Good(l), Top(l).mode = "CONTENT", looking_at(l.i, <<"<", "!", "-", "-">>)
    PROVE  Direct(l, scan_markup_comment(l))
<1> DEFINE i == l.i
           e == MarkupCommentEnd(i + 4)
<1>0. n \in Nat /\ i \in Nat
  BY CursorIs
<1>1. i + 4 \in 0 .. n
  <2>1. At(i + 3) = "-"
    BY <1>0, Four
  <2> QED BY <1>0, <2>1, CursorIs
<1>2. e \in i + 4 .. n /\ (e = n \/ e + 3 <= n)
  BY <1>1, MarkupCommentEnds
<1>3. "MARKUP_COMMENT" \in Kinds /\ Ordinary(Top(l).mode, "MARKUP_COMMENT")
  BY DEF Kinds, Structure, None, Ordinary
<1>4. CASE e = n
  <2>1. scan_markup_comment(l) = Emit(Report(l, "UNTERMINATED_MARKUP_COMMENT", i), "MARKUP_COMMENT", n)
    BY <1>4 DEF scan_markup_comment
  <2>2. n \in i .. n /\ i < n /\ "UNTERMINATED_MARKUP_COMMENT" \in Codes
    BY <1>0, <1>1 DEF Codes
  <2> QED BY <1>3, <2>1, <2>2, PlainAfterReport
<1>5. CASE e # n
  <2>1. scan_markup_comment(l) = Emit(l, "MARKUP_COMMENT", e + 3)
    BY <1>5 DEF scan_markup_comment
  <2>2. e + 3 \in i .. n /\ i < e + 3
    <3> HIDE DEF e
    <3> QED BY <1>0, <1>2, <1>5
  <2> HIDE DEF i, e
  <2> QED BY <1>3, <2>1, <2>2, EmitPlain DEF i
<1> QED BY <1>4, <1>5

LEMMA CloseTagStarts ==
    ASSUME TextInv, NEW l, Good(l), Top(l).mode = "CONTENT", l.i + 2 \in l.i .. n
    PROVE  LET f == [Top(l) EXCEPT !.mode = "TAG", !.close_tag = TRUE, !.named = FALSE]
           IN  Direct(l, [Emit(l, "TAG_CLOSE_START", l.i + 2) EXCEPT !.lx = SetTop(@, f)])
<1> DEFINE f == [Top(l) EXCEPT !.mode = "TAG", !.close_tag = TRUE, !.named = FALSE]
           q == Emit(l, "TAG_CLOSE_START", l.i + 2)
           m == SetTop(q.lx, f)
           r == [q EXCEPT !.lx = m]
           t == Tok("TAG_CLOSE_START", l.i, l.i + 2, Top(l).mode)
<1>0. n \in Nat /\ l.i \in Nat /\ "TAG_CLOSE_START" \in Kinds /\ l.i < l.i + 2
  BY CursorIs DEF Kinds
<1>1. Gives(l, q, "TAG_CLOSE_START", l.i + 2) /\ Same(l, q.lx)
  BY <1>0, EmitIs
<1>2. q = [lx |-> q.lx, t |-> q.t]
  BY DEF Emit
<1>3. f \in FrameSet
  BY GoodStack DEF FrameSet, Modes
<1> HIDE DEF q, f
<1>4. q.lx \in LexerSet /\ q.lx.i \in 0 .. n /\ q.lx.stack = l.stack /\ q.lx.depth_reported = l.depth_reported
  BY <1>0, <1>1 DEF Gives, Goes, Same
<1>5. Len(q.lx.stack) >= 1
  BY <1>4, GoodStack
<1>6. Goes(q.lx, m) /\ m.i = q.lx.i /\ Turns(q.lx, m, f)
  BY <1>3, <1>4, <1>5, SetTopIs
<1> HIDE DEF m
<1>7. r.lx = m /\ r.t = q.t /\ Pair(r)
  BY <1>2 DEF Pair
<1> HIDE DEF r
<1>8. Goes(l, r.lx)
  BY <1>0, <1>1, <1>6, <1>7, GoesOn DEF Gives
<1>9. Gives(l, r, "TAG_CLOSE_START", l.i + 2) /\ Turns(l, r.lx, f)
  BY <1>1, <1>4, <1>6, <1>7, <1>8 DEF Gives, Turns
<1>10. t.kind = "TAG_CLOSE_START"
  BY TokIs
<1> HIDE DEF t
<1>11. Levels(l, r.lx, Top(l), t)
  BY <1>9, <1>10 DEF Levels, Becoming, f
<1>12. Tells(r.lx, Top(l), t)
  BY <1>10 DEF Tells
<1>13. Direct(l, r)
  BY <1>0, <1>9, <1>11, <1>12, GivesDirect DEF t, None
<1> QED BY <1>13 DEF r, m, q, f

LEMMA ScanInContent ==
    ASSUME TextInv, NEW l, Good(l), Top(l).mode = "CONTENT"
    PROVE  Direct(l, scan_in_content(l))
<1> DEFINE i == l.i
           Comment4 == looking_at(i, <<"<", "!", "-", "-">>)
           Close2 == looking_at(i, <<"<", "/">>)
           Open2 == At(i) = "<" /\ is_word(i + 1)
<1>0. n \in Nat /\ i \in Nat /\ i \in i .. n /\ i \in 0 .. n
  BY CursorIs
<1>a. Comment4 => At(i) = "<" /\ At(i + 1) = "!"
  BY <1>0, Four
<1>b. Close2 <=> At(i) = "<" /\ At(i + 1) = "/"
  BY <1>0, Two
<1>c. Interp(i) => At(i) = "$"
  BY InterpAhead
<1>d. i = n => At(i) = "end"
  BY <1>0, TextIs
<1>e. is_word(i + 1) <=> At(i + 1) = "a"
  BY DEF is_word
<1>1. CASE i = n
  <2>1. scan_in_content(l) = Unclosed(l)
    BY <1>1, <1>a, <1>b, <1>c, <1>d DEF scan_in_content
  <2> QED BY <1>1, <2>1, Unclosing
<1>2. CASE Comment4
  <2>1. scan_in_content(l) = scan_markup_comment(l)
    BY <1>2, <1>a, <1>b, <1>c, <1>d, <1>e DEF scan_in_content
  <2> QED BY <1>2, <2>1, MarkupComment
<1>3. CASE Close2
  <2>1. scan_in_content(l) = [Emit(l, "TAG_CLOSE_START", i + 2) EXCEPT
                  !.lx = SetTop(@, [Top(l) EXCEPT !.mode = "TAG", !.close_tag = TRUE, !.named = FALSE])]
    BY <1>3, <1>a, <1>b, <1>c, <1>d, <1>e DEF scan_in_content
  <2>2. i + 2 \in i .. n
    BY <1>3, <1>b, CursorIs
  <2> QED BY <2>1, <2>2, CloseTagStarts
<1>4. CASE Open2
  <2>1. scan_in_content(l) = EmitPush(l, "MARKUP_START", i + 1, "TAG", "EOF")
    BY <1>4, <1>a, <1>b, <1>c, <1>d, <1>e DEF scan_in_content
  <2>2. i + 1 \in i .. n /\ i < i + 1 /\ "MARKUP_START" \in Kinds
    BY <1>0, <1>4, CursorIs DEF Kinds
  <2> HIDE DEF i
  <2> QED BY <2>1, <2>2, EmitEnters DEF i
<1>5. CASE Interp(i)
  <2>1. scan_in_content(l) = EmitPush(l, "INTERP_START", i + 2, "NORMAL", "INTERP_END")
    BY <1>5, <1>a, <1>b, <1>c, <1>d, <1>e DEF scan_in_content
  <2>2. i + 2 \in i .. n /\ i < i + 2 /\ "INTERP_START" \in Kinds
    BY <1>0, <1>5, InterpAhead DEF Kinds
  <2> HIDE DEF i
  <2> QED BY <2>1, <2>2, EmitEnters DEF i
<1>6. CASE At(i) = "{"
  <2>1. scan_in_content(l) = EmitPush(l, "CTRL_START", i + 1, "NORMAL", "CTRL_END")
    BY <1>6, <1>a, <1>b, <1>c, <1>d, <1>e DEF scan_in_content
  <2>2. i + 1 \in i .. n /\ i < i + 1
    BY <1>6, Before
  <2>3. "CTRL_START" \in Kinds
    BY DEF Kinds
  <2> HIDE DEF i
  <2> QED BY <2>1, <2>2, <2>3, EmitEnters DEF i
<1>7. CASE ~ (i = n \/ Comment4 \/ Close2 \/ Open2 \/ Interp(i) \/ At(i) = "{")
  <2> DEFINE e == ContentEnd(i + 1)
  <2>1. scan_in_content(l) = Emit(l, "MARKUP_TEXT", e)
    BY <1>7 DEF scan_in_content
  <2>2. i + 1 \in 0 .. n
    BY <1>7, Before
  <2>3. e \in i + 1 .. n
    BY <2>2, ContentEnds
  <2> HIDE DEF e
  <2>4. e \in i .. n /\ i < e
    BY <1>0, <2>3
  <2>5. "MARKUP_TEXT" \in Kinds /\ Ordinary(Top(l).mode, "MARKUP_TEXT")
    BY DEF Kinds, Structure, None, Ordinary
  <2> HIDE DEF i
  <2> QED BY <2>1, <2>4, <2>5, EmitPlain DEF i
<1> HIDE DEF i, Comment4, Close2, Open2
<1> QED BY <1>1, <1>2, <1>3, <1>4, <1>5, <1>6, <1>7

(* The token that turns a level f into g.                                    *)
TurnTo(k, f, g) ==
    \/ k = "LBRACE" /\ f.mode = "NORMAL" /\ g = [f EXCEPT !.depth = f.depth + 1]
    \/ k = "RBRACE" /\ f.mode = "NORMAL" /\ f.depth > 0 /\ g = [f EXCEPT !.depth = f.depth - 1]
    \/ k = "TAG_END" /\ f.mode = "TAG" /\ ~ f.close_tag /\ g = [f EXCEPT !.mode = "CONTENT"]
    \/ Ordinary(f.mode, k) /\ f.mode = "TAG" /\ g = [f EXCEPT !.named = TRUE]

LEMMA TurnIsBecoming ==
    ASSUME NEW l, NEW m, NEW t, NEW g, TurnTo(t.kind, Top(l), g), Turns(l, m, g)
    PROVE  Levels(l, m, Top(l), t) /\ Tells(m, Top(l), t) /\ t.kind \notin {None, "NEWLINE", "EOF", "STR_END"}
<1>1. Becoming(l, m, Top(l), t)
  BY DEF TurnTo, Becoming
<1>2. t.kind \notin {None, "NEWLINE", "EOF", "STR_END"}
  BY DEF TurnTo, Structure, None, Ordinary
<1> QED BY <1>1, <1>2 DEF Levels, Tells

LEMMA EmitTurns ==
    ASSUME TextInv, NEW l, Good(l), NEW k \in Kinds, NEW e \in l.i .. n, l.i < e,
           NEW g \in FrameSet, TurnTo(k, Top(l), g)
    PROVE  Direct(l, [Emit(l, k, e) EXCEPT !.lx = SetTop(@, g)])
<1> DEFINE q == Emit(l, k, e)
           m == SetTop(q.lx, g)
           r == [q EXCEPT !.lx = m]
           t == Tok(k, l.i, e, Top(l).mode)
<1>0. n \in Nat /\ l.i \in Nat
  BY CursorIs
<1>1. Gives(l, q, k, e) /\ Same(l, q.lx)
  BY EmitIs
<1>2. q = [lx |-> q.lx, t |-> q.t]
  BY DEF Emit
<1> HIDE DEF q
<1>4. q.lx \in LexerSet /\ q.lx.i \in 0 .. n /\ q.lx.stack = l.stack /\ q.lx.depth_reported = l.depth_reported
  BY <1>0, <1>1 DEF Gives, Goes, Same
<1>5. Len(q.lx.stack) >= 1
  BY <1>4, GoodStack
<1>6. Goes(q.lx, m) /\ m.i = q.lx.i /\ Turns(q.lx, m, g)
  BY <1>4, <1>5, SetTopIs
<1> HIDE DEF m
<1>7. r.lx = m /\ r.t = q.t /\ Pair(r)
  BY <1>2 DEF Pair
<1> HIDE DEF r
<1>8. Goes(l, r.lx)
  BY <1>0, <1>1, <1>6, <1>7, GoesOn DEF Gives
<1>9. Gives(l, r, k, e) /\ Turns(l, r.lx, g)
  BY <1>1, <1>4, <1>6, <1>7, <1>8 DEF Gives, Turns
<1>10. t.kind = k
  BY TokIs
<1> HIDE DEF t
<1>11. Levels(l, r.lx, Top(l), t) /\ Tells(r.lx, Top(l), t) /\ k \notin {None, "NEWLINE", "EOF"}
  BY <1>9, <1>10, TurnIsBecoming
<1>13. Direct(l, r)
  BY <1>9, <1>11, GivesDirect DEF t
<1> QED BY <1>13 DEF r, m, q

LEMMA PlainThenReport ==
    ASSUME TextInv, NEW l, Good(l), NEW k \in Kinds, NEW e \in l.i .. n, l.i < e,
           Ordinary(Top(l).mode, k), NEW code \in Codes
    PROVE  Direct(l, [Emit(l, k, e) EXCEPT !.lx = Report(@, code, l.i)])
<1> DEFINE q == Emit(l, k, e)
           o == q.lx
           m == Report(o, code, l.i)
           r == [q EXCEPT !.lx = m]
           t == Tok(k, l.i, e, Top(l).mode)
<1>0. n \in Nat /\ l.i \in Nat /\ e \in Nat /\ l.i <= e /\ e \in 0 .. n
  BY CursorIs
<1>1. Gives(l, q, k, e) /\ Same(l, q.lx)
  BY EmitIs
<1>2. q = [lx |-> q.lx, t |-> q.t]
  BY DEF Emit
<1> HIDE DEF q
<1>3. Good(o)
  <2>1. o \in LexerSet /\ o.i = e /\ o.stack = l.stack
    BY <1>1 DEF Gives, Goes, Same
  <2>2. Bounded(l.stack, l.i)
    BY DEF Good
  <2>3. Bounded(l.stack, e)
    <3>1. \A f : Lies(f, l.i) => Lies(f, e)
      <4> SUFFICES ASSUME NEW f, Lies(f, l.i) PROVE Lies(f, e)
        OBVIOUS
      <4>1. f.open_at \in Nat /\ f.depth \in Nat
        BY <1>0 DEF Lies, FrameSet, Positions
      <4> QED BY <1>0, <4>1 DEF Lies
    <3> QED BY <2>2, <3>1, Zenon DEF Bounded
  <2> QED BY <1>0, <2>1, <2>3 DEF Good
<1>4. Goes(o, m) /\ m.i = o.i /\ Same(o, m)
  BY <1>0, <1>3, ReportIs
<1> HIDE DEF m
<1>5. r.lx = m /\ r.t = q.t /\ Pair(r)
  BY <1>2 DEF Pair
<1>6. t.kind = k
  BY TokIs
<1> HIDE DEF r, t
<1>7. Goes(l, r.lx)
  BY <1>0, <1>1, <1>4, <1>5, GoesOn DEF Gives
<1>8. Gives(l, r, k, e) /\ Same(l, r.lx)
  BY <1>1, <1>4, <1>5, <1>7 DEF Gives, Same
<1>9. Levels(l, r.lx, Top(l), t)
  BY <1>6, <1>8 DEF Levels, Staying
<1>10. Tells(r.lx, Top(l), t)
  BY <1>6 DEF Tells, Structure, Ordinary
<1>k. k \notin {None, "NEWLINE"}
  BY DEF Ordinary
<1>11. Direct(l, r)
  BY <1>8, <1>k, <1>9, <1>10, GivesDirect DEF t
<1> QED BY <1>11 DEF r, m, q

-----------------------------------------------------------------------------
(* Tags.                                                                     *)

(* The name at the cursor, up to e.                                          *)
NameToken(l, e) ==
    IF Top(l).named THEN Emit(l, "ATTR_NAME", e)
    ELSE [Emit(l, "TAG_NAME", e)
            EXCEPT !.lx = IF is_word(l.i) THEN SetTop(@, [Top(l) EXCEPT !.named = TRUE]) ELSE @]

LEMMA NamePlain ==
    ASSUME NEW l, NEW e, ~ is_word(l.i)
    PROVE  NameToken(l, e) = Emit(l, IF Top(l).named THEN "ATTR_NAME" ELSE "TAG_NAME", e)
<1>1. CASE Top(l).named
  BY <1>1 DEF NameToken
<1>2. CASE ~ Top(l).named
  <2> DEFINE q == Emit(l, "TAG_NAME", e)
  <2>1. q = [lx |-> q.lx, t |-> q.t]
    BY DEF Emit
  <2>2. NameToken(l, e) = [q EXCEPT !.lx = q.lx]
    BY <1>2 DEF NameToken
  <2> HIDE DEF q
  <2>3. NameToken(l, e) = q
    BY <2>1, <2>2
  <2> QED BY <1>2, <2>3 DEF q
<1> QED BY <1>1, <1>2

LEMMA NameIsDirect ==
    ASSUME TextInv, NEW l, Good(l), Top(l).mode = "TAG", is_word(l.i),
           NEW e \in l.i .. n, l.i < e
    PROVE  Direct(l, NameToken(l, e))
<1>0. /\ "ATTR_NAME" \in Kinds /\ Ordinary(Top(l).mode, "ATTR_NAME")
      /\ "TAG_NAME" \in Kinds /\ Ordinary(Top(l).mode, "TAG_NAME")
  BY DEF Kinds, Structure, None, Ordinary
<1>1. CASE Top(l).named
  <2>1. NameToken(l, e) = Emit(l, "ATTR_NAME", e)
    BY <1>1 DEF NameToken
  <2> QED BY <1>0, <2>1, EmitPlain
<1>2. CASE ~ Top(l).named
  <2> DEFINE g == [Top(l) EXCEPT !.named = TRUE]
  <2>1. NameToken(l, e) = [Emit(l, "TAG_NAME", e) EXCEPT !.lx = SetTop(@, g)]
    BY <1>2 DEF NameToken
  <2>2. g \in FrameSet
    BY GoodStack DEF FrameSet
  <2>3. TurnTo("TAG_NAME", Top(l), g)
    BY <1>0 DEF TurnTo
  <2> HIDE DEF g
  <2> QED BY <1>0, <2>1, <2>2, <2>3, EmitTurns
<1> QED BY <1>1, <1>2

LEMMA TagTokenIs ==
    ASSUME TextInv, NEW l, Good(l), Top(l).mode = "TAG"
    PROVE  Direct(l, TagToken(l))
<1> DEFINE i == l.i
           f == Top(l)
           SelfClose == looking_at(i, <<"/", ">">>)
           Dots == looking_at(i, <<".", ".", ".">>)
           Odds == NameToken(l, i + 1)
           code == IF f.named THEN "MALFORMED_ATTR_NAME" ELSE "MALFORMED_TAG_NAME"
<1>0. n \in Nat /\ i \in Nat /\ i \in i .. n /\ i \in 0 .. n
  BY CursorIs
<1>a. SelfClose => At(i) = "/" /\ At(i + 1) = ">"
  BY <1>0, Two
<1>b. Dots => At(i) = "." /\ At(i + 2) = "."
  BY <1>0, Three
<1>c. Interp(i) => At(i) = "$"
  BY InterpAhead
<1>d. i = n => At(i) = "end"
  BY <1>0, TextIs
<1>e. is_word(i) <=> At(i) = "a"
  BY DEF is_word
<1> DEFINE T == TagToken(l)
<1>f. T = CASE i = n -> Unclosed(l)
          [] SelfClose -> EmitPop(l, "TAG_SELF_CLOSE", i + 2)
          [] At(i) = ">" ->
               IF f.close_tag THEN EmitPop(l, "TAG_END", i + 1)
               ELSE [Emit(l, "TAG_END", i + 1) EXCEPT !.lx = SetTop(@, [f EXCEPT !.mode = "CONTENT"])]
          [] Dots -> Emit(l, "ELLIPSIS", i + 3)
          [] At(i) = "=" -> Emit(l, "ATTR_EQ", i + 1)
          [] At(i) = "quote" -> EmitPush(l, "STR_START", i + 1, "STR", "EOF")
          [] Interp(i) -> EmitPush(l, "INTERP_START", i + 2, "NORMAL", "INTERP_END")
          [] is_word(i) -> NameToken(l, NameEnd(i))
          [] OTHER -> [Odds EXCEPT !.lx = Report(@, code, i)]
  BY DEF TagToken, NameToken
<1> HIDE DEF T
<1>1. CASE i = n
  <2>1. T = Unclosed(l)
    BY <1>1, <1>a, <1>b, <1>c, <1>d, <1>e, <1>f
  <2> QED BY <1>1, <2>1, Unclosing DEF T
<1>2. CASE SelfClose
  <2>1. T = EmitPop(l, "TAG_SELF_CLOSE", i + 2)
    BY <1>2, <1>a, <1>b, <1>c, <1>d, <1>e, <1>f
  <2>2. i + 2 \in i .. n /\ i < i + 2
    BY <1>0, <1>2, <1>a, CursorIs
  <2>3. "TAG_SELF_CLOSE" \in Kinds /\ Closes(f, "TAG_SELF_CLOSE", i + 2)
    BY DEF Kinds, Closes
  <2> HIDE DEF i
  <2> QED BY <2>1, <2>2, <2>3, EmitCloses DEF i, T
<1>3. CASE At(i) = ">" /\ f.close_tag
  <2>1. T = EmitPop(l, "TAG_END", i + 1)
    BY <1>3, <1>a, <1>b, <1>c, <1>d, <1>e, <1>f
  <2>2. i + 1 \in i .. n /\ i < i + 1
    BY <1>3, Before
  <2>3. "TAG_END" \in Kinds /\ Closes(f, "TAG_END", i + 1)
    BY <1>3 DEF Kinds, Closes
  <2> HIDE DEF i
  <2> QED BY <2>1, <2>2, <2>3, EmitCloses DEF i, T
<1>4. CASE At(i) = ">" /\ ~ f.close_tag
  <2> DEFINE g == [f EXCEPT !.mode = "CONTENT"]
  <2>1. T = [Emit(l, "TAG_END", i + 1) EXCEPT !.lx = SetTop(@, g)]
    BY <1>4, <1>a, <1>b, <1>c, <1>d, <1>e, <1>f
  <2>2. i + 1 \in i .. n /\ i < i + 1
    BY <1>4, Before
  <2>3. g \in FrameSet
    BY GoodStack DEF FrameSet, Modes
  <2>4. TurnTo("TAG_END", f, g) /\ "TAG_END" \in Kinds
    BY <1>4 DEF TurnTo, Kinds
  <2> HIDE DEF i, g
  <2> QED BY <2>1, <2>2, <2>3, <2>4, EmitTurns DEF i, T
<1>5. CASE Dots
  <2>1. T = Emit(l, "ELLIPSIS", i + 3)
    BY <1>5, <1>a, <1>b, <1>c, <1>d, <1>e, <1>f
  <2>2. i + 3 \in i .. n /\ i < i + 3
    BY <1>0, <1>5, <1>b, CursorIs
  <2>3. "ELLIPSIS" \in Kinds /\ Ordinary(Top(l).mode, "ELLIPSIS")
    BY DEF Kinds, Structure, None, Ordinary
  <2> HIDE DEF i
  <2> QED BY <2>1, <2>2, <2>3, EmitPlain DEF i, T
<1>6. CASE At(i) = "="
  <2>1. T = Emit(l, "ATTR_EQ", i + 1)
    BY <1>6, <1>a, <1>b, <1>c, <1>d, <1>e, <1>f
  <2>2. i + 1 \in i .. n /\ i < i + 1
    BY <1>6, Before
  <2>3. "ATTR_EQ" \in Kinds /\ Ordinary(Top(l).mode, "ATTR_EQ")
    BY DEF Kinds, Structure, None, Ordinary
  <2> HIDE DEF i
  <2> QED BY <2>1, <2>2, <2>3, EmitPlain DEF i, T
<1>7. CASE At(i) = "quote"
  <2>1. T = EmitPush(l, "STR_START", i + 1, "STR", "EOF")
    BY <1>7, <1>a, <1>b, <1>c, <1>d, <1>e, <1>f
  <2>2. i + 1 \in i .. n /\ i < i + 1
    BY <1>7, Before
  <2>3. "STR_START" \in Kinds
    BY DEF Kinds
  <2> HIDE DEF i
  <2> QED BY <2>1, <2>2, <2>3, EmitEnters DEF i, T
<1>8. CASE Interp(i)
  <2>1. T = EmitPush(l, "INTERP_START", i + 2, "NORMAL", "INTERP_END")
    BY <1>8, <1>a, <1>b, <1>c, <1>d, <1>e, <1>f
  <2>2. i + 2 \in i .. n /\ i < i + 2
    BY <1>0, <1>8, InterpAhead
  <2>3. "INTERP_START" \in Kinds
    BY DEF Kinds
  <2> HIDE DEF i
  <2> QED BY <2>1, <2>2, <2>3, EmitEnters DEF i, T
<1>9. CASE is_word(i)
  <2>1. T = NameToken(l, NameEnd(i))
    BY <1>9, <1>a, <1>b, <1>c, <1>d, <1>e, <1>f
  <2>2. NameEnd(i) \in i + 1 .. n
    BY <1>0, <1>9, NameEnds
  <2> DEFINE e == NameEnd(i)
  <2>3. e \in i .. n /\ i < e
    BY <1>0, <2>2
  <2> HIDE DEF e
  <2> QED BY <1>9, <2>1, <2>3, NameIsDirect DEF T, e
<1>10. CASE ~ (\/ i = n \/ SelfClose \/ At(i) = ">" \/ Dots \/ At(i) = "=" \/ At(i) = "quote"
               \/ Interp(i) \/ is_word(i))
  <2> DEFINE k == IF f.named THEN "ATTR_NAME" ELSE "TAG_NAME"
  <2>1. T = [Odds EXCEPT !.lx = Report(@, code, i)]
    BY <1>10, <1>f
  <2>2. Odds = Emit(l, k, i + 1)
    BY <1>10, NamePlain
  <2>3. i + 1 \in i .. n /\ i < i + 1
    BY <1>10, Before
  <2>4. k \in Kinds /\ Ordinary(Top(l).mode, k)
    BY DEF Kinds, Structure, None, Ordinary
  <2>5. code \in Codes
    BY DEF Codes
  <2> HIDE DEF code, k, Odds, i
  <2>6. T = [Emit(l, k, i + 1) EXCEPT !.lx = Report(@, code, i)]
    BY <2>1, <2>2
  <2> QED BY <2>3, <2>4, <2>5, <2>6, PlainThenReport DEF i, T
<1> HIDE DEF i, f, SelfClose, Dots
<1> QED BY <1>1, <1>2, <1>3, <1>4, <1>5, <1>6, <1>7, <1>8, <1>9, <1>10 DEF T

-----------------------------------------------------------------------------
(* Normal tokens.                                                            *)

LEMMA SetThenEmit ==
    ASSUME TextInv, NEW l, Good(l), NEW k, NEW e, NEW g \in FrameSet, g.mode = Top(l).mode
    PROVE  Emit(SetTop(l, g), k, e) = [Emit(l, k, e) EXCEPT !.lx = SetTop(@, g)]
<1> DEFINE st == [l.stack EXCEPT ![Len(l.stack)] = g]
           o == SetTop(l, g)
           m == [l EXCEPT !.i = e]
           q == Emit(l, k, e)
<1>0. l \in LexerSet /\ Len(l.stack) \in Nat /\ Len(l.stack) >= 1 /\ l.stack \in Seq(FrameSet)
  BY GoodStack DEF Good
<1>1. o = [l EXCEPT !.stack = st]
  BY DEF SetTop
<1>2. st[Len(l.stack)] = g /\ Len(st) = Len(l.stack)
  BY <1>0
<1>3. m.stack = l.stack
  BY <1>0 DEF LexerSet
<1>4. SetTop(m, g) = [m EXCEPT !.stack = st]
  BY <1>3 DEF SetTop
<1> HIDE DEF st, o
<1>5. o.stack = st /\ o.i = l.i
  BY <1>0, <1>1 DEF LexerSet
<1>6. Top(o) = g
  BY <1>2, <1>5 DEF Top, Last
<1>7. [o EXCEPT !.i = e] = [m EXCEPT !.stack = st]
  BY <1>0, <1>1 DEF LexerSet
<1>8. Emit(o, k, e) = [lx |-> [o EXCEPT !.i = e], t |-> Tok(k, l.i, e, g.mode)]
  BY <1>5, <1>6 DEF Emit
<1>9. q = [lx |-> m, t |-> Tok(k, l.i, e, g.mode)]
  BY DEF Emit
<1> HIDE DEF m, q
<1>10. [q EXCEPT !.lx = SetTop(q.lx, g)] = [lx |-> SetTop(m, g), t |-> Tok(k, l.i, e, g.mode)]
  BY <1>9
<1> QED BY <1>4, <1>7, <1>8, <1>10 DEF o, q

LEMMA RawString ==
    ASSUME TextInv, NEW l, Good(l), Top(l).mode = "NORMAL", At(l.i) = "bt"
    PROVE  Direct(l, scan_raw_string(l))
<1> DEFINE i == l.i
           q == RawEnd(i + 1)
<1>0. n \in Nat /\ i \in Nat /\ i + 1 \in 0 .. n /\ i < n
  BY Before, CursorIs
<1>1. q \in i + 1 .. n
  BY <1>0, RawEnds
<1>2. "RAW_STR" \in Kinds /\ Ordinary(Top(l).mode, "RAW_STR")
  BY DEF Kinds, Structure, None, Ordinary
<1> HIDE DEF q
<1>3. CASE q = n
  <2>1. scan_raw_string(l) = Emit(Report(l, "UNTERMINATED_RAW_STRING", i), "RAW_STR", n)
    BY <1>3 DEF scan_raw_string, q
  <2>2. n \in i .. n /\ i < n /\ "UNTERMINATED_RAW_STRING" \in Codes
    BY <1>0 DEF Codes
  <2> QED BY <1>2, <2>1, <2>2, PlainAfterReport
<1>4. CASE q # n
  <2>1. scan_raw_string(l) = Emit(l, "RAW_STR", q + 1)
    BY <1>4 DEF scan_raw_string, q
  <2>2. q + 1 \in i .. n /\ i < q + 1
    BY <1>0, <1>1, <1>4
  <2> HIDE DEF i
  <2> QED BY <1>2, <2>1, <2>2, EmitPlain DEF i
<1> QED BY <1>3, <1>4

LEMMA RightBraceIs ==
    ASSUME TextInv, NEW l, Good(l), Top(l).mode = "NORMAL", l.i # n
    PROVE  Direct(l, RightBrace(l))
<1> DEFINE i == l.i
           f == Top(l)
           r == RightBrace(l)
<1>0. i + 1 \in i .. n /\ i < i + 1
  BY Before
<1>1. f \in FrameSet /\ f.depth \in Nat /\ f.depth \in 0 .. n /\ f.close \in {"EOF", "INTERP_END", "CTRL_END"} /\ n \in Nat
  <2>1. f \in FrameSet
    BY GoodStack
  <2>2. n \in Nat
    BY TextIs
  <2> HIDE DEF f
  <2> QED BY <2>1, <2>2 DEF FrameSet, Positions
<1>2. "RBRACE" \in Kinds
  BY DEF Kinds
<1>3. CASE f.depth > 0
  <2> DEFINE g == [f EXCEPT !.depth = f.depth - 1]
  <2>1. g \in FrameSet /\ g.mode = f.mode
    <3>1. f.depth - 1 \in Positions
      BY <1>1, <1>3 DEF Positions
    <3> QED BY <1>1, <3>1 DEF FrameSet
  <2>2. TurnTo("RBRACE", f, g)
    BY <1>3 DEF TurnTo
  <2>3. r = Emit(SetTop(l, g), "RBRACE", i + 1)
    BY <1>3 DEF RightBrace
  <2> HIDE DEF g, r, i
  <2>4. r = [Emit(l, "RBRACE", i + 1) EXCEPT !.lx = SetTop(@, g)]
    BY <2>1, <2>3, SetThenEmit
  <2> QED BY <1>0, <1>2, <2>1, <2>2, <2>4, EmitTurns DEF i, r
<1>4. CASE f.depth = 0 /\ f.close # "EOF"
  <2>1. r = EmitPop(l, f.close, i + 1)
    BY <1>4 DEF RightBrace
  <2>2. f.close \in Kinds
    BY <1>1, <1>4 DEF Kinds
  <2>3. Closes(f, f.close, i + 1)
    BY <1>1, <1>4 DEF Closes
  <2> HIDE DEF r, i
  <2>4. f.close # "STR_END"
    BY <1>1
  <2> QED BY <1>0, <2>1, <2>2, <2>3, <2>4, EmitCloses DEF i, r
<1>5. CASE f.depth = 0 /\ f.close = "EOF"
  <2> DEFINE t == Tok("RBRACE", i, i + 1, f.mode)
  <2>1. r = Emit(l, "RBRACE", i + 1)
    BY <1>5 DEF RightBrace
  <2> HIDE DEF i, r
  <2>2. Gives(l, r, "RBRACE", i + 1) /\ Same(l, r.lx)
    BY <1>0, <1>2, <2>1, EmitIs DEF i
  <2>3. t.kind = "RBRACE"
    BY TokIs
  <2> HIDE DEF t
  <2>4. Levels(l, r.lx, f, t)
    BY <1>5, <2>2, <2>3 DEF Levels, Staying
  <2>5. Tells(r.lx, f, t)
    BY <2>3 DEF Tells
  <2>6. "RBRACE" \notin {None, "NEWLINE"}
    BY DEF None
  <2> QED BY <1>0, <2>2, <2>4, <2>5, <2>6, GivesDirect DEF t, i, r
<1> QED BY <1>1, <1>3, <1>4, <1>5

LEMMA LeftBraceIs ==
    ASSUME TextInv, NEW l, Good(l), Top(l).mode = "NORMAL", l.i # n
    PROVE  Direct(l, Emit(SetTop(l, [Top(l) EXCEPT !.depth = @ + 1]), "LBRACE", l.i + 1))
<1> DEFINE i == l.i
           f == Top(l)
           g == [f EXCEPT !.depth = f.depth + 1]
<1>0. i + 1 \in i .. n /\ i < i + 1 /\ i < n /\ n \in Nat /\ i \in Nat
  BY Before, CursorIs
<1>1. f \in FrameSet /\ f.depth \in Nat /\ f.depth <= i
  <2>1. f \in FrameSet /\ Lies(f, i)
    BY GoodStack
  <2> HIDE DEF f, i
  <2> QED BY <1>0, <2>1 DEF Lies, FrameSet, Positions
<1>2. "LBRACE" \in Kinds
  BY DEF Kinds
<1>3. g \in FrameSet /\ g.mode = f.mode
  <2>1. f.depth + 1 \in Positions
    BY <1>0, <1>1 DEF Positions
  <2> QED BY <1>1, <2>1 DEF FrameSet
<1>4. TurnTo("LBRACE", f, g)
  BY DEF TurnTo
<1> HIDE DEF g
<1>5. Emit(SetTop(l, g), "LBRACE", i + 1) = [Emit(l, "LBRACE", i + 1) EXCEPT !.lx = SetTop(@, g)]
  BY <1>3, SetThenEmit
<1> HIDE DEF i
<1>6. Direct(l, Emit(SetTop(l, g), "LBRACE", i + 1))
  BY <1>0, <1>2, <1>3, <1>4, <1>5, EmitTurns DEF i
<1> QED BY <1>6 DEF g, i

(* The end of the source where there are expressions.                        *)
LEMMA EndIs ==
    ASSUME TextInv, NEW l, Good(l), NEW o, Good(o), Goes(l, o), o.i = l.i, Same(l, o), Top(o) = Top(l),
           Top(l).mode = "NORMAL",
           Top(l).close \in {"EOF", "CTRL_END"} \/ <<"UNTERMINATED_INTERP", Top(l).open_at>> \in o.reports
    PROVE  Direct(l, Emit(o, "EOF", n))
<1> DEFINE r == Emit(o, "EOF", n)
           t == Tok("EOF", l.i, n, Top(l).mode)
<1>0. n \in Nat /\ l.i \in Nat /\ n \in l.i .. n /\ "EOF" \in Kinds
  <2>1. "EOF" \in Kinds
    BY DEF Kinds
  <2> QED BY <2>1, CursorIs
<1>1. Gives(o, r, "EOF", n) /\ Same(o, r.lx)
  <2>1. n \in o.i .. n
    BY <1>0
  <2> QED BY <1>0, <2>1, EmitIs
<1>2. t.kind = "EOF" /\ t.end = n
  BY TokIs
<1> HIDE DEF r, t
<1>3. Goes(l, r.lx)
  BY <1>0, <1>1, GoesOn DEF Gives
<1>4. Gives(l, r, "EOF", n) /\ Same(l, r.lx)
  BY <1>1, <1>3 DEF Gives, Same
<1>5. Levels(l, r.lx, Top(l), t)
  BY <1>2, <1>4 DEF Levels, Staying
<1>9. LevelCode(Top(l)) = "UNTERMINATED_INTERP"
  BY DEF LevelCode
<1>6. Tells(r.lx, Top(l), t)
  BY <1>1, <1>2, <1>9 DEF Tells, Gives, Goes
<1>7. "EOF" \notin {None, "NEWLINE"}
  BY DEF None
<1>8. Direct(l, r)
  BY <1>4, <1>5, <1>6, <1>7, GivesDirect DEF t
<1> QED BY <1>8 DEF r

LEMMA NormalEndIs ==
    ASSUME TextInv, NEW l, Good(l), Top(l).mode = "NORMAL", l.i = n
    PROVE  Direct(l, NormalEnd(l))
<1> DEFINE f == Top(l)
           o == Report(l, "UNTERMINATED_INTERP", f.open_at)
           q == <<"UNTERMINATED_INTERP", f.open_at>>
<1>0. n \in Nat /\ f \in FrameSet /\ f.open_at \in Nat /\ f.close \in {"EOF", "INTERP_END", "CTRL_END"}
  <2>1. f \in FrameSet
    BY GoodStack
  <2>2. n \in Nat
    BY TextIs
  <2> HIDE DEF f
  <2> QED BY <2>1, <2>2 DEF FrameSet, Positions
<1>1. CASE f.close = "INTERP_END"
  <2>1. NormalEnd(l) = Emit(o, "EOF", n)
    BY <1>1 DEF NormalEnd
  <2>2. "UNTERMINATED_INTERP" \in Codes
    BY DEF Codes
  <2>3. Good(o) /\ Goes(l, o) /\ o.i = l.i /\ Same(l, o) /\ q \in o.reports /\ Top(o) = f
    BY <1>0, <2>2, ReportIs
  <2>5. <<"UNTERMINATED_INTERP", f.open_at>> \in o.reports
    BY <2>3
  <2> HIDE DEF o, q, f
  <2> QED BY <2>1, <2>3, <2>5, EndIs DEF f
<1>2. CASE f.close # "INTERP_END"
  <2>1. NormalEnd(l) = Emit(l, "EOF", n)
    BY <1>2 DEF NormalEnd
  <2>2. Goes(l, l) /\ Same(l, l)
    BY CursorIs DEF Goes, Same, Good
  <2> QED BY <1>0, <1>2, <2>1, <2>2, EndIs
<1> QED BY <1>1, <1>2

(* The `<` of an element where an expression stands, which the parser opens. *)
LEMMA MarkupAheadIs ==
    ASSUME TextInv, NEW l, Good(l), Top(l).mode = "NORMAL", NEW e \in l.i .. n, l.i < e
    PROVE  Direct(l, Emit(l, "MARKUP_START", e))
<1> DEFINE r == Emit(l, "MARKUP_START", e)
           t == Tok("MARKUP_START", l.i, e, Top(l).mode)
<1>0. "MARKUP_START" \in Kinds /\ "MARKUP_START" \notin {None, "NEWLINE"}
  BY DEF Kinds, None
<1>1. Gives(l, r, "MARKUP_START", e) /\ Same(l, r.lx)
  BY <1>0, EmitIs
<1>2. t.kind = "MARKUP_START"
  BY TokIs
<1> HIDE DEF r, t
<1>3. Levels(l, r.lx, Top(l), t)
  BY <1>1, <1>2 DEF Levels, Staying
<1>4. Tells(r.lx, Top(l), t)
  BY <1>2 DEF Tells
<1>5. Direct(l, r)
  BY <1>0, <1>1, <1>3, <1>4, GivesDirect DEF t
<1> QED BY <1>5 DEF r

LEMMA CharsArePlain ==
    ASSUME NEW c \in Chars
    PROVE  c \in Kinds /\ Ordinary("NORMAL", c)
<1>1. c \in Kinds
  BY DEF Kinds
<1>2. c \notin Structure \cup {None, "NEWLINE"}
  BY Zenon DEF Chars, Structure, None
<1>3. c \notin {"STR_TEXT", "TAG_NAME", "ATTR_NAME", "ATTR_EQ", "ELLIPSIS", "MARKUP_TEXT", "MARKUP_COMMENT"}
  BY Zenon DEF Chars
<1>4. "NORMAL" \notin {"STR", "TAG", "CONTENT"}
  OBVIOUS
<1> QED BY <1>1, <1>2, <1>3, <1>4 DEF Ordinary

LEMMA NormalTokenIs ==
    ASSUME TextInv, NEW l, Good(l), Top(l).mode = "NORMAL"
    PROVE  Direct(l, NormalToken(l))
<1> DEFINE i == l.i
           c == At(i)
           T == NormalToken(l)
           Left == c = "{"
           Right == c = "}"
           Assigns == c \in Binary \cup {"<"} /\ At(i + 1) = "="
           Arrow == looking_at(i, <<"-", ">">>)
           Fat == looking_at(i, <<"=", ">">>)
           Less == c = "<" /\ At(i + 1) # "="
           Deep == Emit(SetTop(l, [Top(l) EXCEPT !.depth = @ + 1]), "LBRACE", i + 1)
           Angle == IF markup_ahead(i) THEN "MARKUP_START" ELSE "LT"
<1>0. n \in Nat /\ i \in Nat /\ i \in i .. n /\ i \in 0 .. n
  BY CursorIs
<1>a. Arrow => c = "-" /\ At(i + 1) = ">"
  BY <1>0, Two
<1>b. Fat => c = "=" /\ At(i + 1) = ">"
  BY <1>0, Two
<1>c. Left => c \notin {"a", "end", "quote", "bt", "-", "=", "<"} /\ ~ Right /\ ~ Assigns
  BY Zenon DEF Binary
<1>d. Right => c \notin {"a", "end", "quote", "bt", "-", "=", "<"} /\ ~ Left /\ ~ Assigns
  BY Zenon DEF Binary
<1>e. i = n => c = "end"
  BY <1>0, TextIs
<1>f. is_word(i) <=> c = "a"
  BY DEF is_word
<1>g. Assigns => c \notin {"a", "end", "quote", "bt"} /\ At(i + 1) = "="
  BY DEF Binary
<1>h. Less => c = "<" /\ At(i + 1) # "="
  OBVIOUS
<1>t. T = CASE i = n -> NormalEnd(l)
          [] is_word(i) -> Emit(l, "IDENT", WordEnd(i))
          [] c = "quote" -> EmitPush(l, "STR_START", i + 1, "STR", "EOF")
          [] c = "bt" -> scan_raw_string(l)
          [] Left -> Deep
          [] Right -> RightBrace(l)
          [] Assigns -> Emit(l, "op=", i + 2)
          [] Arrow -> Emit(l, "->", i + 2)
          [] Fat -> Emit(l, "=>", i + 2)
          [] Less -> Emit(l, Angle, i + 1)
          [] OTHER -> Emit(l, c, i + 1)
  BY Zenon DEF NormalToken
<1>u. Direct(l, Deep) \/ i = n
  BY LeftBraceIs
<1>v. At(i + 1) \in {"=", ">"} => i + 2 \in i .. n /\ i < i + 2
  BY <1>0, CursorIs
<1>w. c # "end" => c \in Chars /\ i + 1 \in i .. n /\ i < i + 1 /\ i # n
  BY <1>e, Before, CursorIs
<1> HIDE DEF T, Left, Right, Assigns, Arrow, Fat, Less, Deep
<1>1. CASE i = n
  <2>1. T = NormalEnd(l)
    BY <1>1, <1>a, <1>b, <1>c, <1>d, <1>e, <1>f, <1>g, <1>h, <1>t
  <2> QED BY <1>1, <2>1, NormalEndIs DEF T
<1>2. CASE is_word(i)
  <2> DEFINE e == WordEnd(i)
  <2>1. T = Emit(l, "IDENT", e)
    BY <1>2, <1>a, <1>b, <1>c, <1>d, <1>e, <1>f, <1>g, <1>h, <1>t
  <2>2. e \in i .. n /\ (e = n \/ ~ is_word(e))
    BY <1>0, WordEnds
  <2>3. "IDENT" \in Kinds /\ Ordinary(Top(l).mode, "IDENT")
    BY DEF Kinds, Structure, None, Ordinary
  <2>4. i # n
    BY <1>2, <1>e, <1>f
  <2> HIDE DEF e, i
  <2>5. i < e
    BY <1>0, <1>2, <2>2, <2>4
  <2> QED BY <2>1, <2>2, <2>3, <2>5, EmitPlain DEF i, T
<1>3. CASE c = "quote"
  <2>1. T = EmitPush(l, "STR_START", i + 1, "STR", "EOF")
    BY <1>3, <1>a, <1>b, <1>c, <1>d, <1>e, <1>f, <1>g, <1>h, <1>t
  <2>2. i + 1 \in i .. n /\ i < i + 1
    BY <1>3, <1>w
  <2>3. "STR_START" \in Kinds
    BY DEF Kinds
  <2> HIDE DEF i
  <2> QED BY <2>1, <2>2, <2>3, EmitEnters DEF i, T
<1>4. CASE c = "bt"
  <2>1. T = scan_raw_string(l)
    BY <1>4, <1>a, <1>b, <1>c, <1>d, <1>e, <1>f, <1>g, <1>h, <1>t
  <2> QED BY <1>4, <2>1, RawString DEF T
<1>5. CASE Left
  <2>1. T = Deep
    BY <1>5, <1>a, <1>b, <1>c, <1>d, <1>e, <1>f, <1>g, <1>h, <1>t
  <2>2. i # n
    BY <1>5, <1>c, <1>e
  <2> QED BY <1>u, <2>1, <2>2 DEF T
<1>6. CASE Right
  <2>1. T = RightBrace(l)
    BY <1>6, <1>a, <1>b, <1>c, <1>d, <1>e, <1>f, <1>g, <1>h, <1>t
  <2>2. i # n
    BY <1>6, <1>d, <1>e
  <2> QED BY <2>1, <2>2, RightBraceIs DEF T
<1>7. CASE Assigns
  <2>1. T = Emit(l, "op=", i + 2)
    BY <1>7, <1>a, <1>b, <1>c, <1>d, <1>e, <1>f, <1>g, <1>h, <1>t
  <2>2. i + 2 \in i .. n /\ i < i + 2
    BY <1>7, <1>g, <1>v
  <2>3. "op=" \in Kinds /\ Ordinary(Top(l).mode, "op=")
    BY DEF Kinds, Structure, None, Ordinary
  <2> HIDE DEF i
  <2> QED BY <2>1, <2>2, <2>3, EmitPlain DEF i, T
<1>8. CASE Arrow
  <2>1. T = Emit(l, "->", i + 2)
    BY <1>8, <1>a, <1>b, <1>c, <1>d, <1>e, <1>f, <1>g, <1>h, <1>t
  <2>2. i + 2 \in i .. n /\ i < i + 2
    BY <1>8, <1>a, <1>v
  <2>3. "->" \in Kinds /\ Ordinary(Top(l).mode, "->")
    BY DEF Kinds, Structure, None, Ordinary
  <2> HIDE DEF i
  <2> QED BY <2>1, <2>2, <2>3, EmitPlain DEF i, T
<1>9. CASE Fat
  <2>1. T = Emit(l, "=>", i + 2)
    BY <1>9, <1>a, <1>b, <1>c, <1>d, <1>e, <1>f, <1>g, <1>h, <1>t
  <2>2. i + 2 \in i .. n /\ i < i + 2
    BY <1>9, <1>b, <1>v
  <2>3. "=>" \in Kinds /\ Ordinary(Top(l).mode, "=>")
    BY DEF Kinds, Structure, None, Ordinary
  <2> HIDE DEF i
  <2> QED BY <2>1, <2>2, <2>3, EmitPlain DEF i, T
<1>10. CASE Less
  <2>1. T = Emit(l, Angle, i + 1)
    BY <1>10, <1>a, <1>b, <1>c, <1>d, <1>e, <1>f, <1>g, <1>h, <1>t
  <2>2. i + 1 \in i .. n /\ i < i + 1
    BY <1>10, <1>h, <1>w
  <2>3. "LT" \in Kinds /\ Ordinary(Top(l).mode, "LT")
    BY DEF Kinds, Structure, None, Ordinary
  <2>4. Angle = "MARKUP_START" \/ Angle = "LT"
    OBVIOUS
  <2> HIDE DEF i, Angle
  <2>5. CASE Angle = "MARKUP_START"
    BY <2>1, <2>2, <2>5, MarkupAheadIs DEF i, T
  <2>6. CASE Angle = "LT"
    BY <2>1, <2>2, <2>3, <2>6, EmitPlain DEF i, T
  <2> QED BY <2>4, <2>5, <2>6
<1>11. CASE ~ (\/ i = n \/ is_word(i) \/ c = "quote" \/ c = "bt" \/ Left \/ Right \/ Assigns \/ Arrow
               \/ Fat \/ Less)
  <2>1. T = Emit(l, c, i + 1)
    BY <1>11, <1>t
  <2>2. c # "end"
    BY <1>11, CursorIs
  <2>3. c \in Chars /\ i + 1 \in i .. n /\ i < i + 1
    BY <1>w, <2>2
  <2> HIDE DEF c, i
  <2>4. c \in Kinds /\ Ordinary(Top(l).mode, c)
    BY <2>3, CharsArePlain
  <2> QED BY <2>1, <2>3, <2>4, EmitPlain DEF i, T
<1> HIDE DEF i, c
<1> QED BY <1>1, <1>2, <1>3, <1>4, <1>5, <1>6, <1>7, <1>8, <1>9, <1>10, <1>11 DEF T

-----------------------------------------------------------------------------
(* A token, with what is skipped before it.                                  *)

Unread(j, m) == <<"UNEXPECTED_CHAR", j>> \in m.reports

(* What lies in [s, e) is space, recorded or reported.                       *)
Gap(s, e, m) ==
    \A j \in s .. e - 1 : is_space(j) \/ InComment(j, m.comments) \/ Unread(j, m)

Reaches(l, o) ==
    Good(o) /\ Goes(l, o) /\ Same(l, o) /\ Top(o) = Top(l) /\ Gap(l.i, o.i, o)
Scans(l, r) == \E o : Reaches(l, o) /\ Direct(o, r)

LEMMA GapGrows ==
    ASSUME TextInv, NEW l, NEW m, Goes(l, m), NEW s \in Nat, NEW e \in 0 .. n, Gap(s, e, l)
    PROVE  Gap(s, e, m)
<1>1. n \in Nat
  BY TextIs
<1>2. SUFFICES ASSUME NEW j \in s .. e - 1 PROVE is_space(j) \/ InComment(j, m.comments) \/ Unread(j, m)
  BY DEF Gap
<1>3. j \in 0 .. n
  BY <1>1
<1>4. is_space(j) \/ InComment(j, l.comments) \/ Unread(j, l)
  BY DEF Gap
<1>5. Unread(j, l) => Unread(j, m)
  BY DEF Goes, Unread
<1>6. InComment(j, l.comments) => InComment(j, m.comments)
  BY <1>3 DEF Goes
<1> QED BY <1>4, <1>5, <1>6

LEMMA GapJoins ==
    ASSUME NEW s \in Nat, NEW d \in Nat, NEW e \in Nat, NEW m, Gap(s, d, m), Gap(d, e, m)
    PROVE  Gap(s, e, m)
<1>1. \A j \in s .. e - 1 : j \in s .. d - 1 \/ j \in d .. e - 1
  OBVIOUS
<1> QED BY <1>1 DEF Gap

LEMMA GapWithin ==
    ASSUME NEW s \in Nat, NEW d \in Nat, NEW e \in Nat, NEW m, Gap(s, e, m), d <= e
    PROVE  Gap(s, d, m)
<1>1. \A j \in s .. d - 1 : j \in s .. e - 1
  OBVIOUS
<1> QED BY <1>1 DEF Gap

LEMMA GoodLater ==
    ASSUME TextInv, NEW l, Good(l), NEW m \in LexerSet, m.stack = l.stack, m.i \in l.i .. n
    PROVE  Good(m) /\ Top(m) = Top(l)
<1>0. n \in Nat /\ l.i \in Nat
  BY CursorIs
<1>1. \A f : Lies(f, l.i) => Lies(f, m.i)
  <2> SUFFICES ASSUME NEW f, Lies(f, l.i) PROVE Lies(f, m.i)
    OBVIOUS
  <2>1. f.open_at \in Nat /\ f.depth \in Nat
    BY <1>0 DEF Lies, FrameSet, Positions
  <2> QED BY <1>0, <2>1 DEF Lies
<1>2. Bounded(l.stack, l.i)
  BY DEF Good
<1>3. Bounded(l.stack, m.i)
  BY <1>1, <1>2, Zenon DEF Bounded
<1>4. m.i \in 0 .. n
  BY <1>0
<1> QED BY <1>3, <1>4 DEF Good, Top

LEMMA ReachesSelf ==
    ASSUME TextInv, NEW l, Good(l)
    PROVE  Reaches(l, l)
<1>1. l.i \in l.i .. n /\ l.i \in Nat
  BY CursorIs
<1>2. Goes(l, l) /\ Same(l, l)
  BY <1>1 DEF Good, Goes, Same
<1>3. \A j \in l.i .. l.i - 1 : FALSE
  BY <1>1
<1> QED BY <1>2, <1>3 DEF Reaches, Gap

LEMMA ReachesOn ==
    ASSUME TextInv, NEW l, Good(l), NEW o, NEW p, Reaches(l, o), Reaches(o, p)
    PROVE  Reaches(l, p)
<1>0. n \in Nat /\ l.i \in Nat /\ o.i \in Nat /\ o.i \in 0 .. n /\ p.i \in Nat
  BY CursorIs DEF Reaches
<1>1. Goes(l, o) /\ Goes(o, p) /\ Same(l, o) /\ Same(o, p) /\ Good(p) /\ Top(o) = Top(l) /\ Top(p) = Top(o)
  BY DEF Reaches
<1>2. Goes(l, p)
  BY <1>0, <1>1, GoesOn
<1>3. Same(l, p)
  BY <1>1 DEF Same
<1>4. Gap(l.i, o.i, p)
  BY <1>0, <1>1, GapGrows DEF Reaches
<1>5. Gap(l.i, p.i, p)
  BY <1>0, <1>4, GapJoins DEF Reaches
<1> QED BY <1>1, <1>2, <1>3, <1>5 DEF Reaches

LEMMA ScansDirectly ==
    ASSUME TextInv, NEW l, Good(l), NEW r, Direct(l, r)
    PROVE  Scans(l, r)
BY ReachesSelf DEF Scans

LEMMA SkippedIs ==
    ASSUME TextInv, NEW l, Good(l), NEW v, v.at \in l.i .. n, v.comments \in Seq(CommentSet),
           v.reports \subseteq Places
    PROVE  LET o == Skipped(l, v)
           IN  /\ Good(o) /\ Goes(l, o) /\ Same(l, o) /\ Top(o) = Top(l) /\ o.i = v.at
               /\ \A k : InComment(k, v.comments) => InComment(k, o.comments)
               /\ v.reports \subseteq o.reports
<1> DEFINE o == Skipped(l, v)
           cs == l.comments \o v.comments
           rs == l.reports \cup v.reports
<1>0. n \in Nat /\ l.i \in Nat /\ l \in LexerSet
  BY CursorIs DEF Good
<1>1. l.comments \in Seq(CommentSet) /\ l.reports \subseteq Places
  BY <1>0 DEF LexerSet
<1>2. cs \in Seq(CommentSet)
  BY <1>1
<1>3. \A k : InComment(k, cs) <=> InComment(k, l.comments) \/ InComment(k, v.comments)
  BY <1>1, InCommentBoth
<1>4. rs \subseteq Places /\ l.reports \subseteq rs /\ v.reports \subseteq rs
  BY <1>1
<1>5. o = [l EXCEPT !.i = v.at, !.comments = cs, !.reports = rs]
  BY DEF Skipped
<1> DEFINE a == v.at
<1>6. a \in l.i .. n /\ a \in Nat
  BY <1>0
<1> HIDE DEF o, cs, rs
<1>7. /\ o \in LexerSet /\ o.i = v.at /\ o.stash = l.stash /\ o.peeked = l.peeked /\ o.prev = l.prev
      /\ o.stack = l.stack /\ o.depth_reported = l.depth_reported /\ o.comments = cs /\ o.reports = rs
  BY <1>0, <1>2, <1>4, <1>5, <1>6 DEF LexerSet
<1>8. Good(o) /\ Top(o) = Top(l)
  BY <1>7, GoodLater
<1>9. Goes(l, o)
  BY <1>3, <1>4, <1>7 DEF Goes
<1> QED BY <1>3, <1>4, <1>7, <1>8, <1>9 DEF o, Same

LEMMA ScanNormal ==
    ASSUME TextInv, NEW l, Good(l), Top(l).mode = "NORMAL"
    PROVE  \E o : Reaches(l, o) /\ Direct(o, scan_normal_token(l)) /\ (o.i # l.i => Unread(l.i, o))
<1> DEFINE v == Unexpected[l.i]
           o == Skipped(l, v)
<1>0. n \in Nat /\ l.i \in 0 .. n
  BY CursorIs
<1>1. PassesOdd(l.i, v)
  BY <1>0, UnexpectedPasses
<1> HIDE DEF v
<1>2. v.at \in l.i .. n /\ v.comments \in Seq(CommentSet) /\ v.reports \subseteq Places
  BY <1>1 DEF PassesOdd, OddSet
<1>3. /\ Good(o) /\ Goes(l, o) /\ Same(l, o) /\ Top(o) = Top(l) /\ o.i = v.at
      /\ \A k : InComment(k, v.comments) => InComment(k, o.comments)
      /\ v.reports \subseteq o.reports
  BY <1>2, SkippedIs
<1>4. scan_normal_token(l) = NormalToken(o)
  BY DEF scan_normal_token, v
<1> HIDE DEF o
<1>5. Gap(l.i, o.i, o)
  BY <1>1, <1>3 DEF PassesOdd, Gap, Unread
<1>6. o.i # l.i => Unread(l.i, o)
  BY <1>1, <1>3 DEF PassesOdd, Unread
<1>7. Direct(o, NormalToken(o))
  BY <1>3, NormalTokenIs
<1> QED BY <1>3, <1>4, <1>5, <1>6, <1>7 DEF Reaches

LEMMA ScanTag ==
    ASSUME TextInv, NEW l, Good(l), Top(l).mode = "TAG"
    PROVE  Scans(l, scan_in_tag(l))
<1> DEFINE e == BlankEnd(l.i)
           o == [l EXCEPT !.i = e]
<1>0. n \in Nat /\ l.i \in 0 .. n /\ l.i \in Nat /\ l \in LexerSet
  BY CursorIs DEF Good
<1>1. e \in l.i .. n /\ \A k \in l.i .. e - 1 : is_space(k)
  BY <1>0, BlankEnds
<1> HIDE DEF e
<1>2. e \in Nat
  BY <1>0, <1>1
<1>3. /\ o \in LexerSet /\ o.i = e /\ o.stash = l.stash /\ o.peeked = l.peeked /\ o.prev = l.prev
      /\ o.stack = l.stack /\ o.depth_reported = l.depth_reported /\ o.comments = l.comments
      /\ o.reports = l.reports
  BY <1>0, <1>2 DEF LexerSet
<1>4. scan_in_tag(l) = TagToken(o)
  BY DEF scan_in_tag, e
<1> HIDE DEF o
<1>5. Good(o) /\ Top(o) = Top(l)
  BY <1>1, <1>3, GoodLater
<1>6. Goes(l, o) /\ Same(l, o)
  BY <1>1, <1>3 DEF Goes, Same
<1>7. Gap(l.i, o.i, o)
  BY <1>1, <1>3 DEF Gap
<1>8. Direct(o, TagToken(o))
  BY <1>5, TagTokenIs
<1> QED BY <1>4, <1>5, <1>6, <1>7, <1>8 DEF Scans, Reaches

(* A newline from s to e where the line-structure rule applies.              *)
Breaks(s, e, m) ==
    \E j \in s .. e - 1 :
        At(j) = "nl" /\ ~ InComment(j, m.comments) /\ \A k \in s .. j : ~ Unread(k, m)

Continues(k) == k \in {None} \cup Continuation
Follows(k) == k \in {"EOF"} \cup Follow

(* One scan: a token, or an end of line and the token after it, pushed back. *)
Scanned(l, r) ==
    /\ Scans(l, r)
    /\ Top(l).mode = "NORMAL" /\ Breaks(l.i, r.t.start, r.lx) => Continues(l.prev) \/ Follows(r.t.kind)
Ended(l, r, s) ==
    /\ Scans(l, s) /\ Top(l).mode = "NORMAL" /\ ~ Follows(s.t.kind) /\ ~ Continues(l.prev)
    /\ Pair(r) /\ r.lx = [s.lx EXCEPT !.stash = s.t]
    /\ r.t \in TokenSet /\ r.t.kind = "NEWLINE" /\ r.t.mode = "NORMAL"
    /\ r.t.start \in l.i .. r.t.end - 1 /\ r.t.end \in l.i .. s.t.start /\ At(r.t.start) = "nl"
    /\ Gap(l.i, r.t.start, s.lx) /\ Gap(r.t.end, s.t.start, s.lx)
Advances(l, r) == Scanned(l, r) \/ \E s : Ended(l, r, s)

LEMMA DirectIs ==
    ASSUME TextInv, NEW l, Good(l), NEW r, Direct(l, r)
    PROVE  /\ r.t.start \in l.i .. n /\ r.t.end \in r.t.start .. n /\ r.t.start = l.i /\ r.t.end = r.lx.i
           /\ Goes(l, r.lx) /\ r.lx \in LexerSet
<1>1. n \in Nat /\ l.i \in Nat /\ l.i <= n
  BY CursorIs
<1>2. r.lx.i \in l.i .. n /\ r.t.start = l.i /\ r.t.end = r.lx.i /\ Goes(l, r.lx) /\ r.lx \in LexerSet
  BY DEF Direct, Goes
<1> QED BY <1>1, <1>2

LEMMA ScansIs ==
    ASSUME TextInv, NEW l, Good(l), NEW r, Scans(l, r)
    PROVE  /\ r.t.start \in l.i .. n /\ r.t.end \in r.t.start .. n /\ r.t.end = r.lx.i
           /\ Goes(l, r.lx) /\ r.lx \in LexerSet /\ Gap(l.i, r.t.start, r.lx)
<1>0. n \in Nat /\ l.i \in Nat
  BY CursorIs
<1>1. PICK o : Reaches(l, o) /\ Direct(o, r)
  BY DEF Scans
<1>2. Good(o) /\ Goes(l, o) /\ Gap(l.i, o.i, o) /\ o.i \in l.i .. n /\ o.i \in 0 .. n
  BY <1>1 DEF Reaches, Goes, Good
<1>3. /\ r.t.start \in o.i .. n /\ r.t.end \in r.t.start .. n /\ r.t.start = o.i /\ r.t.end = r.lx.i
      /\ Goes(o, r.lx) /\ r.lx \in LexerSet
  BY <1>1, <1>2, DirectIs
<1>4. Goes(l, r.lx)
  BY <1>0, <1>2, <1>3, GoesOn
<1>5. Gap(l.i, o.i, r.lx)
  BY <1>0, <1>2, <1>3, GapGrows
<1> QED BY <1>0, <1>2, <1>3, <1>4, <1>5

LEMMA AdvanceNormal ==
    ASSUME TextInv, NEW l, Good(l), Top(l).mode = "NORMAL"
    PROVE  Advances(l, advance_normal(l))
<1> DEFINE v == Trivia[l.i]
           o == Skipped(l, v)
           s == scan_normal_token(o)
           r == advance_normal(l)
<1>0. n \in Nat /\ l.i \in 0 .. n /\ l.i \in Nat
  BY CursorIs
<1>1. Passes(l.i, v)
  BY <1>0, TriviaPasses
<1>2. r = LineRule(l, v, s)
  BY DEF advance_normal
<1> HIDE DEF v, r
<1>3. v.at \in l.i .. n /\ v.comments \in Seq(CommentSet) /\ v.reports \subseteq Places /\ v.at \in Nat
  BY <1>0, <1>1 DEF Passes, TriviaSet
<1>4. /\ Good(o) /\ Goes(l, o) /\ Same(l, o) /\ Top(o) = Top(l) /\ o.i = v.at
      /\ \A k : InComment(k, v.comments) => InComment(k, o.comments)
      /\ v.reports \subseteq o.reports
  BY <1>3, SkippedIs
<1> HIDE DEF o
<1>5. PICK p : Reaches(o, p) /\ Direct(p, s) /\ (p.i # o.i => Unread(o.i, p))
  BY <1>4, ScanNormal
<1> HIDE DEF s
<1>6. Gap(l.i, o.i, o)
  BY <1>1, <1>4 DEF Passes, Gap
<1>7. Reaches(l, o)
  BY <1>4, <1>6 DEF Reaches
<1>8. Reaches(l, p)
  BY <1>5, <1>7, ReachesOn
<1>9. Scans(l, s)
  BY <1>5, <1>8 DEF Scans
<1>10. Good(p) /\ s.t.start = p.i /\ Goes(p, s.lx) /\ Goes(o, p) /\ p.i \in o.i .. n /\ p.i \in 0 .. n
  <2>1. Good(p) /\ Goes(o, p)
    BY <1>5 DEF Reaches
  <2>2. s.t.start = p.i /\ Goes(p, s.lx)
    BY <1>5, <2>1, DirectIs
  <2> QED BY <2>1, <2>2 DEF Goes, Good
<1>11. Goes(o, s.lx)
  BY <1>0, <1>3, <1>4, <1>10, GoesOn
<1>12. CASE MayEndLine(l, v) /\ s.t.kind \notin {"EOF"} \cup Follow
  <2> DEFINE t == NewlineToken(v)
  <2>1. r = [lx |-> [s.lx EXCEPT !.stash = s.t], t |-> t]
    BY <1>2, <1>12 DEF LineRule
  <2>2. v.nl # n /\ ~ Continues(l.prev) /\ ~ Follows(s.t.kind)
    BY <1>12 DEF MayEndLine, Continues, Follows
  <2>3. v.nl \in l.i .. v.at - 1 /\ At(v.nl) = "nl" /\ v.nl \in Nat
    BY <1>0, <1>1, <2>2 DEF Passes
  <2>4. t.kind = "NEWLINE" /\ t.mode = "NORMAL" /\ t.start = v.nl /\ t.end = v.at
    BY TokIs DEF NewlineToken
  <2>5. t \in TokenSet
    <3>1. "NEWLINE" \in Kinds /\ "NORMAL" \in Modes
      BY DEF Kinds, Modes
    <3> QED BY <1>3, <2>3, <3>1 DEF TokenSet, NewlineToken, Tok
  <2> HIDE DEF t
  <2>6. r.lx = [s.lx EXCEPT !.stash = s.t] /\ r.t = t /\ Pair(r)
    BY <2>1 DEF Pair
  <2>7. Gap(l.i, o.i, s.lx)
    BY <1>0, <1>3, <1>4, <1>6, <1>11, GapGrows
  <2>8. Gap(l.i, v.nl, s.lx)
    BY <1>0, <1>3, <1>4, <2>3, <2>7, GapWithin
  <2>9. Gap(o.i, p.i, s.lx)
    BY <1>3, <1>4, <1>5, <1>10, GapGrows DEF Reaches
  <2>10. t.start \in l.i .. t.end - 1 /\ t.end \in l.i .. s.t.start
    BY <1>0, <1>3, <1>4, <1>10, <2>3, <2>4
  <2>11. Ended(l, r, s)
    BY <1>4, <1>9, <1>10, <2>2, <2>3, <2>4, <2>5, <2>6, <2>8, <2>9, <2>10 DEF Ended
  <2> QED BY <2>11 DEF Advances, r
<1>13. CASE ~ (MayEndLine(l, v) /\ s.t.kind \notin {"EOF"} \cup Follow)
  <2>1. r = s
    BY <1>2, <1>13 DEF LineRule
  <2>2. Breaks(l.i, s.t.start, s.lx) => Continues(l.prev) \/ Follows(s.t.kind)
    <3> SUFFICES ASSUME NEW j \in l.i .. s.t.start - 1, At(j) = "nl", ~ InComment(j, s.lx.comments),
                        \A k \in l.i .. j : ~ Unread(k, s.lx)
                 PROVE  Continues(l.prev) \/ Follows(s.t.kind)
      BY DEF Breaks
    <3>1. j < v.at
      <4> SUFFICES ASSUME j >= v.at PROVE FALSE
        BY <1>0, <1>3
      <4>1. p.i # o.i /\ o.i \in l.i .. j
        BY <1>0, <1>3, <1>4, <1>10
      <4>2. Unread(o.i, p)
        BY <1>5, <4>1
      <4>3. Unread(o.i, s.lx)
        BY <1>10, <4>2 DEF Goes, Unread
      <4> QED BY <4>1, <4>3
    <3>2. j \in l.i .. v.at - 1 /\ j \in 0 .. n
      BY <1>0, <1>3, <3>1
    <3>3. ~ InComment(j, v.comments)
      BY <1>4, <1>11, <3>2 DEF Goes
    <3>4. v.nl # n
      BY <1>1, <3>2, <3>3 DEF Passes
    <3> QED BY <1>13, <3>4 DEF MayEndLine, Continues, Follows
  <2> QED BY <1>9, <2>1, <2>2 DEF Advances, Scanned, r
<1> QED BY <1>12, <1>13

LEMMA AdvanceIs ==
    ASSUME TextInv, NEW l, Good(l)
    PROVE  Advances(l, lex_advance(l))
<1> DEFINE m == Top(l).mode
<1>1. m \in {"NORMAL", "STR", "TAG", "CONTENT"}
  BY GoodStack DEF FrameSet, Modes
<1>2. CASE m = "NORMAL"
  <2>1. lex_advance(l) = advance_normal(l)
    BY <1>2 DEF lex_advance
  <2> QED BY <1>2, <2>1, AdvanceNormal
<1>3. CASE m = "STR"
  <2>1. lex_advance(l) = scan_in_string(l)
    BY <1>3 DEF lex_advance
  <2>2. Scans(l, scan_in_string(l))
    BY <1>3, ScanInString, ScansDirectly
  <2> QED BY <1>3, <2>1, <2>2 DEF Advances, Scanned
<1>4. CASE m = "TAG"
  <2>1. lex_advance(l) = scan_in_tag(l)
    BY <1>4 DEF lex_advance
  <2>2. Scans(l, scan_in_tag(l))
    BY <1>4, ScanTag
  <2> QED BY <1>4, <2>1, <2>2 DEF Advances, Scanned
<1>5. CASE m = "CONTENT"
  <2>1. lex_advance(l) = scan_in_content(l)
    BY <1>5 DEF lex_advance
  <2>2. Scans(l, scan_in_content(l))
    BY <1>5, ScanInContent, ScansDirectly
  <2> QED BY <1>5, <2>1, <2>2 DEF Advances, Scanned
<1> QED BY <1>1, <1>2, <1>3, <1>4, <1>5

-----------------------------------------------------------------------------
(* Levels stay bounded.                                                      *)

LEMMA BoundedIs ==
    ASSUME TextInv, NEW l, Good(l)
    PROVE  /\ l.stack \in Seq(FrameSet) /\ Len(l.stack) \in Nat /\ Len(l.stack) \in 1 .. MaxDepth
           /\ \A k \in 1 .. Len(l.stack) : Lies(l.stack[k], l.i)
           /\ l.stack[1].mode = "NORMAL" /\ l.stack[1].close = "EOF"
           /\ \A k \in 1 .. Len(l.stack) - 1 : OnTop(l.stack[k + 1], l.stack[k])
BY GoodStack DEF Good, Bounded

LEMMA LiesOn ==
    ASSUME TextInv, NEW l, Good(l), NEW i \in l.i .. n, NEW f, Lies(f, l.i)
    PROVE  Lies(f, i)
<1>1. n \in Nat /\ l.i \in Nat
  BY CursorIs
<1>2. f.open_at \in Nat /\ f.depth \in Nat
  BY <1>1 DEF Lies, FrameSet, Positions
<1> QED BY <1>1, <1>2 DEF Lies

LEMMA PushedIsGood ==
    ASSUME TextInv, NEW l, Good(l), NEW m \in LexerSet, m.i \in l.i .. n, NEW f,
           m.stack = Append(l.stack, f), ~ (Len(l.stack) >= MaxDepth), Lies(f, m.i), OnTop(f, Top(l))
    PROVE  Good(m) /\ Top(m) = f
<1> DEFINE st == l.stack
           k0 == Len(st)
           up == m.stack
<1>0. n \in Nat /\ l.i \in Nat /\ m.i \in 0 .. n /\ MaxDepth \in Nat
  BY CursorIs, LexerAssumption
<1>1. /\ st \in Seq(FrameSet) /\ k0 \in Nat /\ k0 \in 1 .. MaxDepth
      /\ \A k \in 1 .. k0 : Lies(st[k], l.i)
      /\ st[1].mode = "NORMAL" /\ st[1].close = "EOF"
      /\ \A k \in 1 .. k0 - 1 : OnTop(st[k + 1], st[k])
      /\ Top(l) = st[k0]
  BY BoundedIs, GoodStack
<1>2. f \in FrameSet
  BY DEF Lies
<1>3. /\ up \in Seq(FrameSet) /\ Len(up) = k0 + 1 /\ up[k0 + 1] = f /\ \A k \in 1 .. k0 : up[k] = st[k]
  BY <1>1, <1>2
<1> HIDE DEF st, k0, up
<1>4. k0 + 1 \in 1 .. MaxDepth
  <2>1. ~ (k0 >= MaxDepth)
    BY DEF k0, st
  <2> QED BY <1>0, <1>1, <2>1
<1>5. \A k \in 1 .. k0 + 1 : Lies(up[k], m.i)
  <2>1. \A k \in 1 .. k0 : Lies(up[k], m.i)
    BY <1>1, <1>3, LiesOn
  <2>2. \A k \in 1 .. k0 + 1 : k \in 1 .. k0 \/ k = k0 + 1
    BY <1>1
  <2> QED BY <1>3, <2>1, <2>2
<1>6. \A k \in 1 .. k0 + 1 - 1 : OnTop(up[k + 1], up[k])
  <2> SUFFICES ASSUME NEW k \in 1 .. k0 PROVE OnTop(up[k + 1], up[k])
    BY <1>1
  <2>1. CASE k = k0
    BY <1>1, <1>3, <2>1
  <2>2. CASE k # k0
    <3>1. k \in 1 .. k0 - 1 /\ k + 1 \in 1 .. k0 /\ k \in 1 .. k0
      BY <1>1, <2>2
    <3> QED BY <1>1, <1>3, <3>1
  <2> QED BY <2>1, <2>2
<1>7. up[1] = st[1]
  <2>1. 1 \in 1 .. k0
    BY <1>1
  <2> QED BY <1>3, <2>1
<1>8. Bounded(up, m.i)
  BY <1>1, <1>3, <1>4, <1>5, <1>6, <1>7 DEF Bounded
<1>9. Top(m) = f
  BY <1>3 DEF Top, Last, up
<1> QED BY <1>0, <1>8, <1>9 DEF Good, up

LEMMA PoppedIsGood ==
    ASSUME TextInv, NEW l, Good(l), NEW m \in LexerSet, m.i \in l.i .. n,
           m.stack = Front(l.stack), Len(l.stack) > 1
    PROVE  Good(m) /\ OnTop(Top(l), Top(m))
<1> DEFINE st == l.stack
           k0 == Len(st)
           up == m.stack
<1>0. n \in Nat /\ l.i \in Nat /\ m.i \in 0 .. n /\ MaxDepth \in Nat
  BY CursorIs, LexerAssumption
<1>1. /\ st \in Seq(FrameSet) /\ k0 \in Nat /\ k0 \in 1 .. MaxDepth /\ k0 > 1
      /\ \A k \in 1 .. k0 : Lies(st[k], l.i)
      /\ st[1].mode = "NORMAL" /\ st[1].close = "EOF"
      /\ \A k \in 1 .. k0 - 1 : OnTop(st[k + 1], st[k])
      /\ Top(l) = st[k0]
  BY BoundedIs, GoodStack
<1>2. up = SubSeq(st, 1, k0 - 1)
  BY DEF Front
<1>3. up \in Seq(FrameSet) /\ Len(up) = k0 - 1 /\ \A k \in 1 .. k0 - 1 : up[k] = st[k]
  <2> HIDE DEF st, k0, up
  <2>1. Len(st) = k0
    BY DEF k0
  <2> QED BY <1>1, <1>2, <2>1
<1> HIDE DEF st, k0, up
<1>4. k0 - 1 \in 1 .. MaxDepth /\ k0 - 1 \in 1 .. k0 - 1 /\ 1 \in 1 .. k0 - 1
  BY <1>0, <1>1
<1>5. \A k \in 1 .. k0 - 1 : Lies(up[k], m.i)
  <2>1. \A k \in 1 .. k0 - 1 : k \in 1 .. k0
    BY <1>1
  <2> QED BY <1>1, <1>3, <2>1, LiesOn
<1>6. \A k \in 1 .. k0 - 1 - 1 : OnTop(up[k + 1], up[k])
  <2> SUFFICES ASSUME NEW k \in 1 .. k0 - 1 - 1 PROVE OnTop(up[k + 1], up[k])
    OBVIOUS
  <2>1. k \in 1 .. k0 - 1 /\ k + 1 \in 1 .. k0 - 1
    BY <1>1
  <2> QED BY <1>1, <1>3, <2>1
<1>7. up[1] = st[1]
  BY <1>3, <1>4
<1>8. Bounded(up, m.i)
  BY <1>1, <1>3, <1>4, <1>5, <1>6, <1>7 DEF Bounded
<1>9. Top(m) = st[k0 - 1]
  BY <1>3, <1>4 DEF Top, Last, up
<1>10. OnTop(st[k0 - 1 + 1], st[k0 - 1]) /\ k0 - 1 + 1 = k0
  BY <1>1, <1>4
<1> QED BY <1>0, <1>1, <1>8, <1>9, <1>10 DEF Good, up

LEMMA TurnedIsGood ==
    ASSUME TextInv, NEW l, Good(l), NEW m \in LexerSet, m.i \in l.i .. n, NEW f,
           m.stack = [l.stack EXCEPT ![Len(l.stack)] = f], Lies(f, m.i),
           \A g : OnTop(Top(l), g) => OnTop(f, g),
           f.mode = Top(l).mode \/ Top(l).mode # "NORMAL", f.close = Top(l).close
    PROVE  Good(m) /\ Top(m) = f
<1> DEFINE st == l.stack
           k0 == Len(st)
           up == m.stack
<1>0. n \in Nat /\ l.i \in Nat /\ m.i \in 0 .. n /\ MaxDepth \in Nat
  BY CursorIs, LexerAssumption
<1>1. /\ st \in Seq(FrameSet) /\ k0 \in Nat /\ k0 \in 1 .. MaxDepth
      /\ \A k \in 1 .. k0 : Lies(st[k], l.i)
      /\ st[1].mode = "NORMAL" /\ st[1].close = "EOF"
      /\ \A k \in 1 .. k0 - 1 : OnTop(st[k + 1], st[k])
      /\ Top(l) = st[k0]
  BY BoundedIs, GoodStack
<1>2. f \in FrameSet
  BY DEF Lies
<1>3. /\ up \in Seq(FrameSet) /\ Len(up) = k0 /\ up[k0] = f /\ \A k \in 1 .. k0 - 1 : up[k] = st[k]
  BY <1>1, <1>2
<1> HIDE DEF st, k0, up
<1>5. \A k \in 1 .. k0 : Lies(up[k], m.i)
  <2>1. \A k \in 1 .. k0 - 1 : Lies(up[k], m.i)
    <3>1. \A k \in 1 .. k0 - 1 : k \in 1 .. k0
      BY <1>1
    <3> QED BY <1>1, <1>3, <3>1, LiesOn
  <2>2. \A k \in 1 .. k0 : k \in 1 .. k0 - 1 \/ k = k0
    BY <1>1
  <2> QED BY <1>3, <2>1, <2>2
<1>6. \A k \in 1 .. k0 - 1 : OnTop(up[k + 1], up[k])
  <2> SUFFICES ASSUME NEW k \in 1 .. k0 - 1 PROVE OnTop(up[k + 1], up[k])
    OBVIOUS
  <2>1. CASE k + 1 = k0
    <3>1. OnTop(Top(l), st[k])
      BY <1>1, <2>1
    <3> QED BY <1>3, <2>1, <3>1
  <2>2. CASE k + 1 # k0
    <3>1. k + 1 \in 1 .. k0 - 1
      BY <1>1, <2>2
    <3> QED BY <1>1, <1>3, <3>1
  <2> QED BY <2>1, <2>2
<1>7. up[1].mode = "NORMAL" /\ up[1].close = "EOF"
  <2>1. CASE k0 = 1
    BY <1>1, <1>3, <2>1
  <2>2. CASE k0 # 1
    <3>1. 1 \in 1 .. k0 - 1
      BY <1>1, <2>2
    <3> QED BY <1>1, <1>3, <3>1
  <2> QED BY <2>1, <2>2
<1>8. Bounded(up, m.i)
  BY <1>1, <1>3, <1>5, <1>6, <1>7 DEF Bounded
<1>9. Top(m) = f
  BY <1>3 DEF Top, Last, up
<1> QED BY <1>0, <1>8, <1>9 DEF Good, up

(* The strings not closed yet, which may each cost a token of no characters. *)
StrLevels(s) == {k \in 1 .. Len(s) : s[k].mode = "STR"}
Strs(s) == Cardinality(StrLevels(s))

LEMMA StrsIs ==
    ASSUME NEW s \in Seq(FrameSet)
    PROVE  IsFiniteSet(StrLevels(s)) /\ Strs(s) \in Nat
<1>1. Len(s) \in Nat
  OBVIOUS
<1>2. IsFiniteSet(1 .. Len(s))
  BY <1>1, FS_Interval
<1>3. IsFiniteSet(StrLevels(s))
  BY <1>2, FS_Subset DEF StrLevels
<1> QED BY <1>3, FS_CardinalityType DEF Strs

LEMMA StrsPush ==
    ASSUME NEW s \in Seq(FrameSet), NEW f \in FrameSet
    PROVE  Strs(Append(s, f)) = Strs(s) + (IF f.mode = "STR" THEN 1 ELSE 0)
<1> DEFINE u == Append(s, f)
           d == Len(s)
<1>1. /\ d \in Nat /\ u \in Seq(FrameSet) /\ Len(u) = d + 1 /\ u[d + 1] = f
      /\ \A k \in 1 .. d : u[k] = s[k]
  OBVIOUS
<1>2. d + 1 \notin StrLevels(s)
  BY <1>1 DEF StrLevels
<1> HIDE DEF u
<1>3. StrLevels(u) = IF f.mode = "STR" THEN StrLevels(s) \cup {d + 1} ELSE StrLevels(s)
  <2>1. \A k : k \in 1 .. d + 1 <=> k \in 1 .. d \/ k = d + 1
    BY <1>1
  <2>2. \A k : k \in StrLevels(u) <=> (k \in 1 .. d /\ s[k].mode = "STR") \/ (k = d + 1 /\ f.mode = "STR")
    BY <1>1, <2>1 DEF StrLevels
  <2>3. \A k : k \in StrLevels(s) <=> (k \in 1 .. d /\ s[k].mode = "STR")
    BY DEF StrLevels
  <2> QED BY <2>2, <2>3
<1>4. Cardinality(StrLevels(s) \cup {d + 1}) = Cardinality(StrLevels(s)) + 1
  BY <1>2, StrsIs, FS_AddElement
<1>5. Strs(s) \in Nat
  BY StrsIs
<1> QED BY <1>3, <1>4, <1>5 DEF Strs, u

LEMMA StrsPop ==
    ASSUME NEW s \in Seq(FrameSet), Len(s) > 1
    PROVE  Strs(s) = Strs(Front(s)) + (IF s[Len(s)].mode = "STR" THEN 1 ELSE 0)
<1> DEFINE u == Front(s)
           f == s[Len(s)]
           d == Len(s)
<1>1. u = SubSeq(s, 1, d - 1) /\ d \in Nat /\ d > 1
  BY DEF Front
<1>2. u \in Seq(FrameSet) /\ f \in FrameSet /\ Len(u) = d - 1 /\ \A k \in 1 .. d - 1 : u[k] = s[k]
  <2>1. Len(s) = d
    OBVIOUS
  <2> HIDE DEF d, u
  <2> QED BY <1>1, <2>1
<1> HIDE DEF u
<1>3. Append(u, f) = s
  <2> DEFINE w == Append(u, f)
  <2>1. w \in Seq(FrameSet) /\ Len(w) = d /\ w[d] = f /\ \A k \in 1 .. d - 1 : w[k] = u[k]
    BY <1>1, <1>2
  <2> HIDE DEF w
  <2>2. \A k \in 1 .. d : w[k] = s[k]
    <3>1. \A k \in 1 .. d : k \in 1 .. d - 1 \/ k = d
      BY <1>1
    <3> QED BY <1>2, <2>1, <3>1
  <2>3. DOMAIN w = 1 .. d /\ DOMAIN s = 1 .. d
    BY <2>1
  <2>4. w = s
    BY <2>1, <2>2, <2>3, SeqEqual
  <2> QED BY <2>4 DEF w
<1> HIDE DEF f, d
<1>4. Strs(Append(u, f)) = Strs(u) + (IF f.mode = "STR" THEN 1 ELSE 0)
  BY <1>2, StrsPush
<1> QED BY <1>3, <1>4 DEF u, f

LEMMA StrsTurn ==
    ASSUME NEW s \in Seq(FrameSet), NEW f \in FrameSet, Len(s) >= 1,
           f.mode = "STR" <=> s[Len(s)].mode = "STR"
    PROVE  Strs([s EXCEPT ![Len(s)] = f]) = Strs(s)
<1> DEFINE u == [s EXCEPT ![Len(s)] = f]
           d == Len(s)
<1>1. /\ d \in Nat /\ d >= 1 /\ Len(u) = d /\ u[d] = f
      /\ \A k \in 1 .. d : k # d => u[k] = s[k]
  OBVIOUS
<1> HIDE DEF u
<1>2. \A k \in 1 .. d : u[k].mode = "STR" <=> s[k].mode = "STR"
  <2> SUFFICES ASSUME NEW k \in 1 .. d PROVE u[k].mode = "STR" <=> s[k].mode = "STR"
    OBVIOUS
  <2>1. CASE k = d
    BY <1>1, <2>1
  <2>2. CASE k # d
    BY <1>1, <2>2
  <2> QED BY <2>1, <2>2
<1>3. StrLevels(u) = StrLevels(s)
  BY <1>1, <1>2 DEF StrLevels
<1> QED BY <1>3 DEF Strs, u

Due(t) == IF t.kind \in {None, "EOF"} THEN 0 ELSE 1
Cost(l) == 2 * (n - l.i) + Strs(l.stack)
Fresh(t) == t.kind = "MARKUP_START" /\ t.mode = "NORMAL"

(* What a token does to the lexer.                                           *)
Yields(l, m, t) ==
    /\ Good(m) /\ Due(t) + Cost(m) <= Cost(l)
    /\ t.kind = "EOF" => m.i = n /\ Top(m).mode # "STR"
    /\ l.i = n /\ Top(l).mode # "STR" => t.kind = "EOF"
    /\ Fresh(t) => Top(m).mode = "NORMAL"

LEMMA CostIs ==
    ASSUME TextInv, NEW l, Good(l)
    PROVE  Cost(l) \in Nat /\ Strs(l.stack) \in Nat /\ Cost(l) = 2 * (n - l.i) + Strs(l.stack)
<1>1. n \in Nat /\ l.i \in Nat /\ l.i <= n
  BY CursorIs
<1>2. Strs(l.stack) \in Nat
  BY GoodStack, StrsIs
<1> QED BY <1>1, <1>2 DEF Cost

LEMMA DirectStarts ==
    ASSUME TextInv, NEW l, Good(l), NEW r, Direct(l, r)
    PROVE  /\ r.t.kind \notin {"EOF", "STR_END"} => l.i < r.lx.i
           /\ r.t.kind = "STR_END" => Top(l).mode = "STR"
           /\ l.i = n /\ Top(l).mode # "STR" => r.t.kind = "EOF"
           /\ l.i \in Nat /\ n \in Nat /\ r.lx.i \in Nat /\ l.i <= r.lx.i /\ r.lx.i <= n /\ r.lx \in LexerSet
           /\ r.lx.i \in l.i .. n /\ r.t.start = l.i /\ Due(r.t) \in {0, 1} /\ (r.t.kind = "EOF" => Due(r.t) = 0)
<1>1. n \in Nat /\ l.i \in Nat
  BY CursorIs
<1>2. /\ r.t.start \in l.i .. n /\ r.t.end \in r.t.start .. n /\ r.t.start = l.i /\ r.t.end = r.lx.i
      /\ r.lx \in LexerSet
  BY DirectIs
<1>3. r.t.kind \notin {"EOF", "STR_END"} => l.i < r.lx.i
  BY <1>2 DEF Direct
<1>4. r.t.kind = "STR_END" => Top(l).mode = "STR"
  <2> SUFFICES ASSUME r.t.kind = "STR_END" PROVE Top(l).mode = "STR"
    OBVIOUS
  <2>1. Levels(l, r.lx, Top(l), r.t)
    BY DEF Direct
  <2>2. ~ Enters(l, r.lx, Top(l), r.t)
    BY DEF Enters
  <2>3. ~ Becoming(l, r.lx, Top(l), r.t)
    BY DEF Becoming, Structure, Ordinary
  <2>4. ~ Staying(l, r.lx, Top(l), r.t)
    BY DEF Staying, Structure, Ordinary
  <2>5. Leaves(l, r.lx, Top(l), r.t)
    BY <2>1, <2>2, <2>3, <2>4 DEF Levels
  <2> QED BY <2>5 DEF Leaves
<1>5. Due(r.t) \in {0, 1} /\ (r.t.kind = "EOF" => Due(r.t) = 0)
  BY DEF Due
<1> QED BY <1>1, <1>2, <1>3, <1>4, <1>5

LEMMA StaysYields ==
    ASSUME TextInv, NEW l, Good(l), NEW r, Direct(l, r), r.lx.stack = l.stack,
           r.t.kind = "EOF" => Top(l).mode # "STR" /\ r.t.end = n, r.t.kind # "STR_END"
    PROVE  Yields(l, r.lx, r.t)
<1>1. Good(r.lx) /\ Top(r.lx) = Top(l)
  BY DirectStarts, GoodLater
<1>2. r.t.kind = "EOF" => r.lx.i = n
  BY DEF Direct
<1>3. Fresh(r.t) => Top(l).mode = "NORMAL"
  BY DEF Direct, Fresh
<1>4. Strs(l.stack) \in Nat /\ Cost(l) = 2 * (n - l.i) + Strs(l.stack)
  BY CostIs
<1>5. Cost(r.lx) = 2 * (n - r.lx.i) + Strs(l.stack)
  BY DEF Cost
<1>6. Due(r.t) + Cost(r.lx) <= Cost(l)
  BY <1>4, <1>5, DirectStarts
<1> QED BY <1>1, <1>2, <1>3, <1>6, DirectStarts DEF Yields

LEMMA EntersYields ==
    ASSUME TextInv, NEW l, Good(l), NEW r, Direct(l, r), Enters(l, r.lx, Top(l), r.t)
    PROVE  Yields(l, r.lx, r.t)
<1> DEFINE m == r.lx
           f == Frame(IF r.t.kind = "STR_START" THEN "STR" ELSE IF r.t.kind = "MARKUP_START" THEN "TAG" ELSE "NORMAL",
                      r.t.start,
                      IF r.t.kind = "INTERP_START" THEN "INTERP_END"
                      ELSE IF r.t.kind = "CTRL_START" THEN "CTRL_END" ELSE "EOF")
<1>1. Pushes(l, m, f) /\ r.t.kind \notin {"EOF", "STR_END"}
  BY DEF Enters
<1>2. OnTop(f, Top(l)) /\ (Fresh(r.t) => FALSE)
  BY DEF Enters, OnTop, Frame, Fresh, Direct
<1>3. CASE Len(l.stack) >= MaxDepth
  <2>1. m.stack = l.stack
    BY <1>1, <1>3 DEF Pushes
  <2> QED BY <1>1, <2>1, StaysYields
<1>4. CASE ~ (Len(l.stack) >= MaxDepth)
  <2>1. m.stack = Append(l.stack, f)
    BY <1>1, <1>4 DEF Pushes
  <2>2. Lies(f, m.i)
    <3>1. r.t.start \in Nat /\ r.t.start <= m.i /\ r.t.start <= n /\ n \in Nat /\ m.i \in Nat
      BY DirectStarts
    <3> QED BY <3>1 DEF Lies, Frame, FrameSet, Modes, Positions
  <2>3. f \in FrameSet
    BY <2>2 DEF Lies
  <2> HIDE DEF f, m
  <2>4. m \in LexerSet /\ m.i \in l.i .. n
    BY DirectStarts DEF m
  <2>5. Good(m)
    BY <1>2, <1>4, <2>1, <2>2, <2>4, PushedIsGood
  <2>6. Strs(m.stack) = Strs(l.stack) + (IF f.mode = "STR" THEN 1 ELSE 0) /\ Strs(l.stack) \in Nat
    BY <2>1, <2>3, GoodStack, StrsPush, StrsIs
  <2>7. Cost(l) = 2 * (n - l.i) + Strs(l.stack) /\ Cost(m) = 2 * (n - m.i) + Strs(m.stack)
    BY DEF Cost
  <2>8. Due(r.t) + Cost(m) <= Cost(l)
    <3>1. l.i < m.i /\ l.i \in Nat /\ n \in Nat /\ m.i \in Nat /\ m.i <= n /\ Due(r.t) \in {0, 1}
      BY <1>1, DirectStarts DEF m
    <3>2. Strs(m.stack) <= Strs(l.stack) + 1 /\ Strs(m.stack) \in Nat
      BY <2>6
    <3> QED BY <2>6, <2>7, <3>1, <3>2
  <2> QED BY <1>1, <1>2, <2>5, <2>8, DirectStarts DEF Yields, m
<1> QED BY <1>3, <1>4

LEMMA LeavesYields ==
    ASSUME TextInv, NEW l, Good(l), NEW r, Direct(l, r), Leaves(l, r.lx, Top(l), r.t)
    PROVE  Yields(l, r.lx, r.t)
<1> DEFINE m == r.lx
           f == Top(l)
<1>1. Pops(l, m) /\ (r.t.kind = "STR_END" \/ (f.mode # "STR" /\ ~ Fresh(r.t)))
  BY DEF Leaves, Fresh
<1>2. /\ r.t.kind = "STR_END" => f.mode = "STR" /\ ~ Fresh(r.t)
      /\ r.t.kind = "EOF" => f.mode \in {"TAG", "CONTENT"} /\ r.t.end = n
  BY DEF Leaves, Fresh
<1>3. m.stack = Front(l.stack) /\ Len(l.stack) > 1
  BY <1>1 DEF Pops
<1>4. m \in LexerSet /\ m.i \in l.i .. n /\ m.i \in Nat /\ l.i \in Nat /\ n \in Nat /\ l.i <= m.i /\ m.i <= n
  BY DirectStarts
<1>5. f = l.stack[Len(l.stack)]
  BY GoodStack
<1> HIDE DEF m, f
<1>6. Good(m) /\ OnTop(f, Top(m))
  BY <1>3, <1>4, PoppedIsGood DEF f
<1>7. r.t.kind = "EOF" => m.i = n /\ Top(m).mode # "STR"
  BY <1>2, <1>6 DEF OnTop, Direct, m
<1>8. Strs(l.stack) = Strs(m.stack) + (IF f.mode = "STR" THEN 1 ELSE 0) /\ Strs(m.stack) \in Nat
  BY <1>3, <1>5, <1>6, GoodStack, StrsPop, CostIs
<1>9. Cost(l) = 2 * (n - l.i) + Strs(l.stack) /\ Cost(m) = 2 * (n - m.i) + Strs(m.stack)
  BY DEF Cost
<1>10. Due(r.t) \in {0, 1} /\ (r.t.kind = "EOF" => Due(r.t) = 0)
       /\ (r.t.kind \notin {"EOF", "STR_END"} => l.i < m.i)
  BY DirectStarts DEF m
<1>11. Due(r.t) + Cost(m) <= Cost(l)
  <2>1. CASE r.t.kind = "STR_END"
    <3>1. Strs(l.stack) = Strs(m.stack) + 1
      BY <1>2, <1>8, <2>1
    <3> QED BY <1>4, <1>8, <1>9, <1>10, <3>1
  <2>2. CASE r.t.kind # "STR_END"
    <3>1. Strs(l.stack) = Strs(m.stack)
      BY <1>1, <1>8, <2>2
    <3> QED BY <1>4, <1>8, <1>9, <1>10, <2>2, <3>1
  <2> QED BY <2>1, <2>2
<1> QED BY <1>1, <1>2, <1>6, <1>7, <1>11, DirectStarts DEF Yields, m

LEMMA TurnsYields ==
    ASSUME TextInv, NEW l, Good(l), NEW r, Direct(l, r), r.t.kind \notin {"EOF", "STR_END"}, ~ Fresh(r.t),
           NEW g, Turns(l, r.lx, g), Lies(g, r.lx.i),
           \A h : OnTop(Top(l), h) => OnTop(g, h),
           g.mode = Top(l).mode \/ Top(l).mode # "NORMAL", g.close = Top(l).close,
           g.mode = "STR" <=> Top(l).mode = "STR"
    PROVE  Yields(l, r.lx, r.t)
<1> DEFINE m == r.lx
<1>1. m.stack = [l.stack EXCEPT ![Len(l.stack)] = g] /\ g \in FrameSet
  BY DEF Turns, Lies
<1>2. /\ l.i < m.i /\ m \in LexerSet /\ m.i \in l.i .. n /\ m.i \in Nat /\ l.i \in Nat /\ n \in Nat /\ m.i <= n
      /\ Due(r.t) \in {0, 1}
  BY DirectStarts
<1>3. Lies(g, m.i)
  OBVIOUS
<1> HIDE DEF m
<1>4. Good(m)
  BY <1>1, <1>2, <1>3, TurnedIsGood
<1>5. l.stack \in Seq(FrameSet) /\ Len(l.stack) >= 1 /\ Top(l) = l.stack[Len(l.stack)]
  BY GoodStack
<1>6. Strs(m.stack) = Strs(l.stack) /\ Strs(l.stack) \in Nat
  BY <1>1, <1>5, StrsTurn, StrsIs
<1>7. Cost(l) = 2 * (n - l.i) + Strs(l.stack) /\ Cost(m) = 2 * (n - m.i) + Strs(m.stack)
  BY DEF Cost
<1>8. Due(r.t) + Cost(m) <= Cost(l)
  BY <1>2, <1>6, <1>7
<1> QED BY <1>4, <1>8, DirectStarts DEF Yields, m

LEMMA BecomingYields ==
    ASSUME TextInv, NEW l, Good(l), NEW r, Direct(l, r), Becoming(l, r.lx, Top(l), r.t)
    PROVE  Yields(l, r.lx, r.t)
<1> DEFINE m == r.lx
           f == Top(l)
           i == m.i
<1>1. r.t.kind \notin {"EOF", "STR_END"} /\ ~ Fresh(r.t)
  BY DEF Becoming, Structure, Ordinary, Fresh
<1>2. l.i < i /\ i \in Nat /\ l.i \in Nat /\ n \in Nat /\ i <= n
  BY <1>1, DirectStarts
<1>3. /\ f \in FrameSet /\ Lies(f, l.i) /\ f.depth \in Positions /\ f.depth \in Nat /\ f.open_at \in Nat
      /\ f.depth <= l.i /\ f.open_at <= l.i
      /\ f.mode # "NORMAL" => f.depth = 0 /\ f.close = "EOF"
      /\ f.close_tag => f.mode = "TAG"
  <2>1. f \in FrameSet /\ Lies(f, l.i)
    BY GoodStack
  <2> HIDE DEF f
  <2> QED BY <1>2, <2>1 DEF Lies, FrameSet, Positions
<1>4. ASSUME NEW d \in Nat, f.mode = "NORMAL", d <= i, Turns(l, m, [f EXCEPT !.depth = d])
      PROVE  Yields(l, m, r.t)
  <2> DEFINE g == [f EXCEPT !.depth = d]
  <2>1. d \in Positions
    BY <1>2, <1>4 DEF Positions
  <2>2. /\ g \in FrameSet /\ g.mode = f.mode /\ g.open_at = f.open_at /\ g.depth = d /\ g.close = f.close
        /\ g.close_tag = f.close_tag
    BY <1>3, <2>1 DEF FrameSet
  <2>3. Turns(l, m, g)
    BY <1>4
  <2> HIDE DEF g, f, m, i
  <2>4. Lies(g, i)
    BY <1>2, <1>3, <1>4, <2>2 DEF Lies
  <2>5. \A h : OnTop(f, h) => OnTop(g, h)
    BY <2>2 DEF OnTop
  <2> QED BY <1>1, <2>2, <2>3, <2>4, <2>5, TurnsYields DEF f, m, i
<1>5. ASSUME NEW mode \in {"TAG", "CONTENT"}, NEW c \in BOOLEAN, NEW d \in BOOLEAN, c => mode = "TAG",
             f.mode \in {"TAG", "CONTENT"}, NEW g, g = [f EXCEPT !.mode = mode, !.close_tag = c, !.named = d],
             Turns(l, m, g)
      PROVE  Yields(l, m, r.t)
  <2>1. mode \in Modes
    BY DEF Modes
  <2>2. /\ g \in FrameSet /\ g.mode = mode /\ g.open_at = f.open_at /\ g.depth = f.depth /\ g.close = f.close
        /\ g.close_tag = c
    <3> HIDE DEF f
    <3> QED BY <1>3, <1>5, <2>1 DEF FrameSet
  <2>3. Turns(l, m, g)
    BY <1>5
  <2> HIDE DEF f, m, i
  <2>4. Lies(g, i)
    BY <1>2, <1>3, <1>5, <2>2 DEF Lies
  <2>5. \A h : OnTop(f, h) => OnTop(g, h)
    BY <1>5, <2>2 DEF OnTop
  <2> QED BY <1>1, <1>5, <2>2, <2>3, <2>4, <2>5, TurnsYields DEF f, m, i
<1>6. f.close_tag \in BOOLEAN /\ f.named \in BOOLEAN
  BY <1>3 DEF FrameSet
<1> HIDE DEF f
<1>7. CASE r.t.kind = "LBRACE" /\ f.mode = "NORMAL" /\ Turns(l, m, [f EXCEPT !.depth = f.depth + 1])
  <2>1. f.depth + 1 \in Nat /\ f.depth + 1 <= i
    BY <1>2, <1>3
  <2> QED BY <1>4, <1>7, <2>1
<1>8. CASE f.mode = "NORMAL" /\ f.depth > 0 /\ Turns(l, m, [f EXCEPT !.depth = f.depth - 1])
  <2>1. f.depth - 1 \in Nat /\ f.depth - 1 <= i
    BY <1>2, <1>3, <1>8
  <2> QED BY <1>4, <1>8, <2>1
<1>9. CASE f.mode = "TAG" /\ ~ f.close_tag /\ Turns(l, m, [f EXCEPT !.mode = "CONTENT"])
  <2> DEFINE g == [f EXCEPT !.mode = "CONTENT"]
  <2>1. g = [f EXCEPT !.mode = "CONTENT", !.close_tag = FALSE, !.named = f.named]
    BY <1>3, <1>6, <1>9 DEF FrameSet
  <2> HIDE DEF g
  <2> QED BY <1>5, <1>6, <1>9, <2>1 DEF g
<1>10. CASE f.mode = "CONTENT" /\ Turns(l, m, [f EXCEPT !.mode = "TAG", !.close_tag = TRUE, !.named = FALSE])
  BY <1>5, <1>10
<1>11. CASE f.mode = "TAG" /\ Turns(l, m, [f EXCEPT !.named = TRUE])
  <2> DEFINE g == [f EXCEPT !.named = TRUE]
  <2>1. g = [f EXCEPT !.mode = "TAG", !.close_tag = f.close_tag, !.named = TRUE]
    BY <1>3, <1>6, <1>11 DEF FrameSet
  <2> HIDE DEF g
  <2> QED BY <1>5, <1>6, <1>11, <2>1 DEF g
<1> QED BY <1>7, <1>8, <1>9, <1>10, <1>11 DEF Becoming, f

LEMMA DirectYields ==
    ASSUME TextInv, NEW l, Good(l), NEW r, Direct(l, r)
    PROVE  Yields(l, r.lx, r.t)
<1>1. Levels(l, r.lx, Top(l), r.t)
  BY DEF Direct
<1>2. CASE Enters(l, r.lx, Top(l), r.t)
  BY <1>2, EntersYields
<1>3. CASE Leaves(l, r.lx, Top(l), r.t)
  BY <1>3, LeavesYields
<1>4. CASE Becoming(l, r.lx, Top(l), r.t)
  BY <1>4, BecomingYields
<1>5. CASE Staying(l, r.lx, Top(l), r.t)
  <2>1. r.lx.stack = l.stack
    BY <1>5 DEF Staying, Same
  <2>2. r.t.kind = "EOF" => Top(l).mode # "STR" /\ r.t.end = n
    BY <1>5 DEF Staying, Structure, Ordinary
  <2>3. r.t.kind # "STR_END"
    BY <1>5 DEF Staying, Structure, Ordinary
  <2> QED BY <2>1, <2>2, <2>3, StaysYields
<1> QED BY <1>1, <1>2, <1>3, <1>4, <1>5 DEF Levels

LEMMA ScansYields ==
    ASSUME TextInv, NEW l, Good(l), NEW r, Scans(l, r)
    PROVE  /\ Yields(l, r.lx, r.t)
           /\ r.t \in TokenSet /\ r.t.kind \notin {None, "NEWLINE"}
           /\ r.t.start > l.i => Due(r.t) + Cost(r.lx) + 2 <= Cost(l)
<1>1. PICK o : Reaches(l, o) /\ Direct(o, r)
  BY DEF Scans
<1>2. Good(o) /\ o.stack = l.stack /\ Top(o) = Top(l) /\ o.i \in l.i .. n
  BY <1>1 DEF Reaches, Same, Goes
<1>3. Yields(o, r.lx, r.t)
  BY <1>1, <1>2, DirectYields
<1>4. r.t \in TokenSet /\ r.t.kind \notin {None, "NEWLINE"} /\ r.t.start = o.i
  BY <1>1 DEF Direct
<1>5. /\ Cost(l) = 2 * (n - l.i) + Strs(l.stack) /\ Cost(o) = 2 * (n - o.i) + Strs(l.stack)
      /\ Strs(l.stack) \in Nat /\ n \in Nat /\ l.i \in Nat /\ l.i <= n /\ o.i \in Nat /\ l.i <= o.i
  BY <1>2, CostIs, CursorIs DEF Cost
<1>6. Cost(o) <= Cost(l) /\ (o.i > l.i => Cost(o) + 2 <= Cost(l))
  BY <1>5
<1>7. Due(r.t) \in {0, 1} /\ Cost(r.lx) \in Nat /\ Cost(o) \in Nat /\ Cost(l) \in Nat
  BY <1>2, <1>3, CostIs DEF Due, Yields
<1>8. Due(r.t) + Cost(r.lx) <= Cost(o)
  BY <1>3 DEF Yields
<1>9. Due(r.t) + Cost(r.lx) <= Cost(l) /\ (r.t.start > l.i => Due(r.t) + Cost(r.lx) + 2 <= Cost(l))
  BY <1>4, <1>6, <1>7, <1>8
<1>10. l.i = n /\ Top(l).mode # "STR" => r.t.kind = "EOF"
  BY <1>2, <1>3, <1>5 DEF Yields
<1> QED BY <1>3, <1>4, <1>9, <1>10 DEF Yields

-----------------------------------------------------------------------------
(* What holds between two tokens.                                            *)

Joins(p, t, m) ==
    t \in TokenSet /\ p <= t.start /\ t.start <= t.end /\ t.end <= n /\ Gap(p, t.start, m)

(* From p on, only the token pushed back has been scanned, if there is one.  *)
Ends(p, l) == IF l.stash = NoToken THEN l.i = p ELSE Joins(p, l.stash, l) /\ l.stash.end = l.i

Stashed(l) ==
    \/ l.stash = NoToken
    \/ /\ l.stash.kind \notin {None, "NEWLINE"} /\ ~ Follows(l.stash.kind)
       /\ Fresh(l.stash) => Top(l).mode = "NORMAL"

AtEnd(l) == l.i = n /\ l.stash = NoToken /\ Top(l).mode # "STR"

(* After the token b, the lexer l has still to find the next one.            *)
Waits(b, l) ==
    /\ Ends(b.end, l)
    /\ b.kind = "EOF" => AtEnd(l)
    /\ l.stash # NoToken <=> b.kind = "NEWLINE"

(* After the token b comes t, and the lexer is m.                            *)
Comes(b, t, m) ==
    /\ t.kind # None /\ Joins(b.end, t, m) /\ Ends(t.end, m)
    /\ t.kind = "EOF" => AtEnd(m)
    /\ b.kind = "EOF" => t.kind = "EOF"
    /\ Fresh(t) => Top(m).mode = "NORMAL" /\ m.stash = NoToken
    /\ m.stash # NoToken <=> t.kind = "NEWLINE"
    /\ t.kind = "NEWLINE" => ~ Continues(m.prev) /\ At(t.start) = "nl" /\ b.kind # "NEWLINE"
    /\ b.kind = "NEWLINE" => ~ Follows(t.kind)
    /\ t.kind # "NEWLINE" /\ b.kind # "NEWLINE" /\ t.mode = "NORMAL" /\ Breaks(b.end, t.start, m)
       => Continues(m.prev) \/ Follows(t.kind)

(* Lexers that differ in the slot of the lookahead, and in nothing else.     *)
Alike(l, m) ==
    /\ m \in LexerSet /\ m.i = l.i /\ m.stash = l.stash /\ m.stack = l.stack
    /\ m.depth_reported = l.depth_reported /\ m.comments = l.comments /\ m.reports = l.reports

LEMMA AlikeIs ==
    ASSUME NEW l, NEW m, Alike(l, m)
    PROVE  /\ Good(l) => Good(m)
           /\ Top(m) = Top(l) /\ Cost(m) = Cost(l) /\ (Stashed(l) <=> Stashed(m)) /\ (AtEnd(l) <=> AtEnd(m))
           /\ \A p, t : Joins(p, t, l) <=> Joins(p, t, m)
           /\ \A p : Ends(p, l) <=> Ends(p, m)
           /\ \A p, q : Breaks(p, q, l) <=> Breaks(p, q, m)
<1>1. Top(m) = Top(l) /\ Cost(m) = Cost(l)
  BY DEF Alike, Top, Cost
<1>2. Good(l) => Good(m)
  BY DEF Alike, Good
<1>3. (Stashed(l) <=> Stashed(m)) /\ (AtEnd(l) <=> AtEnd(m))
  BY <1>1 DEF Alike, Stashed, AtEnd
<1>4. \A p, q : Gap(p, q, l) <=> Gap(p, q, m)
  BY DEF Alike, Gap, Unread
<1>5. \A p, t : Joins(p, t, l) <=> Joins(p, t, m)
  BY <1>4 DEF Joins
<1>6. \A p : Ends(p, l) <=> Ends(p, m)
  BY <1>5 DEF Ends, Alike
<1>7. \A p, q : Breaks(p, q, l) <=> Breaks(p, q, m)
  BY DEF Breaks, Unread, Alike
<1> QED BY <1>1, <1>2, <1>3, <1>5, <1>6, <1>7

LEMMA NoTokenIs == NoToken \in TokenSet /\ NoToken.kind = None /\ NoToken.start = 0 /\ NoToken.end = 0 /\ Due(NoToken) = 0
<1>1. None \in Kinds
  BY DEF Kinds
<1>2. NoToken \in TokenSet
  BY <1>1 DEF NoToken, Tok, TokenSet
<1>3. NoToken.kind = None /\ NoToken.start = 0 /\ NoToken.end = 0
  BY DEF NoToken, Tok
<1> QED BY <1>2, <1>3 DEF Due

LEMMA ScansMode ==
    ASSUME NEW l, NEW r, Scans(l, r)
    PROVE  Pair(r) /\ r.t.mode = Top(l).mode /\ r.lx.stash = l.stash /\ r.lx.peeked = l.peeked /\ r.lx.prev = l.prev
<1>1. PICK o : Reaches(l, o) /\ Direct(o, r)
  BY DEF Scans
<1> QED BY <1>1 DEF Reaches, Direct, Goes

(* A token that is scanned.                                                  *)
LEMMA ScannedComes ==
    ASSUME TextInv, NEW l, Good(l), NEW b, Waits(b, l), l.stash = NoToken, NEW r, Scanned(l, r)
    PROVE  /\ Comes(b, r.t, r.lx) /\ Good(r.lx) /\ Stashed(r.lx)
           /\ Due(r.t) + Due(r.lx.stash) + Cost(r.lx) <= Due(l.stash) + Cost(l)
<1>1. Scans(l, r) /\ (Top(l).mode = "NORMAL" /\ Breaks(l.i, r.t.start, r.lx) => Continues(l.prev) \/ Follows(r.t.kind))
  BY DEF Scanned
<1>2. b.end = l.i /\ (b.kind = "EOF" => AtEnd(l)) /\ b.kind # "NEWLINE"
  BY DEF Waits, Ends
<1>3. Yields(l, r.lx, r.t) /\ r.t \in TokenSet /\ r.t.kind \notin {None, "NEWLINE"}
  BY <1>1, ScansYields
<1>4. r.t.mode = Top(l).mode /\ r.lx.stash = NoToken /\ r.lx.prev = l.prev
  BY <1>1, ScansMode
<1>5. /\ r.t.start \in l.i .. n /\ r.t.end \in r.t.start .. n /\ r.t.end = r.lx.i
      /\ Gap(l.i, r.t.start, r.lx) /\ n \in Nat /\ l.i \in Nat
  BY <1>1, ScansIs, CursorIs
<1>6. Joins(b.end, r.t, r.lx)
  BY <1>2, <1>3, <1>5 DEF Joins
<1>7. Ends(r.t.end, r.lx)
  BY <1>4, <1>5 DEF Ends
<1>8. r.t.kind = "EOF" => AtEnd(r.lx)
  BY <1>3, <1>4 DEF Yields, AtEnd
<1>9. b.kind = "EOF" => r.t.kind = "EOF"
  BY <1>2, <1>3 DEF Yields, AtEnd
<1>10. Fresh(r.t) => Top(r.lx).mode = "NORMAL"
  BY <1>3 DEF Yields
<1>11. Comes(b, r.t, r.lx)
  BY <1>1, <1>2, <1>3, <1>4, <1>6, <1>7, <1>8, <1>9, <1>10 DEF Comes
<1>12. Due(r.t) + Due(r.lx.stash) + Cost(r.lx) <= Due(l.stash) + Cost(l)
  <2>1. Good(r.lx) /\ Due(r.t) + Cost(r.lx) <= Cost(l)
    BY <1>3 DEF Yields
  <2>2. Due(r.t) \in Nat /\ Cost(r.lx) \in Nat /\ Cost(l) \in Nat /\ Due(r.lx.stash) = 0 /\ Due(l.stash) = 0
    BY <1>4, <2>1, CostIs, NoTokenIs DEF Due
  <2> QED BY <2>1, <2>2
<1> QED BY <1>3, <1>4, <1>11, <1>12 DEF Yields, Stashed

(* An end of line, the token after it pushed back.                           *)
LEMMA EndedComes ==
    ASSUME TextInv, NEW l, Good(l), NEW b, Waits(b, l), l.stash = NoToken, NEW r, NEW s, Ended(l, r, s)
    PROVE  /\ Comes(b, r.t, r.lx) /\ Good(r.lx) /\ Stashed(r.lx)
           /\ Due(r.t) + Due(r.lx.stash) + Cost(r.lx) <= Due(l.stash) + Cost(l)
           /\ r.lx.peeked = l.peeked /\ r.lx.prev = l.prev /\ Pair(r)
<1> DEFINE m == r.lx
           t == r.t
<1>0. n \in Nat /\ l.i \in Nat
  BY CursorIs
<1>1. /\ Scans(l, s) /\ Top(l).mode = "NORMAL" /\ ~ Follows(s.t.kind) /\ ~ Continues(l.prev)
      /\ m = [s.lx EXCEPT !.stash = s.t]
      /\ t \in TokenSet /\ t.kind = "NEWLINE" /\ t.mode = "NORMAL"
      /\ t.start \in l.i .. t.end - 1 /\ t.end \in l.i .. s.t.start /\ At(t.start) = "nl"
      /\ Gap(l.i, t.start, s.lx) /\ Gap(t.end, s.t.start, s.lx)
  BY DEF Ended
<1>2. b.end = l.i /\ (b.kind = "EOF" => AtEnd(l)) /\ b.kind # "NEWLINE"
  BY DEF Waits, Ends
<1>3. /\ Yields(l, s.lx, s.t) /\ s.t \in TokenSet /\ s.t.kind \notin {None, "NEWLINE"}
      /\ s.t.start > l.i => Due(s.t) + Cost(s.lx) + 2 <= Cost(l)
  BY <1>1, ScansYields
<1>4. s.t.mode = Top(l).mode /\ s.lx.prev = l.prev /\ s.lx.peeked = l.peeked
  BY <1>1, ScansMode
<1>5. /\ s.t.start \in l.i .. n /\ s.t.end \in s.t.start .. n /\ s.t.end = s.lx.i /\ s.lx \in LexerSet
  BY <1>1, ScansIs
<1> HIDE DEF m, t
<1>6. /\ m \in LexerSet /\ m.stash = s.t /\ m.i = s.lx.i /\ m.stack = s.lx.stack /\ m.comments = s.lx.comments
      /\ m.reports = s.lx.reports /\ m.prev = l.prev /\ m.peeked = l.peeked
  BY <1>1, <1>3, <1>4, <1>5 DEF LexerSet
<1>7. Good(m) /\ Top(m) = Top(s.lx) /\ Cost(m) = Cost(s.lx)
  BY <1>3, <1>6 DEF Good, Top, Cost, Yields
<1>8. \A p, q : Gap(p, q, s.lx) <=> Gap(p, q, m)
  BY <1>6 DEF Gap, Unread
<1>9. m.stash # NoToken
  BY <1>3, <1>6, NoTokenIs
<1>10. Stashed(m)
  BY <1>1, <1>3, <1>6, <1>7 DEF Stashed, Yields
<1>11. t.start \in Nat /\ t.end \in Nat /\ t.start <= t.end /\ t.end <= s.t.start /\ t.end <= n /\ l.i <= t.start
       /\ l.i < s.t.start /\ s.t.start \in Nat
  BY <1>0, <1>1, <1>5
<1>12. Joins(b.end, t, m)
  BY <1>1, <1>2, <1>8, <1>11 DEF Joins
<1>13. Ends(t.end, m)
  <2>1. Joins(t.end, m.stash, m)
    BY <1>1, <1>3, <1>5, <1>6, <1>8, <1>11 DEF Joins
  <2> QED BY <1>5, <1>6, <1>9, <2>1 DEF Ends
<1>14. b.kind # "EOF"
  <2> SUFFICES ASSUME b.kind = "EOF" PROVE FALSE
    OBVIOUS
  <2>1. s.t.kind = "EOF"
    BY <1>2, <1>3 DEF AtEnd, Yields
  <2> QED BY <1>1, <2>1 DEF Follows
<1>15. Comes(b, t, m)
  BY <1>1, <1>2, <1>6, <1>9, <1>12, <1>13, <1>14 DEF Comes, None, Fresh
<1>16. Due(t) + Due(m.stash) + Cost(m) <= Due(l.stash) + Cost(l)
  <2>1. Due(s.t) + Cost(s.lx) + 2 <= Cost(l)
    BY <1>3, <1>11
  <2>2. Due(t) \in {0, 1} /\ Due(s.t) \in {0, 1} /\ Cost(m) \in Nat /\ Cost(l) \in Nat /\ Due(l.stash) = 0
    BY <1>7, CostIs, NoTokenIs DEF Due
  <2> QED BY <1>6, <1>7, <2>1, <2>2
<1>17. Pair(r)
  BY DEF Ended
<1> QED BY <1>6, <1>7, <1>10, <1>15, <1>16, <1>17 DEF m, t

LEMMA RawComes ==
    ASSUME TextInv, NEW l, Good(l), Stashed(l), NEW b, Waits(b, l)
    PROVE  LET r == next_raw(l)
           IN  /\ Comes(b, r.t, r.lx) /\ Good(r.lx) /\ Stashed(r.lx)
               /\ Due(r.t) + Due(r.lx.stash) + Cost(r.lx) <= Due(l.stash) + Cost(l)
               /\ r.lx.peeked = l.peeked /\ r.lx.prev = l.prev /\ Pair(r)
<1> DEFINE r == next_raw(l)
<1>1. CASE l.stash # NoToken
  <2> DEFINE m == [l EXCEPT !.stash = NoToken]
             t == l.stash
  <2>1. r = [lx |-> m, t |-> t]
    BY <1>1 DEF next_raw
  <2>2. l \in LexerSet
    BY DEF Good
  <2>3. /\ m \in LexerSet /\ m.stash = NoToken /\ m.i = l.i /\ m.stack = l.stack /\ m.comments = l.comments
        /\ m.reports = l.reports /\ m.prev = l.prev /\ m.peeked = l.peeked
    BY <2>2, NoTokenIs DEF LexerSet
  <2> HIDE DEF m
  <2>4. r.lx = m /\ r.t = t /\ Pair(r)
    BY <2>1 DEF Pair
  <2> HIDE DEF r
  <2>5. Good(m) /\ Top(m) = Top(l) /\ Cost(m) = Cost(l)
    BY <2>3 DEF Good, Top, Cost
  <2>6. \A p, q : Gap(p, q, l) <=> Gap(p, q, m)
    BY <2>3 DEF Gap, Unread
  <2>7. Joins(b.end, t, l) /\ t.end = l.i /\ b.kind = "NEWLINE"
    BY <1>1 DEF Waits, Ends
  <2>8. t.kind \notin {None, "NEWLINE", "EOF"} /\ ~ Follows(t.kind) /\ (Fresh(t) => Top(l).mode = "NORMAL")
    BY <1>1 DEF Stashed, Follows
  <2>9. Comes(b, t, m)
    BY <2>3, <2>5, <2>6, <2>7, <2>8 DEF Comes, Joins, Ends
  <2>10. Due(t) + Due(m.stash) + Cost(m) <= Due(l.stash) + Cost(l)
    <3>1. Due(t) \in Nat /\ Cost(l) \in Nat /\ Due(m.stash) = 0
      BY <2>3, CostIs, NoTokenIs DEF Due
    <3> QED BY <2>5, <3>1
  <2> QED BY <2>3, <2>4, <2>5, <2>9, <2>10 DEF Stashed, r
<1>2. CASE l.stash = NoToken
  <2>1. r = lex_advance(l)
    BY <1>2 DEF next_raw
  <2> HIDE DEF r
  <2>2. Advances(l, r)
    BY <2>1, AdvanceIs
  <2>3. CASE Scanned(l, r)
    <3>1. /\ Comes(b, r.t, r.lx) /\ Good(r.lx) /\ Stashed(r.lx)
          /\ Due(r.t) + Due(r.lx.stash) + Cost(r.lx) <= Due(l.stash) + Cost(l)
      BY <1>2, <2>3, ScannedComes
    <3>2. r.lx.peeked = l.peeked /\ r.lx.prev = l.prev /\ Pair(r)
      BY <2>3, ScansMode DEF Scanned
    <3> QED BY <3>1, <3>2 DEF r
  <2>4. CASE \E s : Ended(l, r, s)
    <3>1. PICK s : Ended(l, r, s)
      BY <2>4
    <3>2. /\ Comes(b, r.t, r.lx) /\ Good(r.lx) /\ Stashed(r.lx)
          /\ Due(r.t) + Due(r.lx.stash) + Cost(r.lx) <= Due(l.stash) + Cost(l)
          /\ r.lx.peeked = l.peeked /\ r.lx.prev = l.prev /\ Pair(r)
      BY <1>2, <3>1, EndedComes
    <3> QED BY <3>2 DEF r
  <2> QED BY <2>2, <2>3, <2>4 DEF Advances
<1> QED BY <1>1, <1>2

-----------------------------------------------------------------------------
(* The lexer between two of its parser's calls.                              *)

Holds(l, b, told, k) ==
    /\ Good(l) /\ Stashed(l)
    /\ b \in TokenSet /\ b.start <= b.end /\ b.end <= l.i
    /\ IF l.peeked = NoToken THEN Waits(b, l) ELSE Comes(b, l.peeked, l)
    /\ k \in Nat
    /\ k + Due(l.peeked) + Due(l.stash) + Cost(l) <= 2 * n + (IF b.kind = "EOF" THEN 1 ELSE 0)
    /\ told \in {"open", "close", None}
    /\ told = "open" => Fresh(b) /\ (l.peeked = NoToken => Top(l).mode = "NORMAL" /\ l.stash = NoToken)
    /\ told = "close" => b.kind = "TAG_END"
    /\ b.kind # "NEWLINE" => l.prev = b.kind

LEMMA EndsIs ==
    ASSUME TextInv, NEW l, Good(l), NEW p \in Nat, Ends(p, l)
    PROVE  p <= l.i
<1>1. l.i \in Nat
  BY CursorIs
<1>2. l.stash \in TokenSet
  BY DEF Good, LexerSet
<1>3. l.stash.start \in Nat /\ l.stash.end \in Nat
  BY <1>2 DEF TokenSet
<1> QED BY <1>1, <1>3 DEF Ends, Joins

LEMMA ComesIs ==
    ASSUME TextInv, NEW m, Good(m), NEW b \in TokenSet, NEW t, Comes(b, t, m)
    PROVE  /\ t \in TokenSet /\ t.kind # None /\ t # NoToken
           /\ b.end <= t.start /\ t.start <= t.end /\ t.end <= m.i /\ t.end <= n /\ b.end <= m.i
           /\ Waits(t, m)
<1>1. t \in TokenSet /\ t.kind # None /\ b.end <= t.start /\ t.start <= t.end /\ t.end <= n /\ Ends(t.end, m)
  BY DEF Comes, Joins
<1>2. b.end \in Nat /\ t.start \in Nat /\ t.end \in Nat /\ m.i \in Nat
  BY <1>1, CursorIs DEF TokenSet
<1>3. t.end <= m.i
  BY <1>1, <1>2, EndsIs
<1>4. Waits(t, m)
  BY DEF Comes, Waits
<1> QED BY <1>1, <1>2, <1>3, <1>4, NoTokenIs

(* The token lex_next gives, and the lexer it comes from.                    *)
LEMMA NextComes ==
    ASSUME TextInv, NEW l, NEW b, NEW told, NEW k, Holds(l, b, told, k)
    PROVE  LET r == lex_next(l)
           IN  \E m : /\ Good(m) /\ Stashed(m) /\ Comes(b, r.t, m) /\ m.prev = l.prev
                      /\ Alike(m, r.lx) /\ r.lx.peeked = NoToken
                      /\ r.lx.prev = IF r.t.kind = "NEWLINE" THEN l.prev ELSE r.t.kind
                      /\ Due(r.t) + Due(m.stash) + Cost(m) <= Due(l.peeked) + Due(l.stash) + Cost(l)
<1> DEFINE q == IF l.peeked # NoToken THEN [lx |-> [l EXCEPT !.peeked = NoToken], t |-> l.peeked] ELSE next_raw(l)
           r == lex_next(l)
<1>1. r = Significant(q)
  BY DEF lex_next
<1>2. Good(l) /\ Stashed(l) /\ b \in TokenSet /\ l \in LexerSet
  BY DEF Holds, Good
<1>3. \E m : /\ Good(m) /\ Stashed(m) /\ Comes(b, q.t, m) /\ m.prev = l.prev
             /\ Alike(m, q.lx) /\ q.lx.peeked = NoToken /\ q.lx.prev = l.prev /\ Pair(q)
             /\ Due(q.t) + Due(m.stash) + Cost(m) <= Due(l.peeked) + Due(l.stash) + Cost(l)
  <2>1. CASE l.peeked # NoToken
    <3> DEFINE o == [l EXCEPT !.peeked = NoToken]
    <3>1. q = [lx |-> o, t |-> l.peeked]
      BY <2>1
    <3>2. /\ o \in LexerSet /\ o.stash = l.stash /\ o.i = l.i /\ o.stack = l.stack /\ o.comments = l.comments
          /\ o.reports = l.reports /\ o.prev = l.prev /\ o.peeked = NoToken /\ o.depth_reported = l.depth_reported
      BY <1>2, NoTokenIs DEF LexerSet
    <3> HIDE DEF o
    <3>3. q.lx = o /\ q.t = l.peeked /\ Pair(q)
      BY <3>1 DEF Pair
    <3> HIDE DEF q
    <3>4. Alike(l, o)
      BY <3>2 DEF Alike
    <3>5. Comes(b, l.peeked, l)
      BY <2>1 DEF Holds
    <3>6. Due(l.peeked) + Due(l.stash) + Cost(l) <= Due(l.peeked) + Due(l.stash) + Cost(l)
      <4>1. Due(l.peeked) \in Nat /\ Due(l.stash) \in Nat /\ Cost(l) \in Nat
        BY <1>2, CostIs DEF Due
      <4> QED BY <4>1
    <3> QED BY <1>2, <3>2, <3>3, <3>4, <3>5, <3>6
  <2>2. CASE l.peeked = NoToken
    <3>1. q = next_raw(l)
      BY <2>2
    <3> HIDE DEF q
    <3>2. Waits(b, l)
      BY <2>2 DEF Holds
    <3>3. /\ Comes(b, q.t, q.lx) /\ Good(q.lx) /\ Stashed(q.lx)
          /\ Due(q.t) + Due(q.lx.stash) + Cost(q.lx) <= Due(l.stash) + Cost(l)
          /\ q.lx.peeked = l.peeked /\ q.lx.prev = l.prev /\ Pair(q)
      BY <1>2, <3>1, <3>2, RawComes
    <3>4. Alike(q.lx, q.lx)
      BY <3>3 DEF Alike, Good
    <3>5. Due(l.peeked) = 0 /\ Due(l.stash) \in Nat /\ Cost(l) \in Nat
      BY <1>2, <2>2, CostIs, NoTokenIs DEF Due
    <3>6. Due(q.t) + Due(q.lx.stash) + Cost(q.lx) <= Due(l.peeked) + Due(l.stash) + Cost(l)
      BY <3>3, <3>5
    <3> QED BY <2>2, <3>3, <3>4, <3>6
  <2> QED BY <2>1, <2>2
<1> HIDE DEF q
<1>4. PICK m : /\ Good(m) /\ Stashed(m) /\ Comes(b, q.t, m) /\ m.prev = l.prev
               /\ Alike(m, q.lx) /\ q.lx.peeked = NoToken /\ q.lx.prev = l.prev /\ Pair(q)
               /\ Due(q.t) + Due(m.stash) + Cost(m) <= Due(l.peeked) + Due(l.stash) + Cost(l)
  BY <1>3
<1>5. /\ r.t = q.t /\ Alike(m, r.lx) /\ r.lx.peeked = NoToken
      /\ r.lx.prev = IF r.t.kind = "NEWLINE" THEN l.prev ELSE r.t.kind
  <2>1. CASE q.t.kind = "NEWLINE"
    BY <1>1, <1>4, <2>1 DEF Significant
  <2>2. CASE q.t.kind # "NEWLINE"
    <3> DEFINE c == q.t.kind
               o == [q.lx EXCEPT !.prev = c]
    <3>1. q.t \in TokenSet
      BY <1>4 DEF Comes, Joins
    <3>2. c \in Kinds
      BY <3>1 DEF TokenSet
    <3>3. r = [q EXCEPT !.lx = o]
      BY <1>1, <2>2 DEF Significant
    <3> HIDE DEF c, o
    <3>4. r.lx = o /\ r.t = q.t
      BY <1>4, <3>3 DEF Pair
    <3>5. q.lx \in LexerSet
      BY <1>4 DEF Alike
    <3>6. o = [q.lx EXCEPT !.prev = c]
      BY DEF o
    <3>7. /\ o \in LexerSet /\ o.stash = q.lx.stash /\ o.i = q.lx.i /\ o.stack = q.lx.stack
          /\ o.comments = q.lx.comments /\ o.reports = q.lx.reports /\ o.prev = c
          /\ o.peeked = q.lx.peeked /\ o.depth_reported = q.lx.depth_reported
      BY <3>2, <3>5, <3>6 DEF LexerSet
    <3>8. Alike(m, o)
      BY <1>4, <3>7 DEF Alike
    <3> QED BY <1>4, <2>2, <3>4, <3>7, <3>8 DEF c
  <2> QED BY <2>1, <2>2
<1> HIDE DEF r
<1> QED BY <1>4, <1>5 DEF r

LEMMA NextHolds ==
    ASSUME TextInv, NEW l, NEW b, NEW told, NEW k, Holds(l, b, told, k), NEW o
    PROVE  LET r == lex_next(l)
           IN  Holds(r.lx, r.t, Tellable(o, r.t), IF b.kind = "EOF" THEN k ELSE k + 1)
<1> DEFINE r == lex_next(l)
           t == r.t
           s == r.lx
           told2 == Tellable(o, t)
           k2 == IF b.kind = "EOF" THEN k ELSE k + 1
<1>1. PICK m : /\ Good(m) /\ Stashed(m) /\ Comes(b, t, m) /\ m.prev = l.prev
               /\ Alike(m, s) /\ s.peeked = NoToken
               /\ s.prev = IF t.kind = "NEWLINE" THEN l.prev ELSE t.kind
               /\ Due(t) + Due(m.stash) + Cost(m) <= Due(l.peeked) + Due(l.stash) + Cost(l)
  BY NextComes
<1> HIDE DEF r, t, s
<1>2. b \in TokenSet /\ k \in Nat /\ Good(l)
      /\ k + Due(l.peeked) + Due(l.stash) + Cost(l) <= 2 * n + (IF b.kind = "EOF" THEN 1 ELSE 0)
  BY DEF Holds
<1>3. t \in TokenSet /\ t.kind # None /\ t # NoToken /\ t.start <= t.end /\ t.end <= m.i /\ Waits(t, m)
  BY <1>1, <1>2, ComesIs
<1>4. Good(s) /\ Top(s) = Top(m) /\ Cost(s) = Cost(m) /\ Stashed(s) /\ (AtEnd(m) <=> AtEnd(s))
      /\ (\A p : Ends(p, m) <=> Ends(p, s)) /\ s.stash = m.stash /\ s.i = m.i
  BY <1>1, AlikeIs DEF Alike
<1>5. Waits(t, s)
  BY <1>3, <1>4 DEF Waits
<1>6. told2 \in {"open", "close", None} /\ (told2 = "open" => Fresh(t)) /\ (told2 = "close" => t.kind = "TAG_END")
  BY DEF Tellable, Fresh, None
<1>7. Fresh(t) => Top(s).mode = "NORMAL" /\ s.stash = NoToken
  BY <1>1, <1>4 DEF Comes
<1>8. k2 \in Nat /\ k2 + Due(s.peeked) + Due(s.stash) + Cost(s) <= 2 * n + (IF t.kind = "EOF" THEN 1 ELSE 0)
  <2>1. /\ Due(l.peeked) \in Nat /\ Due(l.stash) \in Nat /\ Due(m.stash) \in Nat /\ Cost(m) \in Nat /\ Cost(l) \in Nat
        /\ n \in Nat
    BY <1>1, <1>2, CostIs, TextIs DEF Due
  <2>2. Due(t) = IF t.kind = "EOF" THEN 0 ELSE 1
    BY <1>3 DEF Due
  <2>3. Due(s.peeked) = 0 /\ Due(s.stash) = Due(m.stash) /\ Cost(s) = Cost(m)
    BY <1>1, <1>4, NoTokenIs
  <2>4. b.kind = "EOF" => t.kind = "EOF"
    BY <1>1 DEF Comes
  <2>5. CASE b.kind = "EOF"
    <3>1. k2 = k /\ Due(t) = 0 /\ t.kind = "EOF"
      BY <2>2, <2>4, <2>5
    <3> QED BY <1>1, <1>2, <2>1, <2>3, <2>5, <3>1
  <2>6. CASE b.kind # "EOF"
    <3>1. k2 = k + 1 /\ k + Due(l.peeked) + Due(l.stash) + Cost(l) <= 2 * n
      BY <1>2, <2>1, <2>6
    <3> HIDE DEF k2
    <3>2. CASE t.kind = "EOF"
      <4>1. Due(t) = 0
        BY <2>2, <3>2
      <4> QED BY <1>1, <1>2, <2>1, <2>3, <3>1, <3>2, <4>1
    <3>3. CASE t.kind # "EOF"
      <4>1. Due(t) = 1
        BY <2>2, <3>3
      <4> QED BY <1>1, <1>2, <2>1, <2>3, <3>1, <3>3, <4>1
    <3> QED BY <3>2, <3>3
  <2> QED BY <2>5, <2>6
<1> HIDE DEF told2, k2
<1>9. Holds(s, t, told2, k2)
  BY <1>1, <1>3, <1>4, <1>5, <1>6, <1>7, <1>8 DEF Holds
<1> QED BY <1>9 DEF s, t, r, told2, k2

LEMMA PeekHolds ==
    ASSUME TextInv, NEW l, NEW b, NEW told, NEW k, Holds(l, b, told, k), l.peeked = NoToken
    PROVE  Holds(lex_peek(l), b, told, k)
<1> DEFINE r == next_raw(l)
           m == r.lx
           s == lex_peek(l)
<1>1. Good(l) /\ Stashed(l) /\ Waits(b, l) /\ b \in TokenSet /\ k \in Nat /\ b.start <= b.end
      /\ k + Due(l.peeked) + Due(l.stash) + Cost(l) <= 2 * n + (IF b.kind = "EOF" THEN 1 ELSE 0)
      /\ told \in {"open", "close", None} /\ (told = "open" => Fresh(b)) /\ (told = "close" => b.kind = "TAG_END")
      /\ (b.kind # "NEWLINE" => l.prev = b.kind)
  BY DEF Holds
<1>2. /\ Comes(b, r.t, m) /\ Good(m) /\ Stashed(m)
      /\ Due(r.t) + Due(m.stash) + Cost(m) <= Due(l.stash) + Cost(l)
      /\ m.peeked = l.peeked /\ m.prev = l.prev
  BY <1>1, RawComes
<1>3. s = [m EXCEPT !.peeked = r.t]
  BY DEF lex_peek, Kept
<1> HIDE DEF r, s
<1>4. r.t \in TokenSet /\ r.t # NoToken /\ b.end <= m.i
  BY <1>1, <1>2, ComesIs
<1>5. /\ s \in LexerSet /\ s.stash = m.stash /\ s.i = m.i /\ s.stack = m.stack /\ s.comments = m.comments
      /\ s.reports = m.reports /\ s.prev = m.prev /\ s.peeked = r.t /\ s.depth_reported = m.depth_reported
  BY <1>2, <1>3, <1>4 DEF Good, LexerSet
<1>6. Alike(m, s)
  BY <1>5 DEF Alike
<1>7. /\ Good(s) /\ Top(s) = Top(m) /\ Cost(s) = Cost(m) /\ Stashed(s) /\ (AtEnd(m) <=> AtEnd(s))
      /\ \A p, t : Joins(p, t, m) <=> Joins(p, t, s)
      /\ \A p : Ends(p, m) <=> Ends(p, s)
      /\ \A p, q : Breaks(p, q, m) <=> Breaks(p, q, s)
  BY <1>2, <1>6, AlikeIs
<1>8. Comes(b, r.t, s)
  BY <1>2, <1>5, <1>7 DEF Comes
<1>9. k + Due(s.peeked) + Due(s.stash) + Cost(s) <= 2 * n + (IF b.kind = "EOF" THEN 1 ELSE 0)
  <2>1. /\ Due(l.peeked) \in Nat /\ Due(l.stash) \in Nat /\ Due(m.stash) \in Nat /\ Cost(m) \in Nat /\ Cost(l) \in Nat
        /\ n \in Nat /\ Due(r.t) \in Nat
    BY <1>1, <1>2, CostIs, TextIs DEF Due
  <2>2. Due(s.peeked) = Due(r.t) /\ Due(s.stash) = Due(m.stash) /\ Cost(s) = Cost(m) /\ Due(l.peeked) = 0
    BY <1>5, <1>7, NoTokenIs
  <2> QED BY <1>1, <1>2, <2>1, <2>2
<1> QED BY <1>1, <1>2, <1>4, <1>5, <1>7, <1>8, <1>9 DEF Holds, s

LEMMA StrsSame ==
    ASSUME NEW s \in Seq(FrameSet), NEW f \in FrameSet, f.mode # "STR"
    PROVE  Strs(Append(s, f)) = Strs(s)
<1>1. Strs(Append(s, f)) = Strs(s) + (IF f.mode = "STR" THEN 1 ELSE 0)
  BY StrsPush
<1>2. Strs(s) \in Nat
  BY StrsIs
<1> QED BY <1>1, <1>2

LEMMA OpenHolds ==
    ASSUME TextInv, NEW l, NEW b, NEW k, Holds(l, b, "open", k), l.peeked = NoToken
    PROVE  Holds(push_frame(l, "TAG", b.start, "EOF"), b, None, k)
<1> DEFINE m == push_frame(l, "TAG", b.start, "EOF")
           f == Frame("TAG", b.start, "EOF")
<1>1. Good(l) /\ Stashed(l) /\ Waits(b, l) /\ b \in TokenSet /\ k \in Nat /\ b.start <= b.end /\ b.end <= l.i
      /\ k + Due(l.peeked) + Due(l.stash) + Cost(l) <= 2 * n + (IF b.kind = "EOF" THEN 1 ELSE 0)
      /\ Fresh(b) /\ Top(l).mode = "NORMAL" /\ l.stash = NoToken
      /\ (b.kind # "NEWLINE" => l.prev = b.kind)
  BY DEF Holds
<1>2. b.start \in Nat /\ b.end \in Nat /\ l.i \in 0 .. n /\ l.i \in Nat /\ l \in LexerSet /\ n \in Nat /\ l.i \in l.i .. n
  BY <1>1, CursorIs DEF TokenSet, Good
<1>3. Lies(f, l.i) /\ f \in FrameSet
  <2>1. b.start <= l.i /\ b.start <= n
    BY <1>1, <1>2
  <2> QED BY <1>2, <2>1 DEF Lies, Frame, FrameSet, Modes, Positions
<1>4. OnTop(f, Top(l)) /\ f.mode # "STR"
  BY <1>1 DEF OnTop, Frame
<1>5. Len(l.stack) \in Nat /\ l.stack \in Seq(FrameSet)
  BY <1>1, GoodStack
<1> HIDE DEF f
<1>6. m \in LexerSet /\ Goes(l, m) /\ m.i = l.i /\ Pushes(l, m, f)
  <2>1. Frame("TAG", b.start, "EOF") \in FrameSet
    BY <1>3 DEF f
  <2> QED BY <1>2, <1>5, <2>1, PushIs DEF f
<1> HIDE DEF m
<1>7. Good(m) /\ Strs(m.stack) = Strs(l.stack)
  <2>1. CASE Len(l.stack) >= MaxDepth
    <3>1. m.stack = l.stack
      BY <1>6, <2>1 DEF Pushes
    <3> QED BY <1>1, <1>2, <1>6, <3>1, GoodLater
  <2>2. CASE ~ (Len(l.stack) >= MaxDepth)
    <3>1. m.stack = Append(l.stack, f)
      BY <1>6, <2>2 DEF Pushes
    <3>2. Good(m)
      BY <1>1, <1>2, <1>3, <1>4, <1>6, <2>2, <3>1, PushedIsGood
    <3> QED BY <1>3, <1>4, <1>5, <3>1, <3>2, StrsSame
  <2> QED BY <2>1, <2>2
<1>8. m.stash = NoToken /\ m.peeked = NoToken /\ m.prev = l.prev /\ Cost(m) = Cost(l)
  BY <1>1, <1>6, <1>7 DEF Goes, Cost
<1>9. Waits(b, m)
  BY <1>1, <1>6, <1>8 DEF Waits, Ends, Fresh
<1>10. Stashed(m)
  BY <1>8 DEF Stashed
<1>11. None \in {"open", "close", None} /\ None # "open" /\ None # "close"
  BY DEF None
<1>12. k + Due(m.peeked) + Due(m.stash) + Cost(m) <= 2 * n + (IF b.kind = "EOF" THEN 1 ELSE 0)
  BY <1>1, <1>8
<1> QED BY <1>1, <1>6, <1>7, <1>8, <1>9, <1>10, <1>11, <1>12 DEF Holds, m

LEMMA CloseHolds ==
    ASSUME TextInv, NEW l, NEW b, NEW k, Holds(l, b, "close", k), l.peeked = NoToken
    PROVE  Holds(IF Top(l).mode \in {"CONTENT", "TAG"} THEN pop_frame(l) ELSE l, b, None, k)
<1>1. Good(l) /\ Stashed(l) /\ Waits(b, l) /\ b \in TokenSet /\ k \in Nat /\ b.start <= b.end /\ b.end <= l.i
      /\ k + Due(l.peeked) + Due(l.stash) + Cost(l) <= 2 * n + (IF b.kind = "EOF" THEN 1 ELSE 0)
      /\ b.kind = "TAG_END" /\ (b.kind # "NEWLINE" => l.prev = b.kind)
  BY DEF Holds
<1>2. None \in {"open", "close", None} /\ None # "open" /\ None # "close"
  BY DEF None
<1>3. CASE Top(l).mode \notin {"CONTENT", "TAG"}
  <2>1. Holds(l, b, None, k)
    BY <1>1, <1>2 DEF Holds
  <2> QED BY <1>3, <2>1
<1>4. CASE Top(l).mode \in {"CONTENT", "TAG"}
  <2> DEFINE m == pop_frame(l)
             st == Front(l.stack)
  <2>1. Len(l.stack) > 1 /\ l.stack \in Seq(FrameSet) /\ Top(l) = l.stack[Len(l.stack)]
    <3>1. Len(l.stack) > 1 \/ Top(l).mode = "NORMAL"
      BY <1>1, GoodStack
    <3> QED BY <1>1, <1>4, <3>1, GoodStack
  <2>2. m = [l EXCEPT !.stack = st]
    BY <2>1 DEF pop_frame
  <2>3. st \in Seq(FrameSet)
    BY <2>1 DEF Front
  <2> HIDE DEF m, st
  <2>4. l \in LexerSet /\ l.i \in l.i .. n
    BY <1>1, CursorIs DEF Good
  <2>5. /\ m \in LexerSet /\ m.i = l.i /\ m.stash = l.stash /\ m.peeked = l.peeked /\ m.prev = l.prev
        /\ m.stack = st /\ m.depth_reported = l.depth_reported /\ m.comments = l.comments
        /\ m.reports = l.reports
    BY <2>2, <2>3, <2>4 DEF LexerSet
  <2>6. Good(m)
    BY <1>1, <2>1, <2>4, <2>5, PoppedIsGood DEF st
  <2>7. Strs(l.stack) = Strs(st) + (IF l.stack[Len(l.stack)].mode = "STR" THEN 1 ELSE 0) /\ Strs(st) \in Nat
    BY <2>1, <2>3, StrsPop, StrsIs DEF st
  <2>8. Strs(st) = Strs(l.stack)
    BY <1>4, <2>1, <2>7
  <2>9. Cost(m) = Cost(l)
    BY <2>5, <2>8 DEF Cost
  <2>10. l.stash = NoToken
    BY <1>1 DEF Waits
  <2>11. Waits(b, m) /\ Stashed(m)
    BY <1>1, <2>5, <2>10 DEF Waits, Ends, Stashed
  <2>12. Holds(m, b, None, k)
    BY <1>1, <1>2, <2>5, <2>6, <2>9, <2>11 DEF Holds
  <2> QED BY <1>4, <2>12 DEF m
<1> QED BY <1>3, <1>4

LexInv == TextInv /\ Holds(lx, tok, may, taken)

LEMMA InitHolds == Init => LexInv
<1> SUFFICES ASSUME Init PROVE LexInv
  OBVIOUS
<1>1. TextInv
  BY LexerAssumption DEF Init, TextInv
<1>2. n \in Nat
  BY <1>1, TextIs
<1> DEFINE f == Frame("NORMAL", 0, "EOF")
<1>3. f \in FrameSet /\ Lies(f, 0) /\ f.mode = "NORMAL" /\ f.close = "EOF"
  BY <1>2 DEF Frame, FrameSet, Modes, Positions, Lies
<1> HIDE DEF f
<1>4. /\ lx.i = 0 /\ lx.stash = NoToken /\ lx.peeked = NoToken /\ lx.prev = None /\ lx.stack = <<f>>
      /\ tok = NoToken /\ may = None /\ taken = 0
  BY DEF Init, f
<1>5. lx \in LexerSet
  <2>1. None \in Kinds /\ <<f>> \in Seq(FrameSet)
    BY <1>3 DEF Kinds
  <2> QED BY <2>1, NoTokenIs DEF Init, LexerSet, f
<1>6. Bounded(lx.stack, 0)
  <2> DEFINE st == <<f>>
  <2>1. st \in Seq(FrameSet) /\ Len(st) = 1 /\ st[1] = f
    BY <1>3
  <2> HIDE DEF st
  <2>2. 1 \in 1 .. MaxDepth
    BY LexerAssumption
  <2>3. \A k \in 1 .. 1 : k = 1
    OBVIOUS
  <2>4. \A k \in 1 .. 1 - 1 : FALSE
    OBVIOUS
  <2>5. Bounded(st, 0)
    BY <1>3, <2>1, <2>2, <2>3, <2>4 DEF Bounded
  <2> QED BY <1>4, <2>5 DEF st
<1>7. Good(lx)
  BY <1>2, <1>4, <1>5, <1>6 DEF Good
<1>8. Strs(<<f>>) = 0
  <2> DEFINE st == <<f>>
  <2>1. Len(st) = 1 /\ st[1] = f
    OBVIOUS
  <2> HIDE DEF st
  <2>2. \A k \in 1 .. 1 : k = 1
    OBVIOUS
  <2>3. StrLevels(st) = {}
    BY <1>3, <2>1, <2>2 DEF StrLevels
  <2>4. Strs(st) = 0
    BY <2>3, FS_EmptySet DEF Strs
  <2> QED BY <2>4 DEF st
<1>9. Cost(lx) = 2 * n
  BY <1>2, <1>4, <1>8 DEF Cost
<1>10. Waits(tok, lx)
  BY <1>4, NoTokenIs DEF Waits, Ends, None
<1>11. taken + Due(lx.peeked) + Due(lx.stash) + Cost(lx) <= 2 * n + (IF tok.kind = "EOF" THEN 1 ELSE 0)
  <2>1. tok.kind # "EOF"
    BY <1>4, NoTokenIs DEF None
  <2> QED BY <1>2, <1>4, <1>9, <2>1, NoTokenIs
<1>12. None # "open" /\ None # "close"
  BY DEF None
<1>13. Holds(lx, tok, may, taken)
  BY <1>4, <1>7, <1>10, <1>11, <1>12, NoTokenIs DEF Holds, Stashed
<1> QED BY <1>1, <1>13 DEF LexInv

(* The source stays as it is.                                                *)
LEMMA SameText ==
    ASSUME TextInv, text' = text, Holds(lx', tok', may', taken')
    PROVE  LexInv'
<1>1. n' = n
  BY DEF n
<1>2. TextInv'
  BY DEF TextInv
<1>3. FrameSet' = FrameSet
  BY <1>1 DEF FrameSet, Positions, Modes
<1>4. Good(lx') => Good(lx)'
  BY <1>1, <1>3 DEF Good, LexerSet, Bounded, Lies, OnTop
<1>5. Cost(lx)' = Cost(lx')
  BY <1>1 DEF Cost
<1>6. \A j : At(j)' = At(j)
  BY DEF At, n
<1>7. \A j : is_space(j)' <=> is_space(j)
  BY <1>6 DEF is_space
<1>8. Stashed(lx') => Stashed(lx)'
  BY DEF Stashed
<1>9. Waits(tok', lx') => Waits(tok, lx)'
  BY <1>1, <1>7 DEF Waits, Ends, Joins, Gap, AtEnd
<1>10. Comes(tok', lx'.peeked, lx') => Comes(tok, lx.peeked, lx)'
  BY <1>1, <1>6, <1>7 DEF Comes, Ends, Joins, Gap, AtEnd, Breaks
<1> QED BY <1>1, <1>2, <1>4, <1>5, <1>8, <1>9, <1>10 DEF LexInv, Holds

LEMMA StepHolds == LexInv /\ [Next]_vars => LexInv'
<1> SUFFICES ASSUME LexInv, [Next]_vars PROVE LexInv'
  OBVIOUS
<1>1. TextInv /\ Holds(lx, tok, may, taken)
  BY DEF LexInv
<1>2. text' = text
  BY DEF Next, NextToken, Peek, OpenMarkup, CloseElement, vars
<1>3. CASE NextToken
  <2>1. /\ lx' = lex_next(lx).lx /\ tok' = lex_next(lx).t /\ may' = Tellable(open, lex_next(lx).t)
        /\ taken' = IF tok.kind = "EOF" THEN taken ELSE taken + 1
    BY <1>3 DEF NextToken
  <2>2. Holds(lex_next(lx).lx, lex_next(lx).t, Tellable(open, lex_next(lx).t),
              IF tok.kind = "EOF" THEN taken ELSE taken + 1)
    BY <1>1, NextHolds
  <2>3. Holds(lx', tok', may', taken')
    BY <2>1, <2>2
  <2> QED BY <1>1, <1>2, <2>3, SameText
<1>4. CASE Peek
  <2>1. lx' = lex_peek(lx) /\ tok' = tok /\ may' = may /\ taken' = taken /\ lx.peeked = NoToken
    BY <1>4 DEF Peek
  <2>2. Holds(lex_peek(lx), tok, may, taken)
    BY <1>1, <2>1, PeekHolds
  <2>3. Holds(lx', tok', may', taken')
    BY <2>1, <2>2
  <2> QED BY <1>1, <1>2, <2>3, SameText
<1>5. CASE OpenMarkup
  <2>1. /\ lx' = push_frame(lx, "TAG", tok.start, "EOF") /\ tok' = tok /\ may' = None /\ taken' = taken
        /\ lx.peeked = NoToken /\ may = "open"
    BY <1>5 DEF OpenMarkup
  <2>2. Holds(push_frame(lx, "TAG", tok.start, "EOF"), tok, None, taken)
    <3>1. Holds(lx, tok, "open", taken)
      BY <1>1, <2>1
    <3> QED BY <1>1, <2>1, <3>1, OpenHolds
  <2>3. Holds(lx', tok', may', taken')
    BY <2>1, <2>2
  <2> QED BY <1>1, <1>2, <2>3, SameText
<1>6. CASE CloseElement
  <2> DEFINE m == IF Top(lx).mode \in {"CONTENT", "TAG"} THEN pop_frame(lx) ELSE lx
  <2>1. lx' = m /\ tok' = tok /\ may' = None /\ taken' = taken /\ lx.peeked = NoToken /\ may = "close"
    BY <1>6 DEF CloseElement
  <2>2. Holds(m, tok, None, taken)
    <3>1. Holds(lx, tok, "close", taken)
      BY <1>1, <2>1
    <3> QED BY <1>1, <2>1, <3>1, CloseHolds
  <2> HIDE DEF m
  <2>3. Holds(lx', tok', may', taken')
    BY <2>1, <2>2
  <2> QED BY <1>1, <1>2, <2>3, SameText
<1>7. CASE UNCHANGED vars
  <2>1. lx' = lx /\ tok' = tok /\ may' = may /\ taken' = taken
    BY <1>7 DEF vars
  <2>2. Holds(lx', tok', may', taken')
    BY <1>1, <2>1
  <2> QED BY <1>1, <1>2, <2>2, SameText
<1> QED BY <1>3, <1>4, <1>5, <1>6, <1>7 DEF Next

(* The invariant holds: whatever the source and the calls, the levels of     *)
(* lex.c stay well formed, nothing is skipped unrecorded between the last    *)
(* token and the cursor, and the calls left are bounded.                     *)
THEOREM LexerInvariant == Spec => []LexInv
<1> QED BY InitHolds, StepHolds, PTL DEF Spec

LEMMA LexInvIsTyped == LexInv => TypeOK
<1> SUFFICES ASSUME LexInv PROVE TypeOK
  OBVIOUS
<1>1. TextInv /\ Holds(lx, tok, may, taken) /\ Good(lx) /\ tok \in TokenSet
  BY DEF LexInv, Holds
<1>2. n \in Nat /\ lx.i \in 0 .. n
  BY <1>1, TextIs DEF Good
<1>3. Bounded(lx.stack, lx.i)
  BY <1>1 DEF Good
<1>4. tok.start \in Nat /\ tok.end \in Nat /\ tok.start <= tok.end /\ tok.end <= n
  <2>1. tok.start <= tok.end /\ tok.end <= lx.i
    BY <1>1 DEF Holds
  <2> QED BY <1>1, <1>2, <2>1 DEF TokenSet
<1>5. ASSUME NEW p, NEW t, Joins(p, t, lx) PROVE t.start \in Positions /\ t.end \in Positions
  BY <1>2, <1>5 DEF Joins, TokenSet, Positions
<1>6. NoToken.start \in Positions /\ NoToken.end \in Positions
  BY <1>2, NoTokenIs DEF Positions
<1>7. lx.stash.start \in Positions /\ lx.stash.end \in Positions
  BY <1>1, <1>5, <1>6 DEF Holds, Waits, Comes, Ends
<1>8. lx.peeked.start \in Positions /\ lx.peeked.end \in Positions
  BY <1>1, <1>5, <1>6 DEF Holds, Comes
<1>9. tok.start \in Positions /\ tok.end \in Positions
  BY <1>2, <1>4 DEF Positions
<1>10. DOMAIN lx.stack = 1 .. Len(lx.stack) /\ Head(lx.stack) = lx.stack[1]
  BY <1>3 DEF Bounded
<1>11. \A k \in DOMAIN lx.stack : lx.stack[k] \in FrameSet
  BY <1>3, <1>10 DEF Bounded, Lies
<1>12. may \in {"open", "close", None}
  BY <1>1 DEF Holds
<1>13. \A t \in {tok, lx.stash, lx.peeked} : t.start \in Positions /\ t.end \in Positions
  BY <1>7, <1>8, <1>9
<1> QED BY <1>2, <1>3, <1>10, <1>11, <1>12, <1>13 DEF TypeOK, Positions, Bounded

(* The lexer never holds more than MaxDepth levels (LEX_MAX_DEPTH, lex.c)    *)
(* and no position of it leaves the source, for every source.                *)
THEOREM LexerIsTyped == Spec => []TypeOK
<1> QED BY LexerInvariant, LexInvIsTyped, PTL

LEMMA LexInvBoundsCalls == LexInv => CallsBounded
<1> SUFFICES ASSUME LexInv PROVE CallsBounded
  OBVIOUS
<1>1. TextInv /\ Holds(lx, tok, may, taken) /\ Good(lx)
  BY DEF LexInv, Holds
<1>2. n \in Nat /\ Cost(lx) \in Nat /\ Due(lx.peeked) \in Nat /\ Due(lx.stash) \in Nat
  BY <1>1, TextIs, CostIs DEF Due
<1>3. taken \in Nat
      /\ taken + Due(lx.peeked) + Due(lx.stash) + Cost(lx) <= 2 * n + (IF tok.kind = "EOF" THEN 1 ELSE 0)
  BY <1>1 DEF Holds
<1>4. taken <= 2 * n + 1
  BY <1>2, <1>3
<1> QED BY <1>4 DEF CallsBounded

(* lex_next gives the end within two calls for each character and one more,  *)
(* for every source (lex.h:14-17).                                           *)
THEOREM LexerCallsBounded == Spec => []CallsBounded
<1> QED BY LexerInvariant, LexInvBoundsCalls, PTL

(* What a token that is taken follows.                                       *)
LEMMA TakingComes ==
    ASSUME LexInv, [Next]_vars, tok' # tok
    PROVE  \E m : /\ Comes(tok, tok', m) /\ Good(m) /\ m.prev = lx.prev
                  /\ lx'.comments = m.comments /\ lx'.reports = m.reports
<1>1. TextInv /\ Holds(lx, tok, may, taken)
  BY DEF LexInv
<1>2. NextToken
  BY DEF Next, Peek, OpenMarkup, CloseElement, vars
<1>3. lx' = lex_next(lx).lx /\ tok' = lex_next(lx).t
  BY <1>2 DEF NextToken
<1>4. \E m : Good(m) /\ Comes(tok, lex_next(lx).t, m) /\ m.prev = lx.prev /\ Alike(m, lex_next(lx).lx)
  BY <1>1, NextComes
<1> QED BY <1>3, <1>4 DEF Alike

LEMMA TakingLosesNothing ==
    ASSUME LexInv, [Next]_vars, Taking
    PROVE  /\ tok.end <= tok'.start /\ tok'.start <= tok'.end
           /\ \A j \in tok.end .. tok'.start - 1 :
                 \/ is_space(j)
                 \/ InComment(j, lx'.comments)
                 \/ <<"UNEXPECTED_CHAR", j>> \in lx'.reports
<1>1. PICK m : /\ Comes(tok, tok', m)
               /\ lx'.comments = m.comments /\ lx'.reports = m.reports
  BY TakingComes DEF Taking
<1>2. tok.end <= tok'.start /\ tok'.start <= tok'.end /\ Gap(tok.end, tok'.start, m)
  BY <1>1 DEF Comes, Joins
<1>3. \A j \in tok.end .. tok'.start - 1 :
         \/ is_space(j)
         \/ InComment(j, lx'.comments)
         \/ <<"UNEXPECTED_CHAR", j>> \in lx'.reports
  BY <1>1, <1>2 DEF Gap, Unread
<1> QED BY <1>2, <1>3

(* Between two tokens lex_next gives, only space, recorded comments and      *)
(* reported characters are skipped, through lookahead and pushing back.      *)
THEOREM NothingIsLost == Spec => NothingLost
<1>1. LexInv /\ [Next]_vars =>
        [Taking =>
           /\ tok.end <= tok'.start /\ tok'.start <= tok'.end
           /\ \A j \in tok.end .. tok'.start - 1 :
                 \/ is_space(j)
                 \/ InComment(j, lx'.comments)
                 \/ <<"UNEXPECTED_CHAR", j>> \in lx'.reports]_vars
  BY TakingLosesNothing
<1> QED BY <1>1, LexerInvariant, PTL DEF Spec, NothingLost

LEMMA TakingKeepsLines ==
    ASSUME LexInv, [Next]_vars, Taking
    PROVE  /\ tok'.kind = "NEWLINE" =>
                 /\ tok.kind \notin {None, "NEWLINE"} \cup Continuation
                 /\ At(tok'.start) = "nl"
           /\ tok.kind = "NEWLINE" => tok'.kind \notin {"NEWLINE", "EOF"} \cup Follow
           /\ /\ tok'.mode = "NORMAL" /\ tok'.kind # "NEWLINE" /\ tok.kind # "NEWLINE"
              /\ NewlineBetween(tok.end, tok'.start)
              => \/ tok.kind \in {None} \cup Continuation
                 \/ tok'.kind \in {"EOF", "INTERP_END", "CTRL_END"} \cup Follow
<1>1. PICK m : /\ Comes(tok, tok', m) /\ m.prev = lx.prev
               /\ lx'.comments = m.comments /\ lx'.reports = m.reports
  BY TakingComes DEF Taking
<1>2. tok.kind # "NEWLINE" => m.prev = tok.kind
  BY <1>1 DEF LexInv, Holds
<1>3. tok'.kind = "NEWLINE" => ~ Continues(m.prev) /\ At(tok'.start) = "nl" /\ tok.kind # "NEWLINE"
  BY <1>1 DEF Comes
<1>4. tok.kind = "NEWLINE" => ~ Follows(tok'.kind)
  BY <1>1 DEF Comes
<1>5. tok'.kind # "NEWLINE" /\ tok.kind # "NEWLINE" /\ tok'.mode = "NORMAL" /\ Breaks(tok.end, tok'.start, m)
      => Continues(m.prev) \/ Follows(tok'.kind)
  BY <1>1 DEF Comes
<1>6. NewlineBetween(tok.end, tok'.start) => Breaks(tok.end, tok'.start, m)
  BY <1>1 DEF NewlineBetween, Breaks, Unread
<1>7. tok'.kind = "NEWLINE" => tok.kind \notin {None, "NEWLINE"} \cup Continuation
  BY <1>2, <1>3 DEF Continues
<1>8. tok.kind = "NEWLINE" => tok'.kind \notin {"NEWLINE", "EOF"} \cup Follow
  BY <1>3, <1>4 DEF Follows
<1>9. /\ tok'.mode = "NORMAL" /\ tok'.kind # "NEWLINE" /\ tok.kind # "NEWLINE"
      /\ NewlineBetween(tok.end, tok'.start)
      => tok.kind \in {None} \cup Continuation \/ tok'.kind \in {"EOF", "INTERP_END", "CTRL_END"} \cup Follow
  BY <1>2, <1>5, <1>6 DEF Continues, Follows
<1> QED BY <1>3, <1>7, <1>8, <1>9

(* lex_next gives an end of line where the line-structure rule has one, and  *)
(* nowhere else (advance_normal), for every source and every use of          *)
(* lex_peek; before the `}` of an interpolation or a directive it may.       *)
THEOREM LinesAreStructured == Spec => LineStructure
<1>1. LexInv /\ [Next]_vars =>
        [Taking =>
           /\ tok'.kind = "NEWLINE" =>
                 /\ tok.kind \notin {None, "NEWLINE"} \cup Continuation
                 /\ At(tok'.start) = "nl"
           /\ tok.kind = "NEWLINE" => tok'.kind \notin {"NEWLINE", "EOF"} \cup Follow
           /\ /\ tok'.mode = "NORMAL" /\ tok'.kind # "NEWLINE" /\ tok.kind # "NEWLINE"
              /\ NewlineBetween(tok.end, tok'.start)
              => \/ tok.kind \in {None} \cup Continuation
                 \/ tok'.kind \in {"EOF", "INTERP_END", "CTRL_END"} \cup Follow]_vars
  BY TakingKeepsLines
<1> QED BY <1>1, LexerInvariant, PTL DEF Spec, LineStructure

-----------------------------------------------------------------------------
(* What is open, as the parser counts it, and the levels of the lexer.       *)

Whats == {"brace", "str", "interp", "ctrl", "tag", "elem", "closing"}
Opens == Seq([what : Whats, at : Nat])

(* The token that opened the level f.                                        *)
What(f) ==
    IF f.mode = "STR" THEN "str"
    ELSE IF f.mode = "CONTENT" THEN "elem"
    ELSE IF f.mode = "TAG" THEN (IF f.close_tag THEN "closing" ELSE "tag")
    ELSE IF f.close = "INTERP_END" THEN "interp" ELSE "ctrl"
Opening(f) == [what |-> What(f), at |-> f.open_at]

(* Level k but the first is what the g[k]-th opened; above it are its braces, *)
(* and then the next level.                                                  *)
NestsBy(o, s, g) ==
    /\ g \in [1 .. Len(s) -> Nat] /\ g[1] = 0
    /\ Len(o) = g[Len(s)] + s[Len(s)].depth
    /\ \A k \in 1 .. Len(s) - 1 : g[k + 1] = g[k] + s[k].depth + 1
    /\ \A k, m \in 1 .. Len(s) : k < m => g[k] + s[k].depth < g[m]
    /\ \A k \in 2 .. Len(s) : o[g[k]] = Opening(s[k])
    /\ \A k \in 1 .. Len(s) : \A j \in g[k] + 1 .. g[k] + s[k].depth : o[j].what = "brace"
Nests(o, s) == o \in Opens /\ \E g : NestsBy(o, s, g)

LEMMA OpensIs ==
    ASSUME NEW o \in Opens
    PROVE  /\ Len(o) \in Nat /\ DOMAIN o = 1 .. Len(o)
           /\ \A j \in 1 .. Len(o) : o[j] \in [what : Whats, at : Nat]
           /\ o # <<>> <=> Len(o) > 0
           /\ o # <<>> => Last(o) = o[Len(o)] /\ Last(o) \in [what : Whats, at : Nat]
<1> DEFINE S == [what : Whats, at : Nat]
<1>1. o \in Seq(S)
  BY DEF Opens
<1> HIDE DEF S
<1>2. Len(o) \in Nat /\ DOMAIN o = 1 .. Len(o) /\ \A j \in 1 .. Len(o) : o[j] \in S
  BY <1>1
<1>3. o # <<>> <=> Len(o) > 0
  BY <1>1
<1>4. Last(o) = o[Len(o)]
  BY DEF Last
<1>5. o # <<>> => Len(o) \in 1 .. Len(o)
  BY <1>2, <1>3
<1> QED BY <1>2, <1>3, <1>4, <1>5 DEF S

LEMMA FrontIs ==
    ASSUME NEW S, NEW o \in Seq(S), o # <<>>
    PROVE  /\ Front(o) \in Seq(S) /\ Len(Front(o)) = Len(o) - 1 /\ Len(o) > 0
           /\ \A j \in 1 .. Len(o) - 1 : Front(o)[j] = o[j]
<1>1. Len(o) \in Nat /\ Len(o) > 0
  OBVIOUS
<1>2. Front(o) = SubSeq(o, 1, Len(o) - 1)
  BY DEF Front
<1> DEFINE k == Len(o) - 1
<1>3. k \in Nat /\ k <= Len(o)
  BY <1>1
<1> HIDE DEF k
<1>4. SubSeq(o, 1, k) \in Seq(S) /\ Len(SubSeq(o, 1, k)) = k /\ \A j \in 1 .. k : SubSeq(o, 1, k)[j] = o[j]
  BY <1>3
<1> QED BY <1>1, <1>2, <1>4 DEF k

LEMMA BecomesIs ==
    ASSUME NEW o \in Opens, o # <<>>, NEW w \in Whats
    PROVE  /\ Becomes(o, w) \in Opens /\ Len(Becomes(o, w)) = Len(o)
           /\ \A j \in 1 .. Len(o) - 1 : Becomes(o, w)[j] = o[j]
           /\ Becomes(o, w)[Len(o)] = [what |-> w, at |-> o[Len(o)].at]
<1> DEFINE e == [what |-> w, at |-> Last(o).at]
           p == Front(o)
           S == [what : Whats, at : Nat]
<1>1. e \in S /\ e = [what |-> w, at |-> o[Len(o)].at]
  BY OpensIs
<1>2. p \in Seq(S) /\ Len(p) = Len(o) - 1 /\ (\A j \in 1 .. Len(o) - 1 : p[j] = o[j]) /\ Len(o) \in Nat /\ Len(o) > 0
  BY FrontIs, OpensIs DEF Opens
<1>3. Becomes(o, w) = Append(p, e)
  BY DEF Becomes, Opened
<1> HIDE DEF e, p, S
<1>4. /\ Append(p, e) \in Seq(S) /\ Len(Append(p, e)) = Len(p) + 1
      /\ Append(p, e)[Len(p) + 1] = e /\ \A j \in 1 .. Len(p) : Append(p, e)[j] = p[j]
  BY <1>1, <1>2
<1>5. Len(p) + 1 = Len(o) /\ 1 .. Len(p) = 1 .. Len(o) - 1
  BY <1>2
<1> QED BY <1>1, <1>2, <1>3, <1>4, <1>5 DEF S, Opens

LEMMA OpenedIs ==
    ASSUME NEW o \in Opens, NEW w \in Whats, NEW at \in Nat
    PROVE  /\ Opened(o, w, at) \in Opens /\ Len(Opened(o, w, at)) = Len(o) + 1
           /\ \A j \in 1 .. Len(o) : Opened(o, w, at)[j] = o[j]
           /\ Opened(o, w, at)[Len(o) + 1] = [what |-> w, at |-> at]
<1> DEFINE e == [what |-> w, at |-> at]
           S == [what : Whats, at : Nat]
<1>1. e \in S /\ o \in Seq(S) /\ Opened(o, w, at) = Append(o, e)
  BY DEF Opened, Opens
<1> HIDE DEF e, S
<1>2. /\ Append(o, e) \in Seq(S) /\ Len(Append(o, e)) = Len(o) + 1
      /\ Append(o, e)[Len(o) + 1] = e /\ \A j \in 1 .. Len(o) : Append(o, e)[j] = o[j]
  BY <1>1
<1> QED BY <1>1, <1>2 DEF S, Opens, e

(* A stack of levels, as far as its nesting goes.                            *)
Stack(s) ==
    /\ s \in Seq(FrameSet) /\ Len(s) \in Nat /\ Len(s) >= 1
    /\ \A k \in 1 .. Len(s) : s[k].depth \in Nat /\ s[k].open_at \in Nat

LEMMA NestsTop ==
    ASSUME NEW o, NEW s, Nests(o, s), Stack(s)
    PROVE  LET f == s[Len(s)]
           IN  /\ f.depth > 0 => TopIs(o, {"brace"})
               /\ f.depth = 0 /\ Len(s) > 1 => o # <<>> /\ Last(o) = Opening(f)
               /\ f.depth = 0 /\ Len(s) = 1 => o = <<>>
<1> DEFINE d == Len(s)
           f == s[d]
<1>1. PICK g : NestsBy(o, s, g)
  BY DEF Nests
<1>2. o \in Opens /\ Len(o) \in Nat
  BY OpensIs DEF Nests
<1>3. d \in Nat /\ d >= 1 /\ f.depth \in Nat /\ d \in 1 .. d
  BY DEF Stack
<1>4. g[d] \in Nat /\ Len(o) = g[d] + f.depth
  BY <1>1, <1>3 DEF NestsBy
<1>5. \A j \in g[d] + 1 .. g[d] + f.depth : o[j].what = "brace"
  BY <1>1, <1>3 DEF NestsBy
<1>6. d > 1 => o[g[d]] = Opening(f) /\ g[d] > 0
  <2> SUFFICES ASSUME d > 1 PROVE o[g[d]] = Opening(f) /\ g[d] > 0
    OBVIOUS
  <2>1. d \in 2 .. d /\ d - 1 \in 1 .. d /\ d - 1 < d
    BY <1>3
  <2>2. o[g[d]] = Opening(f)
    BY <1>1, <2>1 DEF NestsBy
  <2>3. g[d - 1] + s[d - 1].depth < g[d] /\ g[d - 1] \in Nat /\ s[d - 1].depth \in Nat
    BY <1>1, <1>3, <2>1 DEF NestsBy, Stack
  <2> QED BY <1>4, <2>2, <2>3
<1>7. d = 1 => g[d] = 0
  BY <1>1 DEF NestsBy
<1> HIDE DEF d, f
<1>8. f.depth > 0 => TopIs(o, {"brace"})
  <2> SUFFICES ASSUME f.depth > 0 PROVE TopIs(o, {"brace"})
    OBVIOUS
  <2>1. Len(o) \in g[d] + 1 .. g[d] + f.depth /\ Len(o) > 0
    BY <1>3, <1>4
  <2>2. o # <<>> /\ Last(o) = o[Len(o)]
    BY <1>2, <2>1, OpensIs
  <2> QED BY <1>5, <2>1, <2>2 DEF TopIs
<1>9. f.depth = 0 /\ d > 1 => o # <<>> /\ Last(o) = Opening(f)
  BY <1>2, <1>3, <1>4, <1>6, OpensIs
<1>10. f.depth = 0 /\ d = 1 => o = <<>>
  BY <1>2, <1>3, <1>4, <1>7, OpensIs
<1> QED BY <1>8, <1>9, <1>10 DEF d, f

(* The innermost level changes, and with it only what lies above it.         *)
LEMMA NestsBecome ==
    ASSUME NEW o, NEW s, NEW g, NestsBy(o, s, g), Stack(s),
           NEW p, NEW u, NEW f, u = [s EXCEPT ![Len(s)] = f],
           f.depth \in Nat, Len(p) = g[Len(s)] + f.depth,
           \A j \in 1 .. g[Len(s)] - 1 : p[j] = o[j],
           Len(s) > 1 => p[g[Len(s)]] = Opening(f),
           \A j \in g[Len(s)] + 1 .. g[Len(s)] + f.depth : p[j].what = "brace"
    PROVE  NestsBy(p, u, g)
<1> DEFINE d == Len(s)
<1>1. /\ d \in Nat /\ d >= 1 /\ d \in 1 .. d /\ 1 \in 1 .. d
      /\ \A k \in 1 .. d : s[k].depth \in Nat
  BY DEF Stack
<1>2. Len(u) = d /\ u[d] = f /\ \A k \in 1 .. d : k # d => u[k] = s[k]
  BY DEF Stack
<1>3. /\ g \in [1 .. d -> Nat] /\ g[1] = 0
      /\ \A k \in 1 .. d - 1 : g[k + 1] = g[k] + s[k].depth + 1
      /\ \A k, m \in 1 .. d : k < m => g[k] + s[k].depth < g[m]
      /\ \A k \in 2 .. d : o[g[k]] = Opening(s[k])
      /\ \A k \in 1 .. d : \A j \in g[k] + 1 .. g[k] + s[k].depth : o[j].what = "brace"
  BY DEF NestsBy
<1>4. /\ Len(p) = g[d] + f.depth /\ \A j \in 1 .. g[d] - 1 : p[j] = o[j]
  OBVIOUS
<1>5. d > 1 => p[g[d]] = Opening(f)
  OBVIOUS
<1>6. \A j \in g[d] + 1 .. g[d] + f.depth : p[j].what = "brace"
  OBVIOUS
<1> HIDE DEF d
<1>7. \A k \in 1 .. d - 1 : g[k + 1] = g[k] + u[k].depth + 1
  BY <1>1, <1>2, <1>3
<1>8. \A k, m \in 1 .. d : k < m => g[k] + u[k].depth < g[m]
  BY <1>1, <1>2, <1>3
<1>9. \A k \in 2 .. d : p[g[k]] = Opening(u[k])
  <2> SUFFICES ASSUME NEW k \in 2 .. d PROVE p[g[k]] = Opening(u[k])
    OBVIOUS
  <2>1. CASE k = d
    BY <1>1, <1>2, <1>5, <2>1
  <2>2. CASE k # d
    <3>1. k \in 1 .. d /\ k < d /\ 1 < k
      BY <1>1, <2>2
    <3>2. g[k] + s[k].depth < g[d] /\ g[1] + s[1].depth < g[k]
      BY <1>1, <1>3, <3>1
    <3>3. g[k] \in Nat /\ g[d] \in Nat /\ s[k].depth \in Nat /\ s[1].depth \in Nat /\ g[1] = 0
      BY <1>1, <1>3, <3>1
    <3>4. g[k] \in 1 .. g[d] - 1
      BY <3>2, <3>3
    <3>5. p[g[k]] = o[g[k]]
      BY <1>4, <3>4
    <3> QED BY <1>2, <1>3, <2>2, <3>1, <3>5
  <2> QED BY <2>1, <2>2
<1>10. \A k \in 1 .. d : \A j \in g[k] + 1 .. g[k] + u[k].depth : p[j].what = "brace"
  <2> SUFFICES ASSUME NEW k \in 1 .. d, NEW j \in g[k] + 1 .. g[k] + u[k].depth PROVE p[j].what = "brace"
    OBVIOUS
  <2>1. CASE k = d
    BY <1>2, <1>1, <1>6, <2>1
  <2>2. CASE k # d
    <3>1. k < d
      BY <1>1, <2>2
    <3>2. g[k] + s[k].depth < g[d] /\ u[k] = s[k]
      BY <1>1, <1>2, <1>3, <2>2, <3>1
    <3>3. g[k] \in Nat /\ g[d] \in Nat /\ s[k].depth \in Nat
      BY <1>1, <1>3
    <3>4. j \in 1 .. g[d] - 1 /\ j \in g[k] + 1 .. g[k] + s[k].depth
      BY <3>2, <3>3
    <3>5. p[j] = o[j] /\ o[j].what = "brace"
      BY <1>3, <1>4, <3>4
    <3> QED BY <3>5
  <2> QED BY <2>1, <2>2
<1>11. Len(p) = g[d] + u[d].depth
  BY <1>2, <1>4
<1> QED BY <1>2, <1>3, <1>7, <1>8, <1>9, <1>10, <1>11 DEF NestsBy

LEMMA NestsTurn ==
    ASSUME NEW o, NEW s, Nests(o, s), Stack(s), Len(s) > 1,
           NEW f, f.depth = 0, s[Len(s)].depth = 0, f.open_at = s[Len(s)].open_at, What(f) \in Whats
    PROVE  Nests(Becomes(o, What(f)), [s EXCEPT ![Len(s)] = f])
<1> DEFINE d == Len(s)
           p == Becomes(o, What(f))
<1>1. PICK g : NestsBy(o, s, g)
  BY DEF Nests
<1>2. o \in Opens /\ Len(o) \in Nat /\ d \in Nat
  BY OpensIs DEF Nests, Stack
<1>3. o # <<>> /\ Last(o) = Opening(s[d]) /\ Last(o) = o[Len(o)]
  BY <1>2, NestsTop, OpensIs
<1>4. /\ p \in Opens /\ Len(p) = Len(o) /\ (\A j \in 1 .. Len(o) - 1 : p[j] = o[j])
      /\ p[Len(o)] = [what |-> What(f), at |-> o[Len(o)].at]
  BY <1>2, <1>3, BecomesIs
<1>5. o[Len(o)].at = f.open_at
  BY <1>3 DEF Opening
<1>6. Len(o) = g[d] + s[d].depth
  BY <1>1 DEF NestsBy
<1>7. g[d] = Len(o)
  BY <1>1, <1>2, <1>6 DEF NestsBy
<1>8. p[g[d]] = Opening(f)
  BY <1>4, <1>5, <1>7 DEF Opening
<1> HIDE DEF p
<1>9. NestsBy(p, [s EXCEPT ![Len(s)] = f], g)
  <2>1. f.depth \in Nat /\ Len(p) = g[Len(s)] + f.depth
    BY <1>2, <1>4, <1>7
  <2>2. \A j \in 1 .. g[Len(s)] - 1 : p[j] = o[j]
    BY <1>4, <1>7
  <2>3. \A j \in g[Len(s)] + 1 .. g[Len(s)] + f.depth : p[j].what = "brace"
    BY <1>2, <1>7
  <2> QED BY <1>1, <1>8, <2>1, <2>2, <2>3, NestsBecome
<1> QED BY <1>4, <1>9 DEF Nests, p

LEMMA NestsSame ==
    ASSUME NEW o, NEW s, Nests(o, s), Stack(s),
           NEW f, f.depth = s[Len(s)].depth, Opening(f) = Opening(s[Len(s)])
    PROVE  Nests(o, [s EXCEPT ![Len(s)] = f])
<1> DEFINE d == Len(s)
<1>1. PICK g : NestsBy(o, s, g)
  BY DEF Nests
<1>2. o \in Opens /\ Len(o) \in Nat /\ d \in Nat /\ d \in 1 .. d /\ s[d].depth \in Nat
  BY OpensIs DEF Nests, Stack
<1>3. Len(o) = g[d] + s[d].depth /\ \A j \in g[d] + 1 .. g[d] + s[d].depth : o[j].what = "brace"
  BY <1>1, <1>2 DEF NestsBy
<1>4. d > 1 => o[g[d]] = Opening(f)
  <2>1. d > 1 => d \in 2 .. d
    BY <1>2
  <2> QED BY <1>1, <2>1 DEF NestsBy
<1>5. NestsBy(o, [s EXCEPT ![Len(s)] = f], g)
  BY <1>1, <1>2, <1>3, <1>4, NestsBecome
<1> QED BY <1>2, <1>5 DEF Nests

LEMMA NestsDeeper ==
    ASSUME NEW o, NEW s, Nests(o, s), Stack(s), NEW at \in Nat,
           NEW f, f.depth = s[Len(s)].depth + 1, Opening(f) = Opening(s[Len(s)])
    PROVE  Nests(Opened(o, "brace", at), [s EXCEPT ![Len(s)] = f])
<1> DEFINE d == Len(s)
           p == Opened(o, "brace", at)
<1>1. PICK g : NestsBy(o, s, g)
  BY DEF Nests
<1>2. o \in Opens /\ Len(o) \in Nat /\ d \in Nat /\ d >= 1 /\ d \in 1 .. d /\ s[d].depth \in Nat
  BY OpensIs DEF Nests, Stack
<1>3. /\ p \in Opens /\ Len(p) = Len(o) + 1 /\ (\A j \in 1 .. Len(o) : p[j] = o[j])
      /\ p[Len(o) + 1] = [what |-> "brace", at |-> at]
  BY <1>2, OpenedIs DEF Whats
<1>4. /\ Len(o) = g[d] + s[d].depth /\ g[d] \in Nat
      /\ \A j \in g[d] + 1 .. g[d] + s[d].depth : o[j].what = "brace"
  BY <1>1, <1>2 DEF NestsBy
<1>5. d > 1 => o[g[d]] = Opening(f) /\ g[d] > 0
  <2> SUFFICES ASSUME d > 1 PROVE o[g[d]] = Opening(f) /\ g[d] > 0
    OBVIOUS
  <2>1. d \in 2 .. d /\ 1 \in 1 .. d /\ 1 < d
    BY <1>2
  <2>2. o[g[d]] = Opening(s[d])
    BY <1>1, <2>1 DEF NestsBy
  <2>3. g[1] + s[1].depth < g[d] /\ g[1] = 0 /\ s[1].depth \in Nat
    BY <1>1, <1>2, <2>1 DEF NestsBy, Stack
  <2> QED BY <1>4, <2>2, <2>3
<1> HIDE DEF p
<1>6. f.depth \in Nat /\ Len(p) = g[d] + f.depth
  BY <1>2, <1>3, <1>4
<1>7. \A j \in 1 .. g[d] - 1 : p[j] = o[j]
  BY <1>2, <1>3, <1>4
<1>8. d > 1 => p[g[d]] = Opening(f)
  BY <1>2, <1>3, <1>4, <1>5
<1>9. \A j \in g[d] + 1 .. g[d] + f.depth : p[j].what = "brace"
  <2> SUFFICES ASSUME NEW j \in g[d] + 1 .. g[d] + f.depth PROVE p[j].what = "brace"
    OBVIOUS
  <2>1. CASE j = Len(o) + 1
    BY <1>3, <2>1
  <2>2. CASE j # Len(o) + 1
    <3>1. j \in g[d] + 1 .. g[d] + s[d].depth /\ j \in 1 .. Len(o)
      BY <1>2, <1>4, <2>2
    <3> QED BY <1>3, <1>4, <3>1
  <2> QED BY <2>1, <2>2
<1>10. NestsBy(p, [s EXCEPT ![Len(s)] = f], g)
  BY <1>1, <1>6, <1>7, <1>8, <1>9, NestsBecome
<1> QED BY <1>3, <1>10 DEF Nests, p

LEMMA NestsShallower ==
    ASSUME NEW o, NEW s, Nests(o, s), Stack(s), s[Len(s)].depth > 0,
           NEW f, f.depth = s[Len(s)].depth - 1, Opening(f) = Opening(s[Len(s)])
    PROVE  Nests(Front(o), [s EXCEPT ![Len(s)] = f])
<1> DEFINE d == Len(s)
           p == Front(o)
<1>1. PICK g : NestsBy(o, s, g)
  BY DEF Nests
<1>2. o \in Opens /\ Len(o) \in Nat /\ d \in Nat /\ d >= 1 /\ d \in 1 .. d /\ s[d].depth \in Nat
  BY OpensIs DEF Nests, Stack
<1>3. /\ Len(o) = g[d] + s[d].depth /\ g[d] \in Nat
      /\ \A j \in g[d] + 1 .. g[d] + s[d].depth : o[j].what = "brace"
  BY <1>1, <1>2 DEF NestsBy
<1>4. o # <<>>
  BY <1>2, <1>3, OpensIs
<1>5. p \in Opens /\ Len(p) = Len(o) - 1 /\ (\A j \in 1 .. Len(o) - 1 : p[j] = o[j])
  BY <1>2, <1>4, FrontIs DEF Opens
<1>6. d > 1 => o[g[d]] = Opening(f) /\ g[d] > 0
  <2> SUFFICES ASSUME d > 1 PROVE o[g[d]] = Opening(f) /\ g[d] > 0
    OBVIOUS
  <2>1. d \in 2 .. d /\ 1 \in 1 .. d /\ 1 < d
    BY <1>2
  <2>2. o[g[d]] = Opening(s[d])
    BY <1>1, <2>1 DEF NestsBy
  <2>3. g[1] + s[1].depth < g[d] /\ g[1] = 0 /\ s[1].depth \in Nat
    BY <1>1, <1>2, <2>1 DEF NestsBy, Stack
  <2> QED BY <1>3, <2>2, <2>3
<1> HIDE DEF p
<1>7. f.depth \in Nat /\ Len(p) = g[d] + f.depth
  BY <1>2, <1>3, <1>5
<1>8. \A j \in 1 .. g[d] - 1 : p[j] = o[j]
  BY <1>2, <1>3, <1>5
<1>9. d > 1 => p[g[d]] = Opening(f)
  BY <1>2, <1>3, <1>5, <1>6
<1>10. \A j \in g[d] + 1 .. g[d] + f.depth : p[j].what = "brace"
  BY <1>2, <1>3, <1>5
<1>11. NestsBy(p, [s EXCEPT ![Len(s)] = f], g)
  BY <1>1, <1>7, <1>8, <1>9, <1>10, NestsBecome
<1> QED BY <1>5, <1>11 DEF Nests, p

LEMMA NestsPush ==
    ASSUME NEW o, NEW s, Nests(o, s), Stack(s),
           NEW f, f.depth = 0, f.open_at \in Nat, What(f) \in Whats
    PROVE  Nests(Opened(o, What(f), f.open_at), Append(s, f))
<1> DEFINE d == Len(s)
           u == Append(s, f)
           p == Opened(o, What(f), f.open_at)
<1>1. PICK g : NestsBy(o, s, g)
  BY DEF Nests
<1>2. o \in Opens /\ Len(o) \in Nat /\ d \in Nat /\ d >= 1 /\ d \in 1 .. d
  BY OpensIs DEF Nests, Stack
<1> DEFINE e == Len(o) + 1
           h == [k \in 1 .. d + 1 |-> IF k = d + 1 THEN e ELSE g[k]]
<1>3. /\ p \in Opens /\ Len(p) = e /\ (\A j \in 1 .. Len(o) : p[j] = o[j])
      /\ p[e] = Opening(f)
  BY <1>2, OpenedIs DEF Opening
<1>4. Len(u) = d + 1 /\ u[d + 1] = f /\ \A k \in 1 .. d : u[k] = s[k]
  BY DEF Stack
<1>5. \A k \in 1 .. d : s[k].depth \in Nat
  BY DEF Stack
<1>6. /\ g \in [1 .. d -> Nat] /\ g[1] = 0 /\ Len(o) = g[d] + s[d].depth
      /\ \A k \in 1 .. d - 1 : g[k + 1] = g[k] + s[k].depth + 1
      /\ \A k, m \in 1 .. d : k < m => g[k] + s[k].depth < g[m]
      /\ \A k \in 2 .. d : o[g[k]] = Opening(s[k])
      /\ \A k \in 1 .. d : \A j \in g[k] + 1 .. g[k] + s[k].depth : o[j].what = "brace"
  BY <1>1 DEF NestsBy
<1> HIDE DEF d, u, p
<1>7. e \in Nat /\ h \in [1 .. d + 1 -> Nat] /\ h[d + 1] = e /\ \A k \in 1 .. d : h[k] = g[k]
  BY <1>2, <1>6
<1>8. \A k \in 1 .. d : g[k] + s[k].depth <= Len(o) /\ g[k] \in Nat
  <2> SUFFICES ASSUME NEW k \in 1 .. d PROVE g[k] + s[k].depth <= Len(o) /\ g[k] \in Nat
    OBVIOUS
  <2>1. g[k] \in Nat /\ s[k].depth \in Nat /\ g[d] \in Nat /\ s[d].depth \in Nat
    BY <1>2, <1>5, <1>6
  <2>2. CASE k = d
    BY <1>2, <1>6, <2>1, <2>2
  <2>3. CASE k # d
    <3>1. g[k] + s[k].depth < g[d]
      BY <1>2, <1>6, <2>3
    <3> QED BY <1>2, <1>6, <2>1, <3>1
  <2> QED BY <2>2, <2>3
<1> HIDE DEF h
<1>e. e = Len(o) + 1
  OBVIOUS
<1> HIDE DEF e
<1>9. Len(p) = h[Len(u)] + u[Len(u)].depth /\ h[1] = 0
  BY <1>2, <1>3, <1>4, <1>6, <1>7
<1>10. \A k \in 1 .. d : h[k + 1] = h[k] + u[k].depth + 1
  <2> SUFFICES ASSUME NEW k \in 1 .. d PROVE h[k + 1] = h[k] + u[k].depth + 1
    OBVIOUS
  <2>1. CASE k = d
    BY <1>2, <1>4, <1>6, <1>7, <1>e, <2>1
  <2>2. CASE k # d
    <3>1. k \in 1 .. d - 1 /\ k + 1 \in 1 .. d
      BY <1>2, <2>2
    <3> QED BY <1>4, <1>6, <1>7, <3>1
  <2> QED BY <2>1, <2>2
<1>11. \A k, m \in 1 .. d + 1 : k < m => h[k] + u[k].depth < h[m]
  <2> SUFFICES ASSUME NEW k \in 1 .. d + 1, NEW m \in 1 .. d + 1, k < m PROVE h[k] + u[k].depth < h[m]
    OBVIOUS
  <2>1. k \in 1 .. d
    BY <1>2
  <2>2. h[k] = g[k] /\ u[k] = s[k]
    BY <1>4, <1>7, <2>1
  <2>3. CASE m = d + 1
    <3>1. g[k] + s[k].depth <= Len(o) /\ g[k] \in Nat /\ s[k].depth \in Nat
      BY <1>5, <1>8, <2>1
    <3> QED BY <1>2, <1>7, <1>e, <2>2, <2>3, <3>1
  <2>4. CASE m # d + 1
    <3>1. m \in 1 .. d
      BY <1>2, <2>4
    <3>2. h[m] = g[m]
      BY <1>7, <3>1
    <3> QED BY <1>6, <2>1, <2>2, <3>1, <3>2
  <2> QED BY <2>3, <2>4
<1>12. \A k \in 2 .. d + 1 : p[h[k]] = Opening(u[k])
  <2> SUFFICES ASSUME NEW k \in 2 .. d + 1 PROVE p[h[k]] = Opening(u[k])
    OBVIOUS
  <2>1. CASE k = d + 1
    BY <1>3, <1>4, <1>7, <2>1
  <2>2. CASE k # d + 1
    <3>1. k \in 2 .. d /\ k \in 1 .. d /\ 1 \in 1 .. d /\ 1 < k
      BY <1>2, <2>2
    <3>2. g[1] + s[1].depth < g[k] /\ g[1] = 0 /\ s[1].depth \in Nat /\ s[k].depth \in Nat
      BY <1>5, <1>6, <3>1
    <3>3. g[k] \in Nat /\ g[k] + s[k].depth <= Len(o)
      BY <1>8, <3>1
    <3>4. g[k] \in 1 .. Len(o)
      BY <1>2, <3>2, <3>3
    <3>5. p[g[k]] = o[g[k]]
      BY <1>3, <3>4
    <3> QED BY <1>4, <1>6, <1>7, <3>1, <3>5
  <2> QED BY <2>1, <2>2
<1>13. \A k \in 1 .. d + 1 : \A j \in h[k] + 1 .. h[k] + u[k].depth : p[j].what = "brace"
  <2> SUFFICES ASSUME NEW k \in 1 .. d + 1, NEW j \in h[k] + 1 .. h[k] + u[k].depth PROVE p[j].what = "brace"
    OBVIOUS
  <2>1. CASE k = d + 1
    BY <1>4, <1>7, <2>1
  <2>2. CASE k # d + 1
    <3>1. k \in 1 .. d
      BY <1>2, <2>2
    <3>2. h[k] = g[k] /\ u[k] = s[k]
      BY <1>4, <1>7, <3>1
    <3>3. g[k] \in Nat /\ g[k] + s[k].depth <= Len(o) /\ s[k].depth \in Nat
      BY <1>5, <1>8, <3>1
    <3>4. j \in g[k] + 1 .. g[k] + s[k].depth /\ j \in 1 .. Len(o)
      BY <1>2, <3>2, <3>3
    <3> QED BY <1>3, <1>6, <3>1, <3>4
  <2> QED BY <2>1, <2>2
<1>14. NestsBy(p, u, h)
  <2>1. Len(u) = d + 1
    BY <1>4
  <2> DEFINE e2 == d + 1
  <2>2. Len(u) = e2 /\ h \in [1 .. e2 -> Nat]
    BY <1>7, <2>1
  <2>3. \A k \in 1 .. e2 - 1 : h[k + 1] = h[k] + u[k].depth + 1
    <3>1. \A k \in 1 .. e2 - 1 : k \in 1 .. d
      BY <1>2
    <3> QED BY <1>10, <3>1
  <2>4. \A k, m \in 1 .. e2 : k < m => h[k] + u[k].depth < h[m]
    BY <1>11
  <2>5. \A k \in 2 .. e2 : p[h[k]] = Opening(u[k])
    BY <1>12
  <2>6. \A k \in 1 .. e2 : \A j \in h[k] + 1 .. h[k] + u[k].depth : p[j].what = "brace"
    BY <1>13
  <2> HIDE DEF e2
  <2> QED BY <1>9, <2>2, <2>3, <2>4, <2>5, <2>6 DEF NestsBy
<1> QED BY <1>3, <1>14 DEF Nests, p, u

LEMMA NestsPop ==
    ASSUME NEW o, NEW s, Nests(o, s), Stack(s), Len(s) > 1, s[Len(s)].depth = 0
    PROVE  Nests(Front(o), Front(s))
<1> DEFINE d == Len(s)
           c == d - 1
           u == Front(s)
           p == Front(o)
<1>1. PICK g : NestsBy(o, s, g)
  BY DEF Nests
<1>2. o \in Opens /\ Len(o) \in Nat /\ d \in Nat /\ d > 1 /\ d \in 1 .. d
  BY OpensIs DEF Nests, Stack
<1> DEFINE h == [k \in 1 .. c |-> g[k]]
<1>3. u \in Seq(FrameSet) /\ Len(u) = c /\ \A k \in 1 .. c : u[k] = s[k]
  <2>1. s # <<>> /\ s \in Seq(FrameSet)
    BY DEF Stack
  <2> QED BY <2>1, FrontIs
<1>4. o # <<>>
  BY NestsTop
<1>5. p \in Opens /\ Len(p) = Len(o) - 1 /\ (\A j \in 1 .. Len(o) - 1 : p[j] = o[j])
  BY <1>2, <1>4, FrontIs DEF Opens
<1>6. /\ g \in [1 .. d -> Nat] /\ g[1] = 0 /\ Len(o) = g[d] + s[d].depth
      /\ \A k \in 1 .. d - 1 : g[k + 1] = g[k] + s[k].depth + 1
      /\ \A k, m \in 1 .. d : k < m => g[k] + s[k].depth < g[m]
      /\ \A k \in 2 .. d : o[g[k]] = Opening(s[k])
      /\ \A k \in 1 .. d : \A j \in g[k] + 1 .. g[k] + s[k].depth : o[j].what = "brace"
  BY <1>1 DEF NestsBy
<1>7. (\A k \in 1 .. d : s[k].depth \in Nat) /\ s[d].depth = 0
  BY DEF Stack
<1> HIDE DEF d, u, p
<1>8. /\ c \in Nat /\ c \in 1 .. d - 1 /\ c \in 1 .. c /\ c + 1 = d /\ 1 \in 1 .. c
      /\ \A k \in 1 .. c : k \in 1 .. d /\ k < d
  BY <1>2
<1> HIDE DEF c
<1>9. h \in [1 .. c -> Nat] /\ \A k \in 1 .. c : h[k] = g[k]
  BY <1>6, <1>8
<1> HIDE DEF h
<1>10. Len(o) = g[d] /\ g[d] = g[c] + s[c].depth + 1 /\ g[c] \in Nat /\ s[c].depth \in Nat
  BY <1>2, <1>6, <1>7, <1>8
<1>11. Len(p) = h[c] + u[c].depth /\ h[1] = 0
  BY <1>3, <1>5, <1>6, <1>8, <1>9, <1>10
<1>12. \A k \in 1 .. c - 1 : h[k + 1] = h[k] + u[k].depth + 1
  <2> SUFFICES ASSUME NEW k \in 1 .. c - 1 PROVE h[k + 1] = h[k] + u[k].depth + 1
    OBVIOUS
  <2>1. k \in 1 .. c /\ k + 1 \in 1 .. c /\ k \in 1 .. d - 1
    BY <1>2, <1>8
  <2> QED BY <1>3, <1>6, <1>9, <2>1
<1>13. \A k, m \in 1 .. c : k < m => h[k] + u[k].depth < h[m]
  <2> SUFFICES ASSUME NEW k \in 1 .. c, NEW m \in 1 .. c, k < m PROVE h[k] + u[k].depth < h[m]
    OBVIOUS
  <2>1. k \in 1 .. d /\ m \in 1 .. d
    BY <1>8
  <2>2. g[k] + s[k].depth < g[m]
    BY <1>6, <2>1
  <2> QED BY <1>3, <1>9, <2>2
<1>14. \A k \in 1 .. c : g[k] + s[k].depth < Len(o) /\ g[k] \in Nat /\ s[k].depth \in Nat
  BY <1>2, <1>6, <1>7, <1>8, <1>10
<1>15. \A k \in 2 .. c : p[h[k]] = Opening(u[k])
  <2> SUFFICES ASSUME NEW k \in 2 .. c PROVE p[h[k]] = Opening(u[k])
    OBVIOUS
  <2>1. k \in 2 .. d /\ k \in 1 .. c /\ k \in 1 .. d /\ 1 \in 1 .. d /\ 1 < k
    BY <1>2, <1>8
  <2>2. g[1] + s[1].depth < g[k] /\ g[1] = 0 /\ s[1].depth \in Nat
    BY <1>6, <1>7, <2>1
  <2>3. g[k] + s[k].depth < Len(o) /\ g[k] \in Nat /\ s[k].depth \in Nat
    BY <1>14, <2>1
  <2>4. g[k] \in 1 .. Len(o) - 1
    BY <1>2, <2>2, <2>3
  <2>5. p[g[k]] = o[g[k]]
    BY <1>5, <2>4
  <2> QED BY <1>3, <1>6, <1>9, <2>1, <2>5
<1>16. \A k \in 1 .. c : \A j \in h[k] + 1 .. h[k] + u[k].depth : p[j].what = "brace"
  <2> SUFFICES ASSUME NEW k \in 1 .. c, NEW j \in h[k] + 1 .. h[k] + u[k].depth PROVE p[j].what = "brace"
    OBVIOUS
  <2>1. h[k] = g[k] /\ u[k] = s[k] /\ k \in 1 .. d
    BY <1>3, <1>8, <1>9
  <2>2. g[k] + s[k].depth < Len(o) /\ g[k] \in Nat /\ s[k].depth \in Nat
    BY <1>14
  <2>3. j \in g[k] + 1 .. g[k] + s[k].depth /\ j \in 1 .. Len(o) - 1
    BY <1>2, <2>1, <2>2
  <2> QED BY <1>5, <1>6, <2>1, <2>3
<1>17. NestsBy(p, u, h)
  <2>1. Len(u) = c
    BY <1>3
  <2> QED BY <1>9, <1>11, <1>12, <1>13, <1>15, <1>16, <2>1 DEF NestsBy
<1> QED BY <1>5, <1>17 DEF Nests, p, u

(* What is open innermost, for a parser that counts what the level f counts. *)
Above(f) ==
    IF f.depth > 0 THEN "brace"
    ELSE IF f.mode = "NORMAL" /\ f.close = "EOF" THEN "nothing"
    ELSE What(f)

LEMMA StackIs ==
    ASSUME TextInv, NEW l, Good(l)
    PROVE  Stack(l.stack)
<1>1. /\ l.stack \in Seq(FrameSet) /\ Len(l.stack) \in Nat /\ Len(l.stack) \in 1 .. MaxDepth
      /\ \A k \in 1 .. Len(l.stack) : Lies(l.stack[k], l.i)
  BY GoodStack DEF Good, Bounded
<1>2. n \in Nat
  BY TextIs
<1>3. \A k \in 1 .. Len(l.stack) : l.stack[k].depth \in Nat /\ l.stack[k].open_at \in Nat
  BY <1>1, <1>2 DEF Lies, FrameSet, Positions
<1>4. Len(l.stack) >= 1
  BY <1>1, LexerAssumption
<1> QED BY <1>1, <1>3, <1>4 DEF Stack

LEMMA TopLevel ==
    ASSUME TextInv, NEW l, Good(l)
    PROVE  LET f == Top(l)
           IN  /\ f = l.stack[Len(l.stack)] /\ f \in FrameSet /\ f.depth \in Nat /\ f.open_at \in Nat
               /\ f.mode \in Modes /\ f.close \in {"EOF", "INTERP_END", "CTRL_END"} /\ f.close_tag \in BOOLEAN
               /\ f.mode # "NORMAL" => f.depth = 0 /\ f.close = "EOF" /\ Len(l.stack) > 1
               /\ f.close_tag => f.mode = "TAG"
               /\ Len(l.stack) > 1 <=> ~ (f.mode = "NORMAL" /\ f.close = "EOF")
               /\ What(f) \in Whats /\ What(f) # "brace"
<1> DEFINE f == Top(l)
           d == Len(l.stack)
<1>1. /\ f = l.stack[d] /\ f \in FrameSet /\ Lies(f, l.i) /\ d \in Nat /\ d \in 1 .. MaxDepth
      /\ d > 1 \/ (f.mode = "NORMAL" /\ f.close = "EOF")
  BY GoodStack
<1>2. n \in Nat
  BY TextIs
<1>3. (d > 1 /\ f.mode = "NORMAL") => f.close # "EOF"
  <2> SUFFICES ASSUME d > 1, f.mode = "NORMAL" PROVE f.close # "EOF"
    OBVIOUS
  <2>1. d - 1 \in 1 .. d - 1 /\ d - 1 + 1 = d
    BY <1>1
  <2>2. OnTop(l.stack[d - 1 + 1], l.stack[d - 1])
    BY <2>1 DEF Good, Bounded
  <2>3. OnTop(f, l.stack[d - 1])
    BY <1>1, <2>1, <2>2
  <2> QED BY <2>3 DEF OnTop
<1> HIDE DEF f, d
<1>4. /\ f.depth \in Nat /\ f.open_at \in Nat /\ f.mode \in Modes /\ f.close_tag \in BOOLEAN
      /\ f.close \in {"EOF", "INTERP_END", "CTRL_END"}
  BY <1>1, <1>2 DEF FrameSet, Positions
<1>5. (f.mode # "NORMAL" => f.depth = 0 /\ f.close = "EOF") /\ (f.close_tag => f.mode = "TAG")
  BY <1>1 DEF Lies
<1>6. What(f) \in Whats /\ What(f) # "brace"
  BY DEF What, Whats
<1> QED BY <1>1, <1>3, <1>4, <1>5, <1>6 DEF f, d

LEMMA NestsMode ==
    ASSUME TextInv, NEW l, Good(l), NEW o, Nests(o, l.stack)
    PROVE  /\ \A S \in SUBSET Whats : TopIs(o, S) <=> Above(Top(l)) \in S
           /\ Top(l).depth = 0 /\ Len(l.stack) > 1 => o # <<>>
<1> DEFINE f == Top(l)
           d == Len(l.stack)
<1>1. /\ f.depth > 0 => TopIs(o, {"brace"})
      /\ f.depth = 0 /\ d > 1 => o # <<>> /\ Last(o) = Opening(f)
      /\ f.depth = 0 /\ d = 1 => o = <<>>
  BY StackIs, NestsTop, TopLevel
<1>2. f.depth \in Nat /\ (d > 1 <=> ~ (f.mode = "NORMAL" /\ f.close = "EOF")) /\ d \in Nat /\ d >= 1
  BY TopLevel, StackIs DEF Stack
<1> HIDE DEF f, d
<1>3. ASSUME NEW S \in SUBSET Whats PROVE TopIs(o, S) <=> Above(f) \in S
  <2>1. CASE f.depth > 0
    BY <1>1, <2>1 DEF TopIs, Above
  <2>2. CASE f.depth = 0 /\ d > 1
    BY <1>1, <1>2, <2>2 DEF TopIs, Above, Opening
  <2>3. CASE f.depth = 0 /\ d = 1
    <3>1. ~ TopIs(o, S) /\ Above(f) = "nothing"
      BY <1>1, <1>2, <2>3 DEF TopIs, Above
    <3> QED BY <3>1 DEF Whats
  <2> QED BY <1>2, <2>1, <2>2, <2>3
<1> QED BY <1>1, <1>3 DEF f, d

(* Token t may come where o is open.                                         *)
Fits(o, t) ==
    /\ TopIs(o, {"str"}) => t.kind \in {"STR_TEXT", "STR_END", "INTERP_START"}
    /\ TopIs(o, {"tag", "closing"}) =>
         t.kind \in {"TAG_NAME", "ATTR_NAME", "ATTR_EQ", "ELLIPSIS", "TAG_END", "TAG_SELF_CLOSE", "STR_START",
                     "INTERP_START", "EOF"}
    /\ TopIs(o, {"elem"}) =>
         t.kind \in {"MARKUP_TEXT", "MARKUP_COMMENT", "TAG_CLOSE_START", "CTRL_START", "MARKUP_START", "INTERP_START",
                     "EOF"}
    /\ ~ TopIs(o, {"str", "tag", "closing", "elem"}) =>
         /\ t.kind \notin {"TAG_NAME", "ATTR_NAME", "ATTR_EQ", "ELLIPSIS", "TAG_END", "TAG_SELF_CLOSE", "MARKUP_TEXT",
                           "MARKUP_COMMENT", "TAG_CLOSE_START", "CTRL_START", "STR_TEXT", "STR_END", "INTERP_START"}
         /\ t.kind = "INTERP_END" => TopIs(o, {"interp"})
         /\ t.kind = "CTRL_END" => TopIs(o, {"ctrl"})
         /\ t.kind = "RBRACE" => ~ TopIs(o, {"interp", "ctrl"})
    /\ t.kind = "MARKUP_START" => (t.mode = "CONTENT" <=> TopIs(o, {"elem"}))

LEMMA DirectFits ==
    ASSUME TextInv, NEW l, Good(l), NEW o, Nests(o, l.stack), NEW r, Direct(l, r)
    PROVE  Fits(o, r.t)
<1> DEFINE f == Top(l)
           t == r.t
           a == Above(f)
<1>1. \A S \in SUBSET Whats : TopIs(o, S) <=> a \in S
  BY NestsMode
<1>2. /\ f.depth \in Nat /\ f.mode \in Modes /\ f.close \in {"EOF", "INTERP_END", "CTRL_END"} /\ f.close_tag \in BOOLEAN
      /\ f.mode # "NORMAL" => f.depth = 0 /\ f.close = "EOF"
      /\ f.close_tag => f.mode = "TAG"
  BY TopLevel
<1>3. t.mode = f.mode /\ Levels(l, r.lx, f, t)
  BY DEF Direct
<1> HIDE DEF f, t, a
<1>4. /\ TopIs(o, {"str"}) <=> a = "str"
      /\ TopIs(o, {"tag", "closing"}) <=> a \in {"tag", "closing"}
      /\ TopIs(o, {"elem"}) <=> a = "elem"
      /\ TopIs(o, {"str", "tag", "closing", "elem"}) <=> a \in {"str", "tag", "closing", "elem"}
      /\ TopIs(o, {"interp"}) <=> a = "interp"
      /\ TopIs(o, {"ctrl"}) <=> a = "ctrl"
      /\ TopIs(o, {"interp", "ctrl"}) <=> a \in {"interp", "ctrl"}
  <2>1. /\ {"str"} \in SUBSET Whats /\ {"tag", "closing"} \in SUBSET Whats /\ {"elem"} \in SUBSET Whats
        /\ {"str", "tag", "closing", "elem"} \in SUBSET Whats /\ {"interp"} \in SUBSET Whats
        /\ {"ctrl"} \in SUBSET Whats /\ {"interp", "ctrl"} \in SUBSET Whats
    BY DEF Whats
  <2> QED BY <1>1, <2>1
<1>5. /\ a = "str" <=> f.mode = "STR"
      /\ a \in {"tag", "closing"} <=> f.mode = "TAG"
      /\ a = "elem" <=> f.mode = "CONTENT"
      /\ a \in {"str", "tag", "closing", "elem"} <=> f.mode # "NORMAL"
      /\ a = "interp" <=> f.mode = "NORMAL" /\ f.depth = 0 /\ f.close = "INTERP_END"
      /\ a = "ctrl" <=> f.mode = "NORMAL" /\ f.depth = 0 /\ f.close = "CTRL_END"
  BY <1>2 DEF a, Above, What, Modes
<1>6. /\ f.mode = "STR" => t.kind \in {"STR_TEXT", "STR_END", "INTERP_START"}
      /\ f.mode = "TAG" =>
           t.kind \in {"TAG_NAME", "ATTR_NAME", "ATTR_EQ", "ELLIPSIS", "TAG_END", "TAG_SELF_CLOSE", "STR_START",
                       "INTERP_START", "EOF"}
      /\ f.mode = "CONTENT" =>
           t.kind \in {"MARKUP_TEXT", "MARKUP_COMMENT", "TAG_CLOSE_START", "CTRL_START", "MARKUP_START",
                       "INTERP_START", "EOF"}
      /\ f.mode = "NORMAL" =>
           /\ t.kind \notin {"TAG_NAME", "ATTR_NAME", "ATTR_EQ", "ELLIPSIS", "TAG_END", "TAG_SELF_CLOSE", "MARKUP_TEXT",
                             "MARKUP_COMMENT", "TAG_CLOSE_START", "CTRL_START", "STR_TEXT", "STR_END", "INTERP_START"}
           /\ t.kind \in {"INTERP_END", "CTRL_END"} => f.close = t.kind /\ f.depth = 0
           /\ t.kind = "RBRACE" => f.depth > 0 \/ f.close = "EOF"
  <2>1. CASE Enters(l, r.lx, f, t)
    BY <2>1 DEF Enters
  <2>2. CASE Leaves(l, r.lx, f, t)
    BY <2>2 DEF Leaves
  <2>3. CASE Becoming(l, r.lx, f, t)
    BY <2>3 DEF Becoming, Ordinary, Structure
  <2>4. CASE Staying(l, r.lx, f, t)
    BY <2>4 DEF Staying, Ordinary, Structure
  <2> QED BY <1>3, <2>1, <2>2, <2>3, <2>4 DEF Levels
<1>7. Fits(o, t)
  BY <1>2, <1>3, <1>4, <1>5, <1>6 DEF Fits, Modes
<1> QED BY <1>7 DEF t

LEMMA TakenIs ==
    ASSUME NEW o, NEW t
    PROVE  /\ t.kind = "STR_START" => Taken(o, t) = Opened(o, "str", t.start)
           /\ t.kind = "INTERP_START" => Taken(o, t) = Opened(o, "interp", t.start)
           /\ t.kind = "CTRL_START" => Taken(o, t) = Opened(o, "ctrl", t.start)
           /\ t.kind = "LBRACE" => Taken(o, t) = Opened(o, "brace", t.start)
           /\ t.kind = "MARKUP_START" /\ t.mode = "CONTENT" => Taken(o, t) = Opened(o, "tag", t.start)
           /\ t.kind = "MARKUP_START" /\ t.mode # "CONTENT" => Taken(o, t) = o
           /\ t.kind = "TAG_CLOSE_START" /\ o # <<>> => Taken(o, t) = Becomes(o, "closing")
           /\ t.kind = "TAG_END" /\ TopIs(o, {"tag"}) => Taken(o, t) = Becomes(o, "elem")
           /\ t.kind = "TAG_END" /\ TopIs(o, {"closing"}) => Taken(o, t) = Front(o)
           /\ t.kind \in {"STR_END", "INTERP_END", "CTRL_END", "TAG_SELF_CLOSE"} /\ o # <<>> => Taken(o, t) = Front(o)
           /\ t.kind = "RBRACE" /\ TopIs(o, {"brace"}) => Taken(o, t) = Front(o)
           /\ t.kind = "RBRACE" /\ ~ TopIs(o, {"brace"}) => Taken(o, t) = o
           /\ t.kind = "EOF" \/ t.kind \notin Structure => Taken(o, t) = o
<1>1. t.kind = "STR_START" => Taken(o, t) = Opened(o, "str", t.start)
  BY DEF Taken
<1>2. t.kind = "INTERP_START" => Taken(o, t) = Opened(o, "interp", t.start)
  BY DEF Taken
<1>3. t.kind = "CTRL_START" => Taken(o, t) = Opened(o, "ctrl", t.start)
  BY DEF Taken
<1>4. t.kind = "LBRACE" => Taken(o, t) = Opened(o, "brace", t.start)
  BY DEF Taken
<1>5. t.kind = "MARKUP_START" /\ t.mode = "CONTENT" => Taken(o, t) = Opened(o, "tag", t.start)
  BY DEF Taken
<1>6. t.kind = "MARKUP_START" /\ t.mode # "CONTENT" => Taken(o, t) = o
  BY DEF Taken
<1>7. t.kind = "TAG_CLOSE_START" /\ o # <<>> => Taken(o, t) = Becomes(o, "closing")
  BY DEF Taken
<1>8. TopIs(o, {"tag"}) => ~ TopIs(o, {"closing"})
  BY DEF TopIs
<1>9. t.kind = "TAG_END" /\ TopIs(o, {"tag"}) => Taken(o, t) = Becomes(o, "elem")
  BY <1>8 DEF Taken
<1>10. t.kind = "TAG_END" /\ TopIs(o, {"closing"}) => Taken(o, t) = Front(o)
  BY <1>8 DEF Taken
<1>11. t.kind \in {"STR_END", "INTERP_END", "CTRL_END", "TAG_SELF_CLOSE"} /\ o # <<>> => Taken(o, t) = Front(o)
  BY DEF Taken
<1>12. t.kind = "RBRACE" /\ TopIs(o, {"brace"}) => Taken(o, t) = Front(o)
  BY DEF Taken
<1>13. t.kind = "RBRACE" /\ ~ TopIs(o, {"brace"}) => Taken(o, t) = o
  BY DEF Taken
<1>14. t.kind = "EOF" \/ t.kind \notin Structure => Taken(o, t) = o
  BY DEF Taken, Structure
<1> QED BY <1>1, <1>2, <1>3, <1>4, <1>5, <1>6, <1>7, <1>9, <1>10, <1>11, <1>12, <1>13, <1>14

(* A token moves what is open as it moves the levels.                        *)
LEMMA EntersNests ==
    ASSUME TextInv, NEW l, Good(l), NEW o, Nests(o, l.stack), NEW m, ~ m.depth_reported, NEW t, t.start \in Nat,
           t.mode = Top(l).mode, Enters(l, m, Top(l), t)
    PROVE  Nests(Taken(o, t), m.stack)
<1>1. Stack(l.stack)
  BY StackIs
<1>2. ASSUME NEW f, Pushes(l, m, f), f.depth = 0, f.open_at = t.start, What(f) \in Whats
      PROVE  Nests(Opened(o, What(f), t.start), m.stack)
  <2>1. m.stack = Append(l.stack, f)
    BY <1>2 DEF Pushes
  <2>2. Nests(Opened(o, What(f), f.open_at), Append(l.stack, f))
    BY <1>1, <1>2, NestsPush
  <2> QED BY <1>2, <2>1, <2>2
<1>3. \A mode, c : /\ Frame(mode, t.start, c).depth = 0 /\ Frame(mode, t.start, c).open_at = t.start
                   /\ Frame(mode, t.start, c).mode = mode /\ Frame(mode, t.start, c).close = c
                   /\ ~ Frame(mode, t.start, c).close_tag
  BY DEF Frame
<1>4. CASE t.kind = "STR_START" /\ Pushes(l, m, Frame("STR", t.start, "EOF"))
  <2> DEFINE f == Frame("STR", t.start, "EOF")
  <2>1. What(f) = "str" /\ f.depth = 0 /\ f.open_at = t.start /\ Pushes(l, m, f) /\ "str" \in Whats
    BY <1>3, <1>4 DEF What, Whats
  <2> HIDE DEF f
  <2>2. Taken(o, t) = Opened(o, "str", t.start)
    BY <1>4, TakenIs
  <2> QED BY <1>2, <2>1, <2>2
<1>5. CASE t.kind = "INTERP_START" /\ Pushes(l, m, Frame("NORMAL", t.start, "INTERP_END"))
  <2> DEFINE f == Frame("NORMAL", t.start, "INTERP_END")
  <2>1. What(f) = "interp" /\ f.depth = 0 /\ f.open_at = t.start /\ Pushes(l, m, f) /\ "interp" \in Whats
    BY <1>3, <1>5 DEF What, Whats
  <2> HIDE DEF f
  <2>2. Taken(o, t) = Opened(o, "interp", t.start)
    BY <1>5, TakenIs
  <2> QED BY <1>2, <2>1, <2>2
<1>6. CASE t.kind = "CTRL_START" /\ Pushes(l, m, Frame("NORMAL", t.start, "CTRL_END"))
  <2> DEFINE f == Frame("NORMAL", t.start, "CTRL_END")
  <2>1. What(f) = "ctrl" /\ f.depth = 0 /\ f.open_at = t.start /\ Pushes(l, m, f) /\ "ctrl" \in Whats
    BY <1>3, <1>6 DEF What, Whats
  <2> HIDE DEF f
  <2>2. Taken(o, t) = Opened(o, "ctrl", t.start)
    BY <1>6, TakenIs
  <2> QED BY <1>2, <2>1, <2>2
<1>7. CASE t.kind = "MARKUP_START" /\ t.mode = "CONTENT" /\ Pushes(l, m, Frame("TAG", t.start, "EOF"))
  <2> DEFINE f == Frame("TAG", t.start, "EOF")
  <2>1. What(f) = "tag" /\ f.depth = 0 /\ f.open_at = t.start /\ Pushes(l, m, f) /\ "tag" \in Whats
    BY <1>3, <1>7 DEF What, Whats
  <2> HIDE DEF f
  <2>2. Taken(o, t) = Opened(o, "tag", t.start)
    BY <1>7, TakenIs
  <2> QED BY <1>2, <2>1, <2>2
<1> QED BY <1>4, <1>5, <1>6, <1>7 DEF Enters

LEMMA LeavesNests ==
    ASSUME TextInv, NEW l, Good(l), NEW o, Nests(o, l.stack), NEW m, NEW t, t.kind # "EOF",
           Leaves(l, m, Top(l), t)
    PROVE  Nests(Taken(o, t), m.stack)
<1> DEFINE f == Top(l)
<1>1. Stack(l.stack)
  BY StackIs
<1>2. /\ f = l.stack[Len(l.stack)] /\ f.depth \in Nat /\ (f.mode # "NORMAL" => f.depth = 0)
  BY TopLevel
<1>3. /\ \A S \in SUBSET Whats : TopIs(o, S) <=> Above(f) \in S
      /\ f.depth = 0 /\ Len(l.stack) > 1 => o # <<>>
  BY NestsMode
<1>4. Pops(l, m) /\ f.depth = 0 /\ (t.kind = "TAG_END" => f.mode = "TAG" /\ f.close_tag)
      /\ t.kind \in {"STR_END", "INTERP_END", "CTRL_END", "TAG_SELF_CLOSE", "TAG_END"}
  BY <1>2 DEF Leaves
<1>5. Len(l.stack) > 1 /\ m.stack = Front(l.stack)
  BY <1>4 DEF Pops
<1>6. Nests(Front(o), m.stack)
  BY <1>1, <1>2, <1>4, <1>5, NestsPop
<1> HIDE DEF f
<1>7. t.kind = "TAG_END" => TopIs(o, {"closing"})
  <2>1. {"closing"} \in SUBSET Whats
    BY DEF Whats
  <2>2. f.mode = "TAG" /\ f.close_tag => Above(f) = "closing"
    BY <1>4 DEF Above, What
  <2> QED BY <1>3, <1>4, <2>1, <2>2
<1>8. Taken(o, t) = Front(o)
  <2>1. o # <<>>
    BY <1>3, <1>4, <1>5
  <2> QED BY <1>4, <1>7, <2>1, TakenIs
<1> QED BY <1>6, <1>8

LEMMA BecomingNests ==
    ASSUME TextInv, NEW l, Good(l), NEW o, Nests(o, l.stack), NEW m, NEW t, t.start \in Nat,
           Becoming(l, m, Top(l), t)
    PROVE  Nests(Taken(o, t), m.stack)
<1> DEFINE f == Top(l)
           s == l.stack
           d == Len(s)
<1>1. Stack(s)
  BY StackIs
<1>2. /\ f = s[d] /\ f \in FrameSet /\ f.depth \in Nat /\ (f.mode # "NORMAL" => f.depth = 0 /\ d > 1)
      /\ (f.close_tag => f.mode = "TAG") /\ f.close_tag \in BOOLEAN
  BY TopLevel
<1>3. /\ \A S \in SUBSET Whats : TopIs(o, S) <=> Above(f) \in S
      /\ f.depth = 0 /\ d > 1 => o # <<>>
  BY NestsMode
<1>4. Becoming(l, m, f, t)
  OBVIOUS
<1>5. \A g : Turns(l, m, g) => m.stack = [s EXCEPT ![d] = g]
  BY DEF Turns
<1>6. {"tag"} \in SUBSET Whats /\ {"brace"} \in SUBSET Whats /\ "elem" \in Whats /\ "closing" \in Whats
  BY DEF Whats
<1> HIDE DEF f, s, d
<1>7. CASE t.kind = "LBRACE" /\ Turns(l, m, [f EXCEPT !.depth = f.depth + 1])
  <2> DEFINE g == [f EXCEPT !.depth = f.depth + 1]
  <2>1. g.depth = s[d].depth + 1 /\ Opening(g) = Opening(s[d])
    BY <1>2 DEF FrameSet, Opening, What
  <2>2. m.stack = [s EXCEPT ![d] = g]
    BY <1>5, <1>7
  <2> HIDE DEF g
  <2>3. Nests(Opened(o, "brace", t.start), [s EXCEPT ![Len(s)] = g])
    BY <1>1, <2>1, NestsDeeper DEF s, d
  <2>4. Taken(o, t) = Opened(o, "brace", t.start)
    BY <1>7, TakenIs
  <2> QED BY <2>2, <2>3, <2>4 DEF d
<1>8. CASE t.kind = "RBRACE" /\ f.depth > 0 /\ Turns(l, m, [f EXCEPT !.depth = f.depth - 1])
  <2> DEFINE g == [f EXCEPT !.depth = f.depth - 1]
  <2>1. g.depth = s[d].depth - 1 /\ Opening(g) = Opening(s[d]) /\ s[d].depth > 0
    BY <1>2, <1>8 DEF FrameSet, Opening, What
  <2>2. m.stack = [s EXCEPT ![d] = g]
    BY <1>5, <1>8
  <2> HIDE DEF g
  <2>3. Nests(Front(o), [s EXCEPT ![Len(s)] = g])
    BY <1>1, <2>1, NestsShallower DEF s, d
  <2>4. TopIs(o, {"brace"})
    BY <1>3, <1>6, <1>8 DEF Above
  <2>5. Taken(o, t) = Front(o)
    BY <1>8, <2>4, TakenIs
  <2> QED BY <2>2, <2>3, <2>5 DEF d
<1>9. CASE t.kind = "TAG_END" /\ f.mode = "TAG" /\ ~ f.close_tag /\ Turns(l, m, [f EXCEPT !.mode = "CONTENT"])
  <2> DEFINE g == [f EXCEPT !.mode = "CONTENT"]
  <2>1. g.depth = 0 /\ s[d].depth = 0 /\ g.open_at = s[d].open_at /\ What(g) = "elem" /\ d > 1
    BY <1>2, <1>9 DEF FrameSet, What
  <2>2. m.stack = [s EXCEPT ![d] = g]
    BY <1>5, <1>9
  <2> HIDE DEF g
  <2>3. Nests(Becomes(o, What(g)), [s EXCEPT ![Len(s)] = g])
    BY <1>1, <1>6, <2>1, NestsTurn DEF s, d
  <2>4. TopIs(o, {"tag"})
    BY <1>2, <1>3, <1>6, <1>9 DEF Above, What
  <2>5. Taken(o, t) = Becomes(o, "elem")
    BY <1>9, <2>4, TakenIs
  <2> QED BY <2>1, <2>2, <2>3, <2>5 DEF d
<1>10. CASE /\ t.kind = "TAG_CLOSE_START" /\ f.mode = "CONTENT"
            /\ Turns(l, m, [f EXCEPT !.mode = "TAG", !.close_tag = TRUE, !.named = FALSE])
  <2> DEFINE g == [f EXCEPT !.mode = "TAG", !.close_tag = TRUE, !.named = FALSE]
  <2>1. g.depth = 0 /\ s[d].depth = 0 /\ g.open_at = s[d].open_at /\ What(g) = "closing" /\ d > 1
    BY <1>2, <1>10 DEF FrameSet, What
  <2>2. m.stack = [s EXCEPT ![d] = g]
    BY <1>5, <1>10
  <2> HIDE DEF g
  <2>3. Nests(Becomes(o, What(g)), [s EXCEPT ![Len(s)] = g])
    BY <1>1, <1>6, <2>1, NestsTurn DEF s, d
  <2>4. o # <<>>
    BY <1>2, <1>3, <1>10
  <2>5. Taken(o, t) = Becomes(o, "closing")
    BY <1>10, <2>4, TakenIs
  <2> QED BY <2>1, <2>2, <2>3, <2>5 DEF d
<1>11. CASE Ordinary(f.mode, t.kind) /\ Turns(l, m, [f EXCEPT !.named = TRUE])
  <2> DEFINE g == [f EXCEPT !.named = TRUE]
  <2>1. g.depth = s[d].depth /\ Opening(g) = Opening(s[d])
    BY <1>2 DEF FrameSet, Opening, What
  <2>2. m.stack = [s EXCEPT ![d] = g]
    BY <1>5, <1>11
  <2> HIDE DEF g
  <2>3. Nests(o, [s EXCEPT ![Len(s)] = g])
    BY <1>1, <2>1, NestsSame DEF s, d
  <2>4. Taken(o, t) = o
    BY <1>11, TakenIs DEF Ordinary
  <2> QED BY <2>2, <2>3, <2>4 DEF d
<1> QED BY <1>4, <1>7, <1>8, <1>9, <1>10, <1>11 DEF Becoming

LEMMA StayingNests ==
    ASSUME TextInv, NEW l, Good(l), NEW o, Nests(o, l.stack), NEW m, NEW t, t.mode = Top(l).mode,
           Staying(l, m, Top(l), t)
    PROVE  Nests(Taken(o, t), m.stack)
<1> DEFINE f == Top(l)
<1>1. \A S \in SUBSET Whats : TopIs(o, S) <=> Above(f) \in S
  BY NestsMode
<1>2. m.stack = l.stack
  BY DEF Staying, Same
<1>3. {"brace"} \in SUBSET Whats
  BY DEF Whats
<1> HIDE DEF f
<1>4. CASE Ordinary(f.mode, t.kind)
  BY <1>2, <1>4, TakenIs DEF Ordinary
<1>5. CASE t.kind = "RBRACE" /\ f.mode = "NORMAL" /\ f.depth = 0 /\ f.close = "EOF"
  <2>1. Above(f) = "nothing"
    BY <1>5 DEF Above
  <2>2. ~ TopIs(o, {"brace"})
    BY <1>1, <1>3, <2>1
  <2> QED BY <1>2, <1>5, <2>2, TakenIs
<1>6. CASE t.kind = "MARKUP_START" /\ t.mode # "CONTENT"
  BY <1>2, <1>6, TakenIs
<1>7. CASE t.kind = "EOF"
  BY <1>2, <1>7, TakenIs
<1> QED BY <1>4, <1>5, <1>6, <1>7 DEF Staying, f

LEMMA DirectNests ==
    ASSUME TextInv, NEW l, Good(l), NEW o, Nests(o, l.stack), NEW r, Direct(l, r), r.t.kind # "EOF",
           ~ r.lx.depth_reported
    PROVE  Nests(Taken(o, r.t), r.lx.stack)
<1>1. r.t.mode = Top(l).mode /\ Levels(l, r.lx, Top(l), r.t) /\ r.t.start \in Nat
  BY DEF Direct, TokenSet
<1> QED BY <1>1, EntersNests, LeavesNests, BecomingNests, StayingNests DEF Levels

(* Once it is said, it stays said.                                           *)
LEMMA DirectReports ==
    ASSUME NEW l, NEW r, Direct(l, r), l.depth_reported
    PROVE  r.lx.depth_reported
<1>1. Levels(l, r.lx, Top(l), r.t)
  BY DEF Direct
<1>2. \A f : Pushes(l, r.lx, f) => r.lx.depth_reported
  BY DEF Pushes
<1>3. \A f : Turns(l, r.lx, f) => r.lx.depth_reported
  BY DEF Turns
<1>4. (Pops(l, r.lx) => r.lx.depth_reported) /\ (Same(l, r.lx) => r.lx.depth_reported)
  BY DEF Pops, Same
<1> QED BY <1>1, <1>2, <1>3, <1>4 DEF Levels, Enters, Leaves, Becoming, Staying

Inner(o, j) == o[j].what # "brace" /\ \A k \in j + 1 .. Len(o) : o[k].what = "brace"

(* What o opened is reported as missing its end.                             *)
SaidOf(x, rs) == <<Missing(x), x.at>> \in rs

(* The source may end where o is open: the innermost of it is reported.      *)
Settled(o, rs) ==
    /\ ~ TopIs(o, {"str"})
    /\ \A j \in DOMAIN o : Inner(o, j) => o[j].what = "ctrl" \/ SaidOf(o[j], rs)

(* Where o is open, the end t of a string that is cut is reported.           *)
CutIsSaid(o, t, rs) ==
    t.kind = "STR_END" /\ At(t.start) # "quote" => o # <<>> /\ SaidOf(Last(o), rs)

LEMMA SettledGrows ==
    ASSUME NEW o, NEW rs, NEW ss, Settled(o, rs), rs \subseteq ss
    PROVE  Settled(o, ss)
BY DEF Settled, SaidOf

LEMMA CutGrows ==
    ASSUME NEW o, NEW t, NEW rs, NEW ss, CutIsSaid(o, t, rs), rs \subseteq ss
    PROVE  CutIsSaid(o, t, ss)
BY DEF CutIsSaid, SaidOf

LEMMA DirectCuts ==
    ASSUME TextInv, NEW l, Good(l), NEW o, Nests(o, l.stack), NEW r, Direct(l, r)
    PROVE  CutIsSaid(o, r.t, r.lx.reports)
<1> DEFINE f == Top(l)
           s == l.stack
           d == Len(s)
           t == r.t
           rs == r.lx.reports
<1> SUFFICES ASSUME t.kind = "STR_END", At(t.start) # "quote" PROVE o # <<>> /\ SaidOf(Last(o), rs)
  BY DEF CutIsSaid
<1>1. f.mode = "STR"
  <2>1. Levels(l, r.lx, f, t)
    BY DEF Direct
  <2> HIDE DEF f, t
  <2> QED BY <2>1 DEF Levels, Enters, Leaves, Becoming, Staying, Ordinary, Structure
<1>2. <<"UNTERMINATED_STRING", f.open_at>> \in rs
  BY DEF Direct, Tells
<1>3. /\ f = s[d] /\ f.depth \in Nat /\ (f.mode # "NORMAL" => f.depth = 0 /\ d > 1)
  BY TopLevel
<1>4. PICK g : NestsBy(o, s, g)
  BY DEF Nests
<1>5. d \in Nat /\ d >= 1 /\ d \in 1 .. d
  BY StackIs DEF Stack
<1>6. Len(o) = g[d] + f.depth /\ g[d] \in Nat /\ o[g[d]] = Opening(f)
  <2>1. d \in 2 .. d
    BY <1>1, <1>3, <1>5
  <2> QED BY <1>3, <1>4, <1>5, <2>1 DEF NestsBy
<1>7. o \in Opens /\ Len(o) \in Nat /\ DOMAIN o = 1 .. Len(o)
  BY OpensIs DEF Nests
<1> HIDE DEF f, s, d, t, rs
<1>8. Len(o) = g[d]
  BY <1>1, <1>3, <1>6
<1>9. TopIs(o, {"str"})
  <2>1. Above(f) = "str" /\ {"str"} \in SUBSET Whats
    BY <1>1, <1>3 DEF Above, What, Whats
  <2> QED BY <2>1, NestsMode DEF f
<1>10. o # <<>> /\ Last(o) = Opening(f)
  BY <1>6, <1>8, <1>9 DEF TopIs, Last
<1>11. Opening(f).at = f.open_at /\ Missing(Opening(f)) = "UNTERMINATED_STRING"
  BY <1>1 DEF Opening, What, Missing
<1> QED BY <1>2, <1>10, <1>11 DEF SaidOf, rs

LEMMA EofSettles ==
    ASSUME TextInv, NEW l, Good(l), NEW o, Nests(o, l.stack), NEW r, Direct(l, r), r.t.kind = "EOF"
    PROVE  Settled(o, r.lx.reports)
<1> DEFINE f == Top(l)
           s == l.stack
           d == Len(s)
           rs == r.lx.reports
<1>1. Fits(o, r.t)
  BY DirectFits
<1>2. ~ TopIs(o, {"str"})
  BY <1>1 DEF Fits
<1>3. PICK g : NestsBy(o, s, g)
  BY DEF Nests
<1>4. o \in Opens /\ Len(o) \in Nat /\ DOMAIN o = 1 .. Len(o)
  BY OpensIs DEF Nests
<1>5. /\ f = s[d] /\ f.depth \in Nat /\ What(f) # "brace"
      /\ d > 1 => ~ (f.mode = "NORMAL" /\ f.close = "EOF")
  BY TopLevel
<1>6. d \in Nat /\ d >= 1 /\ d \in 1 .. d
  BY StackIs DEF Stack
<1>7. /\ g[d] \in Nat /\ Len(o) = g[d] + f.depth
      /\ \A j \in g[d] + 1 .. g[d] + f.depth : o[j].what = "brace"
      /\ d = 1 => g[d] = 0
  BY <1>3, <1>5, <1>6 DEF NestsBy
<1>8. d > 1 => o[g[d]] = Opening(f)
  <2>1. d > 1 => d \in 2 .. d
    BY <1>6
  <2> QED BY <1>3, <1>5, <2>1 DEF NestsBy
<1>9. (f.mode = "NORMAL" /\ f.close \in {"EOF", "CTRL_END"}) \/ <<LevelCode(f), f.open_at>> \in rs
  BY DEF Direct, Tells
<1>11. f.mode # "STR"
  <2>1. Levels(l, r.lx, f, r.t)
    BY DEF Direct
  <2> HIDE DEF f
  <2> QED BY <2>1 DEF Levels, Enters, Leaves, Becoming, Staying, Ordinary, Structure
<1> HIDE DEF f, s, d, rs
<1>10. ASSUME NEW j \in DOMAIN o, Inner(o, j) PROVE o[j].what = "ctrl" \/ SaidOf(o[j], rs)
  <2>1. j \in 1 .. Len(o) /\ o[j].what # "brace" /\ \A k \in j + 1 .. Len(o) : o[k].what = "brace"
    BY <1>4, <1>10 DEF Inner
  <2>2. j <= g[d]
    <3> SUFFICES ASSUME j > g[d] PROVE FALSE
      BY <1>7, <2>1
    <3>1. j \in g[d] + 1 .. g[d] + f.depth
      BY <1>4, <1>7, <2>1
    <3> QED BY <1>7, <2>1, <3>1
  <2>3. d > 1
    BY <1>4, <1>6, <1>7, <2>1, <2>2
  <2>4. o[g[d]].what = What(f) /\ o[g[d]].at = f.open_at
    BY <1>8, <2>3 DEF Opening
  <2>5. j = g[d]
    <3> SUFFICES ASSUME j # g[d] PROVE FALSE
      OBVIOUS
    <3>1. g[d] \in j + 1 .. Len(o)
      BY <1>4, <1>5, <1>7, <2>1, <2>2
    <3> QED BY <1>5, <2>1, <2>4, <3>1
  <2>6. CASE f.mode = "NORMAL" /\ f.close \in {"EOF", "CTRL_END"}
    <3>1. What(f) = "ctrl"
      BY <1>5, <2>3, <2>6 DEF What
    <3> QED BY <2>4, <2>5, <3>1
  <2>7. CASE ~ (f.mode = "NORMAL" /\ f.close \in {"EOF", "CTRL_END"}) /\ <<LevelCode(f), f.open_at>> \in rs
    <3>2. f.mode \in Modes /\ f.close \in {"EOF", "INTERP_END", "CTRL_END"}
      BY TopLevel DEF f
    <3>1. Missing(o[g[d]]) = LevelCode(f)
      <4>1. CASE f.mode = "NORMAL"
        <5>1. What(f) = "interp" /\ LevelCode(f) = "UNTERMINATED_INTERP"
          BY <2>7, <3>2, <4>1 DEF What, LevelCode
        <5> QED BY <2>4, <5>1 DEF Missing
      <4>2. CASE f.mode # "NORMAL"
        <5>1. What(f) \in {"elem", "tag", "closing"} /\ LevelCode(f) = "UNCLOSED_ELEMENT"
          BY <1>11, <3>2, <4>2 DEF What, LevelCode, Modes
        <5>2. o[g[d]].what \notin {"str", "interp"}
          BY <2>4, <5>1
        <5> QED BY <5>1, <5>2 DEF Missing
      <4> QED BY <4>1, <4>2
    <3> QED BY <2>4, <2>5, <2>7, <3>1 DEF SaidOf
  <2> QED BY <1>9, <2>6, <2>7
<1> QED BY <1>2, <1>10 DEF Settled, rs

-----------------------------------------------------------------------------
(* What is open, and what the lexer has scanned ahead.                       *)

LEMMA ScansPairs ==
    ASSUME TextInv, NEW l, Good(l), NEW o, Nests(o, l.stack), NEW r, Scans(l, r)
    PROVE  /\ Fits(o, r.t)
           /\ r.t.kind # "EOF" /\ ~ r.lx.depth_reported => Nests(Taken(o, r.t), r.lx.stack)
           /\ r.t.kind = "EOF" => Settled(o, r.lx.reports)
           /\ CutIsSaid(o, r.t, r.lx.reports)
<1>1. PICK p : Reaches(l, p) /\ Direct(p, r)
  BY DEF Scans
<1>2. Good(p) /\ Nests(o, p.stack)
  BY <1>1 DEF Reaches, Same
<1> QED BY <1>1, <1>2, DirectFits, DirectNests, DirectCuts, EofSettles

LEMMA ScansReports ==
    ASSUME TextInv, NEW l, Good(l), NEW r, Scans(l, r)
    PROVE  l.reports \subseteq r.lx.reports /\ (l.depth_reported => r.lx.depth_reported)
<1>1. PICK p : Reaches(l, p) /\ Direct(p, r)
  BY DEF Scans
<1>2. l.depth_reported => r.lx.depth_reported
  BY <1>1, DirectReports DEF Reaches, Same
<1>3. Goes(l, r.lx)
  BY ScansIs
<1> QED BY <1>2, <1>3 DEF Goes

(* With o open, the token pushed back comes next.                            *)
Paired(l, o) ==
    IF l.stash = NoToken THEN Nests(o, l.stack)
    ELSE Fits(o, l.stash) /\ Nests(Taken(o, l.stash), l.stack) /\ CutIsSaid(o, l.stash, l.reports)

(* Where the scanning has come to once token t is given.                     *)
Came(l, t, o) ==
    /\ CutIsSaid(o, t, l.reports)
    /\ IF t.kind = "EOF" THEN Settled(o, l.reports) ELSE Paired(l, Taken(o, t))

LEMMA RawReports ==
    ASSUME TextInv, NEW l, Good(l)
    PROVE  LET r == next_raw(l)
           IN  l.reports \subseteq r.lx.reports /\ (l.depth_reported => r.lx.depth_reported)
<1> DEFINE r == next_raw(l)
<1>1. CASE l.stash # NoToken
  <2> DEFINE m == [l EXCEPT !.stash = NoToken]
  <2>1. r = [lx |-> m, t |-> l.stash]
    BY <1>1 DEF next_raw
  <2>2. m.reports = l.reports /\ m.depth_reported = l.depth_reported
    BY DEF Good, LexerSet
  <2> HIDE DEF m
  <2> QED BY <2>1, <2>2
<1>2. CASE l.stash = NoToken
  <2>1. r = lex_advance(l)
    BY <1>2 DEF next_raw
  <2>2. Advances(l, r)
    BY <2>1, AdvanceIs
  <2> HIDE DEF r
  <2>3. CASE Scanned(l, r)
    BY <2>3, ScansReports DEF Scanned, r
  <2>4. CASE \E s : Ended(l, r, s)
    <3>1. PICK s : Ended(l, r, s)
      BY <2>4
    <3>2. Scans(l, s) /\ r.lx = [s.lx EXCEPT !.stash = s.t]
      BY <3>1 DEF Ended
    <3>3. s.lx \in LexerSet
      BY <3>2, ScansIs
    <3>4. r.lx.reports = s.lx.reports /\ r.lx.depth_reported = s.lx.depth_reported
      BY <3>2, <3>3 DEF LexerSet
    <3>5. l.reports \subseteq s.lx.reports /\ (l.depth_reported => s.lx.depth_reported)
      BY <3>2, ScansReports
    <3> QED BY <3>4, <3>5 DEF r
  <2> QED BY <2>2, <2>3, <2>4 DEF Advances
<1> QED BY <1>1, <1>2

LEMMA RawPairs ==
    ASSUME TextInv, NEW l, Good(l), Stashed(l), NEW o, Paired(l, o)
    PROVE  LET r == next_raw(l)
           IN  Fits(o, r.t) /\ (~ r.lx.depth_reported => Came(r.lx, r.t, o))
<1> DEFINE r == next_raw(l)
<1>1. CASE l.stash # NoToken
  <2> DEFINE m == [l EXCEPT !.stash = NoToken]
  <2>1. r = [lx |-> m, t |-> l.stash]
    BY <1>1 DEF next_raw
  <2>2. m.stash = NoToken /\ m.stack = l.stack /\ m.reports = l.reports
    BY DEF Good, LexerSet
  <2> HIDE DEF m
  <2>3. l.stash.kind # "EOF"
    BY <1>1 DEF Stashed, Follows
  <2>4. Fits(o, l.stash) /\ Nests(Taken(o, l.stash), l.stack) /\ CutIsSaid(o, l.stash, l.reports)
    BY <1>1 DEF Paired
  <2>5. Came(m, l.stash, o)
    BY <2>2, <2>3, <2>4 DEF Came, Paired
  <2> QED BY <2>1, <2>4, <2>5
<1>2. CASE l.stash = NoToken
  <2>1. r = lex_advance(l)
    BY <1>2 DEF next_raw
  <2>2. Advances(l, r) /\ Nests(o, l.stack)
    BY <1>2, <2>1, AdvanceIs DEF Paired
  <2> HIDE DEF r
  <2>3. CASE Scanned(l, r)
    <3>1. Scans(l, r) /\ r.lx.stash = NoToken
      BY <1>2, <2>3, ScansMode DEF Scanned
    <3>2. /\ Fits(o, r.t)
          /\ r.t.kind # "EOF" /\ ~ r.lx.depth_reported => Nests(Taken(o, r.t), r.lx.stack)
          /\ r.t.kind = "EOF" => Settled(o, r.lx.reports)
          /\ CutIsSaid(o, r.t, r.lx.reports)
      BY <2>2, <3>1, ScansPairs
    <3>3. ~ r.lx.depth_reported => Came(r.lx, r.t, o)
      BY <3>1, <3>2 DEF Came, Paired
    <3> QED BY <3>2, <3>3 DEF r
  <2>4. CASE \E s : Ended(l, r, s)
    <3>1. PICK s : Ended(l, r, s)
      BY <2>4
    <3>2. /\ Scans(l, s) /\ r.lx = [s.lx EXCEPT !.stash = s.t] /\ r.t.kind = "NEWLINE" /\ r.t.mode = "NORMAL"
          /\ ~ Follows(s.t.kind) /\ Top(l).mode = "NORMAL"
      BY <3>1 DEF Ended
    <3>3. s.lx \in LexerSet /\ s.t \in TokenSet /\ s.t.kind \notin {None, "NEWLINE"}
      BY <3>2, ScansIs, ScansYields
    <3>4. /\ r.lx.depth_reported = s.lx.depth_reported /\ r.lx.stack = s.lx.stack
          /\ r.lx.stash = s.t /\ s.t # NoToken /\ r.lx.reports = s.lx.reports
      BY <3>2, <3>3, NoTokenIs DEF LexerSet
    <3>5. s.t.kind # "EOF"
      BY <3>2 DEF Follows
    <3>6. /\ Fits(o, s.t) /\ (~ s.lx.depth_reported => Nests(Taken(o, s.t), s.lx.stack))
          /\ CutIsSaid(o, s.t, s.lx.reports)
      BY <2>2, <3>2, <3>5, ScansPairs
    <3>7. Taken(o, r.t) = o
      BY <3>2, TakenIs DEF Structure
    <3>8. ~ r.lx.depth_reported => Came(r.lx, r.t, o)
      <4>1. CutIsSaid(o, r.t, r.lx.reports)
        BY <3>2 DEF CutIsSaid
      <4> QED BY <3>2, <3>4, <3>6, <3>7, <4>1 DEF Came, Paired
    <3>9. Fits(o, r.t)
      <4>1. Above(Top(l)) \notin {"str", "tag", "closing", "elem"}
        BY <3>2 DEF Above, What
      <4>2. /\ {"str"} \in SUBSET Whats /\ {"tag", "closing"} \in SUBSET Whats /\ {"elem"} \in SUBSET Whats
            /\ {"str", "tag", "closing", "elem"} \in SUBSET Whats
        BY DEF Whats
      <4>3. /\ ~ TopIs(o, {"str"}) /\ ~ TopIs(o, {"tag", "closing"}) /\ ~ TopIs(o, {"elem"})
            /\ ~ TopIs(o, {"str", "tag", "closing", "elem"})
        BY <2>2, <4>1, <4>2, NestsMode
      <4> QED BY <3>2, <4>3 DEF Fits
    <3> QED BY <3>8, <3>9 DEF r
  <2> QED BY <2>2, <2>3, <2>4 DEF Advances
<1> QED BY <1>1, <1>2

(* After the token b, with o open: the token peeked at comes next.           *)
Linked(l, b, o) ==
    ~ l.depth_reported =>
        IF b.kind = "EOF" THEN Settled(o, l.reports)
        ELSE IF l.peeked = NoToken THEN Paired(l, o)
        ELSE Fits(o, l.peeked) /\ Came(l, l.peeked, o)

LEMMA EndFits ==
    ASSUME NEW o, NEW rs, Settled(o, rs), NEW t, t.kind = "EOF"
    PROVE  Fits(o, t) /\ Taken(o, t) = o
<1>1. Fits(o, t)
  BY DEF Fits, Settled
<1> QED BY <1>1, TakenIs

LEMMA SignificantIs ==
    ASSUME NEW q, Pair(q), q.lx \in LexerSet
    PROVE  LET r == Significant(q)
           IN  /\ r.t = q.t /\ r.lx.stash = q.lx.stash /\ r.lx.stack = q.lx.stack
               /\ r.lx.depth_reported = q.lx.depth_reported /\ r.lx.reports = q.lx.reports
               /\ r.lx.peeked = q.lx.peeked
<1> DEFINE r == Significant(q)
           m == q.lx
           c == q.t.kind
           p == [m EXCEPT !.prev = c]
<1>1. r = IF c = "NEWLINE" THEN q ELSE [q EXCEPT !.lx = p]
  BY DEF Significant
<1>2. /\ p.stash = m.stash /\ p.stack = m.stack /\ p.depth_reported = m.depth_reported
      /\ p.reports = m.reports /\ p.peeked = m.peeked
  BY DEF LexerSet
<1> HIDE DEF p, c, r
<1>3. r.t = q.t /\ (r.lx = m \/ r.lx = p)
  BY <1>1 DEF Pair
<1> QED BY <1>2, <1>3 DEF r

LEMMA NextLinks ==
    ASSUME TextInv, NEW l, NEW b, NEW told, NEW k, Holds(l, b, told, k), NEW o, Linked(l, b, o)
    PROVE  LET r == lex_next(l)
           IN  /\ ~ l.depth_reported => Fits(o, r.t)
               /\ Linked(r.lx, r.t, Taken(o, r.t))
               /\ ~ r.lx.depth_reported => CutIsSaid(o, r.t, r.lx.reports)
               /\ l.depth_reported => r.lx.depth_reported
<1> DEFINE q == IF l.peeked # NoToken THEN [lx |-> [l EXCEPT !.peeked = NoToken], t |-> l.peeked] ELSE next_raw(l)
           r == lex_next(l)
<1>1. r = Significant(q)
  BY DEF lex_next
<1>2. Good(l) /\ Stashed(l) /\ l \in LexerSet
  BY DEF Holds, Good
<1>3. b.kind = "EOF" => r.t.kind = "EOF"
  BY NextComes DEF Comes
<1>4. /\ Pair(q) /\ q.lx \in LexerSet /\ q.lx.peeked = NoToken
      /\ l.reports \subseteq q.lx.reports /\ (l.depth_reported => q.lx.depth_reported)
      /\ ~ l.depth_reported /\ b.kind # "EOF" => Fits(o, q.t) /\ (~ q.lx.depth_reported => Came(q.lx, q.t, o))
  <2>1. CASE l.peeked # NoToken
    <3> DEFINE m == [l EXCEPT !.peeked = NoToken]
    <3>1. q = [lx |-> m, t |-> l.peeked]
      BY <2>1
    <3>2. /\ m \in LexerSet /\ m.stash = l.stash /\ m.stack = l.stack /\ m.depth_reported = l.depth_reported
          /\ m.reports = l.reports /\ m.peeked = NoToken
      BY <1>2, NoTokenIs DEF LexerSet
    <3> HIDE DEF m
    <3>3. q.lx = m /\ q.t = l.peeked /\ Pair(q)
      BY <3>1 DEF Pair
    <3> HIDE DEF q
    <3>4. ~ l.depth_reported /\ b.kind # "EOF" => Fits(o, l.peeked) /\ Came(l, l.peeked, o)
      BY <2>1 DEF Linked
    <3>5. Came(l, l.peeked, o) => Came(m, l.peeked, o)
      BY <3>2 DEF Came, Paired
    <3> QED BY <3>2, <3>3, <3>4, <3>5
  <2>2. CASE l.peeked = NoToken
    <3>1. q = next_raw(l)
      BY <2>2
    <3> HIDE DEF q
    <3>2. Waits(b, l)
      BY <2>2 DEF Holds
    <3>3. Pair(q) /\ q.lx.peeked = l.peeked /\ Good(q.lx)
      BY <1>2, <3>1, <3>2, RawComes
    <3>4. l.reports \subseteq q.lx.reports /\ (l.depth_reported => q.lx.depth_reported)
      BY <1>2, <3>1, RawReports
    <3>5. ~ l.depth_reported /\ b.kind # "EOF" => Paired(l, o)
      BY <2>2 DEF Linked
    <3>6. ~ l.depth_reported /\ b.kind # "EOF" => Fits(o, q.t) /\ (~ q.lx.depth_reported => Came(q.lx, q.t, o))
      BY <1>2, <3>1, <3>5, RawPairs
    <3> QED BY <2>2, <3>3, <3>4, <3>6 DEF Good
  <2> QED BY <2>1, <2>2
<1> HIDE DEF q
<1>5. /\ r.t = q.t /\ r.lx.stash = q.lx.stash /\ r.lx.stack = q.lx.stack
      /\ r.lx.depth_reported = q.lx.depth_reported /\ r.lx.reports = q.lx.reports /\ r.lx.peeked = NoToken
  BY <1>1, <1>4, SignificantIs
<1> HIDE DEF r
<1>6. CASE b.kind = "EOF"
  <2>1. r.t.kind = "EOF"
    BY <1>3, <1>6
  <2>2. ~ l.depth_reported => Settled(o, l.reports)
    BY <1>6 DEF Linked
  <2>3. ~ l.depth_reported => Settled(o, r.lx.reports)
    BY <1>4, <1>5, <2>2, SettledGrows
  <2>4. ~ l.depth_reported => Fits(o, r.t) /\ Taken(o, r.t) = o
    BY <2>1, <2>2, EndFits
  <2>5. Linked(r.lx, r.t, Taken(o, r.t))
    BY <1>4, <1>5, <2>1, <2>3, <2>4 DEF Linked
  <2>6. CutIsSaid(o, r.t, r.lx.reports)
    BY <2>1 DEF CutIsSaid
  <2> QED BY <1>4, <1>5, <2>4, <2>5, <2>6 DEF r
<1>7. CASE b.kind # "EOF"
  <2>1. Came(q.lx, q.t, o) => Came(r.lx, r.t, o)
    BY <1>5 DEF Came, Paired
  <2>2. ~ r.lx.depth_reported => Came(r.lx, r.t, o)
    BY <1>4, <1>5, <1>7, <2>1
  <2>3. Linked(r.lx, r.t, Taken(o, r.t))
    <3>1. r.t.kind = "EOF" => Taken(o, r.t) = o
      BY TakenIs
    <3> QED BY <1>5, <2>2, <3>1 DEF Linked, Came
  <2>4. ~ r.lx.depth_reported => CutIsSaid(o, r.t, r.lx.reports)
    BY <2>2 DEF Came
  <2> QED BY <1>4, <1>5, <1>7, <2>3, <2>4 DEF r
<1> QED BY <1>6, <1>7

LEMMA PeekLinks ==
    ASSUME TextInv, NEW l, NEW b, NEW told, NEW k, Holds(l, b, told, k), l.peeked = NoToken, NEW o, Linked(l, b, o)
    PROVE  Linked(lex_peek(l), b, o)
<1> DEFINE r == next_raw(l)
           m == r.lx
           s == lex_peek(l)
<1>1. Good(l) /\ Stashed(l) /\ Waits(b, l)
  BY DEF Holds
<1>2. Comes(b, r.t, m) /\ Good(m)
  BY <1>1, RawComes
<1>3. l.reports \subseteq m.reports /\ (l.depth_reported => m.depth_reported)
  BY <1>1, RawReports
<1>4. ~ l.depth_reported /\ b.kind # "EOF" => Fits(o, r.t) /\ (~ m.depth_reported => Came(m, r.t, o))
  <2>1. ~ l.depth_reported /\ b.kind # "EOF" => Paired(l, o)
    BY DEF Linked
  <2> QED BY <1>1, <2>1, RawPairs
<1>5. s = [m EXCEPT !.peeked = r.t]
  BY DEF lex_peek, Kept
<1> HIDE DEF r, s
<1>6. r.t \in TokenSet /\ r.t # NoToken /\ m \in LexerSet
  BY <1>2, NoTokenIs DEF Comes, Joins, Good
<1>7. /\ s.stash = m.stash /\ s.stack = m.stack /\ s.reports = m.reports /\ s.peeked = r.t
      /\ s.depth_reported = m.depth_reported
  BY <1>5, <1>6 DEF LexerSet
<1>8. Came(m, r.t, o) => Came(s, r.t, o)
  BY <1>7 DEF Came, Paired
<1>9. b.kind = "EOF" /\ ~ l.depth_reported => Settled(o, s.reports)
  <2>1. b.kind = "EOF" /\ ~ l.depth_reported => Settled(o, l.reports)
    BY DEF Linked
  <2> QED BY <1>3, <1>7, <2>1, SettledGrows
<1> QED BY <1>3, <1>4, <1>6, <1>7, <1>8, <1>9 DEF Linked, s

LEMMA OpenLinks ==
    ASSUME TextInv, NEW l, NEW b, NEW k, Holds(l, b, "open", k), l.peeked = NoToken, NEW o, Linked(l, b, o)
    PROVE  Linked(push_frame(l, "TAG", b.start, "EOF"), b, Opened(o, "tag", b.start))
<1> DEFINE m == push_frame(l, "TAG", b.start, "EOF")
           f == Frame("TAG", b.start, "EOF")
<1>1. Good(l) /\ b \in TokenSet /\ Fresh(b) /\ l.stash = NoToken /\ l \in LexerSet /\ b.start <= b.end /\ b.end <= l.i
  BY DEF Holds, Good
<1>2. b.start \in Nat /\ b.end \in Nat /\ b.kind # "EOF" /\ l.i \in 0 .. n /\ n \in Nat
  BY <1>1, CursorIs DEF TokenSet, Fresh, Good
<1>3. f \in FrameSet
  <2>1. b.start <= n
    BY <1>1, <1>2
  <2> QED BY <1>2, <2>1 DEF Frame, FrameSet, Modes, Positions
<1>4. f.depth = 0 /\ f.open_at = b.start /\ What(f) = "tag" /\ "tag" \in Whats
  BY DEF Frame, What, Whats
<1> HIDE DEF f
<1>5. m \in LexerSet /\ Goes(l, m) /\ m.i = l.i /\ Pushes(l, m, f)
  <2>1. Frame("TAG", b.start, "EOF") \in FrameSet /\ Len(l.stack) \in Nat /\ l.stack \in Seq(FrameSet)
    BY <1>1, <1>3, GoodStack DEF f
  <2> QED BY <1>1, <1>2, <2>1, CursorIs, PushIs DEF f
<1> HIDE DEF m
<1>6. SUFFICES ASSUME ~ m.depth_reported PROVE Linked(m, b, Opened(o, "tag", b.start))
  BY DEF Linked, m
<1>7. m.stack = Append(l.stack, f) /\ ~ l.depth_reported
  BY <1>5, <1>6 DEF Pushes
<1>8. Nests(o, l.stack)
  BY <1>1, <1>2, <1>7 DEF Linked, Paired
<1>9. Nests(Opened(o, "tag", b.start), m.stack)
  <2>1. Nests(Opened(o, What(f), f.open_at), Append(l.stack, f))
    BY <1>1, <1>2, <1>4, <1>8, StackIs, NestsPush
  <2> QED BY <1>4, <1>7, <2>1
<1>10. m.stash = NoToken /\ m.peeked = NoToken
  BY <1>1, <1>5 DEF Goes
<1> QED BY <1>2, <1>9, <1>10 DEF Linked, Paired

LEMMA CloseLinks ==
    ASSUME TextInv, NEW l, NEW b, NEW k, Holds(l, b, "close", k), l.peeked = NoToken, NEW o, Linked(l, b, o),
           TopIs(o, {"elem"})
    PROVE  Linked(IF Top(l).mode \in {"CONTENT", "TAG"} THEN pop_frame(l) ELSE l, b, Front(o))
<1> DEFINE f == Top(l)
           m == pop_frame(l)
           s == IF f.mode \in {"CONTENT", "TAG"} THEN m ELSE l
<1>1. Good(l) /\ l \in LexerSet /\ b.kind = "TAG_END" /\ l.stash = NoToken
  BY DEF Holds, Good, Waits
<1>2. s.depth_reported = l.depth_reported
  BY <1>1 DEF pop_frame, LexerSet
<1>3. SUFFICES ASSUME ~ l.depth_reported PROVE Linked(s, b, Front(o))
  BY <1>2 DEF Linked
<1>4. Nests(o, l.stack)
  BY <1>1, <1>3 DEF Linked, Paired
<1>5. Above(f) = "elem"
  <2>1. {"elem"} \in SUBSET Whats
    BY DEF Whats
  <2> QED BY <1>1, <1>4, <2>1, NestsMode
<1>6. /\ f = l.stack[Len(l.stack)] /\ f.depth \in Nat /\ f.mode \in Modes
      /\ (f.mode # "NORMAL" => f.depth = 0 /\ Len(l.stack) > 1)
  BY <1>1, TopLevel
<1>7. f.mode = "CONTENT"
  BY <1>5, <1>6 DEF Above, What
<1>8. s = m /\ Len(l.stack) > 1 /\ l.stack[Len(l.stack)].depth = 0
  BY <1>6, <1>7
<1>9. Nests(Front(o), Front(l.stack))
  BY <1>1, <1>4, <1>8, StackIs, NestsPop
<1>10. m.stack = Front(l.stack) /\ m.stash = NoToken /\ m.peeked = NoToken
  BY <1>1, <1>8 DEF pop_frame, LexerSet
<1> HIDE DEF m, s
<1> QED BY <1>1, <1>8, <1>9, <1>10 DEF Linked, Paired

LEMMA TakenOpens ==
    ASSUME NEW o \in Opens, NEW t, t.start \in Nat
    PROVE  Taken(o, t) \in Opens
<1>1. \/ \E w \in Whats : Taken(o, t) = Opened(o, w, t.start)
      \/ \E w \in Whats : o # <<>> /\ Taken(o, t) = Becomes(o, w)
      \/ o # <<>> /\ Taken(o, t) = Front(o)
      \/ Taken(o, t) = o
  <2>1. CASE o = <<>>
    <3>1. \A S : ~ TopIs(o, S)
      BY <2>1 DEF TopIs
    <3>2. \/ t.kind \in {"STR_START", "INTERP_START", "CTRL_START", "LBRACE"}
          \/ t.kind = "MARKUP_START" /\ t.mode = "CONTENT"
          \/ Taken(o, t) = o
      BY <2>1, <3>1 DEF Taken
    <3> QED BY <3>2, TakenIs DEF Whats
  <2>2. CASE o # <<>>
    <3>1. t.kind = "TAG_END" /\ ~ TopIs(o, {"tag"}) /\ ~ TopIs(o, {"closing"}) => Taken(o, t) = o
      BY DEF Taken
    <3>2. /\ t.kind \in Structure =>
               t.kind \in {"STR_START", "INTERP_START", "CTRL_START", "LBRACE", "MARKUP_START", "TAG_CLOSE_START",
                           "TAG_END", "STR_END", "INTERP_END", "CTRL_END", "TAG_SELF_CLOSE", "RBRACE", "EOF"}
          /\ {"str", "interp", "ctrl", "brace", "tag", "elem", "closing"} \subseteq Whats
      BY DEF Structure, Whats
    <3> QED BY <2>2, <3>1, <3>2, TakenIs
  <2> QED BY <2>1, <2>2
<1>2. o # <<>> => Front(o) \in Opens
  <2> SUFFICES ASSUME o # <<>> PROVE Front(o) \in Opens
    OBVIOUS
  <2>1. o \in Seq([what : Whats, at : Nat])
    BY DEF Opens
  <2> QED BY <2>1, FrontIs DEF Opens
<1>3. \A w \in Whats : Opened(o, w, t.start) \in Opens
  BY OpenedIs
<1>4. o # <<>> => \A w \in Whats : Becomes(o, w) \in Opens
  BY BecomesIs
<1> QED BY <1>1, <1>2, <1>3, <1>4

LinkInv ==
    /\ Linked(lx, tok, open) /\ open \in Opens
    /\ may = "close" => TopIs(open, {"elem"})

LEMMA InitLinks == Init => LinkInv
<1> SUFFICES ASSUME Init PROVE LinkInv
  OBVIOUS
<1> DEFINE f == Frame("NORMAL", 0, "EOF")
           s == <<f>>
<1>1. /\ lx.stash = NoToken /\ lx.peeked = NoToken /\ lx.stack = s /\ tok = NoToken /\ may = None /\ open = <<>>
  BY DEF Init
<1>2. f.depth = 0
  BY DEF Frame
<1>3. Len(s) = 1 /\ s[1] = f
  OBVIOUS
<1> HIDE DEF f, s
<1>4. open \in Opens /\ Len(open) = 0
  BY <1>1 DEF Opens
<1> DEFINE g == [k \in 1 .. 1 |-> 0]
<1>5. g \in [1 .. 1 -> Nat] /\ g[1] = 0
  OBVIOUS
<1> HIDE DEF g
<1>6. NestsBy(open, s, g)
  <2>1. \A k \in 1 .. 1 : k = 1
    OBVIOUS
  <2>2. \A k \in 1 .. 1 - 1 : FALSE
    OBVIOUS
  <2>3. \A k \in 2 .. 1 : FALSE
    OBVIOUS
  <2>4. \A k \in 1 .. 1 : \A j \in g[k] + 1 .. g[k] + s[k].depth : FALSE
    BY <1>2, <1>3, <1>5, <2>1
  <2>5. \A k, m \in 1 .. 1 : ~ (k < m)
    OBVIOUS
  <2> QED BY <1>2, <1>3, <1>4, <1>5, <2>2, <2>3, <2>4, <2>5 DEF NestsBy
<1>7. Nests(open, lx.stack)
  BY <1>1, <1>4, <1>6 DEF Nests
<1>8. tok.kind # "EOF" /\ may # "close"
  BY <1>1, NoTokenIs DEF None
<1> QED BY <1>1, <1>4, <1>7, <1>8 DEF LinkInv, Linked, Paired

LEMMA StepLinks == LexInv /\ LinkInv /\ [Next]_vars => LinkInv'
<1> SUFFICES ASSUME LexInv, LinkInv, [Next]_vars PROVE LinkInv'
  OBVIOUS
<1>1. /\ TextInv /\ Holds(lx, tok, may, taken) /\ Linked(lx, tok, open) /\ open \in Opens
      /\ may = "close" => TopIs(open, {"elem"})
  BY DEF LexInv, LinkInv
<1>2. tok \in TokenSet /\ tok.start \in Nat
  BY <1>1 DEF Holds, TokenSet
<1>t. text' = text
  BY DEF Next, NextToken, Peek, OpenMarkup, CloseElement, vars
<1>3. ASSUME Linked(lx', tok', open'), open' \in Opens, may' = "close" => TopIs(open', {"elem"}) PROVE LinkInv'
  BY <1>t, <1>3 DEF LinkInv, Linked, Settled, Paired, Came, Nests, NestsBy, Fits, CutIsSaid, SaidOf, At, n
<1>4. CASE NextToken
  <2> DEFINE r == lex_next(lx)
             t == r.t
  <2>1. lx' = r.lx /\ tok' = t /\ open' = Taken(open, t) /\ may' = Tellable(open, t)
    BY <1>4 DEF NextToken
  <2>2. Linked(r.lx, t, Taken(open, t))
    BY <1>1, NextLinks
  <2>3. t \in TokenSet
    BY <1>1, NextComes DEF Comes, Joins
  <2> HIDE DEF r, t
  <2>4. Taken(open, t) \in Opens
    BY <1>1, <2>3, TakenOpens DEF TokenSet
  <2>5. may' = "close" => TopIs(open', {"elem"})
    <3> SUFFICES ASSUME may' = "close" PROVE TopIs(open', {"elem"})
      OBVIOUS
    <3>1. t.kind = "TAG_END" /\ TopIs(open, {"tag"})
      BY <2>1 DEF Tellable, None
    <3>2. Taken(open, t) = Becomes(open, "elem") /\ open # <<>> /\ "elem" \in Whats
      BY <3>1, TakenIs DEF TopIs, Whats
    <3>3. /\ Becomes(open, "elem") \in Opens /\ Len(Becomes(open, "elem")) = Len(open)
          /\ Becomes(open, "elem")[Len(open)].what = "elem"
      <4> DEFINE w == "elem"
      <4>1. w \in Whats /\ open # <<>> /\ open \in Opens
        BY <1>1, <3>2
      <4> HIDE DEF w
      <4>2. /\ Becomes(open, w) \in Opens /\ Len(Becomes(open, w)) = Len(open)
            /\ Becomes(open, w)[Len(open)] = [what |-> w, at |-> open[Len(open)].at]
        BY <4>1, BecomesIs
      <4> QED BY <4>2 DEF w
    <3>4. Becomes(open, "elem") # <<>> /\ Last(Becomes(open, "elem")) = Becomes(open, "elem")[Len(open)]
      BY <1>1, <3>2, <3>3, OpensIs
    <3> QED BY <2>1, <3>2, <3>3, <3>4 DEF TopIs
  <2> QED BY <1>3, <2>1, <2>2, <2>4, <2>5
<1>5. CASE Peek
  <2>1. lx' = lex_peek(lx) /\ tok' = tok /\ may' = may /\ open' = open /\ lx.peeked = NoToken
    BY <1>5 DEF Peek
  <2>2. Linked(lex_peek(lx), tok, open)
    BY <1>1, <2>1, PeekLinks
  <2> QED BY <1>1, <1>3, <2>1, <2>2
<1>6. CASE OpenMarkup
  <2>1. /\ lx' = push_frame(lx, "TAG", tok.start, "EOF") /\ tok' = tok /\ may' = None
        /\ open' = Opened(open, "tag", tok.start) /\ lx.peeked = NoToken /\ may = "open"
    BY <1>6 DEF OpenMarkup
  <2>2. Linked(push_frame(lx, "TAG", tok.start, "EOF"), tok, Opened(open, "tag", tok.start))
    <3>1. Holds(lx, tok, "open", taken)
      BY <1>1, <2>1
    <3> QED BY <1>1, <2>1, <3>1, OpenLinks
  <2>3. Opened(open, "tag", tok.start) \in Opens
    <3>1. "tag" \in Whats
      BY DEF Whats
    <3> QED BY <1>1, <1>2, <3>1, OpenedIs
  <2> QED BY <1>3, <2>1, <2>2, <2>3 DEF None
<1>7. CASE CloseElement
  <2> DEFINE m == IF Top(lx).mode \in {"CONTENT", "TAG"} THEN pop_frame(lx) ELSE lx
  <2>1. /\ lx' = m /\ tok' = tok /\ may' = None /\ open' = Front(open) /\ lx.peeked = NoToken /\ may = "close"
    BY <1>7 DEF CloseElement
  <2>2. Linked(m, tok, Front(open))
    <3>1. Holds(lx, tok, "close", taken)
      BY <1>1, <2>1
    <3> QED BY <1>1, <2>1, <3>1, CloseLinks
  <2> HIDE DEF m
  <2>3. Front(open) \in Opens
    <3>1. open \in Seq([what : Whats, at : Nat]) /\ open # <<>>
      BY <1>1, <2>1 DEF Opens, TopIs
    <3> QED BY <3>1, FrontIs DEF Opens
  <2> QED BY <1>3, <2>1, <2>2, <2>3 DEF None
<1>8. CASE UNCHANGED vars
  <2>1. lx' = lx /\ tok' = tok /\ may' = may /\ open' = open
    BY <1>8 DEF vars
  <2> QED BY <1>1, <1>3, <2>1
<1> QED BY <1>4, <1>5, <1>6, <1>7, <1>8 DEF Next

(* What the tokens have left open is what the levels of lex.c say, up to the *)
(* token scanned ahead: the parser's count and the lexer's stack agree.      *)
THEOREM OpenIsLinked == Spec => []LinkInv
<1> QED BY LexerInvariant, InitLinks, StepLinks, PTL DEF Spec

(* The step of a token that is taken.                                        *)
LEMMA TakingFits ==
    ASSUME LexInv, LinkInv, NextToken
    PROVE  /\ open' = Taken(open, tok') /\ tok' \in TokenSet /\ open \in Opens
           /\ lx.depth_reported => lx'.depth_reported
           /\ ~ lx.depth_reported => Fits(open, tok')
           /\ ~ lx'.depth_reported => CutIsSaid(open, tok', lx'.reports)
           /\ Linked(lx', tok', open')
<1>1. TextInv /\ Holds(lx, tok, may, taken) /\ Linked(lx, tok, open) /\ open \in Opens
  BY DEF LexInv, LinkInv
<1>2. lx' = lex_next(lx).lx /\ tok' = lex_next(lx).t /\ open' = Taken(open, lex_next(lx).t)
  BY DEF NextToken
<1>3. lex_next(lx).t \in TokenSet
  BY <1>1, NextComes DEF Comes, Joins
<1>4. /\ ~ lx.depth_reported => Fits(open, lex_next(lx).t)
      /\ lx.depth_reported => lex_next(lx).lx.depth_reported
      /\ ~ lex_next(lx).lx.depth_reported => CutIsSaid(open, lex_next(lx).t, lex_next(lx).lx.reports)
      /\ Linked(lex_next(lx).lx, lex_next(lx).t, Taken(open, lex_next(lx).t))
  BY <1>1, NextLinks
<1> QED BY <1>1, <1>2, <1>3, <1>4

(* What a token of kind k closes.                                            *)
Opener(k) ==
    CASE k = "STR_END" -> {"str"}
      [] k = "INTERP_END" -> {"interp"}
      [] k = "CTRL_END" -> {"ctrl"}
      [] k = "TAG_CLOSE_START" -> {"elem"}
      [] k = "TAG_SELF_CLOSE" -> {"tag", "closing"}
      [] k = "TAG_END" -> {"tag", "closing"}

LEMMA FitsCloses ==
    ASSUME NEW o, NEW t, Fits(o, t),
           t.kind \in {"STR_END", "INTERP_END", "CTRL_END", "TAG_CLOSE_START", "TAG_SELF_CLOSE", "TAG_END"}
    PROVE  TopIs(o, Opener(t.kind))
<1>1. TopIs(o, {"str", "tag", "closing", "elem"}) => TopIs(o, {"str"}) \/ TopIs(o, {"tag", "closing"}) \/ TopIs(o, {"elem"})
  BY DEF TopIs
<1>2. t.kind = "STR_END" => TopIs(o, {"str"})
  BY <1>1 DEF Fits
<1>3. t.kind = "INTERP_END" => TopIs(o, {"interp"})
  BY <1>1 DEF Fits
<1>4. t.kind = "CTRL_END" => TopIs(o, {"ctrl"})
  BY <1>1 DEF Fits
<1>5. t.kind = "TAG_CLOSE_START" => TopIs(o, {"elem"})
  BY <1>1 DEF Fits
<1>6. t.kind \in {"TAG_SELF_CLOSE", "TAG_END"} => TopIs(o, {"tag", "closing"})
  BY <1>1 DEF Fits
<1>7. /\ Opener("STR_END") = {"str"} /\ Opener("INTERP_END") = {"interp"} /\ Opener("CTRL_END") = {"ctrl"}
      /\ Opener("TAG_CLOSE_START") = {"elem"} /\ Opener("TAG_SELF_CLOSE") = {"tag", "closing"}
      /\ Opener("TAG_END") = {"tag", "closing"}
  BY DEF Opener
<1> QED BY <1>2, <1>3, <1>4, <1>5, <1>6, <1>7

(* A string that is cut, and what is open innermost where the source ends,   *)
(* are reported at their opening, for every source within the depth bound    *)
(* (NormalEnd, Unterminated, Unclosed) and every use of the lookahead.       *)
THEOREM TheUnclosedIsReported == Spec => UnclosedIsReported
<1>1. LexInv /\ LinkInv /\ [Next]_vars =>
        [Taking /\ ~ lx'.depth_reported =>
           /\ tok'.kind = "STR_END" /\ At(tok'.start) # "quote" => open # <<>> /\ Said(Last(open))
           /\ tok'.kind = "EOF" =>
                 \A j \in DOMAIN open : Innermost(j) => open[j].what = "ctrl" \/ Said(open[j])]_vars
  <2> SUFFICES ASSUME LexInv, LinkInv, [Next]_vars, Taking, ~ lx'.depth_reported
               PROVE  /\ tok'.kind = "STR_END" /\ At(tok'.start) # "quote" => open # <<>> /\ Said(Last(open))
                      /\ tok'.kind = "EOF" =>
                            \A j \in DOMAIN open : Innermost(j) => open[j].what = "ctrl" \/ Said(open[j])
    OBVIOUS
  <2>1. NextToken
    BY DEF Next, Peek, OpenMarkup, CloseElement, vars, Taking
  <2>2. /\ open' = Taken(open, tok') /\ CutIsSaid(open, tok', lx'.reports)
        /\ Linked(lx', tok', open')
    BY <2>1, TakingFits
  <2>3. tok'.kind = "EOF" => Settled(open, lx'.reports)
    <3>1. tok'.kind = "EOF" => Taken(open, tok') = open
      BY TakenIs
    <3> QED BY <2>2, <3>1 DEF Linked
  <2>4. \A x : Said(x) <=> SaidOf(x, lx'.reports)
    BY DEF Said, SaidOf
  <2>5. \A j : Innermost(j) <=> Inner(open, j)
    BY DEF Innermost, Inner
  <2>6. tok'.kind = "STR_END" /\ At(tok'.start) # "quote" => open # <<>> /\ Said(Last(open))
    BY <2>2, <2>4 DEF CutIsSaid
  <2>7. tok'.kind = "EOF" => \A j \in DOMAIN open : Innermost(j) => open[j].what = "ctrl" \/ Said(open[j])
    BY <2>3, <2>4, <2>5 DEF Settled
  <2> QED BY <2>6, <2>7
<1> QED BY <1>1, LexerInvariant, OpenIsLinked, PTL DEF Spec, UnclosedIsReported

-----------------------------------------------------------------------------
(* The lexer keeps to TokenStream.                                           *)

(* What is open, without the places.                                         *)
Named(o) == [k \in DOMAIN o |-> o[k].what]

LEMMA NamedIs ==
    ASSUME NEW o \in Opens
    PROVE  /\ Named(o) \in Seq(Whats) /\ Len(Named(o)) = Len(o) /\ (Named(o) # <<>> <=> o # <<>>)
           /\ \A k \in 1 .. Len(o) : Named(o)[k] = o[k].what
           /\ o # <<>> => Last(Named(o)) = Last(o).what
<1>1. /\ Len(o) \in Nat /\ DOMAIN o = 1 .. Len(o) /\ (\A j \in 1 .. Len(o) : o[j].what \in Whats)
      /\ (o # <<>> <=> Len(o) > 0) /\ (o # <<>> => Last(o) = o[Len(o)])
  BY OpensIs
<1> DEFINE d == Len(o)
           p == Named(o)
<1>2. p \in [1 .. d -> Whats] /\ \A k \in 1 .. d : p[k] = o[k].what
  BY <1>1 DEF Named
<1>3. d \in Nat
  BY <1>1
<1> HIDE DEF d, p
<1>4. p \in Seq(Whats) /\ Len(p) = d
  BY <1>2, <1>3
<1>5. p # <<>> <=> d > 0
  BY <1>3, <1>4
<1>6. d > 0 => Last(p) = p[d] /\ d \in 1 .. d
  BY <1>3, <1>4 DEF Last
<1> QED BY <1>1, <1>2, <1>4, <1>5, <1>6 DEF d, p

LEMMA NamedEquals ==
    ASSUME NEW o \in Opens, NEW p \in Seq(Whats), Len(p) = Len(o), \A k \in 1 .. Len(o) : o[k].what = p[k]
    PROVE  Named(o) = p
<1>1. Named(o) \in Seq(Whats) /\ Len(Named(o)) = Len(o) /\ \A k \in 1 .. Len(o) : Named(o)[k] = o[k].what
  BY NamedIs
<1> DEFINE q == Named(o)
<1> HIDE DEF q
<1>2. q \in Seq(Whats) /\ Len(q) = Len(p) /\ \A k \in 1 .. Len(p) : q[k] = p[k]
  BY <1>1 DEF q
<1>3. q = p
  BY <1>2, SeqEqual
<1> QED BY <1>3 DEF q

LEMMA NamedMoves ==
    ASSUME NEW o \in Opens, NEW w \in Whats, NEW at \in Nat
    PROVE  /\ Named(Opened(o, w, at)) = Append(Named(o), w)
           /\ o # <<>> => Named(Front(o)) = Front(Named(o))
           /\ o # <<>> => Named(Becomes(o, w)) = Append(Front(Named(o)), w)
<1> DEFINE d == Len(o)
           q == Named(o)
<1>1. d \in Nat /\ q \in Seq(Whats) /\ Len(q) = d /\ (\A k \in 1 .. d : q[k] = o[k].what) /\ (q # <<>> <=> o # <<>>)
  BY NamedIs, OpensIs
<1> HIDE DEF q
<1>2. Named(Opened(o, w, at)) = Append(q, w)
  <2> DEFINE p == Append(q, w)
             u == Opened(o, w, at)
  <2>1. /\ p \in Seq(Whats) /\ Len(p) = d + 1 /\ p[d + 1] = w /\ \A k \in 1 .. d : p[k] = q[k]
    <3> HIDE DEF d
    <3> QED BY <1>1
  <2>2. u \in Opens /\ Len(u) = d + 1 /\ (\A j \in 1 .. d : u[j] = o[j]) /\ u[d + 1].what = w
    <3>1. u \in Opens /\ Len(u) = d + 1 /\ (\A j \in 1 .. d : u[j] = o[j]) /\ u[d + 1] = [what |-> w, at |-> at]
      BY OpenedIs
    <3> HIDE DEF u, d
    <3> QED BY <3>1
  <2> HIDE DEF p, u, d
  <2>3. \A k \in 1 .. d + 1 : u[k].what = p[k]
    <3>1. \A k \in 1 .. d + 1 : k \in 1 .. d \/ k = d + 1
      BY <1>1
    <3> QED BY <1>1, <2>1, <2>2, <3>1
  <2>4. Named(u) = p
    BY <2>1, <2>2, <2>3, NamedEquals
  <2> QED BY <2>4 DEF p, u
<1>3. ASSUME o # <<>>
      PROVE  /\ Front(q) \in Seq(Whats) /\ Len(Front(q)) = d - 1 /\ d > 0
             /\ \A k \in 1 .. d - 1 : Front(q)[k] = q[k]
  BY <1>1, <1>3, FrontIs
<1>4. ASSUME o # <<>> PROVE Named(Front(o)) = Front(q)
  <2> DEFINE u == Front(o)
  <2>1. u \in Opens /\ Len(u) = d - 1 /\ \A k \in 1 .. d - 1 : u[k] = o[k]
    BY <1>4, FrontIs DEF Opens
  <2> HIDE DEF u, d
  <2>2. \A k \in 1 .. d - 1 : u[k].what = Front(q)[k]
    <3>1. \A k \in 1 .. d - 1 : k \in 1 .. d
      BY <1>1
    <3> QED BY <1>1, <1>3, <1>4, <2>1, <3>1
  <2>3. Named(u) = Front(q)
    BY <1>3, <1>4, <2>1, <2>2, NamedEquals
  <2> QED BY <2>3 DEF u
<1>5. ASSUME o # <<>> PROVE Named(Becomes(o, w)) = Append(Front(q), w)
  <2> DEFINE c == Front(q)
             p == Append(c, w)
             u == Becomes(o, w)
  <2>1. c \in Seq(Whats) /\ Len(c) = d - 1 /\ d > 0 /\ \A k \in 1 .. d - 1 : c[k] = q[k]
    BY <1>3, <1>5
  <2>2. u \in Opens /\ Len(u) = d /\ (\A k \in 1 .. d - 1 : u[k] = o[k]) /\ u[d].what = w
    <3>1. /\ u \in Opens /\ Len(u) = d /\ (\A k \in 1 .. d - 1 : u[k] = o[k])
          /\ u[d] = [what |-> w, at |-> o[d].at]
      BY <1>5, BecomesIs
    <3> HIDE DEF u, d
    <3> QED BY <3>1
  <2> HIDE DEF c, u, d
  <2>3. p \in Seq(Whats) /\ Len(p) = d /\ p[d] = w /\ \A k \in 1 .. d - 1 : p[k] = c[k]
    BY <1>1, <2>1
  <2> HIDE DEF p
  <2>4. \A k \in 1 .. d : u[k].what = p[k]
    <3>1. \A k \in 1 .. d : k \in 1 .. d - 1 \/ k = d
      BY <1>1
    <3> QED BY <1>1, <2>1, <2>2, <2>3, <3>1
  <2>5. Named(u) = p
    BY <2>2, <2>3, <2>4, NamedEquals DEF d
  <2> QED BY <2>5 DEF p, c, u
<1> QED BY <1>2, <1>4, <1>5 DEF q

(* What TokenStream has open after a token.                                  *)
LEMMA StreamTaken ==
    ASSUME NEW p, NEW k
    PROVE  /\ k = "STR_START" => Tokens!Taken(p, k) = Append(p, "str")
           /\ k = "INTERP_START" => Tokens!Taken(p, k) = Append(p, "interp")
           /\ k = "CTRL_START" => Tokens!Taken(p, k) = Append(p, "ctrl")
           /\ k = "LBRACE" => Tokens!Taken(p, k) = Append(p, "brace")
           /\ k = "MARKUP_START" /\ Tokens!Mode(p) = "CONTENT" => Tokens!Taken(p, k) = Append(p, "tag")
           /\ k = "MARKUP_START" /\ Tokens!Mode(p) # "CONTENT" => Tokens!Taken(p, k) = p
           /\ k = "TAG_CLOSE_START" => Tokens!Taken(p, k) = Append(Front(p), "closing")
           /\ k = "TAG_END" /\ Tokens!TopIs(p, {"tag"}) => Tokens!Taken(p, k) = Append(Front(p), "elem")
           /\ k = "TAG_END" /\ Tokens!TopIs(p, {"closing"}) => Tokens!Taken(p, k) = Front(p)
           /\ k \in {"STR_END", "INTERP_END", "CTRL_END", "TAG_SELF_CLOSE"} => Tokens!Taken(p, k) = Front(p)
           /\ k = "RBRACE" /\ Tokens!TopIs(p, {"brace"}) => Tokens!Taken(p, k) = Front(p)
           /\ k = "RBRACE" /\ ~ Tokens!TopIs(p, {"brace"}) => Tokens!Taken(p, k) = p
           /\ k = "EOF" \/ k \notin Structure => Tokens!Taken(p, k) = p
<1>0. /\ Tokens!Front(p) = Front(p) /\ (\A w : Tokens!Becomes(p, w) = Append(Front(p), w))
      /\ Tokens!TopIs(p, {"tag"}) => ~ Tokens!TopIs(p, {"closing"})
  BY DEF Tokens!Front, Front, Tokens!Becomes, Tokens!TopIs
<1>1. k = "STR_START" => Tokens!Taken(p, k) = Append(p, "str")
  BY DEF Tokens!Taken
<1>2. k = "INTERP_START" => Tokens!Taken(p, k) = Append(p, "interp")
  BY DEF Tokens!Taken
<1>3. k = "CTRL_START" => Tokens!Taken(p, k) = Append(p, "ctrl")
  BY DEF Tokens!Taken
<1>4. k = "LBRACE" => Tokens!Taken(p, k) = Append(p, "brace")
  BY DEF Tokens!Taken
<1>5. k = "MARKUP_START" /\ Tokens!Mode(p) = "CONTENT" => Tokens!Taken(p, k) = Append(p, "tag")
  BY DEF Tokens!Taken
<1>6. k = "MARKUP_START" /\ Tokens!Mode(p) # "CONTENT" => Tokens!Taken(p, k) = p
  BY DEF Tokens!Taken
<1>7. k = "TAG_CLOSE_START" => Tokens!Taken(p, k) = Tokens!Becomes(p, "closing")
  BY DEF Tokens!Taken
<1>8. k = "TAG_END" /\ Tokens!TopIs(p, {"tag"}) => Tokens!Taken(p, k) = Tokens!Becomes(p, "elem")
  BY <1>0 DEF Tokens!Taken
<1>9. k = "TAG_END" /\ Tokens!TopIs(p, {"closing"}) => Tokens!Taken(p, k) = Tokens!Front(p)
  BY <1>0 DEF Tokens!Taken
<1>10. k \in {"STR_END", "INTERP_END", "CTRL_END", "TAG_SELF_CLOSE"} => Tokens!Taken(p, k) = Tokens!Front(p)
  BY DEF Tokens!Taken
<1>11. k = "RBRACE" /\ Tokens!TopIs(p, {"brace"}) => Tokens!Taken(p, k) = Tokens!Front(p)
  BY DEF Tokens!Taken
<1>12. k = "RBRACE" /\ ~ Tokens!TopIs(p, {"brace"}) => Tokens!Taken(p, k) = p
  BY DEF Tokens!Taken
<1>13. k = "EOF" \/ k \notin Structure => Tokens!Taken(p, k) = p
  BY DEF Tokens!Taken, Structure
<1> QED BY <1>0, <1>1, <1>2, <1>3, <1>4, <1>5, <1>6, <1>7, <1>8, <1>9, <1>10, <1>11, <1>12, <1>13

LEMMA NamedTops ==
    ASSUME NEW o \in Opens
    PROVE  /\ \A S : Tokens!TopIs(Named(o), S) <=> TopIs(o, S)
           /\ Tokens!Mode(Named(o)) = IF TopIs(o, {"str"}) THEN "STR"
                                      ELSE IF TopIs(o, {"tag", "closing"}) THEN "TAG"
                                      ELSE IF TopIs(o, {"elem"}) THEN "CONTENT" ELSE "NORMAL"
<1>1. \A S : Tokens!TopIs(Named(o), S) <=> TopIs(o, S)
  <2>1. Tokens!Last(Named(o)) = Last(Named(o))
    BY DEF Tokens!Last, Last
  <2> QED BY <2>1, NamedIs DEF Tokens!TopIs, TopIs
<1> QED BY <1>1 DEF Tokens!Mode

(* A token that fits may come, as far as what is open goes.                  *)
LEMMA FitsMayCome ==
    ASSUME NEW o \in Opens, NEW b, NEW k, NEW t, Fits(o, t), k = t.kind,
           b = "EOF" => k = "EOF",
           k = "NEWLINE" => b \notin {None, "NEWLINE"} \cup Continuation,
           b = "NEWLINE" => k \notin {"EOF"} \cup Follow
    PROVE  Tokens!MayCome(Named(o), b, k)
<1> DEFINE p == Named(o)
           mode == Tokens!Mode(p)
<1>1. /\ \A S : Tokens!TopIs(p, S) <=> TopIs(o, S)
      /\ mode = IF TopIs(o, {"str"}) THEN "STR"
                ELSE IF TopIs(o, {"tag", "closing"}) THEN "TAG"
                ELSE IF TopIs(o, {"elem"}) THEN "CONTENT" ELSE "NORMAL"
  BY NamedTops
<1>2. TopIs(o, {"str", "tag", "closing", "elem"}) => TopIs(o, {"str"}) \/ TopIs(o, {"tag", "closing"}) \/ TopIs(o, {"elem"})
  BY DEF TopIs
<1> HIDE DEF p, mode
<1>3. k = "EOF" => mode # "STR"
  BY <1>1 DEF Fits
<1>4. mode = "STR" => k \in {"STR_TEXT", "STR_END", "INTERP_START"}
  BY <1>1 DEF Fits
<1>5. mode = "TAG" /\ k # "EOF" => k \in Tokens!InNames \cup {"STR_START", "INTERP_START"}
  BY <1>1 DEF Fits, Tokens!InNames
<1>6. mode = "CONTENT" /\ k # "EOF" => k \in Tokens!InContent \cup {"MARKUP_START", "INTERP_START"}
  BY <1>1 DEF Fits, Tokens!InContent
<1>7. mode = "NORMAL" => Tokens!MayComeInCode(p, k)
  BY <1>1, <1>2 DEF Fits, Tokens!MayComeInCode, Tokens!NotNormal, Tokens!InNames, Tokens!InContent
<1>8. mode \in {"STR", "TAG", "CONTENT", "NORMAL"}
  BY <1>1
<1>9. IF k = "EOF" THEN mode # "STR"
      ELSE CASE mode = "STR" -> k \in {"STR_TEXT", "STR_END", "INTERP_START"}
             [] mode = "TAG" -> k \in Tokens!InNames \cup {"STR_START", "INTERP_START"}
             [] mode = "CONTENT" -> k \in Tokens!InContent \cup {"MARKUP_START", "INTERP_START"}
             [] mode = "NORMAL" -> Tokens!MayComeInCode(p, k)
  <2>1. CASE k = "EOF"
    BY <1>3, <2>1
  <2>2. CASE k # "EOF" /\ mode = "STR"
    BY <1>4, <2>2
  <2>3. CASE k # "EOF" /\ mode = "TAG"
    BY <1>5, <2>3
  <2>4. CASE k # "EOF" /\ mode = "CONTENT"
    BY <1>6, <2>4
  <2>5. CASE k # "EOF" /\ mode = "NORMAL"
    BY <1>7, <2>5
  <2> QED BY <1>8, <2>1, <2>2, <2>3, <2>4, <2>5
<1> QED BY <1>9 DEF Tokens!MayCome, Tokens!None, None, mode, p

LEMMA NamedTaken ==
    ASSUME NEW o \in Opens, NEW t \in TokenSet, Fits(o, t)
    PROVE  Named(Taken(o, t)) = Tokens!Taken(Named(o), t.kind)
<1> DEFINE p == Named(o)
           k == t.kind
           mode == Tokens!Mode(p)
<1>1. /\ \A S : Tokens!TopIs(p, S) <=> TopIs(o, S)
      /\ mode = IF TopIs(o, {"str"}) THEN "STR"
                ELSE IF TopIs(o, {"tag", "closing"}) THEN "TAG"
                ELSE IF TopIs(o, {"elem"}) THEN "CONTENT" ELSE "NORMAL"
  BY NamedTops
<1>2. TopIs(o, {"tag", "closing"}) <=> TopIs(o, {"tag"}) \/ TopIs(o, {"closing"})
  BY DEF TopIs
<1>3. t.start \in Nat
  BY DEF TokenSet
<1>4. /\ Named(Opened(o, "str", t.start)) = Append(p, "str")
      /\ Named(Opened(o, "interp", t.start)) = Append(p, "interp")
      /\ Named(Opened(o, "ctrl", t.start)) = Append(p, "ctrl")
      /\ Named(Opened(o, "brace", t.start)) = Append(p, "brace")
      /\ Named(Opened(o, "tag", t.start)) = Append(p, "tag")
      /\ o # <<>> => Named(Front(o)) = Front(p)
      /\ o # <<>> => Named(Becomes(o, "closing")) = Append(Front(p), "closing")
      /\ o # <<>> => Named(Becomes(o, "elem")) = Append(Front(p), "elem")
  <2>1. "str" \in Whats /\ "interp" \in Whats /\ "ctrl" \in Whats /\ "brace" \in Whats /\ "tag" \in Whats
        /\ "closing" \in Whats /\ "elem" \in Whats
    BY DEF Whats
  <2> HIDE DEF p
  <2>2. \A w \in Whats : Named(Opened(o, w, t.start)) = Append(p, w)
    BY <1>3, NamedMoves DEF p
  <2>3. o # <<>> => \A w \in Whats : Named(Becomes(o, w)) = Append(Front(p), w)
    BY <1>3, NamedMoves DEF p
  <2>4. o # <<>> => Named(Front(o)) = Front(p)
    BY <1>3, <2>1, NamedMoves DEF p
  <2> QED BY <2>1, <2>2, <2>3, <2>4
<1> HIDE DEF p
<1>6. CASE k \in {"STR_START", "INTERP_START", "CTRL_START", "LBRACE"}
  <2>1. /\ k = "STR_START" => Tokens!Taken(p, k) = Append(p, "str")
        /\ k = "INTERP_START" => Tokens!Taken(p, k) = Append(p, "interp")
        /\ k = "CTRL_START" => Tokens!Taken(p, k) = Append(p, "ctrl")
        /\ k = "LBRACE" => Tokens!Taken(p, k) = Append(p, "brace")
    BY <1>6, StreamTaken
  <2> QED BY <1>4, <1>6, <2>1, TakenIs DEF p
<1>7. CASE k = "MARKUP_START"
  <2>1. (t.mode = "CONTENT" <=> TopIs(o, {"elem"})) /\ (mode = "CONTENT" <=> TopIs(o, {"elem"}))
    <3>1. TopIs(o, {"elem"}) => ~ TopIs(o, {"str"}) /\ ~ TopIs(o, {"tag", "closing"})
      BY DEF TopIs
    <3> QED BY <1>1, <1>7, <3>1 DEF Fits
  <2>2. Tokens!Taken(p, k) = IF mode = "CONTENT" THEN Append(p, "tag") ELSE p
    BY <1>7, StreamTaken
  <2> QED BY <1>4, <1>7, <2>1, <2>2, TakenIs DEF p
<1>8. CASE k = "TAG_CLOSE_START"
  <2>1. o # <<>>
    <3>1. TopIs(o, Opener(k))
      BY <1>8, FitsCloses
    <3> QED BY <3>1 DEF TopIs
  <2>2. Tokens!Taken(p, k) = Append(Front(p), "closing")
    BY <1>8, StreamTaken
  <2> QED BY <1>4, <1>8, <2>1, <2>2, TakenIs DEF p
<1>9. CASE k = "TAG_END"
  <2>1. TopIs(o, {"tag"}) \/ TopIs(o, {"closing"})
    <3>1. TopIs(o, Opener(k)) /\ Opener(k) = {"tag", "closing"}
      BY <1>9, FitsCloses DEF Opener
    <3> QED BY <1>2, <3>1
  <2>2. CASE TopIs(o, {"tag"})
    <3>1. Tokens!TopIs(p, {"tag"}) /\ ~ Tokens!TopIs(p, {"closing"}) /\ o # <<>>
      BY <1>1, <2>2 DEF TopIs
    <3>2. Tokens!Taken(p, k) = Append(Front(p), "elem")
      BY <1>9, <3>1, StreamTaken
    <3> QED BY <1>4, <1>9, <2>2, <3>1, <3>2, TakenIs DEF p
  <2>3. CASE TopIs(o, {"closing"})
    <3>1. ~ Tokens!TopIs(p, {"tag"}) /\ Tokens!TopIs(p, {"closing"}) /\ o # <<>>
      BY <1>1, <2>3 DEF TopIs
    <3>2. Tokens!Taken(p, k) = Front(p)
      BY <1>9, <3>1, StreamTaken
    <3> QED BY <1>4, <1>9, <2>3, <3>1, <3>2, TakenIs DEF p
  <2> QED BY <2>1, <2>2, <2>3
<1>10. CASE k \in {"STR_END", "INTERP_END", "CTRL_END", "TAG_SELF_CLOSE"}
  <2>1. o # <<>>
    <3>1. TopIs(o, Opener(k))
      BY <1>10, FitsCloses
    <3> QED BY <3>1 DEF TopIs
  <2>2. Tokens!Taken(p, k) = Front(p)
    BY <1>10, StreamTaken
  <2> QED BY <1>4, <1>10, <2>1, <2>2, TakenIs DEF p
<1>11. CASE k = "RBRACE"
  <2>1. CASE TopIs(o, {"brace"})
    <3>1. Tokens!TopIs(p, {"brace"}) /\ o # <<>>
      BY <1>1, <2>1 DEF TopIs
    <3>2. Tokens!Taken(p, k) = Front(p)
      BY <1>11, <3>1, StreamTaken
    <3> QED BY <1>4, <1>11, <2>1, <3>1, <3>2, TakenIs DEF p
  <2>2. CASE ~ TopIs(o, {"brace"})
    <3>1. ~ Tokens!TopIs(p, {"brace"})
      BY <1>1, <2>2
    <3>2. Tokens!Taken(p, k) = p
      BY <1>11, <3>1, StreamTaken
    <3> QED BY <1>11, <2>2, <3>2, TakenIs DEF p
  <2> QED BY <2>1, <2>2
<1>12. CASE k = "EOF" \/ k \notin Structure
  <2>1. Tokens!Taken(p, k) = p
    BY <1>12, StreamTaken
  <2> QED BY <1>12, <2>1, TakenIs DEF p
<1>13. \/ k \in {"STR_START", "INTERP_START", "CTRL_START", "LBRACE"}
       \/ k \in {"MARKUP_START", "TAG_CLOSE_START", "TAG_END", "RBRACE"}
       \/ k \in {"STR_END", "INTERP_END", "CTRL_END", "TAG_SELF_CLOSE"}
       \/ k = "EOF" \/ k \notin Structure
  BY DEF Structure
<1> QED BY <1>6, <1>7, <1>8, <1>9, <1>10, <1>11, <1>12, <1>13

(* The ends of line, as TokenStream has them.                                *)
LEMMA NextKeepsLines ==
    ASSUME LexInv, NextToken
    PROVE  /\ tok.kind = "EOF" => tok'.kind = "EOF"
           /\ tok'.kind = "NEWLINE" => tok.kind \notin {None, "NEWLINE"} \cup Continuation
           /\ tok.kind = "NEWLINE" => tok'.kind \notin {"EOF"} \cup Follow
<1>1. TextInv /\ Holds(lx, tok, may, taken)
  BY DEF LexInv
<1>2. tok' = lex_next(lx).t
  BY DEF NextToken
<1>3. PICK m : Comes(tok, lex_next(lx).t, m) /\ m.prev = lx.prev
  BY <1>1, NextComes
<1>4. tok.kind # "NEWLINE" => lx.prev = tok.kind
  BY <1>1 DEF Holds
<1>5. /\ tok.kind = "EOF" => tok'.kind = "EOF"
      /\ tok'.kind = "NEWLINE" => ~ Continues(m.prev) /\ tok.kind # "NEWLINE"
      /\ tok.kind = "NEWLINE" => ~ Follows(tok'.kind)
  BY <1>2, <1>3 DEF Comes
<1> QED BY <1>3, <1>4, <1>5 DEF Continues, Follows

LEMMA OpeningIsInCode ==
    ASSUME LexInv, LinkInv, OpenMarkup, ~ lx.depth_reported
    PROVE  tok.kind = "MARKUP_START" /\ Tokens!Mode(Named(open)) = "NORMAL"
<1>1. /\ TextInv /\ Good(lx) /\ Fresh(tok) /\ Top(lx).mode = "NORMAL" /\ lx.stash = NoToken /\ lx.peeked = NoToken
  BY DEF LexInv, Holds, OpenMarkup
<1>2. tok.kind = "MARKUP_START"
  BY <1>1 DEF Fresh
<1>3. Nests(open, lx.stack) /\ open \in Opens
  BY <1>1, <1>2 DEF LinkInv, Linked, Paired
<1>4. Above(Top(lx)) \notin {"str", "tag", "closing", "elem"}
  BY <1>1 DEF Above, What
<1>5. {"str"} \in SUBSET Whats /\ {"tag", "closing"} \in SUBSET Whats /\ {"elem"} \in SUBSET Whats
  BY DEF Whats
<1>6. ~ TopIs(open, {"str"}) /\ ~ TopIs(open, {"tag", "closing"}) /\ ~ TopIs(open, {"elem"})
  BY <1>1, <1>3, <1>4, <1>5, NestsMode
<1> QED BY <1>2, <1>3, <1>6, NamedTops

LEMMA StepConforms ==
    ASSUME LexInv, LinkInv, [Next]_vars, LinkInv', ~ lx'.depth_reported
    PROVE  Tokens!Next \/ UNCHANGED <<tok, open>>
<1>1. open \in Opens /\ open' \in Opens /\ tok \in TokenSet /\ tok.start \in Nat
  BY DEF LinkInv, LexInv, Holds, TokenSet
<1>2. (Tokens!Next <=>
         \/ Tokens!MayCome(Named(open), tok.kind, tok'.kind) /\ Named(open') = Tokens!Taken(Named(open), tok'.kind)
         \/ /\ tok.kind = "MARKUP_START" /\ Tokens!Mode(Named(open)) = "NORMAL"
            /\ Named(open') = Tokens!Entered(Named(open)) /\ tok'.kind = tok.kind
         \/ /\ tok.kind = "TAG_END" /\ Tokens!TopIs(Named(open), {"elem"})
            /\ Named(open') = Tokens!Closed(Named(open)) /\ tok'.kind = tok.kind)
  BY DEF Tokens!Next, Tokens!Deliver, Tokens!OpenMarkup, Tokens!CloseElement, Named
<1>3. CASE NextToken
  <2>1. /\ open' = Taken(open, tok') /\ tok' \in TokenSet /\ Fits(open, tok')
    BY <1>3, TakingFits
  <2>2. Named(open') = Tokens!Taken(Named(open), tok'.kind)
    BY <1>1, <2>1, NamedTaken
  <2>3. Tokens!MayCome(Named(open), tok.kind, tok'.kind)
    <3> DEFINE b == tok.kind
               t == tok'
               k == t.kind
    <3>1. /\ b = "EOF" => k = "EOF"
          /\ k = "NEWLINE" => b \notin {None, "NEWLINE"} \cup Continuation
          /\ b = "NEWLINE" => k \notin {"EOF"} \cup Follow
      BY <1>3, NextKeepsLines
    <3>2. Fits(open, t) /\ k = t.kind
      BY <2>1
    <3> HIDE DEF b, k, t
    <3>3. Tokens!MayCome(Named(open), b, k)
      BY <1>1, <3>1, <3>2, FitsMayCome
    <3> QED BY <3>3 DEF b, k, t
  <2> QED BY <1>2, <2>2, <2>3
<1>4. CASE Peek
  BY <1>4 DEF Peek
<1>5. CASE OpenMarkup
  <2>1. /\ lx' = push_frame(lx, "TAG", tok.start, "EOF") /\ tok' = tok /\ open' = Opened(open, "tag", tok.start)
    BY <1>5 DEF OpenMarkup
  <2>2. ~ lx.depth_reported
    <3> SUFFICES ASSUME lx.depth_reported PROVE FALSE
      OBVIOUS
    <3>1. lx \in LexerSet
      BY DEF LexInv, Holds, Good
    <3>2. push_frame(lx, "TAG", tok.start, "EOF").depth_reported
      BY <3>1 DEF push_frame, LexerSet
    <3> QED BY <2>1, <3>2
  <2>3. tok.kind = "MARKUP_START" /\ Tokens!Mode(Named(open)) = "NORMAL"
    BY <1>5, <2>2, OpeningIsInCode
  <2>4. Named(open') = Tokens!Entered(Named(open))
    <3>1. "tag" \in Whats
      BY DEF Whats
    <3>2. Named(Opened(open, "tag", tok.start)) = Append(Named(open), "tag")
      BY <1>1, <3>1, NamedMoves
    <3> QED BY <2>1, <3>2 DEF Tokens!Entered
  <2>5. tok'.kind = tok.kind
    BY <2>1
  <2> QED BY <1>2, <2>3, <2>4, <2>5
<1>6. CASE CloseElement
  <2>1. tok' = tok /\ open' = Front(open) /\ may = "close"
    BY <1>6 DEF CloseElement
  <2>2. TopIs(open, {"elem"}) /\ tok.kind = "TAG_END" /\ open # <<>>
    BY <2>1 DEF LinkInv, LexInv, Holds, TopIs
  <2>3. Tokens!TopIs(Named(open), {"elem"}) /\ Tokens!Mode(Named(open)) = "CONTENT"
    <3>1. ~ TopIs(open, {"str"}) /\ ~ TopIs(open, {"tag", "closing"})
      BY <2>2 DEF TopIs
    <3> QED BY <1>1, <2>2, <3>1, NamedTops
  <2>4. Named(open') = Tokens!Closed(Named(open))
    <3>1. "tag" \in Whats
      BY DEF Whats
    <3>2. Named(Front(open)) = Front(Named(open))
      BY <1>1, <2>2, <3>1, NamedMoves
    <3>3. Tokens!Front(Named(open)) = Front(Named(open))
      BY DEF Tokens!Front, Front
    <3> QED BY <2>1, <2>3, <3>2, <3>3 DEF Tokens!Closed
  <2>5. tok'.kind = tok.kind
    BY <2>1
  <2> QED BY <1>2, <2>2, <2>3, <2>4, <2>5
<1>7. CASE UNCHANGED vars
  BY <1>7 DEF vars
<1> QED BY <1>3, <1>4, <1>5, <1>6, <1>7 DEF Next

(* The scanner implements the stream of tokens the parser relies on: up to   *)
(* the depth bound every step of lex_next, lex_open_markup and               *)
(* lex_close_element is one of TokenStream, and lex_peek is no step at all.  *)
THEOREM TheLexerConforms == Spec => TokensConform
<1>1. LexInv /\ LinkInv /\ [Next]_vars /\ LinkInv' => [lx'.depth_reported \/ Tokens!Next]_<<tok, open>>
  BY StepConforms
<1> QED BY <1>1, LexerInvariant, OpenIsLinked, PTL DEF Spec, TokensConform

=============================================================================
