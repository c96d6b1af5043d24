----------------------------- MODULE NestProofs -----------------------------
(* As long as nothing was reported the parser and the lexer are inside the   *)
(* same things, for every stream of tokens: what parse.c has still to close  *)
(* is what the lexer has open, so a source accepted in silence leaves no     *)
(* brace and no directive open.                                              *)
EXTENDS ParserProofs

-----------------------------------------------------------------------------
(* What each word on the stack asks of what is open around it.               *)

OpenKinds == {"brace", "str", "interp", "ctrl", "tag", "elem", "closing"}
CodeKinds == {"unit", "brace", "interp", "ctrl"}

(* Words of code, that open and close nothing themselves. *)
Code ==
    {"skip_newlines", "stmt_end", "progress", "progress_in_braces", "leave",
     "unary_returns", "not_returns", "coalesce_returns", "if_returns", "group_returns", "make_binary",
     "LPAREN", "RPAREN", "RBRACKET", "COLON", "EQ", "ARROW", "KW_IN",
     "path", "name", "ident", "type", "base_type", "types", "type_args", "type_arg", "optional",
     "returns", "fallible", "single_pattern", "no_pattern", "alternatives",
     "unary", "as", "mul", "add", "cmp", "chain", "not", "and", "or", "coalesce", "expr", "operand",
     "fallback", "args", "elements", "indexes", "entries", "field_inits", "field_end", "lambda_body",
     "primary", "postfix", "path_postfix", "second_name", "attrs", "attr", "attr_args", "cond",
     "let_type", "if_end", "else", "else_body", "match_body", "match_arms", "arm_body", "loop_body",
     "loop_end", "stmt", "return_value", "send_value", "assign", "block", "stmts", "params", "default",
     "fn_name", "receiver", "fn_end", "type_name", "type_body", "variants", "fields", "comma",
     "method", "quoted", "stream_body", "stream_end", "group_body", "group_items", "decl", "pub",
     "declaration"}
Saves == {"no_struct", "struct"}
Listed == {"types", "type_arg", "args", "elements", "indexes", "entries", "params", "variants"}

(* Words that stand in a directive until its head is read, of content, of a  *)
(* tag and of a closing tag; words behind which an element ends.             *)
CtrlWords ==
    {"ctrl", "if_arm", "if_arm_seen", "for_arm", "for_arm_seen",
     "if_else", "if_else_seen", "for_else", "for_else_seen"}
ArmsWords == {"if_arms", "if_arms_seen", "for_arms", "for_arms_seen"}
ElemWords ==
    ArmsWords \cup {"children", "strays", "closing_tag", "ctrl_returns", "element_nested"}
TagWords == {"tag_name", "attributes", "attr_value", "value", "spread", "tag_end"}
ClosingWords == {"closing_name", "TAG_END"}
EndsElement == {"tag_end", "closing_tag", "TAG_END"}

CodeWords == Code \cup {"unit", "LBRACE", "element_entering", "more"}
Closers == DOMAIN Closes \cup CtrlWords
Words ==
    CodeWords \cup Saves \cup Closers \cup ElemWords \cup TagWords \cup ClosingWords
        \cup {"advance"}

(* Words that stand first, or behind one certain word. *)
Heads ==
    {"LBRACE", "element_entering", "element_nested", "advance", "strays", "closing_tag", "end_element"}
        \cup CtrlWords

Height(s, j) == Cardinality({k \in j .. Len(s) : s[k] \in Closers})
Innermost(o, h) == IF h = 0 THEN "unit" ELSE o[h]
Top(o) == Innermost(o, Len(o))

(* Word x may stand where `in` is innermost. *)
Suits(x, in) ==
    /\ x \in CodeWords => in \in CodeKinds
    /\ x \in ElemWords => in = "elem"
    /\ x \in TagWords => in = "tag"
    /\ x \in ClosingWords => in = "closing"
    /\ x \in CtrlWords => in = "ctrl"
    /\ x \in DOMAIN Closes => in \in Closes[x]

(* Word y, or nothing, may stand behind word x. *)
First(s) == IF Len(s) = 0 THEN None ELSE s[1]
After(s, j) == IF j < Len(s) THEN s[j + 1] ELSE None
Follows(x, y) ==
    /\ y \notin {"LBRACE", "element_entering", "element_nested"}
    /\ y = "advance" \/ y \in CtrlWords => x = "advance"
    /\ y = "strays" => x = "children"
    /\ y = "closing_tag" => x = "strays"
    /\ (y = "end_element" <=> x \in EndsElement)
    /\ x = "more" => y \in Listed
    /\ x \in CtrlWords \cup ArmsWords => y \in {"children", "ctrl_returns"}
    /\ (y = None <=> x = "unit")

(* The stack s fits what is open: it closes as many things, and every word   *)
(* stands in what it asks for.                                               *)
Fits(s, o) ==
    /\ Height(s, 1) = Len(o)
    /\ \A j \in 1 .. Len(s) :
          /\ s[j] \in Words /\ Suits(s[j], Innermost(o, Height(s, j))) /\ Follows(s[j], After(s, j))
          /\ s[j] = "advance" => j <= 2

-----------------------------------------------------------------------------
(* Words.                                                                    *)

LEMMA ClosesIs ==
    /\ DOMAIN Closes = {"RBRACE", "INTERP_END", "CTRL_END", "string", "end_element"}
    /\ Closes["RBRACE"] = {"brace"} /\ Closes["INTERP_END"] = {"interp"} /\ Closes["CTRL_END"] = {"ctrl"}
    /\ Closes["string"] = {"str"} /\ Closes["end_element"] = {"tag", "elem", "closing"}
BY DEF Closes

LEMMA CodeIs ==
    ASSUME NEW x \in Code \cup Saves
    PROVE  /\ x \in Words /\ x \notin Closers /\ x \notin Heads /\ x \notin EndsElement
           /\ x \notin ElemWords \cup TagWords \cup ClosingWords
           /\ x \notin {"more", "unit", "advance", "children", "strays", None}
<1>1. x \notin {"RBRACE", "INTERP_END", "CTRL_END", "string", "end_element"}
  BY DEF Code, Saves
<1>2. x \notin CtrlWords
  BY DEF Code, Saves, CtrlWords
<1>3. x \notin Heads
  BY <1>2 DEF Code, Saves, Heads
<1>4. x \notin EndsElement /\ x \notin ElemWords \cup TagWords \cup ClosingWords
  BY DEF Code, Saves, EndsElement, ElemWords, ArmsWords, TagWords, ClosingWords
<1>5. x \notin {"more", "unit", "advance", "children", "strays", None}
  BY DEF Code, Saves, None
<1>6. x \in Words
  BY DEF Words, CodeWords
<1>7. x \notin Closers
  BY <1>1, <1>2, ClosesIs DEF Closers
<1> QED BY <1>3, <1>4, <1>5, <1>6, <1>7

LEMMA CodeSuits ==
    ASSUME NEW x \in Code \cup Saves, NEW in \in CodeKinds
    PROVE  Suits(x, in)
<1>1. x \notin Closers /\ x \notin ElemWords \cup TagWords \cup ClosingWords
  BY CodeIs
<1> QED BY <1>1 DEF Suits, Closers

LEMMA CodeFollows ==
    ASSUME NEW x, x \in Code \cup Saves, NEW y, y \notin Heads, y # None
    PROVE  Follows(x, y)
<1>1. x \notin EndsElement /\ x # "more" /\ x # "unit" /\ x \notin Closers /\ x \notin ElemWords
  BY CodeIs
<1> QED BY <1>1 DEF Follows, Heads, Closers, ElemWords

-----------------------------------------------------------------------------
(* Heights.                                                                  *)

LEMMA HeightIsNat ==
    ASSUME NEW s, IsStack(s), NEW j \in Nat
    PROVE  IsFiniteSet({k \in j .. Len(s) : s[k] \in Closers}) /\ Height(s, j) \in Nat
<1>1. IsFiniteSet(j .. Len(s))
  BY StackHasLen, FS_Interval
<1>2. IsFiniteSet({k \in j .. Len(s) : s[k] \in Closers})
  BY <1>1, FS_Subset
<1> QED BY <1>2, FS_CardinalityType DEF Height

LEMMA HeightFalls ==
    ASSUME NEW s, IsStack(s), NEW i \in Nat, NEW j \in Nat, i <= j
    PROVE  Height(s, j) <= Height(s, i)
<1> DEFINE A == {k \in i .. Len(s) : s[k] \in Closers}
           B == {k \in j .. Len(s) : s[k] \in Closers}
<1>1. B \subseteq A
  BY StackHasLen
<1>2. IsFiniteSet(A)
  BY HeightIsNat
<1> HIDE DEF A, B
<1>3. Cardinality(B) <= Cardinality(A)
  BY <1>1, <1>2, FS_Subset
<1> QED BY <1>3 DEF Height, A, B

LEMMA HeightSteps ==
    ASSUME NEW s, IsStack(s), NEW j \in 1 .. Len(s)
    PROVE  Height(s, j) = Height(s, j + 1) + One(s[j], Closers)
<1> DEFINE A == {k \in j .. Len(s) : s[k] \in Closers}
           B == {k \in j + 1 .. Len(s) : s[k] \in Closers}
<1>1. Len(s) \in Nat
  BY StackHasLen
<1>2. IsFiniteSet(B) /\ Height(s, j + 1) \in Nat
  BY HeightIsNat
<1>3. j \notin B /\ j \in j .. Len(s)
  BY <1>1
<1>4. \A k \in j .. Len(s) : k = j \/ k \in j + 1 .. Len(s)
  BY <1>1
<1>5. \A k \in j + 1 .. Len(s) : k \in j .. Len(s)
  BY <1>1
<1>6. CASE s[j] \in Closers
  <2>1. A = B \cup {j}
    BY <1>3, <1>4, <1>5, <1>6
  <2> HIDE DEF A, B
  <2>2. Cardinality(A) = Cardinality(B) + 1
    BY <1>2, <1>3, <2>1, FS_AddElement
  <2> QED BY <1>6, <2>2 DEF Height, A, B, One
<1>7. CASE s[j] \notin Closers
  <2>1. A = B
    BY <1>3, <1>4, <1>5, <1>7
  <2>2. Height(s, j) = Height(s, j + 1)
    BY <2>1 DEF Height
  <2>3. One(s[j], Closers) = 0
    BY <1>7 DEF One
  <2> QED BY <1>2, <2>2, <2>3
<1> QED BY <1>6, <1>7

LEMMA HeightEnds ==
    ASSUME NEW s, IsStack(s), NEW j \in Nat, j > Len(s)
    PROVE  Height(s, j) = 0
<1>1. {k \in j .. Len(s) : s[k] \in Closers} = {}
  BY StackHasLen
<1> QED BY <1>1, FS_EmptySet DEF Height

(* The height counts from the end: what is pushed in front leaves it.        *)
LEMMA HeightShift ==
    ASSUME NEW s, IsStack(s), NEW t, IsStack(t), NEW n \in Nat, Len(s) = n + Len(t),
           \A i \in 1 .. Len(t) : s[n + i] = t[i],
           NEW j \in Nat, j >= 1
    PROVE  Height(s, n + j) = Height(t, j)
<1> DEFINE B == {k \in j .. Len(t) : t[k] \in Closers}
           D == {k \in n + j .. Len(s) : s[k] \in Closers}
           f == [k \in B |-> n + k]
<1>1. Len(t) \in Nat
  BY StackHasLen
<1>2. IsFiniteSet(B)
  BY HeightIsNat
<1>3. \A k \in B : n + k \in D /\ f[k] = n + k /\ k \in Nat
  <2>1. SUFFICES ASSUME NEW k \in B PROVE n + k \in D /\ k \in Nat
    OBVIOUS
  <2>2. k \in 1 .. Len(t) /\ k \in Nat /\ n + k \in n + j .. Len(s)
    BY <1>1
  <2>3. s[n + k] = t[k] /\ t[k] \in Closers
    BY <2>2
  <2> QED BY <2>2, <2>3
<1>4. \A d \in D : d - n \in B /\ n + (d - n) = d
  <2>1. SUFFICES ASSUME NEW d \in D PROVE d - n \in B /\ n + (d - n) = d
    OBVIOUS
  <2>2. d - n \in 1 .. Len(t) /\ n + (d - n) = d /\ d - n \in j .. Len(t)
    BY <1>1
  <2>3. s[n + (d - n)] = t[d - n]
    BY <2>2
  <2> QED BY <2>2, <2>3
<1>5. f \in Bijection(B, D)
  <2>1. f \in [B -> D]
    BY <1>3
  <2>2. \A a, b \in B : f[a] = f[b] => a = b
    <3> HIDE DEF f, B, D
    <3> QED BY <1>3
  <2>3. \A d \in D : \E a \in B : f[a] = d
    <3> HIDE DEF f, B, D
    <3> QED BY <1>3, <1>4
  <2> HIDE DEF f, B, D
  <2>4. f \in Surjection(B, D)
    BY <2>1, <2>3 DEF Surjection
  <2> QED BY <2>1, <2>2, <2>4, Fun_IsBij
<1>6. Cardinality(D) = Cardinality(B)
  <2> HIDE DEF f, B, D
  <2>1. ExistsBijection(B, D)
    BY <1>5 DEF ExistsBijection
  <2> QED BY <1>2, <2>1, FS_Bijection
<1> QED BY <1>6 DEF Height

-----------------------------------------------------------------------------
(* Pushing and popping.                                                      *)

Loose(t) == First(t) \notin Heads /\ First(t) # None
Agree(p, o) == \A h \in 1 .. Len(o) : h <= Len(p) => p[h] = o[h]

LEMMA OpenHasLen ==
    ASSUME NEW o \in Seq(OpenKinds)
    PROVE  Len(o) \in Nat
OBVIOUS

LEMMA PopIs ==
    ASSUME NEW s, IsStack(s), s # <<>>
    PROVE  /\ Len(s) \in Nat /\ Len(s) >= 1 /\ IsStack(Tail(s)) /\ Len(s) = 1 + Len(Tail(s))
           /\ \A i \in 1 .. Len(Tail(s)) : s[1 + i] = Tail(s)[i]
           /\ After(s, 1) = First(Tail(s))
           /\ \A i \in 1 .. Len(Tail(s)) : After(s, 1 + i) = After(Tail(s), i)
<1> DEFINE t == Tail(s)
<1>1. /\ IsStack(t) /\ Len(s) \in Nat /\ Len(s) >= 1 /\ Len(t) = Len(s) - 1
      /\ \A j \in 1 .. Len(s) - 1 : t[j] = s[j + 1]
  BY TailIs
<1> HIDE DEF t
<1>2. \A i \in 1 .. Len(t) : s[1 + i] = t[i]
  <2>1. \A i \in 1 .. Len(t) : i \in 1 .. Len(s) - 1 /\ i + 1 = 1 + i
    BY <1>1
  <2> QED BY <1>1, <2>1
<1>3. After(s, 1) = First(t)
  <2>1. Len(s) > 1 => s[1 + 1] = t[1]
    BY <1>1, <1>2
  <2> QED BY <1>1, <2>1 DEF After, First
<1>4. ASSUME NEW i \in 1 .. Len(t) PROVE After(s, 1 + i) = After(t, i)
  <2>1. i < Len(t) <=> 1 + i < Len(s)
    BY <1>1
  <2>2. CASE i < Len(t)
    <3>1. i + 1 \in 1 .. Len(t) /\ 1 + (i + 1) = (1 + i) + 1
      BY <1>1, <2>2
    <3>2. s[(1 + i) + 1] = t[i + 1]
      BY <1>2, <3>1
    <3> QED BY <2>1, <2>2, <3>2 DEF After
  <2>3. CASE ~ (i < Len(t))
    BY <2>1, <2>3 DEF After
  <2> QED BY <2>2, <2>3
<1>5. Len(s) = 1 + Len(t)
  BY <1>1
<1> QED BY <1>1, <1>2, <1>3, <1>4, <1>5 DEF t

LEMMA FitsRest ==
    ASSUME NEW s, IsStack(s), s # <<>>, NEW o \in Seq(OpenKinds), Fits(s, o),
           NEW p \in Seq(OpenKinds), Len(p) = Height(Tail(s), 1), Agree(p, o), Len(p) <= Len(o)
    PROVE  Fits(Tail(s), p)
<1> DEFINE t == Tail(s)
<1>1. /\ Len(s) \in Nat /\ IsStack(t) /\ Len(s) = 1 + Len(t)
      /\ \A i \in 1 .. Len(t) : s[1 + i] = t[i] /\ After(s, 1 + i) = After(t, i)
  BY PopIs
<1>2. Len(p) = Height(t, 1) /\ Len(p) \in Nat /\ Len(o) \in Nat
  BY OpenHasLen
<1>3. \A i \in 1 .. Len(s) :
        /\ s[i] \in Words /\ Suits(s[i], Innermost(o, Height(s, i))) /\ Follows(s[i], After(s, i))
        /\ s[i] = "advance" => i <= 2
  BY DEF Fits
<1> HIDE DEF t
<1>4. ASSUME NEW i \in 1 .. Len(t)
      PROVE  /\ t[i] \in Words /\ Suits(t[i], Innermost(p, Height(t, i))) /\ Follows(t[i], After(t, i))
             /\ t[i] = "advance" => i <= 2
  <2>1. 1 + i \in 1 .. Len(s) /\ i \in Nat /\ i >= 1 /\ Len(t) \in Nat /\ (1 + i <= 2 => i <= 2)
    BY <1>1
  <2>2. s[1 + i] = t[i] /\ After(s, 1 + i) = After(t, i)
    BY <1>1
  <2>3. Height(s, 1 + i) = Height(t, i)
    BY <1>1, <2>1, HeightShift
  <2>4. Height(t, i) \in Nat /\ Height(t, i) <= Height(t, 1)
    BY <1>1, <2>1, HeightIsNat, HeightFalls
  <2>5. Innermost(p, Height(t, i)) = Innermost(o, Height(t, i))
    <3>1. CASE Height(t, i) = 0
      BY <3>1 DEF Innermost
    <3>2. CASE Height(t, i) # 0
      <4>1. Height(t, i) \in 1 .. Len(o) /\ Height(t, i) <= Len(p)
        BY <1>2, <2>4, <3>2
      <4>2. p[Height(t, i)] = o[Height(t, i)]
        BY <4>1 DEF Agree
      <4> QED BY <4>2 DEF Innermost
    <3> QED BY <3>1, <3>2
  <2>6. /\ s[1 + i] \in Words /\ Suits(s[1 + i], Innermost(o, Height(s, 1 + i)))
        /\ Follows(s[1 + i], After(s, 1 + i))
        /\ s[1 + i] = "advance" => 1 + i <= 2
    BY <1>3, <2>1
  <2> QED BY <2>1, <2>2, <2>3, <2>5, <2>6
<1>5. Fits(t, p)
  BY <1>2, <1>4 DEF Fits
<1> QED BY <1>5 DEF t

LEMMA OpenFront ==
    ASSUME NEW o \in Seq(OpenKinds)
    PROVE  /\ Front(o) \in Seq(OpenKinds)
           /\ Len(o) >= 1 => Len(Front(o)) = Len(o) - 1 /\ Agree(Front(o), o)
<1>1. Front(o) = SubSeq(o, 1, Len(o) - 1)
  BY DEF Front
<1> DEFINE n == Len(o) - 1
<1>2. Len(o) \in Nat /\ n \in Int /\ \A i \in 1 .. n : o[i] \in OpenKinds
  OBVIOUS
<1> HIDE DEF n
<1>3. /\ SubSeq(o, 1, n) \in Seq(OpenKinds)
      /\ Len(SubSeq(o, 1, n)) = IF 1 <= n THEN n - 1 + 1 ELSE 0
      /\ \A i \in 1 .. n - 1 + 1 : SubSeq(o, 1, n)[i] = o[1 + i - 1]
  BY <1>2, SubSeqProperties
<1>4. ASSUME Len(o) >= 1 PROVE Len(SubSeq(o, 1, n)) = n /\ n \in Nat
  <2>1. n \in Nat
    BY <1>2, <1>4 DEF n
  <2> QED BY <1>3, <2>1
<1>5. ASSUME Len(o) >= 1 PROVE Agree(SubSeq(o, 1, n), o)
  <2>1. SUFFICES ASSUME NEW h \in 1 .. Len(o), h <= n PROVE SubSeq(o, 1, n)[h] = o[h]
    BY <1>4, <1>5 DEF Agree
  <2>2. h \in 1 .. n - 1 + 1 /\ 1 + h - 1 = h
    BY <1>2, <2>1
  <2> QED BY <1>3, <2>2
<1> QED BY <1>1, <1>3, <1>4, <1>5 DEF n

LEMMA FitsPop ==
    ASSUME NEW s, IsStack(s), s # <<>>, NEW o \in Seq(OpenKinds), Fits(s, o)
    PROVE  /\ s[1] \in Words /\ Suits(s[1], Top(o)) /\ Follows(s[1], First(Tail(s)))
           /\ s[1] \notin Closers => Fits(Tail(s), o)
           /\ s[1] \in Closers => Len(o) >= 1 /\ Fits(Tail(s), Front(o))
<1> DEFINE t == Tail(s)
<1>1. /\ Len(s) \in Nat /\ Len(s) >= 1 /\ IsStack(t) /\ Len(s) = 1 + Len(t) /\ After(s, 1) = First(t)
      /\ \A i \in 1 .. Len(t) : s[1 + i] = t[i]
  BY PopIs
<1>2. 1 \in 1 .. Len(s) /\ 1 + 1 = 2
  BY <1>1
<1>3. /\ s[1] \in Words /\ Suits(s[1], Innermost(o, Height(s, 1))) /\ Follows(s[1], After(s, 1))
      /\ Height(s, 1) = Len(o)
  BY <1>2 DEF Fits
<1>4. Height(s, 1) = Height(s, 2) + One(s[1], Closers)
  BY <1>2, HeightSteps
<1>5. Height(s, 2) = Height(t, 1)
  <2> HIDE DEF t
  <2> QED BY <1>1, <1>2, HeightShift
<1>6. Height(t, 1) \in Nat /\ Len(o) \in Nat
  <2>1. 1 \in Nat
    OBVIOUS
  <2> HIDE DEF t
  <2>2. Height(t, 1) \in Nat
    BY <1>1, <2>1, HeightIsNat
  <2> QED BY <2>2, OpenHasLen
<1>7. ASSUME s[1] \notin Closers PROVE Fits(t, o)
  <2>1. Len(o) = Height(t, 1)
    BY <1>3, <1>4, <1>5, <1>6, <1>7 DEF One
  <2>2. Agree(o, o) /\ Len(o) <= Len(o)
    BY <1>6 DEF Agree
  <2> QED BY <2>1, <2>2, FitsRest
<1>8. ASSUME s[1] \in Closers PROVE Len(o) >= 1 /\ Fits(t, Front(o))
  <2>1. Len(o) - 1 = Height(t, 1) /\ Len(o) >= 1
    BY <1>3, <1>4, <1>5, <1>6, <1>8 DEF One
  <2>2. Front(o) \in Seq(OpenKinds) /\ Len(Front(o)) = Len(o) - 1 /\ Agree(Front(o), o)
    BY <2>1, OpenFront
  <2>3. Len(Front(o)) <= Len(o)
    BY <1>6, <2>2
  <2> QED BY <2>1, <2>2, <2>3, FitsRest
<1> QED BY <1>1, <1>3, <1>7, <1>8 DEF Top

LEMMA NoneToAdvance ==
    ASSUME NEW t, IsStack(t), NEW o, Fits(t, o), Loose(t)
    PROVE  \A j \in 1 .. Len(t) : t[j] # "advance"
<1>1. SUFFICES ASSUME NEW j \in 1 .. Len(t), t[j] = "advance" PROVE FALSE
  OBVIOUS
<1>2. Len(t) \in Nat
  BY StackHasLen
<1>3. j <= 2 /\ 1 \in 1 .. Len(t)
  BY <1>1, <1>2 DEF Fits
<1>4. t[1] # "advance"
  BY <1>2, <1>3 DEF Loose, First, Heads
<1>5. j = 2
  BY <1>1, <1>3, <1>4
<1>6. Follows(t[1], After(t, 1)) /\ After(t, 1) = t[2]
  BY <1>2, <1>3, <1>5 DEF Fits, After
<1> QED BY <1>1, <1>4, <1>5, <1>6 DEF Follows

(* s is t with the words w in front. *)
LEMMA PushIs ==
    ASSUME NEW w, IsStack(w), NEW t, IsStack(t)
    PROVE  /\ IsStack(w \o t) /\ Len(w) \in Nat /\ Len(t) \in Nat /\ Len(w \o t) = Len(w) + Len(t)
           /\ \A j \in 1 .. Len(w) : (w \o t)[j] = w[j]
           /\ \A i \in 1 .. Len(t) : (w \o t)[Len(w) + i] = t[i] /\ After(w \o t, Len(w) + i) = After(t, i)
           /\ \A j \in 1 .. Len(w) : After(w \o t, j) = IF j < Len(w) THEN w[j + 1] ELSE First(t)
           /\ \A j \in 1 .. Len(w) + Len(t) : j \in 1 .. Len(w) \/ j - Len(w) \in 1 .. Len(t)
<1> DEFINE s == w \o t
           m == Len(w)
           n == Len(t)
<1>1. m \in Nat /\ n \in Nat
  BY StackHasLen
<1>2. /\ IsStack(s) /\ Len(s) = m + n
      /\ \A j \in 1 .. m : s[j] = w[j]
      /\ \A j \in 1 .. n : s[m + j] = t[j]
  BY ConcatIs
<1> HIDE DEF s
<1>3. ASSUME NEW i \in 1 .. n PROVE After(s, m + i) = After(t, i)
  <2>1. i < n <=> m + i < Len(s)
    BY <1>1, <1>2
  <2>2. CASE i < n
    <3>1. i + 1 \in 1 .. n /\ m + (i + 1) = (m + i) + 1
      BY <1>1, <2>2
    <3>2. s[m + (i + 1)] = t[i + 1]
      BY <1>2, <3>1
    <3> QED BY <2>1, <2>2, <3>1, <3>2 DEF After
  <2>3. CASE ~ (i < n)
    BY <2>1, <2>3 DEF After
  <2> QED BY <2>2, <2>3
<1>4. ASSUME NEW j \in 1 .. m PROVE After(s, j) = IF j < m THEN w[j + 1] ELSE First(t)
  <2>1. CASE j < m
    <3>1. j + 1 \in 1 .. m /\ j < Len(s)
      BY <1>1, <1>2, <2>1
    <3> QED BY <1>2, <2>1, <3>1 DEF After
  <2>2. CASE ~ (j < m)
    <3>1. j = m
      BY <1>1, <2>2
    <3>2. CASE n = 0
      <4>1. ~ (j < Len(s))
        BY <1>1, <1>2, <3>1, <3>2
      <4> QED BY <2>2, <3>2, <4>1 DEF After, First
    <3>3. CASE n # 0
      <4>1. j < Len(s) /\ 1 \in 1 .. n
        BY <1>1, <1>2, <3>1, <3>3
      <4>2. s[m + 1] = t[1]
        BY <1>2, <4>1
      <4> QED BY <2>2, <3>1, <3>3, <4>1, <4>2 DEF After, First
    <3> QED BY <3>2, <3>3
  <2> QED BY <2>1, <2>2
<1>5. \A j \in 1 .. m + n : j \in 1 .. m \/ j - m \in 1 .. n
  BY <1>1
<1> QED BY <1>1, <1>2, <1>3, <1>4, <1>5 DEF s

(* What lies below a push is not touched by it. *)
LEMMA BelowPush ==
    ASSUME NEW w, IsStack(w), NEW t, IsStack(t), NEW o \in Seq(OpenKinds), Fits(t, o),
           NEW p \in Seq(OpenKinds), Len(o) <= Len(p), Agree(p, o),
           NEW i \in 1 .. Len(t)
    PROVE  LET s == w \o t
               j == Len(w) + i
           IN  s[j] \in Words /\ Suits(s[j], Innermost(p, Height(s, j))) /\ Follows(s[j], After(s, j))
<1> DEFINE s == w \o t
           j == Len(w) + i
<1>1. /\ IsStack(s) /\ Len(w) \in Nat /\ Len(t) \in Nat /\ Len(s) = Len(w) + Len(t)
      /\ \A a \in 1 .. Len(t) : s[Len(w) + a] = t[a] /\ After(s, Len(w) + a) = After(t, a)
  BY PushIs
<1>2. i \in Nat /\ i >= 1 /\ 1 <= i /\ 1 \in Nat
  BY <1>1
<1> HIDE DEF s
<1>3. Height(s, Len(w) + i) = Height(t, i)
  BY <1>1, <1>2, HeightShift
<1>4. Height(t, i) \in Nat /\ Height(t, i) <= Len(o)
  <2>1. Height(t, i) <= Height(t, 1)
    BY <1>2, HeightFalls
  <2> QED BY <1>2, <2>1, HeightIsNat DEF Fits
<1>5. Innermost(p, Height(t, i)) = Innermost(o, Height(t, i))
  <2>1. CASE Height(t, i) = 0
    BY <2>1 DEF Innermost
  <2>2. CASE Height(t, i) # 0
    <3>1. Height(t, i) \in 1 .. Len(o) /\ Height(t, i) <= Len(p)
      <4>1. Len(o) \in Nat /\ Len(p) \in Nat
        BY OpenHasLen
      <4> QED BY <1>4, <2>2, <4>1
    <3>2. p[Height(t, i)] = o[Height(t, i)]
      BY <3>1 DEF Agree
    <3> QED BY <3>2 DEF Innermost
  <2> QED BY <2>1, <2>2
<1>6. t[i] \in Words /\ Suits(t[i], Innermost(o, Height(t, i))) /\ Follows(t[i], After(t, i))
  BY DEF Fits
<1>7. s[Len(w) + i] = t[i] /\ After(s, Len(w) + i) = After(t, i)
  BY <1>1
<1> QED BY <1>3, <1>5, <1>6, <1>7 DEF s

(* Pushing words of code. *)
LEMMA FitsPush ==
    ASSUME NEW w \in Seq(Code \cup Saves), NEW t, IsStack(t), Loose(t),
           NEW o \in Seq(OpenKinds), Fits(t, o), Top(o) \in CodeKinds
    PROVE  Fits(w \o t, o) /\ Loose(w \o t)
<1> DEFINE s == w \o t
           m == Len(w)
           n == Len(t)
<1>0. IsStack(w)
  BY DEF IsStack
<1>1. /\ IsStack(s) /\ m \in Nat /\ n \in Nat /\ Len(s) = m + n
      /\ \A j \in 1 .. m : s[j] = w[j]
      /\ \A j \in 1 .. m : After(s, j) = IF j < m THEN w[j + 1] ELSE First(t)
      /\ \A i \in 1 .. n : s[m + i] = t[i]
      /\ \A j \in 1 .. m + n : j \in 1 .. m \/ j - m \in 1 .. n
  <2>1. /\ IsStack(s) /\ m \in Nat /\ n \in Nat /\ Len(s) = m + n
        /\ \A j \in 1 .. m : s[j] = w[j]
    BY <1>0, PushIs
  <2>2. \A j \in 1 .. m : After(s, j) = IF j < m THEN w[j + 1] ELSE First(t)
    BY <1>0, PushIs
  <2>3. \A i \in 1 .. n : s[m + i] = t[i] /\ After(s, m + i) = After(t, i)
    BY <1>0, PushIs
  <2> HIDE DEF s, m, n
  <2>4. \A j \in 1 .. m + n : j \in 1 .. m \/ j - m \in 1 .. n
    BY <2>1
  <2> QED BY <2>1, <2>2, <2>3, <2>4
<1>2. \A j \in 1 .. m : w[j] \in Code \cup Saves
  OBVIOUS
<1>3. \A j \in 1 .. m : /\ w[j] \in Words /\ w[j] \notin Closers /\ w[j] \notin Heads
                         /\ w[j] # "advance" /\ w[j] # None
  BY <1>2, CodeIs
<1>4. Len(o) \in Nat /\ Len(o) <= Len(o) /\ Agree(o, o)
  BY OpenHasLen DEF Agree
<1>5. ASSUME NEW i \in 1 .. n
      PROVE  /\ s[m + i] \in Words /\ Suits(s[m + i], Innermost(o, Height(s, m + i)))
             /\ Follows(s[m + i], After(s, m + i))
  <2> HIDE DEF n
  <2>1. i \in 1 .. Len(t)
    BY DEF n
  <2> QED BY <1>0, <1>4, <2>1, BelowPush
<1> HIDE DEF s
<1>6. ASSUME NEW j \in 1 .. m + 1 PROVE Height(s, j) = Len(o)
  <2>1. {k \in j .. Len(s) : s[k] \in Closers} = {k \in m + 1 .. Len(s) : s[k] \in Closers}
    <3>1. \A k \in j .. Len(s) : k \in 1 .. m \/ k \in m + 1 .. Len(s)
      BY <1>1
    <3>2. \A k \in m + 1 .. Len(s) : k \in j .. Len(s)
      BY <1>1
    <3>3. \A k \in 1 .. m : s[k] \notin Closers
      BY <1>1, <1>3
    <3> HIDE DEF m
    <3> QED BY <3>1, <3>2, <3>3
  <2>2. Height(s, j) = Height(s, m + 1)
    BY <2>1 DEF Height
  <2>3. 1 \in Nat /\ 1 >= 1
    OBVIOUS
  <2>a. \A i \in 1 .. Len(t) : s[m + i] = t[i]
    BY <1>1
  <2>b. Len(s) = m + Len(t) /\ m \in Nat /\ IsStack(s)
    BY <1>1
  <2>4. Height(s, m + 1) = Height(t, 1)
    <3> HIDE DEF m, n
    <3> QED BY <2>a, <2>b, <2>3, HeightShift
  <2> QED BY <2>2, <2>4 DEF Fits
<1>7. ASSUME NEW j \in 1 .. m
      PROVE  s[j] \in Words /\ Suits(s[j], Innermost(o, Height(s, j))) /\ Follows(s[j], After(s, j))
  <2>1. s[j] = w[j] /\ w[j] \in Words /\ w[j] \in Code \cup Saves
    BY <1>1, <1>2, <1>3
  <2>2. j \in 1 .. m + 1
    BY <1>1
  <2>3. Innermost(o, Height(s, j)) \in CodeKinds
    BY <1>6, <2>2 DEF Top
  <2>4. After(s, j) \notin Heads /\ After(s, j) # None
    <3>1. CASE j < m
      <4>1. j + 1 \in 1 .. m
        BY <1>1, <3>1
      <4> QED BY <1>1, <1>3, <3>1, <4>1
    <3>2. CASE ~ (j < m)
      BY <1>1, <3>2 DEF Loose
    <3> QED BY <3>1, <3>2
  <2> QED BY <2>1, <2>3, <2>4, CodeSuits, CodeFollows
<1>8. Height(s, 1) = Len(o)
  <2>1. 1 \in 1 .. m + 1
    BY <1>1
  <2> QED BY <1>6, <2>1
<1>9. ASSUME NEW j \in 1 .. Len(s)
      PROVE  /\ s[j] \in Words /\ Suits(s[j], Innermost(o, Height(s, j))) /\ Follows(s[j], After(s, j))
             /\ s[j] # "advance"
  <2>1. CASE j \in 1 .. m
    BY <1>1, <1>3, <1>7, <2>1
  <2>2. CASE j - m \in 1 .. n
    <3>1. m + (j - m) = j
      BY <1>1
    <3>2. t[j - m] # "advance"
      BY <2>2, NoneToAdvance
    <3>3. s[m + (j - m)] = t[j - m]
      BY <1>1, <2>2
    <3>4. /\ s[m + (j - m)] \in Words /\ Suits(s[m + (j - m)], Innermost(o, Height(s, m + (j - m))))
          /\ Follows(s[m + (j - m)], After(s, m + (j - m)))
      BY <1>5, <2>2
    <3> QED BY <3>1, <3>2, <3>3, <3>4
  <2> QED BY <1>1, <2>1, <2>2
<1>10. Fits(s, o)
  BY <1>8, <1>9 DEF Fits
<1>11. Loose(s)
  <2>1. CASE m = 0
    <3>1. Len(s) = n /\ (n # 0 => 1 \in 1 .. n /\ m + 1 = 1)
      BY <1>1, <2>1
    <3> QED BY <1>1, <3>1 DEF Loose, First
  <2>2. CASE m # 0
    <3>1. 1 \in 1 .. m /\ Len(s) # 0
      BY <1>1, <2>2
    <3> QED BY <1>1, <1>3, <3>1 DEF Loose, First
  <2> QED BY <2>1, <2>2
<1> QED BY <1>10, <1>11 DEF s

(* Pushing one word. *)
LEMMA FitsCons ==
    ASSUME NEW x \in Words, NEW t, IsStack(t), NEW o \in Seq(OpenKinds), Fits(t, o),
           NEW p \in Seq(OpenKinds), Len(p) = Len(o) + One(x, Closers), Agree(p, o),
           Suits(x, Top(p)), Follows(x, First(t)),
           \A i \in 1 .. Len(t) : t[i] = "advance" => i = 1
    PROVE  /\ Fits(<<x>> \o t, p) /\ IsStack(<<x>> \o t) /\ First(<<x>> \o t) = x
           /\ Len(<<x>> \o t) = 1 + Len(t)
           /\ \A i \in 1 .. Len(t) : (<<x>> \o t)[1 + i] = t[i]
<1> DEFINE w == <<x>>
           s == w \o t
           n == Len(t)
<1>0. IsStack(w) /\ Len(w) = 1 /\ w[1] = x
  BY TallyOne
<1> HIDE DEF w
<1>a. IsStack(w)
  BY <1>0
<1>1. /\ IsStack(s) /\ n \in Nat /\ Len(s) = Len(w) + n
      /\ \A j \in 1 .. Len(w) : s[j] = w[j]
      /\ \A j \in 1 .. Len(w) : After(s, j) = IF j < Len(w) THEN w[j + 1] ELSE First(t)
      /\ \A i \in 1 .. n : s[Len(w) + i] = t[i]
      /\ \A j \in 1 .. Len(w) + n : j \in 1 .. Len(w) \/ j - Len(w) \in 1 .. n
  <2>1. /\ IsStack(s) /\ n \in Nat /\ Len(s) = Len(w) + n
        /\ \A j \in 1 .. Len(w) : s[j] = w[j]
    BY <1>a, PushIs
  <2>2. \A j \in 1 .. Len(w) : After(s, j) = IF j < Len(w) THEN w[j + 1] ELSE First(t)
    BY <1>a, PushIs
  <2>4. \A j \in 1 .. Len(w) + n : j \in 1 .. Len(w) \/ j - Len(w) \in 1 .. n
    BY <1>a, PushIs
  <2>3. \A i \in 1 .. n : s[Len(w) + i] = t[i] /\ After(s, Len(w) + i) = After(t, i)
    BY <1>a, PushIs
  <2> HIDE DEF s, n
  <2> QED BY <2>1, <2>2, <2>3, <2>4
<1>2. /\ Len(s) = 1 + n /\ s[1] = x /\ After(s, 1) = First(t)
      /\ \A i \in 1 .. n : s[1 + i] = t[i]
      /\ \A j \in 1 .. 1 + n : j = 1 \/ j - 1 \in 1 .. n
  BY <1>0, <1>1
<1>3. Len(o) \in Nat /\ Len(p) \in Nat /\ Len(o) <= Len(p)
  BY OpenHasLen DEF One
<1>4. ASSUME NEW i \in 1 .. n
      PROVE  /\ s[1 + i] \in Words /\ Suits(s[1 + i], Innermost(p, Height(s, 1 + i)))
             /\ Follows(s[1 + i], After(s, 1 + i))
  <2>1. /\ s[Len(w) + i] \in Words /\ Suits(s[Len(w) + i], Innermost(p, Height(s, Len(w) + i)))
        /\ Follows(s[Len(w) + i], After(s, Len(w) + i))
    BY <1>0, <1>3, BelowPush
  <2> QED BY <1>0, <2>1
<1> HIDE DEF s
<1>5. Height(s, 1) = Len(p)
  <2>1. 1 \in 1 .. Len(s) /\ 1 + 1 = 2 /\ 1 \in Nat /\ 1 >= 1
    BY <1>1, <1>2
  <2>2. Height(s, 1) = Height(s, 2) + One(x, Closers)
    BY <1>1, <1>2, <2>1, HeightSteps
  <2>3. Height(s, 1 + 1) = Height(t, 1)
    BY <1>1, <1>2, <2>1, HeightShift
  <2>4. Height(t, 1) = Len(o)
    BY DEF Fits
  <2> QED BY <2>1, <2>2, <2>3, <2>4
<1>6. ASSUME NEW j \in 1 .. Len(s)
      PROVE  /\ s[j] \in Words /\ Suits(s[j], Innermost(p, Height(s, j))) /\ Follows(s[j], After(s, j))
             /\ s[j] = "advance" => j <= 2
  <2>1. CASE j = 1
    BY <1>2, <1>5, <2>1 DEF Top
  <2>2. CASE j - 1 \in 1 .. n
    <3>1. 1 + (j - 1) = j /\ (j - 1 = 1 => j <= 2)
      BY <1>1
    <3>2. /\ s[1 + (j - 1)] \in Words /\ Suits(s[1 + (j - 1)], Innermost(p, Height(s, 1 + (j - 1))))
          /\ Follows(s[1 + (j - 1)], After(s, 1 + (j - 1)))
      BY <1>4, <2>2
    <3>3. s[1 + (j - 1)] = t[j - 1]
      BY <1>2, <2>2
    <3>4. t[j - 1] = "advance" => j - 1 = 1
      BY <2>2
    <3> QED BY <3>1, <3>2, <3>3, <3>4
  <2> QED BY <1>2, <2>1, <2>2
<1>7. Fits(s, p)
  BY <1>5, <1>6 DEF Fits
<1>8. First(s) = x
  BY <1>1, <1>2 DEF First
<1> QED BY <1>1, <1>2, <1>7, <1>8 DEF s, w

-----------------------------------------------------------------------------
(* Texts: what the words w, pushed on a stack that fits o, ask to be open.   *)

Grows(w, o, p) == \A t : IsStack(t) /\ Loose(t) /\ Fits(t, o) => Fits(w \o t, p)
Light(w) == IsStack(w) /\ (Len(w) # 0 => w[1] \notin Heads /\ w[1] # None)
Coded(w) == Light(w) /\ \A o \in Seq(OpenKinds) : Top(o) \in CodeKinds => Grows(w, o, o)

LEMMA LightIsLoose ==
    ASSUME NEW w, Light(w), NEW t, IsStack(t), Loose(t)
    PROVE  IsStack(w \o t) /\ Loose(w \o t)
<1> DEFINE s == w \o t
           m == Len(w)
           n == Len(t)
<1>0. IsStack(w)
  BY DEF Light
<1>1. /\ IsStack(s) /\ m \in Nat /\ n \in Nat /\ Len(s) = m + n
      /\ \A j \in 1 .. m : s[j] = w[j]
      /\ \A i \in 1 .. n : s[m + i] = t[i]
  <2>1. IsStack(s) /\ m \in Nat /\ n \in Nat /\ Len(s) = m + n
    BY <1>0, PushIs
  <2>2. \A j \in 1 .. m : s[j] = w[j]
    BY <1>0, PushIs
  <2>3. \A i \in 1 .. n : s[m + i] = t[i] /\ After(s, m + i) = After(t, i)
    BY <1>0, PushIs
  <2> HIDE DEF s, m, n
  <2> QED BY <2>1, <2>2, <2>3
<1>2. m # 0 => w[1] \notin Heads /\ w[1] # None
  BY DEF Light
<1> HIDE DEF s, m
<1>3. CASE m = 0
  <2>1. Len(s) = n /\ (n # 0 => 1 \in 1 .. n /\ m + 1 = 1)
    BY <1>1, <1>3
  <2> QED BY <1>1, <2>1 DEF Loose, First, s
<1>4. CASE m # 0
  <2>1. 1 \in 1 .. m /\ Len(s) # 0
    BY <1>1, <1>4
  <2> QED BY <1>1, <1>2, <1>4, <2>1 DEF Loose, First, s
<1> QED BY <1>3, <1>4, <1>1 DEF s

LEMMA GrowsChain ==
    ASSUME NEW u, IsStack(u), NEW v, Light(v), NEW o, NEW p, NEW q, Grows(v, o, p), Grows(u, p, q)
    PROVE  Grows(u \o v, o, q)
<1>1. SUFFICES ASSUME NEW t, IsStack(t), Loose(t), Fits(t, o) PROVE Fits((u \o v) \o t, q)
  BY DEF Grows
<1>2. IsStack(v \o t) /\ Loose(v \o t)
  BY <1>1, LightIsLoose
<1>3. Fits(v \o t, p)
  BY <1>1 DEF Grows
<1>4. Fits(u \o (v \o t), q)
  BY <1>2, <1>3 DEF Grows
<1>5. (u \o v) \o t = u \o (v \o t)
  BY <1>1, Regroup DEF Light
<1> QED BY <1>4, <1>5

LEMMA LightChain ==
    ASSUME NEW u, Light(u), NEW v, Light(v)
    PROVE  Light(u \o v)
<1>1. IsStack(u) /\ IsStack(v)
  BY DEF Light
<1>2. /\ IsStack(u \o v) /\ Len(u \o v) = Len(u) + Len(v)
      /\ \A j \in 1 .. Len(u) : (u \o v)[j] = u[j]
      /\ \A j \in 1 .. Len(v) : (u \o v)[Len(u) + j] = v[j]
  BY <1>1, ConcatIs
<1> DEFINE s == u \o v
           m == Len(u)
           n == Len(v)
<1>3. m \in Nat /\ n \in Nat
  BY <1>1, StackHasLen
<1>4. (m # 0 => u[1] \notin Heads /\ u[1] # None) /\ (n # 0 => v[1] \notin Heads /\ v[1] # None)
  BY DEF Light
<1>5. IsStack(s) /\ Len(s) = m + n /\ (\A j \in 1 .. m : s[j] = u[j]) /\ \A j \in 1 .. n : s[m + j] = v[j]
  BY <1>2
<1> HIDE DEF s, m, n
<1>6. CASE m = 0
  <2>1. Len(s) = n /\ (n # 0 => 1 \in 1 .. n /\ m + 1 = 1)
    BY <1>3, <1>5, <1>6
  <2>2. n # 0 => s[1] = v[1]
    BY <1>5, <2>1
  <2> QED BY <1>4, <1>5, <2>1, <2>2 DEF Light, s
<1>7. CASE m # 0
  <2>1. 1 \in 1 .. m
    BY <1>3, <1>7
  <2>2. s[1] = u[1]
    BY <1>5, <2>1
  <2> QED BY <1>4, <1>5, <1>7, <2>2 DEF Light, s
<1> QED BY <1>6, <1>7

LEMMA NothingGrows ==
    ASSUME NEW o
    PROVE  Light(<<>>) /\ Grows(<<>>, o, o)
<1>1. IsStack(<<>>) /\ Len(<<>>) = 0
  <2>1. <<>> \in Seq({}) /\ Len(<<>>) = 0
    OBVIOUS
  <2> QED BY <2>1 DEF IsStack
<1>2. ASSUME NEW t, IsStack(t) PROVE <<>> \o t = t
  <2>1. PICK S : t \in Seq(S)
    BY <1>2 DEF IsStack
  <2> QED BY <2>1, ConcatEmptySeq
<1> QED BY <1>1, <1>2 DEF Light, Grows

LEMMA NothingIsCoded == Coded(<<>>)
BY NothingGrows DEF Coded

LEMMA CodeList ==
    ASSUME NEW w \in Seq(Code \cup Saves)
    PROVE  Coded(w) /\ Light(w) /\ IsStack(w)
<1>1. IsStack(w)
  BY DEF IsStack
<1>2. Light(w)
  <2>1. Len(w) \in Nat /\ \A j \in 1 .. Len(w) : w[j] \in Code \cup Saves
    OBVIOUS
  <2>2. Len(w) # 0 => w[1] \in Code \cup Saves
    BY <2>1
  <2> QED BY <1>1, <2>2, CodeIs DEF Light
<1>3. ASSUME NEW o \in Seq(OpenKinds), Top(o) \in CodeKinds PROVE Grows(w, o, o)
  BY <1>3, FitsPush DEF Grows
<1> QED BY <1>1, <1>2, <1>3 DEF Coded

LEMMA CodedChain ==
    ASSUME NEW u, Coded(u), NEW v, Coded(v)
    PROVE  Coded(u \o v)
<1>1. Light(u) /\ Light(v) /\ IsStack(u)
  BY DEF Coded, Light
<1>2. ASSUME NEW o \in Seq(OpenKinds), Top(o) \in CodeKinds PROVE Grows(u \o v, o, o)
  <2>1. Grows(u, o, o) /\ Grows(v, o, o)
    BY <1>2 DEF Coded
  <2> QED BY <1>1, <2>1, GrowsChain
<1> QED BY <1>1, <1>2, LightChain DEF Coded

LEMMA AppendIs ==
    ASSUME NEW o \in Seq(OpenKinds), NEW k \in OpenKinds
    PROVE  /\ Append(o, k) \in Seq(OpenKinds) /\ Len(Append(o, k)) = Len(o) + 1
           /\ Agree(Append(o, k), o) /\ Top(Append(o, k)) = k
<1> DEFINE p == Append(o, k)
<1>1. /\ p \in Seq(OpenKinds) /\ Len(o) \in Nat /\ Len(p) = Len(o) + 1 /\ p[Len(o) + 1] = k
      /\ \A i \in 1 .. Len(o) : p[i] = o[i]
  OBVIOUS
<1> HIDE DEF p
<1>2. Agree(p, o)
  BY <1>1 DEF Agree
<1>3. Len(p) # 0
  BY <1>1
<1> QED BY <1>1, <1>2, <1>3 DEF Top, Innermost, p

LEMMA FrontAppend ==
    ASSUME NEW o \in Seq(OpenKinds), Len(o) >= 1
    PROVE  Append(Front(o), Top(o)) = o /\ Top(o) \in OpenKinds
<1> DEFINE f == Front(o)
           n == Len(o)
<1>1. n \in Nat /\ n \in 1 .. n /\ o[n] \in OpenKinds /\ Top(o) = o[n] /\ n # 0
  BY DEF Top, Innermost
<1>2. f \in Seq(OpenKinds) /\ Len(f) = n - 1 /\ Agree(f, o)
  BY OpenFront
<1> HIDE DEF f
<1> DEFINE p == Append(f, o[n])
<1>3. /\ p \in Seq(OpenKinds) /\ Len(p) = Len(f) + 1 /\ p[Len(f) + 1] = o[n]
      /\ \A i \in 1 .. Len(f) : p[i] = f[i]
  BY <1>1, <1>2
<1> HIDE DEF p
<1>4. ASSUME NEW i \in 1 .. n PROVE p[i] = o[i]
  <2>1. CASE i = n
    BY <1>1, <1>2, <1>3, <2>1
  <2>2. CASE i # n
    <3>1. i \in 1 .. Len(f) /\ i <= Len(f)
      BY <1>1, <1>2, <2>2
    <3>2. f[i] = o[i]
      BY <1>2, <3>1 DEF Agree
    <3> QED BY <1>3, <3>1, <3>2
  <2> QED BY <2>1, <2>2
<1>5. Len(p) = n
  BY <1>1, <1>2, <1>3
<1> HIDE DEF n
<1>6. p = o
  BY <1>3, <1>4, <1>5, SeqEqual DEF n
<1> QED BY <1>1, <1>6 DEF p, f

(* A word that may stand before any but the words of Heads. *)
Easy(x) == x \notin EndsElement \cup CtrlWords \cup ArmsWords \cup {"more", "unit"}

LEMMA GrowsWord ==
    ASSUME NEW x \in Words, Easy(x), NEW o \in Seq(OpenKinds), NEW p \in Seq(OpenKinds),
           Len(p) = Len(o) + One(x, Closers), Agree(p, o), Suits(x, Top(p))
    PROVE  Grows(<<x>>, o, p)
<1>1. SUFFICES ASSUME NEW t, IsStack(t), Loose(t), Fits(t, o) PROVE Fits(<<x>> \o t, p)
  BY DEF Grows
<1>2. Follows(x, First(t))
  BY <1>1 DEF Follows, Loose, Heads, Easy
<1>3. \A i \in 1 .. Len(t) : t[i] = "advance" => i = 1
  BY <1>1, NoneToAdvance
<1> QED BY <1>1, <1>2, <1>3, FitsCons

LEMMA GrowsSame ==
    ASSUME NEW x \in Words, Easy(x), x \notin Closers, NEW o \in Seq(OpenKinds), Suits(x, Top(o))
    PROVE  Grows(<<x>>, o, o)
<1>1. Len(o) = Len(o) + One(x, Closers) /\ Agree(o, o)
  BY OpenHasLen DEF One, Agree
<1> QED BY <1>1, GrowsWord

LEMMA GrowsMore ==
    ASSUME NEW x \in Words, Easy(x), x \in Closers, NEW o \in Seq(OpenKinds), NEW k \in OpenKinds, Suits(x, k)
    PROVE  Grows(<<x>>, o, Append(o, k))
<1> DEFINE p == Append(o, k)
<1>1. p \in Seq(OpenKinds) /\ Len(p) = Len(o) + 1 /\ Agree(p, o) /\ Top(p) = k
  BY AppendIs
<1> HIDE DEF p
<1>2. Len(p) = Len(o) + One(x, Closers)
  BY <1>1 DEF One
<1>3. Grows(<<x>>, o, p)
  BY <1>1, <1>2, GrowsWord
<1> QED BY <1>3 DEF p

Pairs ==
    {<<"RBRACE", "brace">>, <<"INTERP_END", "interp">>, <<"CTRL_END", "ctrl">>, <<"string", "str">>}

LEMMA PairSuits ==
    ASSUME NEW x, NEW k, <<x, k>> \in Pairs
    PROVE  /\ x \in Words /\ Easy(x) /\ x \in Closers /\ k \in OpenKinds /\ Suits(x, k)
           /\ x \notin Heads /\ x # None
<1>0. x \in {"RBRACE", "INTERP_END", "CTRL_END", "string"} /\ k \in OpenKinds
  BY DEF Pairs, OpenKinds
<1>1. x \in Closers /\ Easy(x) /\ x \notin Heads /\ x # None
  BY <1>0, ClosesIs DEF Closers, CtrlWords, ArmsWords, Easy, EndsElement, Heads, None
<1>2. x \notin CodeWords /\ x \notin ElemWords /\ x \notin TagWords /\ x \notin ClosingWords
      /\ x \notin CtrlWords
  <2>1. x \notin Code
    BY <1>1, CodeIs
  <2> QED BY <1>0, <2>1 DEF CtrlWords, CodeWords, ElemWords, ArmsWords, TagWords, ClosingWords
<1>3. k \in Closes[x]
  BY ClosesIs DEF Pairs
<1> QED BY <1>0, <1>1, <1>2, <1>3 DEF Suits, Words

LEMMA GrowsCloser ==
    ASSUME NEW x, NEW k, <<x, k>> \in Pairs, NEW o \in Seq(OpenKinds)
    PROVE  Grows(<<x>>, o, Append(o, k)) /\ Light(<<x>>) /\ IsStack(<<x>>)
<1>1. /\ x \in Words /\ Easy(x) /\ x \in Closers /\ k \in OpenKinds /\ Suits(x, k)
      /\ x \notin Heads /\ x # None
  BY PairSuits
<1>2. Grows(<<x>>, o, Append(o, k))
  BY <1>1, GrowsMore
<1>3. IsStack(<<x>>) /\ Len(<<x>>) = 1 /\ <<x>>[1] = x
  BY TallyOne
<1> QED BY <1>1, <1>2, <1>3 DEF Light

(* Words of code, a closing bracket and what follows it. *)
LEMMA GrowsAround ==
    ASSUME NEW u \in Seq(Code \cup Saves), NEW x \in {"RBRACE", "INTERP_END", "CTRL_END"},
           NEW k \in {"brace", "interp", "ctrl"}, <<x, k>> \in Pairs,
           NEW o \in Seq(OpenKinds), NEW p \in Seq(OpenKinds), NEW v, Light(v), Grows(v, o, p)
    PROVE  Grows(u \o (<<x>> \o v), o, Append(p, k)) /\ Light(u \o (<<x>> \o v))
<1>1. Grows(<<x>>, p, Append(p, k)) /\ Light(<<x>>) /\ IsStack(<<x>>)
  BY GrowsCloser
<1>2. Grows(<<x>> \o v, o, Append(p, k)) /\ Light(<<x>> \o v)
  BY <1>1, GrowsChain, LightChain
<1>3. Append(p, k) \in Seq(OpenKinds) /\ Top(Append(p, k)) \in CodeKinds
  <2>1. k \in OpenKinds /\ k \in CodeKinds
    BY DEF OpenKinds, CodeKinds
  <2> QED BY <2>1, AppendIs
<1>4. Coded(u) /\ Light(u) /\ IsStack(u)
  BY CodeList
<1>5. Grows(u, Append(p, k), Append(p, k))
  BY <1>3, <1>4 DEF Coded
<1>6. Grows(u \o (<<x>> \o v), o, Append(p, k))
  <2> DEFINE r == <<x>> \o v
             q == Append(p, k)
  <2> HIDE DEF r, q
  <2>1. Grows(r, o, q) /\ Light(r) /\ IsStack(u) /\ Grows(u, q, q)
    BY <1>2, <1>4, <1>5 DEF r, q
  <2>2. Grows(u \o r, o, q)
    BY <2>1, GrowsChain
  <2> QED BY <2>2 DEF r, q
<1> QED BY <1>2, <1>4, <1>6, LightChain

(* A list goes on behind its comma. *)
LEMMA ListIsCoded ==
    ASSUME NEW x \in Listed
    PROVE  Coded(<<"more", x>>)
<1>1. x \in Code /\ <<x>> \in Seq(Code \cup Saves)
  BY DEF Listed, Code
<1>2. /\ "more" \in Words /\ "more" \notin Closers /\ "more" \notin Heads /\ "more" # None
      /\ "more" \in CodeWords
      /\ "more" \notin ElemWords \cup TagWords \cup ClosingWords
  BY ClosesIs DEF Words, CodeWords, Closers, CtrlWords, Heads, None, ElemWords, ArmsWords, TagWords, ClosingWords
<1>3. <<"more", x>> = <<"more">> \o <<x>>
  BY Split1And1
<1>4. Light(<<"more", x>>)
  <2>1. <<"more", x>> \in Seq({"more", x}) /\ <<"more", x>>[1] = "more"
    OBVIOUS
  <2> QED BY <1>2, <2>1 DEF Light, IsStack
<1>5. ASSUME NEW o \in Seq(OpenKinds), Top(o) \in CodeKinds, NEW t, IsStack(t), Loose(t), Fits(t, o)
      PROVE  Fits(<<"more", x>> \o t, o)
  <2>1. Coded(<<x>>) /\ IsStack(<<x>>)
    BY <1>1, CodeList
  <2>2. Fits(<<x>> \o t, o)
    BY <1>5, <2>1 DEF Coded, Grows
  <2>3. IsStack(<<x>> \o t) /\ Loose(<<x>> \o t)
    BY <1>5, <2>1, LightIsLoose DEF Coded
  <2>4. First(<<x>> \o t) = x
    <3>1. Len(<<x>>) = 1 /\ <<x>>[1] = x /\ IsStack(<<x>>)
      BY TallyOne
    <3> DEFINE w == <<x>>
    <3> HIDE DEF w
    <3>2. Len(w) = 1 /\ w[1] = x /\ IsStack(w)
      BY <3>1 DEF w
    <3>3. Len(w \o t) = Len(w) + Len(t) /\ \A j \in 1 .. Len(w) : (w \o t)[j] = w[j]
      BY <1>5, <3>2, ConcatIs
    <3>4. Len(t) \in Nat
      BY <1>5, StackHasLen
    <3>5. First(w \o t) = x
      BY <3>2, <3>3, <3>4 DEF First
    <3> QED BY <3>5 DEF w
  <2> DEFINE s == <<x>> \o t
  <2> HIDE DEF s
  <2>5. IsStack(s) /\ Loose(s) /\ Fits(s, o) /\ First(s) = x
    BY <2>2, <2>3, <2>4 DEF s
  <2>6. Follows("more", First(s))
    <3>1. x \notin Heads /\ x # None
      BY <1>1, CodeIs
    <3>2. "more" \notin EndsElement \cup CtrlWords \cup ArmsWords
      BY DEF EndsElement, CtrlWords, ArmsWords
    <3> QED BY <2>5, <3>1, <3>2 DEF Follows, Heads
  <2>7. \A i \in 1 .. Len(s) : s[i] = "advance" => i = 1
    BY <2>5, NoneToAdvance
  <2>8. Len(o) = Len(o) + One("more", Closers) /\ Agree(o, o)
    BY <1>2, OpenHasLen DEF One, Agree
  <2>9. Suits("more", Top(o))
    BY <1>2, <1>5 DEF Suits, Closers
  <2>10. Fits(<<"more">> \o s, o)
    BY <1>2, <2>5, <2>6, <2>7, <2>8, <2>9, FitsCons
  <2>11. (<<"more">> \o <<x>>) \o t = <<"more">> \o (<<x>> \o t)
    BY <1>5, TallyOne, Regroup
  <2> QED BY <1>3, <2>10, <2>11 DEF s
<1> QED BY <1>4, <1>5 DEF Coded, Grows

-----------------------------------------------------------------------------
(* What a token leaves open.                                                 *)

(* The tokens that open or close something. *)
Turning ==
    {"STR_START", "INTERP_START", "CTRL_START", "LBRACE", "TAG_CLOSE_START",
     "STR_END", "INTERP_END", "CTRL_END", "TAG_SELF_CLOSE", "TAG_END", "RBRACE"}
Inert(k) == k \notin Turning \cup {"EOF"}

LEMMA ModeIs ==
    ASSUME NEW o \in Seq(OpenKinds)
    PROVE  /\ \A S : Lex!TopIs(o, S) <=> o # <<>> /\ Top(o) \in S
           /\ o = <<>> => Top(o) = "unit"
           /\ o # <<>> => Len(o) >= 1 /\ Top(o) \in OpenKinds
           /\ Top(o) \in CodeKinds => Lex!Mode(o) = "NORMAL"
           /\ Top(o) = "str" => Lex!Mode(o) = "STR"
           /\ Top(o) \in {"tag", "closing"} => Lex!Mode(o) = "TAG"
           /\ Top(o) = "elem" => Lex!Mode(o) = "CONTENT"
<1>1. Len(o) \in Nat /\ (o = <<>> <=> Len(o) = 0)
  OBVIOUS
<1>2. o = <<>> => Top(o) = "unit"
  BY <1>1 DEF Top, Innermost
<1>3. o # <<>> => Len(o) >= 1 /\ Top(o) = o[Len(o)] /\ Top(o) \in OpenKinds
  BY <1>1 DEF Top, Innermost
<1>4. \A S : Lex!TopIs(o, S) <=> o # <<>> /\ Top(o) \in S
  BY <1>3 DEF Lex!TopIs, Lex!Last, Last
<1>5. Top(o) = "unit" => o = <<>>
  BY <1>3 DEF OpenKinds
<1>6. Lex!Mode(o) =
        IF o # <<>> /\ Top(o) \in {"str"} THEN "STR"
        ELSE IF o # <<>> /\ Top(o) \in {"tag", "closing"} THEN "TAG"
        ELSE IF o # <<>> /\ Top(o) \in {"elem"} THEN "CONTENT" ELSE "NORMAL"
  BY <1>4 DEF Lex!Mode
<1> QED BY <1>2, <1>3, <1>4, <1>5, <1>6 DEF CodeKinds

LEMMA FrontIsFront ==
    ASSUME NEW o
    PROVE  Lex!Front(o) = Front(o)
BY DEF Lex!Front, Front

LEMMA TakenIs ==
    ASSUME NEW o \in Seq(OpenKinds), NEW k
    PROVE  /\ k \notin Turning \cup {"MARKUP_START"} => Lex!Taken(o, k) = o
           /\ k = "MARKUP_START" /\ Top(o) \in CodeKinds => Lex!Taken(o, k) = o
           /\ k = "MARKUP_START" /\ Top(o) = "elem" => Lex!Taken(o, k) = Append(o, "tag")
           /\ k = "STR_START" => Lex!Taken(o, k) = Append(o, "str")
           /\ k = "INTERP_START" => Lex!Taken(o, k) = Append(o, "interp")
           /\ k = "CTRL_START" => Lex!Taken(o, k) = Append(o, "ctrl")
           /\ k = "LBRACE" => Lex!Taken(o, k) = Append(o, "brace")
           /\ k = "TAG_CLOSE_START" => Lex!Taken(o, k) = Append(Front(o), "closing")
           /\ k = "TAG_END" /\ Top(o) = "tag" => Lex!Taken(o, k) = Append(Front(o), "elem")
           /\ k = "TAG_END" /\ Top(o) = "closing" => Lex!Taken(o, k) = Front(o)
           /\ k \in {"STR_END", "INTERP_END", "CTRL_END", "TAG_SELF_CLOSE"} => Lex!Taken(o, k) = Front(o)
           /\ k = "RBRACE" /\ Top(o) = "brace" => Lex!Taken(o, k) = Front(o)
<1>1. /\ \A S : Lex!TopIs(o, S) <=> o # <<>> /\ Top(o) \in S
      /\ o = <<>> => Top(o) = "unit"
      /\ Top(o) \in CodeKinds => Lex!Mode(o) = "NORMAL"
      /\ Top(o) = "elem" => Lex!Mode(o) = "CONTENT"
  BY ModeIs
<1>2. /\ \A what : Lex!Becomes(o, what) = Append(Front(o), what)
      /\ Lex!Front(o) = Front(o)
  BY FrontIsFront DEF Lex!Becomes
<1>3. \A S : Lex!TopIs(o, S) => Top(o) \in S
  BY <1>1
<1>4. \A S : Top(o) \in S /\ Top(o) # "unit" => Lex!TopIs(o, S)
  BY <1>1
<1>5. CASE k \notin Turning \cup {"MARKUP_START"}
  BY <1>5 DEF Lex!Taken, Turning
<1>6. CASE k = "MARKUP_START"
  BY <1>1, <1>6 DEF Lex!Taken, Turning
<1>7. CASE k = "TAG_END"
  <2>1. Top(o) = "tag" => Lex!TopIs(o, {"tag"}) /\ ~ Lex!TopIs(o, {"closing"})
    BY <1>3, <1>4
  <2>2. Top(o) = "closing" => Lex!TopIs(o, {"closing"}) /\ ~ Lex!TopIs(o, {"tag"})
    BY <1>3, <1>4
  <2>3. Lex!TopIs(o, {"tag"}) /\ ~ Lex!TopIs(o, {"closing"}) => Lex!Taken(o, k) = Lex!Becomes(o, "elem")
    BY <1>7 DEF Lex!Taken
  <2>4. Lex!TopIs(o, {"closing"}) /\ ~ Lex!TopIs(o, {"tag"}) => Lex!Taken(o, k) = Lex!Front(o)
    BY <1>7 DEF Lex!Taken
  <2>5. k \in Turning /\ k \notin {"MARKUP_START", "STR_START", "INTERP_START", "CTRL_START", "LBRACE",
           "TAG_CLOSE_START", "STR_END", "INTERP_END", "CTRL_END", "TAG_SELF_CLOSE", "RBRACE"}
    BY <1>7 DEF Turning
  <2>6. Top(o) = "tag" => Lex!Taken(o, k) = Append(Front(o), "elem")
    BY <1>2, <2>1, <2>3
  <2>7. Top(o) = "closing" => Lex!Taken(o, k) = Front(o)
    BY <1>2, <2>2, <2>4
  <2> QED BY <1>7, <2>5, <2>6, <2>7
<1>8. CASE k = "RBRACE"
  <2>1. Top(o) = "brace" => Lex!TopIs(o, {"brace"})
    BY <1>4
  <2> QED BY <1>2, <1>8, <2>1 DEF Lex!Taken, Turning
<1>9. CASE k \in Turning \ {"TAG_END", "RBRACE"}
  BY <1>2, <1>9 DEF Lex!Taken, Turning
<1> QED BY <1>5, <1>6, <1>7, <1>8, <1>9

LEMMA TakenIsOpen ==
    ASSUME NEW o \in Seq(OpenKinds), NEW k
    PROVE  Lex!Taken(o, k) \in Seq(OpenKinds)
<1>1. Front(o) \in Seq(OpenKinds)
  BY OpenFront
<1>2. \A p \in Seq(OpenKinds) : \A x \in OpenKinds : Append(p, x) \in Seq(OpenKinds)
  BY AppendIs
<1>3. \A x \in {"str", "interp", "ctrl", "brace", "tag", "closing", "elem"} : x \in OpenKinds
  BY DEF OpenKinds
<1>4. /\ \A what : Lex!Becomes(o, what) = Append(Front(o), what)
      /\ Lex!Front(o) = Front(o)
  BY FrontIsFront DEF Lex!Becomes
<1>5. \/ \E x \in {"str", "interp", "ctrl", "brace", "tag"} : Lex!Taken(o, k) = Append(o, x)
      \/ \E x \in {"closing", "elem"} : Lex!Taken(o, k) = Append(Front(o), x)
      \/ Lex!Taken(o, k) = Front(o) \/ Lex!Taken(o, k) = o
  BY <1>4 DEF Lex!Taken
<1> QED BY <1>1, <1>2, <1>3, <1>5

-----------------------------------------------------------------------------
(* The invariant.                                                            *)

(* Where o is open, k may be the next token.                                 *)
Possible(o, k) ==
    /\ k = "EOF" => Lex!Mode(o) # "STR"
    /\ k # "EOF" /\ Lex!Mode(o) = "STR" => k \in {"STR_TEXT", "STR_END", "INTERP_START"}
    /\ k # "EOF" /\ Lex!Mode(o) = "CONTENT" => k \in Lex!InContent \cup {"MARKUP_START", "INTERP_START"}

(* The token k, after which q is open, stands where o is.  At the end of the *)
(* source what encloses it may be left while the lexer still has it open: an *)
(* element, which the lexer reports, or a string, which it has closed.       *)
Over(k, q, o) ==
    IF k = "EOF"
    THEN /\ Len(o) <= Len(q) /\ Agree(o, q)
         /\ \A j \in Len(o) + 1 .. Len(q) : q[j] \in {"elem", "str"}
    ELSE Possible(o, k) /\ q = Lex!Taken(o, k)

(* What the stack fits where it stands before a token: `{` and what ends an  *)
(* element count what they are about to open, or have seen closed.           *)
Ahead(s, o) ==
    CASE First(s) = "LBRACE" -> Fits(s, Append(o, "brace"))
      [] First(s) = "end_element" -> \E what \in {"tag", "elem", "closing"} : Fits(s, Append(o, what))
      [] OTHER -> Fits(s, o)

Simple == Name \cup {"INT", "FLOAT"}
Peeked == {"DOT", "MINUS", "NEWLINE", "CTRL_START"} \cup Ident

Nest(s, k, q, n) ==
    /\ q \in Seq(OpenKinds)
    /\ IF First(s) = "advance" THEN k # "EOF" /\ Fits(s, q)
       ELSE \E o \in Seq(OpenKinds) : Over(k, q, o) /\ Ahead(s, o)
    /\ Len(s) = 0 => k = "EOF"
    /\ First(s) \in {"element_entering", "element_nested"} => k = "MARKUP_START"
    /\ First(s) = "strays" => k \in {"TAG_CLOSE_START", "CTRL_START", "EOF"}
    /\ First(s) = "closing_tag" => k \in {"TAG_CLOSE_START", "EOF"}
    /\ First(s) = "advance" /\ After(s, 1) = "advance" => n \in Simple
    /\ n # None => Possible(q, n) /\ k \in Peeked

SilentNest == Nest(todo, tok, open, next)
NestInv == reported \/ SilentNest
Nests == reported' \/ SilentNest'

-----------------------------------------------------------------------------
(* Steps.                                                                    *)

(* The stack may stand before any token. *)
Free(s) ==
    First(s) \notin {"LBRACE", "element_entering", "element_nested", "advance", "strays",
                     "closing_tag", "end_element", None}

LEMMA LooseIsFree ==
    ASSUME NEW s, Loose(s)
    PROVE  Free(s)
BY DEF Loose, Free, Heads

LEMMA FreeNests ==
    ASSUME NEW s, Free(s), NEW k, NEW q \in Seq(OpenKinds), NEW n, n # None => Possible(q, n) /\ k \in Peeked,
           NEW o \in Seq(OpenKinds), Over(k, q, o), Fits(s, o)
    PROVE  Nest(s, k, q, n)
<1>1. First(s) \notin {"LBRACE", "element_entering", "element_nested", "advance", "strays",
                     "closing_tag", "end_element", None}
  BY DEF Free
<1>2. Ahead(s, o)
  BY <1>1 DEF Ahead
<1>3. Len(s) # 0
  BY <1>1 DEF First
<1> QED BY <1>1, <1>2, <1>3 DEF Nest

LEMMA UpcomingIs ==
    ASSUME tok # "EOF", NEW o \in Seq(OpenKinds), next # None => Possible(o, next), NEW k \in Upcoming(o)
    PROVE  Possible(o, k)
<1>1. CASE next # None
  BY <1>1 DEF Upcoming
<1>2. CASE next = None
  <2>1. Lex!MayCome(o, tok, k)
    BY <1>2 DEF Upcoming
  <2>2. IF k = "EOF" THEN Lex!Mode(o) # "STR"
        ELSE CASE Lex!Mode(o) = "STR" -> k \in {"STR_TEXT", "STR_END", "INTERP_START"}
               [] Lex!Mode(o) = "TAG" -> k \in Lex!InNames \cup {"STR_START", "INTERP_START"}
               [] Lex!Mode(o) = "CONTENT" -> k \in Lex!InContent \cup {"MARKUP_START", "INTERP_START"}
               [] Lex!Mode(o) = "NORMAL" -> Lex!MayComeInCode(o, k)
    BY <2>1 DEF Lex!MayCome
  <2>3. Lex!Mode(o) \in {"STR", "TAG", "CONTENT", "NORMAL"}
    BY DEF Lex!Mode
  <2> QED BY <2>2, <2>3 DEF Possible
<1> QED BY <1>1, <1>2

LEMMA UpcomingStands ==
    ASSUME tok # "EOF", NEW q \in Seq(OpenKinds), next # None => Possible(q, next), NEW k \in Upcoming(q)
    PROVE  Lex!Taken(q, k) \in Seq(OpenKinds) /\ Over(k, Lex!Taken(q, k), q)
<1>1. Possible(q, k)
  BY UpcomingIs
<1> DEFINE p == Lex!Taken(q, k)
<1>2. p \in Seq(OpenKinds)
  BY TakenIsOpen
<1>3. CASE k = "EOF"
  <2>1. p = q
    BY <1>3, TakenIs DEF Turning
  <2>2. Len(q) \in Nat
    BY OpenHasLen
  <2>3. Agree(q, q) /\ Len(q) <= Len(q) /\ \A j \in Len(q) + 1 .. Len(q) : FALSE
    BY <2>2 DEF Agree
  <2> QED BY <1>2, <1>3, <2>1, <2>3 DEF Over
<1>4. CASE k # "EOF"
  BY <1>1, <1>2, <1>4 DEF Over
<1> QED BY <1>3, <1>4

(* A token is taken, with q open. *)
LEMMA Arrive ==
    ASSUME tok # "EOF", NEW q \in Seq(OpenKinds), TakeIn(q), next # None => Possible(q, next),
           Free(todo'), Fits(todo', q)
    PROVE  SilentNest'
<1>1. PICK k \in Upcoming(q) : tok' = k /\ open' = Lex!Taken(q, k) /\ next' = None
  BY DEF TakeIn
<1> DEFINE p == Lex!Taken(q, k)
<1>2. p \in Seq(OpenKinds) /\ Over(k, p, q)
  BY UpcomingStands
<1> HIDE DEF p
<1>3. Nest(todo', k, p, None)
  BY <1>2, FreeNests
<1> QED BY <1>1, <1>3 DEF SilentNest, p

(* No token is taken. *)
LEMMA Stay ==
    ASSUME SilentNest, UNCHANGED <<tok, open, next>>, Free(todo'),
           NEW o \in Seq(OpenKinds), Over(tok, open, o), Fits(todo', o)
    PROVE  SilentNest'
<1>1. open \in Seq(OpenKinds) /\ (next # None => Possible(open, next) /\ tok \in Peeked)
  BY DEF SilentNest, Nest
<1>2. Nest(todo', tok, open, next)
  BY <1>1, FreeNests
<1> QED BY <1>2 DEF SilentNest

(* What stands on the stack where no token was promised to it. *)
LEMMA Inside ==
    ASSUME SilentNest, IsStack(todo), todo # <<>>, Head(todo) \notin {"advance", "LBRACE", "end_element"}
    PROVE  /\ open \in Seq(OpenKinds) /\ IsStack(Tail(todo))
           /\ \E o \in Seq(OpenKinds) :
                /\ Over(tok, open, o) /\ Head(todo) \in Words /\ Suits(Head(todo), Top(o))
                /\ Follows(Head(todo), First(Tail(todo)))
                /\ Head(todo) \notin Closers => Fits(Tail(todo), o)
                /\ Head(todo) \in Closers => Len(o) >= 1 /\ Fits(Tail(todo), Front(o))
<1>1. First(todo) = Head(todo) /\ todo[1] = Head(todo) /\ IsStack(Tail(todo))
  BY TailIs DEF First
<1>2. PICK o \in Seq(OpenKinds) : Over(tok, open, o) /\ Fits(todo, o)
  BY <1>1 DEF SilentNest, Nest, Ahead
<1>3. /\ todo[1] \in Words /\ Suits(todo[1], Top(o)) /\ Follows(todo[1], First(Tail(todo)))
      /\ todo[1] \notin Closers => Fits(Tail(todo), o)
      /\ todo[1] \in Closers => Len(o) >= 1 /\ Fits(Tail(todo), Front(o))
  BY <1>2, FitsPop
<1> QED BY <1>1, <1>2, <1>3 DEF SilentNest, Nest

-----------------------------------------------------------------------------
(* Steps of code.                                                            *)

(* What stands on the stack does so in code, of which o is open. *)
InCode ==
    /\ todo # <<>> /\ IsStack(Tail(todo)) /\ Loose(Tail(todo))
    /\ \E o \in Seq(OpenKinds) : Over(tok, open, o) /\ Top(o) \in CodeKinds /\ Fits(Tail(todo), o)

LEMMA ListedIsCode ==
    ASSUME NEW x \in Listed
    PROVE  x \in Code
BY DEF Listed, Code

LEMMA LooseBehind ==
    ASSUME NEW x \in Code \cup Saves \cup {"more", "ctrl_returns", "string"}, NEW t, Follows(x, First(t))
    PROVE  Loose(t)
<1>1. CASE x = "more"
  <2>1. First(t) \in Code
    BY <1>1, ListedIsCode DEF Follows
  <2> QED BY <2>1, CodeIs DEF Loose
<1>2. CASE x # "more"
  <2>1. x \notin EndsElement /\ x \notin {"unit", "advance", "children", "strays"}
    <3>1. CASE x \in Code \cup Saves
      BY <3>1, CodeIs
    <3>2. CASE x \in {"ctrl_returns", "string"}
      BY <3>2 DEF EndsElement
    <3> QED BY <1>2, <3>1, <3>2
  <2> QED BY <2>1 DEF Follows, Loose, Heads
<1> QED BY <1>1, <1>2

LEMMA AtCode ==
    ASSUME StackInv, SilentNest, NEW x \in Code \cup {"more"}, At(x)
    PROVE  InCode
<1>1. IsStack(todo) /\ todo # <<>> /\ Head(todo) = x
  BY DEF StackInv, At
<1>2. x \in CodeWords /\ x \notin Closers /\ x \notin {"advance", "LBRACE", "end_element"}
  <2>1. CASE x \in Code
    BY <2>1, CodeIs DEF CodeWords, Heads
  <2>2. CASE x = "more"
    BY <2>2, ClosesIs DEF CodeWords, Closers, CtrlWords
  <2> QED BY <2>1, <2>2
<1>3. PICK o \in Seq(OpenKinds) :
        /\ Over(tok, open, o) /\ Suits(x, Top(o)) /\ Follows(x, First(Tail(todo)))
        /\ Fits(Tail(todo), o)
  BY <1>1, <1>2, Inside
<1>4. Loose(Tail(todo))
  BY <1>3, LooseBehind
<1>5. Top(o) \in CodeKinds
  BY <1>2, <1>3 DEF Suits
<1>6. IsStack(Tail(todo))
  BY <1>1, TailIs
<1> QED BY <1>1, <1>3, <1>4, <1>5, <1>6 DEF InCode

Still(w) == Do(w) /\ UNCHANGED <<tok, open, next>>
Moved(w) == Do(w) /\ Take

LEMMA StepsAre ==
    ASSUME NEW w
    PROVE  /\ Go(w) => Still(w)
           /\ \A c : GoIn(c, w) => Still(w)
           /\ Mark(w) => Still(w)
           /\ Forget(w) => Still(w)
           /\ Eat(w) => Moved(w)
           /\ EatReporting(w) => Moved(w)
           /\ \A c : EatIn(c, w) => Moved(w)
BY DEF Go, GoIn, Mark, Forget, Eat, EatReporting, EatIn, Still, Moved, input

LEMMA NextIs ==
    ASSUME SilentNest
    PROVE  open \in Seq(OpenKinds) /\ (next # None => Possible(open, next) /\ tok \in Peeked)
BY DEF SilentNest, Nest

(* Words are pushed where o is open. *)
LEMMA StillNests ==
    ASSUME SilentNest, IsStack(Tail(todo)), Loose(Tail(todo)),
           NEW o \in Seq(OpenKinds), Over(tok, open, o), NEW p, Fits(Tail(todo), p),
           NEW w, Light(w), Grows(w, p, o), Still(w)
    PROVE  SilentNest'
<1>1. todo' = w \o Tail(todo) /\ UNCHANGED <<tok, open, next>>
  BY DEF Still, Do
<1> DEFINE t == Tail(todo)
<1> HIDE DEF t
<1>2. Fits(w \o t, o) /\ Loose(w \o t)
  BY LightIsLoose DEF Grows, t
<1>3. Fits(todo', o) /\ Free(todo')
  BY <1>1, <1>2, LooseIsFree DEF t
<1> QED BY <1>1, <1>3, Stay

LEMMA MovedNests ==
    ASSUME SilentNest, IsStack(Tail(todo)), Loose(Tail(todo)), tok # "EOF",
           NEW p, Fits(Tail(todo), p), NEW w, Light(w), Grows(w, p, open), Moved(w)
    PROVE  SilentNest'
<1>1. todo' = w \o Tail(todo) /\ TakeIn(open)
  BY DEF Moved, Do, Take
<1> DEFINE t == Tail(todo)
<1> HIDE DEF t
<1>2. Fits(w \o t, open) /\ Loose(w \o t)
  BY LightIsLoose DEF Grows, t
<1>3. Fits(todo', open) /\ Free(todo')
  BY <1>1, <1>2, LooseIsFree DEF t
<1> QED BY <1>1, <1>3, NextIs, Arrive

LEMMA InertIs ==
    ASSUME Inert(tok), NEW o \in Seq(OpenKinds), Over(tok, open, o), Top(o) \in CodeKinds
    PROVE  open = o /\ tok # "EOF"
<1>1. tok # "EOF" /\ tok \notin Turning
  BY DEF Inert
<1>2. open = Lex!Taken(o, tok)
  BY <1>1 DEF Over
<1> QED BY <1>1, <1>2, TakenIs

LEMMA CodeSteps ==
    ASSUME SilentNest, InCode, NEW w, Coded(w)
    PROVE  /\ Still(w) => SilentNest'
           /\ Moved(w) /\ Inert(tok) => SilentNest'
<1>1. PICK o \in Seq(OpenKinds) : Over(tok, open, o) /\ Top(o) \in CodeKinds /\ Fits(Tail(todo), o)
  BY DEF InCode
<1>2. IsStack(Tail(todo)) /\ Loose(Tail(todo)) /\ Light(w) /\ Grows(w, o, o)
  BY <1>1 DEF InCode, Coded
<1>3. ASSUME Still(w) PROVE SilentNest'
  BY <1>1, <1>2, <1>3, StillNests
<1>4. ASSUME Moved(w), Inert(tok) PROVE SilentNest'
  <2>1. open = o /\ tok # "EOF"
    BY <1>1, <1>4, InertIs
  <2>2. Grows(w, o, open)
    BY <1>2, <2>1
  <2> QED BY <1>1, <1>2, <1>4, <2>1, <2>2, MovedNests
<1> QED BY <1>3, <1>4

(* Words that close what they are pushed into. *)
Wraps(w, k) ==
    Light(w) /\ \A o \in Seq(OpenKinds) : Top(o) \in CodeKinds => Grows(w, o, Append(o, k))

LEMMA CodeOpens ==
    ASSUME SilentNest, InCode, NEW w, Moved(w),
           (tok = "STR_START" /\ Wraps(w, "str")) \/ (tok = "LBRACE" /\ Wraps(w, "brace"))
    PROVE  SilentNest'
<1>1. PICK o \in Seq(OpenKinds) : Over(tok, open, o) /\ Top(o) \in CodeKinds /\ Fits(Tail(todo), o)
  BY DEF InCode
<1>2. tok # "EOF" /\ open = Lex!Taken(o, tok)
  BY <1>1 DEF Over
<1>3. /\ tok = "STR_START" => open = Append(o, "str")
      /\ tok = "LBRACE" => open = Append(o, "brace")
  BY <1>2, TakenIs
<1>4. Light(w) /\ Grows(w, o, open)
  BY <1>1, <1>3 DEF Wraps
<1> QED BY <1>1, <1>2, <1>4, MovedNests DEF InCode

(* A word behind which `{` is to come. *)
LEMMA BraceAhead ==
    ASSUME NEW t, IsStack(t), Loose(t), NEW o \in Seq(OpenKinds), Fits(t, Append(o, "brace"))
    PROVE  /\ Fits(<<"LBRACE">> \o t, Append(o, "brace")) /\ First(<<"LBRACE">> \o t) = "LBRACE"
<1> DEFINE p == Append(o, "brace")
           x == "LBRACE"
<1>1. p \in Seq(OpenKinds) /\ Top(p) \in CodeKinds
  <2>1. "brace" \in OpenKinds /\ "brace" \in CodeKinds
    BY DEF OpenKinds, CodeKinds
  <2> QED BY <2>1, AppendIs
<1>2. Fits(t, p)
  OBVIOUS
<1> HIDE DEF p
<1>3. x \in Words /\ x \notin Closers
  BY ClosesIs DEF Words, CodeWords, Closers, CtrlWords
<1>4. Len(p) = Len(p) + One(x, Closers) /\ Agree(p, p)
  BY <1>1, <1>3, OpenHasLen DEF One, Agree
<1>5. Suits(x, Top(p))
  BY <1>1, <1>3 DEF Suits, Closers, ElemWords, ArmsWords, TagWords, ClosingWords
<1>6. Follows(x, First(t))
  BY DEF Follows, Loose, Heads, EndsElement, CtrlWords, ArmsWords
<1>7. \A i \in 1 .. Len(t) : t[i] = "advance" => i = 1
  BY <1>2, NoneToAdvance
<1> HIDE DEF x
<1>8. Fits(<<x>> \o t, p) /\ First(<<x>> \o t) = x
  BY <1>1, <1>2, <1>3, <1>4, <1>5, <1>6, <1>7, FitsCons
<1> QED BY <1>8 DEF p, x

LEMMA BraceNests ==
    ASSUME NEW s, First(s) = "LBRACE", NEW k, NEW q \in Seq(OpenKinds), NEW n,
           n # None => Possible(q, n) /\ k \in Peeked,
           NEW o \in Seq(OpenKinds), Over(k, q, o), Fits(s, Append(o, "brace"))
    PROVE  Nest(s, k, q, n)
<1>1. Ahead(s, o)
  BY DEF Ahead
<1>2. Len(s) # 0
  BY DEF First, None
<1> QED BY <1>1, <1>2 DEF Nest

LEMMA CodeBraces ==
    ASSUME SilentNest, InCode, NEW w, Wraps(w, "brace")
    PROVE  /\ Still(<<"LBRACE">> \o w) => SilentNest'
           /\ Moved(<<"LBRACE">> \o w) /\ Inert(tok) => SilentNest'
<1>1. PICK o \in Seq(OpenKinds) : Over(tok, open, o) /\ Top(o) \in CodeKinds /\ Fits(Tail(todo), o)
  BY DEF InCode
<1> DEFINE t == Tail(todo)
           v == w \o t
           s == <<"LBRACE">> \o v
           p == Append(o, "brace")
<1>2. Light(w) /\ Grows(w, o, p) /\ IsStack(t) /\ Loose(t)
  BY <1>1 DEF Wraps, InCode
<1>3. IsStack(v) /\ Loose(v) /\ Fits(v, p)
  BY <1>1, <1>2, LightIsLoose DEF Grows
<1> HIDE DEF v
<1>4. Fits(s, p) /\ First(s) = "LBRACE"
  BY <1>3, BraceAhead
<1>5. (<<"LBRACE">> \o w) \o t = s
  <2>1. IsStack(<<"LBRACE">>) /\ IsStack(w)
    BY <1>2, TallyOne DEF Light
  <2> DEFINE u == <<"LBRACE">>
  <2> HIDE DEF u, t
  <2>2. (u \o w) \o t = u \o (w \o t)
    BY <1>2, <2>1, Regroup DEF u
  <2> QED BY <2>2 DEF v, u
<1> HIDE DEF p, s
<1>6. ASSUME Still(<<"LBRACE">> \o w) PROVE SilentNest'
  <2>1. todo' = s /\ UNCHANGED <<tok, open, next>>
    BY <1>5, <1>6 DEF Still, Do
  <2>2. Nest(s, tok, open, next)
    BY <1>1, <1>4, NextIs, BraceNests DEF p
  <2> QED BY <2>1, <2>2 DEF SilentNest
<1>7. ASSUME Moved(<<"LBRACE">> \o w), Inert(tok) PROVE SilentNest'
  <2>1. open = o /\ tok # "EOF"
    BY <1>1, <1>7, InertIs
  <2>2. todo' = s /\ TakeIn(o)
    BY <1>5, <1>7, <2>1 DEF Moved, Do, Take
  <2>3. Possible(o, next) \/ next = None
    BY <2>1, NextIs
  <2>4. PICK k \in Upcoming(o) : tok' = k /\ open' = Lex!Taken(o, k) /\ next' = None
    BY <2>2 DEF TakeIn
  <2>5. Lex!Taken(o, k) \in Seq(OpenKinds) /\ Over(k, Lex!Taken(o, k), o)
    BY <2>1, <2>3, <2>4, UpcomingStands
  <2>6. Nest(s, k, Lex!Taken(o, k), None)
    BY <1>4, <2>5, BraceNests DEF p
  <2> QED BY <2>2, <2>4, <2>6 DEF SilentNest
<1> QED BY <1>6, <1>7 

(* A step that reports. *)
LEMMA Speaks ==
    ASSUME HistInv, NEW w
    PROVE  /\ Unexpected(w) => Nests
           /\ Report(w) => Nests
           /\ EatReporting(w) => Nests
           /\ TooDeep => Nests
<1>1. (Unexpected(w) \/ Report(w) \/ EatReporting(w)) => reported'
  BY DEF Unexpected, Report, EatReporting
<1>2. ASSUME TooDeep PROVE reported'
  <2>1. reported' = (reported \/ ~ cx.depth_reported)
    BY <1>2 DEF TooDeep
  <2>2. reported \/ ~ cx.depth_reported
    BY DEF HistInv, SilentInv
  <2> QED BY <2>1, <2>2
<1> QED BY <1>1, <1>2 DEF Nests

LEMMA CodeGoes ==
    ASSUME HistInv, SilentNest, InCode, NEW w, Coded(w)
    PROVE  /\ Go(w) => Nests
           /\ \A c : GoIn(c, w) => Nests
           /\ Mark(w) => Nests
           /\ Forget(w) => Nests
           /\ Eat(w) /\ Inert(tok) => Nests
           /\ \A c : EatIn(c, w) /\ Inert(tok) => Nests
           /\ \A k : Inert(k) /\ Match(k, w) => Nests
           /\ \A S : (\A k \in S : Inert(k)) /\ NameOr(S, w) => Nests
<1>1. Still(w) => SilentNest'
  BY CodeSteps
<1>2. Moved(w) /\ Inert(tok) => SilentNest'
  BY CodeSteps
<1>3. Go(<<>>) => SilentNest'
  BY NothingIsCoded, CodeSteps, StepsAre
<1>4. /\ Go(w) => Still(w)
      /\ \A c : GoIn(c, w) => Still(w)
      /\ Mark(w) => Still(w)
      /\ Forget(w) => Still(w)
      /\ Eat(w) => Moved(w)
      /\ \A c : EatIn(c, w) => Moved(w)
  BY StepsAre
<1>5. ASSUME NEW k, Inert(k), Match(k, w) PROVE SilentNest'
  BY <1>2, <1>3, <1>4, <1>5 DEF Match
<1>6. ASSUME NEW S, \A k \in S : Inert(k), NameOr(S, w) PROVE Nests
  <2>1. CASE tok \in S
    BY <1>2, <1>4, <1>6, <2>1 DEF NameOr, Nests
  <2>2. CASE tok \notin S
    BY <1>6, <2>2, Speaks DEF NameOr
  <2> QED BY <2>1, <2>2
<1> QED BY <1>1, <1>2, <1>4, <1>5, <1>6 DEF Nests

-----------------------------------------------------------------------------
(* The texts of code.                                                        *)

LEMMA Split1And3 ==
    ASSUME NEW a, NEW b, NEW c, NEW d
    PROVE  <<a, b, c, d>> = <<a>> \o <<b, c, d>>
<1> DEFINE u == <<a, b, c, d>>
           v == <<a>>
           w == <<b, c, d>>
           S == {a, b, c, d}
<1>1. u \in Seq(S) /\ v \in Seq(S) /\ w \in Seq(S)
  OBVIOUS
<1>2. IsStack(u) /\ IsStack(v) /\ IsStack(w)
  BY <1>1 DEF IsStack
<1>3. Len(u) = 4 /\ Len(v) = 1 /\ Len(w) = 3
  OBVIOUS
<1>4. /\ u[1] = v[1] /\ u[2] = w[1] /\ u[3] = w[2] /\ u[4] = w[3]
  OBVIOUS
<1> HIDE DEF u, v, w
<1>5. Len(u) = Len(v) + Len(w) /\ (\A j \in 1 .. Len(v) : u[j] = v[j])
      /\ \A j \in 1 .. Len(w) : u[Len(v) + j] = w[j]
  BY <1>3, <1>4
<1>6. u = Joined(v, w)
  BY <1>2, <1>5, ListIs
<1> QED BY <1>6 DEF Joined, u, v, w

LEMMA Split1And4 ==
    ASSUME NEW a, NEW b, NEW c, NEW d, NEW e
    PROVE  <<a, b, c, d, e>> = <<a>> \o <<b, c, d, e>>
<1> DEFINE u == <<a, b, c, d, e>>
           v == <<a>>
           w == <<b, c, d, e>>
           S == {a, b, c, d, e}
<1>1. u \in Seq(S) /\ v \in Seq(S) /\ w \in Seq(S)
  OBVIOUS
<1>2. IsStack(u) /\ IsStack(v) /\ IsStack(w)
  BY <1>1 DEF IsStack
<1>3. Len(u) = 5 /\ Len(v) = 1 /\ Len(w) = 4
  OBVIOUS
<1>4. /\ u[1] = v[1] /\ u[2] = w[1] /\ u[3] = w[2] /\ u[4] = w[3]
      /\ u[5] = w[4]
  OBVIOUS
<1> HIDE DEF u, v, w
<1>5. Len(u) = Len(v) + Len(w) /\ (\A j \in 1 .. Len(v) : u[j] = v[j])
      /\ \A j \in 1 .. Len(w) : u[Len(v) + j] = w[j]
  BY <1>3, <1>4
<1>6. u = Joined(v, w)
  BY <1>2, <1>5, ListIs
<1> QED BY <1>6 DEF Joined, u, v, w

LEMMA Split5And2 ==
    ASSUME NEW a, NEW b, NEW c, NEW d, NEW e, NEW f, NEW g
    PROVE  <<a, b, c, d, e, f, g>> = <<a, b, c, d, e>> \o <<f, g>>
<1> DEFINE u == <<a, b, c, d, e, f, g>>
           v == <<a, b, c, d, e>>
           w == <<f, g>>
           S == {a, b, c, d, e, f, g}
<1>1. u \in Seq(S) /\ v \in Seq(S) /\ w \in Seq(S)
  OBVIOUS
<1>2. IsStack(u) /\ IsStack(v) /\ IsStack(w)
  BY <1>1 DEF IsStack
<1>3. Len(u) = 7 /\ Len(v) = 5 /\ Len(w) = 2
  OBVIOUS
<1>4. /\ u[1] = v[1] /\ u[2] = v[2] /\ u[3] = v[3] /\ u[4] = v[4]
      /\ u[5] = v[5] /\ u[6] = w[1] /\ u[7] = w[2]
  OBVIOUS
<1> HIDE DEF u, v, w
<1>5. Len(u) = Len(v) + Len(w) /\ (\A j \in 1 .. Len(v) : u[j] = v[j])
      /\ \A j \in 1 .. Len(w) : u[Len(v) + j] = w[j]
  BY <1>3, <1>4
<1>6. u = Joined(v, w)
  BY <1>2, <1>5, ListIs
<1> QED BY <1>6 DEF Joined, u, v, w

LEMMA Split4And4 ==
    ASSUME NEW a, NEW b, NEW c, NEW d, NEW e, NEW f, NEW g, NEW h
    PROVE  <<a, b, c, d, e, f, g, h>> = <<a, b, c, d>> \o <<e, f, g, h>>
<1> DEFINE u == <<a, b, c, d, e, f, g, h>>
           v == <<a, b, c, d>>
           w == <<e, f, g, h>>
           S == {a, b, c, d, e, f, g, h}
<1>1. u \in Seq(S) /\ v \in Seq(S) /\ w \in Seq(S)
  OBVIOUS
<1>2. IsStack(u) /\ IsStack(v) /\ IsStack(w)
  BY <1>1 DEF IsStack
<1>3. Len(u) = 8 /\ Len(v) = 4 /\ Len(w) = 4
  OBVIOUS
<1>4. /\ u[1] = v[1] /\ u[2] = v[2] /\ u[3] = v[3] /\ u[4] = v[4]
      /\ u[5] = w[1] /\ u[6] = w[2] /\ u[7] = w[3] /\ u[8] = w[4]
  OBVIOUS
<1> HIDE DEF u, v, w
<1>5. Len(u) = Len(v) + Len(w) /\ (\A j \in 1 .. Len(v) : u[j] = v[j])
      /\ \A j \in 1 .. Len(w) : u[Len(v) + j] = w[j]
  BY <1>3, <1>4
<1>6. u = Joined(v, w)
  BY <1>2, <1>5, ListIs
<1> QED BY <1>6 DEF Joined, u, v, w

LEMMA LoopsAreCoded ==
    /\ Coded(<<"type", "skip_newlines", "more", "types">>)
    /\ Coded(<<"type", "more", "type_arg">>)
    /\ Coded(<<"expr", "skip_newlines", "more", "args">>)
    /\ Coded(<<"expr", "skip_newlines", "more", "elements">>)
    /\ Coded(<<"expr", "more", "indexes">>)
    /\ Coded(<<"expr", "COLON", "expr", "skip_newlines", "more", "entries">>)
    /\ Coded(<<"skip_newlines", "more", "params">>)
    /\ Coded(<<"COLON", "type", "default", "attrs", "skip_newlines", "more", "params">>)
    /\ Coded(<<"skip_newlines", "more", "variants">>)
<1>1. /\ <<"type", "skip_newlines">> \in Seq(Code \cup Saves)
      /\ <<"type">> \in Seq(Code \cup Saves)
      /\ <<"expr", "skip_newlines">> \in Seq(Code \cup Saves)
      /\ <<"expr">> \in Seq(Code \cup Saves)
      /\ <<"expr", "COLON", "expr", "skip_newlines">> \in Seq(Code \cup Saves)
      /\ <<"skip_newlines">> \in Seq(Code \cup Saves)
      /\ <<"COLON", "type", "default", "attrs", "skip_newlines">> \in Seq(Code \cup Saves)
  BY DEF Code
<1>2. \A x \in Listed : Coded(<<"more", x>>)
  BY ListIsCoded
<1>3. /\ Coded(<<"type", "skip_newlines">>)
      /\ Coded(<<"type">>)
      /\ Coded(<<"expr", "skip_newlines">>)
      /\ Coded(<<"expr">>)
      /\ Coded(<<"expr", "COLON", "expr", "skip_newlines">>)
      /\ Coded(<<"skip_newlines">>)
      /\ Coded(<<"COLON", "type", "default", "attrs", "skip_newlines">>)
  BY <1>1, CodeList
<1>4. Coded(<<"type", "skip_newlines", "more", "types">>)
  <2>1. <<"type", "skip_newlines", "more", "types">> = <<"type", "skip_newlines">> \o <<"more", "types">>
    BY Split2And2
  <2>2. Coded(<<"more", "types">>)
    BY <1>2 DEF Listed
  <2>3. Coded(<<"type", "skip_newlines">> \o <<"more", "types">>)
    BY <1>3, <2>2, CodedChain
  <2> QED BY <2>1, <2>3
<1>5. Coded(<<"type", "more", "type_arg">>)
  <2>1. <<"type", "more", "type_arg">> = <<"type">> \o <<"more", "type_arg">>
    BY Split1And2
  <2>2. Coded(<<"more", "type_arg">>)
    BY <1>2 DEF Listed
  <2>3. Coded(<<"type">> \o <<"more", "type_arg">>)
    BY <1>3, <2>2, CodedChain
  <2> QED BY <2>1, <2>3
<1>6. Coded(<<"expr", "skip_newlines", "more", "args">>)
  <2>1. <<"expr", "skip_newlines", "more", "args">> = <<"expr", "skip_newlines">> \o <<"more", "args">>
    BY Split2And2
  <2>2. Coded(<<"more", "args">>)
    BY <1>2 DEF Listed
  <2>3. Coded(<<"expr", "skip_newlines">> \o <<"more", "args">>)
    BY <1>3, <2>2, CodedChain
  <2> QED BY <2>1, <2>3
<1>7. Coded(<<"expr", "skip_newlines", "more", "elements">>)
  <2>1. <<"expr", "skip_newlines", "more", "elements">> = <<"expr", "skip_newlines">> \o <<"more", "elements">>
    BY Split2And2
  <2>2. Coded(<<"more", "elements">>)
    BY <1>2 DEF Listed
  <2>3. Coded(<<"expr", "skip_newlines">> \o <<"more", "elements">>)
    BY <1>3, <2>2, CodedChain
  <2> QED BY <2>1, <2>3
<1>8. Coded(<<"expr", "more", "indexes">>)
  <2>1. <<"expr", "more", "indexes">> = <<"expr">> \o <<"more", "indexes">>
    BY Split1And2
  <2>2. Coded(<<"more", "indexes">>)
    BY <1>2 DEF Listed
  <2>3. Coded(<<"expr">> \o <<"more", "indexes">>)
    BY <1>3, <2>2, CodedChain
  <2> QED BY <2>1, <2>3
<1>9. Coded(<<"expr", "COLON", "expr", "skip_newlines", "more", "entries">>)
  <2>1. <<"expr", "COLON", "expr", "skip_newlines", "more", "entries">>
          = <<"expr", "COLON", "expr", "skip_newlines">> \o <<"more", "entries">>
    BY Split4And2
  <2>2. Coded(<<"more", "entries">>)
    BY <1>2 DEF Listed
  <2>3. Coded(<<"expr", "COLON", "expr", "skip_newlines">> \o <<"more", "entries">>)
    BY <1>3, <2>2, CodedChain
  <2> QED BY <2>1, <2>3
<1>10. Coded(<<"skip_newlines", "more", "params">>)
  <2>1. <<"skip_newlines", "more", "params">> = <<"skip_newlines">> \o <<"more", "params">>
    BY Split1And2
  <2>2. Coded(<<"more", "params">>)
    BY <1>2 DEF Listed
  <2>3. Coded(<<"skip_newlines">> \o <<"more", "params">>)
    BY <1>3, <2>2, CodedChain
  <2> QED BY <2>1, <2>3
<1>11. Coded(<<"COLON", "type", "default", "attrs", "skip_newlines", "more", "params">>)
  <2>1. <<"COLON", "type", "default", "attrs", "skip_newlines", "more", "params">>
          = <<"COLON", "type", "default", "attrs", "skip_newlines">> \o <<"more", "params">>
    BY Split5And2
  <2>2. Coded(<<"more", "params">>)
    BY <1>2 DEF Listed
  <2>3. Coded(<<"COLON", "type", "default", "attrs", "skip_newlines">> \o <<"more", "params">>)
    BY <1>3, <2>2, CodedChain
  <2> QED BY <2>1, <2>3
<1>12. Coded(<<"skip_newlines", "more", "variants">>)
  <2>1. <<"skip_newlines", "more", "variants">> = <<"skip_newlines">> \o <<"more", "variants">>
    BY Split1And2
  <2>2. Coded(<<"more", "variants">>)
    BY <1>2 DEF Listed
  <2>3. Coded(<<"skip_newlines">> \o <<"more", "variants">>)
    BY <1>3, <2>2, CodedChain
  <2> QED BY <2>1, <2>3
<1> QED BY <1>4, <1>5, <1>6, <1>7, <1>8, <1>9, <1>10, <1>11, <1>12

LEMMA LevelsAreCode ==
    /\ parse_cast \in Seq(Code \cup Saves) /\ parse_mul \in Seq(Code \cup Saves)
    /\ parse_add \in Seq(Code \cup Saves) /\ parse_cmp \in Seq(Code \cup Saves)
    /\ parse_and \in Seq(Code \cup Saves) /\ parse_or \in Seq(Code \cup Saves)
    /\ parse_coalesce \in Seq(Code \cup Saves)
<1> DEFINE S == Code \cup Saves
<1>1. /\ parse_cast \in Seq(S) /\ parse_and \in Seq(S)
      /\ <<"mul">> \in Seq(S) /\ <<"add">> \in Seq(S) /\ <<"cmp">> \in Seq(S)
      /\ <<"or">> \in Seq(S) /\ <<"coalesce">> \in Seq(S)
  BY DEF Code, parse_cast, parse_and
<1> HIDE DEF S
<1>2. \A v, w \in Seq(S) : v \o w \in Seq(S)
  BY ConcatProperties
<1>3. parse_mul \in Seq(S)
  BY <1>1, <1>2 DEF parse_mul
<1>4. parse_add \in Seq(S)
  BY <1>1, <1>2, <1>3 DEF parse_add
<1>5. parse_cmp \in Seq(S)
  BY <1>1, <1>2, <1>4 DEF parse_cmp
<1>6. parse_or \in Seq(S)
  BY <1>1, <1>2 DEF parse_or
<1>7. parse_coalesce \in Seq(S)
  BY <1>1, <1>2, <1>6 DEF parse_coalesce
<1> QED BY <1>1, <1>3, <1>4, <1>5, <1>6, <1>7 DEF S

LEMMA LevelsAreCoded ==
    /\ Coded(parse_cast) /\ Coded(parse_mul) /\ Coded(parse_add) /\ Coded(parse_cmp)
    /\ Coded(parse_and) /\ Coded(parse_or) /\ Coded(parse_coalesce)
BY LevelsAreCode, CodeList

LEMMA SignatureIsCode == Signature \in Seq(Code \cup Saves) /\ Coded(Signature)
<1>1. Signature \in Seq(Code \cup Saves)
  BY DEF Signature, Code
<1> QED BY <1>1, CodeList

(* Words of code up to a `}`, and what follows it. *)
LEMMA WrapsAround ==
    ASSUME NEW u \in Seq(Code \cup Saves), NEW v, Coded(v)
    PROVE  Wraps(u \o (<<"RBRACE">> \o v), "brace")
<1> DEFINE x == "RBRACE"
           k == "brace"
<1>1. x \in {"RBRACE", "INTERP_END", "CTRL_END"} /\ k \in {"brace", "interp", "ctrl"} /\ <<x, k>> \in Pairs
  BY DEF Pairs
<1> HIDE DEF x, k
<1>2. Light(v)
  BY DEF Coded
<1>3. Light(u \o (<<x>> \o v))
  <2>1. Light(<<x>>)
    <3>1. <<>> \in Seq(OpenKinds)
      OBVIOUS
    <3> QED BY <1>1, <3>1, GrowsCloser
  <2> QED BY <1>2, <2>1, CodeList, LightChain
<1>4. ASSUME NEW o \in Seq(OpenKinds), Top(o) \in CodeKinds
      PROVE  Grows(u \o (<<x>> \o v), o, Append(o, k))
  <2>1. Grows(v, o, o)
    BY <1>4 DEF Coded
  <2> QED BY <1>1, <1>2, <2>1, GrowsAround
<1>5. Wraps(u \o (<<x>> \o v), k)
  BY <1>3, <1>4 DEF Wraps
<1> QED BY <1>5 DEF x, k

LEMMA BracesWrap ==
    /\ Wraps(<<"type", "COLON", "type", "RBRACE">>, "brace")
    /\ Wraps(<<"skip_newlines", "entries", "RBRACE", "postfix">>, "brace")
    /\ Wraps(<<"skip_newlines", "field_inits", "skip_newlines", "RBRACE", "postfix">>, "brace")
    /\ Wraps(<<"skip_newlines", "stmts", "RBRACE", "leave">>, "brace")
    /\ Wraps(<<"skip_newlines", "match_arms", "RBRACE">>, "brace")
    /\ Wraps(<<"skip_newlines", "variants", "skip_newlines", "RBRACE">>, "brace")
    /\ Wraps(<<"skip_newlines", "fields", "RBRACE">>, "brace")
    /\ Wraps(<<"skip_newlines", "group_items", "RBRACE">>, "brace")
<1>1. /\ <<"type", "COLON", "type">> \in Seq(Code \cup Saves)
      /\ <<"skip_newlines", "entries">> \in Seq(Code \cup Saves)
      /\ <<"skip_newlines", "field_inits", "skip_newlines">> \in Seq(Code \cup Saves)
      /\ <<"skip_newlines", "stmts">> \in Seq(Code \cup Saves)
      /\ <<"skip_newlines", "match_arms">> \in Seq(Code \cup Saves)
      /\ <<"skip_newlines", "variants", "skip_newlines">> \in Seq(Code \cup Saves)
      /\ <<"skip_newlines", "fields">> \in Seq(Code \cup Saves)
      /\ <<"skip_newlines", "group_items">> \in Seq(Code \cup Saves)
  BY DEF Code
<1>2. Coded(<<"postfix">>) /\ Coded(<<"leave">>) /\ Coded(<<>>)
  <2>1. <<"postfix">> \in Seq(Code \cup Saves) /\ <<"leave">> \in Seq(Code \cup Saves)
    BY DEF Code
  <2> QED BY <2>1, CodeList, NothingIsCoded
<1>3. <<"RBRACE">> = <<"RBRACE">> \o <<>>
  BY JustOne
<1>4. Wraps(<<"type", "COLON", "type", "RBRACE">>, "brace")
  <2>1. <<"type", "COLON", "type", "RBRACE">> = <<"type", "COLON", "type">> \o <<"RBRACE">>
    BY Split3And1
  <2>2. <<"RBRACE">> = <<"RBRACE">> \o <<>>
    BY <1>3
  <2>3. Wraps(<<"type", "COLON", "type">> \o (<<"RBRACE">> \o <<>>), "brace")
    BY <1>1, <1>2, WrapsAround
  <2> QED BY <2>1, <2>2, <2>3
<1>5. Wraps(<<"skip_newlines", "entries", "RBRACE", "postfix">>, "brace")
  <2>1. <<"skip_newlines", "entries", "RBRACE", "postfix">>
          = <<"skip_newlines", "entries">> \o <<"RBRACE", "postfix">>
    BY Split2And2
  <2>2. <<"RBRACE", "postfix">> = <<"RBRACE">> \o <<"postfix">>
    BY Split1And1
  <2>3. Wraps(<<"skip_newlines", "entries">> \o (<<"RBRACE">> \o <<"postfix">>), "brace")
    BY <1>1, <1>2, WrapsAround
  <2> QED BY <2>1, <2>2, <2>3
<1>6. Wraps(<<"skip_newlines", "field_inits", "skip_newlines", "RBRACE", "postfix">>, "brace")
  <2>1. <<"skip_newlines", "field_inits", "skip_newlines", "RBRACE", "postfix">>
          = <<"skip_newlines", "field_inits", "skip_newlines">> \o <<"RBRACE", "postfix">>
    BY Split3And2
  <2>2. <<"RBRACE", "postfix">> = <<"RBRACE">> \o <<"postfix">>
    BY Split1And1
  <2>3. Wraps(<<"skip_newlines", "field_inits", "skip_newlines">> \o (<<"RBRACE">> \o <<"postfix">>), "brace")
    BY <1>1, <1>2, WrapsAround
  <2> QED BY <2>1, <2>2, <2>3
<1>7. Wraps(<<"skip_newlines", "stmts", "RBRACE", "leave">>, "brace")
  <2>1. <<"skip_newlines", "stmts", "RBRACE", "leave">> = <<"skip_newlines", "stmts">> \o <<"RBRACE", "leave">>
    BY Split2And2
  <2>2. <<"RBRACE", "leave">> = <<"RBRACE">> \o <<"leave">>
    BY Split1And1
  <2>3. Wraps(<<"skip_newlines", "stmts">> \o (<<"RBRACE">> \o <<"leave">>), "brace")
    BY <1>1, <1>2, WrapsAround
  <2> QED BY <2>1, <2>2, <2>3
<1>8. Wraps(<<"skip_newlines", "match_arms", "RBRACE">>, "brace")
  <2>1. <<"skip_newlines", "match_arms", "RBRACE">> = <<"skip_newlines", "match_arms">> \o <<"RBRACE">>
    BY Split2And1
  <2>2. <<"RBRACE">> = <<"RBRACE">> \o <<>>
    BY <1>3
  <2>3. Wraps(<<"skip_newlines", "match_arms">> \o (<<"RBRACE">> \o <<>>), "brace")
    BY <1>1, <1>2, WrapsAround
  <2> QED BY <2>1, <2>2, <2>3
<1>9. Wraps(<<"skip_newlines", "variants", "skip_newlines", "RBRACE">>, "brace")
  <2>1. <<"skip_newlines", "variants", "skip_newlines", "RBRACE">>
          = <<"skip_newlines", "variants", "skip_newlines">> \o <<"RBRACE">>
    BY Split3And1
  <2>2. <<"RBRACE">> = <<"RBRACE">> \o <<>>
    BY <1>3
  <2>3. Wraps(<<"skip_newlines", "variants", "skip_newlines">> \o (<<"RBRACE">> \o <<>>), "brace")
    BY <1>1, <1>2, WrapsAround
  <2> QED BY <2>1, <2>2, <2>3
<1>10. Wraps(<<"skip_newlines", "fields", "RBRACE">>, "brace")
  <2>1. <<"skip_newlines", "fields", "RBRACE">> = <<"skip_newlines", "fields">> \o <<"RBRACE">>
    BY Split2And1
  <2>2. <<"RBRACE">> = <<"RBRACE">> \o <<>>
    BY <1>3
  <2>3. Wraps(<<"skip_newlines", "fields">> \o (<<"RBRACE">> \o <<>>), "brace")
    BY <1>1, <1>2, WrapsAround
  <2> QED BY <2>1, <2>2, <2>3
<1>11. Wraps(<<"skip_newlines", "group_items", "RBRACE">>, "brace")
  <2>1. <<"skip_newlines", "group_items", "RBRACE">> = <<"skip_newlines", "group_items">> \o <<"RBRACE">>
    BY Split2And1
  <2>2. <<"RBRACE">> = <<"RBRACE">> \o <<>>
    BY <1>3
  <2>3. Wraps(<<"skip_newlines", "group_items">> \o (<<"RBRACE">> \o <<>>), "brace")
    BY <1>1, <1>2, WrapsAround
  <2> QED BY <2>1, <2>2, <2>3
<1> QED BY <1>4, <1>5, <1>6, <1>7, <1>8, <1>9, <1>10, <1>11

LEMMA FieldsWrap == Wraps(Fields, "brace")
BY BracesWrap DEF Fields

LEMMA StringWraps ==
    /\ \A o \in Seq(OpenKinds) : Grows(<<"string">>, o, Append(o, "str"))
    /\ Light(<<"string">>) /\ Wraps(<<"string">>, "str") /\ Wraps(<<"string", "postfix">>, "str")
<1> DEFINE x == "string"
           k == "str"
           v == <<"postfix">>
<1>1. <<x, k>> \in Pairs
  BY DEF Pairs
<1>2. Coded(v)
  <2>1. v \in Seq(Code \cup Saves)
    BY DEF Code
  <2> QED BY <2>1, CodeList
<1>3. <<x, "postfix">> = <<x>> \o v
  BY Split1And1
<1> HIDE DEF x, k, v
<1>4. \A o \in Seq(OpenKinds) : Grows(<<x>>, o, Append(o, k)) /\ Light(<<x>>) /\ IsStack(<<x>>)
  BY <1>1, GrowsCloser
<1>5. Light(<<x>>) /\ IsStack(<<x>>)
  <2>1. <<>> \in Seq(OpenKinds)
    OBVIOUS
  <2> QED BY <1>4, <2>1
<1>6. Wraps(<<x>>, k)
  BY <1>4, <1>5 DEF Wraps
<1>7. ASSUME NEW o \in Seq(OpenKinds), Top(o) \in CodeKinds
      PROVE  Grows(<<x>> \o v, o, Append(o, k))
  <2>1. Grows(v, o, o) /\ Light(v) /\ IsStack(<<x>>) /\ Grows(<<x>>, o, Append(o, k))
    BY <1>2, <1>4, <1>5, <1>7 DEF Coded
  <2> QED BY <2>1, GrowsChain
<1>8. Light(<<x>> \o v)
  BY <1>2, <1>5, LightChain DEF Coded
<1>9. Wraps(<<x, "postfix">>, k)
  BY <1>3, <1>7, <1>8 DEF Wraps
<1> QED BY <1>4, <1>5, <1>6, <1>9 DEF x, k

-----------------------------------------------------------------------------
(* Looking ahead.                                                            *)

LEMMA AdvanceFits ==
    ASSUME NEW t, IsStack(t), NEW o \in Seq(OpenKinds), Fits(t, o),
           First(t) \notin {"LBRACE", "element_entering", "element_nested", "strays", "closing_tag",
                            "end_element", None},
           \A i \in 1 .. Len(t) : t[i] = "advance" => i = 1
    PROVE  LET s == <<"advance">> \o t
           IN  /\ Fits(s, o) /\ IsStack(s) /\ First(s) = "advance" /\ After(s, 1) = First(t)
               /\ Len(s) = 1 + Len(t) /\ \A i \in 1 .. Len(t) : s[1 + i] = t[i]
<1> DEFINE x == "advance"
           s == <<"advance">> \o t
<1>1. x \in Words /\ x \notin Closers /\ x \notin EndsElement \cup CtrlWords \cup ArmsWords \cup {"more", "unit"}
  BY ClosesIs DEF Words, Closers, CtrlWords, ArmsWords, EndsElement
<1>2. x \notin CodeWords /\ x \notin ElemWords /\ x \notin TagWords /\ x \notin ClosingWords
  BY DEF CodeWords, Code, ElemWords, ArmsWords, TagWords, ClosingWords
<1>3. Len(o) = Len(o) + One(x, Closers) /\ Agree(o, o)
  BY <1>1, OpenHasLen DEF One, Agree
<1>4. Suits(x, Top(o))
  BY <1>1, <1>2 DEF Suits, Closers
<1>5. Follows(x, First(t))
  BY <1>1 DEF Follows
<1> HIDE DEF x
<1>6. /\ Fits(<<x>> \o t, o) /\ IsStack(<<x>> \o t) /\ First(<<x>> \o t) = x
      /\ Len(<<x>> \o t) = 1 + Len(t)
      /\ \A i \in 1 .. Len(t) : (<<x>> \o t)[1 + i] = t[i]
  BY <1>1, <1>3, <1>4, <1>5, FitsCons
<1>7. /\ Fits(s, o) /\ IsStack(s) /\ First(s) = "advance" /\ Len(s) = 1 + Len(t)
      /\ \A i \in 1 .. Len(t) : s[1 + i] = t[i]
  BY <1>6 DEF x
<1>8. Len(t) \in Nat
  BY StackHasLen
<1> HIDE DEF s
<1>9. After(s, 1) = First(t)
  <2>1. CASE Len(t) = 0
    BY <1>7, <1>8, <2>1 DEF After, First
  <2>2. CASE Len(t) # 0
    <3>1. 1 \in 1 .. Len(t) /\ 1 < Len(s)
      BY <1>7, <1>8, <2>2
    <3> QED BY <1>7, <2>2, <3>1 DEF After, First
  <2> QED BY <2>1, <2>2
<1> QED BY <1>7, <1>9 DEF s

LEMMA LooseAdvances ==
    ASSUME NEW t, IsStack(t), Loose(t), NEW o \in Seq(OpenKinds), Fits(t, o)
    PROVE  /\ Fits(<<"advance">> \o t, o) /\ First(<<"advance">> \o t) = "advance"
           /\ After(<<"advance">> \o t, 1) # "advance"
           /\ Fits(<<"advance">> \o (<<"advance">> \o t), o)
           /\ First(<<"advance">> \o (<<"advance">> \o t)) = "advance"
<1> DEFINE s == <<"advance">> \o t
<1>1. First(t) \notin {"LBRACE", "element_entering", "element_nested", "strays", "closing_tag", "end_element",
                     None, "advance"}
  BY DEF Loose, Heads
<1>2. \A i \in 1 .. Len(t) : t[i] # "advance"
  BY NoneToAdvance
<1>3. /\ Fits(s, o) /\ IsStack(s) /\ First(s) = "advance" /\ After(s, 1) = First(t)
      /\ Len(s) = 1 + Len(t) /\ \A i \in 1 .. Len(t) : s[1 + i] = t[i]
  BY <1>1, <1>2, AdvanceFits
<1>4. Len(t) \in Nat
  BY StackHasLen
<1> HIDE DEF s
<1>5. \A i \in 1 .. Len(s) : s[i] = "advance" => i = 1
  <2> SUFFICES ASSUME NEW i \in 1 .. Len(s), s[i] = "advance", i # 1 PROVE FALSE
    OBVIOUS
  <2>1. i - 1 \in 1 .. Len(t) /\ 1 + (i - 1) = i
    BY <1>3, <1>4
  <2>2. s[1 + (i - 1)] = t[i - 1]
    BY <1>3, <2>1
  <2> QED BY <1>2, <2>1, <2>2
<1>6. /\ First(s) \notin {"LBRACE", "element_entering", "element_nested", "strays", "closing_tag", "end_element", None}
  BY <1>3 DEF None
<1>7. Fits(<<"advance">> \o s, o) /\ First(<<"advance">> \o s) = "advance"
  BY <1>3, <1>5, <1>6, AdvanceFits
<1> QED BY <1>1, <1>3, <1>7 DEF s

(* The stack fits before and after a look ahead, with its tokens promised. *)
LEMMA Looks ==
    ASSUME SilentNest, tok \in Peeked, NEW k \in Upcoming(open), next' = k, UNCHANGED <<tok, open>>
    PROVE  /\ tok # "EOF" /\ open \in Seq(OpenKinds) /\ Possible(open, k)
           /\ First(todo') = "advance" /\ Fits(todo', open) /\ (After(todo', 1) = "advance" => k \in Simple)
                => SilentNest'
           /\ \A o \in Seq(OpenKinds) : Free(todo') /\ Over(tok, open, o) /\ Fits(todo', o) => SilentNest'
<1>1. tok # "EOF"
  BY DEF Peeked, Ident
<1>2. open \in Seq(OpenKinds) /\ Possible(open, k)
  BY <1>1, NextIs, UpcomingIs
<1>3. ASSUME First(todo') = "advance", Fits(todo', open), After(todo', 1) = "advance" => k \in Simple
      PROVE  SilentNest'
  <2>1. Len(todo') # 0
    BY <1>3 DEF First, None
  <2>2. Nest(todo', tok, open, k)
    BY <1>1, <1>2, <1>3, <2>1 DEF Nest
  <2> QED BY <2>2 DEF SilentNest
<1>4. ASSUME NEW o \in Seq(OpenKinds), Free(todo'), Over(tok, open, o), Fits(todo', o)
      PROVE  SilentNest'
  <2>1. Nest(todo', tok, open, k)
    BY <1>2, <1>4, FreeNests
  <2> QED BY <2>1 DEF SilentNest
<1> QED BY <1>1, <1>2, <1>3, <1>4

LEMMA CodeLooks ==
    ASSUME SilentNest, InCode, tok \in Peeked \ {"CTRL_START"}, NEW k \in Upcoming(open), next' = k,
           UNCHANGED <<tok, open>>, NEW w, Coded(w)
    PROVE  /\ Do(w) => SilentNest'
           /\ Do(<<"advance">> \o w) => SilentNest'
           /\ Do(<<"advance">> \o (<<"advance">> \o w)) /\ k \in Simple => SilentNest'
<1> DEFINE t == Tail(todo)
           u == <<"advance">>
<1>1. PICK o \in Seq(OpenKinds) : Over(tok, open, o) /\ Top(o) \in CodeKinds /\ Fits(t, o)
  BY DEF InCode
<1>2. Inert(tok)
  BY DEF Inert, Peeked, Ident, Turning
<1>3. open = o
  BY <1>1, <1>2, InertIs
<1>4. IsStack(t) /\ Loose(t) /\ Light(w) /\ Grows(w, o, o)
  BY <1>1 DEF InCode, Coded
<1>5. Fits(w \o t, o) /\ IsStack(w \o t) /\ Loose(w \o t) /\ IsStack(w)
  BY <1>1, <1>4, LightIsLoose DEF Grows, Light
<1>6. /\ Fits(u \o (w \o t), o) /\ First(u \o (w \o t)) = "advance"
      /\ After(u \o (w \o t), 1) # "advance"
      /\ Fits(u \o (u \o (w \o t)), o) /\ First(u \o (u \o (w \o t))) = "advance"
  BY <1>5, LooseAdvances
<1>7. IsStack(u)
  BY TallyOne
<1> HIDE DEF u, t
<1>8. (u \o w) \o t = u \o (w \o t) /\ IsStack(u \o w)
  <2>1. IsStack(u \o w)
    BY <1>5, <1>7, ConcatIs
  <2>2. IsStack(u) /\ IsStack(w) /\ IsStack(t)
    BY <1>4, <1>5, <1>7
  <2> QED BY <2>1, <2>2, Regroup
<1>9. (u \o (u \o w)) \o t = u \o (u \o (w \o t))
  <2>1. (u \o (u \o w)) \o t = u \o ((u \o w) \o t)
    <3>1. IsStack(u) /\ IsStack(u \o w) /\ IsStack(t)
      BY <1>4, <1>7, <1>8
    <3> QED BY <3>1, Regroup
  <2> QED BY <1>8, <2>1
<1>10. ASSUME Do(w) PROVE SilentNest'
  <2>1. todo' = w \o t
    BY <1>10 DEF Do, t
  <2>2. Free(todo') /\ Fits(todo', o)
    BY <1>5, <2>1, LooseIsFree
  <2> QED BY <1>1, <2>2, Looks
<1>11. ASSUME Do(u \o w) PROVE SilentNest'
  <2>1. todo' = u \o (w \o t)
    BY <1>8, <1>11 DEF Do, t
  <2> QED BY <1>3, <1>6, <2>1, Looks
<1>12. ASSUME Do(u \o (u \o w)), k \in Simple PROVE SilentNest'
  <2>1. todo' = u \o (u \o (w \o t))
    BY <1>9, <1>12 DEF Do, t
  <2> QED BY <1>3, <1>6, <1>12, <2>1, Looks
<1> QED BY <1>10, <1>11, <1>12 DEF u

-----------------------------------------------------------------------------
(* Actions that stay in code.                                                *)

LEMMA Inerts ==
    /\ \A k \in Name \cup Literal \cup MulOps \cup AddOps \cup CmpOps \cup AssignOps : Inert(k)
    /\ \A k \in {"NEWLINE", "COMMA", "DOT", "COLON", "ARROW", "FAT_ARROW", "PIPE", "BANG", "QUESTION", "AT",
                  "LPAREN", "RPAREN", "LBRACKET", "RBRACKET", "EQ", "KW_IN", "KW_FN", "KW_AS", "KW_AND", "KW_OR",
                  "KW_NOT", "KW_ELSE", "KW_SELF", "KW_TEST", "KW_WITH", "KW_PUB", "KW_TYPE", "KW_LET", "KW_VAR",
                  "KW_ROUTE", "KW_STREAM", "KW_GROUP", "KW_ENUM", "KW_IF", "KW_FOR", "KW_WHILE", "KW_MATCH",
                  "KW_RETURN", "KW_BREAK", "KW_CONTINUE", "KW_SEND", "KW_SPAWN", "KW_DEFER", "INT", "KW_TRUE",
                  "KW_FALSE"} : Inert(k)
BY DEF Inert, Turning, Name, Ident, Reserved, Literal, MulOps, AddOps, CmpOps, AssignOps

LEMMA CodeTurns ==
    ASSUME SilentNest, InCode, NEW w
    PROVE  /\ Wraps(w, "str") /\ tok = "STR_START" /\ Eat(w) => Nests
           /\ Wraps(w, "brace") /\ tok = "LBRACE" /\ Eat(w) => Nests
           /\ \A c : Wraps(w, "brace") /\ tok = "LBRACE" /\ EatIn(c, w) => Nests
<1>1. (Eat(w) => Moved(w)) /\ \A c : EatIn(c, w) => Moved(w)
  BY StepsAre
<1>2. Moved(w) /\ ((tok = "STR_START" /\ Wraps(w, "str")) \/ (tok = "LBRACE" /\ Wraps(w, "brace"))) => SilentNest'
  BY CodeOpens
<1> QED BY <1>1, <1>2 DEF Nests

LEMMA CodeBraced ==
    ASSUME SilentNest, InCode, NEW w, Wraps(w, "brace")
    PROVE  /\ Go(<<"LBRACE">> \o w) => Nests
           /\ Eat(<<"LBRACE">> \o w) /\ Inert(tok) => Nests
<1> DEFINE v == <<"LBRACE">> \o w
<1>1. (Go(v) => Still(v)) /\ (Eat(v) => Moved(v))
  BY StepsAre
<1>2. (Still(v) => SilentNest') /\ (Moved(v) /\ Inert(tok) => SilentNest')
  BY CodeBraces
<1> HIDE DEF v
<1>3. (Go(v) => Nests) /\ (Eat(v) /\ Inert(tok) => Nests)
  BY <1>1, <1>2 DEF Nests
<1> QED BY <1>3 DEF v

LEMMA ANameNests ==
    ASSUME StackInv, HistInv, SilentNest, AName
    PROVE  Nests
<1>1. InCode
  <2>1. "name" \in Code \cup {"more"} /\ "ident" \in Code \cup {"more"}
    BY DEF Code
  <2> QED BY <2>1, AtCode DEF AName
<1> QED BY <1>1, Inerts, NothingIsCoded, CodeGoes, Speaks DEF AName, Name

LEMMA ExprNests ==
    ASSUME StackInv, HistInv, SilentNest, Expr
    PROVE  Nests
<1>1. InCode
  <2>1. "expr" \in Code \cup {"more"}
    BY DEF Code
  <2> QED BY <2>1, AtCode DEF Expr
<1>4. Coded(parse_coalesce \o <<"leave">>)
  <2>1. <<"leave">> \in Seq(Code \cup Saves)
    BY DEF Code
  <2> QED BY <2>1, CodeList, LevelsAreCoded, CodedChain
<1> QED BY <1>1, <1>4, Inerts, NothingIsCoded, CodeGoes, Speaks DEF Expr, Enter

LEMMA CompareNests ==
    ASSUME StackInv, HistInv, SilentNest, Compare
    PROVE  Nests
<1>1. InCode
  <2>1. "cmp" \in Code \cup {"more"} /\ "chain" \in Code \cup {"more"}
    BY DEF Code
  <2> QED BY <2>1, AtCode DEF Compare
<1>2. /\ <<"skip_newlines">> \in Seq(Code \cup Saves)
      /\ <<"chain">> \in Seq(Code \cup Saves)
  BY DEF Code, Saves, Saved
<1>3. /\ Coded(<<"skip_newlines">>)
      /\ Coded(<<"chain">>)
  BY <1>2, CodeList
<1>4. Coded(<<"skip_newlines">> \o parse_add) /\ Coded(parse_add \o <<"chain">>)
  BY <1>3, LevelsAreCoded, CodedChain
<1>5. Coded(<<"skip_newlines">> \o parse_add \o <<"chain">>)
  BY <1>3, <1>4, CodedChain
<1> QED BY <1>1, <1>3, <1>4, <1>5, Inerts, NothingIsCoded, CodeGoes, Speaks DEF Compare

LEMMA CastNests ==
    ASSUME StackInv, HistInv, SilentNest, Cast
    PROVE  Nests
<1>1. InCode
  <2>1. "as" \in Code \cup {"more"}
    BY DEF Code
  <2> QED BY <2>1, AtCode DEF Cast
<1>2. /\ <<"type", "as">> \in Seq(Code \cup Saves)
  BY DEF Code, Saves, Saved
<1>3. /\ Coded(<<"type", "as">>)
  BY <1>2, CodeList
<1> QED BY <1>1, <1>3, Inerts, NothingIsCoded, CodeGoes, Speaks DEF Cast

LEMMA NotNests ==
    ASSUME StackInv, HistInv, SilentNest, Not
    PROVE  Nests
<1>1. InCode
  <2>1. "not" \in Code \cup {"more"}
    BY DEF Code
  <2> QED BY <2>1, AtCode DEF Not
<1>2. /\ <<"not", "not_returns">> \in Seq(Code \cup Saves)
  BY DEF Code, Saves, Saved
<1>3. /\ Coded(<<"not", "not_returns">>)
  BY <1>2, CodeList
<1> QED BY <1>1, <1>3, LevelsAreCoded, Inerts, NothingIsCoded, CodeGoes, Speaks DEF Not

LEMMA ElementsNests ==
    ASSUME StackInv, HistInv, SilentNest, Elements
    PROVE  Nests
<1>1. InCode
  <2>1. /\ "args" \in Code \cup {"more"} /\ "elements" \in Code \cup {"more"}
        /\ "indexes" \in Code \cup {"more"} /\ "entries" \in Code \cup {"more"}
    BY DEF Code
  <2> QED BY <2>1, AtCode DEF Elements
<1> QED BY <1>1, LoopsAreCoded, Inerts, NothingIsCoded, CodeGoes, Speaks DEF Elements

LEMMA FieldInitsNests ==
    ASSUME StackInv, HistInv, SilentNest, FieldInits
    PROVE  Nests
<1>1. InCode
  <2>1. "field_inits" \in Code \cup {"more"} /\ "field_end" \in Code \cup {"more"}
    BY DEF Code
  <2> QED BY <2>1, AtCode DEF FieldInits
<1>2. /\ <<"COLON", "expr", "field_end">> \in Seq(Code \cup Saves)
      /\ <<"skip_newlines", "field_inits">> \in Seq(Code \cup Saves)
  BY DEF Code, Saves, Saved
<1>3. /\ Coded(<<"COLON", "expr", "field_end">>)
      /\ Coded(<<"skip_newlines", "field_inits">>)
  BY <1>2, CodeList
<1> QED BY <1>1, <1>3, Inerts, NothingIsCoded, CodeGoes, Speaks DEF FieldInits

LEMMA LambdaNests ==
    ASSUME StackInv, HistInv, SilentNest, Lambda
    PROVE  Nests
<1>1. InCode
  <2>1. "lambda_body" \in Code \cup {"more"}
    BY DEF Code
  <2> QED BY <2>1, AtCode DEF Lambda
<1>2. /\ <<"expr">> \in Seq(Code \cup Saves)
      /\ <<"block">> \in Seq(Code \cup Saves)
  BY DEF Code, Saves, Saved
<1>3. /\ Coded(<<"expr">>)
      /\ Coded(<<"block">>)
  BY <1>2, CodeList
<1> QED BY <1>1, <1>3, Inerts, NothingIsCoded, CodeGoes, Speaks DEF Lambda

LEMMA AttrsNests ==
    ASSUME StackInv, HistInv, SilentNest, Attrs
    PROVE  Nests
<1>1. InCode
  <2>1. "attrs" \in Code \cup {"more"} /\ "attr" \in Code \cup {"more"} /\ "attr_args" \in Code \cup {"more"}
    BY DEF Code
  <2> QED BY <2>1, AtCode DEF Attrs
<1>2. /\ <<"attr">> \in Seq(Code \cup Saves)
      /\ <<"attr_args", "skip_newlines", "attrs">> \in Seq(Code \cup Saves)
      /\ <<"skip_newlines", "args", "RPAREN">> \in Seq(Code \cup Saves)
  BY DEF Code, Saves, Saved
<1>3. /\ Coded(<<"attr">>)
      /\ Coded(<<"attr_args", "skip_newlines", "attrs">>)
      /\ Coded(<<"skip_newlines", "args", "RPAREN">>)
  BY <1>2, CodeList
<1> QED BY <1>1, <1>3, Inerts, NothingIsCoded, CodeGoes, Speaks DEF Attrs, Name

LEMMA CondNests ==
    ASSUME StackInv, HistInv, SilentNest, Cond
    PROVE  Nests
<1>1. InCode
  <2>1. "cond" \in Code \cup {"more"}
    BY DEF Code
  <2> QED BY <2>1, AtCode DEF Cond
<1>2. /\ <<"expr", Saved>> \in Seq(Code \cup Saves)
  BY DEF Code, Saves, Saved
<1>3. /\ Coded(<<"expr", Saved>>)
  BY <1>2, CodeList
<1> QED BY <1>1, <1>3, Inerts, NothingIsCoded, CodeGoes, Speaks DEF Cond

LEMMA LetTypeNests ==
    ASSUME StackInv, HistInv, SilentNest, LetType
    PROVE  Nests
<1>1. InCode
  <2>1. "let_type" \in Code \cup {"more"}
    BY DEF Code
  <2> QED BY <2>1, AtCode DEF LetType
<1>2. /\ <<"type">> \in Seq(Code \cup Saves)
  BY DEF Code, Saves, Saved
<1>3. /\ Coded(<<"type">>)
  BY <1>2, CodeList
<1> QED BY <1>1, <1>3, Inerts, NothingIsCoded, CodeGoes, Speaks DEF LetType

LEMMA LoopBodyNests ==
    ASSUME StackInv, HistInv, SilentNest, LoopBody
    PROVE  Nests
<1>1. InCode
  <2>1. "loop_body" \in Code \cup {"more"} /\ "loop_end" \in Code \cup {"more"}
    BY DEF Code
  <2> QED BY <2>1, AtCode DEF LoopBody
<1>2. /\ <<"block", "loop_end">> \in Seq(Code \cup Saves)
  BY DEF Code, Saves, Saved
<1>3. /\ Coded(<<"block", "loop_end">>)
  BY <1>2, CodeList
<1> QED BY <1>1, <1>3, Inerts, NothingIsCoded, CodeGoes, Speaks DEF LoopBody

LEMMA StmtNests ==
    ASSUME StackInv, HistInv, SilentNest, Stmt
    PROVE  Nests
<1>1. InCode
  <2>1. /\ "stmt" \in Code \cup {"more"} /\ "return_value" \in Code \cup {"more"}
        /\ "send_value" \in Code \cup {"more"} /\ "assign" \in Code \cup {"more"}
    BY DEF Code
  <2> QED BY <2>1, AtCode DEF Stmt
<1>2. /\ <<"ident", "let_type", "EQ", "expr">> \in Seq(Code \cup Saves)
      /\ <<"cond", "block", "if_end">> \in Seq(Code \cup Saves)
      /\ <<"cond", "match_body">> \in Seq(Code \cup Saves)
      /\ <<"cond", "loop_body">> \in Seq(Code \cup Saves)
      /\ <<"ident", "second_name", "KW_IN", "cond", "loop_body">> \in Seq(Code \cup Saves)
      /\ <<"return_value">> \in Seq(Code \cup Saves)
      /\ <<"expr">> \in Seq(Code \cup Saves)
      /\ <<"expr", "assign">> \in Seq(Code \cup Saves)
  BY DEF Code, Saves, Saved
<1>3. /\ Coded(<<"ident", "let_type", "EQ", "expr">>)
      /\ Coded(<<"cond", "block", "if_end">>)
      /\ Coded(<<"cond", "match_body">>)
      /\ Coded(<<"cond", "loop_body">>)
      /\ Coded(<<"ident", "second_name", "KW_IN", "cond", "loop_body">>)
      /\ Coded(<<"return_value">>)
      /\ Coded(<<"expr">>)
      /\ Coded(<<"expr", "assign">>)
  BY <1>2, CodeList
<1> QED BY <1>1, <1>3, Inerts, NothingIsCoded, CodeGoes, Speaks DEF Stmt, Let, Jump

LEMMA DefaultNests ==
    ASSUME StackInv, HistInv, SilentNest, Default
    PROVE  Nests
<1>1. InCode
  <2>1. "default" \in Code \cup {"more"}
    BY DEF Code
  <2> QED BY <2>1, AtCode DEF Default
<1>2. /\ <<"expr">> \in Seq(Code \cup Saves)
  BY DEF Code, Saves, Saved
<1>3. /\ Coded(<<"expr">>)
  BY <1>2, CodeList
<1> QED BY <1>1, <1>3, Inerts, NothingIsCoded, CodeGoes, Speaks DEF Default

LEMMA FnNameNests ==
    ASSUME StackInv, HistInv, SilentNest, FnName
    PROVE  Nests
<1>1. InCode
  <2>1. "fn_name" \in Code \cup {"more"} /\ "receiver" \in Code \cup {"more"} /\ "fn_end" \in Code \cup {"more"}
    BY DEF Code
  <2> QED BY <2>1, AtCode DEF FnName
<1>2. /\ <<"receiver">> \in Seq(Code \cup Saves)
      /\ <<"name">> \in Seq(Code \cup Saves)
  BY DEF Code, Saves, Saved
<1>3. /\ Coded(<<"receiver">>)
      /\ Coded(<<"name">>)
  BY <1>2, CodeList
<1> QED BY <1>1, <1>3, Inerts, NothingIsCoded, CodeGoes, Speaks DEF FnName, Name

LEMMA HttpMethodNests ==
    ASSUME StackInv, HistInv, SilentNest, HttpMethod
    PROVE  Nests
<1>1. InCode
  <2>1. "method" \in Code \cup {"more"}
    BY DEF Code
  <2> QED BY <2>1, AtCode DEF HttpMethod
<1> QED BY <1>1, Inerts, NothingIsCoded, CodeGoes, Speaks DEF HttpMethod, Name

LEMMA StreamNests ==
    ASSUME StackInv, HistInv, SilentNest, Stream
    PROVE  Nests
<1>1. InCode
  <2>1. "stream_body" \in Code \cup {"more"} /\ "stream_end" \in Code \cup {"more"}
    BY DEF Code
  <2> QED BY <2>1, AtCode DEF Stream
<1>2. /\ <<"block", "stream_end">> \in Seq(Code \cup Saves)
  BY DEF Code, Saves, Saved
<1>3. /\ Coded(<<"block", "stream_end">>)
  BY <1>2, CodeList
<1> QED BY <1>1, <1>3, Inerts, NothingIsCoded, CodeGoes, Speaks DEF Stream

LEMMA ParamsNests ==
    ASSUME StackInv, HistInv, SilentNest, Params
    PROVE  Nests
<1>1. InCode
  <2>1. "params" \in Code \cup {"more"}
    BY DEF Code
  <2> QED BY <2>1, AtCode DEF Params
<1> QED BY <1>1, LoopsAreCoded, Inerts, NothingIsCoded, CodeGoes, Speaks DEF Params, Name

LEMMA BlockNests ==
    ASSUME StackInv, HistInv, SilentNest, Block
    PROVE  Nests
<1>1. InCode
  <2>1. "block" \in Code \cup {"more"}
    BY DEF Code
  <2> QED BY <2>1, AtCode DEF Block
<1> QED BY <1>1, BracesWrap, CodeTurns, Inerts, NothingIsCoded, CodeGoes, Speaks DEF Block

LEMMA StmtsNests ==
    ASSUME StackInv, HistInv, SilentNest, Stmts
    PROVE  Nests
<1>1. InCode
  <2>1. "stmts" \in Code \cup {"more"}
    BY DEF Code
  <2> QED BY <2>1, AtCode DEF Stmts
<1>2. /\ <<"stmt", "stmt_end", "skip_newlines", "progress_in_braces", "stmts">> \in Seq(Code \cup Saves)
  BY DEF Code, Saves, Saved
<1>3. /\ Coded(<<"stmt", "stmt_end", "skip_newlines", "progress_in_braces", "stmts">>)
  BY <1>2, CodeList
<1> QED BY <1>1, <1>3, Inerts, NothingIsCoded, CodeGoes, Speaks DEF Stmts

LEMMA DepthLeaveNests ==
    ASSUME StackInv, HistInv, SilentNest, DepthLeave
    PROVE  Nests
<1>1. InCode
  <2>1. "leave" \in Code \cup {"more"}
    BY DEF Code
  <2> QED BY <2>1, AtCode DEF DepthLeave
<1> QED BY <1>1, Inerts, NothingIsCoded, CodeGoes, Speaks DEF DepthLeave

LEMMA SkipNewlinesNests ==
    ASSUME StackInv, HistInv, SilentNest, SkipNewlines
    PROVE  Nests
<1>1. InCode
  <2>1. "skip_newlines" \in Code \cup {"more"}
    BY DEF Code
  <2> QED BY <2>1, AtCode DEF SkipNewlines
<1>2. /\ <<"skip_newlines">> \in Seq(Code \cup Saves)
  BY DEF Code, Saves, Saved
<1>3. /\ Coded(<<"skip_newlines">>)
  BY <1>2, CodeList
<1> QED BY <1>1, <1>3, Inerts, NothingIsCoded, CodeGoes, Speaks DEF SkipNewlines

LEMMA ExpectStmtEndNests ==
    ASSUME StackInv, HistInv, SilentNest, ExpectStmtEnd
    PROVE  Nests
<1>1. InCode
  <2>1. "stmt_end" \in Code \cup {"more"}
    BY DEF Code
  <2> QED BY <2>1, AtCode DEF ExpectStmtEnd
<1> QED BY <1>1, Inerts, NothingIsCoded, CodeGoes, Speaks DEF ExpectStmtEnd

LEMMA QuotedNests ==
    ASSUME StackInv, HistInv, SilentNest, Quoted
    PROVE  Nests
<1>1. InCode
  <2>1. "quoted" \in Code \cup {"more"}
    BY DEF Code
  <2> QED BY <2>1, AtCode DEF Quoted
<1> QED BY <1>1, StringWraps, CodeTurns, Inerts, NothingIsCoded, CodeGoes, Speaks DEF Quoted

LEMMA TypeRefNests ==
    ASSUME StackInv, HistInv, SilentNest, TypeRef
    PROVE  Nests
<1>1. InCode
  <2>1. /\ "type" \in Code \cup {"more"} /\ "base_type" \in Code \cup {"more"}
        /\ "types" \in Code \cup {"more"} /\ "type_args" \in Code \cup {"more"}
        /\ "type_arg" \in Code \cup {"more"} /\ "optional" \in Code \cup {"more"}
        /\ "returns" \in Code \cup {"more"} /\ "fallible" \in Code \cup {"more"}
    BY DEF Code
  <2> QED BY <2>1, AtCode DEF TypeRef
<1>2. /\ <<"base_type", "optional", "leave">> \in Seq(Code \cup Saves)
      /\ <<"type", "RBRACKET">> \in Seq(Code \cup Saves)
      /\ <<"LPAREN", "skip_newlines", "types", "RPAREN", "returns">> \in Seq(Code \cup Saves)
      /\ <<"type", "RPAREN">> \in Seq(Code \cup Saves)
      /\ <<"path", "type_args">> \in Seq(Code \cup Saves)
      /\ <<"type_args">> \in Seq(Code \cup Saves)
      /\ <<"type_arg", "RBRACKET">> \in Seq(Code \cup Saves)
      /\ <<"type", "fallible">> \in Seq(Code \cup Saves)
  BY DEF Code, Saves, Saved
<1>3. /\ Coded(<<"base_type", "optional", "leave">>)
      /\ Coded(<<"type", "RBRACKET">>)
      /\ Coded(<<"LPAREN", "skip_newlines", "types", "RPAREN", "returns">>)
      /\ Coded(<<"type", "RPAREN">>)
      /\ Coded(<<"path", "type_args">>)
      /\ Coded(<<"type_args">>)
      /\ Coded(<<"type_arg", "RBRACKET">>)
      /\ Coded(<<"type", "fallible">>)
  BY <1>2, CodeList
<1> QED BY <1>1, <1>3, BracesWrap, LoopsAreCoded, CodeTurns, Inerts, NothingIsCoded, CodeGoes,
     Speaks DEF TypeRef, Enter, Name

LEMMA PathNests ==
    ASSUME StackInv, HistInv, SilentNest, Path
    PROVE  Nests
<1>1. InCode
  <2>1. "path" \in Code \cup {"more"}
    BY DEF Code
  <2> QED BY <2>1, AtCode DEF Path
<1>2. /\ <<"path">> \in Seq(Code \cup Saves)
  BY DEF Code, Saves, Saved
<1>3. /\ Coded(<<"path">>)
  BY <1>2, CodeList
<1>4. <<"advance", "advance", "path">> = <<"advance">> \o (<<"advance">> \o <<"path">>)
  <2>1. <<"advance", "advance", "path">> = <<"advance">> \o <<"advance", "path">>
    BY Split1And2
  <2>2. <<"advance", "path">> = <<"advance">> \o <<"path">>
    BY Split1And1
  <2> QED BY <2>1, <2>2
<1>5. ASSUME tok = "DOT" PROVE Nests
  <2>1. PICK k \in Upcoming(open) :
          /\ next' = k /\ UNCHANGED <<tok, open>>
          /\ Do(IF k \in Name THEN <<"advance", "advance", "path">> ELSE <<>>)
    BY <1>5 DEF Path, Peek
  <2>2. tok \in Peeked \ {"CTRL_START"}
    BY <1>5 DEF Peeked
  <2>3. CASE k \in Name
    <3>1. Do(<<"advance">> \o (<<"advance">> \o <<"path">>)) /\ k \in Simple
      BY <1>4, <2>1, <2>3 DEF Simple
    <3> QED BY <1>1, <1>3, <2>1, <2>2, <3>1, CodeLooks DEF Nests
  <2>4. CASE k \notin Name
    BY <1>1, <2>1, <2>2, <2>4, NothingIsCoded, CodeLooks DEF Nests
  <2> QED BY <2>3, <2>4
<1> QED BY <1>1, <1>3, <1>5, Inerts, NothingIsCoded, CodeGoes, Speaks DEF Path

LEMMA PatternNests ==
    ASSUME StackInv, HistInv, SilentNest, Pattern
    PROVE  Nests
<1>1. InCode
  <2>1. /\ "single_pattern" \in Code \cup {"more"} /\ "no_pattern" \in Code \cup {"more"}
        /\ "alternatives" \in Code \cup {"more"}
    BY DEF Code
  <2> QED BY <2>1, AtCode DEF Pattern
<1>2. /\ <<"name">> \in Seq(Code \cup Saves)
      /\ <<"no_pattern">> \in Seq(Code \cup Saves)
      /\ <<"single_pattern", "alternatives">> \in Seq(Code \cup Saves)
  BY DEF Code, Saves, Saved
<1>3. /\ Coded(<<"name">>)
      /\ Coded(<<"no_pattern">>)
      /\ Coded(<<"single_pattern", "alternatives">>)
  BY <1>2, CodeList
<1>4. <<"advance", "advance">> = <<"advance">> \o (<<"advance">> \o <<>>)
  <2>1. <<"advance", "advance">> = <<"advance">> \o <<"advance">>
    BY Split1And1
  <2>2. <<"advance">> = <<"advance">> \o <<>>
    BY JustOne
  <2> QED BY <2>1, <2>2
<1>5. ASSUME At("single_pattern"), tok = "MINUS" PROVE Nests
  <2>1. PICK k \in Upcoming(open) :
          /\ next' = k /\ UNCHANGED <<tok, open>>
          /\ Do(IF k = "INT" THEN <<"advance", "advance">> ELSE <<"no_pattern">>)
    BY <1>5 DEF Pattern, Peek, At
  <2>2. tok \in Peeked \ {"CTRL_START"}
    BY <1>5 DEF Peeked
  <2>3. CASE k = "INT"
    <3>1. Do(<<"advance">> \o (<<"advance">> \o <<>>)) /\ k \in Simple
      BY <1>4, <2>1, <2>3 DEF Simple
    <3> QED BY <1>1, <2>1, <2>2, <3>1, NothingIsCoded, CodeLooks DEF Nests
  <2>4. CASE k # "INT"
    BY <1>1, <1>3, <2>1, <2>2, <2>4, CodeLooks DEF Nests
  <2> QED BY <2>3, <2>4
<1>6. ASSUME tok = "STR_START", Eat(<<"string">>) PROVE Nests
  BY <1>1, <1>6, StringWraps, CodeTurns
<1> QED BY <1>1, <1>3, <1>5, <1>6, Inerts, NothingIsCoded, CodeGoes, Speaks DEF Pattern

LEMMA UnaryNests ==
    ASSUME StackInv, HistInv, SilentNest, Unary
    PROVE  Nests
<1>1. InCode
  <2>1. "unary" \in Code \cup {"more"} /\ "operand" \in Code \cup {"more"}
    BY DEF Code
  <2> QED BY <2>1, AtCode DEF Unary
<1>2. /\ <<"operand">> \in Seq(Code \cup Saves)
      /\ <<"primary">> \in Seq(Code \cup Saves)
      /\ <<"unary", "unary_returns">> \in Seq(Code \cup Saves)
  BY DEF Code, Saves, Saved
<1>3. /\ Coded(<<"operand">>)
      /\ Coded(<<"primary">>)
      /\ Coded(<<"unary", "unary_returns">>)
  BY <1>2, CodeList
<1>4. /\ <<"advance", "advance">> = <<"advance">> \o (<<"advance">> \o <<>>)
      /\ <<"advance", "operand">> = <<"advance">> \o <<"operand">>
  <2>1. <<"advance", "advance">> = <<"advance">> \o <<"advance">>
    BY Split1And1
  <2>2. <<"advance">> = <<"advance">> \o <<>>
    BY JustOne
  <2>3. <<"advance", "operand">> = <<"advance">> \o <<"operand">>
    BY Split1And1
  <2> QED BY <2>1, <2>2, <2>3
<1>5. ASSUME At("unary"), tok = "MINUS" PROVE Nests
  <2>1. PICK k \in Upcoming(open) :
          /\ next' = k /\ UNCHANGED <<tok, open>>
          /\ Do(<<"advance", IF k \in {"INT", "FLOAT"} THEN "advance" ELSE "operand">>)
    BY <1>5 DEF Unary, Peek, At
  <2>2. tok \in Peeked \ {"CTRL_START"}
    BY <1>5 DEF Peeked
  <2>3. CASE k \in {"INT", "FLOAT"}
    <3>1. Do(<<"advance", "advance">>)
      BY <2>1, <2>3
    <3>2. Do(<<"advance">> \o (<<"advance">> \o <<>>)) /\ k \in Simple
      BY <1>4, <2>3, <3>1 DEF Simple
    <3> QED BY <1>1, <2>1, <2>2, <3>2, NothingIsCoded, CodeLooks DEF Nests
  <2>4. CASE k \notin {"INT", "FLOAT"}
    <3>1. Do(<<"advance", "operand">>)
      BY <2>1, <2>4
    <3>2. Do(<<"advance">> \o <<"operand">>)
      BY <1>4, <3>1
    <3> QED BY <1>1, <1>3, <2>1, <2>2, <3>2, CodeLooks DEF Nests
  <2> QED BY <2>3, <2>4
<1> QED BY <1>1, <1>3, <1>5, Inerts, NothingIsCoded, CodeGoes, Speaks DEF Unary

LEMMA CoalesceNests ==
    ASSUME StackInv, HistInv, SilentNest, Coalesce
    PROVE  Nests
<1>1. InCode
  <2>1. "coalesce" \in Code \cup {"more"} /\ "fallback" \in Code \cup {"more"}
    BY DEF Code
  <2> QED BY <2>1, AtCode DEF Coalesce
<1>2. /\ <<"fallback">> \in Seq(Code \cup Saves)
      /\ <<"stmt">> \in Seq(Code \cup Saves)
      /\ <<"block">> \in Seq(Code \cup Saves)
      /\ <<"coalesce_returns">> \in Seq(Code \cup Saves)
  BY DEF Code, Saves, Saved
<1>3. /\ Coded(<<"fallback">>)
      /\ Coded(<<"stmt">>)
      /\ Coded(<<"block">>)
      /\ Coded(<<"coalesce_returns">>)
  BY <1>2, CodeList
<1>4. <<"advance", "block">> = <<"advance">> \o <<"block">>
  BY Split1And1
<1>5. Coded(parse_coalesce \o <<"coalesce_returns">>)
  BY <1>3, LevelsAreCoded, CodedChain
<1>6. ASSUME At("fallback"), tok \in Ident PROVE Nests
  <2>1. PICK k \in Upcoming(open) :
          /\ next' = k /\ UNCHANGED <<tok, open>>
          /\ Do(IF k = "LBRACE" THEN <<"advance", "block">> ELSE parse_coalesce \o <<"coalesce_returns">>)
    BY <1>6 DEF Coalesce, Peek, At, Ident
  <2>2. tok \in Peeked \ {"CTRL_START"}
    BY <1>6 DEF Peeked, Ident
  <2>3. CASE k = "LBRACE"
    <3>1. Do(<<"advance">> \o <<"block">>)
      BY <1>4, <2>1, <2>3
    <3> QED BY <1>1, <1>3, <2>1, <2>2, <3>1, CodeLooks DEF Nests
  <2>4. CASE k # "LBRACE"
    BY <1>1, <1>5, <2>1, <2>2, <2>4, CodeLooks DEF Nests
  <2> QED BY <2>3, <2>4
<1> QED BY <1>1, <1>3, <1>5, <1>6, Inerts, NothingIsCoded, CodeGoes, Speaks DEF Coalesce

LEMMA IfNests ==
    ASSUME StackInv, HistInv, SilentNest, If
    PROVE  Nests
<1>1. InCode
  <2>1. "if_end" \in Code \cup {"more"} /\ "else" \in Code \cup {"more"} /\ "else_body" \in Code \cup {"more"}
    BY DEF Code
  <2> QED BY <2>1, AtCode DEF If
<1>2. /\ <<"else">> \in Seq(Code \cup Saves)
      /\ <<"else_body">> \in Seq(Code \cup Saves)
      /\ <<"cond", "block", "if_end", "if_returns">> \in Seq(Code \cup Saves)
      /\ <<"block">> \in Seq(Code \cup Saves)
  BY DEF Code, Saves, Saved
<1>3. /\ Coded(<<"else">>)
      /\ Coded(<<"else_body">>)
      /\ Coded(<<"cond", "block", "if_end", "if_returns">>)
      /\ Coded(<<"block">>)
  BY <1>2, CodeList
<1>4. <<"advance", "else">> = <<"advance">> \o <<"else">>
  BY Split1And1
<1>5. ASSUME At("if_end"), tok = "NEWLINE" PROVE Nests
  <2>1. PICK k \in Upcoming(open) :
          /\ next' = k /\ UNCHANGED <<tok, open>>
          /\ Do(IF k = "KW_ELSE" THEN <<"advance", "else">> ELSE <<>>)
    BY <1>5 DEF If, Peek, At
  <2>2. tok \in Peeked \ {"CTRL_START"}
    BY <1>5 DEF Peeked
  <2>3. CASE k = "KW_ELSE"
    <3>1. Do(<<"advance">> \o <<"else">>)
      BY <1>4, <2>1, <2>3
    <3> QED BY <1>1, <1>3, <2>1, <2>2, <3>1, CodeLooks DEF Nests
  <2>4. CASE k # "KW_ELSE"
    BY <1>1, <2>1, <2>2, <2>4, NothingIsCoded, CodeLooks DEF Nests
  <2> QED BY <2>3, <2>4
<1> QED BY <1>1, <1>3, <1>5, Inerts, NothingIsCoded, CodeGoes, Speaks DEF If

LEMMA OperatorNests ==
    ASSUME StackInv, HistInv, SilentNest, NEW level \in Code, NEW ops, \A k \in ops : Inert(k),
           <<"make_binary", level>> \in Seq(Code \cup Saves), NEW operand, Coded(operand),
           Operator(level, ops, operand)
    PROVE  Nests
<1>1. InCode
  BY AtCode DEF Operator
<1>2. <<"skip_newlines">> \in Seq(Code \cup Saves)
  BY DEF Code
<1>3. Coded(<<"skip_newlines">>) /\ Coded(<<"make_binary", level>>)
  BY <1>2, CodeList
<1>4. Coded(<<"skip_newlines">> \o operand)
  BY <1>3, CodedChain
<1>5. Coded(<<"skip_newlines">> \o operand \o <<"make_binary", level>>)
  BY <1>3, <1>4, CodedChain
<1> QED BY <1>1, <1>5, NothingIsCoded, CodeGoes DEF Operator

LEMMA BinaryNests ==
    ASSUME StackInv, HistInv, SilentNest, Binary
    PROVE  Nests
<1>1. /\ "mul" \in Code /\ "add" \in Code /\ "and" \in Code /\ "or" \in Code
      /\ <<"make_binary", "mul">> \in Seq(Code \cup Saves) /\ <<"make_binary", "add">> \in Seq(Code \cup Saves)
      /\ <<"make_binary", "and">> \in Seq(Code \cup Saves) /\ <<"make_binary", "or">> \in Seq(Code \cup Saves)
      /\ <<"not">> \in Seq(Code \cup Saves)
  BY DEF Code
<1>2. Coded(<<"not">>)
  BY <1>1, CodeList
<1>3. /\ \A k \in MulOps : Inert(k)
      /\ \A k \in AddOps : Inert(k)
      /\ \A k \in {"KW_AND"} : Inert(k)
      /\ \A k \in {"KW_OR"} : Inert(k)
  BY Inerts
<1>4. Operator("mul", MulOps, parse_cast) => Nests
  BY <1>1, <1>3, LevelsAreCoded, OperatorNests
<1>5. Operator("add", AddOps, parse_mul) => Nests
  BY <1>1, <1>3, LevelsAreCoded, OperatorNests
<1>6. Operator("and", {"KW_AND"}, <<"not">>) => Nests
  BY <1>1, <1>2, <1>3, OperatorNests
<1>7. Operator("or", {"KW_OR"}, parse_and) => Nests
  BY <1>1, <1>3, LevelsAreCoded, OperatorNests
<1> QED BY <1>4, <1>5, <1>6, <1>7 DEF Binary

LEMMA MatchArmsNests ==
    ASSUME StackInv, HistInv, SilentNest, MatchArms
    PROVE  Nests
<1>1. InCode
  <2>1. /\ "match_body" \in Code \cup {"more"} /\ "match_arms" \in Code \cup {"more"}
        /\ "arm_body" \in Code \cup {"more"}
    BY DEF Code
  <2> QED BY <2>1, AtCode DEF MatchArms
<1>2. /\ <<"ARROW", "arm_body", "skip_newlines", "match_arms">> \in Seq(Code \cup Saves)
      /\ <<"single_pattern", "alternatives", "ARROW", "arm_body", "skip_newlines", "match_arms">> \in Seq(Code \cup Saves)
      /\ <<"block">> \in Seq(Code \cup Saves)
      /\ <<"expr">> \in Seq(Code \cup Saves)
  BY DEF Code, Saves, Saved
<1>3. /\ Coded(<<"ARROW", "arm_body", "skip_newlines", "match_arms">>)
      /\ Coded(<<"single_pattern", "alternatives", "ARROW", "arm_body", "skip_newlines", "match_arms">>)
      /\ Coded(<<"block">>)
      /\ Coded(<<"expr">>)
  BY <1>2, CodeList
<1>4. Go(<<"LBRACE", "skip_newlines", "match_arms", "RBRACE">>) => Nests
  <2>1. <<"LBRACE", "skip_newlines", "match_arms", "RBRACE">>
          = <<"LBRACE">> \o <<"skip_newlines", "match_arms", "RBRACE">>
    BY Split1And3
  <2> QED BY <1>1, <2>1, BracesWrap, CodeBraced
<1> QED BY <1>1, <1>3, <1>4, Inerts, NothingIsCoded, CodeGoes, Speaks DEF MatchArms

LEMMA GroupItemsNests ==
    ASSUME StackInv, HistInv, SilentNest, GroupItems
    PROVE  Nests
<1>1. InCode
  <2>1. "group_body" \in Code \cup {"more"} /\ "group_items" \in Code \cup {"more"}
    BY DEF Code
  <2> QED BY <2>1, AtCode DEF GroupItems
<1>2. /\ <<"decl", "skip_newlines", "progress_in_braces", "group_items">> \in Seq(Code \cup Saves)
  BY DEF Code, Saves, Saved
<1>3. /\ Coded(<<"decl", "skip_newlines", "progress_in_braces", "group_items">>)
  BY <1>2, CodeList
<1>4. Go(<<"LBRACE", "skip_newlines", "group_items", "RBRACE">>) => Nests
  <2>1. <<"LBRACE", "skip_newlines", "group_items", "RBRACE">>
          = <<"LBRACE">> \o <<"skip_newlines", "group_items", "RBRACE">>
    BY Split1And3
  <2> QED BY <1>1, <2>1, BracesWrap, CodeBraced
<1> QED BY <1>1, <1>3, <1>4, Inerts, NothingIsCoded, CodeGoes, Speaks DEF GroupItems

LEMMA TypeDeclNests ==
    ASSUME StackInv, HistInv, SilentNest, TypeDecl
    PROVE  Nests
<1>1. InCode
  <2>1. /\ "type_name" \in Code \cup {"more"} /\ "type_body" \in Code \cup {"more"}
        /\ "variants" \in Code \cup {"more"} /\ "fields" \in Code \cup {"more"}
        /\ "comma" \in Code \cup {"more"}
    BY DEF Code
  <2> QED BY <2>1, AtCode DEF TypeDecl
<1>2. /\ <<"type_body">> \in Seq(Code \cup Saves)
      /\ <<"type">> \in Seq(Code \cup Saves)
      /\ <<"COLON", "type", "default", "attrs", "comma", "skip_newlines", "fields">> \in Seq(Code \cup Saves)
  BY DEF Code, Saves, Saved
<1>3. /\ Coded(<<"type_body">>)
      /\ Coded(<<"type">>)
      /\ Coded(<<"COLON", "type", "default", "attrs", "comma", "skip_newlines", "fields">>)
  BY <1>2, CodeList
<1>4. Go(<<"LBRACE", "skip_newlines", "fields", "RBRACE">>) => Nests
  <2>1. <<"LBRACE", "skip_newlines", "fields", "RBRACE">>
          = <<"LBRACE">> \o <<"skip_newlines", "fields", "RBRACE">>
    BY Split1And3
  <2> QED BY <1>1, <2>1, BracesWrap, CodeBraced
<1>5. tok = "KW_ENUM" /\ Eat(<<"LBRACE", "skip_newlines", "variants", "skip_newlines", "RBRACE">>) => Nests
  <2>1. <<"LBRACE", "skip_newlines", "variants", "skip_newlines", "RBRACE">>
          = <<"LBRACE">> \o <<"skip_newlines", "variants", "skip_newlines", "RBRACE">>
    BY Split1And4
  <2> QED BY <1>1, <2>1, Inerts, BracesWrap, CodeBraced
<1> QED BY <1>1, <1>3, <1>4, <1>5, LoopsAreCoded, Inerts, NothingIsCoded, CodeGoes, Speaks DEF TypeDecl, Name

LEMMA DeclNests ==
    ASSUME StackInv, HistInv, SilentNest, Decl
    PROVE  Nests
<1>1. InCode
  <2>1. "decl" \in Code /\ "pub" \in Code /\ "declaration" \in Code
    BY DEF Code
  <2> QED BY <2>1, AtCode DEF Decl
<1>2. /\ <<"attrs", "pub", "declaration">> \in Seq(Code \cup Saves)
      /\ <<"type_name">> \in Seq(Code \cup Saves)
      /\ Let \in Seq(Code \cup Saves)
      /\ <<"method", "quoted">> \in Seq(Code \cup Saves)
      /\ <<"block">> \in Seq(Code \cup Saves)
      /\ <<"fn_name">> \in Seq(Code \cup Saves)
      /\ <<"block", "fn_end">> \in Seq(Code \cup Saves)
      /\ <<"quoted", "group_body", "group_returns">> \in Seq(Code \cup Saves)
      /\ <<"quoted", "block">> \in Seq(Code \cup Saves)
  BY DEF Code, Let
<1>3. /\ Coded(<<"attrs", "pub", "declaration">>) /\ Coded(<<"type_name">>) /\ Coded(Let)
      /\ Coded(<<"method", "quoted">>) /\ Coded(<<"block">>) /\ Coded(<<"fn_name">>)
      /\ Coded(<<"block", "fn_end">>) /\ Coded(<<"quoted", "group_body", "group_returns">>)
      /\ Coded(<<"quoted", "block">>)
  BY <1>2, CodeList
<1>4. Coded(<<"method", "quoted">> \o Signature) /\ Coded(<<"fn_name">> \o Signature)
  BY <1>3, SignatureIsCode, CodedChain
<1>5. Coded(Route(<<"block">>)) /\ Coded(<<"fn_name">> \o Signature \o <<"block", "fn_end">>)
  BY <1>3, <1>4, CodedChain DEF Route
<1>6. reported' => Nests
  BY DEF Nests
<1> QED BY <1>1, <1>3, <1>5, <1>6, Inerts, NothingIsCoded, CodeGoes, Speaks DEF Decl

LEMMA EnsureProgressNests ==
    ASSUME StackInv, HistInv, SilentNest, EnsureProgress
    PROVE  Nests
<1>1. InCode
  <2>1. "progress_in_braces" \in Code /\ "progress" \in Code
    BY DEF Code
  <2> QED BY <2>1, AtCode DEF EnsureProgress
<1>2. <<"progress">> \in Seq(Code \cup Saves)
  BY DEF Code
<1>3. Coded(<<"progress">>)
  BY <1>2, CodeList
<1>4. ASSUME At("progress"), Stuck, Go(<<"synchronize", "force">>) PROVE Nests
  <2>1. ~ Promises(todo) /\ before # <<>>
    <3>1. "progress" \in SeamWords /\ "progress" \in Marks
      BY DEF SeamWords, Marks
    <3> QED BY <1>4, <3>1, AtSeam, MarkStands
  <2>2. Owed
    BY <1>4, <2>1 DEF Owed, Stuck
  <2>3. ~ SilentInv
    BY <2>1, <2>2 DEF SilentInv
  <2>4. reported' = reported
    BY <1>4 DEF Go
  <2> QED BY <2>3, <2>4 DEF HistInv, Nests
<1> QED BY <1>1, <1>3, <1>4, NothingIsCoded, CodeGoes DEF EnsureProgress

(* The end of a function, or of what it kept. *)
LEMMA PopNests ==
    ASSUME StackInv, SilentNest, NEW x \in Code \cup Saves \cup {"ctrl_returns"}, At(x), Still(<<>>)
    PROVE  Nests
<1>1. IsStack(todo) /\ todo # <<>> /\ Head(todo) = x
  BY DEF StackInv, At
<1>2. x \notin Closers /\ x \notin {"advance", "LBRACE", "end_element"}
  <2>1. CASE x \in Code \cup Saves
    BY <2>1, CodeIs DEF Heads
  <2>2. CASE x = "ctrl_returns"
    BY <2>2, ClosesIs DEF Closers, CtrlWords
  <2> QED BY <2>1, <2>2
<1>3. PICK o \in Seq(OpenKinds) :
        Over(tok, open, o) /\ Follows(x, First(Tail(todo))) /\ Fits(Tail(todo), o)
  BY <1>1, <1>2, Inside
<1>4. IsStack(Tail(todo)) /\ Loose(Tail(todo))
  BY <1>1, <1>3, TailIs, LooseBehind
<1>5. Light(<<>>) /\ Grows(<<>>, o, o)
  BY NothingGrows
<1> QED BY <1>3, <1>4, <1>5, StillNests DEF Nests

LEMMA RestoreNests ==
    ASSUME StackInv, HistInv, SilentNest, Restore
    PROVE  Nests
<1>1. PICK flag \in {"no_struct", "struct"} :
        At(flag) /\ GoIn([cx EXCEPT !.no_struct = flag = "no_struct"], <<>>)
  BY DEF Restore
<1>2. Still(<<>>)
  BY <1>1, StepsAre
<1>3. flag \in Code \cup Saves \cup {"ctrl_returns"}
  BY DEF Saves
<1> QED BY <1>1, <1>2, <1>3, PopNests

LEMMA ReturnNests ==
    ASSUME StackInv, HistInv, SilentNest, Return
    PROVE  Nests
<1>1. Still(<<>>)
  BY StepsAre DEF Return
<1>2. Frames \cup {"make_binary"} \subseteq Code \cup Saves \cup {"ctrl_returns"}
  BY DEF Frames, Code
<1> QED BY <1>1, <1>2, PopNests DEF Return, At

(* A list that is left drops its loop. *)
LEMMA MoreNests ==
    ASSUME StackInv, HistInv, SilentNest, More
    PROVE  Nests
<1>1. InCode
  BY AtCode DEF More
<1>2. CASE tok = "COMMA"
  <2>1. <<"skip_newlines">> \in Seq(Code \cup Saves)
    BY DEF Code
  <2>2. Coded(<<"skip_newlines">>)
    BY <2>1, CodeList
  <2> QED BY <1>1, <1>2, <2>2, Inerts, CodeGoes DEF More
<1>3. CASE tok # "COMMA"
  <2> DEFINE t == Tail(todo)
  <2>1. todo' = Tail(t) /\ UNCHANGED <<tok, open, next>>
    BY <1>3 DEF More, input
  <2>2. IsStack(todo) /\ todo # <<>> /\ Head(todo) = "more"
    BY DEF StackInv, More, At
  <2>3. "more" \notin Closers /\ "more" \notin {"advance", "LBRACE", "end_element"}
    BY ClosesIs DEF Closers, CtrlWords
  <2>4. PICK o \in Seq(OpenKinds) :
          Over(tok, open, o) /\ Follows("more", First(t)) /\ Fits(t, o)
    BY <2>2, <2>3, Inside
  <2>5. First(t) \in Listed /\ IsStack(t)
    BY <2>2, <2>4, TailIs DEF Follows
  <2> HIDE DEF t
  <2>6. t # <<>> /\ t[1] = First(t)
    <3>1. Len(<<>>) = 0 /\ First(t) # None
      BY <2>5 DEF Listed, None
    <3> QED BY <3>1 DEF First
  <2>7. First(t) \in Code /\ First(t) \notin Closers
    BY <2>5, ListedIsCode, CodeIs
  <2>8. Fits(Tail(t), o) /\ Follows(First(t), First(Tail(t))) /\ IsStack(Tail(t))
    BY <2>4, <2>5, <2>6, <2>7, FitsPop, TailIs
  <2>9. Free(Tail(t))
    BY <2>7, <2>8, LooseBehind, LooseIsFree
  <2>10. SilentNest'
    BY <2>1, <2>4, <2>8, <2>9, Stay
  <2> QED BY <2>10 DEF Nests
<1> QED BY <1>2, <1>3

(* A path in parentheses is still a path. *)
LEMMA PathFollows ==
    ASSUME NEW y
    PROVE  /\ Follows("postfix", y) => Follows("path_postfix", y)
           /\ Follows(y, "postfix") => Follows(y, "path_postfix")
<1>1. /\ "postfix" \notin Heads /\ "postfix" # None /\ "postfix" \notin EndsElement
      /\ "path_postfix" \notin Heads /\ "path_postfix" # None /\ "path_postfix" \notin EndsElement
      /\ "path_postfix" \notin Closers /\ "path_postfix" \notin ElemWords
  <2>1. "postfix" \in Code /\ "path_postfix" \in Code
    BY DEF Code
  <2> QED BY <2>1, CodeIs
<1>2. "postfix" \notin Listed
  BY DEF Listed
<1> QED BY <1>1, <1>2 DEF Follows, Heads, Closers, ElemWords

LEMMA FitsSwap ==
    ASSUME NEW t, IsStack(t), NEW o \in Seq(OpenKinds), Fits(t, o), NEW n \in 1 .. Len(t), t[n] = "postfix",
           NEW s, s = Swapped(t, n, "path_postfix")
    PROVE  IsStack(s) /\ Fits(s, o) /\ (Loose(t) => Loose(s))
<1> DEFINE x == "path_postfix"
<1>1. IsStack(s) /\ Len(s) = Len(t) /\ \A j \in 1 .. Len(t) : s[j] = IF j = n THEN x ELSE t[j]
  <2>1. s = Swapped(t, n, x)
    OBVIOUS
  <2> HIDE DEF x
  <2>2. IsStack(s) /\ Len(s) = Len(t)
    BY <2>1, SwapIs
  <2>3. \A j \in 1 .. Len(t) : s[j] = IF j = n THEN x ELSE t[j]
    BY <2>1, SwapIs
  <2> QED BY <2>2, <2>3
<1>2. Len(t) \in Nat
  BY StackHasLen
<1>3. /\ "postfix" \in Code /\ x \in Code /\ "postfix" \notin Closers /\ x \notin Closers
      /\ x \in Words /\ x # "advance" /\ x \notin Heads /\ x # None
  <2>1. "postfix" \in Code /\ x \in Code
    BY DEF Code
  <2> QED BY <2>1, CodeIs
<1>4. ASSUME NEW y
      PROVE  (Follows("postfix", y) => Follows(x, y)) /\ (Follows(y, "postfix") => Follows(y, x))
  BY PathFollows
<1> HIDE DEF x
<1>5. ASSUME NEW j \in Nat, j >= 1 PROVE Height(s, j) = Height(t, j)
  <2>1. \A k \in j .. Len(t) : s[k] \in Closers <=> t[k] \in Closers
    <3>1. \A k \in j .. Len(t) : k \in 1 .. Len(t)
      BY <1>2, <1>5
    <3> QED BY <1>1, <1>3, <3>1
  <2>2. {k \in j .. Len(s) : s[k] \in Closers} = {k \in j .. Len(t) : t[k] \in Closers}
    BY <1>1, <2>1
  <2> QED BY <2>2 DEF Height
<1>6. ASSUME NEW j \in 1 .. Len(t) PROVE After(s, j) = After(t, j) \/ (After(s, j) = x /\ After(t, j) = "postfix")
  <2>1. CASE j < Len(t)
    <3>1. j + 1 \in 1 .. Len(t)
      BY <1>2, <2>1
    <3> QED BY <1>1, <2>1, <3>1 DEF After
  <2>2. CASE ~ (j < Len(t))
    BY <1>1, <2>2 DEF After
  <2> QED BY <2>1, <2>2
<1>7. ASSUME NEW j \in 1 .. Len(s)
      PROVE  /\ s[j] \in Words /\ Suits(s[j], Innermost(o, Height(s, j))) /\ Follows(s[j], After(s, j))
             /\ s[j] = "advance" => j <= 2
  <2>1. j \in 1 .. Len(t) /\ j \in Nat /\ j >= 1
    BY <1>1
  <2>2. /\ t[j] \in Words /\ Suits(t[j], Innermost(o, Height(t, j))) /\ Follows(t[j], After(t, j))
        /\ t[j] = "advance" => j <= 2
    BY <2>1 DEF Fits
  <2>3. Follows(t[j], After(s, j))
    BY <1>4, <1>6, <2>1, <2>2
  <2>4. Height(s, j) = Height(t, j)
    BY <1>5, <2>1
  <2>5. CASE j = n
    <3>1. s[j] = x /\ t[j] = "postfix"
      BY <1>1, <2>1, <2>5
    <3>2. Innermost(o, Height(t, j)) \in CodeKinds
      BY <1>3, <2>2, <3>1 DEF Suits, CodeWords
    <3>3. Suits(x, Innermost(o, Height(t, j)))
      BY <1>3, <3>2, CodeSuits
    <3> QED BY <1>3, <1>4, <2>3, <2>4, <3>1, <3>3
  <2>6. CASE j # n
    BY <1>1, <2>1, <2>2, <2>3, <2>4, <2>6
  <2> QED BY <2>5, <2>6
<1>8. Fits(s, o)
  <2>1. Height(s, 1) = Len(o)
    BY <1>5 DEF Fits
  <2> QED BY <1>7, <2>1 DEF Fits
<1>9. Loose(t) => Loose(s)
  <2>1. 1 \in 1 .. Len(t)
    BY <1>2
  <2> QED BY <1>1, <1>2, <1>3, <2>1 DEF Loose, First
<1> QED BY <1>1, <1>8, <1>9

LEMMA UngroupNests ==
    ASSUME StackInv, SilentNest, InCode, InGroup, Ungroup
    PROVE  Nests
<1> DEFINE t == Tail(todo)
           n == 12
           s == todo'
<1>1. IsStack(todo) /\ todo # <<>> /\ IsStack(t) /\ Loose(t)
  BY DEF StackInv, InCode
<1>2. 12 \in 1 .. Len(Tail(todo)) /\ Tail(todo)[12] = "postfix"
  BY <1>1, UngroupIs
<1>3. todo' = [Tail(todo) EXCEPT ![12] = "path_postfix"] /\ UNCHANGED <<tok, open, next>>
  BY DEF Ungroup, input
<1>4. PICK o \in Seq(OpenKinds) : Over(tok, open, o) /\ Fits(t, o)
  BY DEF InCode
<1>5. n \in 1 .. Len(t) /\ t[n] = "postfix" /\ s = Swapped(t, n, "path_postfix")
  BY <1>2, <1>3 DEF Swapped
<1> HIDE DEF t, n, s
<1>6. Fits(s, o) /\ Loose(s)
  BY <1>1, <1>4, <1>5, FitsSwap
<1>7. Free(todo') /\ Fits(todo', o)
  BY <1>6, LooseIsFree DEF s
<1>8. SilentNest'
  BY <1>3, <1>4, <1>7, Stay
<1> QED BY <1>8 DEF Nests

LEMMA PostfixNests ==
    ASSUME StackInv, HistInv, SilentNest, Postfix
    PROVE  Nests
<1>1. InCode
  <2>1. "path_postfix" \in Code \cup {"more"} /\ "postfix" \in Code \cup {"more"}
    BY DEF Code
  <2> QED BY <2>1, AtCode DEF Postfix
<1>2. /\ <<"name", "postfix">> \in Seq(Code \cup Saves)
      /\ <<"skip_newlines", "indexes", "RBRACKET", "postfix">> \in Seq(Code \cup Saves)
      /\ <<"skip_newlines", "args", "RPAREN", "postfix">> \in Seq(Code \cup Saves)
      /\ <<"postfix">> \in Seq(Code \cup Saves)
  BY DEF Code, Saves, Saved
<1>3. /\ Coded(<<"name", "postfix">>)
      /\ Coded(<<"skip_newlines", "indexes", "RBRACKET", "postfix">>)
      /\ Coded(<<"skip_newlines", "args", "RPAREN", "postfix">>)
      /\ Coded(<<"postfix">>)
  BY <1>2, CodeList
<1> QED BY <1>1, <1>3, FieldsWrap, CodeTurns, CodeBraced, UngroupNests, Inerts, NothingIsCoded,
     CodeGoes, Speaks DEF Postfix

(* An element is entered at its `<`. *)
LEMMA ElementComes ==
    ASSUME SilentNest, tok = "MARKUP_START", NEW t, IsStack(t), Loose(t), NEW o \in Seq(OpenKinds),
           Over(tok, open, o), Fits(t, o), NEW x \in {"element_entering", "element_nested"},
           x = "element_entering" => Top(o) \in CodeKinds, x = "element_nested" => Top(o) = "elem",
           UNCHANGED <<tok, open, next>>, todo' = <<x>> \o t
    PROVE  SilentNest'
<1>1. /\ x \in Words /\ x \notin Closers /\ Easy(x) /\ Suits(x, Top(o))
  <2>1. x \notin DOMAIN Closes /\ x \notin CtrlWords /\ x \notin TagWords /\ x \notin ClosingWords
    BY ClosesIs DEF CtrlWords, TagWords, ClosingWords
  <2>2. x \in CodeWords => x = "element_entering"
    BY DEF CodeWords, Code
  <2>3. x \in ElemWords => x = "element_nested"
    BY DEF ElemWords, ArmsWords
  <2>4. x \in CodeWords \cup ElemWords
    BY DEF CodeWords, ElemWords
  <2>5. Suits(x, Top(o))
    BY <2>1, <2>2, <2>3 DEF Suits
  <2>6. x \notin EndsElement /\ x \notin ArmsWords /\ x \notin {"more", "unit"}
    BY DEF EndsElement, ArmsWords
  <2> QED BY <2>1, <2>4, <2>5, <2>6 DEF Words, Closers, Easy
<1>2. Fits(<<x>> \o t, o)
  BY <1>1, GrowsSame DEF Grows
<1>3. First(<<x>> \o t) = x
  <2>1. IsStack(<<x>>) /\ Len(<<x>>) = 1 /\ <<x>>[1] = x /\ Len(<<x>>) >= 1
    BY TallyOne
  <2> DEFINE w == <<x>>
  <2> HIDE DEF w
  <2>2. (w \o t)[1] = x /\ Len(w \o t) >= 1
    BY <2>1, FirstOf DEF w
  <2> QED BY <2>2 DEF First, w
<1> DEFINE s == <<x>> \o t
<1> HIDE DEF s
<1>4. Fits(s, o) /\ First(s) = x
  BY <1>2, <1>3 DEF s
<1>5. Ahead(s, o) /\ Len(s) # 0
  BY <1>4 DEF Ahead, First, None
<1>6. tok # "EOF" /\ open \in Seq(OpenKinds) /\ (next # None => Possible(open, next) /\ tok \in Peeked)
  BY NextIs
<1>7. Nest(s, tok, open, next)
  BY <1>4, <1>5, <1>6 DEF Nest
<1> QED BY <1>7 DEF SilentNest, s

LEMMA PrimaryNests ==
    ASSUME StackInv, HistInv, SilentNest, Primary
    PROVE  Nests
<1>1. InCode
  <2>1. "primary" \in Code \cup {"more"}
    BY DEF Code
  <2> QED BY <2>1, AtCode DEF Primary
<1>2. /\ <<"postfix">> \in Seq(Code \cup Saves)
      /\ <<"path", "path_postfix">> \in Seq(Code \cup Saves)
      /\ <<"name", "postfix">> \in Seq(Code \cup Saves)
      /\ <<"skip_newlines", "elements", "RBRACKET", "postfix">> \in Seq(Code \cup Saves)
      /\ <<"lambda_body", "postfix">> \in Seq(Code \cup Saves)
      /\ <<"skip_newlines", "expr", "skip_newlines", Saved, "RPAREN", "postfix">> \in Seq(Code \cup Saves)
  BY DEF Code, Saves, Saved
<1>3. /\ Coded(<<"postfix">>)
      /\ Coded(<<"path", "path_postfix">>)
      /\ Coded(<<"name", "postfix">>)
      /\ Coded(<<"skip_newlines", "elements", "RBRACKET", "postfix">>)
      /\ Coded(<<"lambda_body", "postfix">>)
      /\ Coded(<<"skip_newlines", "expr", "skip_newlines", Saved, "RPAREN", "postfix">>)
  BY <1>2, CodeList
<1>4. Coded(Signature \o <<"lambda_body", "postfix">>)
  BY <1>3, SignatureIsCode, CodedChain
<1>5. ASSUME tok = "MARKUP_START", Go(<<"element_entering", "postfix">>) PROVE Nests
  <2> DEFINE t == Tail(todo)
             w == <<"postfix">>
  <2>1. PICK o \in Seq(OpenKinds) : Over(tok, open, o) /\ Top(o) \in CodeKinds /\ Fits(t, o)
    BY <1>1 DEF InCode
  <2>2. IsStack(t) /\ Loose(t) /\ Light(w) /\ Grows(w, o, o) /\ IsStack(w)
    BY <1>1, <1>3, <2>1 DEF InCode, Coded, Light
  <2>3. todo' = (<<"element_entering">> \o w) \o t /\ UNCHANGED <<tok, open, next>>
    <3>1. <<"element_entering", "postfix">> = <<"element_entering">> \o <<"postfix">>
      BY Split1And1
    <3> QED BY <1>5, <3>1 DEF Go, Do, input
  <2> HIDE DEF t, w
  <2>4. Fits(w \o t, o) /\ IsStack(w \o t) /\ Loose(w \o t)
    BY <2>1, <2>2, LightIsLoose DEF Grows
  <2>5. todo' = <<"element_entering">> \o (w \o t)
    <3>1. IsStack(<<"element_entering">>)
      BY TallyOne
    <3> DEFINE u == <<"element_entering">>
    <3> HIDE DEF u
    <3>2. (u \o w) \o t = u \o (w \o t)
      BY <2>2, <3>1, Regroup DEF u
    <3> QED BY <2>3, <3>2 DEF u
  <2> DEFINE x == "element_entering"
             s == w \o t
  <2>6. /\ x \in {"element_entering", "element_nested"} /\ Top(o) \in CodeKinds /\ x # "element_nested"
        /\ todo' = <<x>> \o s /\ IsStack(s) /\ Loose(s) /\ Fits(s, o)
    BY <2>1, <2>4, <2>5
  <2> HIDE DEF x, s
  <2>7. SilentNest'
    BY <1>5, <2>1, <2>3, <2>6, ElementComes
  <2> QED BY <2>7 DEF Nests
<1>6. ASSUME Inert(tok), NEW w, Coded(w), Eat(w) PROVE Nests
  BY <1>1, <1>6, CodeGoes
<1>7. tok = "STR_START" /\ Eat(<<"string", "postfix">>) => Nests
  BY <1>1, StringWraps, CodeTurns
<1>8. tok = "LBRACE" /\ Eat(<<"skip_newlines", "entries", "RBRACE", "postfix">>) => Nests
  BY <1>1, BracesWrap, CodeTurns
<1>9. ASSUME tok = "LPAREN", NEW c, EatIn(c, <<"skip_newlines", "expr", "skip_newlines", Saved, "RPAREN", "postfix">>)
      PROVE  Nests
  <2>1. Inert(tok)
    BY <1>9, Inerts
  <2> DEFINE w == <<"skip_newlines", "expr", "skip_newlines", Saved, "RPAREN", "postfix">>
  <2>2. Coded(w) /\ EatIn(c, w)
    BY <1>3, <1>9
  <2> HIDE DEF w
  <2> QED BY <1>1, <2>1, <2>2, CodeGoes
<1>10. \A k \in Literal \cup Ident \cup {"KW_SELF", "KW_TEST", "STATIC", "DOT", "LBRACKET", "KW_FN"} : Inert(k)
  BY Inerts DEF Name, Reserved
<1>11. \A w : EatReporting(w) \/ Unexpected(w) => Nests
  BY Speaks
<1>a. tok \in Literal /\ Eat(<<"postfix">>) => Nests
  BY <1>3, <1>6, <1>10
<1>b. tok = "KW_SELF" /\ (Eat(<<"postfix">>) \/ EatReporting(<<"postfix">>)) => Nests
  BY <1>3, <1>6, <1>10, <1>11
<1>c. tok \in Ident \cup {"KW_TEST", "STATIC"} /\ Eat(<<"path", "path_postfix">>) => Nests
  BY <1>3, <1>6, <1>10
<1>d. tok = "DOT" /\ Eat(<<"name", "postfix">>) => Nests
  BY <1>3, <1>6, <1>10
<1>e. tok = "LBRACKET" /\ Eat(<<"skip_newlines", "elements", "RBRACKET", "postfix">>) => Nests
  BY <1>3, <1>6, <1>10
<1>f. tok = "KW_FN" /\ Eat(Signature \o <<"lambda_body", "postfix">>) => Nests
  BY <1>4, <1>6, <1>10
<1>g. EatReporting(<<"postfix">>) \/ Unexpected(<<"drop", "postfix">>) => Nests
  BY <1>11
<1>h. Primary =>
        \/ tok \in Literal /\ Eat(<<"postfix">>)
        \/ tok = "STR_START" /\ Eat(<<"string", "postfix">>)
        \/ tok = "KW_SELF" /\ (Eat(<<"postfix">>) \/ EatReporting(<<"postfix">>))
        \/ tok \in Ident \cup {"KW_TEST", "STATIC"} /\ Eat(<<"path", "path_postfix">>)
        \/ tok = "DOT" /\ Eat(<<"name", "postfix">>)
        \/ tok = "LBRACKET" /\ Eat(<<"skip_newlines", "elements", "RBRACKET", "postfix">>)
        \/ tok = "LBRACE" /\ Eat(<<"skip_newlines", "entries", "RBRACE", "postfix">>)
        \/ tok = "KW_FN" /\ Eat(Signature \o <<"lambda_body", "postfix">>)
        \/ tok = "MARKUP_START" /\ Go(<<"element_entering", "postfix">>)
        \/ tok = "LPAREN" /\ EatIn([cx EXCEPT !.no_struct = FALSE],
                 <<"skip_newlines", "expr", "skip_newlines", Saved, "RPAREN", "postfix">>)
        \/ EatReporting(<<"postfix">>) \/ Unexpected(<<"drop", "postfix">>)
  BY DEF Primary
<1> QED BY <1>5, <1>7, <1>8, <1>9, <1>a, <1>b, <1>c, <1>d, <1>e, <1>f, <1>g, <1>h

-----------------------------------------------------------------------------
(* Tokens that are expected, or known.                                       *)

LEMMA AfterIsLoose ==
    ASSUME NEW x, x \notin EndsElement \cup {"unit", "advance", "children", "strays"},
           NEW t, Follows(x, First(t))
    PROVE  Loose(t)
BY DEF Follows, Loose, Heads

(* The end of an element comes behind the token that ends it. *)
LEMMA EndArrives ==
    ASSUME SilentNest, tok # "EOF", NEW q \in Seq(OpenKinds), TakeIn(q), next # None => Possible(q, next),
           NEW what \in {"tag", "elem", "closing"}, First(todo') = "end_element",
           Fits(todo', Append(q, what))
    PROVE  SilentNest'
<1>1. PICK k \in Upcoming(q) : tok' = k /\ open' = Lex!Taken(q, k) /\ next' = None
  BY DEF TakeIn
<1> DEFINE p == Lex!Taken(q, k)
<1>2. p \in Seq(OpenKinds) /\ Over(k, p, q)
  BY UpcomingStands
<1> HIDE DEF p
<1>3. Ahead(todo', q)
  BY DEF Ahead
<1>4. Len(todo') # 0
  BY DEF First, None
<1>5. Nest(todo', k, p, None)
  BY <1>2, <1>3, <1>4 DEF Nest
<1> QED BY <1>1, <1>5 DEF SilentNest, p

(* At the end of the source an element and a string may be left. *)
LEMMA OverFront ==
    ASSUME NEW o \in Seq(OpenKinds), NEW q \in Seq(OpenKinds), Len(o) >= 1, Over("EOF", q, o),
           Top(o) \in {"elem", "str"}
    PROVE  Front(o) \in Seq(OpenKinds) /\ Over("EOF", q, Front(o))
<1> DEFINE f == Front(o)
<1>1. f \in Seq(OpenKinds) /\ Len(f) = Len(o) - 1 /\ Agree(f, o)
  BY OpenFront
<1>2. Len(o) \in Nat /\ Len(q) \in Nat
  BY OpenHasLen
<1>3. /\ Len(o) <= Len(q) /\ Agree(o, q)
      /\ \A j \in Len(o) + 1 .. Len(q) : q[j] \in {"elem", "str"}
  BY DEF Over
<1> HIDE DEF f
<1>4. Agree(f, q)
  <2>1. SUFFICES ASSUME NEW h \in 1 .. Len(q), h <= Len(f) PROVE f[h] = q[h]
    BY DEF Agree
  <2>2. h \in 1 .. Len(o) /\ h <= Len(o)
    BY <1>1, <1>2, <2>1
  <2> QED BY <1>1, <1>3, <2>1, <2>2 DEF Agree
<1>5. q[Len(o)] \in {"elem", "str"}
  <2>1. Len(o) \in 1 .. Len(q) /\ Len(o) <= Len(o)
    BY <1>2, <1>3
  <2>2. o[Len(o)] = q[Len(o)]
    BY <1>3, <2>1 DEF Agree
  <2>3. Top(o) = o[Len(o)]
    BY <1>2 DEF Top, Innermost
  <2> QED BY <2>2, <2>3
<1>6. \A j \in Len(f) + 1 .. Len(q) : j = Len(o) \/ j \in Len(o) + 1 .. Len(q)
  BY <1>1, <1>2
<1>7. Len(f) <= Len(q)
  BY <1>1, <1>2, <1>3
<1>8. Over("EOF", q, f)
  BY <1>3, <1>4, <1>5, <1>6, <1>7 DEF Over
<1> QED BY <1>1, <1>8 DEF f

LEMMA EatIsMoved ==
    ASSUME Eat(<<>>), IsStack(Tail(todo))
    PROVE  Moved(<<>>) /\ todo' = Tail(todo) /\ TakeIn(open)
<1>1. Moved(<<>>)
  BY StepsAre
<1>2. <<>> \o Tail(todo) = Tail(todo)
  BY ConcatEmptySeq DEF IsStack
<1> QED BY <1>1, <1>2 DEF Moved, Do, Take

LEMMA CloserArrives ==
    ASSUME StackInv, SilentNest, NEW x \in {"RBRACE", "INTERP_END", "CTRL_END"}, At(x), tok = x, Eat(<<>>)
    PROVE  Nests
<1>1. IsStack(todo) /\ todo # <<>> /\ Head(todo) = x /\ IsStack(Tail(todo))
  BY TailIs DEF StackInv, At
<1>2. x \in Closers /\ x \notin {"advance", "LBRACE", "end_element"} /\ x \in DOMAIN Closes
  BY ClosesIs DEF Closers
<1>3. PICK o \in Seq(OpenKinds) :
        /\ Over(tok, open, o) /\ Suits(x, Top(o)) /\ Follows(x, First(Tail(todo)))
        /\ Len(o) >= 1 /\ Fits(Tail(todo), Front(o))
  BY <1>1, <1>2, Inside
<1>4. Loose(Tail(todo))
  <2>1. x \notin EndsElement \cup {"unit", "advance", "children", "strays"}
    BY DEF EndsElement
  <2> QED BY <1>3, <2>1, AfterIsLoose
<1>5. open = Front(o) /\ tok # "EOF"
  <2>1. Top(o) \in Closes[x]
    BY <1>2, <1>3 DEF Suits
  <2>2. x = "RBRACE" => Top(o) = "brace"
    BY <2>1, ClosesIs
  <2>3. open = Lex!Taken(o, x)
    BY <1>3 DEF Over
  <2> QED BY <2>2, <2>3, TakenIs
<1>6. Light(<<>>) /\ Grows(<<>>, open, open)
  BY NothingGrows
<1>7. Moved(<<>>)
  BY <1>1, EatIsMoved
<1>8. SilentNest'
  BY <1>1, <1>3, <1>4, <1>5, <1>6, <1>7, MovedNests
<1> QED BY <1>8 DEF Nests

LEMMA BraceArrives ==
    ASSUME StackInv, SilentNest, At("LBRACE"), tok = "LBRACE", Eat(<<>>)
    PROVE  Nests
<1>1. IsStack(todo) /\ todo # <<>> /\ Head(todo) = "LBRACE" /\ IsStack(Tail(todo)) /\ todo[1] = "LBRACE"
      /\ First(todo) = "LBRACE"
  BY TailIs DEF StackInv, At, First
<1>2. "LBRACE" \notin Closers /\ "LBRACE" \notin EndsElement \cup {"unit", "advance", "children", "strays"}
  BY ClosesIs DEF Closers, CtrlWords, EndsElement
<1>3. PICK o \in Seq(OpenKinds) : Over(tok, open, o) /\ Fits(todo, Append(o, "brace"))
  BY <1>1 DEF SilentNest, Nest, Ahead
<1>4. open = Append(o, "brace") /\ open \in Seq(OpenKinds)
  <2>1. open = Lex!Taken(o, "LBRACE")
    BY <1>3 DEF Over
  <2> QED BY <2>1, TakenIs, NextIs
<1>5. Fits(Tail(todo), open) /\ Follows("LBRACE", First(Tail(todo)))
  BY <1>1, <1>2, <1>3, <1>4, FitsPop
<1>6. Loose(Tail(todo))
  BY <1>2, <1>5, AfterIsLoose
<1>7. Light(<<>>) /\ Grows(<<>>, open, open)
  BY NothingGrows
<1>8. Moved(<<>>)
  BY <1>1, EatIsMoved
<1>9. SilentNest'
  BY <1>1, <1>5, <1>6, <1>7, <1>8, MovedNests
<1> QED BY <1>9 DEF Nests

LEMMA TagEndArrives ==
    ASSUME StackInv, SilentNest, At("TAG_END"), tok = "TAG_END", Eat(<<>>)
    PROVE  Nests
<1>1. IsStack(todo) /\ todo # <<>> /\ Head(todo) = "TAG_END" /\ IsStack(Tail(todo))
  BY TailIs DEF StackInv, At
<1>2. "TAG_END" \notin Closers /\ "TAG_END" \in EndsElement /\ "TAG_END" \in ClosingWords
  BY ClosesIs DEF Closers, CtrlWords, EndsElement, ClosingWords
<1>3. PICK o \in Seq(OpenKinds) :
        /\ Over(tok, open, o) /\ Suits("TAG_END", Top(o)) /\ Follows("TAG_END", First(Tail(todo)))
        /\ Fits(Tail(todo), o)
  BY <1>1, <1>2, Inside
<1>4. First(Tail(todo)) = "end_element" /\ Top(o) = "closing"
  BY <1>2, <1>3 DEF Follows, Suits
<1>5. o # <<>> /\ Len(o) >= 1
  <2>1. o = <<>> => Top(o) = "unit"
    BY ModeIs
  <2>2. o # <<>> => Len(o) >= 1
    BY ModeIs
  <2> QED BY <1>4, <2>1, <2>2
<1>6. open = Front(o) /\ Append(Front(o), "closing") = o
  <2>1. open = Lex!Taken(o, "TAG_END")
    BY <1>3 DEF Over
  <2>2. Append(Front(o), Top(o)) = o
    BY <1>5, FrontAppend
  <2> QED BY <1>4, <2>1, <2>2, TakenIs
<1>7. todo' = Tail(todo) /\ TakeIn(open)
  BY <1>1, EatIsMoved
<1> DEFINE what == "closing"
<1>8. what \in {"tag", "elem", "closing"} /\ First(todo') = "end_element" /\ Fits(todo', Append(open, what))
  BY <1>3, <1>4, <1>6, <1>7
<1> HIDE DEF what
<1>9. SilentNest'
  BY <1>7, <1>8, NextIs, EndArrives
<1> QED BY <1>9 DEF Nests

LEMMA ExpectNests ==
    ASSUME StackInv, HistInv, SilentNest, Expect
    PROVE  Nests
<1>1. CASE tok = Head(todo)
  <2>1. PICK x \in Expected : At(x) /\ tok = x /\ Eat(<<>>)
    BY <1>1 DEF Expect, At
  <2>2. CASE x \in {"RBRACE", "INTERP_END", "CTRL_END"}
    BY <2>1, <2>2, CloserArrives
  <2>3. CASE x = "LBRACE"
    BY <2>1, <2>3, BraceArrives
  <2>4. CASE x = "TAG_END"
    BY <2>1, <2>4, TagEndArrives
  <2>5. CASE x \in {"LPAREN", "RPAREN", "RBRACKET", "COLON", "EQ", "ARROW", "KW_IN"}
    <3>1. x \in Code /\ Inert(x)
      BY <2>5, Inerts DEF Code
    <3>2. InCode
      BY <2>1, <3>1, AtCode
    <3> QED BY <2>1, <3>1, <3>2, NothingIsCoded, CodeGoes
  <2> QED BY <2>2, <2>3, <2>4, <2>5 DEF Expected
<1>2. CASE tok # Head(todo)
  BY <1>2, Speaks DEF Expect
<1> QED BY <1>1, <1>2

LEMMA AdvanceNests ==
    ASSUME StackInv, HistInv, SilentNest, Advance
    PROVE  Nests
<1>1. /\ IsStack(todo) /\ todo # <<>> /\ Head(todo) = "advance" /\ IsStack(Tail(todo)) /\ todo[1] = "advance"
      /\ First(todo) = "advance"
  BY TailIs DEF StackInv, Advance, At, First
<1> DEFINE t == Tail(todo)
<1>2. todo' = t /\ TakeIn(open)
  BY <1>1, EatIsMoved DEF Advance
<1>3. tok # "EOF" /\ Fits(todo, open) /\ open \in Seq(OpenKinds)
      /\ (After(todo, 1) = "advance" => next \in Simple) /\ (next # None => Possible(open, next))
  BY <1>1 DEF SilentNest, Nest
<1>4. "advance" \notin Closers
  BY ClosesIs DEF Closers, CtrlWords
<1>5. Fits(t, open) /\ Follows("advance", First(t))
  BY <1>1, <1>3, <1>4, FitsPop
<1>6. After(todo, 1) = First(t) /\ Len(todo) = 1 + Len(t) /\ Len(t) \in Nat
      /\ \A i \in 1 .. Len(t) : todo[1 + i] = t[i]
  <2>1. IsStack(t)
    BY <1>1
  <2> QED BY <1>1, <2>1, PopIs, StackHasLen
<1> HIDE DEF t
<1>7. CASE First(t) = "advance"
  <2>1. next \in Simple
    BY <1>3, <1>6, <1>7
  <2>2. next # None /\ Inert(next)
    BY <2>1, Inerts DEF Simple, Name, Ident, Reserved, None, Inert, Turning
  <2>3. PICK k \in Upcoming(open) : tok' = k /\ open' = Lex!Taken(open, k) /\ next' = None
    BY <1>2 DEF TakeIn
  <2>4. k = next
    BY <1>3, <2>2, <2>3 DEF Upcoming
  <2>5. k # "EOF" /\ Lex!Taken(open, k) = open
    <3>1. k \notin Turning \cup {"MARKUP_START"} /\ k # "EOF"
      BY <2>1, <2>2, <2>4 DEF Inert, Simple, Name, Ident, Reserved
    <3> QED BY <1>3, <3>1, TakenIs
  <2>6. After(t, 1) # "advance"
    <3> SUFFICES ASSUME After(t, 1) = "advance" PROVE FALSE
      OBVIOUS
    <3>1. 1 < Len(t) /\ t[2] = "advance"
      BY DEF After, None
    <3>2. 2 \in 1 .. Len(t) /\ 1 + 2 = 3 /\ 3 \in 1 .. Len(todo)
      BY <1>6, <3>1
    <3>3. todo[3] = "advance"
      BY <1>6, <3>1, <3>2
    <3>4. 3 <= 2
      BY <1>3, <3>2, <3>3 DEF Fits
    <3> QED BY <3>4
  <2>7. Len(t) # 0
    BY <1>7 DEF First, None
  <2>8. Nest(t, k, open, None)
    BY <1>3, <1>5, <1>7, <2>5, <2>6, <2>7 DEF Nest
  <2> QED BY <1>2, <2>3, <2>5, <2>8 DEF SilentNest, Nests
<1>8. CASE First(t) # "advance"
  <2>1. Free(t)
    BY <1>5, <1>8 DEF Free, Follows, EndsElement
  <2>2. Free(todo') /\ Fits(todo', open)
    BY <1>2, <1>5, <2>1
  <2>3. SilentNest'
    BY <1>2, <1>3, <2>2, Arrive
  <2> QED BY <2>3 DEF Nests
<1> QED BY <1>7, <1>8

-----------------------------------------------------------------------------
(* Strings, and what is reported already.                                    *)

LEMMA QuietIs ==
    ASSUME tok \notin Turning \cup {"MARKUP_START", "EOF"}, NEW o \in Seq(OpenKinds), Over(tok, open, o)
    PROVE  open = o
BY TakenIs DEF Over

LEMMA StringNests ==
    ASSUME StackInv, HistInv, SilentNest, String
    PROVE  Nests
<1> DEFINE x == "string"
           t == Tail(todo)
<1>1. IsStack(todo) /\ todo # <<>> /\ Head(todo) = x /\ IsStack(t)
  BY TailIs DEF StackInv, String, At
<1>2. x \in Closers /\ x \notin {"advance", "LBRACE", "end_element"} /\ x \in DOMAIN Closes
  BY ClosesIs DEF Closers
<1>3. PICK o \in Seq(OpenKinds) :
        /\ Over(tok, open, o) /\ Suits(x, Top(o)) /\ Follows(x, First(t))
        /\ Len(o) >= 1 /\ Fits(t, Front(o))
  BY <1>1, <1>2, Inside
<1>4. Loose(t)
  BY <1>3, LooseBehind
<1> DEFINE f == Front(o)
<1>5. Top(o) = "str" /\ f \in Seq(OpenKinds) /\ Append(f, "str") = o
  <2>1. Top(o) \in Closes[x]
    BY <1>2, <1>3 DEF Suits
  <2>2. Top(o) = "str"
    BY <2>1, ClosesIs
  <2> QED BY <1>3, <2>2, FrontAppend, OpenFront
<1>6. Light(<<x>>) /\ Grows(<<x>>, f, o)
  <2>1. \A q \in Seq(OpenKinds) : Grows(<<x>>, q, Append(q, "str"))
    BY StringWraps
  <2>2. Grows(<<x>>, f, Append(f, "str"))
    BY <1>5, <2>1
  <2>3. Light(<<x>>)
    BY StringWraps
  <2> QED BY <1>5, <2>2, <2>3
<1>7. Light(<<"expr", "INTERP_END", x>>) /\ Grows(<<"expr", "INTERP_END", x>>, f, Append(o, "interp"))
  <2> DEFINE u == <<"expr">>
             y == "INTERP_END"
             k == "interp"
             v == <<x>>
  <2>1. u \in Seq(Code \cup Saves)
    BY DEF Code
  <2>2. y \in {"RBRACE", "INTERP_END", "CTRL_END"} /\ k \in {"brace", "interp", "ctrl"} /\ <<y, k>> \in Pairs
    BY DEF Pairs
  <2>3. <<"expr", "INTERP_END", x>> = u \o (<<y>> \o v)
    <3>1. <<"expr", "INTERP_END", x>> = <<"expr">> \o <<"INTERP_END", x>>
      BY Split1And2
    <3>2. <<"INTERP_END", x>> = <<"INTERP_END">> \o <<x>>
      BY Split1And1
    <3> QED BY <3>1, <3>2
  <2>4. Light(v) /\ Grows(v, f, o) /\ f \in Seq(OpenKinds)
    BY <1>5, <1>6
  <2> HIDE DEF u, y, k, v, f
  <2>5. Grows(u \o (<<y>> \o v), f, Append(o, k)) /\ Light(u \o (<<y>> \o v))
    BY <2>1, <2>2, <2>4, GrowsAround
  <2> QED BY <2>3, <2>5 DEF k
<1>8. Light(<<>>) /\ Grows(<<>>, f, f)
  BY NothingGrows
<1> HIDE DEF f, t
<1>9. ASSUME tok = "STR_TEXT", Eat(<<x>>) PROVE Nests
  <2>1. open = o /\ tok # "EOF" /\ Moved(<<x>>)
    BY <1>3, <1>9, QuietIs, StepsAre DEF Turning
  <2>2. SilentNest'
    BY <1>1, <1>3, <1>4, <1>6, <2>1, MovedNests DEF t, f
  <2> QED BY <2>2 DEF Nests
<1>10. ASSUME tok = "INTERP_START", Eat(<<"expr", "INTERP_END", x>>) PROVE Nests
  <2> DEFINE w == <<"expr", "INTERP_END", x>>
  <2>1. Light(w) /\ Grows(w, f, Append(o, "interp")) /\ Eat(w)
    BY <1>7, <1>10
  <2> HIDE DEF w
  <2>2. open = Append(o, "interp") /\ tok # "EOF" /\ Moved(w)
    BY <1>3, <1>10, <2>1, TakenIs, StepsAre DEF Over
  <2>3. SilentNest'
    BY <1>1, <1>3, <1>4, <2>1, <2>2, MovedNests DEF t, f
  <2> QED BY <2>3 DEF Nests
<1>11. ASSUME tok = "STR_END", Eat(<<>>) PROVE Nests
  <2>1. open = f /\ tok # "EOF" /\ Moved(<<>>)
    BY <1>3, <1>11, TakenIs, StepsAre DEF Over, f
  <2>2. SilentNest'
    BY <1>1, <1>3, <1>4, <1>8, <2>1, MovedNests DEF t, f
  <2> QED BY <2>2 DEF Nests
<1>12. ASSUME tok \notin {"STR_TEXT", "INTERP_START", "STR_END"}, Go(<<>>) PROVE Nests
  <2>1. tok = "EOF"
    <3> SUFFICES ASSUME tok # "EOF" PROVE FALSE
      OBVIOUS
    <3>1. Possible(o, tok)
      BY <1>3 DEF Over
    <3>2. Lex!Mode(o) = "STR"
      BY <1>5, ModeIs
    <3> QED BY <1>12, <3>1, <3>2 DEF Possible
  <2>2. open \in Seq(OpenKinds)
    BY NextIs
  <2>3. Over(tok, open, f)
    BY <1>3, <1>5, <2>1, <2>2, OverFront DEF f
  <2>4. Still(<<>>)
    BY <1>12, StepsAre
  <2>5. SilentNest'
    BY <1>1, <1>3, <1>4, <1>5, <1>8, <2>3, <2>4, StillNests DEF t, f
  <2> QED BY <2>5 DEF Nests
<1>13. \/ tok = "STR_TEXT" /\ Eat(<<x>>)
       \/ tok = "INTERP_START" /\ Eat(<<"expr", "INTERP_END", x>>)
       \/ tok = "STR_END" /\ Eat(<<>>)
       \/ tok \notin {"STR_TEXT", "INTERP_START", "STR_END"} /\ Go(<<>>)
  BY DEF String
<1> QED BY <1>9, <1>10, <1>11, <1>12, <1>13

(* Recovery begins with a report. *)
LEMMA SteersNest ==
    ASSUME StackInv, HistInv, NEW x \in Steers, At(x), reported' = reported
    PROVE  Nests
BY Steering DEF Nests

LEMMA RecoveryNests ==
    ASSUME StackInv, HistInv, SilentNest, Drop \/ Synchronize \/ ForceAdvance
    PROVE  Nests
<1>1. "drop" \in Steers /\ "synchronize" \in Steers /\ "force" \in Steers
  BY DEF Steers
<1>2. At("drop") \/ At("synchronize") \/ At("force")
  BY DEF Drop, Synchronize, ForceAdvance
<1>3. reported' = reported
  BY DEF Drop, Synchronize, ForceAdvance, Eat, Go, Forget
<1> QED BY <1>1, <1>2, <1>3, SteersNest

-----------------------------------------------------------------------------
(* The end of an element.                                                    *)

LEMMA BackOff ==
    ASSUME NEW o \in Seq(OpenKinds), NEW k \in OpenKinds
    PROVE  Front(Append(o, k)) = o
<1> DEFINE s == Append(o, k)
<1>1. s \in Seq(OpenKinds) /\ Len(s) = Len(o) + 1 /\ Len(o) \in Nat /\ \A i \in 1 .. Len(o) : s[i] = o[i]
  OBVIOUS
<1>2. Front(s) = SubSeq(s, 1, Len(s) - 1)
  BY DEF Front
<1> HIDE DEF s
<1>3. Front(s) = SubSeq(s, 1, Len(o))
  BY <1>1, <1>2
<1>4. /\ SubSeq(s, 1, Len(o)) \in Seq(OpenKinds) /\ Len(SubSeq(s, 1, Len(o))) = Len(o)
      /\ \A i \in 1 .. Len(o) : SubSeq(s, 1, Len(o))[i] = s[i]
  BY <1>1
<1>5. \A i \in 1 .. Len(o) : SubSeq(s, 1, Len(o))[i] = o[i]
  BY <1>1, <1>4
<1>6. SubSeq(s, 1, Len(o)) = o
  BY <1>1, <1>4, <1>5, SeqEqual
<1> QED BY <1>3, <1>6 DEF s

LEMMA EndElementNests ==
    ASSUME StackInv, HistInv, SilentNest, EndElement
    PROVE  Nests
<1> DEFINE t == Tail(todo)
           x == "end_element"
<1>1. IsStack(todo) /\ todo # <<>> /\ Head(todo) = x /\ IsStack(t) /\ First(todo) = x /\ todo[1] = x
  BY TailIs DEF StackInv, EndElement, At, First
<1>2. x \in Closers /\ x \notin EndsElement \cup {"unit", "advance", "children", "strays"}
  BY ClosesIs DEF Closers, EndsElement
<1>3. PICK o \in Seq(OpenKinds) :
        Over(tok, open, o) /\ \E what \in {"tag", "elem", "closing"} : Fits(todo, Append(o, what))
  BY <1>1 DEF SilentNest, Nest, Ahead
<1>4. PICK what \in {"tag", "elem", "closing"} : Fits(todo, Append(o, what))
  BY <1>3
<1>5. what \in OpenKinds /\ Append(o, what) \in Seq(OpenKinds) /\ Len(Append(o, what)) >= 1
  <2>1. what \in OpenKinds
    BY DEF OpenKinds
  <2> QED BY <2>1
<1>6. Front(Append(o, what)) = o
  BY <1>5, BackOff
<1>7. Fits(t, o) /\ Follows(x, First(t))
  BY <1>1, <1>2, <1>4, <1>5, <1>6, FitsPop
<1>8. Loose(t)
  BY <1>2, <1>7, AfterIsLoose
<1>9. Still(<<>>)
  BY StepsAre DEF EndElement
<1>10. Light(<<>>) /\ Grows(<<>>, o, o)
  BY NothingGrows
<1> HIDE DEF t
<1>11. SilentNest'
  BY <1>1, <1>3, <1>7, <1>8, <1>9, <1>10, StillNests DEF t
<1> QED BY <1>11 DEF Nests

-----------------------------------------------------------------------------
(* Tags.                                                                     *)

NoAdvance(t) == \A j \in 1 .. Len(t) : t[j] # "advance"

LEMMA FitsNext ==
    ASSUME NEW x \in Words, x # "advance", NEW t, IsStack(t), NoAdvance(t),
           NEW o \in Seq(OpenKinds), Fits(t, o),
           NEW p \in Seq(OpenKinds), Len(p) = Len(o) + One(x, Closers), Agree(p, o),
           Suits(x, Top(p)), Follows(x, First(t))
    PROVE  Fits(<<x>> \o t, p) /\ IsStack(<<x>> \o t) /\ First(<<x>> \o t) = x /\ NoAdvance(<<x>> \o t)
<1> DEFINE s == <<x>> \o t
<1>1. \A i \in 1 .. Len(t) : t[i] = "advance" => i = 1
  BY DEF NoAdvance
<1>2. Fits(s, p) /\ IsStack(s) /\ First(s) = x /\ Len(s) = 1 + Len(t) /\ \A i \in 1 .. Len(t) : s[1 + i] = t[i]
  BY <1>1, FitsCons
<1> HIDE DEF s
<1>3. NoAdvance(s)
  <2>1. SUFFICES ASSUME NEW j \in 1 .. Len(s) PROVE s[j] # "advance"
    BY DEF NoAdvance
  <2>2. Len(t) \in Nat
    BY StackHasLen
  <2>3. CASE j = 1
    <3>1. s[1] = x
      BY <1>2, <2>2 DEF First
    <3> QED BY <2>3, <3>1
  <2>4. CASE j # 1
    <3>1. j - 1 \in 1 .. Len(t) /\ 1 + (j - 1) = j
      BY <1>2, <2>1, <2>2, <2>4
    <3>2. s[1 + (j - 1)] = t[j - 1]
      BY <1>2, <3>1
    <3> QED BY <3>1, <3>2 DEF NoAdvance
  <2> QED BY <2>3, <2>4
<1> QED BY <1>2, <1>3 DEF s

LEMMA SameAgree ==
    ASSUME NEW o \in Seq(OpenKinds), NEW x, x \notin Closers
    PROVE  Len(o) = Len(o) + One(x, Closers) /\ Agree(o, o)
BY DEF One, Agree

LEMMA Unfold2 ==
    ASSUME NEW a, NEW b, NEW t, IsStack(t)
    PROVE  <<a, b>> \o t = <<a>> \o (<<b>> \o t)
<1> DEFINE u == <<a>>
           v == <<b>>
<1>1. IsStack(u) /\ IsStack(v)
  BY TallyOne
<1>2. <<a, b>> = u \o v
  BY Split1And1
<1> HIDE DEF u, v
<1>3. (u \o v) \o t = u \o (v \o t)
  BY <1>1, Regroup
<1> QED BY <1>2, <1>3 DEF u, v

LEMMA Unfold6 ==
    ASSUME NEW a, NEW b, NEW c, NEW d, NEW e, NEW f, NEW t, IsStack(t)
    PROVE  <<a, b, c, d, e, f>> \o t
             = <<a>> \o (<<b>> \o (<<c>> \o (<<d>> \o (<<e>> \o (<<f>> \o t)))))
<1> DEFINE A == <<a>>
           B == <<b>>
           C == <<c>>
           D == <<d>>
           E == <<e>>
           F == <<f>>
           u == <<a, b, c>>
           v == <<d, e, f>>
<1>1. <<a, b, c, d, e, f>> = u \o v
  BY Split3And3
<1>2. u = A \o (B \o C)
  <2>1. u = A \o <<b, c>>
    BY Split1And2
  <2>2. <<b, c>> = B \o C
    BY Split1And1
  <2> QED BY <2>1, <2>2
<1>3. v = D \o (E \o F)
  <2>1. v = D \o <<e, f>>
    BY Split1And2
  <2>2. <<e, f>> = E \o F
    BY Split1And1
  <2> QED BY <2>1, <2>2
<1>4. IsStack(A) /\ IsStack(B) /\ IsStack(C) /\ IsStack(D) /\ IsStack(E) /\ IsStack(F)
  BY TallyOne
<1> HIDE DEF A, B, C, D, E, F, u, v
<1>5. IsStack(B \o C) /\ IsStack(E \o F)
  BY <1>4, ConcatIs
<1>6. IsStack(u) /\ IsStack(v)
  BY <1>2, <1>3, <1>4, <1>5, ConcatIs
<1>7. (u \o v) \o t = u \o (v \o t)
  BY <1>6, Regroup
<1> DEFINE y1 == E \o F
           y2 == B \o C
           z1 == F \o t
           z2 == E \o z1
           z3 == D \o z2
           z4 == C \o z3
           z5 == B \o z4
<1>8. y1 \o t = z2
  <2>1. IsStack(E) /\ IsStack(F)
    BY <1>4
  <2> QED BY <2>1, Regroup
<1>9. v = D \o y1 /\ u = A \o y2 /\ IsStack(y1) /\ IsStack(y2)
  BY <1>2, <1>3, <1>5
<1> HIDE DEF y1, z1, z2
<1>10. (D \o y1) \o t = D \o (y1 \o t)
  <2>1. IsStack(D) /\ IsStack(y1)
    BY <1>4, <1>9
  <2> QED BY <2>1, Regroup
<1>11. v \o t = z3
  BY <1>8, <1>9, <1>10
<1>12. IsStack(z3)
  <2>1. IsStack(v \o t)
    BY <1>6, ConcatIs
  <2> QED BY <2>1, <1>11
<1> HIDE DEF z3
<1>13. y2 \o z3 = z5
  <2>1. IsStack(B) /\ IsStack(C)
    BY <1>4
  <2> QED BY <2>1, <1>12, Regroup
<1> HIDE DEF y2, z4, z5
<1>14. (A \o y2) \o z3 = A \o (y2 \o z3)
  <2>1. IsStack(A) /\ IsStack(y2)
    BY <1>4, <1>9
  <2> QED BY <2>1, <1>12, Regroup
<1>15. u \o z3 = A \o z5
  BY <1>9, <1>13, <1>14
<1>16. (u \o v) \o t = A \o z5
  BY <1>7, <1>11, <1>15
<1> QED BY <1>1, <1>16 DEF A, B, C, D, E, F, z1, z2, z3, z4, z5

(* A tag is pushed above what is loose. *)
LEMMA TagFits ==
    ASSUME NEW t, IsStack(t), Loose(t), NEW o \in Seq(OpenKinds), Fits(t, o)
    PROVE  LET s == Tag \o t
           IN  Fits(s, Append(o, "tag")) /\ First(s) = "advance" /\ After(s, 1) = "tag_name" /\ IsStack(s)
<1> DEFINE p == Append(o, "tag")
           t1 == <<Saved>> \o t
           t2 == <<"end_element">> \o t1
           t3 == <<"tag_end">> \o t2
           t4 == <<"attributes">> \o t3
           t5 == <<"tag_name">> \o t4
           t6 == <<"advance">> \o t5
<1>1. Tag \o t = t6
  BY Unfold6 DEF Tag
<1>2. p \in Seq(OpenKinds) /\ Len(p) = Len(o) + 1 /\ Agree(p, o) /\ Top(p) = "tag"
  BY AppendIs DEF OpenKinds
<1>3. NoAdvance(t)
  BY NoneToAdvance DEF NoAdvance
<1>4. Fits(t1, o) /\ IsStack(t1) /\ First(t1) = Saved /\ NoAdvance(t1)
  <2>1. Saved \in Saves /\ Saved \in Code \cup Saves
    BY DEF Saved, Saves
  <2>2. /\ Saved \in Words /\ Saved \notin Closers /\ Saved # "advance"
        /\ Saved \notin ElemWords \cup TagWords \cup ClosingWords
    BY <2>1, CodeIs
  <2>3. Saved \notin CodeWords
    BY <2>1 DEF Saves, CodeWords, Code
  <2>4. Suits(Saved, Top(o))
    BY <2>2, <2>3 DEF Suits, Closers
  <2>5. Follows(Saved, First(t))
    BY <2>1, CodeFollows DEF Loose
  <2>6. Len(o) = Len(o) + One(Saved, Closers) /\ Agree(o, o)
    BY <2>2, SameAgree
  <2> QED BY <1>3, <2>2, <2>4, <2>5, <2>6, FitsNext
<1> HIDE DEF t1, p
<1>5. Fits(t2, p) /\ IsStack(t2) /\ First(t2) = "end_element" /\ NoAdvance(t2)
  <2> DEFINE x == "end_element"
  <2>1. x \in Words /\ x # "advance" /\ x \in Closers /\ x \in DOMAIN Closes
    BY ClosesIs DEF Words, Closers
  <2>2. Suits(x, "tag")
    <3>1. /\ x \notin CodeWords /\ x \notin ElemWords /\ x \notin TagWords /\ x \notin ClosingWords
          /\ x \notin CtrlWords
      BY DEF CodeWords, Code, ElemWords, ArmsWords, TagWords, ClosingWords, CtrlWords
    <3>2. "tag" \in Closes[x]
      BY ClosesIs
    <3> QED BY <3>1, <3>2 DEF Suits
  <2>3. First(t1) \in Code \cup Saves
    BY <1>4 DEF Saved, Saves
  <2>4. First(t1) \notin Heads /\ First(t1) # None
    BY <2>3, CodeIs
  <2>5. Follows(x, First(t1))
    <3>1. x \notin EndsElement /\ x \notin CtrlWords \cup ArmsWords
      BY DEF EndsElement, CtrlWords, ArmsWords
    <3> QED BY <2>4, <3>1 DEF Follows, Heads
  <2>6. Len(p) = Len(o) + One(x, Closers)
    BY <1>2, <2>1 DEF One
  <2> HIDE DEF x
  <2>7. Fits(<<x>> \o t1, p) /\ IsStack(<<x>> \o t1) /\ First(<<x>> \o t1) = x /\ NoAdvance(<<x>> \o t1)
    BY <1>2, <1>4, <2>1, <2>2, <2>5, <2>6, FitsNext
  <2> QED BY <2>7 DEF x
<1> HIDE DEF t2
<1>6. ASSUME NEW x \in {"tag_end", "attributes", "tag_name"}, NEW s, IsStack(s), Fits(s, p), NoAdvance(s),
             x = "tag_end" => First(s) = "end_element", x = "attributes" => First(s) = "tag_end",
             x = "tag_name" => First(s) = "attributes"
      PROVE  Fits(<<x>> \o s, p) /\ IsStack(<<x>> \o s) /\ First(<<x>> \o s) = x /\ NoAdvance(<<x>> \o s)
  <2>1. x \in Words /\ x # "advance" /\ x \in TagWords
    BY <1>6 DEF Words, TagWords
  <2>2. /\ x \notin DOMAIN Closes /\ x \notin CtrlWords /\ x \notin CodeWords /\ x \notin ElemWords
        /\ x \notin ClosingWords
    BY <1>6, ClosesIs DEF CodeWords, Code, ElemWords, ArmsWords, ClosingWords, CtrlWords
  <2>3. Suits(x, Top(p)) /\ x \notin Closers
    BY <1>2, <2>2 DEF Suits, Closers
  <2>4. Follows(x, First(s))
    <3>1. x \notin CtrlWords \cup ArmsWords /\ (x \in EndsElement <=> x = "tag_end")
      BY <1>6 DEF CtrlWords, ArmsWords, EndsElement
    <3> QED BY <1>6, <3>1 DEF Follows, None, CtrlWords
  <2>5. Len(p) = Len(p) + One(x, Closers) /\ Agree(p, p)
    BY <1>2, <2>3, SameAgree
  <2> QED BY <1>2, <1>6, <2>1, <2>3, <2>4, <2>5, FitsNext
<1>7. Fits(t3, p) /\ IsStack(t3) /\ First(t3) = "tag_end" /\ NoAdvance(t3)
  BY <1>5, <1>6
<1> HIDE DEF t3
<1>8. Fits(t4, p) /\ IsStack(t4) /\ First(t4) = "attributes" /\ NoAdvance(t4)
  BY <1>6, <1>7
<1> HIDE DEF t4
<1>9. Fits(t5, p) /\ IsStack(t5) /\ First(t5) = "tag_name" /\ NoAdvance(t5)
  BY <1>6, <1>8
<1> HIDE DEF t5
<1>10. \A i \in 1 .. Len(t5) : t5[i] = "advance" => i = 1
  BY <1>9 DEF NoAdvance
<1>11. Fits(t6, p) /\ IsStack(t6) /\ First(t6) = "advance" /\ After(t6, 1) = "tag_name"
  BY <1>2, <1>9, <1>10, AdvanceFits DEF None
<1> HIDE DEF t6
<1> QED BY <1>1, <1>11 DEF p

LEMMA ElementNests ==
    ASSUME StackInv, HistInv, SilentNest, Element
    PROVE  Nests
<1>1. PICK x \in {"element_entering", "element_nested"} :
        /\ At(x)
        /\ \/ TooDeep
           \/ /\ Do(Tag) /\ open' = (IF x = "element_entering" THEN Lex!Entered(open) ELSE open)
              /\ UNCHANGED <<tok, next>>
  BY DEF Element
<1>2. CASE TooDeep
  BY <1>2, Speaks
<1>3. CASE /\ Do(Tag) /\ open' = (IF x = "element_entering" THEN Lex!Entered(open) ELSE open)
           /\ UNCHANGED <<tok, next>>
  <2> DEFINE t == Tail(todo)
             s == Tag \o t
  <2>1. IsStack(todo) /\ todo # <<>> /\ Head(todo) = x /\ IsStack(t) /\ First(todo) = x
    BY <1>1, TailIs DEF StackInv, At, First
  <2>2. x \notin Closers /\ x \notin {"advance", "LBRACE", "end_element"}
        /\ x \notin EndsElement \cup {"unit", "advance", "children", "strays"}
    BY ClosesIs DEF Closers, CtrlWords, EndsElement
  <2>3. PICK o \in Seq(OpenKinds) :
          Over(tok, open, o) /\ Suits(x, Top(o)) /\ Follows(x, First(t)) /\ Fits(t, o)
    BY <2>1, <2>2, Inside
  <2>4. Loose(t)
    BY <2>2, <2>3, AfterIsLoose
  <2>5. tok = "MARKUP_START"
    BY <2>1 DEF SilentNest, Nest
  <2>6. open' = Append(o, "tag")
    <3>1. open = Lex!Taken(o, "MARKUP_START")
      BY <2>3, <2>5 DEF Over
    <3>2. x = "element_entering" => Top(o) \in CodeKinds
      BY <2>3 DEF Suits, CodeWords
    <3>3. x = "element_nested" => Top(o) = "elem"
      BY <2>3 DEF Suits, ElemWords
    <3> QED BY <1>3, <3>1, <3>2, <3>3, TakenIs DEF Lex!Entered
  <2>7. Fits(s, Append(o, "tag")) /\ First(s) = "advance" /\ After(s, 1) = "tag_name" /\ IsStack(s)
    BY <2>1, <2>3, <2>4, TagFits
  <2>8. Append(o, "tag") \in Seq(OpenKinds)
    BY AppendIs DEF OpenKinds
  <2>9. todo' = s
    BY <1>3 DEF Do
  <2> HIDE DEF s, t
  <2>10. Len(s) # 0
    BY <2>7 DEF First, None
  <2>11. next = None
    BY <2>5, NextIs DEF Peeked, Ident
  <2>12. Nest(s, tok, Append(o, "tag"), next)
    BY <2>5, <2>7, <2>8, <2>10, <2>11 DEF Nest
  <2>13. SilentNest'
    BY <1>3, <2>6, <2>9, <2>12 DEF SilentNest
  <2> QED BY <2>13 DEF Nests
<1> QED BY <1>1, <1>2, <1>3

-----------------------------------------------------------------------------
(* Attributes, and the ends of tags.                                         *)

LEMMA InterpGrows ==
    ASSUME NEW o \in Seq(OpenKinds)
    PROVE  /\ Light(<<"expr", "INTERP_END">>) /\ IsStack(<<"expr", "INTERP_END">>)
           /\ Grows(<<"expr", "INTERP_END">>, o, Append(o, "interp"))
<1> DEFINE u == <<"expr">>
           y == "INTERP_END"
           k == "interp"
           v == <<>>
<1>1. u \in Seq(Code \cup Saves)
  BY DEF Code
<1>2. y \in {"RBRACE", "INTERP_END", "CTRL_END"} /\ k \in {"brace", "interp", "ctrl"} /\ <<y, k>> \in Pairs
  BY DEF Pairs
<1>3. <<"expr", "INTERP_END">> = u \o (<<y>> \o v)
  <2>1. <<"expr", "INTERP_END">> = <<"expr">> \o <<"INTERP_END">>
    BY Split1And1
  <2>2. <<"INTERP_END">> \o <<>> = <<"INTERP_END">>
    BY JustOne
  <2> QED BY <2>1, <2>2
<1>4. Light(v) /\ Grows(v, o, o)
  BY NothingGrows
<1> HIDE DEF u, y, k, v
<1>5. Grows(u \o (<<y>> \o v), o, Append(o, k)) /\ Light(u \o (<<y>> \o v))
  BY <1>1, <1>2, <1>4, GrowsAround
<1> QED BY <1>3, <1>5 DEF k, Light

LEMMA WordIs ==
    ASSUME NEW x
    PROVE  x \notin Heads /\ x # None => Light(<<x>>) /\ IsStack(<<x>>)
<1>1. IsStack(<<x>>) /\ <<x>>[1] = x
  BY TallyOne
<1> QED BY <1>1 DEF Light

LEMMA TagWordGrows ==
    ASSUME NEW x \in {"attributes", "attr_value", "value", "spread"}, NEW o \in Seq(OpenKinds), Top(o) = "tag"
    PROVE  Grows(<<x>>, o, o) /\ Light(<<x>>) /\ IsStack(<<x>>)
<1>1. x \in TagWords /\ x \in Words
  BY DEF TagWords, Words
<1>2. /\ x \notin DOMAIN Closes /\ x \notin CtrlWords /\ x \notin CodeWords /\ x \notin ElemWords
      /\ x \notin ClosingWords
  BY ClosesIs DEF CodeWords, Code, ElemWords, ArmsWords, ClosingWords, CtrlWords
<1>3. Suits(x, Top(o)) /\ x \notin Closers /\ Easy(x)
  BY <1>2 DEF Suits, Closers, Easy, EndsElement, ArmsWords
<1>4. x \notin Heads /\ x # None
  BY <1>2 DEF Heads, None
<1> QED BY <1>1, <1>3, <1>4, GrowsSame, WordIs

LEMMA TagWordsGrow ==
    ASSUME NEW x \in {"attr_value", "spread"}, NEW o \in Seq(OpenKinds), Top(o) = "tag"
    PROVE  Grows(<<x, "attributes">>, o, o) /\ Light(<<x, "attributes">>)
<1> DEFINE u == <<x>>
           v == <<"attributes">>
<1>1. Grows(u, o, o) /\ Light(u) /\ IsStack(u) /\ Grows(v, o, o) /\ Light(v)
  BY TagWordGrows
<1>2. <<x, "attributes">> = u \o v
  BY Split1And1
<1> HIDE DEF u, v
<1>3. Grows(u \o v, o, o) /\ Light(u \o v)
  BY <1>1, GrowsChain, LightChain
<1> QED BY <1>2, <1>3

LEMMA InATag ==
    ASSUME StackInv, SilentNest, NEW x \in {"tag_name", "attributes", "attr_value", "value", "spread"}, At(x)
    PROVE  /\ IsStack(Tail(todo)) /\ Loose(Tail(todo))
           /\ \E o \in Seq(OpenKinds) : Over(tok, open, o) /\ Top(o) = "tag" /\ Fits(Tail(todo), o)
<1>1. IsStack(todo) /\ todo # <<>> /\ Head(todo) = x /\ IsStack(Tail(todo))
  BY TailIs DEF StackInv, At
<1>2. x \notin Closers /\ x \notin {"advance", "LBRACE", "end_element"}
      /\ x \notin EndsElement \cup {"unit", "advance", "children", "strays"} /\ x \in TagWords
  BY ClosesIs DEF Closers, CtrlWords, EndsElement, TagWords
<1>3. PICK o \in Seq(OpenKinds) :
        Over(tok, open, o) /\ Suits(x, Top(o)) /\ Follows(x, First(Tail(todo))) /\ Fits(Tail(todo), o)
  BY <1>1, <1>2, Inside
<1>4. Loose(Tail(todo))
  BY <1>2, <1>3, AfterIsLoose
<1>5. Top(o) = "tag"
  BY <1>2, <1>3 DEF Suits
<1> QED BY <1>1, <1>3, <1>4, <1>5

LEMMA TagSteps ==
    ASSUME HistInv, SilentNest, IsStack(Tail(todo)), Loose(Tail(todo)),
           NEW o \in Seq(OpenKinds), Over(tok, open, o), Fits(Tail(todo), o)
    PROVE  /\ \A w : Light(w) /\ Grows(w, o, o) /\ Go(w) => Nests
           /\ \A w : Light(w) /\ Grows(w, o, o) /\ Eat(w) /\ tok \notin Turning \cup {"MARKUP_START", "EOF"}
                    => Nests
           /\ tok = "STR_START" /\ Eat(<<"string">>) => Nests
           /\ tok = "INTERP_START" /\ Eat(<<"expr", "INTERP_END">>) => Nests
<1>1. ASSUME NEW w, Light(w), Grows(w, o, o), Go(w) PROVE Nests
  <2>1. Still(w)
    BY <1>1, StepsAre
  <2>2. SilentNest'
    BY <1>1, <2>1, StillNests
  <2> QED BY <2>2 DEF Nests
<1>2. ASSUME NEW w, Light(w), NEW p, Grows(w, o, p), open = p, tok # "EOF", Eat(w) PROVE Nests
  <2>1. Moved(w)
    BY <1>2, StepsAre
  <2>2. SilentNest'
    BY <1>2, <2>1, MovedNests
  <2> QED BY <2>2 DEF Nests
<1>3. ASSUME NEW w, Light(w), Grows(w, o, o), Eat(w), tok \notin Turning \cup {"MARKUP_START", "EOF"} PROVE Nests
  <2>1. open = o /\ tok # "EOF"
    BY <1>3, QuietIs
  <2> QED BY <1>2, <1>3, <2>1
<1>4. ASSUME tok = "STR_START", Eat(<<"string">>) PROVE Nests
  <2> DEFINE w == <<"string">>
             p == Append(o, "str")
  <2>1. Light(w)
    BY StringWraps
  <2>2. \A q \in Seq(OpenKinds) : Grows(w, q, Append(q, "str"))
    BY StringWraps
  <2>3. Grows(w, o, p)
    BY <2>2
  <2>4. open = p /\ tok # "EOF"
    BY <1>4, TakenIs DEF Over
  <2> HIDE DEF p
  <2> QED BY <1>2, <1>4, <2>1, <2>3, <2>4
<1>5. ASSUME tok = "INTERP_START", Eat(<<"expr", "INTERP_END">>) PROVE Nests
  <2> DEFINE w == <<"expr", "INTERP_END">>
             p == Append(o, "interp")
  <2>1. Light(w) /\ Grows(w, o, p) /\ Eat(w)
    BY <1>5, InterpGrows
  <2>2. open = p /\ tok # "EOF"
    BY <1>5, TakenIs DEF Over
  <2> HIDE DEF p, w
  <2> QED BY <1>2, <2>1, <2>2
<1> QED BY <1>1, <1>3, <1>4, <1>5

LEMMA AttributesNests ==
    ASSUME StackInv, HistInv, SilentNest, Attributes
    PROVE  Nests
<1>1. PICK x \in {"tag_name", "attributes", "attr_value", "value", "spread"} : At(x)
  BY DEF Attributes
<1>2. /\ IsStack(Tail(todo)) /\ Loose(Tail(todo))
      /\ \E o \in Seq(OpenKinds) : Over(tok, open, o) /\ Top(o) = "tag" /\ Fits(Tail(todo), o)
  BY <1>1, InATag
<1>3. PICK o \in Seq(OpenKinds) : Over(tok, open, o) /\ Top(o) = "tag" /\ Fits(Tail(todo), o)
  BY <1>2
<1>4. /\ \A w : Light(w) /\ Grows(w, o, o) /\ Go(w) => Nests
      /\ \A w : Light(w) /\ Grows(w, o, o) /\ Eat(w) /\ tok \notin Turning \cup {"MARKUP_START", "EOF"}
               => Nests
      /\ tok = "STR_START" /\ Eat(<<"string">>) => Nests
      /\ tok = "INTERP_START" /\ Eat(<<"expr", "INTERP_END">>) => Nests
  BY <1>2, <1>3, TagSteps
<1>5. \A w : Unexpected(w) \/ Report(w) => Nests
  BY Speaks
<1>6. tok \in {"TAG_NAME", "ATTR_NAME", "ATTR_EQ", "ELLIPSIS"} => tok \notin Turning \cup {"MARKUP_START", "EOF"}
  BY DEF Turning
<1>7. Light(<<>>) /\ Grows(<<>>, o, o)
  BY NothingGrows
<1>8. Light(<<"value">>) /\ Grows(<<"value">>, o, o)
  BY <1>3, TagWordGrows
<1>9. Light(<<"attr_value", "attributes">>) /\ Grows(<<"attr_value", "attributes">>, o, o)
  BY <1>3, TagWordsGrow
<1>10. Light(<<"spread", "attributes">>) /\ Grows(<<"spread", "attributes">>, o, o)
  BY <1>3, TagWordsGrow
<1>11. Go(<<>>) => Nests
  BY <1>4, <1>7
<1>12. tok \in {"TAG_NAME", "ATTR_NAME"} /\ Eat(<<>>) => Nests
  BY <1>4, <1>6, <1>7
<1>13. tok = "ATTR_EQ" /\ Eat(<<"value">>) => Nests
  BY <1>4, <1>6, <1>8
<1>14. tok = "ATTR_NAME" /\ Eat(<<"attr_value", "attributes">>) => Nests
  BY <1>4, <1>6, <1>9
<1>15. tok = "ELLIPSIS" /\ Eat(<<"spread", "attributes">>) => Nests
  BY <1>4, <1>6, <1>10
<1>16. \/ tok = "TAG_NAME" /\ Eat(<<>>)
       \/ tok = "ATTR_NAME" /\ Eat(<<"attr_value", "attributes">>)
       \/ tok = "ELLIPSIS" /\ Eat(<<"spread", "attributes">>)
       \/ Go(<<>>)
       \/ tok = "ATTR_EQ" /\ Eat(<<"value">>)
       \/ tok = "STR_START" /\ Eat(<<"string">>)
       \/ tok = "ATTR_NAME" /\ Eat(<<>>)
       \/ tok = "INTERP_START" /\ Eat(<<"expr", "INTERP_END">>)
       \/ Unexpected(<<>>) \/ Report(<<>>)
  BY DEF Attributes, Match, NameOr
<1> QED BY <1>4, <1>5, <1>11, <1>12, <1>13, <1>14, <1>15, <1>16

-----------------------------------------------------------------------------
(* The closing tag.                                                          *)

(* What ends an element does it in a tag, in content and in a closing tag.   *)
LEMMA FitsRetop ==
    ASSUME NEW t, IsStack(t), t # <<>>, t[1] = "end_element", NoAdvance(Tail(t)),
           NEW o \in Seq(OpenKinds), Fits(t, o), NEW k \in {"tag", "elem", "closing"}
    PROVE  Fits(t, Append(Front(o), k)) /\ Front(o) \in Seq(OpenKinds)
<1> DEFINE x == "end_element"
           s == Tail(t)
           f == Front(o)
<1>1. x \in Words /\ x # "advance" /\ x \in Closers /\ x \in DOMAIN Closes
  BY ClosesIs DEF Words, Closers
<1>2. Len(o) >= 1 /\ Fits(s, f) /\ Follows(x, First(s))
  BY <1>1, FitsPop
<1>3. f \in Seq(OpenKinds)
  BY OpenFront
<1>4. k \in OpenKinds
  BY DEF OpenKinds
<1>5. Append(f, k) \in Seq(OpenKinds) /\ Len(Append(f, k)) = Len(f) + 1 /\ Agree(Append(f, k), f) /\ Top(Append(f, k)) = k
  BY <1>3, <1>4, AppendIs
<1>6. Suits(x, k)
  <2>1. /\ x \notin CodeWords /\ x \notin ElemWords /\ x \notin TagWords /\ x \notin ClosingWords
        /\ x \notin CtrlWords
    BY DEF CodeWords, Code, ElemWords, ArmsWords, TagWords, ClosingWords, CtrlWords
  <2>2. k \in Closes[x]
    BY ClosesIs
  <2> QED BY <2>1, <2>2 DEF Suits
<1>7. IsStack(s) /\ t = <<x>> \o s
  <2>1. Head(t) = x /\ IsStack(s)
    BY TailIs
  <2>2. t = <<Head(t)>> \o s
    BY HeadAndTail
  <2> QED BY <2>1, <2>2
<1>8. Len(Append(f, k)) = Len(f) + One(x, Closers)
  BY <1>1, <1>5 DEF One
<1> DEFINE p == Append(f, k)
<1>9. p \in Seq(OpenKinds) /\ Agree(p, f) /\ Len(p) = Len(f) + One(x, Closers) /\ Suits(x, Top(p))
  BY <1>5, <1>6, <1>8
<1>10. NoAdvance(s)
  OBVIOUS
<1> HIDE DEF s, f, p, x
<1>11. Fits(<<x>> \o s, p)
  BY <1>1, <1>2, <1>3, <1>7, <1>9, <1>10, FitsNext
<1> QED BY <1>3, <1>7, <1>11 DEF p, f

LEMMA Unfold3 ==
    ASSUME NEW a, NEW b, NEW c, NEW t, IsStack(t)
    PROVE  <<a, b, c>> \o t = <<a>> \o (<<b>> \o (<<c>> \o t))
<1> DEFINE A == <<a>>
           w == <<b, c>>
           z == <<b>> \o (<<c>> \o t)
<1>1. <<a, b, c>> = A \o w
  BY Split1And2
<1>2. w \o t = z
  BY Unfold2
<1>3. IsStack(A) /\ IsStack(w)
  <2>1. w \in Seq({b, c})
    OBVIOUS
  <2> QED BY <2>1, TallyOne DEF IsStack
<1> HIDE DEF A, w, z
<1>4. (A \o w) \o t = A \o (w \o t)
  BY <1>3, Regroup
<1>5. (A \o w) \o t = A \o z
  BY <1>2, <1>4
<1> QED BY <1>1, <1>5 DEF A, z

LEMMA NothingPushed ==
    ASSUME IsStack(Tail(todo)), Do(<<>>)
    PROVE  todo' = Tail(todo)
<1>1. <<>> \o Tail(todo) = Tail(todo)
  BY ConcatEmptySeq DEF IsStack
<1> QED BY <1>1 DEF Do

(* Behind what ends an element nothing is to advance. *)
LEMMA EndHolds ==
    ASSUME NEW t, IsStack(t), First(t) = "end_element", NEW o \in Seq(OpenKinds), Fits(t, o)
    PROVE  /\ t # <<>> /\ t[1] = "end_element" /\ NoAdvance(t) /\ NoAdvance(Tail(t))
           /\ Len(o) >= 1 /\ Front(o) \in Seq(OpenKinds)
<1> DEFINE x == "end_element"
           s == Tail(t)
<1>1. t # <<>> /\ t[1] = x /\ Len(t) # 0
  BY DEF First, None
<1>2. x \in Closers /\ x # "advance" /\ x \notin EndsElement \cup {"unit", "advance", "children", "strays"}
  BY ClosesIs DEF Closers, EndsElement
<1>3. Len(o) >= 1 /\ Fits(s, Front(o)) /\ Follows(x, First(s))
  BY <1>1, <1>2, FitsPop
<1>4. Front(o) \in Seq(OpenKinds)
  BY OpenFront
<1>5. Loose(s)
  BY <1>2, <1>3, AfterIsLoose
<1>6. IsStack(s) /\ Len(t) = 1 + Len(s) /\ Len(s) \in Nat /\ \A i \in 1 .. Len(s) : t[1 + i] = s[i]
  BY <1>1, PopIs, StackHasLen
<1>7. \A j \in 1 .. Len(s) : s[j] # "advance"
  BY <1>3, <1>4, <1>5, <1>6, NoneToAdvance
<1>8. NoAdvance(t)
  <2>1. SUFFICES ASSUME NEW j \in 1 .. Len(t) PROVE t[j] # "advance"
    BY DEF NoAdvance
  <2>2. CASE j = 1
    BY <1>1, <1>2, <2>2
  <2>3. CASE j # 1
    <3>1. j - 1 \in 1 .. Len(s) /\ 1 + (j - 1) = j
      BY <1>6, <2>3
    <3>2. t[1 + (j - 1)] = s[j - 1]
      BY <1>6, <3>1
    <3> QED BY <1>7, <3>1, <3>2
  <2> QED BY <2>2, <2>3
<1> QED BY <1>1, <1>3, <1>4, <1>7, <1>8 DEF NoAdvance

(* What ends an element is next, and no token was taken. *)
LEMMA EndStays ==
    ASSUME SilentNest, UNCHANGED <<tok, open, next>>, First(todo') = "end_element",
           NEW o \in Seq(OpenKinds), Over(tok, open, o), NEW what \in {"tag", "elem", "closing"},
           Fits(todo', Append(o, what))
    PROVE  SilentNest'
<1>1. open \in Seq(OpenKinds) /\ (next # None => Possible(open, next) /\ tok \in Peeked)
  BY NextIs
<1>2. Ahead(todo', o) /\ Len(todo') # 0
  BY DEF Ahead, First, None
<1>3. Nest(todo', tok, open, next)
  BY <1>1, <1>2 DEF Nest
<1> QED BY <1>3 DEF SilentNest

(* A word of content or of a closing tag is pushed. *)
LEMMA FitsWord ==
    ASSUME NEW x \in {"closing_name", "TAG_END", "children", "strays", "closing_tag"},
           NEW t, IsStack(t), NoAdvance(t), NEW o \in Seq(OpenKinds), Fits(t, o),
           x \in {"closing_name", "TAG_END"} => Top(o) = "closing",
           x \in {"children", "strays", "closing_tag"} => Top(o) = "elem",
           x \in {"TAG_END", "closing_tag"} => First(t) = "end_element",
           x = "closing_name" => First(t) = "TAG_END",
           x = "strays" => First(t) = "closing_tag",
           x = "children" => First(t) = "strays"
    PROVE  Fits(<<x>> \o t, o) /\ IsStack(<<x>> \o t) /\ First(<<x>> \o t) = x /\ NoAdvance(<<x>> \o t)
<1>1. x \in Words /\ x # "advance" /\ x \in ElemWords \cup ClosingWords
  BY DEF Words, ElemWords, ClosingWords
<1>2. /\ x \notin DOMAIN Closes /\ x \notin CtrlWords /\ x \notin CodeWords /\ x \notin TagWords
      /\ x \notin ArmsWords
  BY ClosesIs DEF CodeWords, Code, ArmsWords, TagWords, CtrlWords
<1>3. /\ x \in ElemWords => x \in {"children", "strays", "closing_tag"}
      /\ x \in ClosingWords => x \in {"closing_name", "TAG_END"}
  BY DEF ElemWords, ClosingWords, ArmsWords
<1>4. Suits(x, Top(o)) /\ x \notin Closers
  BY <1>2, <1>3 DEF Suits, Closers
<1>5. Follows(x, First(t))
  <2>1. x \in EndsElement <=> x \in {"TAG_END", "closing_tag"}
    BY DEF EndsElement
  <2>2. First(t) \notin CtrlWords
    BY DEF CtrlWords
  <2> QED BY <1>2, <2>1, <2>2 DEF Follows, None
<1>6. Len(o) = Len(o) + One(x, Closers) /\ Agree(o, o)
  BY <1>4, SameAgree
<1> QED BY <1>1, <1>4, <1>5, <1>6, FitsNext

LEMMA ClosingTagNests ==
    ASSUME StackInv, HistInv, SilentNest, ClosingTag
    PROVE  Nests
<1>1. PICK x \in {"closing_tag", "closing_name"} : At(x)
  BY DEF ClosingTag
<1> DEFINE t == Tail(todo)
<1>2. IsStack(todo) /\ todo # <<>> /\ Head(todo) = x /\ IsStack(t) /\ First(todo) = x
  BY <1>1, TailIs DEF StackInv, At, First
<1>3. x \notin Closers /\ x \notin {"advance", "LBRACE", "end_element"}
      /\ x \notin {"unit", "advance", "children", "strays"}
  BY ClosesIs DEF Closers, CtrlWords
<1>4. PICK o \in Seq(OpenKinds) :
        Over(tok, open, o) /\ Suits(x, Top(o)) /\ Follows(x, First(t)) /\ Fits(t, o)
  BY <1>2, <1>3, Inside
<1>5. CASE x = "closing_name"
  <2>1. x \notin EndsElement \cup {"unit", "advance", "children", "strays"}
    BY <1>5 DEF EndsElement
  <2>2. Loose(t)
    BY <1>4, <2>1, AfterIsLoose
  <2>3. tok = "TAG_NAME" => tok \notin Turning \cup {"MARKUP_START", "EOF"}
    BY DEF Turning
  <2>4. Light(<<>>) /\ Grows(<<>>, o, o)
    BY NothingGrows
  <2>5. /\ \A w : Light(w) /\ Grows(w, o, o) /\ Go(w) => Nests
        /\ \A w : Light(w) /\ Grows(w, o, o) /\ Eat(w) /\ tok \notin Turning \cup {"MARKUP_START", "EOF"}
                    => Nests
    BY <1>2, <1>4, <2>2, TagSteps
  <2>6. (tok = "TAG_NAME" /\ Eat(<<>>)) \/ Go(<<>>)
    BY <1>1, <1>5 DEF ClosingTag, Match, At
  <2> QED BY <2>3, <2>4, <2>5, <2>6
<1>6. CASE x = "closing_tag"
  <2>1. x \in EndsElement /\ x \in ElemWords
    BY <1>6 DEF EndsElement, ElemWords
  <2>2. First(t) = "end_element" /\ Top(o) = "elem"
    BY <1>4, <2>1 DEF Follows, Suits
  <2>3. tok \in {"TAG_CLOSE_START", "EOF"}
    BY <1>2, <1>6 DEF SilentNest, Nest
  <2>4. /\ t # <<>> /\ t[1] = "end_element" /\ NoAdvance(t) /\ NoAdvance(Tail(t))
        /\ Len(o) >= 1 /\ Front(o) \in Seq(OpenKinds)
    BY <1>2, <1>4, <2>2, EndHolds
  <2> HIDE DEF t
  <2>5. ASSUME tok = "TAG_CLOSE_START", Eat(<<"closing_name", "TAG_END">>) PROVE Nests
    <3> DEFINE p == Append(Front(o), "closing")
               t1 == <<"TAG_END">> \o t
               t2 == <<"closing_name">> \o t1
    <3>1. p \in Seq(OpenKinds) /\ Top(p) = "closing"
      <4>1. "closing" \in OpenKinds
        BY DEF OpenKinds
      <4> QED BY <2>4, <4>1, AppendIs
    <3>2. Fits(t, p)
      BY <1>2, <1>4, <2>4, FitsRetop
    <3>3. open = p
      BY <1>4, <2>5, TakenIs DEF Over
    <3> HIDE DEF p
    <3>4. Fits(t1, p) /\ IsStack(t1) /\ First(t1) = "TAG_END" /\ NoAdvance(t1)
      <4> DEFINE y == "TAG_END"
      <4>1. y \in {"closing_name", "TAG_END", "children", "strays", "closing_tag"} /\ y = "TAG_END"
        OBVIOUS
      <4> HIDE DEF y
      <4>2. Fits(<<y>> \o t, p) /\ IsStack(<<y>> \o t) /\ First(<<y>> \o t) = y /\ NoAdvance(<<y>> \o t)
        BY <1>2, <2>2, <2>4, <3>1, <3>2, <4>1, FitsWord
      <4> QED BY <4>2 DEF y
    <3> HIDE DEF t1
    <3>5. Fits(t2, p) /\ First(t2) = "closing_name"
      <4> DEFINE y == "closing_name"
      <4>1. y \in {"closing_name", "TAG_END", "children", "strays", "closing_tag"} /\ y = "closing_name"
        OBVIOUS
      <4> HIDE DEF y
      <4>2. Fits(<<y>> \o t1, p) /\ IsStack(<<y>> \o t1) /\ First(<<y>> \o t1) = y /\ NoAdvance(<<y>> \o t1)
        BY <3>1, <3>4, <4>1, FitsWord
      <4> QED BY <4>2 DEF y
    <3>6. todo' = t2 /\ TakeIn(open)
      <4>1. <<"closing_name", "TAG_END">> \o t = t2
        BY <1>2, Unfold2 DEF t1
      <4> QED BY <2>5, <4>1 DEF Eat, Do, Take, t
    <3> HIDE DEF t2
    <3>7. Free(todo') /\ Fits(todo', open)
      BY <3>3, <3>5, <3>6 DEF Free, None
    <3>8. SilentNest'
      BY <2>5, <3>6, <3>7, NextIs, Arrive
    <3> QED BY <3>8 DEF Nests
  <2>6. ASSUME tok = "EOF", Go(<<>>) PROVE Nests
    <3>1. todo' = t /\ UNCHANGED <<tok, open, next>>
      BY <1>2, <2>6, NothingPushed DEF Go, t, input
    <3>2. Over(tok, open, Front(o))
      BY <1>4, <2>2, <2>4, <2>6, NextIs, OverFront
    <3> DEFINE what == "elem"
    <3>3. what \in {"tag", "elem", "closing"} /\ Fits(t, Append(Front(o), what))
      BY <1>4, <2>2, <2>4, FrontAppend
    <3> HIDE DEF what
    <3>4. SilentNest'
      BY <2>2, <2>4, <3>1, <3>2, <3>3, EndStays
    <3> QED BY <3>4 DEF Nests
  <2>7. (tok = "TAG_CLOSE_START" /\ Eat(<<"closing_name", "TAG_END">>)) \/ (tok # "TAG_CLOSE_START" /\ Go(<<>>))
    BY <1>1, <1>6 DEF ClosingTag, Match, At
  <2> QED BY <2>3, <2>5, <2>6, <2>7
<1> QED BY <1>1, <1>5, <1>6

LEMMA TagEndNests ==
    ASSUME StackInv, HistInv, SilentNest, TagEnd
    PROVE  Nests
<1> DEFINE t == Tail(todo)
           x == "tag_end"
<1>1. IsStack(todo) /\ todo # <<>> /\ Head(todo) = x /\ IsStack(t)
  BY TailIs DEF StackInv, TagEnd, At
<1>2. x \notin Closers /\ x \notin {"advance", "LBRACE", "end_element"} /\ x \in EndsElement /\ x \in TagWords
  BY ClosesIs DEF Closers, CtrlWords, EndsElement, TagWords
<1>3. PICK o \in Seq(OpenKinds) :
        Over(tok, open, o) /\ Suits(x, Top(o)) /\ Follows(x, First(t)) /\ Fits(t, o)
  BY <1>1, <1>2, Inside
<1>4. First(t) = "end_element" /\ Top(o) = "tag"
  BY <1>2, <1>3 DEF Follows, Suits
<1>5. /\ t # <<>> /\ t[1] = "end_element" /\ NoAdvance(t) /\ NoAdvance(Tail(t))
      /\ Len(o) >= 1 /\ Front(o) \in Seq(OpenKinds)
  BY <1>1, <1>3, <1>4, EndHolds
<1> DEFINE f == Front(o)
           p == Append(f, "elem")
           what == "tag"
<1>6. what \in {"tag", "elem", "closing"} /\ Fits(t, Append(f, what))
  BY <1>3, <1>4, <1>5, FrontAppend
<1>7. p \in Seq(OpenKinds) /\ Top(p) = "elem" /\ Front(p) = f
  <2>1. "elem" \in OpenKinds
    BY DEF OpenKinds
  <2> QED BY <1>5, <2>1, AppendIs, BackOff
<1>8. tok = "TAG_END" => open = p
  BY <1>3, <1>4, TakenIs DEF Over
<1> HIDE DEF t, what
<1>9. ASSUME NEW q \in Seq(OpenKinds), q = f, tok \in {"TAG_SELF_CLOSE", "TAG_END"}, Do(<<>>), TakeIn(q) PROVE Nests
  <2>1. todo' = t
    BY <1>1, <1>9, NothingPushed DEF t
  <2>2. next = None /\ tok # "EOF"
    BY <1>9, NextIs DEF Peeked, Ident
  <2>3. SilentNest'
    BY <1>4, <1>6, <1>9, <2>1, <2>2, EndArrives
  <2> QED BY <2>3 DEF Nests
<1>10. ASSUME tok = "TAG_SELF_CLOSE", Eat(<<>>) PROVE Nests
  <2>1. open = f
    BY <1>3, <1>10, TakenIs DEF Over
  <2> QED BY <1>5, <1>9, <1>10, <2>1 DEF Eat, Take
<1>11. ASSUME tok = "TAG_END", Do(<<>>), TakeIn(Lex!Closed(open)) PROVE Nests
  <2>1. Lex!Mode(open) = "CONTENT"
    BY <1>7, <1>8, <1>11, ModeIs
  <2>2. Lex!Closed(open) = f
    BY <1>7, <1>8, <1>11, <2>1, FrontIsFront DEF Lex!Closed
  <2> QED BY <1>5, <1>9, <1>11, <2>2
<1>12. ASSUME tok = "TAG_END", Eat(<<"children", "strays", "closing_tag">>) PROVE Nests
  <2> DEFINE t1 == <<"closing_tag">> \o t
             t2 == <<"strays">> \o t1
             t3 == <<"children">> \o t2
  <2>1. Fits(t, p)
    BY <1>1, <1>3, <1>5, FitsRetop DEF t
  <2>2. open = p
    BY <1>8, <1>12
  <2> HIDE DEF p
  <2>3. Fits(t1, p) /\ IsStack(t1) /\ First(t1) = "closing_tag" /\ NoAdvance(t1)
    <3> DEFINE y == "closing_tag"
    <3>1. y \in {"closing_name", "TAG_END", "children", "strays", "closing_tag"} /\ y = "closing_tag"
      OBVIOUS
    <3> HIDE DEF y
    <3>2. Fits(<<y>> \o t, p) /\ IsStack(<<y>> \o t) /\ First(<<y>> \o t) = y /\ NoAdvance(<<y>> \o t)
      BY <1>1, <1>4, <1>5, <1>7, <2>1, <3>1, FitsWord DEF t
    <3> QED BY <3>2 DEF y
  <2> HIDE DEF t1
  <2>4. Fits(t2, p) /\ IsStack(t2) /\ First(t2) = "strays" /\ NoAdvance(t2)
    <3> DEFINE y == "strays"
    <3>1. y \in {"closing_name", "TAG_END", "children", "strays", "closing_tag"} /\ y = "strays"
      OBVIOUS
    <3> HIDE DEF y
    <3>2. Fits(<<y>> \o t1, p) /\ IsStack(<<y>> \o t1) /\ First(<<y>> \o t1) = y /\ NoAdvance(<<y>> \o t1)
      BY <1>7, <2>3, <3>1, FitsWord
    <3> QED BY <3>2 DEF y
  <2> HIDE DEF t2
  <2>5. Fits(t3, p) /\ First(t3) = "children"
    <3> DEFINE y == "children"
    <3>1. y \in {"closing_name", "TAG_END", "children", "strays", "closing_tag"} /\ y = "children"
      OBVIOUS
    <3> HIDE DEF y
    <3>2. Fits(<<y>> \o t2, p) /\ IsStack(<<y>> \o t2) /\ First(<<y>> \o t2) = y /\ NoAdvance(<<y>> \o t2)
      BY <1>7, <2>4, <3>1, FitsWord
    <3> QED BY <3>2 DEF y
  <2>6. todo' = t3 /\ TakeIn(open)
    <3>1. <<"children", "strays", "closing_tag">> \o t = t3
      BY <1>1, Unfold3 DEF t1, t2, t
    <3> QED BY <1>12, <3>1 DEF Eat, Do, Take, t
  <2> HIDE DEF t3
  <2>7. Free(todo') /\ Fits(todo', open)
    BY <2>2, <2>5, <2>6 DEF Free, None
  <2>8. SilentNest'
    BY <1>12, <2>6, <2>7, NextIs, Arrive
  <2> QED BY <2>8 DEF Nests
<1>13. \A w : Unexpected(w) => Nests
  BY Speaks
<1> QED BY <1>10, <1>11, <1>12, <1>13 DEF TagEnd

-----------------------------------------------------------------------------
(* Content.                                                                  *)

LEMMA FitsItself ==
    ASSUME SilentNest, First(todo) \notin {"advance", "LBRACE", "end_element"}
    PROVE  \E o \in Seq(OpenKinds) : Over(tok, open, o) /\ Fits(todo, o)
BY DEF SilentNest, Nest, Ahead

(* The content of an element is over, or what was passed over behind it. *)
LEMMA ContentEnds ==
    ASSUME SilentNest, UNCHANGED <<tok, open>>, next' # None => Possible(open, next') /\ tok \in Peeked,
           NEW o \in Seq(OpenKinds), Over(tok, open, o), Fits(todo', o),
           NEW x \in {"children", "strays"}, Follows(x, First(todo')),
           First(todo') = "strays" => tok \in {"TAG_CLOSE_START", "CTRL_START", "EOF"},
           First(todo') = "closing_tag" => tok \in {"TAG_CLOSE_START", "EOF"}
    PROVE  SilentNest'
<1>1. First(todo') \notin {"advance", "LBRACE", "element_entering", "element_nested", "end_element", None}
  BY DEF Follows, EndsElement
<1>2. Ahead(todo', o) /\ Len(todo') # 0
  BY <1>1 DEF Ahead, First
<1>3. open \in Seq(OpenKinds)
  BY NextIs
<1>4. Nest(todo', tok, open, next')
  BY <1>1, <1>2, <1>3 DEF Nest
<1> QED BY <1>4 DEF SilentNest

LEMMA StraysNests ==
    ASSUME StackInv, HistInv, SilentNest, Strays
    PROVE  Nests
<1>1. CASE At("to_ctrl_end")
  <2>1. "to_ctrl_end" \in Steers /\ ~ At("strays")
    BY <1>1 DEF Steers, At
  <2>2. reported' = reported
    BY <1>1, <2>1 DEF Strays, Eat, Go
  <2> QED BY <1>1, <2>1, <2>2, SteersNest
<1>2. CASE At("strays")
  <2> DEFINE t == Tail(todo)
             x == "strays"
  <2>1. IsStack(todo) /\ todo # <<>> /\ Head(todo) = x /\ IsStack(t) /\ First(todo) = x
    BY <1>2, TailIs DEF StackInv, At, First
  <2>2. x \notin Closers /\ x \notin {"advance", "LBRACE", "end_element"} /\ x \in {"children", "strays"}
    BY ClosesIs DEF Closers, CtrlWords
  <2>3. PICK o \in Seq(OpenKinds) :
          Over(tok, open, o) /\ Follows(x, First(t)) /\ Fits(t, o)
    BY <2>1, <2>2, Inside
  <2>4. tok \in {"TAG_CLOSE_START", "CTRL_START", "EOF"}
    BY <2>1 DEF SilentNest, Nest
  <2>5. First(t) # "strays"
    BY <2>3 DEF Follows
  <2> HIDE DEF x, t
  <2>6. ASSUME tok # "CTRL_START", Go(<<>>) PROVE Nests
    <3>1. todo' = t /\ UNCHANGED <<tok, open, next>>
      BY <2>1, <2>6, NothingPushed DEF Go, t, input
    <3>2. next' # None => Possible(open, next') /\ tok \in Peeked
      BY <3>1, NextIs
    <3>3. SilentNest'
      BY <2>2, <2>3, <2>4, <2>5, <2>6, <3>1, <3>2, ContentEnds
    <3> QED BY <3>3 DEF Nests
  <2>7. \A w : EatReporting(w) => Nests
    BY Speaks
  <2>8. (\E w : EatReporting(w)) \/ (tok # "CTRL_START" /\ Go(<<>>))
    BY <1>2 DEF Strays, At
  <2> QED BY <2>6, <2>7, <2>8
<1> QED BY <1>1, <1>2 DEF Strays

LEMMA ChildrenNests ==
    ASSUME StackInv, HistInv, SilentNest, Children
    PROVE  Nests
<1> DEFINE t == Tail(todo)
           x == "children"
           c == <<x>>
<1>1. /\ IsStack(todo) /\ todo # <<>> /\ Head(todo) = x /\ IsStack(t) /\ First(todo) = x /\ todo[1] = x
      /\ todo = c \o t
  <2>1. /\ IsStack(todo) /\ todo # <<>> /\ Head(todo) = x /\ IsStack(t) /\ First(todo) = x /\ todo[1] = x
    <3>1. IsStack(todo) /\ todo # <<>> /\ Head(todo) = x
      BY DEF StackInv, Children, At
    <3>2. IsStack(t) /\ Len(todo) \in Nat /\ Len(todo) >= 1 /\ Head(todo) = todo[1]
      BY <3>1, TailIs
    <3> QED BY <3>1, <3>2 DEF First
  <2>2. todo = <<Head(todo)>> \o t
    BY <2>1, HeadAndTail
  <2> QED BY <2>1, <2>2
<1>2. x \notin Closers /\ x \in ElemWords /\ x \notin Heads /\ x # None
  BY ClosesIs DEF Closers, CtrlWords, ElemWords, Heads, None
<1>3. PICK o \in Seq(OpenKinds) : Over(tok, open, o) /\ Fits(todo, o)
  BY <1>1, FitsItself
<1>4. Suits(x, Top(o)) /\ Follows(x, First(t)) /\ Fits(t, o)
  BY <1>1, <1>2, <1>3, FitsPop
<1>5. Top(o) = "elem" /\ Loose(todo) /\ Free(todo)
  BY <1>1, <1>2, <1>4, LooseIsFree DEF Suits, Loose
<1>6. IsStack(c)
  BY TallyOne
<1>7. First(t) # "closing_tag"
  BY <1>4 DEF Follows
<1>8. ASSUME tok \in {"MARKUP_TEXT", "MARKUP_COMMENT"}, Eat(c) PROVE Nests
  <2>1. open = o
    BY <1>3, <1>8, QuietIs DEF Turning
  <2>2. todo' = todo /\ TakeIn(open)
    BY <1>1, <1>8 DEF Eat, Do, Take
  <2>3. SilentNest'
    BY <1>3, <1>5, <1>8, <2>1, <2>2, NextIs, Arrive
  <2> QED BY <2>3 DEF Nests
<1>9. ASSUME tok = "INTERP_START", Eat(<<"expr", "INTERP_END", x>>) PROVE Nests
  <2> DEFINE u == <<"expr", "INTERP_END">>
  <2>1. Light(u) /\ IsStack(u) /\ Grows(u, o, Append(o, "interp"))
    BY InterpGrows
  <2>2. <<"expr", "INTERP_END", x>> = u \o c
    BY Split2And1
  <2> HIDE DEF u, c, t
  <2>3. (u \o c) \o t = u \o (c \o t)
    <3>1. IsStack(u) /\ IsStack(c) /\ IsStack(t)
      BY <1>1, <1>6, <2>1
    <3> QED BY <3>1, Regroup
  <2>4. todo' = u \o todo /\ TakeIn(open)
    BY <1>1, <1>9, <2>2, <2>3 DEF Eat, Do, Take, t
  <2>5. open = Append(o, "interp")
    BY <1>3, <1>9, TakenIs DEF Over
  <2>6. Fits(todo', open)
    BY <1>1, <1>3, <1>5, <2>1, <2>4, <2>5 DEF Grows
  <2>7. Free(todo')
    BY <1>1, <1>5, <2>1, <2>4, LightIsLoose, LooseIsFree
  <2>8. SilentNest'
    BY <1>9, <2>4, <2>6, <2>7, NextIs, Arrive
  <2> QED BY <2>8 DEF Nests
<1>10. ASSUME tok = "MARKUP_START", Go(<<"element_nested", x>>) PROVE Nests
  <2> DEFINE y == "element_nested"
  <2>1. <<y, x>> \o t = <<y>> \o (<<x>> \o t)
    BY <1>1, Unfold2
  <2>2. todo' = <<y>> \o todo /\ UNCHANGED <<tok, open, next>>
    BY <1>1, <1>10, <2>1 DEF Go, Do, input
  <2>3. y \in {"element_entering", "element_nested"} /\ y # "element_entering"
    OBVIOUS
  <2> HIDE DEF y
  <2>4. SilentNest'
    BY <1>1, <1>3, <1>5, <1>10, <2>2, <2>3, ElementComes
  <2> QED BY <2>4 DEF Nests
<1>11. ASSUME tok = "CTRL_START", NEW k \in Upcoming(open), next' = k, UNCHANGED <<tok, open>>, reported' = reported,
              Do(<<>>) \/ Do(<<"advance", "ctrl", x>>)
       PROVE  Nests
  <2>1. tok \in Peeked
    BY <1>11 DEF Peeked
  <2>2. tok # "EOF" /\ open \in Seq(OpenKinds) /\ Possible(open, k)
    BY <1>11, <2>1, Looks
  <2>3. CASE Do(<<>>)
    <3>1. todo' = t
      BY <1>1, <2>3, NothingPushed
    <3> HIDE DEF t
    <3>2. /\ x \in {"children", "strays"} /\ Follows(x, First(todo')) /\ Fits(todo', o)
          /\ First(todo') # "closing_tag"
      BY <1>4, <1>7, <3>1
    <3> HIDE DEF x
    <3>3. SilentNest'
      BY <1>3, <1>11, <2>1, <2>2, <3>2, ContentEnds
    <3> QED BY <3>3 DEF Nests
  <2>4. CASE Do(<<"advance", "ctrl", x>>)
    <3> DEFINE y == "ctrl"
               p == Append(o, "ctrl")
               s == <<y>> \o todo
               r == <<"advance">> \o s
    <3>1. todo' = r
      <4>1. <<"advance", y, x>> \o t = <<"advance">> \o (<<y>> \o (<<x>> \o t))
        BY <1>1, Unfold3
      <4> QED BY <1>1, <2>4, <4>1 DEF Do
    <3>2. open = p
      BY <1>3, <1>11, TakenIs DEF Over
    <3>3. p \in Seq(OpenKinds) /\ Len(p) = Len(o) + 1 /\ Agree(p, o) /\ Top(p) = "ctrl"
      BY AppendIs DEF OpenKinds
    <3>4. y \in Words /\ y \in Closers /\ y # "advance" /\ y \in CtrlWords
      BY DEF Words, Closers, CtrlWords
    <3>5. Suits(y, "ctrl")
      <4>1. y \notin CodeWords /\ y \notin ElemWords /\ y \notin TagWords /\ y \notin ClosingWords
            /\ y \notin DOMAIN Closes
        BY ClosesIs DEF CodeWords, Code, ElemWords, ArmsWords, TagWords, ClosingWords
      <4> QED BY <4>1 DEF Suits
    <3>6. Follows(y, First(todo))
      <4>1. y \notin EndsElement /\ x \notin CtrlWords
        BY DEF EndsElement, CtrlWords
      <4> QED BY <1>1, <4>1 DEF Follows, None
    <3>7. Len(p) = Len(o) + One(y, Closers)
      BY <3>3, <3>4 DEF One
    <3>8. NoAdvance(todo)
      BY <1>1, <1>3, <1>5, NoneToAdvance DEF NoAdvance
    <3> HIDE DEF y, p
    <3>9. Fits(s, p) /\ IsStack(s) /\ First(s) = y /\ NoAdvance(s)
      BY <1>1, <1>3, <3>3, <3>4, <3>5, <3>6, <3>7, <3>8, FitsNext
    <3> HIDE DEF s
    <3>10. \A i \in 1 .. Len(s) : s[i] = "advance" => i = 1
      BY <3>9 DEF NoAdvance
    <3>11. Fits(r, p) /\ First(r) = "advance" /\ After(r, 1) = First(s)
      BY <3>3, <3>9, <3>10, AdvanceFits DEF y, None
    <3>12. After(r, 1) # "advance"
      BY <3>9, <3>11 DEF y
    <3> HIDE DEF r
    <3>13. First(todo') = "advance" /\ Fits(todo', open) /\ (After(todo', 1) = "advance" => k \in Simple)
      BY <3>1, <3>2, <3>11, <3>12
    <3>14. SilentNest'
      BY <1>11, <2>1, <3>13, Looks
    <3> QED BY <3>14 DEF Nests
  <2> QED BY <1>11, <2>3, <2>4
<1>12. ASSUME tok \notin {"MARKUP_TEXT", "MARKUP_COMMENT", "INTERP_START", "MARKUP_START", "CTRL_START"}, Go(<<>>)
       PROVE  Nests
  <2>1. tok \in {"TAG_CLOSE_START", "EOF"}
    <3>1. tok # "EOF" => Possible(o, tok)
      BY <1>3 DEF Over
    <3>2. Lex!Mode(o) = "CONTENT"
      BY <1>5, ModeIs
    <3> QED BY <1>12, <3>1, <3>2 DEF Possible, Lex!InContent
  <2>2. todo' = t /\ UNCHANGED <<tok, open, next>>
    BY <1>1, <1>12, NothingPushed DEF Go, input
  <2>3. next' # None => Possible(open, next') /\ tok \in Peeked
    BY <2>2, NextIs
  <2> HIDE DEF t
  <2>4. /\ x \in {"children", "strays"} /\ Follows(x, First(todo')) /\ Fits(todo', o)
        /\ First(todo') # "closing_tag"
    BY <1>4, <1>7, <2>2
  <2> HIDE DEF x
  <2>5. SilentNest'
    BY <1>3, <2>1, <2>2, <2>3, <2>4, ContentEnds
  <2> QED BY <2>5 DEF Nests
<1>13. CASE tok \in {"MARKUP_TEXT", "MARKUP_COMMENT"}
  BY <1>8, <1>13 DEF Children
<1>14. CASE tok = "INTERP_START"
  BY <1>9, <1>14 DEF Children
<1>15. CASE tok = "MARKUP_START"
  BY <1>10, <1>15 DEF Children
<1>16. CASE tok = "CTRL_START"
  <2>1. PICK k \in Upcoming(open) :
          /\ next' = k /\ UNCHANGED <<tok, open>> /\ reported' = reported
          /\ Do(IF k \in {"KW_ELSE", "END"} THEN <<>> ELSE <<"advance", "ctrl", x>>)
    BY <1>16 DEF Children, Peek
  <2>2. Do(<<>>) \/ Do(<<"advance", "ctrl", x>>)
    BY <2>1
  <2> QED BY <1>11, <1>16, <2>1, <2>2
<1>17. CASE tok \notin {"MARKUP_TEXT", "MARKUP_COMMENT", "INTERP_START", "MARKUP_START", "CTRL_START"}
  BY <1>12, <1>17 DEF Children
<1> QED BY <1>13, <1>14, <1>15, <1>16, <1>17

-----------------------------------------------------------------------------
(* Directives.                                                               *)

LEMMA InCtrl ==
    ASSUME StackInv, SilentNest, NEW x \in CtrlWords, At(x)
    PROVE  /\ IsStack(Tail(todo)) /\ Loose(Tail(todo)) /\ First(Tail(todo)) \in {"children", "ctrl_returns"}
           /\ \E f \in Seq(OpenKinds) : /\ Top(f) = "elem" /\ Fits(Tail(todo), f)
                                       /\ Append(f, "ctrl") \in Seq(OpenKinds) /\ Over(tok, open, Append(f, "ctrl"))
<1> DEFINE t == Tail(todo)
<1>1. IsStack(todo) /\ todo # <<>> /\ Head(todo) = x /\ IsStack(t)
  BY TailIs DEF StackInv, At
<1>2. x \in Closers /\ x \notin {"advance", "LBRACE", "end_element"}
  BY DEF Closers, CtrlWords
<1>3. PICK o \in Seq(OpenKinds) :
        /\ Over(tok, open, o) /\ Suits(x, Top(o)) /\ Follows(x, First(t)) /\ Len(o) >= 1 /\ Fits(t, Front(o))
  BY <1>1, <1>2, Inside
<1> DEFINE f == Front(o)
           y == First(t)
<1>4. Top(o) = "ctrl" /\ y \in {"children", "ctrl_returns"}
  BY <1>3 DEF Suits, Follows
<1>5. y \notin Heads /\ y # None /\ y \in ElemWords /\ y \notin Closers
  <2> HIDE DEF y
  <2> QED BY <1>4, ClosesIs DEF Heads, CtrlWords, None, ElemWords, Closers
<1>6. f \in Seq(OpenKinds) /\ Append(f, "ctrl") = o
  BY <1>3, <1>4, FrontAppend, OpenFront
<1>7. t # <<>> /\ t[1] = y
  BY <1>5 DEF First
<1> HIDE DEF f, t
<1>8. Suits(y, Top(f))
  BY <1>1, <1>3, <1>6, <1>7, FitsPop DEF f, t
<1>9. Top(f) = "elem" /\ Loose(t)
  BY <1>5, <1>8 DEF Suits, Loose
<1> QED BY <1>1, <1>3, <1>4, <1>6, <1>9 DEF t, f

LEMMA CtrlGrows ==
    ASSUME NEW f \in Seq(OpenKinds), NEW v, Light(v), Grows(v, f, f), NEW u \in Seq(Code \cup Saves)
    PROVE  Light(u \o (<<"CTRL_END">> \o v)) /\ Grows(u \o (<<"CTRL_END">> \o v), f, Append(f, "ctrl"))
<1> DEFINE y == "CTRL_END"
           k == "ctrl"
<1>1. y \in {"RBRACE", "INTERP_END", "CTRL_END"} /\ k \in {"brace", "interp", "ctrl"} /\ <<y, k>> \in Pairs
  BY DEF Pairs
<1> HIDE DEF y, k
<1>2. Grows(u \o (<<y>> \o v), f, Append(f, k)) /\ Light(u \o (<<y>> \o v))
  BY <1>1, GrowsAround
<1> QED BY <1>2 DEF y, k

LEMMA HeadGrows ==
    ASSUME NEW f \in Seq(OpenKinds)
    PROVE  /\ Light(<<"CTRL_END">>) /\ IsStack(<<"CTRL_END">>) /\ Grows(<<"CTRL_END">>, f, Append(f, "ctrl"))
           /\ Light(<<"expr", "CTRL_END">>) /\ IsStack(<<"expr", "CTRL_END">>)
           /\ Grows(<<"expr", "CTRL_END">>, f, Append(f, "ctrl"))
<1>1. Grows(<<"CTRL_END">>, f, Append(f, "ctrl")) /\ Light(<<"CTRL_END">>) /\ IsStack(<<"CTRL_END">>)
  <2> DEFINE y == "CTRL_END"
             k == "ctrl"
  <2>1. <<y, k>> \in Pairs
    BY DEF Pairs
  <2> HIDE DEF y, k
  <2>2. Grows(<<y>>, f, Append(f, k)) /\ Light(<<y>>) /\ IsStack(<<y>>)
    BY <2>1, GrowsCloser
  <2> QED BY <2>2 DEF y, k
<1>2. Light(<<>>) /\ Grows(<<>>, f, f)
  BY NothingGrows
<1>3. <<"expr">> \in Seq(Code \cup Saves)
  BY DEF Code
<1> DEFINE u == <<"expr">>
           v == <<>>
           c == <<"CTRL_END">>
<1>4. <<"expr", "CTRL_END">> = u \o (c \o v)
  <2>1. <<"expr", "CTRL_END">> = <<"expr">> \o <<"CTRL_END">>
    BY Split1And1
  <2>2. <<"CTRL_END">> \o <<>> = <<"CTRL_END">>
    BY JustOne
  <2> QED BY <2>1, <2>2
<1> HIDE DEF u, v
<1>5. Light(u \o (c \o v)) /\ Grows(u \o (c \o v), f, Append(f, "ctrl"))
  BY <1>2, <1>3, CtrlGrows DEF u, v
<1> QED BY <1>1, <1>4, <1>5 DEF Light

LEMMA IsElemWord ==
    ASSUME NEW x \in ArmsWords \cup {"children", "ctrl_returns"}
    PROVE  /\ x \in Words /\ x # "advance" /\ x \notin Closers /\ x \notin Heads /\ x # None
           /\ \A o : Top(o) = "elem" => Suits(x, Top(o))
           /\ \A y : /\ y \notin Heads /\ y # None /\ (x \in ArmsWords => y \in {"children", "ctrl_returns"})
                     => Follows(x, y)
<1>1. x \in ElemWords /\ x \in Words /\ x # "advance"
  BY DEF ElemWords, Words, ArmsWords
<1>2. /\ x \notin DOMAIN Closes /\ x \notin CtrlWords /\ x \notin CodeWords /\ x \notin TagWords
      /\ x \notin ClosingWords
  BY ClosesIs DEF CodeWords, Code, ArmsWords, TagWords, CtrlWords, ClosingWords
<1>3. x \notin Closers /\ x \notin Heads /\ x # None
  BY <1>2 DEF Closers, Heads, None, ArmsWords
<1>4. \A o : Top(o) = "elem" => Suits(x, Top(o))
  BY <1>2 DEF Suits
<1>5. x \notin EndsElement /\ x # "more" /\ x # "unit"
  BY DEF EndsElement, ArmsWords
<1>6. \A y : /\ y \notin Heads /\ y # None /\ (x \in ArmsWords => y \in {"children", "ctrl_returns"})
             => Follows(x, y)
  BY <1>2, <1>5 DEF Follows, Heads
<1> QED BY <1>1, <1>3, <1>4, <1>6

(* The content of a directive and its arms, above content. *)
LEMMA ArmsGrow ==
    ASSUME NEW a \in ArmsWords, NEW f \in Seq(OpenKinds), Top(f) = "elem",
           NEW t, IsStack(t), Loose(t), First(t) \in {"children", "ctrl_returns"}, Fits(t, f)
    PROVE  /\ Fits(<<"children">> \o (<<a>> \o t), f) /\ Loose(<<"children">> \o (<<a>> \o t))
           /\ IsStack(<<"children">> \o (<<a>> \o t))
<1> DEFINE s == <<a>> \o t
           r == <<"children">> \o s
           x == "children"
<1>1. NoAdvance(t)
  BY NoneToAdvance DEF NoAdvance
<1>2. First(t) \notin Heads /\ First(t) # None
  BY DEF Loose
<1>3. \A y \in ArmsWords \cup {"children", "ctrl_returns"} :
        /\ y \in Words /\ y # "advance" /\ y \notin Closers /\ y \notin Heads /\ y # None /\ Suits(y, Top(f))
        /\ Len(f) = Len(f) + One(y, Closers) /\ Agree(f, f)
  BY IsElemWord, SameAgree
<1>4. Follows(a, First(t))
  BY <1>2, IsElemWord
<1>5. Fits(s, f) /\ IsStack(s) /\ First(s) = a /\ NoAdvance(s)
  BY <1>1, <1>3, <1>4, FitsNext
<1>6. x \in ArmsWords \cup {"children", "ctrl_returns"} /\ x \notin ArmsWords
  BY DEF ArmsWords
<1>7. a \notin Heads /\ a # None
  BY <1>3
<1> HIDE DEF s, x
<1>8. Follows(x, First(s))
  BY <1>5, <1>6, <1>7, IsElemWord
<1>9. Fits(<<x>> \o s, f) /\ IsStack(<<x>> \o s) /\ First(<<x>> \o s) = x
  BY <1>3, <1>5, <1>6, <1>8, FitsNext
<1>10. Loose(<<x>> \o s)
  BY <1>3, <1>6, <1>9 DEF Loose
<1> QED BY <1>9, <1>10 DEF x, s

LEMMA DirectiveGrows ==
    ASSUME NEW a \in ArmsWords, NEW f \in Seq(OpenKinds), Top(f) = "elem"
    PROVE  Light(<<"children", a, "ctrl_returns">>) /\ Grows(<<"children", a, "ctrl_returns">>, f, f)
<1> DEFINE w == <<"children", a, "ctrl_returns">>
<1>1. w \in Seq({"children", a, "ctrl_returns"}) /\ Len(w) = 3 /\ w[1] = "children"
  OBVIOUS
<1>2. Light(w)
  BY <1>1, IsElemWord DEF Light, IsStack
<1>3. SUFFICES ASSUME NEW t, IsStack(t), Loose(t), Fits(t, f) PROVE Fits(w \o t, f)
  BY <1>2 DEF Grows
<1> DEFINE x == "ctrl_returns"
           r == <<x>> \o t
<1>4. w \o t = <<"children">> \o (<<a>> \o r)
  BY <1>3, Unfold3
<1> HIDE DEF w
<1>5. x \in ArmsWords \cup {"children", "ctrl_returns"} /\ x \notin ArmsWords
  BY DEF ArmsWords
<1>6. NoAdvance(t)
  BY <1>3, NoneToAdvance DEF NoAdvance
<1>7. x = "ctrl_returns"
  OBVIOUS
<1> HIDE DEF x
<1>8. Follows(x, First(t)) /\ Suits(x, Top(f)) /\ Len(f) = Len(f) + One(x, Closers) /\ Agree(f, f)
  BY <1>3, <1>5, IsElemWord, SameAgree DEF Loose
<1>9. Fits(r, f) /\ IsStack(r) /\ First(r) = x
  BY <1>3, <1>5, <1>6, <1>8, IsElemWord, FitsNext
<1>10. Loose(r)
  BY <1>5, <1>9, IsElemWord DEF Loose
<1> HIDE DEF r
<1>11. Fits(<<"children">> \o (<<a>> \o r), f)
  BY <1>7, <1>9, <1>10, ArmsGrow
<1> QED BY <1>4, <1>11

LEMMA SecondNameNests ==
    ASSUME StackInv, HistInv, SilentNest, At("second_name"), Match("COMMA", <<"ident">>)
    PROVE  Nests
<1>1. InCode
  <2>1. "second_name" \in Code \cup {"more"}
    BY DEF Code
  <2> QED BY <2>1, AtCode
<1>2. <<"ident">> \in Seq(Code \cup Saves)
  BY DEF Code
<1>3. Coded(<<"ident">>)
  BY <1>2, CodeList
<1>4. Inert("COMMA")
  BY Inerts
<1> QED BY <1>1, <1>3, <1>4, CodeGoes

LEMMA CtrlSteps ==
    ASSUME SilentNest, IsStack(Tail(todo)), Loose(Tail(todo)), NEW f \in Seq(OpenKinds), Fits(Tail(todo), f),
           Over(tok, open, Append(f, "ctrl")), Append(f, "ctrl") \in Seq(OpenKinds),
           NEW w, Light(w), Grows(w, f, Append(f, "ctrl")), Eat(w), Inert(tok), tok # "MARKUP_START"
    PROVE  Nests
<1>1. open = Append(f, "ctrl") /\ tok # "EOF"
  BY QuietIs DEF Inert
<1>2. Moved(w)
  BY StepsAre
<1>3. SilentNest'
  BY <1>1, <1>2, MovedNests
<1> QED BY <1>3 DEF Nests

LEMMA CtrlNests ==
    ASSUME StackInv, HistInv, SilentNest, Ctrl
    PROVE  Nests
<1>1. CASE At("second_name") /\ Match("COMMA", <<"ident">>)
  BY <1>1, SecondNameNests
<1>2. CASE At("ctrl")
  <2>1. "ctrl" \in CtrlWords
    BY DEF CtrlWords
  <2>2. /\ IsStack(Tail(todo)) /\ Loose(Tail(todo)) /\ First(Tail(todo)) \in {"children", "ctrl_returns"}
        /\ \E f \in Seq(OpenKinds) : /\ Top(f) = "elem" /\ Fits(Tail(todo), f)
                                    /\ Append(f, "ctrl") \in Seq(OpenKinds) /\ Over(tok, open, Append(f, "ctrl"))
    BY <1>2, <2>1, InCtrl
  <2>3. PICK f \in Seq(OpenKinds) : /\ Top(f) = "elem" /\ Fits(Tail(todo), f)
                                    /\ Append(f, "ctrl") \in Seq(OpenKinds) /\ Over(tok, open, Append(f, "ctrl"))
    BY <2>2
  <2>4. ASSUME tok = "KW_IF", Eat(<<"expr", "CTRL_END", "children", "if_arms", "ctrl_returns">>) PROVE Nests
    <3> DEFINE w == <<"expr", "CTRL_END", "children", "if_arms", "ctrl_returns">>
               u == <<"expr">>
               c == <<"CTRL_END">>
               v == <<"children", "if_arms", "ctrl_returns">>
    <3>1. w = u \o (c \o v)
      <4>1. w = u \o <<"CTRL_END", "children", "if_arms", "ctrl_returns">>
        BY Split1And4
      <4>2. <<"CTRL_END", "children", "if_arms", "ctrl_returns">> = c \o v
        BY Split1And3
      <4> QED BY <4>1, <4>2
    <3>2. u \in Seq(Code \cup Saves)
      BY DEF Code
    <3>3. Light(v) /\ Grows(v, f, f)
      <4>1. "if_arms" \in ArmsWords
        BY DEF ArmsWords
      <4> QED BY <2>3, <4>1, DirectiveGrows
    <3>4. Eat(w)
      BY <2>4
    <3> HIDE DEF w, u, v
    <3>5. Light(w) /\ Grows(w, f, Append(f, "ctrl"))
      BY <3>1, <3>2, <3>3, CtrlGrows
    <3>6. Inert(tok) /\ tok # "MARKUP_START"
      BY <2>4, Inerts
    <3> QED BY <2>2, <2>3, <3>4, <3>5, <3>6, CtrlSteps
  <2>5. ASSUME tok = "KW_FOR",
               Eat(<<"ident", "second_name", "KW_IN", "expr", "CTRL_END", "children", "for_arms", "ctrl_returns">>)
        PROVE  Nests
    <3> DEFINE w == <<"ident", "second_name", "KW_IN", "expr", "CTRL_END", "children", "for_arms", "ctrl_returns">>
               u == <<"ident", "second_name", "KW_IN", "expr">>
               c == <<"CTRL_END">>
               v == <<"children", "for_arms", "ctrl_returns">>
    <3>1. w = u \o (c \o v)
      <4>1. w = u \o <<"CTRL_END", "children", "for_arms", "ctrl_returns">>
        BY Split4And4
      <4>2. <<"CTRL_END", "children", "for_arms", "ctrl_returns">> = c \o v
        BY Split1And3
      <4> QED BY <4>1, <4>2
    <3>2. u \in Seq(Code \cup Saves)
      BY DEF Code
    <3>3. Light(v) /\ Grows(v, f, f)
      <4>1. "for_arms" \in ArmsWords
        BY DEF ArmsWords
      <4> QED BY <2>3, <4>1, DirectiveGrows
    <3>4. Eat(w)
      BY <2>5
    <3> HIDE DEF w, u, v
    <3>5. Light(w) /\ Grows(w, f, Append(f, "ctrl"))
      BY <3>1, <3>2, <3>3, CtrlGrows
    <3>6. Inert(tok) /\ tok # "MARKUP_START"
      BY <2>5, Inerts
    <3> QED BY <2>2, <2>3, <3>4, <3>5, <3>6, CtrlSteps
  <2>6. \A w : Report(w) => Nests
    BY Speaks
  <2>7. ~ At("second_name")
    BY <1>2 DEF At
  <2> QED BY <2>4, <2>5, <2>6, <2>7 DEF Ctrl
<1> QED BY <1>1, <1>2 DEF Ctrl

LEMMA DirectivesAre ==
    ASSUME NEW d \in Directives
    PROVE  /\ d.arms \in ArmsWords /\ d.arm \in CtrlWords /\ d.after \in CtrlWords /\ ElseArms(d) \in ArmsWords
           /\ d.arms \notin CtrlWords
BY DEF Directives, ArmsWords, CtrlWords, ElseArms

(* A word of a directive is pushed above content. *)
LEMMA CtrlFits ==
    ASSUME NEW y \in CtrlWords, NEW t, IsStack(t), Loose(t), First(t) \in {"children", "ctrl_returns"},
           NEW f \in Seq(OpenKinds), Fits(t, f), NEW p \in Seq(OpenKinds), p = Append(f, "ctrl")
    PROVE  Fits(<<y>> \o t, p) /\ Free(<<y>> \o t)
<1>1. p \in Seq(OpenKinds) /\ Len(p) = Len(f) + 1 /\ Agree(p, f) /\ Top(p) = "ctrl"
  BY AppendIs DEF OpenKinds
<1>2. y \in Words /\ y \in Closers /\ y # "advance"
  BY DEF Words, Closers, CtrlWords
<1>3. Suits(y, "ctrl")
  <2>1. y \notin CodeWords /\ y \notin ElemWords /\ y \notin TagWords /\ y \notin ClosingWords
        /\ y \notin DOMAIN Closes
    BY ClosesIs DEF CodeWords, Code, ElemWords, ArmsWords, TagWords, ClosingWords, CtrlWords
  <2> QED BY <2>1 DEF Suits
<1>4. Follows(y, First(t))
  <2>1. y \notin EndsElement /\ y # "more" /\ y # "unit"
    BY DEF EndsElement, CtrlWords
  <2> QED BY <2>1 DEF Follows, None, CtrlWords
<1>5. Len(p) = Len(f) + One(y, Closers)
  BY <1>1, <1>2 DEF One
<1>6. NoAdvance(t)
  BY NoneToAdvance DEF NoAdvance
<1>7. Fits(<<y>> \o t, p) /\ First(<<y>> \o t) = y
  BY <1>1, <1>2, <1>3, <1>4, <1>5, <1>6, FitsNext
<1>8. Free(<<y>> \o t)
  BY <1>7 DEF Free, CtrlWords, None
<1> QED BY <1>7, <1>8

LEMMA ArmComes ==
    ASSUME SilentNest, IsStack(Tail(todo)), Loose(Tail(todo)), First(Tail(todo)) \in {"children", "ctrl_returns"},
           NEW f \in Seq(OpenKinds), Fits(Tail(todo), f), NEW y \in CtrlWords, Eat(<<y>>), tok # "EOF",
           open = Append(f, "ctrl")
    PROVE  Nests
<1> DEFINE t == Tail(todo)
<1>1. open \in Seq(OpenKinds)
  BY NextIs
<1>2. Fits(<<y>> \o t, open) /\ Free(<<y>> \o t)
  BY <1>1, CtrlFits
<1>3. todo' = <<y>> \o t /\ TakeIn(open)
  BY DEF Eat, Do, Take
<1> HIDE DEF t
<1>4. SilentNest'
  BY <1>1, <1>2, <1>3, NextIs, Arrive
<1> QED BY <1>4 DEF Nests

LEMMA ArmsNest ==
    ASSUME StackInv, HistInv, SilentNest, NEW d \in Directives, At(d.arms), tok = "CTRL_START", Eat(<<d.arm>>)
    PROVE  Nests
<1> DEFINE x == d.arms
           t == Tail(todo)
<1>1. x \in ArmsWords /\ d.arm \in CtrlWords /\ x \notin CtrlWords
  BY DirectivesAre
<1>2. IsStack(todo) /\ todo # <<>> /\ Head(todo) = x /\ IsStack(t)
  BY TailIs DEF StackInv, At
<1>3. x \notin Closers /\ x \notin {"advance", "LBRACE", "end_element"} /\ x \in ElemWords
  <2> HIDE DEF x
  <2> QED BY <1>1, ClosesIs DEF Closers, ArmsWords, ElemWords
<1>4. PICK o \in Seq(OpenKinds) :
        Over(tok, open, o) /\ Suits(x, Top(o)) /\ Follows(x, First(t)) /\ Fits(t, o)
  BY <1>2, <1>3, Inside
<1>5. Top(o) = "elem" /\ First(t) \in {"children", "ctrl_returns"}
  BY <1>1, <1>3, <1>4 DEF Suits, Follows
<1>6. Loose(t)
  BY <1>5 DEF Loose, Heads, CtrlWords, None
<1>7. open = Append(o, "ctrl")
  BY <1>4, TakenIs DEF Over
<1> QED BY <1>1, <1>2, <1>4, <1>5, <1>6, <1>7, ArmComes

LEMMA ArmsNests ==
    ASSUME StackInv, HistInv, SilentNest, Arms
    PROVE  Nests
<1>1. PICK d \in Directives : At(d.arms) \/ At(d.arm) \/ At(d.after)
  BY DEF Arms
<1>2. PICK e \in Directives :
        \/ At(e.arms) /\ IF tok = "CTRL_START" THEN Eat(<<e.arm>>) ELSE Report(<<>>)
        \/ /\ At(e.arm)
           /\ CASE tok = "KW_ELSE" -> Eat(<<e.after>>)
                [] tok = "END" -> Eat(<<"CTRL_END">>)
                [] OTHER -> Report(<<>>)
        \/ /\ At(e.after) /\ ElseIf(e)
           /\ \/ EatReporting(<<"expr", "CTRL_END", "children", e.arms>>)
              \/ Eat(<<"expr", "CTRL_END", "children", e.arms>>)
        \/ /\ At(e.after)
           /\ \/ Report(<<"CTRL_END", "children", ElseArms(e)>>)
              \/ Go(<<"CTRL_END", "children", ElseArms(e)>>)
  BY DEF Arms
<1>3. \A w : Report(w) \/ EatReporting(w) => Nests
  BY Speaks
<1>4. e.arms \in ArmsWords /\ e.arm \in CtrlWords /\ e.after \in CtrlWords /\ ElseArms(e) \in ArmsWords
  BY DirectivesAre
<1>5. CASE At(e.arms) /\ IF tok = "CTRL_START" THEN Eat(<<e.arm>>) ELSE Report(<<>>)
  BY <1>3, <1>5, ArmsNest
<1> DEFINE t == Tail(todo)
<1>6. ASSUME At(e.arm) \/ At(e.after)
      PROVE  /\ IsStack(t) /\ Loose(t) /\ First(t) \in {"children", "ctrl_returns"}
             /\ \E f \in Seq(OpenKinds) : /\ Top(f) = "elem" /\ Fits(t, f)
                                         /\ Append(f, "ctrl") \in Seq(OpenKinds) /\ Over(tok, open, Append(f, "ctrl"))
  BY <1>4, <1>6, InCtrl
<1> HIDE DEF t
<1>7. tok \in {"KW_ELSE", "END", "KW_IF"} =>
        Inert(tok) /\ tok # "MARKUP_START" /\ tok \notin Turning \cup {"MARKUP_START", "EOF"} /\ tok # "EOF"
  BY DEF Inert, Turning
<1>8. CASE /\ At(e.arm)
           /\ CASE tok = "KW_ELSE" -> Eat(<<e.after>>)
                [] tok = "END" -> Eat(<<"CTRL_END">>)
                [] OTHER -> Report(<<>>)
  <2>1. /\ IsStack(t) /\ Loose(t) /\ First(t) \in {"children", "ctrl_returns"}
        /\ \E f \in Seq(OpenKinds) : /\ Top(f) = "elem" /\ Fits(t, f)
                                    /\ Append(f, "ctrl") \in Seq(OpenKinds) /\ Over(tok, open, Append(f, "ctrl"))
    BY <1>6, <1>8
  <2>2. PICK f \in Seq(OpenKinds) : /\ Top(f) = "elem" /\ Fits(t, f)
                                    /\ Append(f, "ctrl") \in Seq(OpenKinds) /\ Over(tok, open, Append(f, "ctrl"))
    BY <2>1
  <2>3. CASE tok = "KW_ELSE" /\ Eat(<<e.after>>)
    <3>1. open = Append(f, "ctrl")
      BY <1>7, <2>2, <2>3, QuietIs
    <3> QED BY <1>4, <1>7, <2>1, <2>2, <2>3, <3>1, ArmComes DEF t
  <2>4. CASE tok = "END" /\ Eat(<<"CTRL_END">>)
    <3> DEFINE w == <<"CTRL_END">>
    <3>1. Light(w) /\ Grows(w, f, Append(f, "ctrl"))
      BY HeadGrows
    <3>2. Eat(w) /\ Inert(tok) /\ tok # "MARKUP_START"
      BY <1>7, <2>4
    <3> HIDE DEF w
    <3> QED BY <2>1, <2>2, <3>1, <3>2, CtrlSteps DEF t
  <2> QED BY <1>3, <1>8, <2>3, <2>4
<1>9. CASE /\ At(e.after) /\ ElseIf(e)
           /\ \/ EatReporting(<<"expr", "CTRL_END", "children", e.arms>>)
              \/ Eat(<<"expr", "CTRL_END", "children", e.arms>>)
  <2>1. CASE Eat(<<"expr", "CTRL_END", "children", e.arms>>)
    <3>1. /\ IsStack(t) /\ Loose(t) /\ First(t) \in {"children", "ctrl_returns"}
          /\ \E f \in Seq(OpenKinds) : /\ Top(f) = "elem" /\ Fits(t, f)
                                      /\ Append(f, "ctrl") \in Seq(OpenKinds) /\ Over(tok, open, Append(f, "ctrl"))
      BY <1>6, <1>9
    <3>2. PICK f \in Seq(OpenKinds) : /\ Top(f) = "elem" /\ Fits(t, f)
                                      /\ Append(f, "ctrl") \in Seq(OpenKinds) /\ Over(tok, open, Append(f, "ctrl"))
      BY <3>1
    <3>3. tok = "KW_IF"
      BY <1>9 DEF ElseIf
    <3> DEFINE u == <<"expr", "CTRL_END">>
               v == <<"children", e.arms>>
               s == <<"children">> \o (<<e.arms>> \o t)
               p == Append(f, "ctrl")
    <3>4. Fits(s, f) /\ Loose(s) /\ IsStack(s)
      BY <1>4, <3>1, <3>2, ArmsGrow
    <3>5. Light(u) /\ IsStack(u) /\ Grows(u, f, p)
      BY HeadGrows
    <3>6. v \o t = s
      BY <3>1, Unfold2
    <3>7. IsStack(v)
      <4>1. v \in Seq({"children", e.arms})
        OBVIOUS
      <4> QED BY <4>1 DEF IsStack
    <3>8. <<"expr", "CTRL_END", "children", e.arms>> = u \o v
      BY Split2And2
    <3>9. open = p
      BY <1>7, <3>2, <3>3, QuietIs
    <3> HIDE DEF u, v, s, p
    <3>10. (u \o v) \o t = u \o (v \o t)
      <4>1. IsStack(u) /\ IsStack(v) /\ IsStack(t)
        BY <3>1, <3>5, <3>7
      <4> QED BY <4>1, Regroup
    <3>11. todo' = u \o s /\ TakeIn(open)
      BY <2>1, <3>6, <3>8, <3>10 DEF Eat, Do, Take, t
    <3>12. Fits(todo', open)
      BY <3>4, <3>5, <3>9, <3>11 DEF Grows
    <3>13. Free(todo')
      BY <3>4, <3>5, <3>11, LightIsLoose, LooseIsFree
    <3>14. SilentNest'
      BY <1>7, <3>3, <3>11, <3>12, <3>13, NextIs, Arrive
    <3> QED BY <3>14 DEF Nests
  <2> QED BY <1>3, <1>9, <2>1
<1>10. CASE /\ At(e.after)
            /\ \/ Report(<<"CTRL_END", "children", ElseArms(e)>>)
               \/ Go(<<"CTRL_END", "children", ElseArms(e)>>)
  <2> DEFINE a == ElseArms(e)
  <2>1. CASE Go(<<"CTRL_END", "children", a>>)
    <3>1. /\ IsStack(t) /\ Loose(t) /\ First(t) \in {"children", "ctrl_returns"}
          /\ \E f \in Seq(OpenKinds) : /\ Top(f) = "elem" /\ Fits(t, f)
                                      /\ Append(f, "ctrl") \in Seq(OpenKinds) /\ Over(tok, open, Append(f, "ctrl"))
      BY <1>6, <1>10
    <3>2. PICK f \in Seq(OpenKinds) : /\ Top(f) = "elem" /\ Fits(t, f)
                                      /\ Append(f, "ctrl") \in Seq(OpenKinds) /\ Over(tok, open, Append(f, "ctrl"))
      BY <3>1
    <3>3. a \in ArmsWords /\ Go(<<"CTRL_END", "children", a>>)
      BY <1>4, <2>1
    <3> HIDE DEF a
    <3> DEFINE u == <<"CTRL_END">>
               s == <<"children">> \o (<<a>> \o t)
               p == Append(f, "ctrl")
    <3>4. Fits(s, f) /\ Loose(s) /\ IsStack(s)
      BY <3>1, <3>2, <3>3, ArmsGrow
    <3>5. Light(u) /\ IsStack(u) /\ Grows(u, f, p)
      BY HeadGrows
    <3>6. <<"CTRL_END", "children", a>> \o t = u \o s
      BY <3>1, Unfold3
    <3>7. todo' = u \o s /\ UNCHANGED <<tok, open, next>>
      BY <3>3, <3>6 DEF Go, Do, t, input
    <3>8. p \in Seq(OpenKinds) /\ Over(tok, open, p)
      BY <3>2
    <3> HIDE DEF u, s, p
    <3>9. Fits(todo', p)
      BY <3>4, <3>5, <3>7 DEF Grows
    <3>10. Free(todo')
      BY <3>4, <3>5, <3>7, LightIsLoose, LooseIsFree
    <3>11. SilentNest'
      BY <3>7, <3>8, <3>9, <3>10, Stay
    <3> QED BY <3>11 DEF Nests
  <2> QED BY <1>3, <1>10, <2>1
<1> QED BY <1>2, <1>5, <1>8, <1>9, <1>10

-----------------------------------------------------------------------------
(* The unit.                                                                 *)

LEMMA UnitNests ==
    ASSUME StackInv, HistInv, SilentNest, Unit
    PROVE  Nests
<1> DEFINE x == "unit"
           t == Tail(todo)
<1>1. IsStack(todo) /\ todo # <<>> /\ Head(todo) = x /\ IsStack(t)
  BY TailIs DEF StackInv, Unit, At
<1>2. /\ x \in Words /\ x \notin Closers /\ x # "advance" /\ x \in CodeWords
      /\ x \notin {"advance", "LBRACE", "end_element"} /\ x \notin Heads /\ x # None
  BY ClosesIs DEF Words, CodeWords, Closers, CtrlWords, Heads, None
<1>3. PICK o \in Seq(OpenKinds) :
        Over(tok, open, o) /\ Suits(x, Top(o)) /\ Follows(x, First(t)) /\ Fits(t, o)
  BY <1>1, <1>2, Inside
<1>4. First(t) = None
  BY <1>3 DEF Follows
<1>5. Top(o) \in CodeKinds
  BY <1>2, <1>3 DEF Suits
<1> HIDE DEF t
<1>6. NoAdvance(t) /\ Len(t) = 0
  <2>1. Len(t) \in Nat
    BY <1>1, StackHasLen
  <2>2. Len(t) # 0 => t[1] \in Words
    <3>1. Len(t) # 0 => 1 \in 1 .. Len(t)
      BY <2>1
    <3> QED BY <1>3, <3>1 DEF Fits
  <2>3. None \notin Words
    BY ClosesIs DEF None, Words, CodeWords, Code, Saves, Closers, CtrlWords, ElemWords, ArmsWords,
       TagWords, ClosingWords
  <2>4. Len(t) = 0
    BY <1>4, <2>2, <2>3 DEF First
  <2> QED BY <2>4 DEF NoAdvance
<1> HIDE DEF x
<1>7. ASSUME tok = "EOF", Go(<<>>) PROVE Nests
  <2>1. todo' = t /\ UNCHANGED <<tok, open, next>>
    BY <1>1, <1>7, NothingPushed DEF Go, t, input
  <2>2. Ahead(t, o)
    BY <1>3, <1>4 DEF Ahead, None
  <2>3. open \in Seq(OpenKinds) /\ (next # None => Possible(open, next) /\ tok \in Peeked)
    BY NextIs
  <2>4. Nest(t, tok, open, next)
    BY <1>3, <1>4, <1>7, <2>2, <2>3 DEF Nest, None
  <2>5. SilentNest'
    BY <2>1, <2>4 DEF SilentNest
  <2> QED BY <2>5 DEF Nests
<1>8. ASSUME Mark(<<"decl", "stmt_end", "skip_newlines", "progress", "unit">>) PROVE Nests
  <2> DEFINE u == <<"decl", "stmt_end", "skip_newlines">>
             v == <<"progress", "unit">>
             a == <<"progress">>
             r == <<x>> \o t
             s == a \o r
  <2>1. <<"decl", "stmt_end", "skip_newlines", "progress", "unit">> = u \o v
    BY Split3And2
  <2>2. v \o t = s
    BY <1>1, Unfold2 DEF x
  <2>3. u \in Seq(Code \cup Saves) /\ a \in Seq(Code \cup Saves)
    BY DEF Code
  <2>4. IsStack(v)
    <3>1. v \in Seq({"progress", "unit"})
      OBVIOUS
    <3> QED BY <3>1 DEF IsStack
  <2>5. Fits(r, o) /\ IsStack(r) /\ First(r) = x
    <3>1. Len(o) = Len(o) + One(x, Closers) /\ Agree(o, o)
      BY <1>2, SameAgree
    <3> QED BY <1>1, <1>2, <1>3, <1>6, <3>1, FitsNext
  <2>6. Loose(r)
    BY <1>2, <2>5 DEF Loose
  <2> HIDE DEF u, v, a, r
  <2>7. Coded(u) /\ Coded(a) /\ IsStack(u) /\ IsStack(a)
    BY <2>3, CodeList
  <2>8. Fits(s, o) /\ IsStack(s) /\ Loose(s)
    BY <1>5, <2>5, <2>6, <2>7, LightIsLoose DEF Coded, Grows
  <2> HIDE DEF s
  <2>9. Fits(u \o s, o) /\ Loose(u \o s)
    BY <1>5, <2>7, <2>8, LightIsLoose DEF Coded, Grows
  <2>10. (u \o v) \o t = u \o (v \o t)
    BY <1>1, <2>4, <2>7, Regroup
  <2>11. Do(u \o v) /\ UNCHANGED <<tok, open, next>>
    BY <1>8, <2>1 DEF Mark, input
  <2>12. todo' = u \o s
    BY <2>2, <2>10, <2>11 DEF Do, t
  <2>13. SilentNest'
    BY <1>3, <2>9, <2>11, <2>12, LooseIsFree, Stay
  <2> QED BY <2>13 DEF Nests
<1> QED BY <1>7, <1>8 DEF Unit

-----------------------------------------------------------------------------
(* Every step, and every reachable state.                                    *)

LEMMA NextNests ==
    ASSUME StackInv, HistInv, SilentNest, Next
    PROVE  Nests
<1>1. CASE \/ Advance \/ Expect \/ SkipNewlines \/ ExpectStmtEnd \/ Synchronize \/ EnsureProgress
           \/ ForceAdvance \/ DepthLeave \/ Return \/ Restore \/ More
  BY <1>1, AdvanceNests, ExpectNests, SkipNewlinesNests, ExpectStmtEndNests, RecoveryNests,
     EnsureProgressNests, DepthLeaveNests, ReturnNests, RestoreNests, MoreNests
<1>2. CASE \/ String \/ Path \/ AName \/ TypeRef \/ Pattern
           \/ Expr \/ Compare \/ Binary \/ Cast \/ Not \/ Unary \/ Coalesce \/ Elements \/ FieldInits
           \/ Lambda \/ Primary \/ Drop \/ Postfix
  BY <1>2, StringNests, PathNests, ANameNests, TypeRefNests, PatternNests, ExprNests, CompareNests,
     BinaryNests, CastNests, NotNests, UnaryNests, CoalesceNests, ElementsNests, FieldInitsNests,
     LambdaNests, PrimaryNests, RecoveryNests, PostfixNests
<1>3. CASE \/ Element \/ EndElement \/ Attributes \/ TagEnd \/ Children \/ Strays \/ ClosingTag
           \/ Ctrl \/ Arms
  BY <1>3, ElementNests, EndElementNests, AttributesNests, TagEndNests, ChildrenNests, StraysNests,
     ClosingTagNests, CtrlNests, ArmsNests
<1>4. CASE \/ Attrs \/ Cond \/ LetType \/ If \/ MatchArms \/ LoopBody \/ Stmt \/ Block \/ Stmts
           \/ Params \/ Default \/ FnName \/ TypeDecl \/ HttpMethod \/ Quoted \/ Stream \/ GroupItems
           \/ Decl \/ Unit
  BY <1>4, AttrsNests, CondNests, LetTypeNests, IfNests, MatchArmsNests, LoopBodyNests, StmtNests,
     BlockNests, StmtsNests, ParamsNests, DefaultNests, FnNameNests, TypeDeclNests, HttpMethodNests,
     QuotedNests, StreamNests, GroupItemsNests, DeclNests, UnitNests
<1> QED BY <1>1, <1>2, <1>3, <1>4 DEF Next

LEMMA InitNests ==
    ASSUME Init
    PROVE  SilentNest
<1> DEFINE x == "skip_newlines"
           y == "unit"
           o == <<>>
           r == <<y>> \o <<>>
           t == <<x>> \o r
           w == <<"advance", "skip_newlines", "unit">>
<1>1. todo = w /\ tok = None /\ next = None /\ open = <<>>
  BY DEF Init
<1>2. o \in Seq(OpenKinds) /\ Len(o) = 0 /\ IsStack(o) /\ Agree(o, o) /\ NoAdvance(o)
  BY DEF IsStack, Agree, NoAdvance
<1>3. Fits(<<>>, o)
  BY <1>2, HeightEnds DEF Fits
<1>4. First(<<>>) = None
  BY DEF First
<1>5. Top(o) = "unit" /\ "unit" \in CodeKinds
  BY <1>2 DEF Top, Innermost, CodeKinds
<1>6. /\ y \in Words /\ y \notin Closers /\ y # "advance" /\ y \in CodeWords /\ y # None
      /\ y \notin Heads /\ y \notin EndsElement \cup ElemWords \cup TagWords \cup ClosingWords
  BY ClosesIs DEF Words, CodeWords, Closers, CtrlWords, Heads, None, EndsElement, ElemWords, ArmsWords,
     TagWords, ClosingWords
<1>7. Suits(y, Top(o)) /\ Follows(y, None)
  <2>1. Suits(y, Top(o))
    BY <1>5, <1>6 DEF Suits, Closers
  <2>2. None \notin {"LBRACE", "element_entering", "element_nested", "advance", "strays", "closing_tag",
                      "end_element"} \cup CtrlWords
    BY DEF None, CtrlWords
  <2>3. y \notin CtrlWords \cup ArmsWords /\ y # "more" /\ y \notin EndsElement
    BY <1>6 DEF Closers, ElemWords
  <2>4. Follows(y, None)
    BY <2>2, <2>3 DEF Follows
  <2> QED BY <2>1, <2>4
<1>8. x \in Code
  BY DEF Code
<1>9. x \in Words /\ x \notin Closers /\ x # "advance" /\ x \notin Heads /\ x # None
  BY <1>8, CodeIs
<1>10. Suits(x, Top(o)) /\ Follows(x, y)
  BY <1>5, <1>6, <1>8, CodeSuits, CodeFollows
<1>11. w = <<"advance">> \o t
  OBVIOUS
<1> HIDE DEF w, x, y, o
<1>12. Fits(r, o) /\ IsStack(r) /\ First(r) = y /\ NoAdvance(r)
  <2>1. <<>> = o
    BY DEF o
  <2>2. IsStack(<<>>) /\ NoAdvance(<<>>)
    BY <1>2, <2>1
  <2>3. Len(o) = Len(o) + One(y, Closers)
    BY <1>2, <1>6 DEF One
  <2> QED BY <1>2, <1>3, <1>4, <1>6, <1>7, <2>2, <2>3, FitsNext
<1> HIDE DEF r
<1>13. Fits(t, o) /\ IsStack(t) /\ First(t) = x /\ NoAdvance(t)
  <2>1. Len(o) = Len(o) + One(x, Closers)
    BY <1>2, <1>9 DEF One
  <2> QED BY <1>2, <1>9, <1>10, <1>12, <2>1, FitsNext
<1> HIDE DEF t
<1>14. /\ First(t) \notin {"LBRACE", "element_entering", "element_nested", "strays", "closing_tag",
                            "end_element", None}
       /\ \A i \in 1 .. Len(t) : t[i] = "advance" => i = 1
  BY <1>9, <1>13 DEF Heads, NoAdvance
<1>15. Fits(w, o) /\ First(w) = "advance" /\ After(w, 1) = x /\ Len(w) = 1 + Len(t)
  BY <1>2, <1>11, <1>13, <1>14, AdvanceFits
<1>16. Len(w) # 0
  BY <1>13, <1>15, StackHasLen
<1>17. Nest(w, None, o, None)
  <2>1. None # "EOF"
    BY DEF None
  <2> QED BY <1>2, <1>9, <1>15, <1>16, <2>1 DEF Nest
<1> QED BY <1>1, <1>17 DEF SilentNest, o

LEMMA NestIsKept == Spec => [](StackInv /\ HistInv /\ NestInv)
<1>1. Init => NestInv
  BY InitNests DEF NestInv
<1>2. StackInv /\ HistInv /\ NestInv /\ [Next]_vars => NestInv'
  <2> SUFFICES ASSUME StackInv, HistInv, NestInv, [Next]_vars PROVE NestInv'
    OBVIOUS
  <2>1. CASE UNCHANGED vars
    <3>1. todo' = todo /\ tok' = tok /\ next' = next /\ open' = open /\ reported' = reported
      BY <2>1 DEF vars, input
    <3>2. SilentNest => SilentNest'
      BY <3>1 DEF SilentNest
    <3> QED BY <3>1, <3>2 DEF NestInv
  <2>2. CASE Next
    <3>1. reported => reported'
      BY <2>2, NextTells DEF Tells
    <3>2. SilentNest => Nests
      BY <2>2, NextNests
    <3> QED BY <3>1, <3>2 DEF NestInv, Nests
  <2> QED BY <2>1, <2>2
<1> QED BY <1>1, <1>2, HistoryIsKept, PTL DEF Spec

(* For every stream of tokens: what the parser accepts in silence is closed, *)
(* no brace and no directive is left open at the end of the source (expect   *)
(* asks for each where it is due, parse.c:134-141).                          *)
THEOREM SilenceMeansClosed == Spec => []SilentMeansClosed
<1>1. StackInv /\ HistInv /\ NestInv => SilentMeansClosed
  <2> SUFFICES ASSUME SilentNest, todo = <<>>, NEW j \in DOMAIN open
               PROVE  open[j] \notin {"brace", "ctrl"}
    BY DEF NestInv, SilentMeansClosed, Done
  <2> DEFINE e == <<>>
  <2>1. IsStack(e) /\ Len(e) = 0 /\ First(e) = None
    BY DEF IsStack, First
  <2>2. todo = e
    OBVIOUS
  <2> HIDE DEF e
  <2>3. tok = "EOF" /\ open \in Seq(OpenKinds)
    BY <2>1, <2>2 DEF SilentNest, Nest
  <2>4. PICK o \in Seq(OpenKinds) : Over(tok, open, o) /\ Ahead(e, o)
    BY <2>1, <2>2 DEF SilentNest, Nest, None
  <2>5. Height(e, 1) = Len(o)
    BY <2>1, <2>4 DEF Ahead, Fits, None
  <2>6. Len(o) = 0
    BY <2>1, <2>5, HeightEnds
  <2>7. \A i \in Len(o) + 1 .. Len(open) : open[i] \in {"elem", "str"}
    BY <2>3, <2>4 DEF Over
  <2>8. j \in 1 .. Len(open) /\ Len(open) \in Nat
    BY <2>3
  <2>9. open[j] \in {"elem", "str"}
    BY <2>6, <2>7, <2>8
  <2> QED BY <2>9
<1> QED BY <1>1, NestIsKept, PTL

(* For every stream of tokens: where an expression, a statement or a piece   *)
(* of content begins and nothing was reported, what the parser has still to  *)
(* close is what the lexer has open, in the same order (D059).               *)
THEOREM SameNestHolds == Spec => []SameNest
<1>1. StackInv /\ HistInv /\ NestInv => SameNest
  <2> SUFFICES ASSUME StackInv, SilentNest, At("expr") \/ At("stmt") \/ At("children"), tok \in Neutral
               PROVE  /\ Within(1) = Len(open)
                      /\ \A j \in DOMAIN todo :
                            todo[j] \in DOMAIN Closes => open[Within(j)] \in Closes[todo[j]]
    BY DEF NestInv, SameNest
  <2>1. IsStack(todo) /\ todo # <<>> /\ Head(todo) \in {"expr", "stmt", "children"}
    BY DEF StackInv, At
  <2>2. Len(todo) \in Nat /\ Len(todo) >= 1 /\ todo[1] = Head(todo) /\ DOMAIN todo = 1 .. Len(todo)
    <3>1. Len(todo) \in Nat /\ Len(todo) >= 1 /\ todo[1] = Head(todo)
      BY <2>1, TailIs
    <3> QED BY <2>1, <3>1 DEF IsStack
  <2>3. First(todo) \in {"expr", "stmt", "children"}
    BY <2>1, <2>2 DEF First
  <2>4. Loose(todo)
    BY <2>3 DEF Loose, Heads, CtrlWords, None
  <2>5. PICK o \in Seq(OpenKinds) : Over(tok, open, o) /\ Fits(todo, o)
    BY <2>3 DEF SilentNest, Nest, Ahead
  <2>6. open = o
    <3>1. tok \notin Turning \cup {"MARKUP_START", "EOF"}
      BY DEF Neutral, Ident, Turning
    <3> QED BY <2>5, <3>1, QuietIs
  <2>7. \A j \in 1 .. Len(todo) : todo[j] \notin CtrlWords
    <3> SUFFICES ASSUME NEW j \in 1 .. Len(todo), todo[j] \in CtrlWords PROVE FALSE
      OBVIOUS
    <3>1. j # 1
      BY <2>2, <2>3 DEF First, CtrlWords
    <3> DEFINE i == j - 1
    <3>2. i \in 1 .. Len(todo) /\ i + 1 = j /\ i < Len(todo)
      BY <2>2, <3>1
    <3> HIDE DEF i
    <3>3. After(todo, i) = todo[j]
      BY <3>2 DEF After
    <3>4. Follows(todo[i], After(todo, i))
      BY <2>5, <3>2 DEF Fits
    <3>5. todo[i] = "advance"
      BY <3>3, <3>4 DEF Follows
    <3> QED BY <2>1, <2>4, <2>5, <3>2, <3>5, NoneToAdvance
  <2>8. \A k \in 1 .. Len(todo) : todo[k] \in Closers <=> todo[k] \in DOMAIN Closes
    BY <2>7 DEF Closers
  <2>9. ASSUME NEW j \in 1 .. Len(todo) PROVE Within(j) = Height(todo, j)
    <3>1. \A k \in j .. Len(todo) : k \in 1 .. Len(todo)
      BY <2>2
    <3>2. {k \in j .. Len(todo) : todo[k] \in DOMAIN Closes} = {k \in j .. Len(todo) : todo[k] \in Closers}
      BY <2>8, <3>1
    <3> QED BY <3>2 DEF Within, Height
  <2>10. Within(1) = Len(open)
    <3>1. 1 \in 1 .. Len(todo)
      BY <2>2
    <3> QED BY <2>5, <2>6, <2>9, <3>1 DEF Fits
  <2>11. ASSUME NEW j \in 1 .. Len(todo), todo[j] \in DOMAIN Closes
         PROVE  open[Within(j)] \in Closes[todo[j]]
    <3>1. Innermost(o, Height(todo, j)) \in Closes[todo[j]]
      BY <2>5, <2>11 DEF Fits, Suits
    <3>2. "unit" \notin Closes[todo[j]]
      BY <2>11, ClosesIs
    <3>3. Innermost(o, Height(todo, j)) = o[Height(todo, j)]
      BY <3>1, <3>2 DEF Innermost
    <3> QED BY <2>6, <2>9, <3>1, <3>3
  <2> QED BY <2>2, <2>10, <2>11
<1> QED BY <1>1, NestIsKept, PTL

=============================================================================
