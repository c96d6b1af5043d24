---------------------------- MODULE SourceProofs ----------------------------
(* The line index and the search in it, for every text; then the loading of  *)
(* a source, for every file: what loads is the whole file, and the           *)
(* validation accepts the well-formed texts of the Unicode standard and no   *)
(* others; last the columns of a diagnostic.                                 *)
EXTENDS Source, TLAPS, FiniteSetTheorems, SequenceTheorems, WellFoundedInduction

Octets == 0 .. 255

TypeInv ==
    /\ pc \in {"open", "read", "check", "utf8", "copy", "count", "index",
               "loaded", "search", "found", "null", "no_memory"}
    /\ file \in Seq(Octets) /\ text \in Seq(Octets)
    /\ Size <= Len(file)

(* The newlines before k that begin a line.                                  *)
Breaks(k) == {j \in 0 .. k - 1 : BeginsLine(j)}

(* The lines that begin before the byte k are those in s.                    *)
Lines(s, k) ==
    /\ k \in 0 .. Size
    /\ s \in Seq(0 .. k)
    /\ Len(s) = 1 + Cardinality(Breaks(k))
    /\ s[1] = 0
    /\ \A l \in 2 .. Len(s) :
         /\ s[l - 1] < s[l]
         /\ BeginsLine(s[l] - 1)
         /\ \A j \in s[l - 1] .. s[l] - 2 : ~ BeginsLine(j)
    /\ \A j \in s[Len(s)] .. k - 1 : ~ BeginsLine(j)
    /\ \A l \in 1 .. Len(s) : Cardinality(Breaks(s[l])) = l - 1

LinesInv ==
    /\ pc = "index" => Lines(line_starts, i)
    /\ HasLoaded => Lines(line_starts, Size)

LEMMA BreaksAreFinite ==
    ASSUME NEW k \in Nat
    PROVE  IsFiniteSet(Breaks(k)) /\ Cardinality(Breaks(k)) \in Nat
<1>1. IsFiniteSet(0 .. k - 1)
  BY FS_Interval
<1>2. Breaks(k) \subseteq 0 .. k - 1
  BY DEF Breaks
<1> QED BY <1>1, <1>2, FS_Subset, FS_CardinalityType

LEMMA NextBreak ==
    ASSUME NEW k \in Nat
    PROVE  /\ BeginsLine(k) => Cardinality(Breaks(k + 1)) = Cardinality(Breaks(k)) + 1
           /\ ~ BeginsLine(k) => Breaks(k + 1) = Breaks(k)
<1>1. ASSUME BeginsLine(k) PROVE Cardinality(Breaks(k + 1)) = Cardinality(Breaks(k)) + 1
  <2>1. Breaks(k + 1) = Breaks(k) \cup {k}
    BY <1>1 DEF Breaks
  <2>2. k \notin Breaks(k)
    BY DEF Breaks
  <2> QED BY <2>1, <2>2, BreaksAreFinite, FS_AddElement
<1>2. ASSUME ~ BeginsLine(k) PROVE Breaks(k + 1) = Breaks(k)
  BY <1>2 DEF Breaks
<1> QED BY <1>1, <1>2

LEMMA BreaksGrow ==
    ASSUME NEW k \in Nat, NEW m \in Nat, k <= m
    PROVE  Cardinality(Breaks(k)) <= Cardinality(Breaks(m))
<1>1. Breaks(k) \subseteq Breaks(m)
  BY DEF Breaks
<1> QED BY <1>1, BreaksAreFinite, FS_Subset

-----------------------------------------------------------------------------

LEMMA TextIsBytes == TypeInv => Size \in Nat /\ Len(file) \in Nat
BY LenProperties DEF TypeInv, Size

(* What was said of the text holds as long as the text does.                 *)
LEMMA LinesStay ==
    ASSUME UNCHANGED text
    PROVE  /\ Lines(line_starts, i)' <=> Lines(line_starts', i')
           /\ Lines(line_starts, Size)' <=> Lines(line_starts', Size)
BY DEF Lines, Breaks, BeginsLine, Byte, Size

LEMMA FirstLine == TypeInv => Lines(<<0>>, 0)
<1> SUFFICES ASSUME TypeInv PROVE Lines(<<0>>, 0)
  OBVIOUS
<1>1. Breaks(0) = {}
  BY DEF Breaks
<1>2. Cardinality(Breaks(0)) = 0
  BY <1>1, FS_EmptySet
<1>3. <<0>> \in Seq(0 .. 0) /\ Len(<<0>>) = 1 /\ <<0>>[1] = 0
  OBVIOUS
<1> DEFINE s == <<0>>
<1> HIDE DEF s
<1>4. s \in Seq(0 .. 0) /\ Len(s) = 1 /\ s[1] = 0
  BY <1>3 DEF s
<1>5. Lines(s, 0)
  BY <1>2, <1>4, TextIsBytes DEF Lines
<1> QED BY <1>5 DEF s

(* A byte that begins no line.                                               *)
LEMMA SameLines ==
    ASSUME TypeInv, NEW s, NEW k, Lines(s, k), k < Size, ~ BeginsLine(k)
    PROVE  Lines(s, k + 1)
<1>1. k \in Nat /\ Size \in Nat
  BY TextIsBytes DEF Lines
<1>2. s \in Seq(0 .. k + 1)
  BY <1>1 DEF Lines
<1>3. Breaks(k + 1) = Breaks(k)
  BY <1>1, NextBreak
<1>4. \A j \in s[Len(s)] .. k : ~ BeginsLine(j)
  BY <1>1 DEF Lines
<1> QED BY <1>1, <1>2, <1>3, <1>4 DEF Lines

(* A newline begins one, and there is room for it.                           *)
LEMMA OneLineMore ==
    ASSUME TypeInv, NEW s, NEW k, Lines(s, k), k < Size, BeginsLine(k)
    PROVE  Lines(Append(s, k + 1), k + 1) /\ Len(s) < line_count
<1>1. k \in Nat /\ Size \in Nat
  BY TextIsBytes DEF Lines
<1>2. Cardinality(Breaks(k + 1)) = Cardinality(Breaks(k)) + 1
  BY <1>1, NextBreak
<1>3. Cardinality(Breaks(k + 1)) <= Cardinality(Breaks(Size))
  BY <1>1, BreaksGrow
<1>4. line_count = 1 + Cardinality(Breaks(Size))
  BY DEF line_count, Breaks
<1>5. /\ Cardinality(Breaks(k)) \in Nat /\ Cardinality(Breaks(k + 1)) \in Nat
      /\ Cardinality(Breaks(Size)) \in Nat
  BY <1>1, BreaksAreFinite
<1>6. Len(s) < line_count
  BY <1>2, <1>3, <1>4, <1>5 DEF Lines
<1> DEFINE n == Len(s)
           r == Append(s, k + 1)
<1>7. n \in Nat \ {0}
  BY <1>5 DEF Lines
<1>8. s \in Seq(0 .. k + 1)
  BY <1>1 DEF Lines
<1>9. /\ r \in Seq(0 .. k + 1) /\ Len(r) = n + 1 /\ r[n + 1] = k + 1
      /\ \A l \in 1 .. n : r[l] = s[l]
  BY <1>1, <1>8, AppendProperties
<1>10. s[n] \in 0 .. k
  BY <1>7 DEF Lines
<1> HIDE DEF r
<1>11. r[1] = 0
  BY <1>7, <1>9 DEF Lines
<1>12. ASSUME NEW l \in 2 .. n + 1
       PROVE  /\ r[l - 1] < r[l]
              /\ BeginsLine(r[l] - 1)
              /\ \A j \in r[l - 1] .. r[l] - 2 : ~ BeginsLine(j)
  <2>1. CASE l \in 2 .. n
    <3>1. r[l] = s[l] /\ r[l - 1] = s[l - 1]
      BY <2>1, <1>7, <1>9
    <3> QED BY <2>1, <3>1 DEF Lines
  <2>2. CASE l = n + 1
    <3>1. r[l] = k + 1 /\ r[l - 1] = s[n]
      BY <2>2, <1>7, <1>9
    <3>2. r[l] - 1 = k /\ r[l] - 2 = k - 1
      BY <3>1, <1>1
    <3> QED BY <3>1, <3>2, <1>1, <1>10 DEF Lines
  <2> QED BY <2>1, <2>2, <1>7
<1>13. \A j \in r[Len(r)] .. (k + 1) - 1 : ~ BeginsLine(j)
  BY <1>1, <1>9
<1>14. ASSUME NEW l \in 1 .. n + 1 PROVE Cardinality(Breaks(r[l])) = l - 1
  <2>1. CASE l \in 1 .. n
    BY <2>1, <1>9 DEF Lines
  <2>2. CASE l = n + 1
    BY <2>2, <1>2, <1>5, <1>7, <1>9 DEF Lines
  <2> QED BY <2>1, <2>2, <1>7
<1>15. Len(r) = 1 + Cardinality(Breaks(k + 1))
  BY <1>2, <1>5, <1>9 DEF Lines
<1>16. k + 1 \in 0 .. Size
  BY <1>1
<1>17. Lines(r, k + 1)
  BY <1>9, <1>11, <1>12, <1>13, <1>14, <1>15, <1>16 DEF Lines
<1> QED BY <1>6, <1>17 DEF r

-----------------------------------------------------------------------------

Inv == TypeInv /\ LinesInv

(* A step that leaves the text and its index alone leaves what is said of    *)
(* them alone, unless it begins or ends the index.                           *)
LEMMA Elsewhere ==
    ASSUME Inv, UNCHANGED <<file, text, line_starts>>,
           pc' \in {"open", "read", "check", "utf8", "copy", "count", "null", "no_memory",
                   "loaded", "search", "found"},
           pc' \in {"loaded", "search", "found"} => HasLoaded
    PROVE  Inv'
<1>1. TypeInv'
  BY DEF Inv, TypeInv, Size
<1>2. HasLoaded' => Lines(line_starts', Size)
  BY DEF Inv, LinesInv, HasLoaded
<1>3. Size' = Size
  BY DEF Size
<1>4. HasLoaded' => Lines(line_starts, Size)'
  BY <1>2, LinesStay
<1> QED BY <1>1, <1>4 DEF Inv, LinesInv

LEMMA ReadKeeps == Inv /\ Read => Inv'
<1> SUFFICES ASSUME Inv, Read PROVE Inv'
  OBVIOUS
<1> DEFINE got == Smaller(Chunk, Len(file) - Size)
<1>1. /\ pc = "read" /\ text' = text \o Got(got) /\ file' = file
      /\ pc' \in {"read", "check"}
  BY DEF Read, load
<1>2. Size \in Nat /\ Len(file) \in Nat /\ Size <= Len(file)
  BY TextIsBytes DEF Inv, TypeInv
<1>3. got \in Nat /\ Size + got <= Len(file)
  BY <1>2, SourceAssumption DEF Smaller
<1> HIDE DEF got
<1>4. Got(got) \in Seq(Octets) /\ Len(Got(got)) = got
  <2>1. \A j \in Size + 1 .. Size + got : file[j] \in Octets
    BY <1>2, <1>3 DEF Inv, TypeInv
  <2>2. file \in Seq(Octets)
    BY DEF Inv, TypeInv
  <2>3. Size + 1 \in 1 .. Len(file) + 1 /\ Size + got \in Size + 1 - 1 .. Len(file)
    BY <1>2, <1>3
  <2>4. SubSeq(file, Size + 1, Size + got) \in Seq(Octets)
    BY <2>2, <2>3, <1>2, <1>3, SubSeqProperties
  <2>5. Len(SubSeq(file, Size + 1, Size + got)) = got
    BY <2>2, <2>3, <1>2, <1>3, SubSeqProperties
  <2> QED BY <2>4, <2>5 DEF Got
<1>5. text' \in Seq(Octets) /\ Size' = Size + got
  <2>1. text \in Seq(Octets)
    BY DEF Inv, TypeInv
  <2> QED BY <1>1, <1>4, <2>1, ConcatProperties DEF Size
<1>6. TypeInv'
  BY <1>1, <1>3, <1>5 DEF Inv, TypeInv
<1>7. LinesInv'
  BY <1>1 DEF LinesInv, HasLoaded
<1> QED BY <1>6, <1>7 DEF Inv

LEMMA CountLinesKeeps == Inv /\ CountLines => Inv'
<1> SUFFICES ASSUME Inv, CountLines PROVE Inv'
  OBVIOUS
<1>1. /\ pc' = "index" /\ line_starts' = <<0>> /\ i' = 0
      /\ UNCHANGED <<file, text>>
  BY DEF CountLines, load
<1>2. TypeInv'
  BY <1>1 DEF Inv, TypeInv, Size
<1>3. Lines(line_starts, i)'
  BY <1>1, FirstLine, LinesStay DEF Inv
<1> QED BY <1>1, <1>2, <1>3 DEF Inv, LinesInv, HasLoaded

(* The index never runs past what was counted for it. *)
LEMMA IndexByteKeeps == Inv /\ IndexByte => Inv'
<1> SUFFICES ASSUME Inv, IndexByte PROVE Inv'
  OBVIOUS
<1>1. pc = "index" /\ i < Size /\ i' = i + 1 /\ UNCHANGED <<file, text>>
  BY DEF IndexByte, load
<1>2. TypeInv /\ Lines(line_starts, i)
  BY <1>1 DEF Inv, LinesInv
<1>3. pc' = "index" /\ Lines(line_starts', i')
  <2>1. CASE BeginsLine(i)
    <3>1. Lines(Append(line_starts, i + 1), i + 1) /\ Len(line_starts) < line_count
      BY <1>1, <1>2, <2>1, OneLineMore
    <3>2. line_starts' = Append(line_starts, i + 1) /\ pc' = pc
      BY <2>1, <3>1 DEF IndexByte
    <3> QED BY <1>1, <3>1, <3>2
  <2>2. CASE ~ BeginsLine(i)
    <3>1. line_starts' = line_starts /\ pc' = pc
      BY <2>2 DEF IndexByte
    <3> QED BY <1>1, <1>2, <2>2, <3>1, SameLines
  <2> QED BY <2>1, <2>2
<1>4. Lines(line_starts, i)'
  BY <1>1, <1>3, LinesStay
<1>5. TypeInv'
  BY <1>1, <1>2, <1>3 DEF TypeInv, Size
<1> QED BY <1>3, <1>4, <1>5 DEF Inv, LinesInv, HasLoaded

LEMMA IndexEndsKeeps == Inv /\ IndexEnds => Inv'
<1> SUFFICES ASSUME Inv, IndexEnds PROVE Inv'
  OBVIOUS
<1>1. /\ pc = "index" /\ i = Size /\ pc' = "loaded"
      /\ UNCHANGED <<file, text, line_starts>>
  BY DEF IndexEnds, load
<1>2. Lines(line_starts', Size)
  BY <1>1 DEF Inv, LinesInv
<1>3. Size' = Size
  BY <1>1 DEF Size
<1>4. Lines(line_starts, Size)'
  BY <1>1, <1>2, LinesStay
<1>5. TypeInv'
  BY <1>1, <1>3 DEF Inv, TypeInv
<1> QED BY <1>1, <1>4, <1>5 DEF Inv, LinesInv

LEMMA StepKeeps == Inv /\ [Next]_vars => Inv'
<1> SUFFICES ASSUME Inv, [Next]_vars PROVE Inv'
  OBVIOUS
<1>1. CASE Open \/ CannotOpen \/ ReadFails \/ OutOfMemory \/ TooLarge \/ NulByte
  BY <1>1, Elsewhere
     DEF Open, CannotOpen, ReadFails, OutOfMemory, TooLarge, NulByte, Null, load
<1>2. CASE StartScan \/ ScanCharacter \/ InvalidUtf8 \/ ScanEnds \/ Copy
  BY <1>2, Elsewhere DEF StartScan, ScanCharacter, InvalidUtf8, ScanEnds, Copy, Null, load
<1>3. CASE StartLookup \/ Halve \/ Found \/ Return
  BY <1>3, Elsewhere DEF StartLookup, Halve, Found, Return, load, HasLoaded
<1>4. CASE Read
  BY <1>4, ReadKeeps
<1>5. CASE CountLines
  BY <1>5, CountLinesKeeps
<1>6. CASE IndexByte
  BY <1>6, IndexByteKeeps
<1>7. CASE IndexEnds
  BY <1>7, IndexEndsKeeps
<1>8. CASE UNCHANGED vars
  <2>1. UNCHANGED <<pc, file, text, line_starts, i>>
    BY <1>8 DEF vars
  <2>2. CASE pc = "index"
    <3>1. Lines(line_starts', i')
      BY <2>1, <2>2 DEF Inv, LinesInv
    <3>2. Lines(line_starts, i)'
      BY <2>1, <3>1, LinesStay
    <3> QED BY <2>1, <2>2, <3>2 DEF Inv, LinesInv, HasLoaded, TypeInv, Size
  <2>3. CASE pc # "index"
    BY <2>1, <2>3, Elsewhere DEF Inv, TypeInv, HasLoaded
  <2> QED BY <2>2, <2>3
<1> QED BY <1>1, <1>2, <1>3, <1>4, <1>5, <1>6, <1>7, <1>8 DEF Next, Load, Search

LEMMA InitHolds == Init => Inv
<1> SUFFICES ASSUME Init PROVE Inv
  OBVIOUS
<1>1. file \in Seq(Octets) /\ (text = <<>> \/ text = file) /\ pc \in {"open", "check"}
  BY SourceAssumption DEF Init, Octets
<1>2. text \in Seq(Octets) /\ Len(text) <= Len(file)
  <2>1. Len(file) \in Nat
    BY <1>1, LenProperties
  <2>2. <<>> \in Seq(Octets) /\ Len(<<>>) = 0
    BY EmptySeq
  <2>3. CASE text = <<>>
    BY <2>1, <2>2, <2>3
  <2>4. CASE text = file
    BY <1>1, <2>1, <2>4
  <2> QED BY <1>1, <2>3, <2>4
<1> QED BY <1>1, <1>2 DEF Inv, TypeInv, LinesInv, HasLoaded, Size

LEMMA InvHolds == Spec => []Inv
<1>1. Init => Inv
  BY InitHolds
<1>2. Inv /\ [Next]_vars => Inv'
  BY StepKeeps
<1> QED BY <1>1, <1>2, PTL DEF Spec

-----------------------------------------------------------------------------

(* The lines of a loaded source make up its text, whatever the text, and the *)
(* index never runs past what was counted for it (source.c:92).              *)
THEOREM LinesAreRight == Spec => []LinesMakeTheText
<1>1. Inv => LinesMakeTheText
  <2> SUFFICES ASSUME Inv PROVE LinesMakeTheText
    OBVIOUS
  <2>1. pc # "abort"
    BY DEF Inv, TypeInv
  <2> SUFFICES ASSUME HasLoaded, NEW l \in DOMAIN line_starts
               PROVE  LET start == line_starts[l] end == LineEnd(l) IN
                      /\ start < end \/ text = <<>>
                      /\ \A j \in start .. end - 2 : Byte(text, j) # NL
                      /\ l < Len(line_starts) => Byte(text, end - 1) = NL
    BY <2>1 DEF LinesMakeTheText
  <2> DEFINE n == Len(line_starts)
             start == line_starts[l]
  <2>2. Lines(line_starts, Size) /\ Size \in Nat
    BY TextIsBytes DEF Inv, LinesInv
  <2>3. line_starts \in Seq(0 .. Size) /\ n \in Nat /\ l \in 1 .. n
    BY <2>2, LenProperties DEF Lines
  <2>4. start \in 0 .. Size
    BY <2>3, ElementOfSeq
  <2>5. Size = 0 => text = <<>>
    <3>1. text \in Seq(Octets)
      BY DEF Inv, TypeInv
    <3> QED BY <3>1, EmptySeq DEF Size
  <2>6. CASE l < n
    <3>1. l + 1 \in 2 .. n /\ (l + 1) - 1 = l
      BY <2>3, <2>6
    <3> DEFINE end == line_starts[l + 1]
    <3>2. end \in 0 .. Size
      <4>1. l + 1 \in 1 .. Len(line_starts)
        BY <2>3, <3>1
      <4> QED BY <2>3, <4>1, ElementOfSeq
    <3>3. /\ start < end /\ BeginsLine(end - 1)
          /\ \A j \in start .. end - 2 : ~ BeginsLine(j)
      BY <2>2, <3>1 DEF Lines
    <3>4. LineEnd(l) = end
      BY <2>3, <2>6 DEF LineEnd
    <3>5. \A j \in start .. end - 2 : Byte(text, j) # NL
      BY <2>4, <3>2, <3>3, <2>2 DEF BeginsLine
    <3>6. Byte(text, end - 1) = NL
      BY <3>3 DEF BeginsLine
    <3> QED BY <3>3, <3>4, <3>5, <3>6
  <2>7. CASE l = n
    <3>1. LineEnd(l) = Size
      BY <2>7 DEF LineEnd
    <3>2. \A j \in start .. Size - 1 : ~ BeginsLine(j)
      BY <2>2, <2>7 DEF Lines
    <3>3. \A j \in start .. Size - 2 : Byte(text, j) # NL
      BY <2>2, <2>4, <3>2 DEF BeginsLine
    <3>4. start < Size \/ text = <<>>
      <4>1. CASE l = 1
        BY <2>2, <2>5, <4>1 DEF Lines
      <4>2. CASE l # 1
        <5>1. l \in 2 .. n
          BY <2>3, <4>2
        <5>2. BeginsLine(start - 1)
          BY <2>2, <5>1 DEF Lines
        <5> QED BY <2>2, <2>4, <5>2 DEF BeginsLine
      <4> QED BY <4>1, <4>2
    <3> QED BY <2>7, <3>1, <3>3, <3>4, <2>3
  <2> QED BY <2>3, <2>6, <2>7
<1> QED BY <1>1, InvHolds, PTL

-----------------------------------------------------------------------------

(* The line that is searched for is one of lo to hi: the first of them       *)
(* begins at or before the offset, the one after the last behind it.         *)
Interval ==
    /\ at.start \in Nat
    /\ lo \in Nat /\ hi \in Nat /\ lo <= hi /\ hi < Len(line_starts)
    /\ line_starts[lo + 1] <= Offset
    /\ hi + 1 < Len(line_starts) => Offset < line_starts[hi + 2]

SearchInv ==
    /\ pc \in {"search", "found"} => Interval
    /\ pc = "found" =>
         /\ lo = hi
         /\ lc = [line |-> lo + 1, col |-> 1 + Characters(line_starts[lo + 1], Offset)]

LEMMA OffsetIsInText == Inv /\ at.start \in Nat => Offset \in 0 .. Size
BY TextIsBytes DEF Inv, Offset, Smaller

LEMMA StartsAreInText ==
    ASSUME Inv, HasLoaded, NEW l \in 1 .. Len(line_starts)
    PROVE  line_starts[l] \in 0 .. Size
<1>1. line_starts \in Seq(0 .. Size)
  BY DEF Inv, LinesInv, Lines
<1> QED BY <1>1, ElementOfSeq

LEMMA ThereIsALine == Inv /\ HasLoaded => Len(line_starts) \in Nat \ {0} /\ line_starts[1] = 0
<1> SUFFICES ASSUME Inv, HasLoaded
             PROVE  Len(line_starts) \in Nat \ {0} /\ line_starts[1] = 0
  OBVIOUS
<1>1. Lines(line_starts, Size) /\ Size \in Nat
  BY TextIsBytes DEF Inv, LinesInv
<1>2. Cardinality(Breaks(Size)) \in Nat
  BY <1>1, BreaksAreFinite
<1> QED BY <1>1, <1>2 DEF Lines

LEMMA HalveKeeps == Inv /\ SearchInv /\ Halve => SearchInv'
<1> SUFFICES ASSUME Inv, SearchInv, Halve PROVE SearchInv'
  OBVIOUS
<1>1. /\ pc = "search" /\ lo < hi
      /\ UNCHANGED <<pc, text, line_starts, at>>
      /\ IF line_starts[Mid + 1] <= Offset
         THEN lo' = Mid /\ hi' = hi
         ELSE hi' = Mid - 1 /\ lo' = lo
  BY DEF Halve
<1>2. Interval /\ HasLoaded
  BY <1>1 DEF SearchInv, HasLoaded
<1>3. Mid \in Nat /\ lo < Mid /\ Mid <= hi
  BY <1>1, <1>2 DEF Interval, Mid
<1>4. Offset' = Offset /\ Offset \in Int
  BY <1>1, <1>2, OffsetIsInText, TextIsBytes DEF Offset, Size, Interval, Inv
<1>5. Len(line_starts) \in Nat
  BY <1>2, ThereIsALine
<1>6. line_starts[Mid + 1] \in Int
  <2>1. Mid + 1 \in 1 .. Len(line_starts)
    BY <1>2, <1>3, <1>5 DEF Interval
  <2> QED BY <1>2, <2>1, StartsAreInText
<1>7. Interval'
  <2>1. CASE line_starts[Mid + 1] <= Offset
    <3>1. lo' = Mid /\ hi' = hi
      BY <1>1, <2>1
    <3> QED BY <1>1, <1>2, <1>3, <1>4, <2>1, <3>1 DEF Interval
  <2>2. CASE ~ line_starts[Mid + 1] <= Offset
    <3>1. hi' = Mid - 1 /\ lo' = lo
      BY <1>1, <2>2
    <3>2. hi' + 2 = Mid + 1 /\ Offset < line_starts[Mid + 1]
      BY <1>3, <1>4, <1>6, <2>2, <3>1
    <3> QED BY <1>1, <1>2, <1>3, <1>4, <1>5, <3>1, <3>2 DEF Interval
  <2> QED BY <2>1, <2>2
<1> QED BY <1>1, <1>7 DEF SearchInv

LEMMA StartLookupKeeps == Inv /\ StartLookup => SearchInv'
<1> SUFFICES ASSUME Inv, StartLookup PROVE SearchInv'
  OBVIOUS
<1>1. /\ pc = "loaded" /\ pc' = "search" /\ UNCHANGED <<text, line_starts>>
      /\ lo' = 0 /\ hi' = Len(line_starts) - 1
  BY DEF StartLookup
<1>2. at'.start \in Nat
  <2>1. PICK s \in 0 .. Size + 1 : \E e \in s .. Size + 1 : at' = [start |-> s, end |-> e]
    BY DEF StartLookup
  <2> QED BY <2>1, TextIsBytes DEF Inv
<1>3. Len(line_starts) \in Nat \ {0} /\ line_starts[1] = 0
  BY <1>1, ThereIsALine DEF HasLoaded
<1>4. Offset' \in Nat
  BY <1>1, <1>2, TextIsBytes DEF Offset, Smaller, Size, Inv
<1>5. Interval'
  BY <1>1, <1>2, <1>3, <1>4 DEF Interval
<1> QED BY <1>1, <1>5 DEF SearchInv

LEMMA FoundKeeps == Inv /\ SearchInv /\ Found => SearchInv'
<1> SUFFICES ASSUME Inv, SearchInv, Found PROVE SearchInv'
  OBVIOUS
<1>1. /\ pc = "search" /\ pc' = "found" /\ lo >= hi
      /\ lc' = [line |-> lo + 1, col |-> 1 + Characters(line_starts[lo + 1], Offset)]
      /\ UNCHANGED <<text, line_starts, at, lo, hi>>
  BY DEF Found
<1>2. Interval /\ lo = hi
  BY <1>1 DEF SearchInv, Interval
<1>3. Offset' = Offset
  BY <1>1 DEF Offset, Size
<1>4. Interval'
  BY <1>1, <1>2, <1>3 DEF Interval
<1>5. Characters(line_starts[lo + 1], Offset)' = Characters(line_starts[lo + 1], Offset)
  BY <1>1, <1>3 DEF Characters, Byte
<1> QED BY <1>1, <1>2, <1>4, <1>5 DEF SearchInv

LEMMA SearchStep == Inv /\ SearchInv /\ [Next]_vars => SearchInv'
<1> SUFFICES ASSUME Inv, SearchInv, [Next]_vars PROVE SearchInv'
  OBVIOUS
<1>1. CASE Load
  <2>1. pc' \notin {"search", "found"}
    BY <1>1
       DEF Load, Open, CannotOpen, Read, ReadFails, OutOfMemory, TooLarge, NulByte, StartScan,
           ScanCharacter, InvalidUtf8, ScanEnds, Copy, CountLines, IndexByte, IndexEnds, Null
  <2> QED BY <2>1 DEF SearchInv
<1>2. CASE StartLookup
  BY <1>2, StartLookupKeeps
<1>3. CASE Halve
  BY <1>3, HalveKeeps
<1>4. CASE Found
  BY <1>4, FoundKeeps
<1>5. CASE Return
  BY <1>5 DEF Return, SearchInv
<1>6. CASE UNCHANGED vars
  <2>1. UNCHANGED <<pc, text, line_starts, at, lo, hi, lc>>
    BY <1>6 DEF vars
  <2> QED BY <2>1 DEF SearchInv, Interval, Offset, Size, Characters, Byte
<1> QED BY <1>1, <1>2, <1>3, <1>4, <1>5, <1>6 DEF Next, Search

(* The two ways of telling a continuation byte are one.                      *)
LEMMA TailIsTail == ASSUME NEW c \in Octets PROVE Continues(c) <=> c \in Tail80
BY DEF Octets, Continues, Tail80

(* The newlines before the offset are those before its line, and the last of *)
(* them is the one before the line.                                          *)
LEMMA LineIsTheLast ==
    ASSUME Inv, HasLoaded, Interval, lo = hi
    PROVE  /\ Breaks(Offset) = Breaks(line_starts[lo + 1])
           /\ Cardinality(Breaks(Offset)) = lo
           /\ lo = 0 => line_starts[lo + 1] = 0 /\ Breaks(Offset) = {}
           /\ lo # 0 => /\ line_starts[lo + 1] - 1 \in Breaks(Offset)
                        /\ \A o \in Breaks(Offset) : o <= line_starts[lo + 1] - 1
<1> DEFINE n == Len(line_starts)
           start == line_starts[lo + 1]
<1>1. Lines(line_starts, Size) /\ Size \in Nat
  BY TextIsBytes DEF Inv, LinesInv
<1>2. n \in Nat \ {0} /\ lo \in Nat /\ lo + 1 \in 1 .. n
  BY ThereIsALine DEF Interval
<1>3. start \in 0 .. Size /\ Offset \in 0 .. Size /\ start <= Offset
  BY <1>2, StartsAreInText, OffsetIsInText DEF Interval
<1>4. \A j \in start .. Offset - 1 : ~ BeginsLine(j)
  <2>1. CASE lo + 1 = n
    BY <1>1, <1>3, <2>1 DEF Lines
  <2>2. CASE lo + 1 < n
    <3>1. lo + 2 \in 2 .. n /\ (lo + 2) - 1 = lo + 1
      BY <1>2, <2>2
    <3>2. line_starts[lo + 2] \in 0 .. Size
      BY <1>2, <3>1, StartsAreInText
    <3>3. Offset < line_starts[lo + 2]
      BY <2>2 DEF Interval
    <3>4. \A j \in start .. line_starts[lo + 2] - 2 : ~ BeginsLine(j)
      BY <1>1, <3>1 DEF Lines
    <3> QED BY <1>3, <3>2, <3>3, <3>4
  <2> QED BY <1>2, <2>1, <2>2
<1>5. Breaks(Offset) = Breaks(start)
  BY <1>3, <1>4 DEF Breaks
<1>6. Cardinality(Breaks(start)) = lo
  BY <1>1, <1>2 DEF Lines
<1>7. lo = 0 => start = 0 /\ Breaks(Offset) = {}
  BY <1>1, <1>5 DEF Lines, Breaks
<1>8. ASSUME lo # 0
      PROVE  start - 1 \in Breaks(Offset) /\ \A o \in Breaks(Offset) : o <= start - 1
  <2>1. lo + 1 \in 2 .. n
    BY <1>2, <1>8
  <2>2. BeginsLine(start - 1) /\ line_starts[(lo + 1) - 1] < start
    BY <1>1, <2>1 DEF Lines
  <2>3. (lo + 1) - 1 \in 1 .. n
    BY <2>1
  <2>4. line_starts[(lo + 1) - 1] \in 0 .. Size
    BY <2>3, StartsAreInText
  <2> QED BY <1>3, <1>5, <2>2, <2>4 DEF Breaks
<1> QED BY <1>5, <1>6, <1>7, <1>8

(* A position is the number of newlines and of characters before it, for     *)
(* every text and every offset, one past the end included (source.c:238).    *)
THEOREM PositionsAreRight == Spec => []PositionIsRight
<1>1. Init => Inv /\ SearchInv
  BY InitHolds DEF Init, SearchInv
<1>2. Inv /\ SearchInv /\ [Next]_vars => Inv' /\ SearchInv'
  BY StepKeeps, SearchStep
<1>3. Inv /\ SearchInv => PositionIsRight
  <2> SUFFICES ASSUME Inv, SearchInv, pc = "found" PROVE PositionIsRight
    BY DEF PositionIsRight
  <2> DEFINE breaks == {j \in 0 .. Offset - 1 : BeginsLine(j)}
             greatest == CHOOSE j \in breaks : \A o \in breaks : o <= j
             last == IF breaks = {} THEN 0 ELSE 1 + greatest
             leads == {j \in last .. Offset - 1 : Byte(text, j) \notin Tail80}
             start == line_starts[lo + 1]
  <2>1. Interval /\ HasLoaded /\ lo = hi
    BY DEF SearchInv, HasLoaded
  <2>2. breaks = Breaks(Offset)
    BY DEF Breaks
  <2>3. Cardinality(breaks) = lo
    BY <2>1, <2>2, LineIsTheLast
  <2>4. /\ start \in 0 .. Size /\ Offset \in 0 .. Size /\ lo \in Nat
    <3>1. lo + 1 \in 1 .. Len(line_starts)
      BY <2>1, ThereIsALine DEF Interval
    <3> QED BY <2>1, <3>1, StartsAreInText, OffsetIsInText DEF Interval
  <2>5. last = start
    <3>1. CASE lo = 0
      BY <2>1, <2>2, <3>1, LineIsTheLast
    <3>2. CASE lo # 0
      <4>1. start - 1 \in breaks /\ \A o \in breaks : o <= start - 1
        BY <2>1, <2>2, <3>2, LineIsTheLast
      <4>2. \A j \in breaks : j \in Int
        OBVIOUS
      <4> HIDE DEF breaks
      <4>3. greatest \in breaks /\ \A o \in breaks : o <= greatest
        BY <4>1
      <4>4. greatest = start - 1
        BY <2>4, <4>1, <4>2, <4>3
      <4>5. breaks # {}
        BY <4>1
      <4>6. last = 1 + greatest
        BY <4>5
      <4>7. start \in Int
        BY <2>4
      <4> HIDE DEF last, greatest, start
      <4> QED BY <4>4, <4>6, <4>7
    <3> QED BY <3>1, <3>2
  <2>6. Characters(start, Offset) = Cardinality(leads)
    <3>1. \A j \in start .. Offset - 1 : Byte(text, j) \in Octets
      <4>1. text \in Seq(Octets)
        BY DEF Inv, TypeInv
      <4> SUFFICES ASSUME NEW j \in start .. Offset - 1 PROVE Byte(text, j) \in Octets
        OBVIOUS
      <4>2. j + 1 \in 1 .. Len(text)
        BY <2>4 DEF Size
      <4> QED BY <4>1, <4>2, ElementOfSeq DEF Byte
    <3>2. {j \in start .. Offset - 1 : ~ Continues(Byte(text, j))}
            = {j \in start .. Offset - 1 : Byte(text, j) \notin Tail80}
      BY <3>1, TailIsTail
    <3> QED BY <2>5, <3>2 DEF Characters
  <2>7. lc = [line |-> lo + 1, col |-> 1 + Characters(start, Offset)]
    BY DEF SearchInv
  <2>8. lo + 1 = 1 + Cardinality(breaks)
    BY <2>3, <2>4
  <2>9. lc = [line |-> 1 + Cardinality(breaks), col |-> 1 + Cardinality(leads)]
    BY <2>6, <2>7, <2>8
  <2> QED BY <2>9 DEF PositionIsRight
<1> QED BY <1>1, <1>2, <1>3, PTL DEF Spec

-----------------------------------------------------------------------------
(* One character.                                                            *)

(* A character of k bytes begins at j.                                       *)
Fits(j, k) == j + k <= Size /\ WellFormedCharacter(SubSeq(text, j + 1, j + k))
Ends(j) == {k \in 1 .. 4 : Fits(j, k)}

LEMMA ByteIs ==
    ASSUME TypeInv, NEW j \in 0 .. Size - 1
    PROVE  Byte(text, j) \in Octets
<1>1. j + 1 \in 1 .. Len(text) /\ text \in Seq(Octets)
  BY TextIsBytes DEF TypeInv, Size
<1> QED BY <1>1 DEF Byte

LEMMA PartOfText ==
    ASSUME TypeInv, NEW j \in 0 .. Size - 1, NEW k \in 1 .. 4, j + k <= Size
    PROVE  LET s == SubSeq(text, j + 1, j + k)
           IN  Len(s) = k /\ \A m \in 1 .. k : s[m] = Byte(text, j + m - 1)
<1> DEFINE a == j + 1
           b == j + k
           s == SubSeq(text, a, b)
<1>1. text \in Seq(Octets) /\ Size \in Nat /\ Size = Len(text)
  BY TextIsBytes DEF TypeInv, Size
<1>2. /\ a \in Int /\ b \in Int /\ \A m \in a .. b : text[m] \in Octets
      /\ a <= b /\ b - a + 1 = k /\ \A m \in 1 .. k : a + m - 1 = j + m - 1 + 1
  BY <1>1
<1> HIDE DEF a, b
<1>3. /\ Len(s) = IF a <= b THEN b - a + 1 ELSE 0
      /\ \A m \in 1 .. b - a + 1 : s[m] = text[a + m - 1]
  <2>1. a \in Int /\ b \in Int /\ \A m \in a .. b : text[m] \in Octets
    BY <1>2
  <2>2. Len(s) = IF a <= b THEN b - a + 1 ELSE 0
    BY ONLY <2>1, SubSeqProperties
  <2>3. \A m \in 1 .. b - a + 1 : s[m] = text[a + m - 1]
    BY ONLY <2>1, SubSeqProperties
  <2> QED BY <2>2, <2>3
<1> HIDE DEF s
<1>4. Len(s) = k /\ \A m \in 1 .. k : s[m] = text[j + m - 1 + 1]
  BY <1>2, <1>3
<1> QED BY <1>4 DEF s, a, b, Byte

(* The table, byte by byte.                                                  *)
LEMMA FitsIs ==
    ASSUME TypeInv, NEW j \in 0 .. Size - 1
    PROVE  LET c == Byte(text, j) c2 == Byte(text, j + 1) c3 == Byte(text, j + 2) c4 == Byte(text, j + 3)
           IN  /\ Fits(j, 1) <=> c <= 127
               /\ Fits(j, 2) <=> j + 2 <= Size /\ c \in 194 .. 223 /\ c2 \in Tail80
               /\ Fits(j, 3) <=>
                    /\ j + 3 <= Size /\ c3 \in Tail80
                    /\ \/ c = 224 /\ c2 \in 160 .. 191
                       \/ c \in (225 .. 236) \cup {238, 239} /\ c2 \in Tail80
                       \/ c = 237 /\ c2 \in 128 .. 159
               /\ Fits(j, 4) <=>
                    /\ j + 4 <= Size /\ c3 \in Tail80 /\ c4 \in Tail80
                    /\ \/ c = 240 /\ c2 \in 144 .. 191
                       \/ c \in 241 .. 243 /\ c2 \in Tail80
                       \/ c = 244 /\ c2 \in 128 .. 143
<1> DEFINE c == Byte(text, j)
           c2 == Byte(text, j + 1)
           c3 == Byte(text, j + 2)
           c4 == Byte(text, j + 3)
<1>0. Size \in Nat /\ j \in Nat /\ j + 1 - 1 = j /\ j + 2 - 1 = j + 1 /\ j + 3 - 1 = j + 2 /\ j + 4 - 1 = j + 3
  BY TextIsBytes
<1>1. c \in Octets
  BY ByteIs
<1> HIDE DEF c, c2, c3, c4
<1>2. Fits(j, 1) <=> c <= 127
  <2> DEFINE s == SubSeq(text, j + 1, j + 1)
  <2>1. j + 1 <= Size /\ 1 \in 1 .. 4 /\ 1 \in 1 .. 1
    BY <1>0
  <2>2. Len(s) = 1 /\ s[1] = c
    BY <1>0, <2>1, PartOfText DEF c
  <2>3. Fits(j, 1) <=> WellFormedCharacter(s)
    BY <2>1 DEF Fits
  <2> HIDE DEF s
  <2> QED BY <1>1, <2>2, <2>3 DEF WellFormedCharacter, Octets
<1>3. Fits(j, 2) <=> j + 2 <= Size /\ c \in 194 .. 223 /\ c2 \in Tail80
  <2> DEFINE s == SubSeq(text, j + 1, j + 2)
  <2>1. Fits(j, 2) <=> j + 2 <= Size /\ WellFormedCharacter(s)
    BY DEF Fits
  <2>2. ASSUME j + 2 <= Size PROVE Len(s) = 2 /\ s[1] = c /\ s[2] = c2
    <3>1. 2 \in 1 .. 4 /\ 1 \in 1 .. 2 /\ 2 \in 1 .. 2
      OBVIOUS
    <3> QED BY <1>0, <2>2, <3>1, PartOfText DEF c, c2
  <2> HIDE DEF s
  <2> QED BY <1>1, <2>1, <2>2 DEF WellFormedCharacter, Octets
<1>4. Fits(j, 3) <=>
        /\ j + 3 <= Size /\ c3 \in Tail80
        /\ \/ c = 224 /\ c2 \in 160 .. 191
           \/ c \in (225 .. 236) \cup {238, 239} /\ c2 \in Tail80
           \/ c = 237 /\ c2 \in 128 .. 159
  <2> DEFINE s == SubSeq(text, j + 1, j + 3)
  <2>1. Fits(j, 3) <=> j + 3 <= Size /\ WellFormedCharacter(s)
    BY DEF Fits
  <2>2. ASSUME j + 3 <= Size PROVE Len(s) = 3 /\ s[1] = c /\ s[2] = c2 /\ s[3] = c3
    <3>1. 3 \in 1 .. 4 /\ 1 \in 1 .. 3 /\ 2 \in 1 .. 3 /\ 3 \in 1 .. 3
      OBVIOUS
    <3> QED BY <1>0, <2>2, <3>1, PartOfText DEF c, c2, c3
  <2> HIDE DEF s
  <2> QED BY <1>1, <2>1, <2>2 DEF WellFormedCharacter, Octets
<1>5. Fits(j, 4) <=>
        /\ j + 4 <= Size /\ c3 \in Tail80 /\ c4 \in Tail80
        /\ \/ c = 240 /\ c2 \in 144 .. 191
           \/ c \in 241 .. 243 /\ c2 \in Tail80
           \/ c = 244 /\ c2 \in 128 .. 143
  <2> DEFINE s == SubSeq(text, j + 1, j + 4)
  <2>1. Fits(j, 4) <=> j + 4 <= Size /\ WellFormedCharacter(s)
    BY DEF Fits
  <2>2. ASSUME j + 4 <= Size PROVE Len(s) = 4 /\ s[1] = c /\ s[2] = c2 /\ s[3] = c3 /\ s[4] = c4
    <3>1. 4 \in 1 .. 4 /\ 1 \in 1 .. 4 /\ 2 \in 1 .. 4 /\ 3 \in 1 .. 4
      OBVIOUS
    <3> QED BY <1>0, <2>2, <3>1, PartOfText DEF c, c2, c3, c4
  <2> HIDE DEF s
  <2> QED BY <1>1, <2>1, <2>2 DEF WellFormedCharacter, Octets
<1> QED BY <1>2, <1>3, <1>4, <1>5 DEF c, c2, c3, c4

(* The lead says how many bytes there are.                                   *)
LEMMA LeadCounts ==
    ASSUME TypeInv, NEW j \in 0 .. Size - 1
    PROVE  /\ Need(Byte(text, j)) \in 0 .. 3
           /\ \A k \in 1 .. 4 : Fits(j, k) => k = Need(Byte(text, j)) + 1
<1> DEFINE c == Byte(text, j)
           c2 == Byte(text, j + 1)
           c3 == Byte(text, j + 2)
           c4 == Byte(text, j + 3)
<1>1. c \in 0 .. 255
  BY ByteIs DEF Octets
<1>2. /\ Fits(j, 1) <=> c <= 127
      /\ Fits(j, 2) => c \in 194 .. 223
      /\ Fits(j, 3) => c = 224 \/ c \in (225 .. 236) \cup {238, 239} \/ c = 237
      /\ Fits(j, 4) => c = 240 \/ c \in 241 .. 243 \/ c = 244
  BY FitsIs
<1> HIDE DEF c
<1>3. /\ Fits(j, 1) => c < 128
      /\ Fits(j, 2) => c \in 194 .. 223
      /\ Fits(j, 3) => c \in 224 .. 239
      /\ Fits(j, 4) => c \in 240 .. 244
  BY <1>1, <1>2
<1>4. /\ c < 128 => Need(c) = 0
      /\ c \in 194 .. 223 => Need(c) = 1
      /\ c \in 224 .. 239 => Need(c) = 2
      /\ c \in 240 .. 244 => Need(c) = 3
      /\ Need(c) \in {0, 1, 2, 3}
  BY <1>1 DEF Need
<1>5. ASSUME NEW k \in 1 .. 4, Fits(j, k) PROVE k = Need(c) + 1
  <2>1. k = 1 \/ k = 2 \/ k = 3 \/ k = 4
    OBVIOUS
  <2> QED BY <1>3, <1>4, <1>5, <2>1
<1> QED BY <1>4, <1>5 DEF c

(* The bytes that make a code point, and where it is out of range.           *)
LEMMA ThreeInRange ==
    ASSUME NEW c \in 224 .. 239, NEW c2 \in Tail80, NEW c3 \in Tail80
    PROVE  OutOfRange(2, ((c % 16) * 64 + (c2 % 64)) * 64 + (c3 % 64))
             <=> (c = 224 /\ c2 < 160) \/ (c = 237 /\ c2 >= 160)
<1>1. (c % 16) = c - 224 /\ (c2 % 64) = c2 - 128 /\ (c3 % 64) = c3 - 128
  BY DEF Tail80
<1>2. ((c % 16) * 64 + (c2 % 64)) * 64 + (c3 % 64) = ((c - 224) * 64 + (c2 - 128)) * 64 + (c3 - 128)
  BY <1>1
<1> DEFINE cp == ((c - 224) * 64 + (c2 - 128)) * 64 + (c3 - 128)
<1>3. /\ cp < 2048 <=> c = 224 /\ c2 < 160
      /\ cp \in 55296 .. 57343 <=> c = 237 /\ c2 >= 160
  BY DEF Tail80
<1> QED BY <1>2, <1>3 DEF OutOfRange

LEMMA FourInRange ==
    ASSUME NEW c \in 240 .. 244, NEW c2 \in Tail80, NEW c3 \in Tail80, NEW c4 \in Tail80
    PROVE  OutOfRange(3, (((c % 8) * 64 + (c2 % 64)) * 64 + (c3 % 64)) * 64 + (c4 % 64))
             <=> (c = 240 /\ c2 < 144) \/ (c = 244 /\ c2 > 143)
<1>1. (c % 8) = c - 240 /\ (c2 % 64) = c2 - 128 /\ (c3 % 64) = c3 - 128 /\ (c4 % 64) = c4 - 128
  BY DEF Tail80
<1> DEFINE cp == (((c - 240) * 64 + (c2 - 128)) * 64 + (c3 - 128)) * 64 + (c4 - 128)
<1>2. (((c % 8) * 64 + (c2 % 64)) * 64 + (c3 % 64)) * 64 + (c4 % 64) = cp
  BY <1>1
<1>3. /\ cp < 65536 <=> c = 240 /\ c2 < 144
      /\ cp > 1114111 <=> c = 244 /\ c2 > 143
  BY DEF Tail80
<1> QED BY <1>2, <1>3 DEF OutOfRange

(* Where a character breaks off.                                             *)
FirstBreak(j, need) ==
    CHOOSE k \in 1 .. need :
        /\ ~ Continues(Byte(text, j + k))
        /\ \A before \in 1 .. k - 1 : Continues(Byte(text, j + before))

LEMMA FirstBreakIs ==
    ASSUME NEW j \in Nat, NEW need \in 0 .. 3, ~ Whole(j, need)
    PROVE  LET k == FirstBreak(j, need)
           IN  /\ k \in 1 .. need /\ ~ Continues(Byte(text, j + k))
               /\ \A before \in 1 .. k - 1 : Continues(Byte(text, j + before))
<1> DEFINE B(k) == Continues(Byte(text, j + k))
<1>1. \E k \in 1 .. need : ~ B(k) /\ \A before \in 1 .. k - 1 : B(before)
  <2>0. PICK m \in 1 .. need : ~ B(m)
    BY DEF Whole
  <2>1. need \in {1, 2, 3} /\ m \in {1, 2, 3}
    OBVIOUS
  <2> HIDE DEF B
  <2>2. CASE ~ B(1)
    <3>1. 1 \in 1 .. need /\ 1 .. 1 - 1 = {}
      BY <2>1
    <3> QED BY <2>2, <3>1
  <2>3. CASE B(1) /\ ~ B(2) /\ need # 1
    <3>1. 2 \in 1 .. need /\ 1 .. 2 - 1 = {1}
      BY <2>1, <2>3
    <3> QED BY <2>3, <3>1
  <2>4. CASE B(1) /\ (B(2) \/ need = 1)
    <3>1. m = 3 /\ B(2) /\ 3 \in 1 .. need
      BY <2>0, <2>1, <2>4
    <3>2. 1 .. 3 - 1 = {1, 2}
      OBVIOUS
    <3> QED BY <2>0, <2>4, <3>1, <3>2
  <2> QED BY <2>2, <2>3, <2>4
<1>2. \E k \in 1 .. need :
        /\ ~ Continues(Byte(text, j + k))
        /\ \A before \in 1 .. k - 1 : Continues(Byte(text, j + before))
  BY <1>1
<1> QED BY <1>2 DEF FirstBreak

(* What the scan makes of a character.                                       *)
LEMMA BadByteIs ==
    ASSUME TypeInv, NEW j \in 0 .. Size - 1
    PROVE  LET c == Byte(text, j) need == Need(c)
           IN  /\ c < 128 => BadByte(j) = -1
               /\ c >= 128 /\ need = 0 => BadByte(j) = j
               /\ need > 0 /\ j + need >= Size => BadByte(j) = j
               /\ need > 0 /\ j + need < Size /\ ~ Whole(j, need) => BadByte(j) = j + FirstBreak(j, need)
               /\ need > 0 /\ j + need < Size /\ Whole(j, need) =>
                     BadByte(j) = IF OutOfRange(need, CodePoint(j, need)) THEN j ELSE -1
<1> DEFINE c == Byte(text, j)
           need == Need(c)
<1>1. c \in 0 .. 255 /\ Size \in Nat /\ j \in Nat
  <2>1. c \in 0 .. 255
    BY ByteIs DEF Octets
  <2> HIDE DEF c
  <2> QED BY <2>1, TextIsBytes
<1>2. need \in 0 .. 3 /\ (c < 128 => need = 0)
  <2> HIDE DEF c
  <2> QED BY <1>1 DEF Need
<1>3. BadByte(j) =
        CASE c < 128 -> -1
          [] c >= 128 /\ need = 0 -> j
          [] need > 0 /\ Size - j - 1 < need -> j
          [] need > 0 /\ Size - j - 1 >= need /\ ~ Whole(j, need) -> j + FirstBreak(j, need)
          [] OTHER -> IF OutOfRange(need, CodePoint(j, need)) THEN j ELSE -1
  BY DEF BadByte, FirstBreak
<1> HIDE DEF c, need
<1>4. Size - j - 1 < need <=> j + need >= Size
  BY <1>1, <1>2
<1>5. Size - j - 1 >= need <=> j + need < Size
  BY <1>1, <1>2
<1>6. c < 128 <=> ~ (c >= 128)
  BY <1>1
<1> QED BY <1>1, <1>2, <1>3, <1>4, <1>5, <1>6 DEF c, need

(* The scan finds no fault with the characters of the table, and no others.  *)
LEMMA GoodByte ==
    ASSUME TypeInv, NEW j \in 0 .. Size - 1
    PROVE  BadByte(j) = -1 <=> Fits(j, Need(Byte(text, j)) + 1)
<1> DEFINE c == Byte(text, j)
           c2 == Byte(text, j + 1)
           c3 == Byte(text, j + 2)
           c4 == Byte(text, j + 3)
           need == Need(c)
           bad == BadByte(j)
<1>1. c \in 0 .. 255 /\ Size \in Nat /\ j \in Nat /\ c \in Int
  <2>1. c \in 0 .. 255
    BY ByteIs DEF Octets
  <2> HIDE DEF c
  <2> QED BY <2>1, TextIsBytes
<1>2. /\ j + 1 < Size => (Continues(c2) <=> c2 \in Tail80)
      /\ j + 2 < Size => (Continues(c3) <=> c3 \in Tail80)
      /\ j + 3 < Size => (Continues(c4) <=> c4 \in Tail80)
      /\ j + 1 < Size => c2 \in 0 .. 255
  <2>1. /\ j + 1 < Size => j + 1 \in 0 .. Size - 1
        /\ j + 2 < Size => j + 2 \in 0 .. Size - 1
        /\ j + 3 < Size => j + 3 \in 0 .. Size - 1
    BY <1>1
  <2> QED BY <2>1, ByteIs, TailIsTail DEF Octets
<1>3. /\ Fits(j, 1) <=> c <= 127
      /\ Fits(j, 2) <=> j + 2 <= Size /\ c \in 194 .. 223 /\ c2 \in Tail80
      /\ Fits(j, 3) <=>
           /\ j + 3 <= Size /\ c3 \in Tail80
           /\ \/ c = 224 /\ c2 \in 160 .. 191
              \/ c \in (225 .. 236) \cup {238, 239} /\ c2 \in Tail80
              \/ c = 237 /\ c2 \in 128 .. 159
      /\ Fits(j, 4) <=>
           /\ j + 4 <= Size /\ c3 \in Tail80 /\ c4 \in Tail80
           /\ \/ c = 240 /\ c2 \in 144 .. 191
              \/ c \in 241 .. 243 /\ c2 \in Tail80
              \/ c = 244 /\ c2 \in 128 .. 143
  BY FitsIs
<1>4. /\ c < 128 => bad = -1
      /\ c >= 128 /\ need = 0 => bad = j
      /\ need > 0 /\ j + need >= Size => bad = j
      /\ need > 0 /\ j + need < Size /\ ~ Whole(j, need) => bad = j + FirstBreak(j, need)
      /\ need > 0 /\ j + need < Size /\ Whole(j, need) =>
            bad = IF OutOfRange(need, CodePoint(j, need)) THEN j ELSE -1
  BY BadByteIs
<1>5. /\ c < 128 => need = 0
      /\ c \in 194 .. 223 => need = 1
      /\ c \in 224 .. 239 => need = 2
      /\ c \in 240 .. 244 => need = 3
      /\ c \in (128 .. 193) \cup (245 .. 255) => need = 0
  <2> HIDE DEF c
  <2> QED BY <1>1 DEF Need
<1>6. need \in 0 .. 3 /\ (~ Whole(j, need) => FirstBreak(j, need) \in 1 .. need)
  <2>1. need \in 0 .. 3
    BY LeadCounts
  <2> HIDE DEF need
  <2> QED BY <1>1, <2>1, FirstBreakIs
<1>7. /\ Whole(j, 1) <=> Continues(c2)
      /\ Whole(j, 2) <=> Continues(c2) /\ Continues(c3)
      /\ Whole(j, 3) <=> Continues(c2) /\ Continues(c3) /\ Continues(c4)
  <2>1. 1 .. 1 = {1} /\ 1 .. 2 = {1, 2} /\ 1 .. 3 = {1, 2, 3}
    OBVIOUS
  <2> QED BY <2>1 DEF Whole
<1>8. /\ CodePoint(j, 2) = ((c % 16) * 64 + (c2 % 64)) * 64 + (c3 % 64)
      /\ CodePoint(j, 3) = (((c % 8) * 64 + (c2 % 64)) * 64 + (c3 % 64)) * 64 + (c4 % 64)
  BY DEF CodePoint
<1> HIDE DEF need, c, c2, c3, c4, bad
<1>9. need > 0 /\ (j + need >= Size \/ ~ Whole(j, need)) => bad # -1
  <2>1. need > 0 /\ j + need >= Size => bad # -1
    BY <1>1, <1>4
  <2>2. need > 0 /\ j + need < Size /\ ~ Whole(j, need) => bad # -1
    <3> SUFFICES ASSUME need > 0, j + need < Size, ~ Whole(j, need) PROVE bad # -1
      OBVIOUS
    <3>1. bad = j + FirstBreak(j, need) /\ FirstBreak(j, need) \in 1 .. need
      BY <1>4, <1>6
    <3> QED BY <1>1, <1>6, <3>1
  <2>3. j + need >= Size \/ j + need < Size
    BY <1>1, <1>6
  <2> QED BY <2>1, <2>2, <2>3
<1>10. CASE c < 128
  <2>1. bad = -1 /\ need = 0 /\ need + 1 = 1
    BY <1>4, <1>5, <1>10
  <2>2. Fits(j, 1)
    BY <1>1, <1>3, <1>10
  <2> QED BY <2>1, <2>2 DEF bad, need, c
<1>11. CASE c \in (128 .. 193) \cup (245 .. 255)
  <2>1. bad = j /\ need = 0 /\ need + 1 = 1 /\ bad # -1
    BY <1>1, <1>4, <1>5, <1>11
  <2>2. ~ Fits(j, 1)
    BY <1>1, <1>3, <1>11
  <2> QED BY <2>1, <2>2 DEF bad, need, c
<1>12. CASE c \in 194 .. 223
  <2>1. need = 1 /\ need + 1 = 2 /\ need > 0
    BY <1>5, <1>12
  <2>2. ~ OutOfRange(1, CodePoint(j, 1))
    BY DEF OutOfRange
  <2>3. bad = -1 <=> j + 1 < Size /\ Continues(c2)
    BY <1>1, <1>4, <1>7, <1>9, <2>1, <2>2
  <2>4. Fits(j, 2) <=> j + 1 < Size /\ Continues(c2)
    <3>1. j + 2 <= Size <=> j + 1 < Size
      BY <1>1
    <3> QED BY <1>2, <1>3, <1>12, <3>1
  <2> QED BY <2>1, <2>3, <2>4 DEF bad, need, c
<1>13. CASE c \in 224 .. 239
  <2>1. need = 2 /\ need + 1 = 3 /\ need > 0 /\ (j + 2 < Size => j + 1 < Size) /\ (j + 3 <= Size <=> j + 2 < Size)
    BY <1>1, <1>5, <1>13
  <2>2. bad = -1 <=> j + 2 < Size /\ Whole(j, 2) /\ ~ OutOfRange(2, CodePoint(j, 2))
    <3>1. j + 2 < Size \/ j + 2 >= Size
      BY <1>1
    <3> QED BY <1>1, <1>4, <1>9, <2>1, <3>1
  <2>3. CASE ~ (j + 2 < Size /\ c2 \in Tail80 /\ c3 \in Tail80)
    <3>1. bad # -1
      BY <1>2, <1>7, <2>1, <2>2, <2>3
    <3>2. c2 \in 160 .. 191 \/ c2 \in 128 .. 159 => c2 \in Tail80
      BY DEF Tail80
    <3>3. ~ Fits(j, 3)
      BY <1>3, <2>1, <2>3, <3>2
    <3> QED BY <2>1, <3>1, <3>3 DEF bad, need, c
  <2>4. CASE j + 2 < Size /\ c2 \in Tail80 /\ c3 \in Tail80
    <3>1. Whole(j, 2)
      BY <1>2, <1>7, <2>1, <2>4
    <3>2. OutOfRange(2, CodePoint(j, 2)) <=> (c = 224 /\ c2 < 160) \/ (c = 237 /\ c2 >= 160)
      BY <1>8, <1>13, <2>4, ThreeInRange
    <3>3. Fits(j, 3) <=> 
            \/ c = 224 /\ c2 \in 160 .. 191
            \/ c \in (225 .. 236) \cup {238, 239}
            \/ c = 237 /\ c2 \in 128 .. 159
      BY <1>3, <2>1, <2>4
    <3>4. Fits(j, 3) <=> ~ ((c = 224 /\ c2 < 160) \/ (c = 237 /\ c2 >= 160))
      <4>1. c2 \in 128 .. 191
        BY <2>4 DEF Tail80
      <4> QED BY <1>13, <3>3, <4>1
    <3> QED BY <2>1, <2>2, <2>4, <3>1, <3>2, <3>4 DEF bad, need, c
  <2> QED BY <2>3, <2>4
<1>14. CASE c \in 240 .. 244
  <2>1. need = 3 /\ need + 1 = 4 /\ need > 0 /\ (j + 3 < Size => j + 1 < Size /\ j + 2 < Size)
        /\ (j + 4 <= Size <=> j + 3 < Size)
    BY <1>1, <1>5, <1>14
  <2>2. bad = -1 <=> j + 3 < Size /\ Whole(j, 3) /\ ~ OutOfRange(3, CodePoint(j, 3))
    <3>1. j + 3 < Size \/ j + 3 >= Size
      BY <1>1
    <3> QED BY <1>1, <1>4, <1>9, <2>1, <3>1
  <2>3. CASE ~ (j + 3 < Size /\ c2 \in Tail80 /\ c3 \in Tail80 /\ c4 \in Tail80)
    <3>1. bad # -1
      BY <1>2, <1>7, <2>1, <2>2, <2>3
    <3>2. c2 \in 144 .. 191 \/ c2 \in 128 .. 143 => c2 \in Tail80
      BY DEF Tail80
    <3>3. ~ Fits(j, 4)
      BY <1>3, <2>1, <2>3, <3>2
    <3> QED BY <2>1, <3>1, <3>3 DEF bad, need, c
  <2>4. CASE j + 3 < Size /\ c2 \in Tail80 /\ c3 \in Tail80 /\ c4 \in Tail80
    <3>1. Whole(j, 3)
      BY <1>2, <1>7, <2>1, <2>4
    <3>2. OutOfRange(3, CodePoint(j, 3)) <=> (c = 240 /\ c2 < 144) \/ (c = 244 /\ c2 > 143)
      BY <1>8, <1>14, <2>4, FourInRange
    <3>3. Fits(j, 4) <=> 
            \/ c = 240 /\ c2 \in 144 .. 191
            \/ c \in 241 .. 243
            \/ c = 244 /\ c2 \in 128 .. 143
      BY <1>3, <2>1, <2>4
    <3>4. Fits(j, 4) <=> ~ ((c = 240 /\ c2 < 144) \/ (c = 244 /\ c2 > 143))
      <4>1. c2 \in 128 .. 191
        BY <2>4 DEF Tail80
      <4> QED BY <1>14, <3>3, <4>1
    <3> QED BY <2>1, <2>2, <2>4, <3>1, <3>2, <3>4 DEF bad, need, c
  <2> QED BY <2>3, <2>4
<1>15. \/ c < 128 \/ c \in (128 .. 193) \cup (245 .. 255) \/ c \in 194 .. 223
       \/ c \in 224 .. 239 \/ c \in 240 .. 244
  BY <1>1
<1> QED BY <1>10, <1>11, <1>12, <1>13, <1>14, <1>15

-----------------------------------------------------------------------------
(* A whole text.                                                             *)

LEMMA LeastIs ==
    ASSUME NEW S, S \subseteq Nat, S # {}
    PROVE  \E x \in S : \A y \in S : x <= y
<1> DEFINE R == OpToRel(<, Nat)
<1>1. IsWellFoundedOn(R, Nat)
  BY NatLessThanWellFounded
<1>2. \A x, y \in Nat : x < y => <<x, y>> \in R
  BY DEF OpToRel
<1> HIDE DEF R
<1>3. PICK x \in S : \A y \in S : ~ (<<y, x>> \in R)
  BY <1>1, WFMin
<1>4. \A y \in S : ~ (y < x)
  BY <1>2, <1>3
<1> QED BY <1>3, <1>4

(* From each offset of S, how far the characters reach.                      *)
Past(j) == j + CHOOSE k \in Ends(j) : TRUE
Reaches(f, S) == f = [j \in S |-> IF Ends(j) = {} THEN j ELSE f[Past(j)]]
Reach == CHOOSE f : Reaches(f, 0 .. Size)

LEMMA PastIsLater ==
    ASSUME NEW j \in Nat, Ends(j) # {}, TypeInv
    PROVE  Past(j) \in j + 1 .. Size
<1>1. PICK k \in Ends(j) : Past(j) = j + k
  BY DEF Past
<1>2. k \in 1 .. 4 /\ j + k <= Size /\ Size \in Nat
  BY <1>1, TextIsBytes DEF Ends, Fits
<1> QED BY <1>1, <1>2

LEMMA ReachExists ==
    ASSUME TypeInv
    PROVE  \E f : Reaches(f, 0 .. Size)
<1> DEFINE Rest(k) == Size + 1 - k .. Size
           X == {k \in 0 .. Size + 1 : ~ \E f : Reaches(f, Rest(k))}
<1>0. Size \in Nat
  BY TextIsBytes
<1> SUFFICES ASSUME X # {} PROVE FALSE
  <2>1. Rest(Size + 1) = 0 .. Size /\ Size + 1 \in 0 .. Size + 1
    BY <1>0
  <2> QED BY <2>1
<1>1. PICK k \in X : \A j \in X : k <= j
  <2>1. X \subseteq Nat
    BY <1>0
  <2> HIDE DEF X
  <2> QED BY <2>1, LeastIs
<1>2. k \in 0 .. Size + 1 /\ ~ \E f : Reaches(f, Rest(k))
  OBVIOUS
<1>3. k # 0
  <2>1. Rest(0) = {}
    BY <1>0
  <2>2. Reaches([j \in {} |-> 0], {})
    BY DEF Reaches
  <2> QED BY <1>2, <2>1, <2>2
<1>4. k - 1 \in 0 .. Size + 1 /\ k - 1 \notin X
  <2>1. k - 1 \in 0 .. Size + 1 /\ ~ (k <= k - 1)
    BY <1>0, <1>2, <1>3
  <2> HIDE DEF X
  <2> QED BY <1>1, <2>1
<1>5. PICK f : Reaches(f, Rest(k - 1))
  BY <1>4
<1> DEFINE e == Size + 1 - k
           v == IF Ends(e) = {} THEN e ELSE f[Past(e)]
           g == [j \in Rest(k) |-> IF j = e THEN v ELSE f[j]]
<1>6. Rest(k) = {e} \cup Rest(k - 1) /\ e \notin Rest(k - 1) /\ e \in Nat
  BY <1>0, <1>2, <1>3
<1>7. \A j \in Rest(k) : j \in Nat /\ \A m \in j + 1 .. Size : m \in Rest(k - 1)
  BY <1>0, <1>2, <1>3
<1> HIDE DEF e, Rest, X
<1>8. ASSUME NEW j \in Rest(k)
      PROVE  g[j] = IF Ends(j) = {} THEN j ELSE g[Past(j)]
  <2>1. CASE Ends(j) = {}
    BY <1>5, <1>6, <2>1 DEF Reaches
  <2>2. CASE Ends(j) # {}
    <3>1. Past(j) \in Rest(k - 1)
      BY <1>7, <2>2, PastIsLater
    <3>2. g[Past(j)] = f[Past(j)]
      BY <1>6, <3>1
    <3>3. g[j] = f[Past(j)]
      BY <1>5, <1>6, <2>2 DEF Reaches
    <3> QED BY <2>2, <3>2, <3>3
  <2> QED BY <2>1, <2>2
<1>9. Reaches(g, Rest(k))
  <2> DEFINE h == [j \in Rest(k) |-> IF Ends(j) = {} THEN j ELSE g[Past(j)]]
  <2>1. \A j \in Rest(k) : g[j] = h[j]
    BY <1>8
  <2>2. g = h
    BY <2>1
  <2> QED BY <2>2 DEF Reaches
<1> QED BY <1>2, <1>9

LEMMA ReachIs ==
    ASSUME TypeInv
    PROVE  /\ WellFormedLength(text) = Reach[0]
           /\ \A j \in 0 .. Size : Reach[j] = IF Ends(j) = {} THEN j ELSE Reach[Past(j)]
<1>1. Reaches(Reach, 0 .. Size)
  BY ReachExists DEF Reach
<1>2. WellFormedLength(text) = Reach[0]
  BY DEF WellFormedLength, Reach, Reaches, Past, Ends, Fits, Size
<1> QED BY <1>1, <1>2 DEF Reaches

(* A character the scan accepts takes it on, one it does not is the end of   *)
(* what is well-formed, and so is the end of the text.                       *)
LEMMA ScanMeasures ==
    ASSUME TypeInv, NEW j \in 0 .. Size
    PROVE  /\ j < Size /\ BadByte(j) = -1 =>
                LET next == j + Need(Byte(text, j)) + 1
                IN  next \in 0 .. Size /\ Reach[next] = Reach[j]
           /\ j < Size /\ BadByte(j) # -1 => Reach[j] = j
           /\ j = Size => Reach[j] = j
<1>0. Size \in Nat
  BY TextIsBytes
<1> DEFINE q == Need(Byte(text, j)) + 1
<1>1. ASSUME j < Size
      PROVE  /\ q \in 1 .. 4 /\ Ends(j) \subseteq {q}
             /\ BadByte(j) = -1 <=> q \in Ends(j)
  <2>1. j \in 0 .. Size - 1
    BY <1>0, <1>1
  <2>2. Need(Byte(text, j)) \in 0 .. 3 /\ \A k \in 1 .. 4 : Fits(j, k) => k = q
    BY <2>1, LeadCounts
  <2>3. q \in 1 .. 4
    BY <2>2
  <2>4. BadByte(j) = -1 <=> Fits(j, q)
    BY <2>1, GoodByte
  <2> HIDE DEF q
  <2> QED BY <2>2, <2>3, <2>4 DEF Ends
<1> HIDE DEF q
<1>2. ASSUME j < Size, BadByte(j) = -1
      PROVE  j + q \in 0 .. Size /\ Reach[j + q] = Reach[j]
  <2>1. Ends(j) = {q} /\ q \in 1 .. 4
    BY <1>1, <1>2
  <2>2. Past(j) = j + q
    BY <2>1 DEF Past
  <2>3. j + q \in j + 1 .. Size
    BY <2>1, <2>2, PastIsLater
  <2> QED BY <1>0, <2>1, <2>2, <2>3, ReachIs
<1>3. ASSUME j < Size, BadByte(j) # -1 PROVE Reach[j] = j
  <2>1. Ends(j) = {}
    BY <1>1, <1>3
  <2> QED BY <2>1, ReachIs
<1>4. ASSUME j = Size PROVE Reach[j] = j
  <2>1. Ends(j) = {}
    <3>1. \A k \in 1 .. 4 : ~ (j + k <= Size)
      BY <1>0, <1>4
    <3> QED BY <3>1 DEF Ends, Fits
  <2> QED BY <2>1, ReachIs
<1>5. j + Need(Byte(text, j)) + 1 = j + q \/ ~ (j < Size)
  <2>1. j < Size => j \in 0 .. Size - 1
    BY <1>0
  <2>2. j < Size => Need(Byte(text, j)) \in 0 .. 3
    BY <2>1, LeadCounts
  <2>3. \A d \in 0 .. 3 : j + d + 1 = j + (d + 1)
    OBVIOUS
  <2> QED BY <2>2, <2>3 DEF q
<1> QED BY <1>2, <1>3, <1>4, <1>5

-----------------------------------------------------------------------------
(* The load.                                                                 *)

LEMMA FaultIs ==
    /\ Fault["SOURCE_TOO_LARGE"] = (Len(file) > MaxBytes)
    /\ Fault["SOURCE_NUL_BYTE"] = (Len(file) <= MaxBytes /\ \E j \in DOMAIN file : file[j] = 0)
    /\ Fault["INVALID_UTF8"] = (WellFormedLength(file) < Len(file))
    /\ Fault["CANNOT_READ_FILE"] = (Size <= MaxBytes)
BY DEF Fault

(* What was read is the beginning of the file; a text past the check is the  *)
(* whole of it, and the scan has found what is before its cursor well-formed. *)
Prefix == \A j \in 1 .. Size : text[j] = file[j]
Sound == text = file /\ Size <= MaxBytes /\ \A j \in 1 .. Size : text[j] # 0
Told ==
    /\ reported # <<>> => pc = "null" /\ sink /\ Len(reported) = 1 /\ Fault[reported[1]]
    /\ pc = "null" /\ sink => reported # <<>>
LoadInv ==
    /\ pc \in {"open", "read"} => Prefix /\ Size <= MaxBytes
    /\ pc = "check" => Prefix /\ (Size = Len(file) \/ Size > MaxBytes)
    /\ pc = "utf8" => Sound /\ i \in 0 .. Size /\ Reach[i] = Reach[0]
    /\ pc \in {"copy", "count", "index"} \/ HasLoaded => Sound /\ Reach[0] = Size
    /\ pc # "null" => reported = <<>> /\ bad_at = -1
    /\ BadByteIsLocated
    /\ Told

LEMMA WholeRead ==
    ASSUME TypeInv, Prefix, Size = Len(file)
    PROVE  text = file
<1>1. text \in Seq(Octets) /\ file \in Seq(Octets) /\ Len(text) = Len(file) /\ Len(text) \in Nat
  BY TextIsBytes DEF TypeInv, Size
<1>2. \A j \in 1 .. Len(text) : text[j] = file[j]
  BY DEF Prefix, Size
<1>3. text = [j \in 1 .. Len(text) |-> text[j]] /\ file = [j \in 1 .. Len(file) |-> file[j]]
  BY <1>1
<1> QED BY <1>1, <1>2, <1>3

(* A load that fails with a diagnostic.                                      *)
LEMMA NullTells ==
    ASSUME LoadInv, pc # "null", NEW code, Null(code), Fault[code],
           BadByteIsLocated'
    PROVE  LoadInv'
<1>1. /\ pc' = "null" /\ file' = file /\ sink' = sink /\ text' = text /\ reported = <<>>
      /\ reported' = IF sink THEN Append(reported, code) ELSE reported
  BY DEF Null, Report, LoadInv
<1>2. Fault' = Fault
  BY <1>1 DEF Fault, Size
<1>3. Append(<<>>, code) = <<code>> /\ Len(<<code>>) = 1 /\ <<code>>[1] = code
  OBVIOUS
<1>4. Told'
  <2>1. CASE sink
    <3>1. reported' = <<code>>
      BY <1>1, <1>3, <2>1
    <3>2. reported'[1] = code /\ Len(reported') = 1 /\ sink'
      BY <1>1, <1>3, <2>1, <3>1
    <3>3. reported' # <<>>
      BY <3>1
    <3> QED BY <1>1, <1>2, <3>2, <3>3 DEF Told
  <2>2. CASE ~ sink
    <3>1. reported' = <<>>
      BY <1>1, <2>2
    <3> QED BY <1>1, <2>2, <3>1 DEF Told
  <2> QED BY <2>1, <2>2
<1> QED BY <1>1, <1>4 DEF LoadInv, HasLoaded

(* What was said of the text holds as long as the text does.                 *)
LEMMA ReachStays ==
    ASSUME text' = text
    PROVE  Reach' = Reach /\ Size' = Size
BY DEF Reach, Reaches, Past, Ends, Fits, Size

LEMMA ToldStays ==
    ASSUME LoadInv, UNCHANGED <<file, text, sink, reported, bad_at>>,
           pc' = pc \/ (pc' # "null" /\ reported = <<>>)
    PROVE  BadByteIsLocated' /\ Told'
<1>1. BadByteIsLocated'
  BY DEF LoadInv, BadByteIsLocated, Byte
<1>2. Fault' = Fault
  BY DEF Fault, Size
<1>3. Told'
  BY <1>2 DEF LoadInv, Told
<1> QED BY <1>1, <1>3

LEMMA ReadLoads == TypeInv /\ LoadInv /\ Read => LoadInv'
<1> SUFFICES ASSUME TypeInv, LoadInv, Read PROVE LoadInv'
  OBVIOUS
<1> DEFINE got == Smaller(Chunk, Len(file) - Size)
<1>1. /\ pc = "read" /\ text' = text \o Got(got) /\ UNCHANGED <<file, sink, reported, bad_at>>
      /\ pc' = IF got = Chunk /\ Len(text') <= MaxBytes THEN "read" ELSE "check"
  BY DEF Read, load
<1>2. /\ text \in Seq(Octets) /\ file \in Seq(Octets) /\ Size = Len(text) /\ Size \in Nat /\ Len(file) \in Nat
      /\ Size <= Len(file) /\ Chunk \in Nat /\ MaxBytes \in Nat
  BY TextIsBytes, SourceAssumption DEF TypeInv, Size
<1>3. got \in Nat /\ Size + got <= Len(file) /\ (got = Chunk \/ Size + got = Len(file))
  BY <1>2 DEF Smaller
<1> HIDE DEF got
<1>4. /\ Got(got) \in Seq(Octets) /\ Len(Got(got)) = got
      /\ \A j \in 1 .. got : Got(got)[j] = file[Size + j]
  <2>1. Size + 1 \in Int /\ Size + got \in Int /\ \A j \in Size + 1 .. Size + got : file[j] \in Octets
    BY <1>2, <1>3
  <2> DEFINE from == Size + 1
             to == Size + got
             s == SubSeq(file, from, to)
  <2>2. from \in Int /\ to \in Int /\ \A j \in from .. to : file[j] \in Octets
    BY <2>1
  <2>6. from <= to <=> got # 0
    BY <1>2, <1>3
  <2>3. to - from + 1 = got /\ \A j \in 1 .. got : from + j - 1 = Size + j
    BY <1>2, <1>3
  <2>4. s = Got(got)
    BY DEF Got
  <2> HIDE DEF from, to
  <2>5. /\ s \in Seq(Octets) /\ Len(s) = IF from <= to THEN to - from + 1 ELSE 0
        /\ \A j \in 1 .. to - from + 1 : s[j] = file[from + j - 1]
    BY <2>2, SubSeqProperties
  <2> HIDE DEF s
  <2>7. Len(s) = got /\ \A j \in 1 .. got : s[j] = file[Size + j]
    BY <1>3, <2>3, <2>5, <2>6
  <2> QED BY <2>4, <2>5, <2>7
<1>5. /\ Size' = Size + got
      /\ \A j \in 1 .. Size + got : text'[j] = IF j <= Size THEN text[j] ELSE Got(got)[j - Size]
  <2>1. /\ Len(text') = Len(text) + Len(Got(got))
        /\ \A j \in 1 .. Len(text) + Len(Got(got)) :
               text'[j] = IF j <= Len(text) THEN text[j] ELSE Got(got)[j - Len(text)]
    BY <1>1, <1>2, <1>4, ConcatProperties
  <2> QED BY <1>2, <1>4, <2>1 DEF Size
<1>6. Prefix'
  <2> SUFFICES ASSUME NEW j \in 1 .. Size + got PROVE text'[j] = file'[j]
    BY <1>5 DEF Prefix
  <2>1. CASE j <= Size
    <3>1. j \in 1 .. Size /\ text'[j] = text[j]
      BY <1>2, <1>5, <2>1
    <3> QED BY <1>1, <3>1 DEF LoadInv, Prefix
  <2>2. CASE ~ (j <= Size)
    <3>1. j - Size \in 1 .. got /\ Size + (j - Size) = j
      BY <1>2, <1>3, <2>2
    <3> QED BY <1>1, <1>4, <1>5, <2>2, <3>1
  <2> QED BY <2>1, <2>2
<1>7. Len(text') = Size' /\ Size' \in Nat
  BY <1>2, <1>3, <1>5 DEF Size
<1>8. reported = <<>> /\ bad_at = -1
  BY <1>1 DEF LoadInv
<1>9. BadByteIsLocated' /\ Told'
  BY <1>1, <1>8 DEF BadByteIsLocated, Told
<1>10. CASE got = Chunk /\ Len(text') <= MaxBytes
  BY <1>1, <1>6, <1>7, <1>8, <1>9, <1>10 DEF LoadInv, HasLoaded
<1>11. CASE ~ (got = Chunk /\ Len(text') <= MaxBytes)
  <2>1. Size' = Len(file') \/ Size' > MaxBytes
    BY <1>1, <1>2, <1>3, <1>5, <1>7, <1>11
  <2>2. pc' = "check"
    BY <1>1, <1>11
  <2> QED BY <1>1, <1>6, <1>8, <1>9, <2>1, <2>2 DEF LoadInv, HasLoaded
<1> QED BY <1>10, <1>11

LEMMA RefusalsTell ==
    ASSUME TypeInv, LoadInv, CannotOpen \/ ReadFails \/ TooLarge \/ NulByte
    PROVE  LoadInv'
<1>0. Size \in Nat /\ Len(file) \in Nat /\ Size <= Len(file) /\ MaxBytes \in Nat /\ Size = Len(text)
  BY TextIsBytes, SourceAssumption DEF TypeInv, Size
<1>1. BadByteIsLocated'
  <2>1. pc # "null" /\ bad_at' = bad_at
    BY DEF CannotOpen, ReadFails, TooLarge, NulByte
  <2> QED BY <2>1 DEF LoadInv, BadByteIsLocated
<1>2. CASE CannotOpen \/ ReadFails
  <2>1. pc \in {"open", "read"} /\ Null("CANNOT_READ_FILE")
    BY <1>2 DEF CannotOpen, ReadFails
  <2>2. Fault["CANNOT_READ_FILE"]
    BY <2>1, FaultIs DEF LoadInv
  <2> QED BY <1>1, <2>1, <2>2, NullTells
<1>3. CASE TooLarge
  <2>1. pc = "check" /\ Size > MaxBytes /\ Null("SOURCE_TOO_LARGE")
    BY <1>3 DEF TooLarge
  <2>2. Len(file) > MaxBytes
    BY <1>0, <2>1
  <2>3. Fault["SOURCE_TOO_LARGE"]
    BY <2>2, FaultIs
  <2> QED BY <1>1, <2>1, <2>3, NullTells
<1>4. CASE NulByte
  <2>1. pc = "check" /\ Size <= MaxBytes /\ HasNul /\ Null("SOURCE_NUL_BYTE")
    BY <1>4 DEF NulByte
  <2>2. Prefix /\ Size = Len(file)
    BY <1>0, <2>1 DEF LoadInv
  <2>3. text = file
    BY <2>2, WholeRead
  <2>4. Len(file) <= MaxBytes /\ \E j \in DOMAIN file : file[j] = 0
    <3>1. PICK j \in 1 .. Size : text[j] = 0
      BY <2>1 DEF HasNul
    <3>2. j \in DOMAIN file
      BY <1>0, <2>2, <3>1 DEF TypeInv
    <3> QED BY <2>1, <2>2, <2>3, <3>1, <3>2
  <2>5. Fault["SOURCE_NUL_BYTE"]
    BY <2>4, FaultIs
  <2> QED BY <1>1, <2>1, <2>5, NullTells
<1> QED BY <1>2, <1>3, <1>4

(* Where the scan stops, the well-formed part ends.                          *)
LEMMA InvalidTells ==
    ASSUME TypeInv, LoadInv, InvalidUtf8
    PROVE  LoadInv'
<1>0. Size \in Nat /\ Len(file) \in Nat /\ Size = Len(text)
  BY TextIsBytes DEF TypeInv, Size
<1>1. /\ pc = "utf8" /\ i < Size /\ BadByte(i) # -1 /\ bad_at' = BadByte(i)
      /\ Null("INVALID_UTF8") /\ text' = text
  BY DEF InvalidUtf8, Null
<1>2. Sound /\ i \in 0 .. Size /\ Reach[i] = Reach[0]
  BY <1>1 DEF LoadInv
<1>3. WellFormedLength(text) = i
  BY <1>1, <1>2, ReachIs, ScanMeasures
<1>4. Fault["INVALID_UTF8"]
  <2>1. text = file
    BY <1>2 DEF Sound
  <2>2. WellFormedLength(file) < Len(file)
    BY <1>0, <1>1, <1>3, <2>1
  <2> QED BY <2>2, FaultIs
<1>5. BadByteIsLocated'
  <2> DEFINE need == Need(Byte(text, i))
  <2>1. i \in 0 .. Size - 1 /\ i \in Nat
    BY <1>0, <1>1, <1>2
  <2>2. need \in 0 .. 3
    BY <2>1, LeadCounts
  <2>3. BadByte(i) = i \/ (~ Whole(i, need) /\ BadByte(i) = i + FirstBreak(i, need))
    <3>1. Byte(text, i) \in 0 .. 255
      BY <2>1, ByteIs DEF Octets
    <3>2. \/ Byte(text, i) < 128
          \/ Byte(text, i) >= 128 /\ need = 0
          \/ need > 0 /\ i + need >= Size
          \/ need > 0 /\ i + need < Size /\ ~ Whole(i, need)
          \/ need > 0 /\ i + need < Size /\ Whole(i, need)
      <4> DEFINE c == Byte(text, i)
                 whole == Whole(i, need)
      <4>1. need \in 0 .. 3 /\ c \in 0 .. 255 /\ i \in Nat /\ Size \in Nat
        BY <1>0, <2>1, <2>2, <3>1
      <4> HIDE DEF c, need, whole
      <4>2. c < 128 \/ (c >= 128 /\ need = 0) \/ need > 0
        BY <4>1
      <4>3. i + need >= Size \/ i + need < Size
        BY <4>1
      <4> QED BY <4>2, <4>3 DEF c, whole
    <3>3. /\ Byte(text, i) < 128 => BadByte(i) = -1
          /\ Byte(text, i) >= 128 /\ need = 0 => BadByte(i) = i
          /\ need > 0 /\ i + need >= Size => BadByte(i) = i
          /\ need > 0 /\ i + need < Size /\ ~ Whole(i, need) => BadByte(i) = i + FirstBreak(i, need)
          /\ need > 0 /\ i + need < Size /\ Whole(i, need) =>
                BadByte(i) = IF OutOfRange(need, CodePoint(i, need)) THEN i ELSE -1
      BY <2>1, BadByteIs
    <3> HIDE DEF need
    <3> QED BY <1>1, <3>2, <3>3
  <2> HIDE DEF need
  <2>4. CASE BadByte(i) = i
    BY <1>1, <1>3, <2>4 DEF BadByteIsLocated
  <2>5. CASE ~ Whole(i, need) /\ BadByte(i) = i + FirstBreak(i, need)
    <3> DEFINE k == FirstBreak(i, need)
    <3>1. /\ k \in 1 .. need /\ ~ Continues(Byte(text, i + k))
          /\ \A before \in 1 .. k - 1 : Continues(Byte(text, i + before))
      BY <2>1, <2>2, <2>5, FirstBreakIs
    <3> HIDE DEF k
    <3>2. bad_at' = i + k /\ k \in 1 .. 3 /\ i + k \in i + 1 .. i + 3
      BY <1>1, <2>1, <2>2, <2>5, <3>1 DEF k
    <3>3. ASSUME NEW j \in i + 1 .. i + k - 1 PROVE Continues(Byte(text, j))
      <4>1. j - i \in 1 .. k - 1 /\ i + (j - i) = j
        BY <2>1, <3>2
      <4> QED BY <3>1, <4>1
    <3>4. text' = text /\ WellFormedLength(text') = i
      BY <1>1, <1>3
    <3>5. /\ bad_at' \in i + 1 .. i + 3
          /\ ~ Continues(Byte(text', bad_at'))
          /\ \A j \in i + 1 .. bad_at' - 1 : Continues(Byte(text', j))
      <4> DEFINE p == bad_at'
      <4>1. p = i + k /\ p \in i + 1 .. i + 3 /\ p - 1 = i + k - 1
        BY <2>1, <3>2
      <4>2. ~ Continues(Byte(text, p))
        BY <3>1, <4>1
      <4>3. \A j \in i + 1 .. p - 1 : Continues(Byte(text, j))
        BY <3>3, <4>1
      <4> HIDE DEF p
      <4>4. /\ p \in i + 1 .. i + 3 /\ ~ Continues(Byte(text', p))
            /\ \A j \in i + 1 .. p - 1 : Continues(Byte(text', j))
        BY <3>4, <4>1, <4>2, <4>3
      <4> QED BY <4>4 DEF p
    <3> QED BY <3>4, <3>5 DEF BadByteIsLocated
  <2> QED BY <2>3, <2>4, <2>5
<1> QED BY <1>1, <1>4, <1>5, NullTells

LEMMA ScanKeeps ==
    ASSUME TypeInv, LoadInv, StartScan \/ ScanCharacter \/ ScanEnds
    PROVE  LoadInv'
<1>0. Size \in Nat /\ Len(file) \in Nat
  BY TextIsBytes
<1>1. UNCHANGED <<file, text, sink, reported, bad_at>> /\ Reach' = Reach /\ Size' = Size /\ reported = <<>>
      /\ bad_at = -1
  BY ReachStays DEF StartScan, ScanCharacter, ScanEnds, load, LoadInv
<1>2. BadByteIsLocated' /\ Told'
  <2>1. pc' # "null"
    BY DEF StartScan, ScanCharacter, ScanEnds
  <2> QED BY <1>1, <2>1, ToldStays
<1>3. CASE StartScan
  <2>1. pc = "check" /\ Size <= MaxBytes /\ ~ HasNul /\ pc' = "utf8" /\ i' = 0
    BY <1>3 DEF StartScan
  <2>2. text = file
    <3>1. Prefix /\ Size = Len(file)
      BY <1>0, <2>1, SourceAssumption DEF LoadInv
    <3> QED BY <3>1, WholeRead
  <2>3. Sound'
    BY <1>1, <2>1, <2>2 DEF Sound, HasNul
  <2> QED BY <1>0, <1>1, <1>2, <2>1, <2>3 DEF LoadInv, HasLoaded
<1>4. CASE ScanCharacter
  <2>1. pc = "utf8" /\ pc' = pc /\ i < Size /\ BadByte(i) = -1 /\ i' = i + Need(Byte(text, i)) + 1
    BY <1>4 DEF ScanCharacter
  <2>2. Sound /\ i \in 0 .. Size /\ Reach[i] = Reach[0]
    BY <2>1 DEF LoadInv
  <2>3. i' \in 0 .. Size /\ Reach[i'] = Reach[i]
    BY <2>1, <2>2, ScanMeasures
  <2>4. Sound'
    BY <1>1, <2>2 DEF Sound
  <2> QED BY <1>1, <1>2, <2>1, <2>2, <2>3, <2>4 DEF LoadInv, HasLoaded
<1>5. CASE ScanEnds
  <2>1. pc = "utf8" /\ pc' = "copy" /\ i = Size
    BY <1>5 DEF ScanEnds
  <2>2. Sound /\ i \in 0 .. Size /\ Reach[i] = Reach[0]
    BY <2>1 DEF LoadInv
  <2>3. Reach[0] = Size
    BY <2>1, <2>2, ScanMeasures
  <2>4. Sound'
    BY <1>1, <2>2 DEF Sound
  <2> QED BY <1>1, <1>2, <2>1, <2>3, <2>4 DEF LoadInv, HasLoaded
<1> QED BY <1>3, <1>4, <1>5

(* The steps before anything is read, and those after the validation.        *)
LEMMA OtherStepsKeep ==
    ASSUME Inv, LoadInv,
           \/ Open \/ OutOfMemory \/ Copy \/ CountLines \/ IndexByte \/ IndexEnds
           \/ StartLookup \/ Search \/ Return
    PROVE  LoadInv'
<1>1. UNCHANGED <<file, text, sink, reported, bad_at>> /\ Reach' = Reach /\ Size' = Size
  <2>1. UNCHANGED <<file, text, sink, reported, bad_at>>
    BY DEF Open, OutOfMemory, Copy, CountLines, IndexByte, IndexEnds, StartLookup, Search, Halve, Found,
           Return, load
  <2> QED BY <2>1, ReachStays
<1>2. pc # "null" /\ pc' # "null" /\ reported = <<>> /\ bad_at = -1
  BY DEF Open, OutOfMemory, Copy, CountLines, IndexByte, IndexEnds, StartLookup, Search, Halve, Found,
         Return, LoadInv
<1>3. BadByteIsLocated' /\ Told'
  BY <1>1, <1>2, ToldStays
<1>4. Sound' <=> Sound
  BY <1>1 DEF Sound
<1>5. Prefix' <=> Prefix
  BY <1>1 DEF Prefix
<1>6. CASE Open
  BY <1>1, <1>2, <1>3, <1>5, <1>6 DEF Open, LoadInv, HasLoaded
<1>7. CASE OutOfMemory
  BY <1>1, <1>2, <1>3, <1>7 DEF OutOfMemory, LoadInv, HasLoaded
<1>8. CASE Copy \/ CountLines \/ IndexByte \/ IndexEnds \/ StartLookup \/ Search \/ Return
  <2>1. pc \in {"copy", "count", "index"} \/ HasLoaded
    BY <1>8 DEF Copy, CountLines, IndexByte, IndexEnds, StartLookup, Search, Halve, Found, Return, HasLoaded
  <2>2. pc' \in {"count", "index", "abort", "loaded", "search", "found"}
    BY <1>8 DEF Copy, CountLines, IndexByte, IndexEnds, StartLookup, Search, Halve, Found, Return
  <2> QED BY <1>1, <1>2, <1>3, <1>4, <2>1, <2>2 DEF LoadInv, HasLoaded
<1> QED BY <1>6, <1>7, <1>8

LEMMA LoadInvNext == Inv /\ LoadInv /\ [Next]_vars => LoadInv'
<1> SUFFICES ASSUME Inv, LoadInv, [Next]_vars PROVE LoadInv'
  OBVIOUS
<1>0. TypeInv
  BY DEF Inv
<1>1. CASE UNCHANGED vars
  <2>1. UNCHANGED <<pc, file, text, sink, reported, bad_at, i>>
    BY <1>1 DEF vars
  <2>2. Reach' = Reach /\ Size' = Size /\ (Sound' <=> Sound) /\ (Prefix' <=> Prefix)
    BY <2>1, ReachStays DEF Sound, Prefix
  <2>3. BadByteIsLocated' /\ Told'
    <3> QED BY <2>1, ToldStays
  <2> QED BY <2>1, <2>2, <2>3 DEF LoadInv, HasLoaded
<1>2. CASE Next
  BY <1>0, <1>2, ReadLoads, RefusalsTell, InvalidTells, ScanKeeps, OtherStepsKeep DEF Next, Load
<1> QED BY <1>1, <1>2

LEMMA LoadInvInit == Init => LoadInv
<1> SUFFICES ASSUME Init PROVE LoadInv
  OBVIOUS
<1>1. MaxBytes \in Nat /\ reported = <<>> /\ bad_at = -1 /\ Len(<<>>) = 0
  BY SourceAssumption DEF Init
<1>2. CASE pc = "open" /\ text = <<>>
  <2>1. Size = 0 /\ Prefix
    BY <1>1, <1>2 DEF Size, Prefix
  <2> QED BY <1>1, <1>2, <2>1 DEF LoadInv, Told, BadByteIsLocated, HasLoaded
<1>3. CASE pc = "check" /\ text = file
  BY <1>1, <1>3 DEF LoadInv, Told, BadByteIsLocated, HasLoaded, Size, Prefix
<1> QED BY <1>2, <1>3 DEF Init

LEMMA LoadInvHolds == Spec => [](Inv /\ LoadInv)
<1>1. Init => Inv /\ LoadInv
  BY InitHolds, LoadInvInit
<1>2. Inv /\ LoadInv /\ [Next]_vars => Inv' /\ LoadInv'
  BY StepKeeps, LoadInvNext
<1> QED BY <1>1, <1>2, PTL DEF Spec

(* What loads is the whole file, within the limit, free of NUL and           *)
(* well-formed by the table of the Unicode standard, for every file, chunk   *)
(* and limit (source.c, utf8_validate and source_from_file).                 *)
THEOREM LoadIsWholeAndValid == Spec => []LoadsWholeAndValid
<1>1. Inv /\ LoadInv => LoadsWholeAndValid
  <2> SUFFICES ASSUME Inv, LoadInv, HasLoaded PROVE LoadsWholeAndValid
    BY DEF LoadsWholeAndValid
  <2>1. Sound /\ Reach[0] = Size /\ TypeInv
    BY DEF LoadInv, Inv
  <2>2. WellFormedLength(file) = Len(file) /\ text = file /\ Len(file) <= MaxBytes
    BY <2>1, ReachIs DEF Sound, Size
  <2>3. \A j \in DOMAIN file : file[j] # 0
    BY <2>1 DEF Sound, Size, TypeInv
  <2> QED BY <2>2, <2>3 DEF LoadsWholeAndValid
<1> QED BY <1>1, LoadInvHolds, PTL

(* What is refused is refused for what is wrong with it, once and never in   *)
(* silence where there is a sink, memory apart; the byte that is named lies  *)
(* in the first character that is not well-formed.                           *)
THEOREM RefusalIsRight == Spec => []RefusedForItsFault
<1>1. LoadInv => RefusedForItsFault
  <2> SUFFICES ASSUME LoadInv PROVE RefusedForItsFault
    OBVIOUS
  <2>1. BadByteIsLocated /\ Told
    BY DEF LoadInv
  <2>2. Len(reported) <= 1
    <3>1. CASE reported = <<>>
      BY <3>1
    <3>2. CASE reported # <<>>
      <4>1. Len(reported) = 1
        BY <2>1, <3>2 DEF Told
      <4> QED BY <4>1
    <3> QED BY <3>1, <3>2
  <2>3. ASSUME reported # <<>> PROVE pc = "null" /\ sink /\ Fault[reported[1]]
    BY <2>1, <2>3 DEF Told
  <2>4. pc = "null" /\ sink => reported # <<>>
    BY <2>1 DEF Told
  <2> QED BY <2>1, <2>2, <2>3, <2>4 DEF RefusedForItsFault
<1> QED BY <1>1, LoadInvHolds, PTL

-----------------------------------------------------------------------------
(* Columns.                                                                  *)

(* What holds at 0, and at each place where it holds before, holds up to k.  *)
LEMMA UpTo ==
    ASSUME NEW k \in Nat, NEW S, 0 \in S, \A j \in 1 .. k : j - 1 \in S => j \in S
    PROVE  \A j \in 0 .. k : j \in S
<1> DEFINE X == {j \in 0 .. k : j \notin S}
<1> SUFFICES ASSUME X # {} PROVE FALSE
  OBVIOUS
<1>1. PICK n \in X : \A j \in X : n <= j
  <2>1. X \subseteq Nat
    OBVIOUS
  <2> HIDE DEF X
  <2> QED BY <2>1, LeastIs
<1>2. n \in 1 .. k /\ n \notin S /\ n - 1 \in 0 .. k
  OBVIOUS
<1>3. ~ (n <= n - 1)
  BY <1>2
<1>4. n - 1 \in S
  BY <1>1, <1>2, <1>3
<1> QED BY <1>2, <1>4

(* What takes a step of its own at each place has a run through all places.  *)
LEMMA RunExists ==
    ASSUME NEW k \in Nat, NEW T \in [(1 .. k) \X Int -> Int]
    PROVE  \E f \in [0 .. k -> Int] : f[0] = 0 /\ \A j \in 1 .. k : f[j] = T[<<j, f[j - 1]>>]
<1> DEFINE Run(f, n) == f \in [0 .. n -> Int] /\ f[0] = 0 /\ \A j \in 1 .. n : f[j] = T[<<j, f[j - 1]>>]
           S == {n \in 0 .. k : \E f : Run(f, n)}
<1>1. 0 \in S
  <2> DEFINE g == [j \in 0 .. 0 |-> 0]
  <2>1. g \in [0 .. 0 -> Int] /\ g[0] = 0 /\ 1 .. 0 = {}
    OBVIOUS
  <2> HIDE DEF g
  <2>2. Run(g, 0)
    BY <2>1
  <2> QED BY <2>2
<1>2. ASSUME NEW n \in 1 .. k, n - 1 \in S PROVE n \in S
  <2>1. PICK f : Run(f, n - 1)
    BY <1>2
  <2> DEFINE v == T[<<n, f[n - 1]>>]
             g == [j \in 0 .. n |-> IF j = n THEN v ELSE f[j]]
  <2>2. n \in 1 .. k /\ n - 1 \in 0 .. n - 1 /\ f \in [0 .. n - 1 -> Int]
    BY <2>1
  <2>3. v \in Int
    <3>1. f[n - 1] \in Int
      BY <2>2
    <3> HIDE DEF v
    <3>2. <<n, f[n - 1]>> \in (1 .. k) \X Int
      BY <2>2, <3>1
    <3> QED BY <3>2 DEF v
  <2> HIDE DEF v
  <2>4. g \in [0 .. n -> Int] /\ g[n] = v /\ \A j \in 0 .. n - 1 : g[j] = f[j]
    <3>1. \A j \in 0 .. n : j # n => j \in 0 .. n - 1
      BY <2>2
    <3>2. \A j \in 0 .. n - 1 : j \in 0 .. n /\ j # n
      BY <2>2
    <3>3. \A j \in 0 .. n : (IF j = n THEN v ELSE f[j]) \in Int
      BY <2>2, <2>3, <3>1
    <3>4. n \in 0 .. n
      BY <2>2
    <3> QED BY <3>2, <3>3, <3>4
  <2> HIDE DEF g
  <2>5. ASSUME NEW j \in 1 .. n PROVE g[j] = T[<<j, g[j - 1]>>]
    <3>1. CASE j = n
      <4>1. g[n - 1] = f[n - 1]
        BY <2>2, <2>4
      <4> QED BY <2>4, <3>1, <4>1 DEF v
    <3>2. CASE j # n
      <4>1. j \in 1 .. n - 1 /\ j \in 0 .. n - 1 /\ j - 1 \in 0 .. n - 1
        BY <2>2, <3>2
      <4>2. f[j] = T[<<j, f[j - 1]>>]
        BY <2>1, <4>1
      <4> QED BY <2>4, <4>1, <4>2
    <3> QED BY <3>1, <3>2
  <2>6. g[0] = 0
    <3>1. 0 \in 0 .. n - 1
      BY <2>2
    <3> QED BY <2>1, <2>4, <3>1
  <2>7. Run(g, n)
    BY <2>4, <2>5, <2>6
  <2> QED BY <2>7
<1> HIDE DEF S
<1>3. \A n \in 0 .. k : n \in S
  BY <1>1, <1>2, UpTo
<1>4. k \in S
  BY <1>3
<1> QED BY <1>4 DEF S

(* The columns of a line s up to byte k: by characters, by bytes, and on the *)
(* terminal.                                                                 *)
Step(s, j, col, one) == IF s[j] = TAB THEN col + Pad(col) ELSE col + one
Counts(s, j) == IF ~ Continues(s[j]) THEN 1 ELSE 0
One == IF TRUE THEN 1 ELSE 0
ByCharacter(f, s, k) ==
    f = [j \in 0 .. k |-> IF j = 0 THEN 0 ELSE Step(s, j, f[j - 1], Counts(s, j))]
ByByte(f, s, k) == f = [j \in 0 .. k |-> IF j = 0 THEN 0 ELSE Step(s, j, f[j - 1], One)]
Bytewise(s, k) == Columns(s, k, LAMBDA c : TRUE)
Cell(s, j) ==
    CASE s[j] = TAB -> Pad(Bytewise(s, j - 1))
      [] Continues(s[j]) -> 0
      [] OTHER -> 1
ByCell(f, s, k) == f = [j \in 0 .. k |-> IF j = 0 THEN 0 ELSE f[j - 1] + Cell(s, j)]

LEMMA PadIsInt ==
    ASSUME NEW col \in Int
    PROVE  Pad(col) \in Int
BY SourceAssumption DEF Pad

LEMMA StepIsInt ==
    ASSUME NEW s, NEW j, NEW col \in Int, NEW one \in Int
    PROVE  Step(s, j, col, one) \in Int
BY PadIsInt DEF Step

LEMMA OnesAre ==
    ASSUME NEW s, NEW j
    PROVE  Counts(s, j) \in Int /\ One = 1 /\ One \in Int /\ (~ Continues(s[j]) => Counts(s, j) = One)
BY DEF Counts, One

(* A function that takes those steps is the one of the definition. *)
LEMMA RunIsColumn ==
    ASSUME NEW k \in Nat, NEW T \in [(1 .. k) \X Int -> Int]
    PROVE  \E f \in [0 .. k -> Int] : f = [j \in 0 .. k |-> IF j = 0 THEN 0 ELSE T[<<j, f[j - 1]>>]]
<1>1. PICK f \in [0 .. k -> Int] : f[0] = 0 /\ \A j \in 1 .. k : f[j] = T[<<j, f[j - 1]>>]
  BY RunExists
<1> DEFINE h == [j \in 0 .. k |-> IF j = 0 THEN 0 ELSE T[<<j, f[j - 1]>>]]
<1>2. \A j \in 0 .. k : f[j] = h[j]
  <2> SUFFICES ASSUME NEW j \in 0 .. k PROVE f[j] = h[j]
    OBVIOUS
  <2>1. j # 0 => j \in 1 .. k
    OBVIOUS
  <2> QED BY <1>1, <2>1
<1>3. f = h
  BY <1>2
<1> QED BY <1>3

LEMMA ByCharacterExists ==
    ASSUME NEW s, NEW k \in Nat
    PROVE  \E f \in [0 .. k -> Int] : ByCharacter(f, s, k)
<1> DEFINE T == [p \in (1 .. k) \X Int |-> Step(s, p[1], p[2], Counts(s, p[1]))]
<1>1. T \in [(1 .. k) \X Int -> Int]
  BY StepIsInt, OnesAre
<1>2. \A j \in 1 .. k : \A col \in Int : T[<<j, col>>] = Step(s, j, col, Counts(s, j))
  OBVIOUS
<1> HIDE DEF T
<1>3. PICK f \in [0 .. k -> Int] : f = [j \in 0 .. k |-> IF j = 0 THEN 0 ELSE T[<<j, f[j - 1]>>]]
  BY <1>1, RunIsColumn
<1>4. \A j \in 0 .. k : j # 0 => j \in 1 .. k /\ j - 1 \in 0 .. k
  OBVIOUS
<1>5. \A j \in 0 .. k : j # 0 => T[<<j, f[j - 1]>>] = Step(s, j, f[j - 1], Counts(s, j))
  BY <1>2, <1>4
<1>6. [j \in 0 .. k |-> IF j = 0 THEN 0 ELSE T[<<j, f[j - 1]>>]]
        = [j \in 0 .. k |-> IF j = 0 THEN 0 ELSE Step(s, j, f[j - 1], Counts(s, j))]
  BY <1>5
<1>7. ByCharacter(f, s, k)
  BY <1>3, <1>6 DEF ByCharacter
<1> QED BY <1>7

LEMMA ByByteExists ==
    ASSUME NEW s, NEW k \in Nat
    PROVE  \E f \in [0 .. k -> Int] : ByByte(f, s, k)
<1> DEFINE T == [p \in (1 .. k) \X Int |-> Step(s, p[1], p[2], One)]
<1>1. T \in [(1 .. k) \X Int -> Int]
  BY StepIsInt, OnesAre
<1>2. \A j \in 1 .. k : \A col \in Int : T[<<j, col>>] = Step(s, j, col, One)
  OBVIOUS
<1> HIDE DEF T
<1>3. PICK f \in [0 .. k -> Int] : f = [j \in 0 .. k |-> IF j = 0 THEN 0 ELSE T[<<j, f[j - 1]>>]]
  BY <1>1, RunIsColumn
<1>4. \A j \in 0 .. k : j # 0 => j \in 1 .. k /\ j - 1 \in 0 .. k
  OBVIOUS
<1>5. \A j \in 0 .. k : j # 0 => T[<<j, f[j - 1]>>] = Step(s, j, f[j - 1], One)
  BY <1>2, <1>4
<1>6. [j \in 0 .. k |-> IF j = 0 THEN 0 ELSE T[<<j, f[j - 1]>>]]
        = [j \in 0 .. k |-> IF j = 0 THEN 0 ELSE Step(s, j, f[j - 1], One)]
  BY <1>5
<1>7. ByByte(f, s, k)
  BY <1>3, <1>6 DEF ByByte
<1> QED BY <1>7

LEMMA ByCharacterIs ==
    ASSUME NEW s, NEW k \in Nat, NEW f, ByCharacter(f, s, k)
    PROVE  /\ f[0] = 0
           /\ \A j \in 1 .. k : f[j - 1] \in Int /\ f[j] = Step(s, j, f[j - 1], Counts(s, j))
<1> DEFINE S == {j \in 0 .. k : f[j] \in Int}
<1>1. f[0] = 0 /\ \A j \in 1 .. k : f[j] = Step(s, j, f[j - 1], Counts(s, j))
  BY DEF ByCharacter
<1>2. 0 \in S /\ \A j \in 1 .. k : j - 1 \in S => j \in S
  BY <1>1, StepIsInt, OnesAre
<1> HIDE DEF S
<1>3. \A j \in 0 .. k : j \in S
  BY <1>2, UpTo
<1>4. \A j \in 1 .. k : f[j - 1] \in Int
  BY <1>3 DEF S
<1> QED BY <1>1, <1>4

LEMMA ByByteIs ==
    ASSUME NEW s, NEW k \in Nat, NEW f, ByByte(f, s, k)
    PROVE  /\ f[0] = 0
           /\ \A j \in 1 .. k : f[j - 1] \in Int /\ f[j] = Step(s, j, f[j - 1], One)
<1> DEFINE S == {j \in 0 .. k : f[j] \in Int}
<1>1. f[0] = 0 /\ \A j \in 1 .. k : f[j] = Step(s, j, f[j - 1], One)
  BY DEF ByByte
<1>2. 0 \in S /\ \A j \in 1 .. k : j - 1 \in S => j \in S
  BY <1>1, StepIsInt, OnesAre
<1> HIDE DEF S
<1>3. \A j \in 0 .. k : j \in S
  BY <1>2, UpTo
<1>4. \A j \in 1 .. k : f[j - 1] \in Int
  BY <1>3 DEF S
<1> QED BY <1>1, <1>4

(* The column by characters, by bytes and the cell are such functions. *)
LEMMA CharactersAre ==
    ASSUME NEW s, Len(s) \in Nat, NEW k \in 0 .. Len(s)
    PROVE  \E f : ByCharacter(f, s, k) /\ display_col(s, k) = f[k]
<1> DEFINE f == CHOOSE f : ByCharacter(f, s, k)
<1>1. k \in Nat
  OBVIOUS
<1>2. ByCharacter(f, s, k)
  BY <1>1, ByCharacterExists
<1>3. Smaller(k, Len(s)) = k
  BY DEF Smaller
<1>4. display_col(s, k) = f[k]
  BY <1>3 DEF display_col, Columns, ByCharacter, Step, Counts
<1> QED BY <1>2, <1>4

LEMMA BytesAre ==
    ASSUME NEW s, NEW k \in Nat
    PROVE  \E f : ByByte(f, s, k) /\ Bytewise(s, k) = f[k]
<1> DEFINE f == CHOOSE f : ByByte(f, s, k)
<1>1. ByByte(f, s, k)
  BY ByByteExists
<1>2. Bytewise(s, k) = f[k]
  BY DEF Bytewise, Columns, ByByte, Step, One
<1> QED BY <1>1, <1>2

LEMMA BytewiseIsInt ==
    ASSUME NEW s, NEW k \in Nat
    PROVE  Bytewise(s, k) \in Int
<1>1. PICK f \in [0 .. k -> Int] : ByByte(f, s, k)
  BY ByByteExists
<1>2. PICK g : ByByte(g, s, k) /\ Bytewise(s, k) = g[k]
  BY BytesAre
<1>3. k = 0 => g[k] \in Int
  BY <1>2, ByByteIs
<1>4. k # 0 => g[k] \in Int
  <2>1. k # 0 => k \in 1 .. k
    OBVIOUS
  <2>2. k # 0 => g[k - 1] \in Int /\ g[k] = Step(s, k, g[k - 1], One)
    BY <1>2, <2>1, ByByteIs
  <2> QED BY <2>2, StepIsInt, OnesAre
<1> QED BY <1>2, <1>3, <1>4

LEMMA ByCellExists ==
    ASSUME NEW s, NEW k \in Nat
    PROVE  \E f \in [0 .. k -> Int] : ByCell(f, s, k)
<1> DEFINE T == [p \in (1 .. k) \X Int |-> p[2] + Cell(s, p[1])]
<1>0. \A j \in 1 .. k : Cell(s, j) \in Int
  <2>1. \A j \in 1 .. k : j - 1 \in Nat
    OBVIOUS
  <2> QED BY <2>1, BytewiseIsInt, PadIsInt DEF Cell
<1>1. T \in [(1 .. k) \X Int -> Int]
  BY <1>0
<1>2. \A j \in 1 .. k : \A col \in Int : T[<<j, col>>] = col + Cell(s, j)
  OBVIOUS
<1> HIDE DEF T
<1>3. PICK f \in [0 .. k -> Int] : f = [j \in 0 .. k |-> IF j = 0 THEN 0 ELSE T[<<j, f[j - 1]>>]]
  BY <1>1, RunIsColumn
<1>4. \A j \in 0 .. k : j # 0 => j \in 1 .. k /\ j - 1 \in 0 .. k
  OBVIOUS
<1>5. \A j \in 0 .. k : j # 0 => T[<<j, f[j - 1]>>] = f[j - 1] + Cell(s, j)
  BY <1>2, <1>4
<1>6. [j \in 0 .. k |-> IF j = 0 THEN 0 ELSE T[<<j, f[j - 1]>>]]
        = [j \in 0 .. k |-> IF j = 0 THEN 0 ELSE f[j - 1] + Cell(s, j)]
  BY <1>5
<1>7. ByCell(f, s, k)
  BY <1>3, <1>6 DEF ByCell
<1> QED BY <1>7

LEMMA CellsAre ==
    ASSUME NEW s, NEW k \in Nat
    PROVE  \E f : ByCell(f, s, k) /\ Cells(s, k) = f[k]
<1> DEFINE f == CHOOSE f : ByCell(f, s, k)
<1>1. ByCell(f, s, k)
  BY ByCellExists
<1>2. Cells(s, k) = f[k]
  BY DEF Cells, ByCell, Cell, Bytewise
<1> QED BY <1>1, <1>2

(* As long as no character of several bytes was seen, bytes are characters.  *)
LEMMA BytesAreCharacters ==
    ASSUME NEW s, NEW k \in Nat, NEW f, ByCharacter(f, s, k),
           NEW j \in 0 .. k, \A m \in 1 .. j : ~ Continues(s[m])
    PROVE  Bytewise(s, j) = f[j]
<1>1. PICK g : ByByte(g, s, j) /\ Bytewise(s, j) = g[j]
  BY BytesAre
<1> DEFINE S == {m \in 0 .. j : f[m] = g[m]}
<1>2. 0 \in S
  <2>1. f[0] = 0
    BY ByCharacterIs
  <2>2. j \in Nat
    OBVIOUS
  <2>3. g[0] = 0
    BY <1>1, <2>2, ByByteIs
  <2> QED BY <2>1, <2>2, <2>3
<1>3. ASSUME NEW m \in 1 .. j, m - 1 \in S PROVE m \in S
  <2>1. m \in 1 .. k /\ m - 1 \in 0 .. j
    OBVIOUS
  <2>2. f[m] = Step(s, m, f[m - 1], Counts(s, m)) /\ g[m] = Step(s, m, g[m - 1], One)
    BY <1>1, <2>1, ByByteIs, ByCharacterIs
  <2>3. f[m - 1] = g[m - 1]
    BY <1>3
  <2>4. ~ Continues(s[m])
    OBVIOUS
  <2>5. f[m] = g[m]
    BY <2>2, <2>3, <2>4, OnesAre
  <2> QED BY <2>5
<1> HIDE DEF S
<1>4. j \in S
  <2>1. \A m \in 1 .. j : m - 1 \in S => m \in S
    BY <1>3
  <2>2. j \in Nat /\ j \in 0 .. j
    OBVIOUS
  <2>3. \A m \in 0 .. j : m \in S
    BY <1>2, <2>1, <2>2, UpTo
  <2> QED BY <2>2, <2>3
<1> QED BY <1>1, <1>4 DEF S

LEMMA CellsAreCharacters ==
    ASSUME NEW s, Len(s) \in Nat, NEW m \in 0 .. Len(s), ~ TabAfterWide(s, m), NEW k \in 0 .. m
    PROVE  display_col(s, k) = Cells(s, k) /\ Cells(s, k) \in Int
<1>1. k \in 0 .. Len(s) /\ k \in Nat
  OBVIOUS
<1>2. PICK f : ByCharacter(f, s, k) /\ display_col(s, k) = f[k]
  BY <1>1, CharactersAre
<1>3. PICK g : ByCell(g, s, k) /\ Cells(s, k) = g[k]
  BY <1>1, CellsAre
<1> DEFINE S == {j \in 0 .. k : f[j] = g[j] /\ f[j] \in Int}
<1>4. g[0] = 0 /\ \A j \in 1 .. k : g[j] = g[j - 1] + Cell(s, j)
  BY <1>1, <1>3 DEF ByCell
<1>5. 0 \in S
  <2>1. f[0] = 0
    BY <1>1, <1>2, ByCharacterIs
  <2> QED BY <1>1, <1>4, <2>1
<1>6. ASSUME NEW j \in 1 .. k, j - 1 \in S PROVE j \in S
  <2> DEFINE col == f[j - 1]
  <2>1. col \in Int /\ f[j] = Step(s, j, col, Counts(s, j)) /\ g[j] = col + Cell(s, j)
    BY <1>1, <1>2, <1>4, <1>6, ByCharacterIs
  <2>2. CASE s[j] = TAB
    <3>1. \A b \in 1 .. j - 1 : ~ Continues(s[b])
      BY <2>2 DEF TabAfterWide
    <3>2. j - 1 \in 0 .. k
      OBVIOUS
    <3>3. Bytewise(s, j - 1) = col
      BY <1>1, <1>2, <3>1, <3>2, BytesAreCharacters
    <3>4. Cell(s, j) = Pad(col)
      <4>1. ~ Continues(TAB)
        BY DEF Continues, TAB
      <4> QED BY <2>2, <3>3, <4>1 DEF Cell
    <3>5. f[j] = col + Pad(col)
      BY <2>1, <2>2 DEF Step
    <3>6. Pad(col) \in Int
      BY <2>1, PadIsInt
    <3> HIDE DEF col
    <3>7. f[j] = g[j] /\ f[j] \in Int
      BY <2>1, <3>4, <3>5, <3>6
    <3> QED BY <3>7
  <2>3. CASE s[j] # TAB
    <3>1. Cell(s, j) = IF Continues(s[j]) THEN 0 ELSE 1
      BY <2>3 DEF Cell
    <3>2. f[j] = col + IF ~ Continues(s[j]) THEN 1 ELSE 0
      BY <2>1, <2>3 DEF Step, Counts
    <3> HIDE DEF col
    <3>3. f[j] = g[j] /\ f[j] \in Int
      BY <2>1, <3>1, <3>2
    <3> QED BY <3>3
  <2> QED BY <2>2, <2>3
<1> HIDE DEF S
<1>7. k \in S
  <2>1. \A j \in 1 .. k : j - 1 \in S => j \in S
    BY <1>6
  <2>2. \A j \in 0 .. k : j \in S
    BY <1>1, <1>5, <2>1, UpTo
  <2> QED BY <1>1, <2>2
<1> QED BY <1>2, <1>3, <1>7 DEF S

(* What is shown is a part of the text, also where the end of the line is cut. *)
LEMMA LineIsShown ==
    ASSUME Inv, HasLoaded, NEW line \in 1 .. Len(line_starts)
    PROVE  Len(source_line(line)) \in Nat /\ source_line_start(line) = line_starts[line]
<1> DEFINE start == line_starts[line]
           until == LineEnd(line)
           CutAt(e) == /\ e = start \/ Byte(text, e - 1) \notin {NL, CR}
                       /\ \A j \in e .. until - 1 : Byte(text, j) \in {NL, CR}
           end == CHOOSE e \in start .. until : CutAt(e)
<1>1. /\ Len(line_starts) \in Nat /\ Size \in Nat
      /\ \A l \in 2 .. Len(line_starts) : line_starts[l - 1] < line_starts[l]
  BY ThereIsALine, TextIsBytes DEF Inv, LinesInv, Lines
<1>2. start \in 0 .. Size
  BY StartsAreInText
<1>3. until \in Nat /\ start <= until
  <2>1. CASE line = Len(line_starts)
    BY <1>1, <1>2, <2>1 DEF LineEnd
  <2>2. CASE line # Len(line_starts)
    <3>1. line + 1 \in 2 .. Len(line_starts) /\ line + 1 \in 1 .. Len(line_starts) /\ (line + 1) - 1 = line
      BY <1>1, <2>2
    <3>2. line_starts[line] < line_starts[line + 1]
      BY <1>1, <3>1
    <3>3. line_starts[line + 1] \in 0 .. Size
      BY <3>1, StartsAreInText
    <3> QED BY <1>1, <1>2, <2>2, <3>2, <3>3 DEF LineEnd
  <2> QED BY <2>1, <2>2
<1>4. line # 0 /\ ~ (line > Len(line_starts))
  BY <1>1
<1>5. source_line_start(line) = start
  BY <1>4 DEF source_line_start
<1>6. source_line(line) = SubSeq(text, start + 1, end)
  BY <1>4 DEF source_line
<1> HIDE DEF start, until
<1>7. \E e \in start .. until : CutAt(e)
  <2> DEFINE X == {e \in start .. until : \A j \in e .. until - 1 : Byte(text, j) \in {NL, CR}}
  <2>1. until \in X
    BY <1>2, <1>3
  <2>2. X \subseteq Nat
    BY <1>2, <1>3
  <2> HIDE DEF X
  <2>3. PICK e \in X : \A f \in X : e <= f
    BY <2>1, <2>2, LeastIs
  <2>4. e \in start .. until /\ \A j \in e .. until - 1 : Byte(text, j) \in {NL, CR}
    BY <2>3 DEF X
  <2>5. ASSUME e # start, Byte(text, e - 1) \in {NL, CR} PROVE FALSE
    <3>1. e - 1 \in start .. until
      BY <1>2, <1>3, <2>4, <2>5
    <3>2. \A j \in e - 1 .. until - 1 : j = e - 1 \/ j \in e .. until - 1
      BY <1>2, <1>3, <2>4
    <3>3. e - 1 \in X
      BY <2>4, <2>5, <3>1, <3>2 DEF X
    <3>4. ~ (e <= e - 1)
      BY <1>2, <2>4
    <3> QED BY <2>3, <3>3, <3>4
  <2> QED BY <2>4, <2>5
<1>8. end \in start .. until
  <2> HIDE DEF CutAt
  <2> QED BY <1>7
<1> HIDE DEF end
<1>9. start + 1 \in Int /\ end \in Int
  BY <1>2, <1>3, <1>8
<1> DEFINE a == start + 1
           S == {text[k] : k \in a .. end}
<1>10. Len(SubSeq(text, a, end)) = IF a <= end THEN end - a + 1 ELSE 0
  <2>1. a \in Int /\ \A k \in a .. end : text[k] \in S
    BY <1>9
  <2> HIDE DEF a, S
  <2> QED BY <1>9, <2>1, SubSeqProperties
<1>11. Len(SubSeq(text, a, end)) \in Nat
  BY <1>9, <1>10
<1> QED BY <1>5, <1>6, <1>11 DEF start

(* The span that is looked up has an end. *)
SpanInv == pc \in {"search", "found"} => at.end \in Nat

LEMMA SpanStep == Inv /\ SpanInv /\ [Next]_vars => SpanInv'
<1> SUFFICES ASSUME Inv, SpanInv, [Next]_vars PROVE SpanInv'
  OBVIOUS
<1>1. CASE Load
  <2>1. pc' \notin {"search", "found"}
    BY <1>1
       DEF Load, Open, CannotOpen, Read, ReadFails, OutOfMemory, TooLarge, NulByte, StartScan,
           ScanCharacter, InvalidUtf8, ScanEnds, Copy, CountLines, IndexByte, IndexEnds, Null
  <2> QED BY <2>1 DEF SpanInv
<1>2. CASE StartLookup
  <2>1. PICK s \in 0 .. Size + 1 : \E e \in s .. Size + 1 : at' = [start |-> s, end |-> e]
    BY <1>2 DEF StartLookup
  <2>2. PICK e \in s .. Size + 1 : at' = [start |-> s, end |-> e]
    BY <2>1
  <2>3. e \in Nat
    BY <2>2, TextIsBytes DEF Inv
  <2> QED BY <2>2, <2>3 DEF SpanInv
<1>3. CASE Halve \/ Found
  BY <1>3 DEF Halve, Found, SpanInv
<1>4. CASE Return
  BY <1>4 DEF Return, SpanInv
<1>5. CASE UNCHANGED vars
  BY <1>5 DEF vars, SpanInv, lookup
<1> QED BY <1>1, <1>2, <1>3, <1>4, <1>5 DEF Next, Search

(* For every text and every span, one past the end of the text included: the *)
(* first caret stands below the first byte of the span, and the last below   *)
(* its last, unless a tab follows a character of several bytes               *)
(* (diag.c:217-279).                                                         *)
THEOREM CaretsAreRight == Spec => []CaretsLineUp
<1>1. Init => Inv /\ SearchInv /\ SpanInv
  BY InitHolds DEF Init, SearchInv, SpanInv
<1>2. Inv /\ SearchInv /\ SpanInv /\ [Next]_vars => (Inv /\ SearchInv /\ SpanInv)'
  BY StepKeeps, SearchStep, SpanStep
<1>3. Inv /\ SearchInv /\ SpanInv => CaretsLineUp
  <2> DEFINE d == at.start - ShownStart
             n == Len(Shown)
             first == Smaller(d, n)
             last == IF SpanEnd > ShownStart THEN SpanEnd - ShownStart ELSE 0
             m == IF last > first THEN last ELSE first
  <2> SUFFICES ASSUME Inv, SearchInv, SpanInv, pc = "found", ~ TabAfterWide(Shown, m)
               PROVE  /\ caret_start = Cells(Shown, first)
                      /\ caret_len = 1 \/ caret_start + caret_len = Cells(Shown, last)
    BY DEF CaretsLineUp
  <2>1. Interval /\ HasLoaded /\ lo = hi /\ lc.line = lo + 1 /\ at.end \in Nat
    BY DEF SearchInv, HasLoaded, SpanInv
  <2>2. lo + 1 \in 1 .. Len(line_starts)
    BY <2>1, ThereIsALine DEF Interval
  <2>3. n \in Nat /\ ShownStart = line_starts[lo + 1]
    BY <2>1, <2>2, LineIsShown DEF Shown, ShownStart
  <2>4. /\ at.start \in Nat /\ Offset <= at.start /\ Offset \in Nat
        /\ ShownStart \in Nat /\ ShownStart <= Offset
    <3>1. at.start \in Nat /\ line_starts[lo + 1] <= Offset
      BY <2>1 DEF Interval
    <3>2. line_starts[lo + 1] \in 0 .. Size
      BY <2>1, <2>2, StartsAreInText
    <3>3. Offset \in 0 .. Size /\ Offset <= at.start
      BY <3>1, OffsetIsInText, TextIsBytes DEF Offset, Smaller, Inv
    <3> QED BY <2>3, <3>1, <3>2, <3>3
  <2>5. d \in Nat
    BY <2>4
  <2>6. last \in 0 .. n
    <3>1. SpanEnd \in Int /\ SpanEnd <= ShownStart + n
      BY <2>1, <2>3, <2>4 DEF SpanEnd, Smaller
    <3> QED BY <2>3, <2>4, <3>1
  <2>7. first \in 0 .. n /\ Smaller(first, n) = Smaller(d, n) /\ Smaller(last, n) = last
    BY <2>3, <2>5, <2>6 DEF Smaller
  <2>8. m \in 0 .. n /\ first \in 0 .. m /\ last \in 0 .. m
    BY <2>3, <2>6, <2>7
  <2>9. caret_start = display_col(Shown, first)
    BY <2>7 DEF caret_start, display_col
  <2>10. caret_end = display_col(Shown, last)
    BY DEF caret_end
  <2> HIDE DEF d, n, first, last, m
  <2>11. display_col(Shown, first) = Cells(Shown, first) /\ Cells(Shown, first) \in Int
    BY <2>3, <2>8, CellsAreCharacters DEF n
  <2>12. display_col(Shown, last) = Cells(Shown, last) /\ Cells(Shown, last) \in Int
    BY <2>3, <2>8, CellsAreCharacters DEF n
  <2>13. caret_start = Cells(Shown, first)
    BY <2>9, <2>11
  <2>14. caret_len = 1 \/ caret_start + caret_len = Cells(Shown, last)
    BY <2>10, <2>11, <2>12, <2>13 DEF caret_len
  <2> QED BY <2>13, <2>14
<1> QED BY <1>1, <1>2, <1>3, PTL DEF Spec

=============================================================================
