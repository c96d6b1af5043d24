------------------------------- MODULE Source -------------------------------
(* Loading a source and telling where an offset lies (src/src/base/source.c),*)
(* and the two columns a diagnostic computes from it (diag.c:217-279).  A    *)
(* byte is a number; offsets are zero-based, as in the code.  Reading is a   *)
(* step per fread, validation a step per character, the line index a step    *)
(* per byte and the lookup a step per halving.                               *)

EXTENDS Integers, Sequences, FiniteSets

CONSTANTS
    Files,      \* the contents a file or a memory block may have
    Chunk,      \* sizeof(chunk)
    MaxBytes,   \* DOOT_MAX_SOURCE_BYTES
    TabWidth    \* SNIPPET_TAB_WIDTH

ASSUME SourceAssumption ==
    /\ Files \subseteq Seq(0 .. 255)
    /\ Chunk \in Nat \ {0} /\ MaxBytes \in Nat /\ TabWidth \in Nat \ {0}

VARIABLES
    pc,             \* where the call is
    file,           \* what there is to load
    sink,           \* whether the caller gave a sink
    text,           \* buf contents, then s->text
    i,              \* the cursor of utf8_validate and of build_line_index
    bad_at,
    line_starts,
    reported,       \* what went into the sink, in order
    at,             \* the span looked up
    lo, hi,         \* the interval of the search
    lc              \* the line_col that was found

vars == <<pc, file, sink, text, i, bad_at, line_starts, reported, at, lo, hi, lc>>
load == <<file, sink, reported>>
lookup == <<at, lo, hi, lc>>

NoSpan == [start |-> 0, end |-> 0]
NoPosition == [line |-> 0, col |-> 0]
NL == 10
CR == 13
TAB == 9

Size == Len(text)
Byte(s, j) == s[j + 1]
Smaller(a, b) == IF a < b THEN a ELSE b

Report(code) == reported' = IF sink THEN Append(reported, code) ELSE reported
Null(code) ==
    /\ pc' = "null" /\ Report(code)
    /\ UNCHANGED <<file, sink, text, i, line_starts, lookup>>

-----------------------------------------------------------------------------
(* source_from_file: the text is read a chunk at a time; a short one is the  *)
(* last.                                                                     *)

Open == pc = "open" /\ pc' = "read" /\ UNCHANGED <<load, text, i, bad_at, line_starts, lookup>>
CannotOpen == pc = "open" /\ Null("CANNOT_READ_FILE") /\ UNCHANGED bad_at

Got(k) == SubSeq(file, Size + 1, Size + k)
Read ==
    LET got == Smaller(Chunk, Len(file) - Size) IN
    /\ pc = "read"
    /\ text' = text \o Got(got)
    /\ pc' = IF got = Chunk /\ Len(text') <= MaxBytes THEN "read" ELSE "check"
    /\ UNCHANGED <<load, i, bad_at, line_starts, lookup>>

(* fread came short of a chunk and ferror says why.                          *)
ReadFails == pc = "read" /\ Null("CANNOT_READ_FILE") /\ UNCHANGED bad_at

(* The arena has no room for the path, the buffer, the copy or the index:    *)
(* NULL as well, told from the others here for the sake of what is reported. *)
OutOfMemory ==
    /\ pc \in {"open", "read", "check", "copy", "count"}
    /\ pc' = "no_memory" /\ UNCHANGED <<load, text, i, bad_at, line_starts, lookup>>

-----------------------------------------------------------------------------
(* source_from_memory.                                                       *)

(* Fault: the limit itself is refused. *)
TooLargeAtLimit ==
    pc = "check" /\ Size >= MaxBytes /\ Null("SOURCE_TOO_LARGE") /\ UNCHANGED bad_at
TooLarge == pc = "check" /\ Size > MaxBytes /\ Null("SOURCE_TOO_LARGE") /\ UNCHANGED bad_at

HasNul == \E j \in 1 .. Size : text[j] = 0

(* Fault: the caller's sink is forgotten. *)
NulByteSilently ==
    /\ pc = "check" /\ Size <= MaxBytes /\ HasNul
    /\ pc' = "null" /\ UNCHANGED <<load, text, i, bad_at, line_starts, lookup>>
NulByte == pc = "check" /\ Size <= MaxBytes /\ HasNul /\ Null("SOURCE_NUL_BYTE") /\ UNCHANGED bad_at

StartScan ==
    /\ pc = "check" /\ Size <= MaxBytes /\ ~ HasNul
    /\ pc' = "utf8" /\ i' = 0
    /\ UNCHANGED <<load, text, bad_at, line_starts, lookup>>

(* utf8_validate.  `Need` is how many continuation bytes a lead asks for.    *)
Need(c) ==
    CASE c \in \hC2 .. \hDF -> 1
      [] c \in \hE0 .. \hEF -> 2
      [] c \in \hF0 .. \hF4 -> 3
      [] OTHER -> 0
Continues(c) == c \div 64 = 2                          \* (c & 0xc0) == 0x80
Whole(j, need) == \A k \in 1 .. need : Continues(Byte(text, j + k))

(* The code point of a lead and its continuation bytes, six bits from each.  *)
CodePoint(j, need) ==
    LET six(k) == Byte(text, j + k) % 64 IN
    CASE need = 1 -> (Byte(text, j) % 32) * 64 + six(1)
      [] need = 2 -> ((Byte(text, j) % 16) * 64 + six(1)) * 64 + six(2)
      [] need = 3 -> (((Byte(text, j) % 8) * 64 + six(1)) * 64 + six(2)) * 64 + six(3)

(* Fault: surrogates pass. *)
OutOfRangeOnly(need, cp) ==
    \/ need = 2 /\ cp < \h800
    \/ need = 3 /\ (cp < \h10000 \/ cp > \h10FFFF)
OutOfRange(need, cp) ==
    \/ need = 2 /\ (cp < \h800 \/ cp \in \hD800 .. \hDFFF)
    \/ need = 3 /\ (cp < \h10000 \/ cp > \h10FFFF)

(* The first byte the scan finds fault with at the character j, or -1.       *)
BadByte(j) ==
    LET c == Byte(text, j) need == Need(c) IN
    CASE c < \h80 -> -1
      [] c >= \h80 /\ need = 0 -> j
      [] need > 0 /\ Size - j - 1 < need -> j
      [] need > 0 /\ Size - j - 1 >= need /\ ~ Whole(j, need) ->
           j + CHOOSE k \in 1 .. need :
                 /\ ~ Continues(Byte(text, j + k))
                 /\ \A before \in 1 .. k - 1 : Continues(Byte(text, j + before))
      [] OTHER -> IF OutOfRange(need, CodePoint(j, need)) THEN j ELSE -1

(* Fault: the lead is not counted. *)
ScanLead ==
    /\ pc = "utf8" /\ i < Size /\ BadByte(i) = -1
    /\ i' = i + Need(Byte(text, i))
    /\ UNCHANGED <<pc, load, text, bad_at, line_starts, lookup>>
ScanCharacter ==
    /\ pc = "utf8" /\ i < Size /\ BadByte(i) = -1
    /\ i' = i + Need(Byte(text, i)) + 1
    /\ UNCHANGED <<pc, load, text, bad_at, line_starts, lookup>>

(* Fault: where the text breaks off. *)
InvalidUtf8AtEnd ==
    /\ pc = "utf8" /\ i < Size /\ BadByte(i) # -1
    /\ bad_at' = IF Size - i - 1 < Need(Byte(text, i)) THEN Size - 1 ELSE BadByte(i)
    /\ Null("INVALID_UTF8")
InvalidUtf8 ==
    /\ pc = "utf8" /\ i < Size /\ BadByte(i) # -1
    /\ bad_at' = BadByte(i)
    /\ Null("INVALID_UTF8")
ScanEnds ==
    /\ pc = "utf8" /\ i = Size
    /\ pc' = "copy" /\ UNCHANGED <<load, text, i, bad_at, line_starts, lookup>>

Copy == pc = "copy" /\ pc' = "count" /\ UNCHANGED <<load, text, i, bad_at, line_starts, lookup>>

-----------------------------------------------------------------------------
(* build_line_index: one pass counts the lines and one notes where each      *)
(* begins.  A newline at the end of the text begins no line.                 *)

(* Fault: also after the last newline. *)
BeginsLineAtEnd(j) == Byte(text, j) = NL
BeginsLine(j) == Byte(text, j) = NL /\ j + 1 < Size

(* Fault: the first line is not counted. *)
line_count_short == Cardinality({j \in 0 .. Size - 1 : BeginsLine(j)})
line_count == 1 + Cardinality({j \in 0 .. Size - 1 : BeginsLine(j)})

CountLines ==
    /\ pc = "count"
    /\ line_starts' = <<0>> /\ i' = 0 /\ pc' = "index"
    /\ UNCHANGED <<load, text, bad_at, lookup>>

IndexByte ==
    /\ pc = "index" /\ i < Size
    /\ IF BeginsLine(i)
       THEN IF Len(line_starts) < line_count
            THEN line_starts' = Append(line_starts, i + 1) /\ pc' = pc
            ELSE pc' = "abort" /\ UNCHANGED line_starts           \* DOOT_ASSERT
       ELSE UNCHANGED <<line_starts, pc>>
    /\ i' = i + 1
    /\ UNCHANGED <<load, text, bad_at, lookup>>
IndexEnds ==
    /\ pc = "index" /\ i = Size
    /\ pc' = "loaded" /\ UNCHANGED <<load, text, i, bad_at, line_starts, lookup>>

-----------------------------------------------------------------------------
(* source_line_col: the search for the last line that starts at or before    *)
(* the offset, then the count of characters up to it.  An offset past the    *)
(* end, from a stale span, is taken for the end.                             *)

Offset == Smaller(at.start, Size)

(* Fault: rounded down. *)
MidDown == lo + (hi - lo) \div 2
Mid == lo + (hi - lo + 1) \div 2

(* Fault: bytes, not characters. *)
Bytes(from, to) == to - from
Characters(from, to) == Cardinality({j \in from .. to - 1 : ~ Continues(Byte(text, j))})

StartLookup ==
    /\ pc = "loaded"
    /\ \E s \in 0 .. Size + 1 : \E e \in s .. Size + 1 : at' = [start |-> s, end |-> e]
    /\ lo' = 0 /\ hi' = Len(line_starts) - 1 /\ lc' = NoPosition
    /\ pc' = "search" /\ UNCHANGED <<load, text, i, bad_at, line_starts>>

(* Fault: strictly before the offset. *)
HalveBefore ==
    /\ pc = "search" /\ lo < hi
    /\ IF line_starts[Mid + 1] < Offset
       THEN lo' = Mid /\ hi' = hi
       ELSE hi' = Mid - 1 /\ lo' = lo
    /\ UNCHANGED <<pc, load, text, i, bad_at, line_starts, at, lc>>
Halve ==
    /\ pc = "search" /\ lo < hi
    /\ IF line_starts[Mid + 1] <= Offset
       THEN lo' = Mid /\ hi' = hi
       ELSE hi' = Mid - 1 /\ lo' = lo
    /\ UNCHANGED <<pc, load, text, i, bad_at, line_starts, at, lc>>
Found ==
    /\ pc = "search" /\ lo >= hi
    /\ lc' = [line |-> lo + 1, col |-> 1 + Characters(line_starts[lo + 1], Offset)]
    /\ pc' = "found" /\ UNCHANGED <<load, text, i, bad_at, line_starts, at, lo, hi>>
Return ==
    /\ pc = "found"
    /\ pc' = "loaded" /\ at' = NoSpan /\ lo' = 0 /\ hi' = 0 /\ lc' = NoPosition
    /\ UNCHANGED <<load, text, i, bad_at, line_starts>>

-----------------------------------------------------------------------------
(* source_line_start and source_line; the terminator is not part of a line.  *)

source_line_start(line) ==
    IF line = 0 \/ line > Len(line_starts) THEN Size ELSE line_starts[line]

LineEnd(line) == IF line = Len(line_starts) THEN Size ELSE line_starts[line + 1]
source_line(line) ==
    IF line = 0 \/ line > Len(line_starts) THEN <<>>
    ELSE LET start == line_starts[line]
             end == CHOOSE e \in start .. LineEnd(line) :
                      /\ e = start \/ Byte(text, e - 1) \notin {NL, CR}
                      /\ \A j \in e .. LineEnd(line) - 1 : Byte(text, j) \in {NL, CR}
         IN SubSeq(text, start + 1, end)

(* The column after the first k bytes of a line: as display_col counts it,   *)
(* by characters, and as write_expanded pads it, by bytes.                   *)
Pad(col) == TabWidth - (col % TabWidth)
Columns(line, k, Wide(_)) ==
    LET column[j \in 0 .. k] ==
          IF j = 0 THEN 0
          ELSE LET col == column[j - 1] IN
               IF line[j] = TAB THEN col + Pad(col)
               ELSE col + IF Wide(line[j]) THEN 1 ELSE 0
    IN column[k]

(* Fault: bytes are counted, not characters. *)
display_bytes(line, k) == Columns(line, Smaller(k, Len(line)), LAMBDA c : TRUE)
display_col(line, k) == Columns(line, Smaller(k, Len(line)), LAMBDA c : ~ Continues(c))

(* How many cells write_expanded puts before byte k: the padding is computed *)
(* from bytes, and a terminal shows a character in one cell.                 *)
Cells(line, k) ==
    LET bytes(j) == Columns(line, j, LAMBDA c : TRUE)
        cell[j \in 0 .. k] ==
          IF j = 0 THEN 0
          ELSE cell[j - 1] + CASE line[j] = TAB -> Pad(bytes(j - 1))
                               [] Continues(line[j]) -> 0
                               [] OTHER -> 1
    IN cell[k]

(* render_snippet: the first caret and how many there are.                   *)
Shown == source_line(lc.line)
ShownStart == source_line_start(lc.line)
caret_start == display_col(Shown, at.start - ShownStart)
SpanEnd == Smaller(IF at.end > at.start THEN at.end ELSE at.start + 1, ShownStart + Len(Shown))
caret_end == display_col(Shown, IF SpanEnd > ShownStart THEN SpanEnd - ShownStart ELSE 0)
caret_len == IF caret_end > caret_start THEN caret_end - caret_start ELSE 1

-----------------------------------------------------------------------------

Init ==
    /\ file \in Files /\ sink \in BOOLEAN
    /\ \/ pc = "open" /\ text = <<>>
       \/ pc = "check" /\ text = file
    /\ i = 0 /\ bad_at = -1 /\ line_starts = <<>> /\ reported = <<>>
    /\ at = NoSpan /\ lo = 0 /\ hi = 0 /\ lc = NoPosition

Load ==
    \/ Open \/ CannotOpen \/ Read \/ ReadFails \/ OutOfMemory
    \/ TooLarge \/ NulByte \/ StartScan \/ ScanCharacter \/ InvalidUtf8 \/ ScanEnds
    \/ Copy \/ CountLines \/ IndexByte \/ IndexEnds
Search == Halve \/ Found
Next == Load \/ StartLookup \/ Search \/ Return

Spec == Init /\ [][Next]_vars /\ WF_vars(Load) /\ WF_vars(Search)

-----------------------------------------------------------------------------
(* Properties.                                                               *)

(* The well-formed sequences of table 3-7 of the Unicode standard.           *)
Tail80 == \h80 .. \hBF
WellFormedCharacter(s) ==
    \/ Len(s) = 1 /\ s[1] \in 0 .. \h7F
    \/ Len(s) = 2 /\ s[1] \in \hC2 .. \hDF /\ s[2] \in Tail80
    \/ /\ Len(s) = 3 /\ s[3] \in Tail80
       /\ \/ s[1] = \hE0 /\ s[2] \in \hA0 .. \hBF
          \/ s[1] \in (\hE1 .. \hEC) \cup {\hEE, \hEF} /\ s[2] \in Tail80
          \/ s[1] = \hED /\ s[2] \in \h80 .. \h9F
    \/ /\ Len(s) = 4 /\ s[3] \in Tail80 /\ s[4] \in Tail80
       /\ \/ s[1] = \hF0 /\ s[2] \in \h90 .. \hBF
          \/ s[1] \in \hF1 .. \hF3 /\ s[2] \in Tail80
          \/ s[1] = \hF4 /\ s[2] \in \h80 .. \h8F

(* How many bytes at the beginning of s are well-formed characters.          *)
WellFormedLength(s) ==
    LET from[j \in 0 .. Len(s)] ==
          LET ends == {k \in 1 .. 4 : j + k <= Len(s) /\ WellFormedCharacter(SubSeq(s, j + 1, j + k))}
          IN IF ends = {} THEN j ELSE from[j + CHOOSE k \in ends : TRUE]
    IN from[0]

HasLoaded == pc \in {"loaded", "search", "found"}

(* What loads is the whole file, within the limit, free of NUL and           *)
(* well-formed by the Unicode table: a caller never sees a part of a source  *)
(* (source.h:6-8), whether a file ends within a chunk, at the end of one or  *)
(* past the limit.                                                           *)
LoadsWholeAndValid ==
    HasLoaded => /\ text = file /\ Len(file) <= MaxBytes
                 /\ WellFormedLength(file) = Len(file)
                 /\ \A j \in DOMAIN file : file[j] # 0

(* The byte a diagnostic names lies in the first character that is not       *)
(* well-formed: it is where it begins, or where it breaks off.               *)
BadByteIsLocated ==
    bad_at # -1 =>
        LET good == WellFormedLength(text) IN
        \/ bad_at = good
        \/ /\ bad_at \in good + 1 .. good + 3 /\ ~ Continues(Byte(text, bad_at))
           /\ \A j \in good + 1 .. bad_at - 1 : Continues(Byte(text, j))

(* What is refused is refused for what is wrong with it, once: the code      *)
(* agrees with the file, and where there is a sink a load that returns NULL  *)
(* without a report has run out of memory.                                   *)
Fault ==
    [SOURCE_TOO_LARGE |-> Len(file) > MaxBytes,
     SOURCE_NUL_BYTE |-> Len(file) <= MaxBytes /\ \E j \in DOMAIN file : file[j] = 0,
     INVALID_UTF8 |-> WellFormedLength(file) < Len(file),
     CANNOT_READ_FILE |-> Size <= MaxBytes]
RefusedForItsFault ==
    /\ Len(reported) <= 1
    /\ reported # <<>> => pc = "null" /\ sink /\ Fault[reported[1]]
    /\ pc = "null" /\ sink => reported # <<>>
    /\ BadByteIsLocated

(* The index never runs past what was counted for it (source.c:92), and the  *)
(* lines make up the text: each is not empty (but the only one of an empty   *)
(* text), and has a newline at its end and nowhere else.                     *)
LinesMakeTheText ==
    /\ pc # "abort"
    /\ HasLoaded =>
        \A l \in DOMAIN line_starts :
            LET start == line_starts[l] end == LineEnd(l) IN
            /\ start < end \/ text = <<>>
            /\ \A j \in start .. end - 2 : Byte(text, j) # NL
            /\ l < Len(line_starts) => Byte(text, end - 1) = NL

(* A position is the number of newlines and of characters before it, by a    *)
(* count from the beginning of the text.                                     *)
PositionIsRight ==
    pc = "found" =>
        LET breaks == {j \in 0 .. Offset - 1 : BeginsLine(j)}
            last == IF breaks = {} THEN 0 ELSE 1 + CHOOSE j \in breaks : \A o \in breaks : o <= j
            leads == {j \in last .. Offset - 1 : Byte(text, j) \notin Tail80}
        IN lc = [line |-> 1 + Cardinality(breaks), col |-> 1 + Cardinality(leads)]

(* The carets stand below the bytes of the span: "so the caret below it      *)
(* lines up" (diag.c:217).  It holds where no tab follows a character of     *)
(* several bytes, which is where bytes and characters are counted alike.     *)
TabAfterWide(line, k) ==
    \E j \in 1 .. k : line[j] = TAB /\ \E before \in 1 .. j - 1 : Continues(line[before])
CaretsLineUp ==
    pc = "found" =>
        LET first == Smaller(at.start - ShownStart, Len(Shown))
            last == IF SpanEnd > ShownStart THEN SpanEnd - ShownStart ELSE 0
        IN ~ TabAfterWide(Shown, IF last > first THEN last ELSE first) =>
             /\ caret_start = Cells(Shown, first)
             /\ caret_len = 1 \/ caret_start + caret_len = Cells(Shown, last)

(* Every load ends, and every lookup ends: the interval shrinks.             *)
EveryCallReturns == /\ <>(pc \in {"loaded", "null", "no_memory"})
                    /\ pc = "search" ~> pc = "found"
=============================================================================
