---------------------------- MODULE FmtRunProofs ----------------------------
(* What `doot fmt` keeps for every tree, every limit of the sink and every   *)
(* number of faults, and whatever the printer gives for a text that is not   *)
(* canonical: its types, that a file which does not parse is overwritten     *)
(* only after the sink has overflowed, what the exit status tells, and that  *)
(* the report is true and in order.                                          *)
EXTENDS FmtRun, FiniteSetTheorems, SequenceTheorems, TLAPS

(* The loops left to do always include the one over argv, which only gets    *)
(* shorter; inside fmt_file the path is a file.                              *)
LoopInv ==
    /\ frames # <<>>
    /\ Len(frames[1]) <= Len(Args)
    /\ pc \in {"read", "parse", "write"} => file \in Files

(* The texts that do not parse. *)
Bad == {"broken", "damaged"}

(* Between the reading of a file and the decision about it, what was read is *)
(* still what the disk holds, and every diagnostic a bad text has drawn      *)
(* either moved the error count or was dropped by a full sink.               *)
FileInv ==
    /\ pc \in {"read", "parse"} => diag_error_count(sink) >= before
    /\ pc = "read" => diag_error_count(sink) = before
    /\ pc \in {"parse", "write"} => text[file] = got
    /\ pc = "parse" /\ got \in Bad =>
          faults > 0 \/ diag_error_count(sink) # before \/ sink.truncated
    /\ pc = "parse" /\ got \notin Bad => faults = 0 /\ diag_error_count(sink) = before
    /\ pc = "write" => got # "canon" /\ (got \in Bad => sink.truncated)

IInv == TypeOK /\ LoopInv /\ FileInv

-----------------------------------------------------------------------------
(* The helpers.                                                              *)

LEMMA ButLastType ==
    ASSUME NEW S, NEW s \in Seq(S), s # <<>>, Len(s) # 1
    PROVE  LET r == SubSeq(s, 1, Len(s) - 1)
           IN  r \in Seq(S) /\ r # <<>> /\ r[1] = s[1]
<1>. DEFINE n == Len(s) - 1
            r == SubSeq(s, 1, n)
<1>1. n \in Nat \ {0} /\ \A i \in 1 .. n : s[i] \in S
  OBVIOUS
<1>. HIDE DEF n
<1>2. /\ r \in Seq(S)
      /\ Len(r) = IF 1 <= n THEN n - 1 + 1 ELSE 0
      /\ \A i \in 1 .. n - 1 + 1 : r[i] = s[1 + i - 1]
  BY <1>1, SubSeqProperties
<1>. HIDE DEF r
<1>3. r[1] = s[1]
  <2>1. 1 \in 1 .. n - 1 + 1 /\ 1 + 1 - 1 = 1
    BY <1>1
  <2>2. r[1] = s[1 + 1 - 1]
    BY <1>2, <2>1
  <2>. QED
    BY <2>1, <2>2
<1>4. Len(r) # 0
  BY <1>1, <1>2
<1>. QED
  BY <1>2, <1>3, <1>4 DEF r, n

LEMMA InsertSortedType ==
    ASSUME NEW s \in Seq(Nodes), NEW e \in Nodes
    PROVE  InsertSorted(s, e) \in Seq(Nodes)
<1>. DEFINE S == {i \in DOMAIN s : s[i] < e}
            k == Cardinality(S)
<1>1. Len(s) \in Nat /\ DOMAIN s = 1 .. Len(s)
  OBVIOUS
<1>2. IsFiniteSet(DOMAIN s) /\ Cardinality(DOMAIN s) = Len(s)
  BY <1>1, FS_Interval
<1>3. k \in Nat /\ k <= Len(s)
  BY <1>2, FS_Subset, FS_CardinalityType
<1>. HIDE DEF k
<1>4. SubSeq(s, 1, k) \in Seq(Nodes) /\ SubSeq(s, k + 1, Len(s)) \in Seq(Nodes)
  BY <1>1, <1>3
<1>5. <<e>> \in Seq(Nodes)
  OBVIOUS
<1>6. InsertSorted(s, e) = SubSeq(s, 1, k) \o <<e>> \o SubSeq(s, k + 1, Len(s))
  BY DEF InsertSorted, k
<1>. QED
  BY <1>4, <1>5, <1>6

LEMMA ReportType ==
    ASSUME NEW s \in SinkOf(Nodes), NEW c \in Codes, NEW n \in Nodes
    PROVE  diag_report(s, c, n) \in SinkOf(Nodes)
<1>. DEFINE D == [code : Codes, about : Nodes]
<1>1. s.list \in Seq(D) /\ s.errors \in Nat /\ s.truncated \in BOOLEAN
  BY DEF SinkOf
<1>2. [code |-> c, about |-> n] \in D
  OBVIOUS
<1>. HIDE DEF D
<1>3. Append(s.list, [code |-> c, about |-> n]) \in Seq(D) /\ s.errors + 1 \in Nat
  BY <1>1, <1>2
<1>4. CASE Len(s.list) >= DiagLimit
  BY <1>1, <1>4 DEF SinkOf, diag_report, D
<1>5. CASE ~ (Len(s.list) >= DiagLimit)
  BY <1>3, <1>5 DEF SinkOf, diag_report, D
<1>. QED
  BY <1>4, <1>5

(* A report moves the error count up, or finds the sink full. *)
LEMMA ReportCounts ==
    ASSUME NEW s \in SinkOf(Nodes), NEW c \in Codes, NEW n \in Nodes
    PROVE  LET r == diag_report(s, c, n)
           IN  /\ r.errors >= s.errors
               /\ s.truncated => r.truncated
               /\ r.errors > s.errors \/ r.truncated
<1>. DEFINE r == diag_report(s, c, n)
<1>1. s.errors \in Nat
  BY DEF SinkOf
<1>2. CASE Len(s.list) >= DiagLimit
  <2>1. r.errors = s.errors /\ r.truncated = TRUE
    BY <1>2 DEF SinkOf, diag_report
  <2>. QED
    BY <1>1, <2>1
<1>3. CASE ~ (Len(s.list) >= DiagLimit)
  <2>1. r.errors = s.errors + 1 /\ r.truncated = s.truncated
    BY <1>3 DEF SinkOf, diag_report
  <2>. QED
    BY <1>1, <2>1
<1>. QED
  BY <1>2, <1>3

LEMMA VisitedType ==
    ASSUME visits \in Seq([path : Nodes, arg : Nat, ended : Outcomes]),
           NEW n \in Nodes, NEW o \in Outcomes,
           NEW fr \in Seq(Seq(Nodes)), fr # <<>>, Len(fr[1]) <= Len(Args)
    PROVE  Visited(n, o, fr) \in Seq([path : Nodes, arg : Nat, ended : Outcomes])
<1>1. Len(Args) \in Nat /\ Len(fr[1]) \in Nat
  BY TreeAssumption
<1>. QED
  BY <1>1 DEF Visited

(* What the loop over the current entries leaves when it takes the first. *)
LEMMA AfterTopType ==
    ASSUME frames \in Seq(Seq(Nodes)), LoopInv, Top # <<>>
    PROVE  /\ Head(Top) \in Nodes
           /\ AfterTop \in Seq(Seq(Nodes))
           /\ AfterTop # <<>>
           /\ Len(AfterTop[1]) <= Len(Args)
<1>1. Len(frames) \in Nat \ {0} /\ Len(frames) \in DOMAIN frames
  BY DEF LoopInv
<1>2. Top \in Seq(Nodes) /\ Top # <<>>
  BY <1>1 DEF Top
<1>3. Head(Top) \in Nodes /\ Tail(Top) \in Seq(Nodes) /\ Len(Tail(Top)) = Len(Top) - 1
  BY <1>2
<1>4. AfterTop \in Seq(Seq(Nodes)) /\ Len(AfterTop) = Len(frames)
  BY <1>1, <1>3 DEF AfterTop, Top
<1>5. AfterTop[1] = IF Len(frames) = 1 THEN Tail(Top) ELSE frames[1]
  BY <1>1 DEF AfterTop, Top
<1>6. Len(AfterTop[1]) <= Len(Args)
  <2>1. Len(Top) \in Nat /\ Len(Args) \in Nat
    BY <1>2, TreeAssumption
  <2>2. Len(frames) = 1 => Top = frames[1]
    BY DEF Top
  <2>. QED
    BY <1>3, <1>5, <2>1, <2>2 DEF LoopInv
<1>. QED
  BY <1>1, <1>3, <1>4, <1>6

-----------------------------------------------------------------------------
(* Types, and the loops.                                                     *)

LEMMA InitSinkType == diag_sink_init \in SinkOf(Nodes)
BY DEF diag_sink_init, SinkOf

LEMMA TypeInit == Init => TypeOK /\ LoopInv
<1>. SUFFICES ASSUME Init
              PROVE  TypeOK /\ LoopInv
  OBVIOUS
<1>. USE TreeAssumption, FmtBoundsAssumption
<1>1. <<Args>> \in Seq(Seq(Nodes)) /\ <<Args>> # <<>> /\ <<Args>>[1] = Args
  OBVIOUS
<1>2. Len(Args) \in Nat
  OBVIOUS
<1>3. sink \in SinkOf(Nodes)
  BY InitSinkType DEF Init
<1>4. text \in [Files -> Texts] /\ got \in Texts
  BY DEF Init, Texts
<1>. QED
  BY <1>1, <1>2, <1>3, <1>4 DEF Init, TypeOK, LoopInv, Working

(* The steps of fmt_path. *)
LEMMA WalkType ==
    ASSUME TypeOK, LoopInv,
           EnterDir \/ DirFails \/ ListEntry \/ ListDone \/ PassOver \/ ReturnDir \/ EnterFile
    PROVE  TypeOK' /\ LoopInv'
<1>. USE TreeAssumption
<1>1. Files \subseteq Nodes /\ "cannot_read_dir" \in Codes /\ {"unread", "listed"} \subseteq Outcomes
  BY DEF Files, Codes, Outcomes
<1>2. ASSUME AtEntry
      PROVE  /\ Head(Top) \in Nodes
             /\ AfterTop \in Seq(Seq(Nodes))
             /\ AfterTop # <<>>
             /\ Len(AfterTop[1]) <= Len(Args)
  BY <1>2, AfterTopType DEF AtEntry, TypeOK
<1>3. CASE EnterDir
  <2>1. AtEntry /\ Head(Top) \in Dirs /\ visits' = Visited(Head(Top), "listed", AfterTop)
    BY <1>3 DEF EnterDir
  <2>2. visits' \in Seq([path : Nodes, arg : Nat, ended : Outcomes])
    BY <1>1, <1>2, <2>1, VisitedType DEF TypeOK
  <2>3. unread' \in SUBSET Nodes /\ listing' \in Seq(Nodes)
    <3>1. Kids[Head(Top)] \in SUBSET Nodes
      BY <2>1
    <3>2. unread' = Kids[Head(Top)] /\ listing' = <<>>
      BY <1>3 DEF EnterDir
    <3>. QED
      BY <3>1, <3>2
  <2>. QED
    BY <1>2, <1>3, <2>1, <2>2, <2>3 DEF EnterDir, TypeOK, LoopInv, Working
<1>4. CASE DirFails
  <2>1. AtEntry /\ visits' = Visited(Head(Top), "unread", AfterTop)
    BY <1>4 DEF DirFails
  <2>2. visits' \in Seq([path : Nodes, arg : Nat, ended : Outcomes])
    BY <1>1, <1>2, <2>1, VisitedType DEF TypeOK
  <2>3. sink' \in SinkOf(Nodes)
    BY <1>1, <1>2, <1>4, <2>1, ReportType DEF DirFails, TypeOK
  <2>. QED
    BY <1>2, <1>4, <2>1, <2>2, <2>3 DEF DirFails, TypeOK, LoopInv, Working
<1>5. CASE ListEntry
  <2>1. PICK e \in unread :
           /\ unread' = unread \ {e}
           /\ listing' = IF e \in Dot THEN listing ELSE InsertSorted(listing, e)
    BY <1>5 DEF ListEntry
  <2>2. e \in Nodes /\ unread' \in SUBSET Nodes
    BY <2>1 DEF TypeOK
  <2>3. listing' \in Seq(Nodes)
    BY <2>1, <2>2, InsertSortedType DEF TypeOK
  <2>. QED
    BY <1>5, <2>2, <2>3 DEF ListEntry, TypeOK, LoopInv
<1>6. CASE ListDone
  <2>1. frames' \in Seq(Seq(Nodes)) /\ frames' # <<>> /\ frames'[1] = frames[1]
    BY <1>6 DEF ListDone, TypeOK, LoopInv
  <2>. QED
    BY <1>6, <2>1 DEF ListDone, TypeOK, LoopInv, Working
<1>7. CASE PassOver
  BY <1>2, <1>7 DEF PassOver, TypeOK, LoopInv
<1>8. CASE ReturnDir
  <2>1. CASE Len(frames) = 1
    BY <1>8, <2>1 DEF ReturnDir, TypeOK, LoopInv
  <2>2. CASE Len(frames) # 1
    <3>1. frames' = SubSeq(frames, 1, Len(frames) - 1)
      BY <1>8, <2>2 DEF ReturnDir
    <3>2. frames' \in Seq(Seq(Nodes)) /\ frames' # <<>> /\ frames'[1] = frames[1]
      BY <2>2, <3>1, ButLastType DEF TypeOK, LoopInv
    <3>. QED
      BY <1>8, <2>2, <3>2 DEF ReturnDir, TypeOK, LoopInv
  <2>. QED
    BY <2>1, <2>2
<1>9. CASE EnterFile
  <2>1. diag_error_count(sink) \in Nat
    BY DEF TypeOK, SinkOf, diag_error_count
  <2>2. AtEntry /\ Head(Top) \in Files
    BY <1>9 DEF EnterFile
  <2>. QED
    BY <1>2, <1>9, <2>1, <2>2 DEF EnterFile, TypeOK, LoopInv, Working
<1>. QED
  BY <1>3, <1>4, <1>5, <1>6, <1>7, <1>8, <1>9

(* The steps of fmt_file. *)
LEMMA FileType ==
    ASSUME TypeOK, LoopInv,
           \/ ReadFile \/ ReadFails \/ ParseReports
           \/ SkipUnparsed \/ AlreadyClean \/ StartWrite \/ WriteFile \/ WriteFails
    PROVE  TypeOK' /\ LoopInv'
<1>. USE TreeAssumption
<1>1. Files \subseteq Nodes /\ {"syntax", "cannot_read_file", "cannot_write_file"} \subseteq Codes
  BY DEF Files, Codes
<1>2. \A o \in {"changed", "clean", "skipped", "unread"} : o \in Outcomes
  BY DEF Outcomes
<1>3. file \in Files
  BY DEF LoopInv, ReadFile, ReadFails, ParseReports, Parsed, SkipUnparsed, AlreadyClean,
         StartWrite, WriteFile, WriteFails
<1>4. ASSUME NEW o \in {"changed", "clean", "skipped", "unread"}
      PROVE  Visited(file, o, frames) \in Seq([path : Nodes, arg : Nat, ended : Outcomes])
  BY <1>1, <1>2, <1>3, VisitedType DEF TypeOK, LoopInv
<1>5. ASSUME NEW c \in {"syntax", "cannot_read_file", "cannot_write_file"}
      PROVE  diag_report(sink, c, file) \in SinkOf(Nodes)
  BY <1>1, <1>3, ReportType DEF TypeOK
<1>6. CASE ReadFile
  <2>1. text[file] \in Texts
    BY <1>3 DEF TypeOK
  <2>2. FaultsOf(text[file]) \subseteq 0 .. MaxFaults
    BY FmtBoundsAssumption DEF FaultsOf
  <2>. QED
    BY <1>3, <1>6, <2>1, <2>2 DEF ReadFile, TypeOK, LoopInv, Working
<1>7. CASE ReadFails
  BY <1>4, <1>5, <1>7 DEF ReadFails, TypeOK, LoopInv, Working
<1>8. CASE ParseReports
  <2>1. faults - 1 \in 0 .. MaxFaults
    BY <1>8, FmtBoundsAssumption DEF ParseReports, TypeOK
  <2>. QED
    BY <1>5, <1>8, <2>1 DEF ParseReports, TypeOK, LoopInv
<1>9. CASE SkipUnparsed
  BY <1>4, <1>9 DEF SkipUnparsed, TypeOK, LoopInv, Working
<1>10. CASE AlreadyClean
  BY <1>4, <1>10 DEF AlreadyClean, TypeOK, LoopInv, Working
<1>11. CASE StartWrite
  BY <1>3, <1>11 DEF StartWrite, TypeOK, LoopInv, Working
<1>12. CASE WriteFile
  <2>1. Formatted(got) \subseteq Texts
    BY DEF Formatted, Texts
  <2>2. text' \in [Files -> Texts]
    BY <1>12, <2>1 DEF WriteFile, TypeOK
  <2>. QED
    BY <1>4, <1>12, <2>2 DEF WriteFile, TypeOK, LoopInv, Working
<1>13. CASE WriteFails
  BY <1>4, <1>5, <1>13 DEF WriteFails, TypeOK, LoopInv, Working
<1>. QED
  BY <1>6, <1>7, <1>8, <1>9, <1>10, <1>11, <1>12, <1>13

LEMMA TypeNext ==
    ASSUME TypeOK, LoopInv, [Next]_vars
    PROVE  TypeOK' /\ LoopInv'
<1>1. CASE UNCHANGED vars
  BY <1>1 DEF vars, run, TypeOK, LoopInv
<1>2. CASE Step
  BY <1>2, WalkType, FileType DEF Step
<1>3. CASE Kill
  <2>1. Formatted(got) \subseteq Texts
    BY DEF Formatted, Texts
  <2>2. text' \in [Files -> Texts]
    BY <1>3, <2>1 DEF Kill, TypeOK
  <2>. QED
    BY <1>3, <2>2 DEF Kill, TypeOK, LoopInv
<1>4. CASE RunAgain
  <2>1. <<Args>> \in Seq(Seq(Nodes)) /\ <<Args>> # <<>> /\ <<Args>>[1] = Args /\ Len(Args) \in Nat
    BY TreeAssumption
  <2>2. sink' \in SinkOf(Nodes)
    BY <1>4, InitSinkType DEF RunAgain
  <2>3. "canon" \in Texts /\ 0 \in 0 .. MaxFaults
    BY FmtBoundsAssumption DEF Texts
  <2>4. /\ text' = text /\ started' = text /\ runs' = runs + 1 /\ pc' = "walk"
        /\ frames' = <<Args>> /\ unread' = {} /\ listing' = <<>> /\ file' = NoFile
        /\ before' = 0 /\ got' = "canon" /\ faults' = 0 /\ visits' = <<>>
    BY <1>4 DEF RunAgain
  <2>5. TypeOK'
    BY <2>1, <2>2, <2>3, <2>4 DEF TypeOK, Working
  <2>6. LoopInv'
    BY <2>1, <2>4 DEF LoopInv
  <2>. QED
    BY <2>5, <2>6
<1>. QED
  BY <1>1, <1>2, <1>3, <1>4 DEF Next

(* Type correctness of the whole command. *)
THEOREM TypeCorrect == Spec => []TypeOK
<1>1. TypeOK /\ LoopInv /\ [Next]_vars => TypeOK' /\ LoopInv'
  BY TypeNext
<1>. QED
  BY <1>1, TypeInit, PTL DEF Spec

-----------------------------------------------------------------------------
(* The decision about a file that did not parse.                             *)

LEMMA FileInvInit == Init => FileInv
BY DEF Init, FileInv

LEMMA FileInvNext ==
    ASSUME IInv, TypeOK', [Next]_vars
    PROVE  FileInv'
<1>. USE DEF FileInv, IInv
<1>0. /\ sink \in SinkOf(Nodes)
      /\ sink.errors \in Nat /\ before \in Nat
      /\ diag_error_count(sink) = sink.errors /\ diag_error_count(sink') = sink'.errors
  BY DEF TypeOK, SinkOf, diag_error_count
<1>1. CASE UNCHANGED vars
  BY <1>1 DEF vars, run
<1>2. CASE EnterDir \/ DirFails \/ ListEntry \/ ListDone \/ PassOver \/ ReturnDir
  BY <1>2 DEF EnterDir, DirFails, ListEntry, ListDone, PassOver, ReturnDir, AtEntry
<1>3. CASE EnterFile
  BY <1>0, <1>3 DEF EnterFile
<1>4. CASE ReadFile
  <2>1. (got' \in Bad => faults' > 0) /\ (got' \notin Bad => faults' = 0)
    BY <1>4 DEF ReadFile, FaultsOf, Bad
  <2>. QED
    BY <1>4, <2>1 DEF ReadFile
<1>5. CASE ParseReports
  <2>1. sink' = diag_report(sink, "syntax", file) /\ file \in Nodes /\ "syntax" \in Codes
    BY <1>5 DEF ParseReports, LoopInv, Files, Codes
  <2>2. sink'.errors \in Nat
    BY DEF TypeOK, SinkOf
  <2>3. /\ sink'.errors >= sink.errors
        /\ sink'.errors > sink.errors \/ sink'.truncated
    BY <1>0, <2>1, ReportCounts
  <2>4. sink.errors >= before /\ before' = before /\ pc' = pc /\ pc = "parse"
        /\ text' = text /\ file' = file /\ got' = got /\ text[file] = got
    BY <1>0, <1>5 DEF ParseReports
  <2>5. sink'.errors >= before' /\ (sink'.errors # before' \/ sink'.truncated)
    BY <1>0, <2>2, <2>3, <2>4
  <2>6. got \in Bad
    BY <1>5 DEF ParseReports, TypeOK
  <2>. QED
    BY <1>0, <2>4, <2>5, <2>6
<1>6. CASE StartWrite
  BY <1>6 DEF StartWrite, Parsed, TypeOK
<1>7. CASE ReadFails \/ SkipUnparsed \/ AlreadyClean \/ WriteFile \/ WriteFails
  BY <1>7 DEF ReadFails, SkipUnparsed, AlreadyClean, WriteFile, WriteFails
<1>8. CASE Kill \/ RunAgain
  BY <1>8 DEF Kill, RunAgain
<1>. QED
  BY <1>1, <1>2, <1>3, <1>4, <1>5, <1>6, <1>7, <1>8 DEF Next, Step

LEMMA IInvNext == IInv /\ [Next]_vars => IInv'
BY TypeNext, FileInvNext DEF IInv

(* Only the writing of a file changes the disk, and what is written over a   *)
(* broken text was decided with a full sink.                                 *)
LEMMA RewriteStep ==
    ASSUME IInv, [Next]_vars, NEW n \in Files, text[n] = "broken", text'[n] # "broken"
    PROVE  sink.truncated
<1>1. text' # text
  OBVIOUS
<1>2. pc = "write" /\ \E t \in Formatted(got) : text' = [text EXCEPT ![file] = t]
  BY <1>1
  DEF Next, Step, vars, Kill, RunAgain, EnterDir, DirFails, ListEntry, ListDone, PassOver,
      ReturnDir, EnterFile, ReadFile, ReadFails, ParseReports, SkipUnparsed, AlreadyClean,
      StartWrite, WriteFile, WriteFails
<1>3. n = file
  BY <1>2 DEF IInv, TypeOK
<1>. QED
  BY <1>2, <1>3 DEF IInv, FileInv, Bad

(* A file that does not parse is overwritten only after the sink has         *)
(* overflowed (main.c:107-116 with diag.c:84-87): the check of the error     *)
(* count is sound exactly as far as the sink counts.                         *)
THEOREM RewriteNeedsFullSink == Spec => BrokenRewrittenOnlyWhenFull
<1>1. IInv /\ [Next]_vars =>
          [\A n \in Files : text[n] = "broken" /\ text'[n] # "broken" => sink.truncated]_vars
  BY RewriteStep
<1>2. Init => IInv
  BY TypeInit, FileInvInit DEF IInv
<1>. QED
  BY <1>1, <1>2, IInvNext, PTL DEF Spec, BrokenRewrittenOnlyWhenFull

-----------------------------------------------------------------------------
(* What is still to be visited.                                              *)

In(s) == {s[i] : i \in DOMAIN s}

(* The entries of the loops left to do.                                      *)
Pending(fr) == UNION {In(fr[i]) : i \in DOMAIN fr}

(* A file n that a run is to format is an argument not taken yet, or below   *)
(* an entry that is left or is being listed, or is the file f at hand.       *)
AheadOf(fr, coming, f, n) ==
    \/ n \in In(fr[1])
    \/ n \in DoExt /\ \E s \in Pending(fr) \cup coming : n \in Below(s)
    \/ n = f

Coming == IF pc = "list" THEN In(listing) \cup (unread \ Dot) ELSE {}
InFile == pc \in {"read", "parse", "write"}
Ahead(n) == AheadOf(frames, Coming, IF InFile THEN file ELSE NoFile, n)

LEMMA BelowClosed ==
    ASSUME NEW n \in Nodes
    PROVE  /\ n \in Below(n) /\ Below(n) \subseteq Nodes
           /\ \A d \in Below(n) \cap Dirs : Kids[d] \ Dot \subseteq Below(n)
<1>1. n \in Below(n) /\ Below(n) \subseteq Nodes
  BY DEF Below
<1>2. ASSUME NEW d \in Below(n) \cap Dirs, NEW k \in Kids[d] \ Dot
      PROVE  k \in Below(n)
  <2>1. k \in Nodes
    BY TreeAssumption
  <2>2. ASSUME NEW S \in SUBSET Nodes, n \in S, \A e \in S \cap Dirs : Kids[e] \ Dot \subseteq S
        PROVE  k \in S
    <3>1. d \in S
      BY <2>2 DEF Below
    <3> QED BY <2>2, <3>1
  <2> QED BY <2>1, <2>2 DEF Below
<1> QED BY <1>1, <1>2

(* What is below a path is itself or below one of its entries.               *)
LEMMA BelowStep ==
    ASSUME NEW n \in Nodes, NEW m \in Below(n)
    PROVE  m = n \/ (n \in Dirs /\ \E k \in Kids[n] \ Dot : m \in Below(k))
<1> DEFINE S == {n} \cup {x \in Nodes : n \in Dirs /\ \E k \in Kids[n] \ Dot : x \in Below(k)}
<1>1. S \in SUBSET Nodes /\ n \in S
  OBVIOUS
<1>2. ASSUME NEW d \in S \cap Dirs, NEW x \in Kids[d] \ Dot PROVE x \in S
  <2>1. x \in Nodes
    BY TreeAssumption
  <2>2. CASE d = n
    BY <2>1, <2>2, BelowClosed
  <2>3. CASE d # n
    <3>1. PICK k \in Kids[n] \ Dot : d \in Below(k)
      BY <2>3
    <3>2. n \in Dirs /\ k \in Nodes
      BY <2>3, TreeAssumption
    <3>3. x \in Below(k)
      BY <3>1, <3>2, BelowClosed
    <3> QED BY <2>1, <3>1, <3>2, <3>3
  <2> QED BY <2>2, <2>3
<1>3. m \in S
  <2> HIDE DEF S
  <2> QED BY <1>1, <1>2 DEF Below
<1> QED BY <1>3

LEMMA FirstAndRest ==
    ASSUME NEW s \in Seq(Nodes), s # <<>>
    PROVE  In(s) = {Head(s)} \cup In(Tail(s))
<1>1. Len(s) \in Nat \ {0} /\ DOMAIN s = 1 .. Len(s) /\ Head(s) = s[1]
  OBVIOUS
<1>2. DOMAIN Tail(s) = 1 .. Len(s) - 1 /\ \A i \in 1 .. Len(s) - 1 : Tail(s)[i] = s[i + 1]
  BY <1>1
<1>3. ASSUME NEW x \in In(s) PROVE x \in {Head(s)} \cup In(Tail(s))
  <2>1. PICK i \in 1 .. Len(s) : x = s[i]
    BY <1>1 DEF In
  <2>2. CASE i = 1
    BY <1>1, <2>1, <2>2
  <2>3. CASE i # 1
    <3>1. i - 1 \in 1 .. Len(s) - 1 /\ (i - 1) + 1 = i
      BY <1>1, <2>1, <2>3
    <3>2. x = Tail(s)[i - 1]
      BY <1>2, <2>1, <3>1
    <3> QED BY <1>2, <3>1, <3>2 DEF In
  <2> QED BY <2>2, <2>3
<1>4. ASSUME NEW x \in In(Tail(s)) PROVE x \in In(s)
  <2>1. PICK i \in 1 .. Len(s) - 1 : x = Tail(s)[i]
    BY <1>2 DEF In
  <2>2. x = s[i + 1] /\ i + 1 \in 1 .. Len(s)
    BY <1>1, <1>2, <2>1
  <2> QED BY <1>1, <2>2 DEF In
<1>5. Head(s) \in In(s)
  BY <1>1 DEF In
<1> QED BY <1>3, <1>4, <1>5

(* The entry at hand is taken off the loops.                                 *)
LEMMA TakenOff ==
    ASSUME frames \in Seq(Seq(Nodes)), frames # <<>>, Top # <<>>
    PROVE  /\ Pending(frames) = {Head(Top)} \cup Pending(AfterTop)
           /\ In(frames[1]) \subseteq {Head(Top)} \cup In(AfterTop[1])
           /\ Len(frames) # 1 => AfterTop[1] = frames[1]
           /\ Len(AfterTop) = Len(frames) /\ AfterTop \in Seq(Seq(Nodes)) /\ Head(Top) \in Nodes
<1> DEFINE n == Len(frames)
           A == AfterTop
           t == Top
<1>1. n \in Nat \ {0} /\ DOMAIN frames = 1 .. n /\ n \in 1 .. n /\ 1 \in 1 .. n
  OBVIOUS
<1>2. t = frames[n] /\ t \in Seq(Nodes) /\ t # <<>>
  BY <1>1 DEF Top
<1>3. Head(t) \in Nodes /\ Tail(t) \in Seq(Nodes) /\ In(t) = {Head(t)} \cup In(Tail(t))
  BY <1>2, FirstAndRest
<1>4. /\ A \in Seq(Seq(Nodes)) /\ Len(A) = n /\ DOMAIN A = 1 .. n
      /\ A[n] = Tail(t)
      /\ \A i \in 1 .. n : i # n => A[i] = frames[i]
  <2>1. A = [frames EXCEPT ![n] = Tail(t)]
    BY <1>2 DEF AfterTop
  <2> HIDE DEF A, t, n
  <2>2. ASSUME NEW fr \in Seq(Seq(Nodes)), NEW i \in 1 .. Len(fr), NEW v \in Seq(Nodes)
        PROVE  LET B == [fr EXCEPT ![i] = v]
               IN  /\ B \in Seq(Seq(Nodes)) /\ Len(B) = Len(fr) /\ DOMAIN B = 1 .. Len(fr)
                   /\ B[i] = v /\ \A j \in 1 .. Len(fr) : j # i => B[j] = fr[j]
    OBVIOUS
  <2>3. n = Len(frames)
    BY DEF n
  <2> QED BY <1>1, <1>3, <2>1, <2>2, <2>3
<1> HIDE DEF A, t, n
<1>5. Pending(frames) = {Head(t)} \cup Pending(A)
  <2>1. ASSUME NEW x \in Pending(frames) PROVE x \in {Head(t)} \cup Pending(A)
    <3>1. PICK i \in 1 .. n : x \in In(frames[i])
      BY <1>1 DEF Pending
    <3>2. CASE i = n
      <4>1. x \in {Head(t)} \cup In(A[n])
        BY <1>2, <1>3, <1>4, <3>1, <3>2
      <4> QED BY <1>1, <1>4, <4>1 DEF Pending
    <3>3. CASE i # n
      BY <1>4, <3>1, <3>3 DEF Pending
    <3> QED BY <3>2, <3>3
  <2>2. ASSUME NEW x \in Pending(A) PROVE x \in Pending(frames)
    <3>1. PICK i \in 1 .. n : x \in In(A[i])
      BY <1>4 DEF Pending
    <3>2. CASE i = n
      BY <1>1, <1>2, <1>3, <1>4, <3>1, <3>2 DEF Pending
    <3>3. CASE i # n
      BY <1>1, <1>4, <3>1, <3>3 DEF Pending
    <3> QED BY <3>2, <3>3
  <2>3. Head(t) \in Pending(frames)
    BY <1>1, <1>2, <1>3 DEF Pending
  <2> QED BY <2>1, <2>2, <2>3
<1>6. n # 1 => A[1] = frames[1]
  BY <1>1, <1>4
<1>7. In(frames[1]) \subseteq {Head(t)} \cup In(A[1])
  BY <1>1, <1>2, <1>3, <1>4
<1> QED BY <1>3, <1>4, <1>5, <1>6, <1>7 DEF A, t, n

LEMMA AheadTaken ==
    ASSUME frames \in Seq(Seq(Nodes)), frames # <<>>, Top # <<>>,
           NEW n \in Files, AheadOf(frames, {}, NoFile, n)
    PROVE  \/ AheadOf(AfterTop, {}, NoFile, n)
           \/ Len(frames) = 1 /\ n = Head(Top)
           \/ n \in DoExt /\ n \in Below(Head(Top))
<1>1. n # NoFile
  BY TreeAssumption DEF Files
<1>2. CASE n \in In(frames[1])
  BY <1>2, TakenOff DEF AheadOf
<1>3. CASE n \in DoExt /\ \E s \in Pending(frames) \cup {} : n \in Below(s)
  BY <1>3, TakenOff DEF AheadOf
<1> QED BY <1>1, <1>2, <1>3 DEF AheadOf

LEMMA PartIs ==
    ASSUME NEW s \in Seq(Nodes), NEW m \in 1 .. Len(s) + 1, NEW n \in 0 .. Len(s), m <= n + 1
    PROVE  LET r == SubSeq(s, m, n)
           IN  r \in Seq(Nodes) /\ Len(r) = n - m + 1 /\ \A i \in 1 .. n - m + 1 : r[i] = s[m + i - 1]
<1>1. m \in Int /\ n \in Int /\ \A i \in m .. n : s[i] \in Nodes
  OBVIOUS
<1>2. m <= n \/ n - m + 1 = 0
  OBVIOUS
<1> QED BY <1>1, <1>2, SubSeqProperties

Between(u, e, v) == u \o <<e>> \o v

LEMMA PutBetween ==
    ASSUME NEW u \in Seq(Nodes), NEW v \in Seq(Nodes), NEW e \in Nodes
    PROVE  LET r == Between(u, e, v)
           IN  /\ DOMAIN r = 1 .. Len(u) + 1 + Len(v)
               /\ r[Len(u) + 1] = e
               /\ \A i \in 1 .. Len(u) : r[i] = u[i]
               /\ \A i \in Len(u) + 2 .. Len(u) + 1 + Len(v) : r[i] = v[i - (Len(u) + 1)]
<1> DEFINE w == u \o <<e>>
           r == w \o v
<1>1. Len(u) \in Nat /\ Len(v) \in Nat
  OBVIOUS
<1>2. /\ w \in Seq(Nodes) /\ Len(w) = Len(u) + 1 /\ w[Len(u) + 1] = e
      /\ \A i \in 1 .. Len(u) : w[i] = u[i]
  BY <1>1
<1> HIDE DEF w
<1>3. r \in Seq(Nodes) /\ Len(r) = Len(w) + Len(v)
      /\ \A i \in 1 .. Len(w) + Len(v) : r[i] = IF i <= Len(w) THEN w[i] ELSE v[i - Len(w)]
  BY <1>2, ConcatProperties
<1> HIDE DEF r
<1>4. DOMAIN r = 1 .. Len(u) + 1 + Len(v)
  BY <1>2, <1>3
<1>5. \A i \in 1 .. Len(u) + 1 : i \in 1 .. Len(w) + Len(v) /\ i <= Len(w)
  BY <1>1, <1>2
<1>6. \A i \in Len(u) + 2 .. Len(u) + 1 + Len(v) : i \in 1 .. Len(w) + Len(v) /\ ~ (i <= Len(w))
  BY <1>1, <1>2
<1>7. Len(u) + 1 \in 1 .. Len(u) + 1 /\ \A i \in 1 .. Len(u) : i \in 1 .. Len(u) + 1
  BY <1>1
<1>8. r = Between(u, e, v)
  BY DEF r, w, Between
<1> QED BY <1>2, <1>3, <1>4, <1>5, <1>6, <1>7, <1>8

(* insert_sorted puts the entry behind the k that compare less.              *)
LEMMA InsertSortedAt ==
    ASSUME NEW s \in Seq(Nodes), NEW e \in Nodes
    PROVE  LET k == Cardinality({i \in DOMAIN s : s[i] < e})
               r == InsertSorted(s, e)
           IN  /\ k \in 0 .. Len(s) /\ DOMAIN r = 1 .. Len(s) + 1 /\ r[k + 1] = e
               /\ \A i \in 1 .. k : r[i] = s[i]
               /\ \A i \in k + 2 .. Len(s) + 1 : r[i] = s[i - 1]
<1> DEFINE S == {i \in DOMAIN s : s[i] < e}
           k == Cardinality(S)
           u == SubSeq(s, 1, k)
           v == SubSeq(s, k + 1, Len(s))
           r == InsertSorted(s, e)
<1>1. Len(s) \in Nat /\ DOMAIN s = 1 .. Len(s)
  OBVIOUS
<1>2. IsFiniteSet(DOMAIN s) /\ Cardinality(DOMAIN s) = Len(s)
  BY <1>1, FS_Interval
<1>3. k \in Nat /\ k <= Len(s) /\ k \in 0 .. Len(s)
  BY <1>1, <1>2, FS_Subset, FS_CardinalityType
<1>4. r = Between(u, e, v)
  BY DEF InsertSorted, Between
<1> HIDE DEF k, r
<1>5. /\ u \in Seq(Nodes) /\ Len(u) = k /\ \A i \in 1 .. k : u[i] = s[i]
      /\ v \in Seq(Nodes) /\ Len(v) = Len(s) - k /\ \A i \in 1 .. Len(s) - k : v[i] = s[k + i]
  <2>1. 1 \in 1 .. Len(s) + 1 /\ 1 <= k + 1 /\ k + 1 \in 1 .. Len(s) + 1 /\ Len(s) \in 0 .. Len(s)
        /\ k + 1 <= Len(s) + 1
    BY <1>1, <1>3
  <2>2. /\ u \in Seq(Nodes) /\ Len(u) = k - 1 + 1 /\ \A i \in 1 .. k - 1 + 1 : u[i] = s[1 + i - 1]
    BY <1>3, <2>1, PartIs
  <2>3. /\ v \in Seq(Nodes) /\ Len(v) = Len(s) - (k + 1) + 1
        /\ \A i \in 1 .. Len(s) - (k + 1) + 1 : v[i] = s[k + 1 + i - 1]
    BY <1>3, <2>1, PartIs
  <2> HIDE DEF u, v
  <2>4. k - 1 + 1 = k /\ Len(s) - (k + 1) + 1 = Len(s) - k
    BY <1>1, <1>3
  <2>5. ASSUME NEW i \in 1 .. k PROVE u[i] = s[i]
    <3>1. 1 + i - 1 = i
      BY <1>3
    <3> QED BY <2>2, <2>4, <3>1
  <2>6. ASSUME NEW i \in 1 .. Len(s) - k PROVE v[i] = s[k + i]
    <3>1. k + 1 + i - 1 = k + i
      BY <1>3
    <3> QED BY <2>3, <2>4, <3>1
  <2> QED BY <2>2, <2>3, <2>4, <2>5, <2>6
<1> HIDE DEF u, v
<1>6. /\ DOMAIN r = 1 .. k + 1 + (Len(s) - k)
      /\ r[k + 1] = e
      /\ \A i \in 1 .. k : r[i] = u[i]
      /\ \A i \in k + 2 .. k + 1 + (Len(s) - k) : r[i] = v[i - (k + 1)]
  <2>1. /\ DOMAIN r = 1 .. Len(u) + 1 + Len(v)
        /\ r[Len(u) + 1] = e
        /\ \A i \in 1 .. Len(u) : r[i] = u[i]
        /\ \A i \in Len(u) + 2 .. Len(u) + 1 + Len(v) : r[i] = v[i - (Len(u) + 1)]
    <3>1. u \in Seq(Nodes) /\ v \in Seq(Nodes)
      BY <1>5
    <3> QED BY <1>4, <3>1, PutBetween
  <2> QED BY <1>5, <2>1
<1>7. k + 1 + (Len(s) - k) = Len(s) + 1
  BY <1>1, <1>3
<1>8. ASSUME NEW i \in k + 2 .. Len(s) + 1 PROVE r[i] = s[i - 1]
  <2>1. i - (k + 1) \in 1 .. Len(s) - k /\ k + (i - (k + 1)) = i - 1
    BY <1>1, <1>3
  <2>2. v[i - (k + 1)] = s[i - 1]
    BY <1>5, <2>1
  <2> QED BY <1>6, <1>7, <2>2
<1> QED BY <1>3, <1>5, <1>6, <1>7, <1>8 DEF k, r

LEMMA InsertSortedIn ==
    ASSUME NEW s \in Seq(Nodes), NEW e \in Nodes
    PROVE  In(InsertSorted(s, e)) = In(s) \cup {e}
<1> DEFINE k == Cardinality({i \in DOMAIN s : s[i] < e})
           r == InsertSorted(s, e)
<1>1. /\ k \in 0 .. Len(s) /\ DOMAIN r = 1 .. Len(s) + 1 /\ r[k + 1] = e
      /\ \A i \in 1 .. k : r[i] = s[i]
      /\ \A i \in k + 2 .. Len(s) + 1 : r[i] = s[i - 1]
      /\ Len(s) \in Nat /\ DOMAIN s = 1 .. Len(s)
  BY InsertSortedAt
<1> HIDE DEF k, r
<1>2. ASSUME NEW x \in In(r) PROVE x \in In(s) \cup {e}
  <2>1. PICK i \in 1 .. Len(s) + 1 : x = r[i]
    BY <1>1, <1>2 DEF In
  <2>2. CASE i <= k
    <3>1. i \in 1 .. k /\ i \in 1 .. Len(s)
      BY <1>1, <2>1, <2>2
    <3> QED BY <1>1, <2>1, <3>1 DEF In
  <2>3. CASE i = k + 1
    BY <1>1, <2>1, <2>3
  <2>4. CASE i > k + 1
    <3>1. i \in k + 2 .. Len(s) + 1 /\ i - 1 \in 1 .. Len(s)
      BY <1>1, <2>1, <2>4
    <3> QED BY <1>1, <2>1, <3>1 DEF In
  <2> QED BY <1>1, <2>1, <2>2, <2>3, <2>4
<1>3. ASSUME NEW x \in In(s) PROVE x \in In(r)
  <2>1. PICK i \in 1 .. Len(s) : x = s[i]
    BY <1>1, <1>3 DEF In
  <2>2. CASE i <= k
    <3>1. i \in 1 .. k /\ i \in 1 .. Len(s) + 1
      BY <1>1, <2>1, <2>2
    <3> QED BY <1>1, <2>1, <3>1 DEF In
  <2>3. CASE i > k
    <3>1. i + 1 \in k + 2 .. Len(s) + 1 /\ i + 1 \in 1 .. Len(s) + 1 /\ (i + 1) - 1 = i
      BY <1>1, <2>1, <2>3
    <3>2. r[i + 1] = x
      BY <1>1, <2>1, <3>1
    <3> QED BY <1>1, <3>1, <3>2 DEF In
  <2> QED BY <1>1, <2>1, <2>2, <2>3
<1>4. e \in In(r)
  <2>1. k + 1 \in 1 .. Len(s) + 1
    BY <1>1
  <2> QED BY <1>1, <2>1 DEF In
<1> QED BY <1>2, <1>3, <1>4 DEF r

(* The end of a loop leaves nothing out.                                     *)
LEMMA LoopEnds ==
    ASSUME NEW fr \in Seq(Seq(Nodes)), fr # <<>>, Len(fr) # 1, fr[Len(fr)] = <<>>
    PROVE  LET r == SubSeq(fr, 1, Len(fr) - 1)
           IN  Pending(fr) = Pending(r) /\ r[1] = fr[1]
<1> DEFINE n == Len(fr) - 1
           r == SubSeq(fr, 1, n)
<1>1. n \in Nat \ {0} /\ DOMAIN fr = 1 .. n + 1 /\ fr[n + 1] = <<>>
  OBVIOUS
<1>2. DOMAIN r = 1 .. n /\ \A i \in 1 .. n : r[i] = fr[i]
  BY <1>1
<1> HIDE DEF n, r
<1>3. In(fr[n + 1]) = {}
  BY <1>1 DEF In
<1>4. \A i \in 1 .. n + 1 : i = n + 1 \/ i \in 1 .. n
  BY <1>1
<1>5. 1 .. n \subseteq 1 .. n + 1 /\ 1 \in 1 .. n
  BY <1>1
<1>6. Pending(fr) = Pending(r)
  BY <1>1, <1>2, <1>3, <1>4, <1>5 DEF Pending
<1> QED BY <1>2, <1>5, <1>6 DEF r, n

LEMMA LoopBegins ==
    ASSUME NEW fr \in Seq(Seq(Nodes)), fr # <<>>, NEW s \in Seq(Nodes)
    PROVE  LET r == Append(fr, s)
           IN  Pending(r) = Pending(fr) \cup In(s) /\ r[1] = fr[1]
<1> DEFINE n == Len(fr)
           r == Append(fr, s)
<1>1. n \in Nat \ {0} /\ DOMAIN fr = 1 .. n
  OBVIOUS
<1>2. DOMAIN r = 1 .. n + 1 /\ r[n + 1] = s /\ \A i \in 1 .. n : r[i] = fr[i]
  BY <1>1
<1> HIDE DEF n, r
<1>4. \A i \in 1 .. n + 1 : i = n + 1 \/ i \in 1 .. n
  BY <1>1
<1>5. 1 .. n \subseteq 1 .. n + 1 /\ 1 \in 1 .. n /\ n + 1 \in 1 .. n + 1
  BY <1>1
<1>6. Pending(r) = Pending(fr) \cup In(s)
  <2>1. ASSUME NEW x \in Pending(r) PROVE x \in Pending(fr) \cup In(s)
    <3>1. PICK i \in 1 .. n + 1 : x \in In(r[i])
      BY <1>2, <2>1 DEF Pending
    <3> QED BY <1>1, <1>2, <1>4, <3>1 DEF Pending
  <2>2. ASSUME NEW x \in Pending(fr) PROVE x \in Pending(r)
    <3>1. PICK i \in 1 .. n : x \in In(fr[i])
      BY <1>1, <2>2 DEF Pending
    <3> QED BY <1>2, <1>5, <3>1 DEF Pending
  <2>3. In(s) \subseteq Pending(r)
    BY <1>2, <1>5 DEF Pending
  <2> QED BY <2>1, <2>2, <2>3
<1> QED BY <1>2, <1>5, <1>6 DEF r, n

-----------------------------------------------------------------------------
(* The buckets.                                                              *)

LEMMA VisitAdded ==
    ASSUME TypeOK, NEW n, NEW o, NEW fr, visits' = Visited(n, o, fr)
    PROVE  LET k == Len(visits)
           IN  /\ k \in Nat /\ DOMAIN visits = 1 .. k /\ DOMAIN visits' = 1 .. k + 1
               /\ visits'[k + 1] = [path |-> n, ended |-> o, arg |-> Len(Args) - Len(fr[1])]
               /\ \A i \in 1 .. k : visits'[i] = visits[i]
<1> DEFINE x == [path |-> n, ended |-> o, arg |-> Len(Args) - Len(fr[1])]
<1>1. visits' = Append(visits, x)
  BY DEF Visited
<1> HIDE DEF x
<1>2. /\ Len(visits) \in Nat /\ DOMAIN visits = 1 .. Len(visits) /\ DOMAIN visits' = 1 .. Len(visits) + 1
      /\ visits'[Len(visits) + 1] = x /\ \A i \in 1 .. Len(visits) : visits'[i] = visits[i]
  BY <1>1 DEF TypeOK
<1> QED BY <1>2 DEF x

(* A visit adds how it ended to the fate of its path, and to no other.       *)
LEMMA FateGrows ==
    ASSUME TypeOK, NEW n, NEW o, NEW fr, visits' = Visited(n, o, fr)
    PROVE  \A m : Fate(m)' = IF m = n THEN Fate(m) \cup {o} ELSE Fate(m)
<1> DEFINE k == Len(visits)
<1>1. /\ k \in Nat /\ DOMAIN visits = 1 .. k /\ DOMAIN visits' = 1 .. k + 1
      /\ visits'[k + 1] = [path |-> n, ended |-> o, arg |-> Len(Args) - Len(fr[1])]
      /\ \A i \in 1 .. k : visits'[i] = visits[i]
  BY VisitAdded
<1> HIDE DEF k
<1>2. 1 .. k \subseteq 1 .. k + 1 /\ k + 1 \in 1 .. k + 1 /\ \A i \in 1 .. k + 1 : i = k + 1 \/ i \in 1 .. k
  BY <1>1
<1>3. visits'[k + 1].path = n /\ visits'[k + 1].ended = o
  BY <1>1
<1>4. ASSUME NEW m, NEW e \in Fate(m) PROVE e \in Fate(m)'
  BY <1>1, <1>2 DEF Fate
<1>5. o \in Fate(n)'
  BY <1>1, <1>2, <1>3 DEF Fate
<1>6. ASSUME NEW m, NEW e \in Fate(m)' PROVE e \in Fate(m) \/ (m = n /\ e = o)
  <2>1. PICK i \in DOMAIN visits' : visits'[i].path = m /\ visits'[i].ended = e
    BY DEF Fate
  <2>2. CASE i = k + 1
    BY <1>3, <2>1, <2>2
  <2>3. CASE i \in 1 .. k
    BY <1>1, <2>1, <2>3 DEF Fate
  <2> QED BY <1>1, <1>2, <2>1, <2>2, <2>3
<1> QED BY <1>4, <1>5, <1>6

(* No step but a new run forgets a visit.                                    *)
LEMMA FateRemains ==
    ASSUME TypeOK, Step, NEW m, Fate(m) # {}
    PROVE  Fate(m)' # {}
<1>1. CASE visits' = visits
  BY <1>1 DEF Fate
<1>2. ASSUME NEW n, NEW o, NEW fr, visits' = Visited(n, o, fr)
      PROVE  Fate(m)' # {}
  <2>1. Fate(m)' = IF m = n THEN Fate(m) \cup {o} ELSE Fate(m)
    BY <1>2, FateGrows
  <2> QED BY <2>1
<1>3. \/ visits' = visits
      \/ \E n, o, fr : visits' = Visited(n, o, fr)
  BY DEF Step, EnterDir, DirFails, ListEntry, ListDone, PassOver, ReturnDir, EnterFile, ReadFile,
         ReadFails, ParseReports, SkipUnparsed, AlreadyClean, StartWrite, WriteFile, WriteFails
<1> QED BY <1>1, <1>2, <1>3

(* What the visits of a file that ended as in e tell of it, when it was s    *)
(* at the beginning and is t now, and the sink is full or not.               *)
Tells(e, s, t, full) ==
    /\ "listed" \notin e
    /\ t # s => "changed" \in e
    /\ "skipped" \in e => s # "canon"
    /\ s = "canon" => t = "canon"
    /\ ~ full => /\ "clean" \in e => t = "canon"
                 /\ "changed" \in e => s = "messy"

FateInv ==
    pc # "killed" => \A n \in Files : Tells(Fate(n), started[n], text[n], sink.truncated)

(* A visit of n leaves the other files alone.                                *)
LEMMA FateKept ==
    ASSUME TypeOK, FateInv, pc # "killed", started' = started, sink.truncated => sink'.truncated,
           NEW n, NEW o, NEW fr, visits' = Visited(n, o, fr),
           \A m \in Files : m # n => text'[m] = text[m],
           n \in Files => Tells(Fate(n) \cup {o}, started[n], text'[n], sink'.truncated)
    PROVE  FateInv'
<1> SUFFICES ASSUME NEW m \in Files PROVE Tells(Fate(m), started[m], text[m], sink.truncated)'
  BY DEF FateInv
<1>1. CASE m = n
  <2>1. Fate(m)' = Fate(n) \cup {o}
    BY <1>1, FateGrows
  <2> QED BY <1>1, <2>1 DEF Tells
<1>2. CASE m # n
  <2>1. Fate(m)' = Fate(m) /\ text'[m] = text[m]
    BY <1>2, FateGrows
  <2>2. Tells(Fate(m), started[m], text[m], sink.truncated)
    BY DEF FateInv
  <2> QED BY <2>1, <2>2 DEF Tells
<1> QED BY <1>1, <1>2

(* The steps that visit no path.                                             *)
LEMMA FateStays ==
    ASSUME FateInv, pc # "killed", UNCHANGED <<text, visits, started>>, sink.truncated => sink'.truncated
    PROVE  FateInv'
<1>1. \A m : Fate(m)' = Fate(m)
  BY DEF Fate
<1> QED BY <1>1 DEF FateInv, Tells

LEMMA FateInvNext ==
    ASSUME TypeOK, LoopInv, FileInv, FateInv, [Next]_vars
    PROVE  FateInv'
<1>0. /\ sink \in SinkOf(Nodes) /\ sink.errors \in Nat /\ before \in Nat
      /\ diag_error_count(sink) = sink.errors
  BY DEF TypeOK, SinkOf, diag_error_count
<1>01. ASSUME NEW c \in Codes, NEW n \in Nodes, sink' = diag_report(sink, c, n)
       PROVE  sink.truncated => sink'.truncated
  BY <1>0, <1>01, ReportCounts
<1>1. CASE UNCHANGED vars
  <2>1. UNCHANGED <<pc, text, visits, started, sink>>
    BY <1>1 DEF vars, run
  <2> QED BY <2>1, FateStays DEF FateInv
<1>2. CASE EnterDir
  <2>1. /\ visits' = Visited(Head(Top), "listed", AfterTop) /\ Head(Top) \notin Files /\ pc # "killed"
        /\ UNCHANGED <<text, started, sink>>
    BY <1>2 DEF EnterDir, AtEntry, Files
  <2> QED BY <2>1, FateKept
<1>3. CASE DirFails
  <2>1. /\ visits' = Visited(Head(Top), "unread", AfterTop) /\ Head(Top) \notin Files /\ pc # "killed"
        /\ UNCHANGED <<text, started>>
    BY <1>3 DEF DirFails, AtEntry, Files
  <2>2. Head(Top) \in Nodes /\ "cannot_read_dir" \in Codes /\ sink' = diag_report(sink, "cannot_read_dir", Head(Top))
    BY <1>3, TreeAssumption DEF DirFails, Codes
  <2>3. sink.truncated => sink'.truncated
    BY <2>2, <1>01
  <2> QED BY <2>1, <2>3, FateKept
<1>4. CASE ListEntry \/ ListDone \/ PassOver \/ ReturnDir \/ EnterFile \/ ReadFile \/ StartWrite
  <2>1. pc # "killed" /\ UNCHANGED <<text, visits, started, sink>>
    BY <1>4 DEF ListEntry, ListDone, PassOver, ReturnDir, EnterFile, ReadFile, StartWrite, AtEntry, Parsed
  <2> QED BY <2>1, FateStays
<1>5. CASE ParseReports \/ ReadFails \/ SkipUnparsed \/ AlreadyClean \/ WriteFile \/ WriteFails
  <2>0. /\ file \in Files /\ file \in Nodes /\ pc \in {"read", "parse", "write"} /\ started' = started
        /\ {"syntax", "cannot_read_file", "cannot_write_file"} \subseteq Codes
    BY <1>5 DEF ParseReports, ReadFails, SkipUnparsed, AlreadyClean, WriteFile, WriteFails,
                Parsed, LoopInv, Files, Codes
  <2>1. Tells(Fate(file), started[file], text[file], sink.truncated)
    BY <2>0 DEF FateInv
  <2>2. CASE ParseReports
    <3>1. sink' = diag_report(sink, "syntax", file) /\ UNCHANGED <<text, visits, started>>
      BY <2>2 DEF ParseReports
    <3>2. sink.truncated => sink'.truncated
      BY <2>0, <3>1, <1>01
    <3> QED BY <2>0, <3>1, <3>2, FateStays
  <2>3. CASE ReadFails
    <3>1. /\ sink' = diag_report(sink, "cannot_read_file", file) /\ text' = text
          /\ visits' = Visited(file, "unread", frames)
      BY <2>3 DEF ReadFails
    <3>2. sink.truncated => sink'.truncated
      BY <2>0, <3>1, <1>01
    <3>3. Tells(Fate(file) \cup {"unread"}, started[file], text'[file], sink'.truncated)
      BY <2>1, <3>1, <3>2 DEF Tells
    <3> QED BY <2>0, <3>1, <3>2, <3>3, FateKept
  <2>4. CASE SkipUnparsed
    <3>1. sink' = sink /\ text' = text /\ visits' = Visited(file, "skipped", frames)
      BY <2>4 DEF SkipUnparsed
    <3>2. text[file] # "canon"
      BY <2>4 DEF SkipUnparsed, Parsed, FileInv, Bad
    <3>3. Tells(Fate(file) \cup {"skipped"}, started[file], text'[file], sink'.truncated)
      BY <2>1, <3>1, <3>2 DEF Tells
    <3> QED BY <2>0, <3>1, <3>3, FateKept
  <2>5. CASE AlreadyClean
    <3>1. sink' = sink /\ text' = text /\ visits' = Visited(file, "clean", frames)
      BY <2>5 DEF AlreadyClean
    <3>2. got \in Texts /\ text[file] = got /\ got # "messy" /\ (got \in Bad => sink.truncated)
      BY <1>0, <2>5 DEF AlreadyClean, Parsed, FileInv, TypeOK
    <3>3. ~ sink.truncated => text[file] = "canon"
      BY <3>2 DEF Texts, Bad
    <3>4. Tells(Fate(file) \cup {"clean"}, started[file], text'[file], sink'.truncated)
      BY <2>1, <3>1, <3>3 DEF Tells
    <3> QED BY <2>0, <3>1, <3>4, FateKept
  <2>6. CASE WriteFile
    <3>1. PICK t \in Formatted(got) : text' = [text EXCEPT ![file] = t]
      BY <2>6 DEF WriteFile
    <3>2. sink' = sink /\ visits' = Visited(file, "changed", frames)
      BY <2>6 DEF WriteFile
    <3>3. \A m \in Files : m # file => text'[m] = text[m]
      BY <3>1 DEF TypeOK
    <3>4. got \in Texts /\ text[file] = got /\ got # "canon" /\ (got \in Bad => sink.truncated)
      BY <2>6 DEF WriteFile, FileInv, TypeOK
    <3>5. text[file] # "canon" /\ (~ sink.truncated => text[file] = "messy")
      BY <3>4 DEF Texts, Bad
    <3>6. Tells(Fate(file) \cup {"changed"}, started[file], text'[file], sink'.truncated)
      BY <2>1, <3>2, <3>5 DEF Tells
    <3> QED BY <2>0, <3>2, <3>3, <3>6, FateKept
  <2>7. CASE WriteFails
    <3>1. /\ sink' = diag_report(sink, "cannot_write_file", file) /\ text' = text
          /\ visits' = Visited(file, "skipped", frames)
      BY <2>7 DEF WriteFails
    <3>2. sink.truncated => sink'.truncated
      BY <2>0, <3>1, <1>01
    <3>3. text[file] # "canon"
      BY <2>7 DEF WriteFails, FileInv
    <3>4. Tells(Fate(file) \cup {"skipped"}, started[file], text'[file], sink'.truncated)
      BY <2>1, <3>1, <3>2, <3>3 DEF Tells
    <3> QED BY <2>0, <3>1, <3>2, <3>4, FateKept
  <2> QED BY <1>5, <2>2, <2>3, <2>4, <2>5, <2>6, <2>7
<1>6. CASE Kill
  BY <1>6 DEF Kill, FateInv
<1>7. CASE RunAgain
  <2>1. /\ \A m : Fate(m)' = {}
        /\ started' = text /\ text' = text
    BY <1>7 DEF RunAgain, Fate
  <2> QED BY <2>1 DEF FateInv, Tells
<1> QED BY <1>1, <1>2, <1>3, <1>4, <1>5, <1>6, <1>7 DEF Next, Step

LEMMA FateInvInit == Init => FateInv
<1> SUFFICES ASSUME Init PROVE FateInv
  OBVIOUS
<1>1. (\A m : Fate(m) = {}) /\ started = text
  BY DEF Init, Fate
<1> QED BY <1>1 DEF FateInv, Tells

LEMMA FateTells == FateInv => BucketsAreTrue
<1> SUFFICES ASSUME FateInv, pc = "done", NEW n \in Files
             PROVE  /\ text[n] # started[n] => "changed" \in Fate(n)
                    /\ "skipped" \in Fate(n) => started[n] # "canon"
                    /\ ~ sink.truncated =>
                          /\ "clean" \in Fate(n) => text[n] = "canon"
                          /\ "changed" \in Fate(n) => started[n] = "messy"
  BY DEF BucketsAreTrue
<1> QED BY DEF FateInv, Tells

-----------------------------------------------------------------------------
(* The exit status.                                                          *)

FailedIn(v) == \E i \in DOMAIN v : v[i].ended \in {"skipped", "unread"}

(* A full sink has errors, and every error belongs to a visit that failed or *)
(* to the file at hand; as long as no visit failed, every file that is to be *)
(* formatted was visited or is ahead.                                        *)
ExitInv ==
    /\ sink.errors = Len(sink.list)
    /\ sink.truncated => sink.errors # 0
    /\ FailedIn(visits) => sink.errors # 0
    /\ pc \in {"read", "write"} => sink.errors = before
    /\ InFile /\ before # 0 => FailedIn(visits)
    /\ pc \in {"walk", "list", "done"} /\ sink.errors # 0 => FailedIn(visits)
    /\ pc = "done" => Len(frames) = 1 /\ Top = <<>>
    /\ pc # "killed" /\ ~ FailedIn(visits) => \A n \in Wanted : Fate(n) # {} \/ Ahead(n)

LEMMA VisitFails ==
    ASSUME TypeOK, NEW n, NEW o, NEW fr, visits' = Visited(n, o, fr)
    PROVE  FailedIn(visits') <=> FailedIn(visits) \/ o \in {"skipped", "unread"}
<1> DEFINE x == [path |-> n, ended |-> o, arg |-> Len(Args) - Len(fr[1])]
           k == Len(visits)
<1>1. k \in Nat /\ DOMAIN visits = 1 .. k
  BY DEF TypeOK
<1>2. visits' = Append(visits, x) /\ x.ended = o
  BY DEF Visited
<1> HIDE DEF x
<1>3. DOMAIN visits' = 1 .. k + 1 /\ visits'[k + 1] = x /\ \A i \in 1 .. k : visits'[i] = visits[i]
  BY <1>2 DEF TypeOK
<1> HIDE DEF k
<1>4. \A i \in 1 .. k + 1 : i = k + 1 \/ i \in 1 .. k
  BY <1>1
<1>5. 1 .. k \subseteq 1 .. k + 1 /\ k + 1 \in 1 .. k + 1
  BY <1>1
<1>6. ASSUME FailedIn(visits') PROVE FailedIn(visits) \/ o \in {"skipped", "unread"}
  BY <1>1, <1>2, <1>3, <1>4, <1>6 DEF FailedIn
<1>7. ASSUME FailedIn(visits) PROVE FailedIn(visits')
  BY <1>1, <1>3, <1>5, <1>7 DEF FailedIn
<1>8. ASSUME o \in {"skipped", "unread"} PROVE FailedIn(visits')
  BY <1>2, <1>3, <1>5, <1>8 DEF FailedIn
<1> QED BY <1>6, <1>7, <1>8

(* A report leaves a sink with errors, which it lists.                       *)
LEMMA ReportListed ==
    ASSUME NEW s \in SinkOf(Nodes), s.errors = Len(s.list), NEW c \in Codes, NEW n \in Nodes
    PROVE  LET r == diag_report(s, c, n)
           IN  r.errors = Len(r.list) /\ r.errors # 0
<1> DEFINE d == [code |-> c, about |-> n]
<1>1. Len(s.list) \in Nat /\ s.list \in Seq([code : Codes, about : Nodes])
  BY DEF SinkOf
<1>2. CASE Len(s.list) >= DiagLimit
  <2>1. diag_report(s, c, n).errors = s.errors /\ diag_report(s, c, n).list = s.list
    BY <1>2 DEF SinkOf, diag_report
  <2> QED BY <1>1, <1>2, <2>1, DiagLimitAssumption
<1>3. CASE ~ (Len(s.list) >= DiagLimit)
  <2>1. diag_report(s, c, n).errors = s.errors + 1 /\ diag_report(s, c, n).list = Append(s.list, d)
    BY <1>3 DEF SinkOf, diag_report
  <2> HIDE DEF d
  <2>2. Len(Append(s.list, d)) = Len(s.list) + 1
    BY <1>1
  <2> QED BY <1>1, <2>1, <2>2
<1> QED BY <1>2, <1>3

(* The steps of fmt_path leave no file behind.                               *)
LEMMA WalkLeavesNone ==
    ASSUME TypeOK, LoopInv, NEW n \in Files, Ahead(n),
           EnterDir \/ ListEntry \/ ListDone \/ PassOver \/ ReturnDir \/ EnterFile
    PROVE  Ahead(n)'
<1>0. /\ frames \in Seq(Seq(Nodes)) /\ frames # <<>> /\ listing \in Seq(Nodes) /\ unread \in SUBSET Nodes
      /\ NoFile \notin Nodes
  BY TreeAssumption DEF TypeOK, LoopInv, NoFile
<1>1. ASSUME pc = "walk" PROVE AheadOf(frames, {}, NoFile, n)
  BY <1>1 DEF Ahead, Coming, InFile
<1>2. CASE EnterDir
  <2>1. /\ pc = "walk" /\ Top # <<>> /\ Head(Top) \in Dirs /\ frames' = AfterTop
        /\ pc' = "list" /\ unread' = Kids[Head(Top)] /\ listing' = <<>>
    BY <1>2 DEF EnterDir, AtEntry
  <2>2. \/ AheadOf(AfterTop, {}, NoFile, n) \/ n = Head(Top)
        \/ n \in DoExt /\ n \in Below(Head(Top))
    BY <1>0, <1>1, <2>1, AheadTaken
  <2>3. n # Head(Top) /\ Head(Top) \in Nodes
    BY <2>1, TreeAssumption DEF Files
  <2>4. AheadOf(AfterTop, Kids[Head(Top)] \ Dot, NoFile, n)
    BY <2>2, <2>3, BelowStep DEF AheadOf
  <2>5. Coming' = Kids[Head(Top)] \ Dot
    BY <2>1 DEF Coming, In
  <2> QED BY <2>1, <2>4, <2>5 DEF Ahead, InFile
<1>3. CASE ListEntry
  <2>1. PICK e \in unread :
           /\ unread' = unread \ {e}
           /\ listing' = IF e \in Dot THEN listing ELSE InsertSorted(listing, e)
    BY <1>3 DEF ListEntry
  <2>2. In(InsertSorted(listing, e)) = In(listing) \cup {e}
    BY <1>0, <2>1, InsertSortedIn
  <2>3. pc = "list" /\ pc' = pc /\ frames' = frames /\ file' = file
    BY <1>3 DEF ListEntry
  <2>4. Coming' = Coming
    <3>1. CASE e \in Dot
      BY <2>1, <2>3, <3>1 DEF Coming
    <3>2. CASE e \notin Dot
      BY <2>1, <2>2, <2>3, <3>2 DEF Coming
    <3> QED BY <3>1, <3>2
  <2> QED BY <2>3, <2>4 DEF Ahead, InFile
<1>4. CASE ListDone
  <2>1. pc = "list" /\ unread = {} /\ pc' = "walk" /\ frames' = Append(frames, listing)
    BY <1>4 DEF ListDone
  <2>2. Pending(frames') = Pending(frames) \cup In(listing) /\ frames'[1] = frames[1]
    BY <1>0, <2>1, LoopBegins
  <2>3. AheadOf(frames, In(listing), NoFile, n)
    BY <2>1 DEF Ahead, Coming, InFile
  <2>4. AheadOf(frames', {}, NoFile, n)
    BY <2>2, <2>3 DEF AheadOf
  <2> QED BY <2>1, <2>4 DEF Ahead, Coming, InFile
<1>5. CASE PassOver
  <2>1. /\ pc = "walk" /\ Top # <<>> /\ Head(Top) \in Files \ DoExt /\ frames' = AfterTop
        /\ Len(frames) > 1 /\ pc' = pc
    BY <1>5 DEF PassOver, AtEntry
  <2>11. Len(frames) # 1
    <3>1. \A k \in Nat : k > 1 => k # 1
      OBVIOUS
    <3> QED BY <1>0, <2>1, <3>1
  <2>2. \/ AheadOf(AfterTop, {}, NoFile, n)
        \/ n \in DoExt /\ n \in Below(Head(Top))
    BY <1>0, <1>1, <2>1, <2>11, AheadTaken
  <2>3. n \in Below(Head(Top)) => n = Head(Top)
    BY <2>1, BelowStep DEF Files
  <2>4. AheadOf(frames', {}, NoFile, n)
    BY <2>1, <2>2, <2>3
  <2> QED BY <2>1, <2>4 DEF Ahead, Coming, InFile
<1>6. CASE ReturnDir
  <2>1. pc = "walk" /\ Top = <<>>
    BY <1>6 DEF ReturnDir
  <2>2. CASE Len(frames) = 1
    <3>1. pc' = "done" /\ frames' = frames
      BY <1>6, <2>2 DEF ReturnDir
    <3> QED BY <1>1, <2>1, <3>1 DEF Ahead, Coming, InFile
  <2>3. CASE Len(frames) # 1
    <3>1. pc' = "walk" /\ frames' = SubSeq(frames, 1, Len(frames) - 1)
      BY <1>6, <2>1, <2>3 DEF ReturnDir
    <3>2. Pending(frames) = Pending(frames') /\ frames'[1] = frames[1]
      BY <1>0, <2>1, <2>3, <3>1, LoopEnds DEF Top
    <3>3. AheadOf(frames', {}, NoFile, n)
      BY <1>1, <2>1, <3>2 DEF AheadOf
    <3> QED BY <3>1, <3>3 DEF Ahead, Coming, InFile
  <2> QED BY <2>2, <2>3
<1>7. CASE EnterFile
  <2>1. /\ pc = "walk" /\ Top # <<>> /\ Head(Top) \in Files /\ frames' = AfterTop
        /\ pc' = "read" /\ file' = Head(Top)
    BY <1>7 DEF EnterFile, AtEntry
  <2>2. \/ AheadOf(AfterTop, {}, NoFile, n) \/ n = Head(Top)
        \/ n \in DoExt /\ n \in Below(Head(Top))
    BY <1>0, <1>1, <2>1, AheadTaken
  <2>3. n \in Below(Head(Top)) => n = Head(Top)
    BY <2>1, BelowStep DEF Files
  <2>4. n # NoFile
    BY <1>0 DEF Files
  <2>5. AheadOf(AfterTop, {}, Head(Top), n)
    BY <2>2, <2>3, <2>4 DEF AheadOf
  <2> QED BY <2>1, <2>5 DEF Ahead, Coming, InFile
<1> QED BY <1>2, <1>3, <1>4, <1>5, <1>6, <1>7

LEMMA ExitInvInit == Init => ExitInv
<1> SUFFICES ASSUME Init PROVE ExitInv
  OBVIOUS
<1>1. /\ sink.errors = 0 /\ sink.list = <<>> /\ ~ sink.truncated
      /\ visits = <<>> /\ pc = "walk" /\ frames = <<Args>>
  BY DEF Init, diag_sink_init
<1>2. ~ FailedIn(visits) /\ Len(<<>>) = 0
  BY <1>1 DEF FailedIn
<1>3. ASSUME NEW n \in Wanted PROVE Ahead(n)
  <2>1. PICK i \in DOMAIN Args : n = Args[i] \/ (Args[i] \in Dirs /\ n \in Below(Args[i]) \cap DoExt)
    BY DEF Wanted
  <2>2. frames[1] = Args /\ 1 \in DOMAIN frames
    BY <1>1
  <2>3. Args[i] \in In(frames[1]) /\ Args[i] \in Pending(frames)
    BY <2>1, <2>2 DEF In, Pending
  <2> QED BY <2>1, <2>3 DEF Ahead, AheadOf
<1> QED BY <1>1, <1>2, <1>3 DEF ExitInv, InFile

(* The steps of fmt_path.                                                    *)
LEMMA ExitInvWalk ==
    ASSUME TypeOK, LoopInv, ExitInv,
           EnterDir \/ DirFails \/ ListEntry \/ ListDone \/ PassOver \/ ReturnDir \/ EnterFile
    PROVE  ExitInv'
<1>0. /\ pc \in {"walk", "list"} /\ pc' \in {"walk", "list", "read", "done"}
      /\ text' = text
  BY DEF EnterDir, DirFails, ListEntry, ListDone, PassOver, ReturnDir, EnterFile, AtEntry
<1>00. \A n : Fate(n) # {} => Fate(n)' # {}
  BY FateRemains DEF Step
<1>1. CASE DirFails
  <2>1. /\ Head(Top) \in Nodes /\ "cannot_read_dir" \in Codes /\ pc' = "walk"
    <3>1. AtEntry /\ pc' = pc
      BY <1>1 DEF DirFails
    <3> QED BY <3>1, AfterTopType DEF AtEntry, TypeOK, Codes
  <2>2. sink' = diag_report(sink, "cannot_read_dir", Head(Top))
        /\ visits' = Visited(Head(Top), "unread", AfterTop)
    BY <1>1 DEF DirFails
  <2>3. FailedIn(visits')
    BY <2>2, VisitFails
  <2>4. sink'.errors = Len(sink'.list) /\ sink'.errors # 0
    BY <2>1, <2>2, ReportListed DEF TypeOK, ExitInv
  <2> QED BY <2>1, <2>3, <2>4 DEF ExitInv, InFile
<1>2. CASE EnterDir \/ ListEntry \/ ListDone \/ PassOver \/ ReturnDir \/ EnterFile
  <2>1. sink' = sink
    BY <1>2 DEF EnterDir, ListEntry, ListDone, PassOver, ReturnDir, EnterFile
  <2>2. FailedIn(visits') <=> FailedIn(visits)
    <3>1. CASE EnterDir
      <4>1. visits' = Visited(Head(Top), "listed", AfterTop)
        BY <3>1 DEF EnterDir
      <4> QED BY <4>1, VisitFails
    <3>2. CASE ListEntry \/ ListDone \/ PassOver \/ ReturnDir \/ EnterFile
      BY <3>2 DEF ListEntry, ListDone, PassOver, ReturnDir, EnterFile
    <3> QED BY <1>2, <3>1, <3>2
  <2>3. /\ pc' = "read" => before' = sink.errors
        /\ pc' = "done" => Len(frames') = 1 /\ Top' = <<>>
    BY <1>2 DEF EnterDir, ListEntry, ListDone, PassOver, ReturnDir, EnterFile, diag_error_count, Top, AtEntry
  <2>4. \A n \in Wanted : Ahead(n) => Ahead(n)'
    BY <1>2, WalkLeavesNone DEF Wanted
  <2>5. pc' # "killed" /\ ~ FailedIn(visits') => \A n \in Wanted : Fate(n)' # {} \/ Ahead(n)'
    BY <1>0, <1>00, <2>2, <2>4 DEF ExitInv
  <2> QED BY <1>0, <2>1, <2>2, <2>3, <2>5 DEF ExitInv, InFile
<1> QED BY <1>1, <1>2

(* The steps of fmt_file.                                                    *)
LEMMA ExitInvFile ==
    ASSUME TypeOK, LoopInv, FileInv, ExitInv,
           \/ ReadFile \/ ReadFails \/ ParseReports
           \/ SkipUnparsed \/ AlreadyClean \/ StartWrite \/ WriteFile \/ WriteFails
    PROVE  ExitInv'
<1>0. InFile /\ file \in Files /\ file \in Nodes /\ frames' = frames /\ file' = file
      /\ {"syntax", "cannot_read_file", "cannot_write_file"} \subseteq Codes
      /\ sink \in SinkOf(Nodes) /\ sink.errors \in Nat /\ before \in Nat /\ before' = before
  BY DEF ReadFile, ReadFails, ParseReports, SkipUnparsed, AlreadyClean, StartWrite, WriteFile, WriteFails,
         Parsed, LoopInv, InFile, Files, Codes, TypeOK, SinkOf
<1>00. \A n : Fate(n) # {} => Fate(n)' # {}
  BY FateRemains DEF Step
<1>1. CASE ReadFails \/ WriteFails
  <2>1. PICK c \in Codes : sink' = diag_report(sink, c, file)
    BY <1>0, <1>1 DEF ReadFails, WriteFails
  <2>2. PICK o \in {"skipped", "unread"} : visits' = Visited(file, o, frames)
    BY <1>1 DEF ReadFails, WriteFails
  <2>3. FailedIn(visits') /\ pc' = "walk"
    BY <1>1, <2>2, VisitFails DEF ReadFails, WriteFails
  <2>4. sink'.errors = Len(sink'.list) /\ sink'.errors # 0
    BY <1>0, <2>1, ReportListed DEF ExitInv
  <2> QED BY <2>3, <2>4 DEF ExitInv, InFile
<1>2. CASE SkipUnparsed
  <2>1. visits' = Visited(file, "skipped", frames) /\ pc' = "walk" /\ sink' = sink
        /\ sink.errors # before /\ pc = "parse"
    BY <1>2 DEF SkipUnparsed, Parsed, diag_error_count
  <2>2. FailedIn(visits')
    BY <2>1, VisitFails
  <2>3. sink.errors # 0
    BY <1>0, <2>1 DEF FileInv, diag_error_count
  <2> QED BY <2>1, <2>2, <2>3 DEF ExitInv, InFile
<1>3. CASE ReadFile \/ ParseReports \/ StartWrite
  <2>1. /\ visits' = visits /\ text' = text /\ pc \in {"read", "parse"} /\ pc' \in {"parse", "write"}
    BY <1>3 DEF ReadFile, ParseReports, StartWrite, Parsed
  <2>2. sink'.errors = Len(sink'.list) /\ (FailedIn(visits) => sink'.errors # 0)
        /\ (sink'.truncated => sink'.errors # 0)
        /\ (pc' = "write" => sink'.errors = before)
    <3>1. CASE ParseReports
      <4>1. sink' = diag_report(sink, "syntax", file) /\ pc' = "parse"
        BY <3>1 DEF ParseReports
      <4> QED BY <1>0, <4>1, ReportListed DEF ExitInv
    <3>2. CASE ReadFile \/ StartWrite
      BY <3>2 DEF ReadFile, StartWrite, ExitInv, diag_error_count
    <3> QED BY <1>3, <3>1, <3>2
  <2>3. \A n \in Wanted : Ahead(n) => Ahead(n)'
    BY <1>0, <2>1 DEF Ahead, Coming, InFile
  <2>4. pc # "killed" /\ ~ FailedIn(visits) => \A n \in Wanted : Fate(n)' # {} \/ Ahead(n)'
    BY <1>00, <2>1, <2>3 DEF ExitInv
  <2> QED BY <1>0, <2>1, <2>2, <2>4 DEF ExitInv, InFile
<1>4. CASE AlreadyClean \/ WriteFile
  <2>1. PICK o \in {"changed", "clean"} : visits' = Visited(file, o, frames)
    BY <1>4 DEF AlreadyClean, WriteFile
  <2>2. FailedIn(visits') <=> FailedIn(visits)
    BY <2>1, VisitFails
  <2>3. pc' = "walk" /\ sink' = sink /\ sink.errors = before /\ pc \in {"parse", "write"}
    BY <1>4 DEF AlreadyClean, WriteFile, Parsed, ExitInv, diag_error_count
  <2>4. got \in Texts /\ text[file] = got /\ text \in [Files -> Texts]
    BY <2>3 DEF FileInv, TypeOK
  <2>5. ASSUME NEW n, n = file PROVE Fate(n)' # {}
    <3>1. Fate(n)' = Fate(n) \cup {o}
      BY <2>1, <2>5, FateGrows
    <3> QED BY <3>1
  <2>6. ASSUME NEW n \in Wanted, Ahead(n), n # file PROVE Ahead(n)'
    <3>1. AheadOf(frames, {}, file, n)
      BY <1>0, <2>3, <2>6 DEF Ahead, Coming
    <3>2. AheadOf(frames, {}, NoFile, n)
      BY <2>6, <3>1 DEF AheadOf
    <3> QED BY <1>0, <2>3, <3>2 DEF Ahead, Coming, InFile
  <2>7. ~ FailedIn(visits') => \A n \in Wanted : Fate(n)' # {} \/ Ahead(n)'
    <3> SUFFICES ASSUME ~ FailedIn(visits'), NEW n \in Wanted
                 PROVE  Fate(n)' # {} \/ Ahead(n)'
      OBVIOUS
    <3>1. pc # "killed" /\ ~ FailedIn(visits)
      BY <2>2, <2>3
    <3>2. Fate(n) # {} \/ Ahead(n)
      BY <3>1 DEF ExitInv
    <3>3. CASE n = file
      BY <2>5, <3>3
    <3>4. CASE n # file
      BY <1>00, <2>6, <3>2, <3>4
    <3> QED BY <3>3, <3>4
  <2> QED BY <1>0, <2>2, <2>3, <2>7 DEF ExitInv, InFile
<1> QED BY <1>1, <1>2, <1>3, <1>4

LEMMA ExitInvNext ==
    ASSUME TypeOK, LoopInv, FileInv, ExitInv, [Next]_vars
    PROVE  ExitInv'
<1>1. CASE UNCHANGED vars
  BY <1>1 DEF vars, run, ExitInv, Ahead, Coming, InFile, Top, Fate
<1>2. CASE Step
  BY <1>2, ExitInvWalk, ExitInvFile DEF Step
<1>3. CASE Kill
  BY <1>3 DEF Kill, ExitInv, InFile
<1>4. CASE RunAgain
  <2>1. /\ sink'.errors = 0 /\ sink'.list = <<>> /\ ~ sink'.truncated /\ visits' = <<>> /\ pc' = "walk" /\ frames' = <<Args>>
    BY <1>4 DEF RunAgain, diag_sink_init
  <2>2. ~ FailedIn(visits') /\ Len(<<>>) = 0
    BY <2>1 DEF FailedIn
  <2>3. ASSUME NEW n \in Wanted PROVE Ahead(n)'
    <3>1. PICK i \in DOMAIN Args : n = Args[i] \/ (Args[i] \in Dirs /\ n \in Below(Args[i]) \cap DoExt)
      BY DEF Wanted
    <3>2. frames'[1] = Args /\ 1 \in DOMAIN frames'
      BY <2>1
    <3>3. Args[i] \in In(frames'[1]) /\ Args[i] \in Pending(frames')
      BY <3>1, <3>2 DEF In, Pending
    <3> QED BY <3>1, <3>3 DEF Ahead, AheadOf
  <2> QED BY <2>1, <2>2, <2>3 DEF ExitInv, InFile
<1> QED BY <1>1, <1>2, <1>3, <1>4 DEF Next

LEMMA ExitInvTells == LoopInv /\ TypeOK /\ FateInv /\ ExitInv => ExitTellsTheTree
<1> SUFFICES ASSUME LoopInv, TypeOK, FateInv, ExitInv, pc = "done"
             PROVE  /\ sink.errors = 0 =>
                         \A n \in Wanted :
                            /\ Fate(n) \subseteq {"changed", "clean"}
                            /\ \/ "changed" \in Fate(n) /\ started[n] = "messy"
                               \/ Fate(n) = {"clean"} /\ started[n] = "canon" /\ text[n] = "canon"
                    /\ sink.errors # 0 => FailedIn(visits)
  BY DEF ExitTellsTheTree, CleanExitMeansFormatted, FailedExitMeansFailure, ExitOk, diag_has_errors, FailedIn
<1>1. frames[1] = <<>> /\ DOMAIN frames = {1}
  <2>1. Len(frames) = 1 /\ Top = <<>> /\ frames \in Seq(Seq(Nodes))
    BY DEF ExitInv, TypeOK
  <2> QED BY <2>1 DEF Top
<1>2. Pending(frames) = {} /\ In(frames[1]) = {}
  BY <1>1 DEF Pending, In
<1>3. ASSUME NEW n \in Wanted PROVE ~ Ahead(n)
  <2>1. n # NoFile
    BY TreeAssumption DEF Wanted, Files
  <2> QED BY <1>2, <2>1 DEF Ahead, AheadOf, Coming, InFile
<1>4. ASSUME sink.errors = 0, NEW n \in Wanted
      PROVE  /\ Fate(n) \subseteq {"changed", "clean"}
             /\ \/ "changed" \in Fate(n) /\ started[n] = "messy"
                \/ Fate(n) = {"clean"} /\ started[n] = "canon" /\ text[n] = "canon"
  <2>1. ~ FailedIn(visits) /\ ~ sink.truncated /\ n \in Files
    BY <1>4 DEF ExitInv, Wanted
  <2>2. Tells(Fate(n), started[n], text[n], sink.truncated)
    BY <2>1 DEF FateInv
  <2>3. Fate(n) \subseteq Outcomes /\ "skipped" \notin Fate(n) /\ "unread" \notin Fate(n)
    <3> DEFINE R == [path : Nodes, arg : Nat, ended : Outcomes]
    <3>0. visits \in Seq(R)
      BY DEF TypeOK
    <3> HIDE DEF R
    <3>1. \A i \in DOMAIN visits : visits[i] \in R
      BY <3>0
    <3>2. \A i \in DOMAIN visits : visits[i].ended \in Outcomes
      BY <3>1 DEF R
    <3> QED BY <2>1, <3>2 DEF Fate, FailedIn
  <2>4. Fate(n) \subseteq {"changed", "clean"}
    BY <2>2, <2>3 DEF Tells, Outcomes
  <2>5. Fate(n) # {}
    BY <1>3, <2>1 DEF ExitInv
  <2>6. CASE "changed" \in Fate(n)
    BY <2>1, <2>2, <2>4, <2>6 DEF Tells
  <2>7. CASE "changed" \notin Fate(n)
    <3>1. Fate(n) = {"clean"}
      BY <2>4, <2>5, <2>7
    <3> QED BY <2>1, <2>2, <2>7, <3>1 DEF Tells
  <2> QED BY <2>4, <2>6, <2>7
<1> QED BY <1>3, <1>4 DEF ExitInv

(* The exit status tells the tree (main.c:90-234): a run that exits 0 has    *)
(* visited every file below its arguments, and each of them either was       *)
(* canonical and still is, or parsed, was not canonical and was written; a   *)
(* run that exits 1 met something it could not do.                           *)
THEOREM ExitIsTrue == Spec => []ExitTellsTheTree
<1>1. Init => IInv /\ FateInv /\ ExitInv
  BY TypeInit, FileInvInit, FateInvInit, ExitInvInit DEF IInv
<1>2. IInv /\ FateInv /\ ExitInv /\ [Next]_vars => IInv' /\ FateInv' /\ ExitInv'
  BY IInvNext, FateInvNext, ExitInvNext DEF IInv
<1>3. IInv /\ FateInv /\ ExitInv => ExitTellsTheTree
  BY ExitInvTells DEF IInv
<1> QED BY <1>1, <1>2, <1>3, PTL DEF Spec

-----------------------------------------------------------------------------
(* The order of the report.                                                  *)

Increasing(s) == \A i, j \in DOMAIN s : i < j => s[i] < s[j]
Sorted(s) == \A i, j \in DOMAIN s : i < j => Precedes(s[i], s[j])

(* The loops over directories, and what they have left: all of an inner loop *)
(* comes before what is left to the outer ones.                              *)
Deep(fr) == UNION {In(fr[i]) : i \in 2 .. Len(fr)}
Orderly(fr) ==
    /\ \A i \in 2 .. Len(fr) : Sorted(fr[i])
    /\ \A i, j \in 2 .. Len(fr) :
          i < j => \A x \in In(fr[j]), y \in In(fr[i]) : Precedes(x, y)

LEMMA InsertIncreasing ==
    ASSUME NEW s \in Seq(Nodes), Increasing(s), NEW e \in Nodes, e \notin In(s)
    PROVE  Increasing(InsertSorted(s, e))
<1> DEFINE S == {i \in DOMAIN s : s[i] < e}
           k == Cardinality(S)
           r == InsertSorted(s, e)
<1>1. /\ k \in 0 .. Len(s) /\ DOMAIN r = 1 .. Len(s) + 1 /\ r[k + 1] = e
      /\ \A i \in 1 .. k : r[i] = s[i]
      /\ \A i \in k + 2 .. Len(s) + 1 : r[i] = s[i - 1]
      /\ Len(s) \in Nat /\ DOMAIN s = 1 .. Len(s) /\ k \in Nat
  BY InsertSortedAt
<1>2. /\ S \subseteq 1 .. Len(s)
      /\ \A i \in 1 .. Len(s) : i \in S <=> s[i] < e
      /\ \A i \in 1 .. Len(s) : s[i] \in Nat /\ s[i] # e
      /\ e \in Nat
  BY <1>1, TreeAssumption DEF In
<1>3. IsFiniteSet(S)
  <2>1. IsFiniteSet(1 .. Len(s))
    BY <1>1, FS_Interval
  <2> QED BY <1>2, <2>1, FS_Subset
<1>4. S = 1 .. k
  <2>1. ASSUME NEW i \in S PROVE i \in 1 .. k
    <3>1. i \in 1 .. Len(s) /\ s[i] < e
      BY <1>2
    <3>2. ASSUME NEW j \in 1 .. i PROVE j \in S
      <4>1. j \in 1 .. Len(s) /\ (j = i \/ j < i)
        BY <1>1, <3>1
      <4>2. s[j] < e
        <5>1. j < i => s[j] < s[i]
          BY <1>1, <3>1, <4>1 DEF Increasing
        <5> QED BY <1>2, <3>1, <4>1, <5>1
      <4> QED BY <1>2, <4>1, <4>2
    <3>3. i \in Nat /\ 1 .. i \subseteq S
      BY <3>1, <3>2
    <3>4. Cardinality(1 .. i) = i /\ Cardinality(1 .. i) <= k
      <4>1. Cardinality(1 .. i) = i
        <5>1. Cardinality(1 .. i) = IF 1 > i THEN 0 ELSE i - 1 + 1
          BY <3>3, FS_Interval
        <5> QED BY <3>1, <5>1
      <4> HIDE DEF S
      <4>2. Cardinality(1 .. i) <= Cardinality(S)
        BY <1>3, <3>3, FS_Subset
      <4> QED BY <4>1, <4>2
    <3> HIDE DEF k
    <3> QED BY <1>1, <3>1, <3>4
  <2>2. Cardinality(1 .. k) = k /\ IsFiniteSet(1 .. k)
    <3> HIDE DEF k
    <3>1. Cardinality(1 .. k) = IF 1 > k THEN 0 ELSE k - 1 + 1
      BY <1>1, FS_Interval
    <3> QED BY <1>1, <3>1, FS_Interval
  <2>3. S \subseteq 1 .. k
    BY <2>1
  <2> HIDE DEF S
  <2> QED BY <2>2, <2>3, FS_Subset
<1> HIDE DEF k, r, S
<1>5. ASSUME NEW i \in 1 .. Len(s) + 1, NEW j \in 1 .. Len(s) + 1, i < j
      PROVE  r[i] < r[j]
  <2>1. CASE j <= k
    <3>1. i \in 1 .. k /\ j \in 1 .. k /\ i \in 1 .. Len(s) /\ j \in 1 .. Len(s)
      BY <1>1, <1>5, <2>1
    <3> QED BY <1>1, <1>5, <3>1 DEF Increasing
  <2>2. CASE j = k + 1
    <3>1. i \in 1 .. k /\ i \in 1 .. Len(s)
      BY <1>1, <1>5, <2>2
    <3>2. s[i] < e
      BY <1>2, <1>4, <3>1
    <3> QED BY <1>1, <2>2, <3>1, <3>2
  <2>3. CASE j > k + 1
    <3>1. j \in k + 2 .. Len(s) + 1 /\ j - 1 \in 1 .. Len(s) /\ j - 1 \notin 1 .. k
      BY <1>1, <2>3
    <3>2. r[j] = s[j - 1] /\ e < s[j - 1]
      <4>1. r[j] = s[j - 1] /\ ~ (s[j - 1] < e) /\ s[j - 1] # e /\ s[j - 1] \in Nat
        BY <1>1, <1>2, <1>4, <3>1
      <4> QED BY <1>2, <4>1
    <3>3. CASE i <= k
      <4>1. i \in 1 .. k /\ i \in 1 .. Len(s) /\ i < j - 1
        BY <1>1, <1>5, <2>3, <3>3
      <4> QED BY <1>1, <3>1, <3>2, <4>1 DEF Increasing
    <3>4. CASE i = k + 1
      BY <1>1, <3>2, <3>4
    <3>5. CASE i > k + 1
      <4>1. i \in k + 2 .. Len(s) + 1 /\ i - 1 \in 1 .. Len(s) /\ i - 1 < j - 1
        BY <1>1, <1>5, <3>5
      <4> QED BY <1>1, <3>1, <3>2, <4>1 DEF Increasing
    <3> QED BY <1>1, <3>3, <3>4, <3>5
  <2> QED BY <1>1, <2>1, <2>2, <2>3
<1> QED BY <1>1, <1>5 DEF Increasing, r

(* The entries of one directory, listed in order of name, are in walk order. *)
LEMMA ListedIsSorted ==
    ASSUME NEW s \in Seq(Nodes), Increasing(s), NEW d \in Dirs, In(s) \subseteq Kids[d] \ Dot
    PROVE  Sorted(s)
<1>1. \A i \in DOMAIN s : s[i] \in Kids[d] \ Dot
  BY DEF In
<1> QED BY <1>1, NumberingAssumption DEF Increasing, Sorted

(* What is below an entry is below its directory.                            *)
LEMMA BelowEntry ==
    ASSUME NEW d \in Dirs, NEW k \in Kids[d] \ Dot, NEW y, Precedes(d, y)
    PROVE  Precedes(k, y)
<1>1. d \in Nodes /\ k \in Nodes /\ k \in Below(d)
  BY TreeAssumption, BelowClosed
<1>2. ASSUME NEW m \in Below(k) PROVE m \in Below(d)
  <2>1. ASSUME NEW S \in SUBSET Nodes, d \in S, \A e \in S \cap Dirs : Kids[e] \ Dot \subseteq S
        PROVE  m \in S
    <3>1. k \in S
      BY <2>1
    <3> QED BY <2>1, <3>1 DEF Below
  <2> QED BY <2>1 DEF Below
<1> QED BY <1>2 DEF Precedes

LEMMA OrderlyTaken ==
    ASSUME frames \in Seq(Seq(Nodes)), frames # <<>>, Top # <<>>, Orderly(frames)
    PROVE  /\ Orderly(AfterTop)
           /\ Deep(AfterTop) \subseteq Deep(frames)
           /\ \A y \in Deep(AfterTop) : Len(frames) # 1 => Precedes(Head(Top), y)
           /\ Len(frames) # 1 => Head(Top) \in Deep(frames)
           /\ Len(frames) = 1 => Deep(AfterTop) = {}
<1> DEFINE n == Len(frames)
           t == Top
           A == AfterTop
<1>0. n \in Nat \ {0}
  OBVIOUS
<1>1. n \in Nat \ {0} /\ n \in 1 .. n /\ (n # 1 => n \in 2 .. n) /\ \A i \in 2 .. n : i \in 1 .. n
  <2> HIDE DEF n
  <2> QED BY <1>0
<1>2. t = frames[n] /\ t \in Seq(Nodes) /\ t # <<>>
  BY <1>1 DEF Top
<1>3. A \in Seq(Seq(Nodes)) /\ Len(A) = n /\ A[n] = Tail(t) /\ \A i \in 1 .. n : i # n => A[i] = frames[i]
  <2>1. A = [frames EXCEPT ![n] = Tail(t)] /\ Tail(t) \in Seq(Nodes)
    BY <1>2 DEF AfterTop
  <2> HIDE DEF A, t
  <2> QED BY <1>1, <2>1
<1>4. /\ Len(t) \in Nat \ {0} /\ DOMAIN t = 1 .. Len(t) /\ DOMAIN Tail(t) = 1 .. Len(t) - 1
      /\ Head(t) = t[1] /\ \A i \in 1 .. Len(t) - 1 : Tail(t)[i] = t[i + 1]
  <2> HIDE DEF t
  <2> QED BY <1>2
<1> HIDE DEF n, t, A
<1>5. In(Tail(t)) \subseteq In(t) /\ Head(t) \in In(t)
  BY <1>2, FirstAndRest
<1>6. \A i \in 2 .. n : In(A[i]) \subseteq In(frames[i])
  BY <1>1, <1>2, <1>3, <1>5
<1>7. /\ \A i \in 2 .. n : Sorted(frames[i])
      /\ \A i, j \in 2 .. n : i < j => \A x \in In(frames[j]), y \in In(frames[i]) : Precedes(x, y)
  BY DEF Orderly, n
<1>8. ASSUME NEW i \in 2 .. n PROVE Sorted(A[i])
  <2>1. CASE i # n
    BY <1>1, <1>3, <1>7, <2>1
  <2>2. CASE i = n
    <3>1. Sorted(t)
      BY <1>2, <1>7, <2>2
    <3>2. ASSUME NEW a \in DOMAIN Tail(t), NEW b \in DOMAIN Tail(t), a < b
          PROVE  Precedes(Tail(t)[a], Tail(t)[b])
      <4>1. a + 1 \in 1 .. Len(t) /\ b + 1 \in 1 .. Len(t) /\ a + 1 < b + 1
            /\ a \in 1 .. Len(t) - 1 /\ b \in 1 .. Len(t) - 1
        BY <1>4, <3>2
      <4> QED BY <1>4, <3>1, <4>1 DEF Sorted
    <3>3. Sorted(Tail(t))
      BY <3>2 DEF Sorted
    <3> QED BY <1>3, <2>2, <3>3
  <2> QED BY <2>1, <2>2
<1>9. Orderly(A)
  <2>1. \A i, j \in 2 .. n : i < j => \A x \in In(A[j]), y \in In(A[i]) : Precedes(x, y)
    BY <1>6, <1>7
  <2> QED BY <1>3, <1>8, <2>1 DEF Orderly
<1>10. Deep(A) \subseteq Deep(frames)
  BY <1>3, <1>6 DEF Deep, n
<1>11. ASSUME n # 1 PROVE Head(t) \in Deep(frames)
  BY <1>1, <1>2, <1>5, <1>11 DEF Deep, n
<1>12. ASSUME n # 1, NEW y \in Deep(A) PROVE Precedes(Head(t), y)
  <2>1. PICK i \in 2 .. n : y \in In(A[i])
    BY <1>3 DEF Deep
  <2>2. CASE i # n
    <3>1. y \in In(frames[i]) /\ Head(t) \in In(frames[n])
      BY <1>2, <1>5, <1>6, <2>1
    <3>2. i < n /\ n \in 2 .. n
      BY <1>1, <1>12, <2>1, <2>2
    <3> QED BY <1>7, <2>1, <3>1, <3>2
  <2>3. CASE i = n
    <3>0. y \in In(Tail(t))
      BY <1>3, <2>1, <2>3
    <3>1. PICK a \in 1 .. Len(t) - 1 : y = t[a + 1]
      BY <1>4, <3>0 DEF In
    <3>2. 1 \in 1 .. Len(t) /\ a + 1 \in 1 .. Len(t) /\ 1 < a + 1 /\ Sorted(t)
      BY <1>2, <1>4, <1>7, <2>3, <3>1
    <3> QED BY <1>4, <3>1, <3>2 DEF Sorted
  <2> QED BY <2>2, <2>3
<1>13. n = 1 => Deep(A) = {}
  <2>1. n = 1 => 2 .. n = {}
    OBVIOUS
  <2> QED BY <1>3, <2>1 DEF Deep
<1> QED BY <1>9, <1>10, <1>11, <1>12, <1>13 DEF n, t, A

LEMMA OrderlyEnds ==
    ASSUME NEW fr \in Seq(Seq(Nodes)), Len(fr) # 1, fr # <<>>, Orderly(fr)
    PROVE  LET r == SubSeq(fr, 1, Len(fr) - 1)
           IN  Orderly(r) /\ Deep(r) \subseteq Deep(fr)
<1> DEFINE n == Len(fr) - 1
           r == SubSeq(fr, 1, n)
<1>1. n \in Nat \ {0} /\ Len(fr) = n + 1 /\ \A i \in 2 .. n : i \in 1 .. n /\ i \in 2 .. Len(fr)
  OBVIOUS
<1>2. Len(r) = n /\ \A i \in 1 .. n : r[i] = fr[i]
  BY <1>1
<1> HIDE DEF n, r
<1>3. \A i \in 2 .. n : r[i] = fr[i] /\ i \in 2 .. Len(fr)
  BY <1>1, <1>2
<1>4. Orderly(r)
  BY <1>2, <1>3 DEF Orderly
<1>5. Deep(r) \subseteq Deep(fr)
  BY <1>2, <1>3 DEF Deep
<1> QED BY <1>4, <1>5 DEF n, r

LEMMA OrderlyBegins ==
    ASSUME NEW fr \in Seq(Seq(Nodes)), fr # <<>>, Orderly(fr), NEW s \in Seq(Nodes), Sorted(s),
           \A x \in In(s), y \in Deep(fr) : Precedes(x, y)
    PROVE  LET r == Append(fr, s)
           IN  Orderly(r) /\ Deep(r) = Deep(fr) \cup In(s)
<1> DEFINE n == Len(fr)
           r == Append(fr, s)
<1>1. n \in Nat \ {0} /\ \A i \in 2 .. n + 1 : i = n + 1 \/ i \in 2 .. n
  OBVIOUS
<1>2. Len(r) = n + 1 /\ r[n + 1] = s /\ \A i \in 1 .. n : r[i] = fr[i]
  BY <1>1
<1> HIDE DEF n, r
<1>3. \A i \in 2 .. n : i \in 1 .. n /\ i \in 2 .. n + 1 /\ ~ (n + 1 < i) /\ r[i] = fr[i]
  BY <1>1, <1>2
<1>4. n + 1 \in 2 .. n + 1
  BY <1>1
<1>5. /\ \A i \in 2 .. n : Sorted(fr[i]) /\ In(fr[i]) \subseteq Deep(fr)
      /\ \A i, j \in 2 .. n : i < j => \A x \in In(fr[j]), y \in In(fr[i]) : Precedes(x, y)
      /\ Deep(fr) = UNION {In(fr[i]) : i \in 2 .. n}
  BY DEF Orderly, Deep, n
<1>6. \A i \in 2 .. n + 1 : Sorted(r[i])
  BY <1>1, <1>2, <1>3, <1>5
<1>7. ASSUME NEW i \in 2 .. n + 1, NEW j \in 2 .. n + 1, i < j, NEW x \in In(r[j]), NEW y \in In(r[i])
      PROVE  Precedes(x, y)
  <2>1. i \in 2 .. n
    BY <1>1, <1>7
  <2>2. CASE j = n + 1
    BY <1>2, <1>3, <1>5, <1>7, <2>1, <2>2
  <2>3. CASE j # n + 1
    BY <1>1, <1>3, <1>5, <1>7, <2>1, <2>3
  <2> QED BY <2>2, <2>3
<1>8. Orderly(r)
  BY <1>2, <1>6, <1>7 DEF Orderly
<1>9. Deep(r) = Deep(fr) \cup In(s)
  <2>1. Deep(r) = UNION {In(r[i]) : i \in 2 .. n + 1}
    BY <1>2 DEF Deep
  <2>2. ASSUME NEW x \in Deep(r) PROVE x \in Deep(fr) \cup In(s)
    <3>1. PICK i \in 2 .. n + 1 : x \in In(r[i])
      BY <2>1, <2>2
    <3> QED BY <1>1, <1>2, <1>3, <1>5, <3>1
  <2>3. ASSUME NEW x \in Deep(fr) PROVE x \in Deep(r)
    <3>1. PICK i \in 2 .. n : x \in In(fr[i])
      BY <1>5, <2>3
    <3> QED BY <1>3, <2>1, <3>1
  <2>4. In(s) \subseteq Deep(r)
    BY <1>2, <1>4, <2>1
  <2> QED BY <2>2, <2>3, <2>4
<1> QED BY <1>8, <1>9 DEF n, r

(* The paths an argument has been seen to have below it.                     *)
Seen(v, a) == {v[i].path : i \in {j \in DOMAIN v : v[j].arg = a}}
ArgOf(fr) == Len(Args) - Len(fr[1])
UpTo(v, a) == \A i \in DOMAIN v : v[i].arg <= a

LEMMA SeenNext ==
    ASSUME TypeOK, VisitsInOrder, NEW n \in Nodes, NEW o, NEW fr, visits' = Visited(n, o, fr),
           ArgOf(fr) \in Nat, UpTo(visits, ArgOf(fr)), \A p \in Seen(visits, ArgOf(fr)) : p < n
    PROVE  /\ VisitsInOrder' /\ UpTo(visits', ArgOf(fr))
           /\ Seen(visits', ArgOf(fr)) \subseteq Seen(visits, ArgOf(fr)) \cup {n}
<1> DEFINE k == Len(visits)
           a == ArgOf(fr)
<1>1. /\ k \in Nat /\ DOMAIN visits = 1 .. k /\ DOMAIN visits' = 1 .. k + 1
      /\ visits'[k + 1] = [path |-> n, ended |-> o, arg |-> a]
      /\ \A i \in 1 .. k : visits'[i] = visits[i]
  BY VisitAdded DEF ArgOf
<1> HIDE DEF k, a
<1>2. visits'[k + 1].path = n /\ visits'[k + 1].arg = a
  BY <1>1
<1>3. \A i \in 1 .. k + 1 : i = k + 1 \/ i \in 1 .. k
  BY <1>1
<1>4. a \in Nat /\ UpTo(visits, a) /\ \A p \in Seen(visits, a) : p < n
  BY DEF a
<1>5. UpTo(visits', a)
  BY <1>1, <1>2, <1>3, <1>4 DEF UpTo
<1>6. ASSUME NEW p \in Seen(visits', a) PROVE p \in Seen(visits, a) \cup {n}
  <2>1. PICK i \in 1 .. k + 1 : visits'[i].arg = a /\ p = visits'[i].path
    BY <1>1, <1>6 DEF Seen
  <2> QED BY <1>1, <1>2, <1>3, <2>1 DEF Seen
<1>7. ASSUME NEW i \in 1 .. k + 1, NEW j \in 1 .. k + 1, i < j, visits'[i].arg = visits'[j].arg
      PROVE  visits'[i].path < visits'[j].path
  <2>1. i \in 1 .. k
    BY <1>1, <1>7
  <2>2. CASE j = k + 1
    <3>1. visits[i].path \in Seen(visits, a)
      BY <1>1, <1>2, <1>7, <2>1, <2>2 DEF Seen
    <3> QED BY <1>1, <1>2, <1>4, <2>1, <2>2, <3>1
  <2>3. CASE j # k + 1
    <3>1. j \in 1 .. k
      BY <1>3, <2>3
    <3> QED BY <1>1, <1>7, <2>1, <3>1 DEF VisitsInOrder
  <2> QED BY <2>2, <2>3
<1>8. VisitsInOrder'
  BY <1>1, <1>7 DEF VisitsInOrder
<1> QED BY <1>5, <1>6, <1>8 DEF a

LEMMA SeenIsNodes ==
    ASSUME TypeOK, NEW a
    PROVE  Seen(visits, a) \subseteq Nodes
<1> DEFINE V == [path : Nodes, arg : Nat, ended : Outcomes]
<1>1. visits \in Seq(V)
  BY DEF TypeOK
<1>2. \A v \in V : v.path \in Nodes
  OBVIOUS
<1> HIDE DEF V
<1>3. \A i \in DOMAIN visits : visits[i] \in V
  BY <1>1
<1> QED BY <1>2, <1>3 DEF Seen

(* No path below the argument after the ones taken has been seen.            *)
LEMMA NoneSeen ==
    ASSUME TypeOK, NEW a \in Nat, UpTo(visits, a)
    PROVE  UpTo(visits, a + 1) /\ Seen(visits, a + 1) = {}
<1>1. \A i \in DOMAIN visits : visits[i].arg \in Nat /\ visits[i].arg <= a
  <2> DEFINE V == [path : Nodes, arg : Nat, ended : Outcomes]
  <2>1. visits \in Seq(V)
    BY DEF TypeOK
  <2>2. \A v \in V : v.arg \in Nat
    OBVIOUS
  <2> HIDE DEF V
  <2>3. \A i \in DOMAIN visits : visits[i] \in V
    BY <2>1
  <2> QED BY <2>2, <2>3 DEF UpTo
<1>2. \A i \in DOMAIN visits : visits[i].arg <= a + 1 /\ visits[i].arg # a + 1
  BY <1>1
<1> QED BY <1>2 DEF UpTo, Seen

(* A directory comes before its entries, and an inner loop before the outer  *)
(* ones: so what is seen comes before what is left.                          *)
OrderInv ==
    /\ VisitsInOrder
    /\ UpTo(visits, ArgOf(frames))
    /\ Orderly(frames)
    /\ \A p \in Seen(visits, ArgOf(frames)), x \in Deep(frames) \cup Coming : p < x
    /\ \A x \in Coming, y \in Deep(frames) : Precedes(x, y)
    /\ InFile => /\ \A p \in Seen(visits, ArgOf(frames)) : p < file
                 /\ \A x \in Deep(frames) : file < x
    /\ pc = "list" => /\ \E d \in Dirs : In(listing) \cup unread \subseteq Kids[d]
                      /\ In(listing) \cap (unread \cup Dot) = {}
                      /\ Increasing(listing)

LEMMA ArgIsNat ==
    ASSUME TypeOK, LoopInv
    PROVE  ArgOf(frames) \in Nat
<1>1. Len(frames[1]) \in Nat /\ Len(Args) \in Nat /\ Len(frames[1]) <= Len(Args)
  BY TreeAssumption DEF TypeOK, LoopInv
<1> QED BY <1>1 DEF ArgOf

LEMMA ComingKept ==
    ASSUME TypeOK, ListEntry
    PROVE  Coming' = Coming
<1>1. PICK e \in unread :
         /\ unread' = unread \ {e}
         /\ listing' = IF e \in Dot THEN listing ELSE InsertSorted(listing, e)
  BY DEF ListEntry
<1>2. In(InsertSorted(listing, e)) = In(listing) \cup {e}
  BY <1>1, InsertSortedIn DEF TypeOK
<1>3. pc = "list" /\ pc' = pc
  BY DEF ListEntry
<1>4. CASE e \in Dot
  BY <1>1, <1>3, <1>4 DEF Coming
<1>5. CASE e \notin Dot
  BY <1>1, <1>2, <1>3, <1>5 DEF Coming
<1> QED BY <1>4, <1>5

(* The entry the walk takes comes after what is seen and before what is left. *)
LEMMA TakenInOrder ==
    ASSUME TypeOK, LoopInv, OrderInv, Top # <<>>
    PROVE  /\ Head(Top) \in Nodes
           /\ ArgOf(AfterTop) \in Nat
           /\ UpTo(visits, ArgOf(AfterTop))
           /\ Orderly(AfterTop)
           /\ \A p \in Seen(visits, ArgOf(AfterTop)) :
                  p < Head(Top) /\ \A x \in Deep(AfterTop) : p < x
           /\ \A y \in Deep(AfterTop) : Precedes(Head(Top), y) /\ Head(Top) < y
<1>1. frames \in Seq(Seq(Nodes)) /\ frames # <<>> /\ ArgOf(frames) \in Nat
  BY ArgIsNat DEF TypeOK, LoopInv
<1>2. /\ Orderly(AfterTop)
      /\ Deep(AfterTop) \subseteq Deep(frames)
      /\ \A y \in Deep(AfterTop) : Len(frames) # 1 => Precedes(Head(Top), y)
      /\ Len(frames) # 1 => Head(Top) \in Deep(frames)
      /\ Len(frames) = 1 => Deep(AfterTop) = {}
  BY <1>1, OrderlyTaken DEF OrderInv
<1>3. Head(Top) \in Nodes /\ (Len(frames) # 1 => AfterTop[1] = frames[1])
  BY <1>1, TakenOff
<1>4. CASE Len(frames) = 1
  <2>1. AfterTop[1] = Tail(Top) /\ Top = frames[1] /\ Top \in Seq(Nodes)
    BY <1>1, <1>4 DEF AfterTop, Top
  <2>2. Len(Tail(Top)) = Len(Top) - 1 /\ Len(Top) \in Nat /\ Len(Args) \in Nat
    BY <2>1, TreeAssumption
  <2>3. ArgOf(AfterTop) = ArgOf(frames) + 1
    <3>1. ArgOf(AfterTop) = Len(Args) - Len(Tail(Top)) /\ ArgOf(frames) = Len(Args) - Len(Top)
      BY <2>1 DEF ArgOf
    <3>2. ASSUME NEW x \in Nat, NEW y \in Nat, NEW z, z = y - 1 PROVE x - z = x - y + 1
      BY <3>2
    <3>3. Len(Args) - Len(Tail(Top)) = Len(Args) - Len(Top) + 1
      BY <2>2, <3>2
    <3> QED BY <3>1, <3>3
  <2>4. UpTo(visits, ArgOf(frames) + 1) /\ Seen(visits, ArgOf(frames) + 1) = {}
    BY <1>1, NoneSeen DEF OrderInv
  <2> QED BY <1>1, <1>2, <1>3, <1>4, <2>3, <2>4
<1>5. CASE Len(frames) # 1
  <2>1. ArgOf(AfterTop) = ArgOf(frames)
    BY <1>3, <1>5 DEF ArgOf
  <2>2. ASSUME NEW y \in Deep(AfterTop) PROVE Precedes(Head(Top), y) /\ Head(Top) < y
    BY <1>2, <1>3, <1>5, BelowClosed DEF Precedes
  <2>3. \A p \in Seen(visits, ArgOf(frames)), x \in Deep(frames) : p < x
    BY DEF OrderInv
  <2> QED BY <1>1, <1>2, <1>3, <1>5, <2>1, <2>2, <2>3 DEF OrderInv
<1> QED BY <1>4, <1>5

LEMMA OrderInvStarts ==
    /\ Init => OrderInv
    /\ RunAgain => OrderInv'
<1>1. /\ DOMAIN <<>> = {} /\ Len(<<Args>>) = 1 /\ 2 .. 1 = {}
  OBVIOUS
<1>2. Orderly(<<Args>>) /\ Deep(<<Args>>) = {}
  BY <1>1 DEF Orderly, Deep
<1>3. UpTo(<<>>, ArgOf(<<Args>>)) /\ Seen(<<>>, ArgOf(<<Args>>)) = {}
  BY <1>1 DEF UpTo, Seen
<1>4. ASSUME Init PROVE OrderInv
  <2>1. /\ pc = "walk" /\ frames = <<Args>> /\ visits = <<>> /\ Coming = {} /\ ~ InFile
    BY <1>4 DEF Init, Coming, InFile
  <2> QED BY <1>1, <1>2, <1>3, <2>1 DEF OrderInv, VisitsInOrder
<1>5. ASSUME RunAgain PROVE OrderInv'
  <2>1. /\ pc' = "walk" /\ frames' = <<Args>> /\ visits' = <<>> /\ Coming' = {} /\ ~ InFile'
    BY <1>5 DEF RunAgain, Coming, InFile
  <2> QED BY <1>1, <1>2, <1>3, <2>1 DEF OrderInv, VisitsInOrder
<1> QED BY <1>4, <1>5

(* The steps of fmt_path.                                                    *)
LEMMA OrderInvWalk ==
    ASSUME TypeOK, LoopInv, OrderInv,
           EnterDir \/ DirFails \/ ListEntry \/ ListDone \/ PassOver \/ ReturnDir \/ EnterFile
    PROVE  OrderInv'
<1> DEFINE h == Head(Top)
           a == ArgOf(AfterTop)
           D == Deep(AfterTop)
<1>0. frames \in Seq(Seq(Nodes)) /\ frames # <<>> /\ listing \in Seq(Nodes) /\ unread \in SUBSET Nodes
  BY DEF TypeOK, LoopInv
<1>1. ASSUME AtEntry
      PROVE  /\ h \in Nodes /\ a \in Nat /\ UpTo(visits, a) /\ Orderly(AfterTop)
             /\ \A p \in Seen(visits, a) : p < h /\ \A x \in D : p < x
             /\ \A y \in D : Precedes(h, y) /\ h < y
             /\ Coming = {}
  BY <1>1, TakenInOrder DEF AtEntry, Coming
<1> HIDE DEF h, a, D
<1>2. CASE EnterDir
  <2>1. /\ AtEntry /\ h \in Dirs /\ pc' = "list" /\ frames' = AfterTop /\ unread' = Kids[h] /\ listing' = <<>>
        /\ visits' = Visited(h, "listed", AfterTop)
    BY <1>2 DEF EnterDir, h
  <2>2. Coming' = Kids[h] \ Dot /\ In(listing') = {} /\ Increasing(listing')
    BY <2>1 DEF Coming, In, Increasing
  <2>3. VisitsInOrder' /\ UpTo(visits', a) /\ Seen(visits', a) \subseteq Seen(visits, a) \cup {h}
    BY <1>1, <2>1, SeenNext DEF OrderInv, a
  <2>4. \A x \in Kids[h] \ Dot : h < x /\ x \in Nodes /\ h \in Nodes /\ \A y \in D : Precedes(x, y)
    BY <1>1, <2>1, NumberingAssumption, BelowEntry, TreeAssumption
  <2>5. ASSUME NEW p \in Seen(visits', a), NEW x \in D \cup Coming' PROVE p < x
    <3>1. CASE p = h
      BY <1>1, <2>1, <2>2, <2>4, <3>1
    <3>2. CASE p # h /\ x \in D
      BY <1>1, <2>1, <2>3, <3>2
    <3>3. CASE p # h /\ x \in Coming'
      <4>1. p < h /\ h < x /\ p \in Nat /\ h \in Nat /\ x \in Nat
        <5>1. p \in Seen(visits, a)
          BY <2>3, <3>3
        <5>2. p \in Nodes
          BY <5>1, SeenIsNodes
        <5> QED BY <1>1, <2>1, <2>2, <2>4, <3>3, <5>1, <5>2, TreeAssumption
      <4> QED BY <4>1
    <3> QED BY <3>1, <3>2, <3>3
  <2>6. ArgOf(frames') = a /\ Deep(frames') = D /\ Orderly(frames') /\ ~ InFile'
    BY <1>1, <2>1 DEF a, D, InFile
  <2>7. \E d \in Dirs : In(listing') \cup unread' \subseteq Kids[d]
    BY <2>1, <2>2
  <2>8. \A x \in Coming', y \in D : Precedes(x, y)
    BY <2>2, <2>4
  <2> QED BY <2>2, <2>3, <2>5, <2>6, <2>7, <2>8 DEF OrderInv
<1>3. CASE DirFails
  <2>1. AtEntry /\ pc' = "walk" /\ frames' = AfterTop /\ visits' = Visited(h, "unread", AfterTop)
    BY <1>3 DEF DirFails, h, AtEntry
  <2>2. VisitsInOrder' /\ UpTo(visits', a) /\ Seen(visits', a) \subseteq Seen(visits, a) \cup {h}
    BY <1>1, <2>1, SeenNext DEF OrderInv, a
  <2>3. Coming' = {} /\ ~ InFile'
    BY <2>1 DEF Coming, InFile
  <2>4. \A p \in Seen(visits', a), x \in D : p < x
    BY <1>1, <2>1, <2>2
  <2> QED BY <1>1, <2>1, <2>2, <2>3, <2>4 DEF OrderInv, a, D
<1>4. CASE ListEntry
  <2>1. PICK e \in unread :
           /\ unread' = unread \ {e}
           /\ listing' = IF e \in Dot THEN listing ELSE InsertSorted(listing, e)
    BY <1>4 DEF ListEntry
  <2>2. pc = "list" /\ pc' = pc /\ frames' = frames /\ visits' = visits /\ Coming' = Coming
    BY <1>4, ComingKept DEF ListEntry
  <2>3. /\ \E d \in Dirs : In(listing) \cup unread \subseteq Kids[d]
        /\ In(listing) \cap (unread \cup Dot) = {} /\ Increasing(listing)
    BY <2>2 DEF OrderInv
  <2>4. In(InsertSorted(listing, e)) = In(listing) \cup {e} /\ e \in Nodes
    BY <1>0, <2>1, InsertSortedIn
  <2>5. /\ \E d \in Dirs : In(listing') \cup unread' \subseteq Kids[d]
        /\ In(listing') \cap (unread' \cup Dot) = {} /\ Increasing(listing')
    <3>1. CASE e \in Dot
      BY <2>1, <2>3, <3>1
    <3>2. CASE e \notin Dot
      <4>1. Increasing(InsertSorted(listing, e))
        BY <1>0, <2>1, <2>3, <2>4, InsertIncreasing
      <4>2. listing' = InsertSorted(listing, e) /\ In(listing') = In(listing) \cup {e}
        BY <2>1, <2>4, <3>2
      <4>3. In(listing') \cup unread' \subseteq In(listing) \cup unread
        BY <2>1, <4>2
      <4>4. In(listing') \cap (unread' \cup Dot) = {}
        BY <2>1, <2>3, <3>2, <4>2
      <4> QED BY <2>3, <4>1, <4>2, <4>3, <4>4
    <3> QED BY <3>1, <3>2
  <2> QED BY <2>2, <2>5 DEF OrderInv, VisitsInOrder, InFile
<1>5. CASE ListDone
  <2>1. /\ pc = "list" /\ unread = {} /\ pc' = "walk" /\ frames' = Append(frames, listing)
        /\ visits' = visits
    BY <1>5 DEF ListDone
  <2>2. frames'[1] = frames[1]
    BY <1>0, <2>1, LoopBegins
  <2>3. PICK d \in Dirs : In(listing) \subseteq Kids[d] \ Dot
    BY <2>1 DEF OrderInv
  <2>4. Sorted(listing)
    BY <1>0, <2>1, <2>3, ListedIsSorted DEF OrderInv
  <2>5. Coming = In(listing) /\ Coming' = {} /\ ~ InFile'
    BY <2>1 DEF Coming, InFile
  <2>6. \A x \in In(listing), y \in Deep(frames) : Precedes(x, y)
    BY <2>5 DEF OrderInv
  <2>7. Orderly(frames') /\ Deep(frames') = Deep(frames) \cup In(listing)
    BY <1>0, <2>1, <2>4, <2>6, OrderlyBegins DEF OrderInv
  <2>8. ArgOf(frames') = ArgOf(frames)
    BY <2>2 DEF ArgOf
  <2> QED BY <2>1, <2>5, <2>7, <2>8 DEF OrderInv, VisitsInOrder
<1>6. CASE PassOver
  <2>1. AtEntry /\ pc' = "walk" /\ frames' = AfterTop /\ visits' = visits
    BY <1>6 DEF PassOver, AtEntry
  <2>2. Coming' = {} /\ ~ InFile'
    BY <2>1 DEF Coming, InFile
  <2> QED BY <1>1, <2>1, <2>2 DEF OrderInv, a, D, VisitsInOrder
<1>7. CASE ReturnDir
  <2>1. pc = "walk" /\ Top = <<>> /\ visits' = visits /\ pc' \in {"walk", "done"}
    BY <1>7 DEF ReturnDir
  <2>2. Coming' = {} /\ Coming = {} /\ ~ InFile'
    BY <2>1 DEF Coming, InFile
  <2>3. Orderly(frames') /\ Deep(frames') \subseteq Deep(frames) /\ ArgOf(frames') = ArgOf(frames)
    <3>1. CASE Len(frames) = 1
      BY <1>7, <3>1 DEF ReturnDir, OrderInv
    <3>2. CASE Len(frames) # 1
      <4>1. frames' = SubSeq(frames, 1, Len(frames) - 1)
        BY <1>7, <3>2 DEF ReturnDir
      <4>2. frames'[1] = frames[1]
        BY <1>0, <2>1, <3>2, <4>1, LoopEnds DEF Top
      <4>3. Orderly(frames') /\ Deep(frames') \subseteq Deep(frames)
        BY <1>0, <3>2, <4>1, OrderlyEnds DEF OrderInv
      <4> QED BY <4>2, <4>3 DEF ArgOf
    <3> QED BY <3>1, <3>2
  <2>4. pc' # "list"
    BY <2>1
  <2> QED BY <2>1, <2>2, <2>3, <2>4 DEF OrderInv, VisitsInOrder
<1>8. CASE EnterFile
  <2>1. AtEntry /\ pc' = "read" /\ frames' = AfterTop /\ visits' = visits /\ file' = h
    BY <1>8 DEF EnterFile, h
  <2>2. Coming' = {}
    BY <2>1 DEF Coming
  <2>3. /\ \A p \in Seen(visits, a) : p < h /\ \A x \in D : p < x
        /\ \A x \in D : h < x
    BY <1>1, <2>1
  <2> QED BY <1>1, <2>1, <2>2, <2>3 DEF OrderInv, a, D, VisitsInOrder
<1> QED BY <1>2, <1>3, <1>4, <1>5, <1>6, <1>7, <1>8

(* The steps of fmt_file.                                                    *)
LEMMA OrderInvFile ==
    ASSUME TypeOK, LoopInv, OrderInv,
           \/ ReadFile \/ ReadFails \/ ParseReports
           \/ SkipUnparsed \/ AlreadyClean \/ StartWrite \/ WriteFile \/ WriteFails
    PROVE  OrderInv'
<1>0. /\ InFile /\ file \in Nodes /\ frames' = frames /\ file' = file /\ Coming = {} /\ Coming' = {}
      /\ pc' # "list" /\ ArgOf(frames) \in Nat
  <2>1. file \in Files /\ pc \in {"read", "parse", "write"} /\ pc' \in {"walk", "parse", "write"}
    BY DEF ReadFile, ReadFails, ParseReports, SkipUnparsed, AlreadyClean, StartWrite, WriteFile, WriteFails,
           Parsed, LoopInv
  <2>2. frames' = frames /\ file' = file
    BY DEF ReadFile, ReadFails, ParseReports, SkipUnparsed, AlreadyClean, StartWrite, WriteFile, WriteFails
  <2> QED BY <2>1, <2>2, ArgIsNat DEF InFile, Files, Coming
<1>1. CASE ReadFile \/ ParseReports \/ StartWrite
  <2>1. visits' = visits
    BY <1>1 DEF ReadFile, ParseReports, StartWrite
  <2> QED BY <1>0, <2>1 DEF OrderInv, VisitsInOrder
<1>2. CASE ReadFails \/ SkipUnparsed \/ AlreadyClean \/ WriteFile \/ WriteFails
  <2>1. PICK o \in Outcomes : visits' = Visited(file, o, frames)
    BY <1>2 DEF ReadFails, SkipUnparsed, AlreadyClean, WriteFile, WriteFails, Outcomes
  <2>2. ~ InFile'
    BY <1>2 DEF ReadFails, SkipUnparsed, AlreadyClean, WriteFile, WriteFails, InFile
  <2>3. /\ VisitsInOrder' /\ UpTo(visits', ArgOf(frames))
        /\ Seen(visits', ArgOf(frames)) \subseteq Seen(visits, ArgOf(frames)) \cup {file}
    BY <1>0, <2>1, SeenNext DEF OrderInv
  <2>4. \A p \in Seen(visits', ArgOf(frames)), x \in Deep(frames) : p < x
    BY <1>0, <2>3 DEF OrderInv
  <2> QED BY <1>0, <2>2, <2>3, <2>4 DEF OrderInv
<1> QED BY <1>1, <1>2

LEMMA OrderInvNext ==
    ASSUME TypeOK, LoopInv, OrderInv, [Next]_vars
    PROVE  OrderInv'
<1>1. CASE UNCHANGED vars
  BY <1>1 DEF vars, run, OrderInv, VisitsInOrder, Coming, InFile
<1>2. CASE Step
  BY <1>2, OrderInvWalk, OrderInvFile DEF Step
<1>3. CASE Kill
  <2>1. Coming' = {} /\ ~ InFile' /\ pc' # "list"
    BY <1>3 DEF Kill, Coming, InFile
  <2> QED BY <1>3, <2>1 DEF Kill, OrderInv, VisitsInOrder
<1>4. CASE RunAgain
  BY <1>4, OrderInvStarts
<1> QED BY <1>1, <1>2, <1>3, <1>4 DEF Next

(* The report tells the truth about every file, and in the order of names    *)
(* (main.c:77-79, fs.h:43-46).                                               *)
THEOREM ReportStaysTrue == Spec => []ReportIsTrue
<1>1. Init => IInv /\ FateInv /\ OrderInv
  BY TypeInit, FileInvInit, FateInvInit, OrderInvStarts DEF IInv
<1>2. IInv /\ FateInv /\ OrderInv /\ [Next]_vars => IInv' /\ FateInv' /\ OrderInv'
  BY IInvNext, FateInvNext, OrderInvNext DEF IInv
<1>3. FateInv /\ OrderInv => ReportIsTrue
  BY FateTells DEF ReportIsTrue, OrderInv
<1> QED BY <1>1, <1>2, <1>3, PTL DEF Spec

=============================================================================
