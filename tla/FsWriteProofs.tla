--------------------------- MODULE FsWriteProofs ---------------------------
(* fs_write_file replaces a file atomically, for every old and new text and  *)
(* every number of retries, as long as one process at a time is inside it    *)
(* for a given path.  The hypothesis OneWriter is what the run of two        *)
(* writers shows to be needed.                                               *)
EXTENDS FsWrite, TLAPS

OneWriter == \A v, w \in Writers : v = w

(* The part of NewText a stream has written. *)
Prefix(n) == [i \in 1 .. n |-> NewText[i]]

(* While a process is inside the function its stream and the temporary are   *)
(* the same inode, never the target, and hold what it has written so far.    *)
WriterInv(w) ==
    /\ fd[w] # target
    /\ pc[w] = "fwrite" => fd[w] \in Inodes /\ fd[w] = tmp /\ data[tmp] = Prefix(off[w])
    /\ pc[w] = "rename" => fd[w] = NoInode /\ tmp \in Inodes /\ data[tmp] = NewText
    /\ data[target] = IF pc[w] = "true" THEN NewText ELSE OldText

IInv ==
    /\ TypeOK
    /\ tmp # target
    /\ \A w \in Writers : WriterInv(w)

-----------------------------------------------------------------------------
(* What is written block after block is the text. *)

LEMMA PrefixWhole == Prefix(Len(NewText)) = NewText
BY TextAssumption DEF Prefix

LEMMA PrefixEmpty == Prefix(0) = <<>>
BY DEF Prefix

LEMMA PrefixGrows ==
    ASSUME NEW n \in Nat, n < Len(NewText)
    PROVE  PutAt(Prefix(n), n + 1, NewText[n + 1]) = Prefix(n + 1)
<1>1. Len(NewText) \in Nat
  BY TextAssumption
<1>2. Len(Prefix(n)) = n
  BY DEF Prefix
<1>. QED
  BY <1>1, <1>2 DEF PrefixGrows, Prefix, PutAt

LEMMA BlocksOfNew ==
    ASSUME NEW i \in 1 .. Len(NewText)
    PROVE  NewText[i] \in Blocks
BY TextAssumption DEF Blocks

LEMMA PutAtType ==
    ASSUME NEW t \in Seq(Blocks), NEW k \in Nat \ {0}, NEW b \in Blocks
    PROVE  PutAt(t, k, b) \in Seq(Blocks)
<1>1. Hole \in Blocks
  BY DEF Blocks
<1>. QED
  BY <1>1 DEF PutAt

-----------------------------------------------------------------------------
LEMMA TypeInit == Init => TypeOK
BY TextAssumption, BoundAssumption DEF Init, TypeOK, Running

LEMMA TypeNext == TypeOK /\ [Next]_vars => TypeOK'
<1>. SUFFICES ASSUME TypeOK, [Next]_vars
              PROVE  TypeOK'
  OBVIOUS
<1>1. CASE UNCHANGED vars
  BY <1>1 DEF vars, TypeOK
<1>2. ASSUME NEW w \in Writers, Step(w) \/ Kill(w) \/ CallAgain(w)
      PROVE  TypeOK'
  <2>1. CASE Open(w)
    BY <2>1, TextAssumption DEF Open, TypeOK, Running
  <2>2. CASE WriteBlock(w)
    <3>1. off[w] + 1 \in 1 .. Len(NewText)
      BY <2>2, TextAssumption DEF WriteBlock, TypeOK
    <3>2. NewText[off[w] + 1] \in Blocks
      BY <3>1, BlocksOfNew
    <3>3. off[w] + 1 \in Nat \ {0}
      BY <2>2 DEF TypeOK
    <3>4. ASSUME fd[w] \in Inodes
          PROVE  PutAt(data[fd[w]], off[w] + 1, NewText[off[w] + 1]) \in Seq(Blocks)
      <4>1. data[fd[w]] \in Seq(Blocks)
        BY <3>4 DEF TypeOK
      <4>. QED
        BY <4>1, <3>2, <3>3, PutAtType
    <3>5. data' \in [Inodes -> Seq(Blocks)]
      <4>1. CASE fd[w] \in Inodes
        BY <4>1, <2>2, <3>4 DEF WriteBlock, TypeOK
      <4>2. CASE fd[w] \notin Inodes
        BY <4>2, <2>2 DEF WriteBlock, TypeOK
      <4>. QED
        BY <4>1, <4>2
    <3>6. off' \in [Writers -> 0 .. Len(NewText)]
      BY <2>2, <3>1, TextAssumption DEF WriteBlock, TypeOK
    <3>. QED
      BY <2>2, <3>5, <3>6 DEF WriteBlock, TypeOK
  <2>3. CASE OpenFails(w) \/ WriteShort(w) \/ Close(w) \/ CloseFails(w)
    BY <2>3 DEF OpenFails, WriteShort, Close, CloseFails, TypeOK, Running, Ended
  <2>4. CASE Rename(w) \/ RenameFails(w) \/ Remove(w)
    BY <2>4 DEF Rename, RenameFails, Remove, TypeOK, Running, Ended
  <2>5. CASE Kill(w)
    BY <2>5 DEF Kill, TypeOK, Running, Ended
  <2>6. CASE CallAgain(w)
    BY <2>6 DEF CallAgain, TypeOK, Running, Ended
  <2>. QED
    BY <1>2, <2>1, <2>2, <2>3, <2>4, <2>5, <2>6 DEF Step
<1>. QED
  BY <1>1, <1>2 DEF Next

(* Type correctness of the protocol, for any number of writers. *)
THEOREM TypeCorrect == Spec => []TypeOK
BY TypeInit, TypeNext, PTL DEF Spec

-----------------------------------------------------------------------------
LEMMA IInvInit == Init => IInv
<1>. SUFFICES ASSUME Init
              PROVE  IInv
  OBVIOUS
<1>1. TypeOK
  BY TypeInit
<1>2. tmp # target
  BY InodeAssumption DEF Init
<1>3. ASSUME NEW w \in Writers
      PROVE  WriterInv(w)
  BY InodeAssumption DEF Init, WriterInv
<1>. QED
  BY <1>1, <1>2, <1>3 DEF IInv

(* One step of the one writer there is. *)
LEMMA IInvStep ==
    ASSUME OneWriter, IInv, TypeOK', NEW w \in Writers,
           Step(w) \/ Kill(w) \/ CallAgain(w)
    PROVE  tmp' # target' /\ WriterInv(w)'
<1>. USE InodeAssumption, TextAssumption
<1>1. CASE Open(w)
  <2>1. PICK i \in Inodes :
           /\ i = tmp \/ (tmp = NoInode /\ Free(i))
           /\ tmp' = i
           /\ data' = [data EXCEPT ![i] = <<>>]
           /\ fd' = [fd EXCEPT ![w] = i]
    BY <1>1 DEF Open
  <2>2. i # target
    BY <2>1 DEF IInv, Free
  <2>3. /\ target' = target
        /\ off'[w] = 0
        /\ pc'[w] = "fwrite"
        /\ pc[w] = "fopen"
    BY <1>1 DEF Open, IInv, TypeOK
  <2>4. data'[i] = Prefix(0) /\ data'[target] = data[target] /\ fd'[w] = i
    BY <2>1, <2>2, PrefixEmpty DEF IInv, TypeOK
  <2>. QED
    BY <2>1, <2>2, <2>3, <2>4 DEF IInv, WriterInv
<1>2. CASE WriteBlock(w)
  <2>1. /\ off[w] \in Nat
        /\ off[w] < Len(NewText)
        /\ tmp \in Inodes
        /\ fd[w] = tmp
        /\ data[tmp] = Prefix(off[w])
        /\ tmp # target
    BY <1>2 DEF WriteBlock, IInv, WriterInv, TypeOK
  <2>2. /\ data'[tmp] = Prefix(off[w] + 1)
        /\ data'[target] = data[target]
    BY <1>2, <2>1, PrefixGrows DEF WriteBlock, IInv, TypeOK
  <2>3. off'[w] = off[w] + 1
    BY <1>2 DEF WriteBlock, IInv, TypeOK
  <2>. QED
    BY <1>2, <2>1, <2>2, <2>3 DEF WriteBlock, IInv, WriterInv
<1>3. CASE Close(w)
  <2>1. tmp \in Inodes /\ data[tmp] = NewText
    BY <1>3, PrefixWhole DEF Close, IInv, WriterInv
  <2>. QED
    BY <1>3, <2>1 DEF Close, IInv, WriterInv, TypeOK
<1>4. CASE Rename(w)
  BY <1>4 DEF Rename, IInv, WriterInv, TypeOK
<1>5. CASE OpenFails(w) \/ WriteShort(w) \/ CloseFails(w) \/ RenameFails(w)
  BY <1>5 DEF OpenFails, WriteShort, CloseFails, RenameFails, IInv, WriterInv, TypeOK
<1>6. CASE Remove(w)
  <2>1. target' = target /\ tmp' # target /\ data' = data /\ fd' = fd
    BY <1>6 DEF Remove, IInv, TypeOK
  <2>2. pc[w] = "remove" /\ pc'[w] = "false"
    BY <1>6 DEF Remove, IInv, TypeOK
  <2>. QED
    BY <2>1, <2>2 DEF IInv, WriterInv
<1>7. CASE Kill(w)
  BY <1>7 DEF Kill, IInv, WriterInv, TypeOK, Running
<1>8. CASE CallAgain(w)
  BY <1>8 DEF CallAgain, IInv, WriterInv, TypeOK
<1>. QED
  BY <1>1, <1>2, <1>3, <1>4, <1>5, <1>6, <1>7, <1>8 DEF Step

LEMMA IInvNext ==
    ASSUME OneWriter
    PROVE  IInv /\ [Next]_vars => IInv'
<1>. SUFFICES ASSUME IInv, [Next]_vars
              PROVE  IInv'
  OBVIOUS
<1>1. TypeOK'
  BY TypeNext DEF IInv
<1>2. CASE UNCHANGED vars
  BY <1>1, <1>2 DEF vars, IInv, WriterInv
<1>3. ASSUME NEW w \in Writers, Step(w) \/ Kill(w) \/ CallAgain(w)
      PROVE  IInv'
  <2>1. tmp' # target' /\ WriterInv(w)'
    BY <1>1, <1>3, IInvStep
  <2>2. \A v \in Writers : v = w
    BY DEF OneWriter
  <2>. QED
    BY <1>1, <2>1, <2>2 DEF IInv
<1>. QED
  BY <1>2, <1>3 DEF Next

LEMMA IInvAlways ==
    ASSUME OneWriter
    PROVE  Spec => []IInv
<1>1. IInv /\ [Next]_vars => IInv'
  BY IInvNext
<1>. QED
  BY <1>1, IInvInit, PTL DEF Spec

(* A reader of the path sees the original or its replacement, never a part   *)
(* of either, at every moment of every call (fs.h:57), when no second       *)
(* process writes the same path.                                             *)
THEOREM OriginalStaysIntact ==
    ASSUME OneWriter, Writers # {}
    PROVE  Spec => []OriginalIntact
<1>1. IInv => OriginalIntact
  BY DEF IInv, WriterInv, OriginalIntact
<1>2. Spec => []IInv
  BY IInvAlways
<1>. QED
  BY <1>1, <1>2, PTL

-----------------------------------------------------------------------------
(* The refinement, step by step. *)

LEMMA InitRefines == Init => Abstract!Init
BY DEF Init, Abstract!Init, Answer, Running

LEMMA StepRefines ==
    ASSUME OneWriter, IInv, IInv', [Next]_vars
    PROVE  [Abstract!Next]_(Abstract!vars)
<1>. DEFINE answer == [w \in Writers |-> Answer(w)]
<1>. USE DEF Abstract!Next, Abstract!Replace, Abstract!GiveUp, Abstract!TryAgain, Abstract!vars
<1>1. CASE UNCHANGED vars
  BY <1>1 DEF vars, Answer
<1>2. ASSUME NEW w \in Writers, Step(w) \/ Kill(w) \/ CallAgain(w)
      PROVE  [Abstract!Next]_(Abstract!vars)
  <2>1. \A v \in Writers : v = w
    BY DEF OneWriter
  <2>2. /\ pc \in [Writers -> Running \cup Ended]
        /\ WriterInv(w)
        /\ WriterInv(w)'
    BY DEF IInv, TypeOK
  <2>3. CASE Open(w) \/ WriteBlock(w) \/ WriteShort(w) \/ Close(w) \/ CloseFails(w)
             \/ RenameFails(w)
    <3>1. pc[w] \in Running /\ pc'[w] \in Running
      BY <2>2, <2>3
      DEF Open, WriteBlock, WriteShort, Close, CloseFails, RenameFails, Running
    <3>2. answer' = answer
      BY <3>1, <2>1 DEF Answer
    <3>3. data'[target'] = data[target]
      BY <3>1, <2>2 DEF WriterInv, Running
    <3>. QED
      BY <3>2, <3>3
  <2>4. CASE OpenFails(w) \/ Remove(w)
    <3>1. pc[w] \in Running /\ pc'[w] = "false" /\ pc' = [pc EXCEPT ![w] = "false"]
      BY <2>2, <2>4 DEF OpenFails, Remove, Running
    <3>2. answer[w] = "pending" /\ answer' = [answer EXCEPT ![w] = "false"]
      BY <3>1, <2>1 DEF Answer, Running
    <3>3. data'[target'] = data[target]
      BY <3>1, <2>2 DEF WriterInv, Running
    <3>. QED
      BY <3>2, <3>3
  <2>5. CASE Kill(w)
    <3>1. pc[w] \in Running /\ pc'[w] = "killed"
      BY <2>2, <2>5 DEF Kill
    <3>2. answer[w] = "pending" /\ answer' = [answer EXCEPT ![w] = "killed"]
      BY <3>1, <2>1 DEF Answer, Running
    <3>3. data'[target'] = data[target]
      BY <3>1, <2>2 DEF WriterInv, Running
    <3>. QED
      BY <3>2, <3>3
  <2>6. CASE Rename(w)
    <3>1. pc[w] \in Running /\ pc'[w] = "true"
      BY <2>2, <2>6 DEF Rename, Running
    <3>2. answer[w] = "pending" /\ answer' = [answer EXCEPT ![w] = "true"]
      BY <3>1, <2>1 DEF Answer, Running
    <3>3. data'[target'] = NewText
      BY <3>1, <2>2 DEF WriterInv
    <3>. QED
      BY <3>2, <3>3
  <2>7. CASE CallAgain(w)
    <3>1. pc[w] \in {"false", "killed"} /\ pc'[w] = "fopen"
      BY <2>2, <2>7 DEF CallAgain
    <3>2. answer[w] \in {"false", "killed"} /\ answer' = [answer EXCEPT ![w] = "pending"]
      BY <3>1, <2>1 DEF Answer, Running
    <3>3. data[target] = OldText /\ data'[target'] = data[target]
      BY <2>7 DEF CallAgain
    <3>. QED
      BY <3>2, <3>3
  <2>. QED
    BY <1>2, <2>3, <2>4, <2>5, <2>6, <2>7 DEF Step
<1>. QED
  BY <1>1, <1>2 DEF Next

(* fs_write_file implements AtomicReplace: every system call of the function *)
(* is a stutter of the abstract specification except the one that answers,   *)
(* and of those only a rename that succeeds changes what the path holds.     *)
THEOREM WriteImplementsReplace ==
    ASSUME OneWriter
    PROVE  Spec => ReplaceIsAtomic
<1>1. IInv /\ IInv' /\ [Next]_vars => [Abstract!Next]_(Abstract!vars)
  BY StepRefines
<1>2. Spec => []IInv
  BY IInvAlways
<1>. QED
  BY <1>1, <1>2, InitRefines, PTL DEF Spec, ReplaceIsAtomic, Abstract!Spec

=============================================================================
