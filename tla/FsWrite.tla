------------------------------ MODULE FsWrite ------------------------------
(* fs_write_file (src/src/base/fs.c): write a sibling temporary file, close  *)
(* it, rename it over the target, and remove it when a step fails.  One      *)
(* action per system call the function makes, so that another process, a     *)
(* failing call or a kill can come between any two of them.                  *)
(*                                                                           *)
(* A directory is two names of interest, `path` and `path`.dootfmt, each     *)
(* bound to an inode; an inode outlives its name while a stream is open on   *)
(* it.  A text is a sequence of blocks, the unit in which the C library      *)
(* hands data to the system.                                                 *)

EXTENDS Naturals, Sequences

CONSTANTS
    Writers,    \* processes inside fs_write_file(path, NewText)
    Inodes,     \* inodes the filesystem can allocate
    NoInode,    \* what a name, or a stream that is not open, refers to
    OldText,    \* what the target held when the writers read it
    NewText,    \* the canonical text they all want there
    Hole,       \* a block of zeros, left by writing past the end
    MaxRetries  \* bound: how many of the calls repeat one that did not replace

Blocks == {NewText[i] : i \in DOMAIN NewText}
              \cup {OldText[i] : i \in DOMAIN OldText} \cup {Hole}

ASSUME TextAssumption ==
    /\ NewText \in Seq(Blocks)
    /\ OldText \in Seq(Blocks)
    /\ OldText # NewText          \* fmt_file writes only when they differ

ASSUME InodeAssumption == NoInode \notin Inodes

ASSUME BoundAssumption == MaxRetries \in Nat

VARIABLES
    target,     \* the inode `path` names
    tmp,        \* the inode `path`.dootfmt names, or NoInode
    data,       \* [Inodes -> text]
    pc,         \* per writer: the call fs_write_file makes next, or its answer
    fd,         \* per writer: the inode its stream is open on, or NoInode
    off,        \* per writer: how many blocks its stream has written
    retries     \* calls that repeated one so far

vars == <<target, tmp, data, pc, fd, off, retries>>

Running == {"fopen", "fwrite", "rename", "remove"}
Ended   == {"true", "false", "killed"}

TypeOK ==
    /\ target \in Inodes
    /\ tmp \in Inodes \cup {NoInode}
    /\ data \in [Inodes -> Seq(Blocks)]
    /\ pc \in [Writers -> Running \cup Ended]
    /\ fd \in [Writers -> Inodes \cup {NoInode}]
    /\ off \in [Writers -> 0 .. Len(NewText)]
    /\ retries \in Nat

Init ==
    /\ target \in Inodes
    /\ tmp = NoInode
    /\ data = [i \in Inodes |-> IF i = target THEN OldText ELSE <<>>]
    /\ pc = [w \in Writers |-> "fopen"]
    /\ fd = [w \in Writers |-> NoInode]
    /\ off = [w \in Writers |-> 0]
    /\ retries = 0

-----------------------------------------------------------------------------
(* The filesystem.                                                           *)

(* An inode no name and no stream refers to. *)
Free(i) == i # target /\ i # tmp /\ \A w \in Writers : fd[w] # i

(* The text t after block b is written at position k: writing past the end   *)
(* leaves a hole, as lseek and write do on a file another process truncated. *)
PutAt(t, k, b) ==
    [i \in 1 .. (IF k > Len(t) THEN k ELSE Len(t)) |->
        IF i = k THEN b ELSE IF i <= Len(t) THEN t[i] ELSE Hole]

-----------------------------------------------------------------------------
(* The system calls of one writer.                                           *)

(* fopen(ctmp, "wb"): a temporary that is there already, left by a killed    *)
(* run or in use by another one, is truncated; otherwise a new inode is made.*)
Open(w) ==
    /\ pc[w] = "fopen"
    /\ \E i \in Inodes :
          /\ i = tmp \/ (tmp = NoInode /\ Free(i))
          /\ tmp' = i
          /\ data' = [data EXCEPT ![i] = <<>>]
          /\ fd' = [fd EXCEPT ![w] = i]
    /\ off' = [off EXCEPT ![w] = 0]
    /\ pc' = [pc EXCEPT ![w] = "fwrite"]
    /\ UNCHANGED <<target, retries>>

(* fopen fails: DT1002, and nothing has been touched. *)
OpenFails(w) ==
    /\ pc[w] = "fopen"
    /\ pc' = [pc EXCEPT ![w] = "false"]
    /\ UNCHANGED <<target, tmp, data, fd, off, retries>>

(* One block reaches the file, from fwrite or from the flush of fclose. *)
WriteBlock(w) ==
    /\ pc[w] = "fwrite"
    /\ off[w] < Len(NewText)
    /\ off' = [off EXCEPT ![w] = @ + 1]
    /\ data' = [data EXCEPT ![fd[w]] = PutAt(@, off[w] + 1, NewText[off[w] + 1])]
    /\ UNCHANGED <<target, tmp, pc, fd, retries>>

(* fwrite comes short.  The `||` of the code skips fclose: the stream stays  *)
(* open on the temporary's inode.                                            *)
WriteShort(w) ==
    /\ pc[w] = "fwrite"
    /\ off[w] < Len(NewText)
    /\ pc' = [pc EXCEPT ![w] = "remove"]
    /\ UNCHANGED <<target, tmp, data, fd, off, retries>>

(* Fault: what fwrite returned is not compared with the length. *)
CloseUnchecked(w) ==
    /\ pc[w] = "fwrite"
    /\ fd' = [fd EXCEPT ![w] = NoInode]
    /\ pc' = [pc EXCEPT ![w] = "rename"]
    /\ UNCHANGED <<target, tmp, data, off, retries>>

(* fclose succeeds once every block is out. *)
Close(w) ==
    /\ pc[w] = "fwrite"
    /\ off[w] = Len(NewText)
    /\ fd' = [fd EXCEPT ![w] = NoInode]
    /\ pc' = [pc EXCEPT ![w] = "rename"]
    /\ UNCHANGED <<target, tmp, data, off, retries>>

(* fclose fails to flush what fwrite only buffered; it closes all the same. *)
CloseFails(w) ==
    /\ pc[w] = "fwrite"
    /\ fd' = [fd EXCEPT ![w] = NoInode]
    /\ pc' = [pc EXCEPT ![w] = "remove"]
    /\ UNCHANGED <<target, tmp, data, off, retries>>

(* rename(ctmp, cpath): one atomic step of the filesystem; the function      *)
(* returns true.                                                             *)
Rename(w) ==
    /\ pc[w] = "rename"
    /\ tmp # NoInode
    /\ target' = tmp
    /\ tmp' = NoInode
    /\ pc' = [pc EXCEPT ![w] = "true"]
    /\ UNCHANGED <<data, fd, off, retries>>

(* rename fails, as it must when the temporary is no longer there. *)
RenameFails(w) ==
    /\ pc[w] = "rename"
    /\ pc' = [pc EXCEPT ![w] = "remove"]
    /\ UNCHANGED <<target, tmp, data, fd, off, retries>>

(* Fault: the clean-up removes cpath. *)
RemoveTarget(w) ==
    /\ pc[w] = "remove"
    /\ target' = NoInode
    /\ pc' = [pc EXCEPT ![w] = "false"]
    /\ UNCHANGED <<tmp, data, fd, off, retries>>

(* Fault: the clean-up starts over instead of returning. *)
RemoveThenRetry(w) ==
    /\ pc[w] = "remove"
    /\ tmp' = NoInode
    /\ pc' = [pc EXCEPT ![w] = "fopen"]
    /\ UNCHANGED <<target, data, fd, off, retries>>

(* (void)remove(ctmp), whose own failure is ignored; then DT1002 and false. *)
Remove(w) ==
    /\ pc[w] = "remove"
    /\ tmp' \in {tmp, NoInode}
    /\ pc' = [pc EXCEPT ![w] = "false"]
    /\ UNCHANGED <<target, data, fd, off, retries>>

Step(w) ==
    \/ Open(w) \/ OpenFails(w)
    \/ WriteBlock(w) \/ WriteShort(w)
    \/ Close(w) \/ CloseFails(w)
    \/ Rename(w) \/ RenameFails(w)
    \/ Remove(w)

-----------------------------------------------------------------------------
(* The world around it.                                                      *)

(* The process is interrupted; the system closes its stream unflushed and    *)
(* leaves the names as they are.                                             *)
Kill(w) ==
    /\ pc[w] \in Running
    /\ pc' = [pc EXCEPT ![w] = "killed"]
    /\ fd' = [fd EXCEPT ![w] = NoInode]
    /\ UNCHANGED <<target, tmp, data, off, retries>>

(* A later run, in a process of its own, finds the file not canonical yet    *)
(* and calls fs_write_file again.                                            *)
CallAgain(w) ==
    /\ pc[w] \in {"false", "killed"}
    /\ retries < MaxRetries
    /\ data[target] = OldText
    /\ retries' = retries + 1
    /\ pc' = [pc EXCEPT ![w] = "fopen"]
    /\ fd' = [fd EXCEPT ![w] = NoInode]
    /\ UNCHANGED <<target, tmp, data, off>>

Next == \E w \in Writers : Step(w) \/ Kill(w) \/ CallAgain(w)

Spec == Init /\ [][Next]_vars

(* No system call blocks for ever, so a process inside the function makes    *)
(* progress until it returns or is killed.                                   *)
FairSpec == Spec /\ \A w \in Writers : WF_vars(Step(w))

-----------------------------------------------------------------------------
(* Properties.                                                               *)

(* fs_write_file seen from outside: what `path` holds and what was answered. *)
Answer(w) == IF pc[w] \in Running THEN "pending" ELSE pc[w]

Abstract == INSTANCE AtomicReplace WITH
                content <- data[target],
                answer  <- [w \in Writers |-> Answer(w)]

(* Replacing a file is atomic (fs.h:57-60): whatever fails, wherever the     *)
(* process dies and whatever temporary an earlier run left, `path` goes from *)
(* the old text to the new one in a single step, the step that answers true. *)
ReplaceIsAtomic == Abstract!Spec

(* The same promise as a state predicate: a reader of `path` sees the        *)
(* original or its replacement, whole (fs.h:57: "an interrupted or failing   *)
(* write leaves the original intact").                                       *)
OriginalIntact == data[target] \in {OldText, NewText}

(* What is left of it when several processes replace the same file and all   *)
(* of them have returned or died: they share the name of the temporary, so   *)
(* one of them may truncate the file that another is about to rename.        *)
IntactAtRest == (\A w \in Writers : pc[w] \in Ended) => OriginalIntact

(* A call answers or is killed: no failure loops between the system calls.   *)
EveryCallEnds == \A w \in Writers : pc[w] \in Running ~> pc[w] \in Ended

=============================================================================
