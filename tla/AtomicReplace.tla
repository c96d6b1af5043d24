--------------------------- MODULE AtomicReplace ---------------------------
(* What fs.h promises of fs_write_file: the file at `path` is replaced as a  *)
(* whole or not at all, and the answer says which.  The comment reads "an    *)
(* interrupted or failing write leaves the original intact".  No temporary,  *)
(* no descriptor, no partly written text exists at this level: the detailed  *)
(* protocol is FsWrite, which implements this module.                        *)

CONSTANTS
    Writers,    \* the calls of fs_write_file, one at a time per writer
    OldText,    \* what the file holds before
    NewText     \* what every call wants it to hold

VARIABLES
    content,    \* what a reader of `path` sees
    answer      \* per writer: "pending", or how its call ended

vars == <<content, answer>>

Answers == {"pending", "true", "false", "killed"}

Init ==
    /\ content = OldText
    /\ answer = [w \in Writers |-> "pending"]

(* The call returns true: the new text is in place, all of it. *)
Replace(w) ==
    /\ answer[w] = "pending"
    /\ content' = NewText
    /\ answer' = [answer EXCEPT ![w] = "true"]

(* The call returns false (DT1002), or its process dies: the file still      *)
(* holds what it held.                                                       *)
GiveUp(w) ==
    /\ answer[w] = "pending"
    /\ \E a \in {"false", "killed"} : answer' = [answer EXCEPT ![w] = a]
    /\ UNCHANGED content

(* A later run tries again the file that an earlier one left as it was. *)
TryAgain(w) ==
    /\ answer[w] \in {"false", "killed"}
    /\ content = OldText
    /\ answer' = [answer EXCEPT ![w] = "pending"]
    /\ UNCHANGED content

Next == \E w \in Writers : Replace(w) \/ GiveUp(w) \/ TryAgain(w)

Spec == Init /\ [][Next]_vars

=============================================================================
