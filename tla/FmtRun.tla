------------------------------- MODULE FmtRun -------------------------------
(* `doot fmt` (src/src/cli/main.c): walk the paths named on the command      *)
(* line, and read, parse, print and replace every source file met, counting  *)
(* each as changed, clean or skipped.  The modules it composes: DiagSink is  *)
(* the sink all the files share, AtomicReplace what fs_write_file does to    *)
(* the file (FsWrite implements it).                                         *)
(*                                                                           *)
(* The text of a file is abstracted to what the formatter tells apart:       *)
(*   "canon"   parses, and prints as itself                                  *)
(*   "messy"   parses, and prints as something else                          *)
(*   "broken"  an author's text that does not parse: parsing it calls        *)
(*             diag_report at least once                                     *)
(*   "damaged" a text that fmt wrote and that does not parse                 *)
(* What is printed is not assumed to be canonical: print.c gives texts that  *)
(* a second run changes (print.c:196, :1186) and texts that the parser       *)
(* refuses (print.c:769-772), so Formatted is a choice.                      *)
(* Paths are nodes of a tree.  Nodes are numbers, and siblings compare as    *)
(* their names do (slice_cmp).                                               *)

EXTENDS DiagSink, FiniteSets

CONSTANTS
    Nodes,      \* the paths there are: a set of naturals
    Dirs,       \* those that are directories
    Kids,       \* [Dirs -> SUBSET Nodes], the entries of each
    Dot,        \* those whose name begins with a dot
    DoExt,      \* those whose name ends in .do
    Args,       \* the paths on the command line, a sequence of nodes
    MaxFaults,  \* bound: most calls of diag_report one parse makes
    MaxRuns     \* bound: how often the command is run

Files == Nodes \ Dirs
Texts == {"canon", "messy", "broken", "damaged"}
NoFile == 0

ASSUME TreeAssumption ==
    /\ Nodes \subseteq Nat \ {NoFile}
    /\ Dirs \subseteq Nodes
    /\ Kids \in [Dirs -> SUBSET Nodes]
    /\ Args \in Seq(Nodes)

ASSUME FmtBoundsAssumption == MaxFaults \in Nat \ {0} /\ MaxRuns \in Nat

VARIABLES
    text,       \* [Files -> Texts], the disk
    pc,         \* where the run is
    frames,     \* the recursion of fmt_path: what each loop has still to visit
    unread,     \* fs_read_dir: entries readdir has not returned yet
    listing,    \* fs_read_dir: the sorted list it builds
    file,       \* fmt_file: path
    before,     \* fmt_file: errors_before
    got,        \* fmt_file: the text source_from_file read
    faults,     \* calls of diag_report the parse has still to make
    sink,       \* fmt_run.sink
    visits,     \* the paths visited, each with how it ended: the three buckets
    started,    \* history: the disk when this run began
    runs        \* runs of the command so far

run == <<pc, frames, unread, listing, file, before, got, faults, sink, visits>>
vars == <<text, run, started, runs>>

Outcomes == {"changed", "clean", "skipped", "unread", "listed"}
Working == {"walk", "list", "read", "parse", "write"}

TypeOK ==
    /\ text \in [Files -> Texts]
    /\ pc \in Working \cup {"done", "killed"}
    /\ frames \in Seq(Seq(Nodes))
    /\ unread \in SUBSET Nodes
    /\ listing \in Seq(Nodes)
    /\ file \in Files \cup {NoFile}
    /\ before \in Nat
    /\ got \in Texts
    /\ faults \in 0 .. MaxFaults
    /\ sink \in SinkOf(Nodes)
    /\ visits \in Seq([path : Nodes, arg : Nat, ended : Outcomes])
    /\ started \in [Files -> Texts]
    /\ runs \in Nat

(* cmd_fmt: an empty sink, no bucket filled, the loop over argv to do. *)
Init ==
    /\ text \in [Files -> {"canon", "messy", "broken"}]
    /\ pc = "walk"
    /\ frames = <<Args>>
    /\ unread = {}
    /\ listing = <<>>
    /\ file = NoFile
    /\ before = 0
    /\ got = "canon"
    /\ faults = 0
    /\ sink = diag_sink_init
    /\ visits = <<>>
    /\ started = text
    /\ runs = 1

-----------------------------------------------------------------------------
(* Helpers.                                                                  *)

(* Fault: fs_read_dir appends, and keeps the order of readdir. *)
InsertLast(s, e) == Append(s, e)

(* insert_sorted: after the entries that compare less, before the others. *)
InsertSorted(s, e) ==
    LET smaller == Cardinality({i \in DOMAIN s : s[i] < e})
    IN  SubSeq(s, 1, smaller) \o <<e>> \o SubSeq(s, smaller + 1, Len(s))

(* fmt_unit: what the tree parsed from t may print as. *)
Formatted(t) == IF t = "canon" THEN {"canon"} ELSE {"canon", "messy", "damaged"}

(* How many diagnostics parse_unit finds to report on t. *)
FaultsOf(t) == IF t \in {"broken", "damaged"} THEN 1 .. MaxFaults ELSE {0}

(* The visit of n, and which argument it is below; the first of the loops    *)
(* left to do is the one over argv, and the others are those of fmt_path.    *)
Visited(n, ended, loops) ==
    Append(visits, [path |-> n, ended |-> ended, arg |-> Len(Args) - Len(loops[1])])

-----------------------------------------------------------------------------
(* fmt_path.                                                                 *)

Top == frames[Len(frames)]
AfterTop == [frames EXCEPT ![Len(frames)] = Tail(@)]

AtEntry == pc = "walk" /\ frames # <<>> /\ Top # <<>>

(* A directory, whose listing begins. *)
EnterDir ==
    /\ AtEntry
    /\ Head(Top) \in Dirs
    /\ pc' = "list"
    /\ frames' = AfterTop
    /\ unread' = Kids[Head(Top)]
    /\ listing' = <<>>
    /\ visits' = Visited(Head(Top), "listed", AfterTop)
    /\ UNCHANGED <<text, file, before, got, faults, sink, started, runs>>

(* opendir fails: DT1003, and the walk goes on. *)
DirFails ==
    /\ AtEntry
    /\ Head(Top) \in Dirs
    /\ frames' = AfterTop
    /\ sink' = diag_report(sink, "cannot_read_dir", Head(Top))
    /\ visits' = Visited(Head(Top), "unread", AfterTop)
    /\ UNCHANGED <<text, pc, unread, listing, file, before, got, faults, started, runs>>

(* readdir returns the entries in whatever order the filesystem likes. *)
ListEntry ==
    /\ pc = "list"
    /\ \E e \in unread :
          /\ unread' = unread \ {e}
          /\ listing' = IF e \in Dot THEN listing ELSE InsertSorted(listing, e)
    /\ UNCHANGED <<text, pc, frames, file, before, got, faults, sink, visits, started, runs>>

(* The end of fs_read_dir; the loop over what it listed begins. *)
ListDone ==
    /\ pc = "list"
    /\ unread = {}
    /\ pc' = "walk"
    /\ frames' = Append(frames, listing)
    /\ UNCHANGED <<text, unread, listing, file, before, got, faults, sink, visits, started, runs>>

(* Fault: the extension is asked of the arguments too. *)
PassOverArgs ==
    /\ AtEntry
    /\ Head(Top) \in Files \ DoExt
    /\ frames' = AfterTop
    /\ UNCHANGED <<text, pc, unread, listing, file, before, got, faults, sink, visits, started, runs>>

(* An entry that is neither a directory nor a .do file is passed over; an    *)
(* argument is formatted whatever it is called.                              *)
PassOver ==
    /\ AtEntry
    /\ Head(Top) \in Files \ DoExt
    /\ Len(frames) > 1
    /\ frames' = AfterTop
    /\ UNCHANGED <<text, pc, unread, listing, file, before, got, faults, sink, visits, started, runs>>

(* Fault: the loop over a directory starts over. *)
ReturnNowhere ==
    /\ pc = "walk"
    /\ Top = <<>>
    /\ Len(frames) = 1
    /\ pc' = "done"
    /\ UNCHANGED <<text, frames, unread, listing, file, before, got, faults, sink, visits, started, runs>>

(* The end of one loop over entries, or of the loop over argv. *)
ReturnDir ==
    /\ pc = "walk"
    /\ Top = <<>>
    /\ IF Len(frames) = 1
       THEN pc' = "done" /\ UNCHANGED frames
       ELSE pc' = pc /\ frames' = SubSeq(frames, 1, Len(frames) - 1)
    /\ UNCHANGED <<text, unread, listing, file, before, got, faults, sink, visits, started, runs>>

-----------------------------------------------------------------------------
(* fmt_file.                                                                 *)

(* Fault: a directory is taken for a file, as if it had not been asked for. *)
EnterFileAny ==
    /\ AtEntry
    /\ Len(frames) = 1 \/ Head(Top) \in DoExt
    /\ pc' = "read"
    /\ frames' = AfterTop
    /\ file' = Head(Top)
    /\ before' = diag_error_count(sink)
    /\ UNCHANGED <<text, unread, listing, got, faults, sink, visits, started, runs>>

(* A file: errors_before is taken before anything is read. *)
EnterFile ==
    /\ AtEntry
    /\ Head(Top) \in Files
    /\ Len(frames) = 1 \/ Head(Top) \in DoExt
    /\ pc' = "read"
    /\ frames' = AfterTop
    /\ file' = Head(Top)
    /\ before' = diag_error_count(sink)
    /\ UNCHANGED <<text, unread, listing, got, faults, sink, visits, started, runs>>

(* source_from_file succeeds; which diagnostics the text will draw is fixed. *)
ReadFile ==
    /\ pc = "read"
    /\ pc' = "parse"
    /\ got' = text[file]
    /\ faults' \in FaultsOf(text[file])
    /\ UNCHANGED <<text, frames, unread, listing, file, before, sink, visits, started, runs>>

(* source_from_file returns NULL: the file is gone or unreadable, too large, *)
(* or not UTF-8.  One diagnostic, and no bucket.                             *)
ReadFails ==
    /\ pc = "read"
    /\ pc' = "walk"
    /\ sink' = diag_report(sink, "cannot_read_file", file)
    /\ visits' = Visited(file, "unread", frames)
    /\ UNCHANGED <<text, frames, unread, listing, file, before, got, faults, started, runs>>

(* parse_unit calls diag_report, once for each fault it finds. *)
ParseReports ==
    /\ pc = "parse"
    /\ faults > 0
    /\ faults' = faults - 1
    /\ sink' = diag_report(sink, "syntax", file)
    /\ UNCHANGED <<text, pc, frames, unread, listing, file, before, got, visits, started, runs>>

Parsed == pc = "parse" /\ faults = 0

(* Fault: a file that did not parse is counted as already formatted. *)
SkipAsClean ==
    /\ Parsed
    /\ diag_error_count(sink) # before
    /\ pc' = "walk"
    /\ visits' = Visited(file, "clean", frames)
    /\ UNCHANGED <<text, frames, unread, listing, file, before, got, faults, sink, started, runs>>

(* The error count moved: the file did not parse, and is left alone. *)
SkipUnparsed ==
    /\ Parsed
    /\ diag_error_count(sink) # before
    /\ pc' = "walk"
    /\ visits' = Visited(file, "skipped", frames)
    /\ UNCHANGED <<text, frames, unread, listing, file, before, got, faults, sink, started, runs>>

(* What is printed is what was read: nothing is written.  The tree recovered *)
(* from a text that does not parse may print as that text too, and gets here *)
(* when the sink dropped its errors.                                         *)
AlreadyClean ==
    /\ Parsed
    /\ diag_error_count(sink) = before
    /\ got # "messy"
    /\ pc' = "walk"
    /\ visits' = Visited(file, "clean", frames)
    /\ UNCHANGED <<text, frames, unread, listing, file, before, got, faults, sink, started, runs>>

(* Fault: the error count is not looked at. *)
StartWriteUnguarded ==
    /\ Parsed
    /\ got # "canon"
    /\ pc' = "write"
    /\ UNCHANGED <<text, frames, unread, listing, file, before, got, faults, sink, visits, started, runs>>

(* What is printed differs from what was read. *)
StartWrite ==
    /\ Parsed
    /\ diag_error_count(sink) = before
    /\ got # "canon"
    /\ pc' = "write"
    /\ UNCHANGED <<text, frames, unread, listing, file, before, got, faults, sink, visits, started, runs>>

(* fs_write_file, as AtomicReplace has it: Replace ... *)
WriteFile ==
    /\ pc = "write"
    /\ pc' = "walk"
    /\ \E t \in Formatted(got) : text' = [text EXCEPT ![file] = t]
    /\ visits' = Visited(file, "changed", frames)
    /\ UNCHANGED <<frames, unread, listing, file, before, got, faults, sink, started, runs>>

(* ... or GiveUp, which reports DT1002. *)
WriteFails ==
    /\ pc = "write"
    /\ pc' = "walk"
    /\ sink' = diag_report(sink, "cannot_write_file", file)
    /\ visits' = Visited(file, "skipped", frames)
    /\ UNCHANGED <<text, frames, unread, listing, file, before, got, faults, started, runs>>

-----------------------------------------------------------------------------
Step ==
    \/ EnterDir \/ DirFails \/ ListEntry \/ ListDone \/ PassOver \/ ReturnDir
    \/ EnterFile \/ ReadFile \/ ReadFails \/ ParseReports
    \/ SkipUnparsed \/ AlreadyClean \/ StartWrite \/ WriteFile \/ WriteFails

(* The command is interrupted.  The rename may have happened already, but    *)
(* the file is not counted.                                                  *)
Kill ==
    /\ pc \in Working
    /\ pc' = "killed"
    /\ \/ UNCHANGED text
       \/ /\ pc = "write"
          /\ \E t \in Formatted(got) : text' = [text EXCEPT ![file] = t]
    /\ UNCHANGED <<frames, unread, listing, file, before, got, faults, sink, visits, started, runs>>

(* The command is run again, a new process over what the last one left. *)
RunAgain ==
    /\ pc \in {"done", "killed"}
    /\ runs < MaxRuns
    /\ pc' = "walk"
    /\ frames' = <<Args>>
    /\ unread' = {}
    /\ listing' = <<>>
    /\ file' = NoFile
    /\ before' = 0
    /\ got' = "canon"
    /\ faults' = 0
    /\ sink' = diag_sink_init
    /\ visits' = <<>>
    /\ started' = text
    /\ runs' = runs + 1
    /\ UNCHANGED text

Next == Step \/ Kill \/ RunAgain

Spec == Init /\ [][Next]_vars

(* The process is scheduled: while it is not killed it takes its next step.  *)
FairSpec == Spec /\ WF_vars(Step)

-----------------------------------------------------------------------------
(* Properties.                                                               *)

(* The exit status: EXIT_DIAGNOSTIC when the sink has errors. *)
ExitOk == ~ diag_has_errors(sink)

(* What a run over Args is to format: the arguments that are files, and the  *)
(* .do files below those that are directories, dotted names left out.        *)
Below(n) ==
    {m \in Nodes : \A S \in SUBSET Nodes :
        (n \in S /\ \A d \in S \cap Dirs : Kids[d] \ Dot \subseteq S) => m \in S}

(* Everything below x comes before y in a sorted walk.                       *)
Precedes(x, y) == \A m \in Below(x) : m < y

(* Nodes are numbered in the order of a sorted walk: a directory before its  *)
(* entries, and all that is below one entry before the next.                 *)
ASSUME NumberingAssumption ==
    \A d \in Dirs : \A k \in Kids[d] \ Dot :
        d < k /\ \A l \in Kids[d] \ Dot : k < l => Precedes(k, l)

Wanted ==
    {n \in Files : \E i \in DOMAIN Args :
        n = Args[i] \/ (Args[i] \in Dirs /\ n \in Below(Args[i]) \cap DoExt)}

(* How the visits of n ended. *)
Fate(n) == {visits[i].ended : i \in {j \in DOMAIN visits : visits[j].path = n}}

(* A run that exits 0 has done every file it was asked to format: it missed  *)
(* none, and none that it could not read, parse or write.  A file it wrote   *)
(* had parsed and was not canonical; one it did not write was canonical and  *)
(* still is.  That what it wrote is canonical is not promised by the status: *)
(* see Formatted (main.c:230).                                               *)
CleanExitMeansFormatted ==
    pc = "done" /\ ExitOk => \A n \in Wanted :
        /\ Fate(n) \subseteq {"changed", "clean"}
        /\ \/ "changed" \in Fate(n) /\ started[n] = "messy"
           \/ Fate(n) = {"clean"} /\ started[n] = "canon" /\ text[n] = "canon"

(* And a run that exits 1 met a file or a directory it could not do. *)
FailedExitMeansFailure ==
    pc = "done" /\ ~ ExitOk => \E i \in DOMAIN visits : visits[i].ended \in {"skipped", "unread"}

(* So the exit status tells what is on the disk. *)
ExitTellsTheTree == CleanExitMeansFormatted /\ FailedExitMeansFailure

(* The buckets tell the truth (main.c:77-79).  Whatever is not on the disk   *)
(* as the run found it is counted as changed, so that a file that was only   *)
(* skipped or could not be read is as the author left it, and no canonical   *)
(* file is ever skipped.  While the sink is not full, a file counted as      *)
(* clean is canonical, and one counted as changed is one that parsed and was *)
(* not canonical.                                                            *)
BucketsAreTrue ==
    pc = "done" => \A n \in Files :
        /\ text[n] # started[n] => "changed" \in Fate(n)
        /\ "skipped" \in Fate(n) => started[n] # "canon"
        /\ ~ sink.truncated =>
              /\ "clean" \in Fate(n) => text[n] = "canon"
              /\ "changed" \in Fate(n) => started[n] = "messy"

(* The walk meets the paths below an argument in the order of their names,   *)
(* each once, whatever order readdir returns them in (fs.h:43-46).           *)
VisitsInOrder ==
    \A i, j \in DOMAIN visits :
        i < j /\ visits[i].arg = visits[j].arg => visits[i].path < visits[j].path

(* So the report says what became of each file, and in that order. *)
ReportIsTrue == BucketsAreTrue /\ VisitsInOrder

(* A file that did not parse is left alone (main.c:109-116, 10-frontend.md). *)
BrokenLeftAlone ==
    [][\A n \in Files : text[n] = "broken" => text'[n] = "broken"]_vars

(* The condition under which the code keeps that promise: as long as the     *)
(* sink has not overflowed, so that every error of the file was counted.     *)
BrokenRewrittenOnlyWhenFull ==
    [][\A n \in Files : text[n] = "broken" /\ text'[n] # "broken" => sink.truncated]_vars

(* The recursion over directories and files ends. *)
EveryRunEnds == pc \in Working ~> pc \in {"done", "killed"}

=============================================================================
