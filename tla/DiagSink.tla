------------------------------ MODULE DiagSink ------------------------------
(* The diagnostic sink (src/src/base/diag.c) that one run of the compiler    *)
(* shares between its phases and its files: a list that keeps the first      *)
(* DiagLimit diagnostics and then only remembers that there were more.       *)
(*                                                                           *)
(* A diagnostic is its code and the node it is about; message, span, labels  *)
(* and fix are left out.  Every code of the registry has severity DIAG_ERROR *)
(* (diag_codes.h), so `warnings` stays 0 and is left out too.                *)

EXTENDS Naturals, Sequences

CONSTANT DiagLimit      \* 100 in the code (DIAG_DEFAULT_LIMIT)

ASSUME DiagLimitAssumption == DiagLimit \in Nat \ {0}

Codes == {"syntax", "cannot_read_file", "cannot_read_dir", "cannot_write_file"}

SinkOf(subjects) ==
    [list : Seq([code : Codes, about : subjects]), errors : Nat, truncated : BOOLEAN]

diag_sink_init == [list |-> <<>>, errors |-> 0, truncated |-> FALSE]

(* A full sink drops the diagnostic, and does not count it as an error. *)
diag_report(s, code, about) ==
    IF Len(s.list) >= DiagLimit
    THEN [s EXCEPT !.truncated = TRUE]
    ELSE [s EXCEPT !.list = Append(@, [code |-> code, about |-> about]),
                   !.errors = @ + 1]

diag_error_count(s) == s.errors

diag_has_errors(s) == s.errors # 0

=============================================================================
