------------------------------ MODULE MCSource ------------------------------
(* An instance of Source for TLC: texts over the bytes at the edges of the   *)
(* classes that the validation tells apart, and texts of several lines with  *)
(* tabs and characters of two bytes.                                         *)
EXTENDS Source

Short(S, k) == UNION {[1 .. m -> S] : m \in 0 .. k}

Edges == {\h7F, \h80, \h8F, \h90, \h9F, \hA0, \hBF, \hC0}
Encoded ==
    UNION {{<<lead>> \o rest : rest \in Short(Edges, 1)} :
               lead \in {0, \h41, \h7F, \h80, \hBF, \hC0, \hC1, \hC2, \hDF, \hF5, \hFF}}
    \cup UNION {{<<lead>> \o rest : rest \in Short(Edges, 2)} : lead \in {\hE0, \hE1, \hED, \hEE, \hEF}}
    \cup UNION {{<<lead, second>> \o rest : rest \in Short({\h7F, \h80, \hBF, \hC0}, 2)} :
               <<lead, second>> \in {\hF0, \hF1, \hF3, \hF4} \X Edges}
Words == {<<>>, <<\h41>>, <<\hC3, \hA9>>, <<TAB>>, <<NL>>, <<CR, NL>>}
Lined == {a \o b \o c \o d : a \in Words, b \in Words, c \in Words, d \in {<<>>, <<NL>>, <<\h41>>}}

MCFiles == Encoded \cup Lined \cup {<<\h41>> \o s : s \in [1 .. 2 -> {0, \h41, \hC2}]}
               \cup {[j \in 1 .. k |-> \h41] : k \in 6 .. 9}
=============================================================================
