------------------------------ MODULE Markup ------------------------------
(* The layout of a markup literal by the printer (src/src/parse/print.c:     *)
(* 899-1144) and its parser (parse.c:1297-1645).  A literal is a sequence of *)
(* tokens of width one.  A node is a text, a leaf (an interpolation, a       *)
(* comment, a void element), or an opening token with a list of nodes for    *)
(* each of its bodies.  `{for}` is laid out as `{if}`, and the names, the    *)
(* values and the expressions are left out.                                  *)

EXTENDS Integers, Sequences, SequencesExt

CONSTANT FMT_WRAP_COLUMN

Blank == {" ", "\n"}
TextTokens == Blank \cup {"x"}
LeafTokens == {"${}", "<!>", "<br>", "<br/>"}
OpenTokens == {"<t>", "<pre>", "<a", "{if}"}
CloseOf == [open \in OpenTokens |-> IF open = "<t>" THEN "</t>"
                                    ELSE IF open = "<pre>" THEN "</pre>"
                                    ELSE IF open = "<a" THEN "</a>" ELSE "{end}"]

IsText(m) == m[1] \in TextTokens
slice_has_newline(text) == "\n" \in ToSet(text)

-----------------------------------------------------------------------------
(* Reading: the nodes that begin at `i`, and where they end.                 *)

RunEnd(s, i, set) == CHOOSE j \in i .. Len(s) + 1 :
                        /\ \A k \in i .. j - 1 : s[k] \in set
                        /\ j = Len(s) + 1 \/ s[j] \notin set

RECURSIVE parse_markup_children(_, _), Bodies(_, _)
parse_markup_children(s, i) ==
    LET cons(m, at) == LET rest == parse_markup_children(s, at) IN
                       [kids |-> <<m>> \o rest.kids, at |-> rest.at]
        stop == RunEnd(s, i, TextTokens)
        inside == RunEnd(s, i + 1, Blank \cup {"k"})
        first == IF i <= Len(s) /\ s[i] = "<a" THEN inside + 1 ELSE i + 1
        body == Bodies(s, first)
    IN CASE i <= Len(s) /\ s[i] \in TextTokens -> cons(SubSeq(s, i, stop - 1), stop)
         [] i <= Len(s) /\ s[i] \in LeafTokens -> cons(<<s[i]>>, i + 1)
         [] i <= Len(s) /\ s[i] \in OpenTokens -> cons(<<s[i]>> \o body.lists, body.at)
         [] OTHER -> [kids |-> <<>>, at |-> i]

(* The bodies of one node and past its closing token.                        *)
Bodies(s, i) ==
    LET body == parse_markup_children(s, i)
        rest == Bodies(s, body.at + 1)
    IN IF body.at <= Len(s) /\ s[body.at] = "{else}"
       THEN [lists |-> <<body.kids>> \o rest.lists, at |-> rest.at]
       ELSE [lists |-> <<body.kids>>, at |-> body.at + 1]

-----------------------------------------------------------------------------
(* Printing.  The printer holds the output, the indent, where the line it    *)
(* began last starts, and whether there is nothing on it yet.                *)

PageStart == [out |-> <<"=">>, indent |-> 1, line_start |-> 0, at_line_start |-> FALSE]

pr_nl(p) == [p EXCEPT !.out = Append(@, "\n"), !.line_start = Len(p.out) + 1, !.at_line_start = TRUE]
Indented(p, by) == [p EXCEPT !.indent = @ + by]
pr_slice(p, s) ==
    IF s = <<>> THEN p
    ELSE [p EXCEPT !.out = @ \o (IF p.at_line_start THEN [i \in 1 .. 2 * p.indent |-> " "] ELSE <<>>) \o s,
                   !.at_line_start = FALSE]

(* A line end in a text that is printed as it is begins no line here, and    *)
(* the indent is not in the output yet when the tag begins its line.         *)
pr_column(p) == Len(p.out) - p.line_start

(* The tag `<a` has two attributes, each of width two with its blank.        *)
Wraps(p) == pr_column(p) + 1 + 1 + 4 + 2 > FMT_WRAP_COLUMN

pr_markup_attrs(p) ==
    LET attr(q) == pr_slice(pr_nl(q), <<"k">>) IN
    IF Wraps(p) THEN pr_slice(pr_nl(Indented(attr(attr(Indented(pr_slice(p, <<"<a">>), 1))), -1)), <<">">>)
    ELSE pr_slice(p, <<"<a", " ", "k", " ", "k", ">">>)

(* Fault: the blanks before the first of them stay. *)
slice_trim_end(s) ==
    LET solid == {i \in DOMAIN s : s[i] \notin Blank} IN
    IF solid = {} THEN <<>> ELSE SubSeq(s, 1, Max(solid))

slice_trim_ascii(s) ==
    LET solid == {i \in DOMAIN s : s[i] \notin Blank} IN
    IF solid = {} THEN <<>> ELSE SubSeq(s, Min(solid), Max(solid))

pr_markup_text_lines(p, text) ==
    LET breaks == <<0>> \o SelectSeq([i \in DOMAIN text |-> i], LAMBDA i : text[i] = "\n") \o <<Len(text) + 1>>
        line(i) == slice_trim_ascii(SubSeq(text, breaks[i] + 1, breaks[i + 1] - 1))
    IN FoldLeftDomain(LAMBDA q, i : IF i = Len(breaks) \/ line(i) = <<>> THEN q
                                    ELSE pr_slice(pr_nl(q), line(i)), p, breaks)

list_is_multiline(kids) == \E i \in DOMAIN kids : IsText(kids[i]) /\ slice_has_newline(kids[i])

RECURSIVE pr_markup(_, _)
pr_markup_children(p, kids) ==
    LET multiline == list_is_multiline(kids)
        child(q, m) == IF ~ IsText(m) THEN pr_markup(IF multiline THEN pr_nl(q) ELSE q, m)
                       ELSE IF slice_has_newline(m) THEN pr_markup_text_lines(q, m)
                       ELSE pr_slice(q, m)
        all == FoldLeft(child, Indented(p, IF multiline THEN 1 ELSE 0), kids)
    IN IF multiline THEN pr_nl(Indented(all, -1)) ELSE all

(* Fault: the children of a raw text element are laid out as any other. *)
pr_raw_lines(p, kids) == pr_markup_children(p, kids)

(* The children of a raw text element are printed one after the other.       *)
pr_raw(p, kids) == FoldLeft(LAMBDA q, m : IF IsText(m) THEN pr_slice(q, m) ELSE pr_markup(q, m), p, kids)

pr_markup(p, m) ==
    LET arms(q) == FoldLeftDomain(LAMBDA r, i : IF i = 1 THEN r
                                  ELSE pr_markup_children(IF i = 2 THEN r ELSE pr_slice(r, <<"{else}">>), m[i]), q, m)
    IN CASE m[1] \in {"<br>", "<br/>"} -> pr_slice(p, <<"<br/>">>)
         [] m[1] \in LeafTokens -> pr_slice(p, <<m[1]>>)
         [] m[1] = "<pre>" -> pr_slice(pr_raw(pr_slice(p, <<"<pre>">>), m[2]), <<"</pre>">>)
         [] m[1] = "<a" -> pr_slice(arms(pr_markup_attrs(p)), <<"</a>">>)
         [] OTHER -> pr_slice(arms(pr_slice(p, <<m[1]>>)), <<CloseOf[m[1]]>>)

-----------------------------------------------------------------------------
(* The text of an author who puts every blank in a text.                     *)
RECURSIVE Verbatim(_)
Verbatim(m) ==
    LET lists == [i \in 1 .. Len(m) - 1 |-> (IF i = 1 THEN <<>> ELSE <<"{else}">>)
                                           \o FlattenSeq([j \in DOMAIN m[i + 1] |-> Verbatim(m[i + 1][j])])]
    IN IF IsText(m) THEN m
       ELSE IF m[1] \in LeafTokens THEN <<m[1]>>
       ELSE (IF m[1] = "<a" THEN <<"<a", " ", "k", " ", "k", ">">> ELSE <<m[1]>>)
            \o FlattenSeq(lists) \o <<CloseOf[m[1]]>>

-----------------------------------------------------------------------------
(* What a page shows: runs of blanks collapse to one, except in a raw text   *)
(* element.                                                                  *)
RECURSIVE Shown(_, _)
Shown(kids, raw) ==
    LET verbatim == [t \in TextTokens |-> CASE t = " " -> "blank" [] t = "\n" -> "line end" [] OTHER -> t]
        text(m) == IF raw THEN [i \in DOMAIN m |-> verbatim[m[i]]] ELSE m
        bodies(m) == FlattenSeq([i \in 1 .. Len(m) - 1 |-> Append(Shown(m[i + 1], raw \/ m[1] = "<pre>"), "|")])
    IN FlattenSeq([i \in DOMAIN kids |->
          IF IsText(kids[i]) THEN text(kids[i])
          ELSE <<IF kids[i][1] = "<br>" THEN "<br/>" ELSE kids[i][1]>> \o bodies(kids[i])])

Collapsed(shown) ==
    FoldLeft(LAMBDA page, t : IF t \notin Blank THEN Append(page, t)
                              ELSE IF page # <<>> /\ Last(page) = " " THEN page
                              ELSE Append(page, " "), <<>>, shown)
Page(kids) == Collapsed(Shown(kids, FALSE))
=============================================================================
