----------------------------- MODULE Comments -----------------------------
(* Where the printer puts comments and blank lines (src/src/parse/print.c:   *)
(* 81-123, 171-225, 1170-1304, 1345-1370, 1442-1466, 1480-1528).  Comments   *)
(* are not in the tree: one cursor goes over their list while the items are  *)
(* printed.  A source is a sequence of tokens, an offset an index into it:   *)
(*   s           a statement, a declaration, a field or an arm               *)
(*   call a )    one whose argument the author may put on a line of its own  *)
(*   { }else{ }  a function, a group, an `if`: one or more lists of items    *)
(*   type{ }     a struct, with fields                                       *)
(*   match{ }    a match, with arms                                          *)
(*   c n         a `//` comment and a line end                               *)

EXTENDS Integers, Sequences, SequencesExt

Openers == {"{", "type{", "match{"}

-----------------------------------------------------------------------------
(* Reading.  An item has its kind, the offsets `start` and `end`, its lists  *)
(* of items, and whether its argument begins a line.  `ok` is that items of  *)
(* a list are on lines of their own and that the closers match.              *)

count_newlines(s, from, to) == Cardinality({i \in from .. to - 1 : i \in DOMAIN s /\ s[i] = "n"})
blank_line_between(s, from, to) == count_newlines(s, from, to) >= 2
spans_newline(s, from, to) == count_newlines(s, from, to) >= 1
line_of(s, offset) == count_newlines(s, 1, offset) + 1

(* A comment goes on to the end of its line, whatever stands there.          *)
InComment(s, i) == \E j \in 1 .. i : /\ s[j] = "c"
                                     /\ \A k \in j .. i : s[k] # "n"
comment_list(s) == SelectSeq([i \in DOMAIN s |-> i], LAMBDA i : s[i] = "c" /\ (i = 1 \/ ~ InComment(s, i - 1)))
Code(s) == {i \in DOMAIN s : s[i] # "n" /\ ~ InComment(s, i)}

(* The next code at or after `i`, past the end when there is none.           *)
NextCode(s, i) == Min({j \in Code(s) : j >= i} \cup {Len(s) + 1})

RECURSIVE ItemsFrom(_, _), ListsFrom(_, _)
ItemOf(s, i) ==
    LET arg == NextCode(s, i + 1)
        lists == ListsFrom(s, i + 1)
    IN IF s[i] = "s" THEN [kind |-> "s", start |-> i, end |-> i + 1, lists |-> <<>>, broken |-> FALSE, ok |-> TRUE]
       ELSE IF s[i] = "call"
       THEN [kind |-> "call", start |-> i, end |-> NextCode(s, arg + 1) + 1, lists |-> <<>>,
             broken |-> spans_newline(s, i + 1, arg), ok |-> TRUE]
       ELSE [kind |-> s[i], start |-> i, end |-> lists.at + 1, lists |-> lists.lists, broken |-> FALSE,
             ok |-> lists.ok]

ItemsFrom(s, i) ==
    LET at == NextCode(s, i)
        item == ItemOf(s, at)
        rest == ItemsFrom(s, item.end)
        apart == rest.items = <<>> \/ spans_newline(s, item.end, Head(rest.items).start)
    IN IF at > Len(s) \/ s[at] \in {"}", "}else{"} THEN [items |-> <<>>, at |-> at, ok |-> TRUE]
       ELSE [items |-> <<item>> \o rest.items, at |-> rest.at, ok |-> item.ok /\ apart /\ rest.ok]

ListsFrom(s, i) ==
    LET list == ItemsFrom(s, i)
        more == ListsFrom(s, list.at + 1)
    IN IF list.at > Len(s) THEN [lists |-> <<list.items>>, at |-> list.at, ok |-> FALSE]
       ELSE IF s[list.at] = "}" THEN [lists |-> <<list.items>>, at |-> list.at, ok |-> list.ok]
       ELSE [lists |-> <<list.items>> \o more.lists, at |-> more.at, ok |-> list.ok /\ more.ok]

parse_unit(s) == LET unit == ItemsFrom(s, 1) IN
                 [items |-> unit.items, ok |-> unit.ok /\ unit.at > Len(s)]

-----------------------------------------------------------------------------
(* Printing.  `comment` is what is left of the list, `last_end` zero before  *)
(* anything is printed.                                                      *)

UnitStart(s) == [out |-> <<>>, comment |-> comment_list(s), last_end |-> 0]
AtLineStart(p) == p.out = <<>> \/ Last(p.out) = "n"
Put(p, tokens) == [p EXCEPT !.out = @ \o tokens]
mark_end(p, end) == [p EXCEPT !.last_end = end]
BlankBefore(s, p, offset) == IF p.last_end > 0 /\ blank_line_between(s, p.last_end, offset) THEN <<"n">> ELSE <<>>

Took(p, c) == [p EXCEPT !.comment = Tail(@), !.last_end = c + 1]

pr_comments_before(s, p, offset) ==
    FoldLeft(LAMBDA q, c : IF c < offset THEN Took(Put(q, BlankBefore(s, q, c) \o <<"c", "n">>), c) ELSE q,
             p, p.comment)

(* Fault: the cursor stays. *)
pr_trailing_again(s, p, end) ==
    IF p.comment = <<>> \/ Head(p.comment) < end \/ line_of(s, Head(p.comment)) # line_of(s, end) THEN p
    ELSE Put(p, <<"c">>)

pr_trailing_comment(s, p, end) ==
    IF p.comment = <<>> \/ Head(p.comment) < end \/ line_of(s, Head(p.comment)) # line_of(s, end) THEN p
    ELSE Took(Put(p, <<"c">>), Head(p.comment))

RECURSIVE pr_item(_, _, _)

(* An item of the unit, of a block or of a group, on a line of its own: what *)
(* stands above it, itself, what follows it.                                 *)
pr_listed(s, p, item, first) ==
    LET above == pr_comments_before(s, p, item.start)
        had_comment == above.comment # p.comment
        spaced == IF had_comment \/ ~ first THEN Put(above, BlankBefore(s, above, item.start)) ELSE above
    IN pr_trailing_comment(s, mark_end(pr_item(s, spaced, item), item.end), item.end)

pr_block(s, p, items) ==
    FoldLeftDomain(LAMBDA q, i : pr_listed(s, Put(q, <<"n">>), items[i], i = 1), p, items)

pr_struct_fields(s, p, items) ==
    FoldLeft(LAMBDA q, f : LET above == pr_comments_before(s, Put(q, <<"n">>), f.start) IN
                           pr_trailing_comment(s, mark_end(pr_item(s, above, f), f.end), f.end), p, items)

(* Arms are printed without a look at the comments.                          *)
pr_arms(s, p, items) == FoldLeft(LAMBDA q, arm : pr_item(s, Put(q, <<"n">>), arm), p, items)

pr_item(s, p, item) ==
    LET line == IF item.broken THEN <<"n">> ELSE <<>>
        block(q, list) == IF list = <<>> THEN q ELSE Put(pr_block(s, q, list), <<"n">>)
    IN CASE item.kind = "s" -> Put(p, <<"s">>)
         [] item.kind = "call" -> Put(p, <<"call">> \o line \o <<"a">> \o line \o <<")">>)
         [] item.kind = "type{" -> Put(pr_struct_fields(s, Put(p, <<"type{">>), item.lists[1]), <<"n", "}">>)
         [] item.kind = "match{" -> Put(pr_arms(s, Put(p, <<"match{">>), item.lists[1]), <<"n", "}">>)
         [] OTHER ->
              Put(FoldLeftDomain(LAMBDA q, i : block(IF i = 1 THEN q ELSE Put(q, <<"}else{">>), item.lists[i]),
                                 Put(p, <<"{">>), item.lists), <<"}">>)

(* fmt_unit: what the last item leaves of the comments, and one line end.    *)
fmt_unit(s, items) ==
    LET listed == FoldLeftDomain(LAMBDA p, i : pr_listed(s, IF i = 1 THEN p ELSE Put(p, <<"n">>), items[i], i = 1),
                                 UnitStart(s), items)
        rest == FoldLeft(LAMBDA p, c : Took(Put(p, BlankBefore(s, p, c) \o <<"n", "c">>), c), listed, listed.comment)
    IN IF AtLineStart(rest) THEN rest.out ELSE Append(rest.out, "n")
=============================================================================
