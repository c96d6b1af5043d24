------------------------------ MODULE Printer ------------------------------
(* What `doot fmt` makes of a file, and of what it made of it: the file is   *)
(* parsed, printed when nothing was reported (src/src/cli/main.c:100-121),   *)
(* and the outcome is parsed and printed once more.  A job is one kind of    *)
(* text: the value of a `let` or the condition of an `if` (Expr), a markup   *)
(* literal (Markup), the items and comments of a file (Comments).            *)

EXTENDS Expr, Markup, Comments

CONSTANTS Values, Conditions,   \* the trees of the expressions an author writes
          Literals,             \* the nodes of the markup literals
          Units                 \* the token sequences of the files

VARIABLES kind, texts, trees, pc
vars == <<kind, texts, trees, pc>>

Kinds == {"value", "condition", "markup", "unit"}

(* Nothing is left to the precedence in the text of the author.              *)
Written(e, after) == Append(pr_expr(e, 1, TRUE), after)

Init ==
    /\ trees = <<>>
    /\ pc = "parse"
    /\ \/ kind = "value" /\ \E e \in Values : texts = <<Written(e, "NL")>>
       \/ kind = "condition" /\ \E e \in Conditions : texts = <<Written(e, "{")>>
       \/ kind = "markup" /\ \E l \in Literals : texts = <<<<"=">> \o Verbatim(l)>>
       \/ kind = "unit" /\ \E u \in Units : texts = <<u>>

Text == Last(texts)

(* What the parser makes of a text; an expression ends where it is expected. *)
Parsed ==
    LET e == parse_expr(Text, 1, kind = "condition") IN
    CASE kind = "markup" -> [tree |-> parse_markup_children(Text, 2).kids, ok |-> TRUE]
      [] kind = "unit" -> LET unit == parse_unit(Text) IN [tree |-> unit.items, ok |-> unit.ok]
      [] OTHER -> [tree |-> e.e, ok |-> e.ok /\ e.at = Len(Text)]

Printed ==
    CASE kind = "markup" -> pr_markup(PageStart, Last(trees)[1]).out
      [] kind = "unit" -> fmt_unit(Text, Last(trees))
      [] OTHER -> Append(pr_expr(Last(trees), 1, FALSE), Last(Text))

Parse ==
    /\ pc = "parse"
    /\ trees' = IF Parsed.ok THEN Append(trees, Parsed.tree) ELSE trees
    /\ pc' = IF Parsed.ok THEN "print" ELSE "refused"
    /\ UNCHANGED <<kind, texts>>

Format ==
    /\ pc = "print"
    /\ texts' = Append(texts, Printed)
    /\ pc' = IF Len(texts) = 2 THEN "done" ELSE "parse"
    /\ UNCHANGED <<kind, trees>>

Stop == pc \in {"refused", "done"} /\ UNCHANGED vars

Next == Parse \/ Format \/ Stop
Spec == Init /\ [][Next]_vars

-----------------------------------------------------------------------------
(* Expressions                                                               *)

IsExpr == kind \in {"value", "condition"}
Reread == Len(texts) = 2 /\ pc # "parse"

RECURSIVE Nodes(_), Exposed(_), Folded(_)
Nodes(e) == {e} \cup UNION {Nodes(e[i]) : i \in 2 .. Len(e)}

(* The nodes that are read with no_struct set when e is a condition.         *)
Exposed(e) ==
    {e} \cup UNION {Exposed(Operand(e, Parts(e)[j])) :
                       j \in {j \in Operands(e) : /\ e[1] # "markup"
                                                  /\ expr_prec(Operand(e, Parts(e)[j])) >= Parts(e)[j].least}}

(* A sign before a number becomes part of it.                                *)
Folded(e) == IF e = <<"neg", <<"int">>>> THEN <<"neg_int">>
             ELSE [i \in DOMAIN e |-> IF i = 1 THEN e[1] ELSE Folded(e[i])]

StartsWith(s, tokens) == Looking(s, 1, tokens)
Bare(e, least) == pr_expr(e, least, FALSE)

(* What the precedence does not tell: a comparison compared, a signed number *)
(* with something applied to it, a fallback that reads as a block, a call of *)
(* an index, a struct or an `else` before the block of a condition.          *)
Slips(e) ==
    \/ \E n \in Nodes(e) :
          \/ n[1] = "eq" /\ n[2][1] = "eq"
          \/ n[1] \in DOMAIN PostfixForms /\ n[2][1] = "neg_int"
          \/ n[1] = "neg" /\ StartsWith(Bare(n[2], NEG), <<"INT">>) /\ n[2] # <<"int">>
          \/ n[1] = "coalesce" /\ \/ StartsWith(Bare(n[3], COALESCE), <<"{">>)
                                  \/ StartsWith(Bare(n[3], COALESCE), <<"IDENT", "{">>)
          \/ n[1] \in {"call", "call1"} /\ n[2][1] = "index"
    \/ /\ kind = "condition"
       /\ \/ \E n \in Exposed(e) : n[1] \in {"struct", "struct1"}
          \/ IsSuffix(<<"else", "IDENT">>, Bare(e, COALESCE))

(* What is printed is accepted and reads as what was written: the printer    *)
(* puts back the parentheses the tree requires (pr_expr, parse_expr).        *)
MeaningKept ==
    IsExpr /\ Reread => pc = "print" /\ Folded(trees[2]) = Folded(trees[1])

(* So it is for every tree without one of these.                             *)
MeaningKeptBarSlips == IsExpr /\ Reread /\ ~ Slips(trees[1]) => MeaningKept

(* The group that a parenthesis opens, and the text without the pair.        *)
CloserOf(s, i) == Min({j \in i + 1 .. Len(s) : Cardinality({k \in i .. j : s[k] = "("})
                                               = Cardinality({k \in i .. j : s[k] = ")"})})
Without(s, i) == RemoveAt(RemoveAt(s, CloserOf(s, i)), i)

(* And only those: what is printed reads differently, or not at all, without *)
(* any pair in it.  A lambda is put in parentheses wherever it is an operand.*)
NoIdleParentheses ==
    IsExpr /\ Reread /\ pc = "print" =>
        \A i \in DOMAIN Text :
            Text[i] = "(" /\ Text[i + 1] # "fn()" =>
                LET r == parse_expr(Without(Text, i), 1, kind = "condition") IN
                ~ r.ok \/ r.at # Len(Text) - 2 \/ r.e # trees[2]

(* "Exactly the ones the tree requires" (docs/10-frontend.md:432).           *)
ExactParentheses == MeaningKeptBarSlips /\ NoIdleParentheses

-----------------------------------------------------------------------------
(* Pages                                                                     *)

(* What a page shows is the same before and after: lines are re-indented,    *)
(* and nothing in a literal is put on another line (pr_markup_children).     *)
PageKept == Page(trees[2]) = Page(trees[1])

(* In a list of nodes on several lines there is one of `blanks` wherever the *)
(* printer begins a line.                                                    *)
SpacedBy(blanks, kids) ==
    list_is_multiline(kids) =>
        /\ IsText(kids[1]) /\ kids[1][1] \in Blank
        /\ IsText(Last(kids)) /\ Last(Last(kids)) \in Blank
        /\ \A i \in 1 .. Len(kids) - 1 : \/ IsText(kids[i]) /\ Last(kids[i]) \in blanks
                                         \/ IsText(kids[i + 1]) /\ kids[i + 1][1] \in blanks

(* Below a raw text element nothing is on several lines but its own list.    *)
RECURSIVE Spaced(_, _, _)
Spaced(blanks, m, raw) ==
    \A i \in 2 .. Len(m) :
        /\ m[1] = "<pre>" \/ IF raw THEN ~ list_is_multiline(m[i]) ELSE SpacedBy(blanks, m[i])
        /\ \A j \in DOMAIN m[i] : IsText(m[i][j]) \/ Spaced(blanks, m[i][j], raw \/ m[1] = "<pre>")

(* So it is for a literal that has blanks wherever the printer begins a line.*)
PageKeptWhenSpaced ==
    kind = "markup" /\ Reread /\ Spaced(Blank, trees[1][1], FALSE) => PageKept

-----------------------------------------------------------------------------
(* Files                                                                     *)

CodeTokens(s) == LET at == SelectSeq([i \in DOMAIN s |-> i], LAMBDA i : i \in Code(s)) IN
                 [k \in DOMAIN at |-> s[at[k]]]

(* The items the printer looks for comments at.                              *)
RECURSIVE Listed(_)
Listed(items) == UNION {
    {items[i]} \cup UNION {IF items[i].kind = "match{"
                           THEN UNION {Listed(arm.lists[1]) : arm \in {a \in ToSet(l) : a.lists # <<>>}}
                           ELSE Listed(l) : l \in ToSet(items[i].lists)} : i \in DOMAIN items}

(* The code before a comment, and whether it stands on the line of it.       *)
Place(s, c) == [after |-> Cardinality({i \in Code(s) : i < c}),
                trailing |-> \E i \in Code(s) : i < c /\ ~ spans_newline(s, i, c)]

(* A comment that the cursor meets where it stands: before an item, or after *)
(* the one item that ends on its line, when no comment is held back there.   *)
RECURSIVE Attached(_, _, _)
Attached(s, items, c) ==
    LET ends == {item.end : item \in {item \in Listed(items) : item.end <= c /\ ~ spans_newline(s, item.end, c)}}
        begun == {item.start : item \in {item \in Listed(items) : item.start < c}}
        starts == {item.start : item \in Listed(items)}
    IN IF ~ Place(s, c).trailing THEN NextCode(s, c) \in starts
       ELSE /\ ends = {Max({i \in Code(s) : i < c}) + 1}
            /\ \A held \in ToSet(comment_list(s)) :
                  held \in Max(begun) .. c - 1 => Attached(s, items, held)

(* No code is lost in a comment, every comment is printed once and in order, *)
(* the attached ones where they stood, and no two blank lines follow.        *)
CommentsStay ==
    kind = "unit" /\ Reread =>
        LET before == comment_list(texts[1])
            now == comment_list(texts[2])
        IN /\ pc = "print"
           /\ CodeTokens(texts[2]) = CodeTokens(texts[1])
           /\ Len(now) = Len(before)
           /\ \A i \in 1 .. Len(Text) - 2 : SubSeq(Text, i, i + 2) # <<"n", "n", "n">>
           /\ \A k \in DOMAIN before :
                 Attached(texts[1], trees[1], before[k]) => Place(texts[2], now[k]) = Place(texts[1], before[k])

-----------------------------------------------------------------------------
(* A comment first in its list, one line end after the item or the comment   *)
(* printed before it: the printer adds the other one.                        *)
Crowded(s, items, c) ==
    LET ends == {item.end : item \in Listed(items)} \cup {d + 1 : d \in ToSet(comment_list(s))}
        opener == Max({0} \cup {i \in Code(s) : i < c})
    IN /\ opener > 0 /\ s[opener] \in Openers \cup {"}else{"}
       /\ \E end \in ends : end < c /\ count_newlines(s, end, c) = 1

(* Formatting what was formatted changes nothing: "printing a formatted file *)
(* must produce the same bytes" (print.h:18-19), promised of every file.     *)
Settled == texts[3] = texts[2]

(* Violated, and so are both of the promises it is weaker than: one literal  *)
(* loses its page (06-tooling.md:155) and is changed by the second run too.  *)
(* A line is begun where no blank was, and a blank is left at the end of     *)
(* another, which the second run takes for a part of the line end.           *)
KeptOrSettled == kind = "markup" /\ pc = "done" => PageKept \/ Settled

(* What a second run changes again is among these: the slips, comments that  *)
(* the printer moves or crowds, and markup that is not on lines of its own   *)
(* throughout.  Outside them the promise of print.h is kept.                 *)
SettledAtOnce ==
    pc = "done" =>
        \/ Settled
        \/ kind = "unit" /\ \E c \in ToSet(comment_list(texts[1])) :
                               \/ ~ Attached(texts[1], trees[1], c)
                               \/ Crowded(texts[1], trees[1], c)
        \/ kind = "markup" /\ ~ Spaced({"\n"}, trees[1][1], FALSE)
        \/ IsExpr /\ \/ Slips(trees[1])
                     \/ \E n \in Nodes(trees[1]) : n[1] \in DOMAIN PostfixForms /\ n[2] = <<"neg", <<"int">>>>
=============================================================================
